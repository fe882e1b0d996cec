------------------------------ MODULE Routing ------------------------------
(***************************************************************************)
(* Addresses, address ranges, and the links that InMemoryNetwork visits to *)
(* route a packet: from the text of a configuration file to walk_links.    *)
(* Addresses have Bits bits instead of 32.                                 *)
(*                                                                         *)
(* A configuration is a record of `nodes' and `links'.  The text of an     *)
(* address range, "a/p", is the sequence of its parts, <<a>> or <<a, p>>;  *)
(* a part that is no number, or no IPv4 address, is -1.                    *)
(***************************************************************************)
EXTENDS Integers, Sequences, FiniteSets, SequencesExt, Bitwise

CONSTANT Bits

ASSUME BitsAssumption == Bits \in Nat \ {0}

MaxAddr == 2^Bits - 1
Addr    == 0..MaxAddr

-----------------------------------------------------------------------------
(* Ipv4Cidr and IpRange.                                                    *)

\* Ipv4Cidr::from_str: a missing prefix stands for a single address.
Prefix(parts) == IF Len(parts) = 1 THEN Bits ELSE parts[2]
IsCidr(parts) ==
  /\ Len(parts) \in {1, 2}
  /\ parts[1] \in Addr
  /\ Prefix(parts) \in 1..Bits

\* IpRange::from_cidr; u32::MAX << n drops the bits that are shifted out.
FromCidr(parts) ==
  LET mask == (MaxAddr * 2^(Bits - Prefix(parts))) % 2^Bits
  IN  [start |-> parts[1] & mask, end_inclusive |-> parts[1] | (MaxAddr - mask)]

-----------------------------------------------------------------------------
(* From the configuration to the specification of the network.              *)

\* NetworkNodeSpec::addresses: all interfaces, in order.
AddressesOf(interfaces) == FlattenSeq([i \in DOMAIN interfaces |-> interfaces[i].addresses])

\* Every range in the files parses; otherwise serde rejects the file.
Parses(json) ==
  \A n \in Range(json.nodes) : \A i \in Range(n.interfaces) :
    /\ \A a \in Range(i.addresses) : IsCidr(a)
    /\ \A r \in Range(i.routes) : IsCidr(r.destination)

\* From<NetworkSpecJson>: the address of an interface loses its prefix when it
\* is used (as_ip_addr), the destination of a route becomes a range.
ToRoute(r) == [destination |-> FromCidr(r.destination), next |-> r.next, cost |-> r.cost]
ToInterface(i) ==
  [addresses |-> [k \in DOMAIN i.addresses |-> i.addresses[k][1]],
   routes    |-> [k \in DOMAIN i.routes |-> ToRoute(i.routes[k])]]
ToSpec(json) ==
  [nodes |-> [k \in DOMAIN json.nodes |->
                LET n == json.nodes[k]
                IN  [id |-> n.id, kind |-> n.kind,
                     interfaces |-> [i \in DOMAIN n.interfaces |-> ToInterface(n.interfaces[i])]]],
   links |-> json.links]

-----------------------------------------------------------------------------
(* The tables of InMemoryNetwork, over a NetworkSpec s.  A node is known by *)
(* its place in s.nodes, a link by its place in s.links.                    *)

Addresses(s, n) == AddressesOf(s.nodes[n].interfaces)
OfKind(s, kind) == {n \in DOMAIN s.nodes : s.nodes[n].kind = kind}

\* slice::sort_by_key, which keeps the order of equal elements.
StableSort(q, Key(_)) ==
  LET Before(i, j) == Key(q[i]) < Key(q[j]) \/ (Key(q[i]) = Key(q[j]) /\ i < j)
      Place(i) == 1 + Cardinality({j \in DOMAIN q : Before(j, i)})
  IN  [k \in DOMAIN q |-> q[CHOOSE i \in DOMAIN q : Place(i) = k]]

ByCost_unsorted(routes) == routes
ByCost(routes) == StableSort(routes, LAMBDA r : r.cost)

\* routes_by_addr: of interfaces with the same address the last one counts.
InterfacesWith(s, a) ==
  UNION {{<<n, i>> : i \in {x \in DOMAIN s.nodes[n].interfaces :
                              a \in Range(s.nodes[n].interfaces[x].addresses)}} :
         n \in DOMAIN s.nodes}
RoutesByAddr(s) ==
  [a \in UNION {Range(Addresses(s, n)) : n \in DOMAIN s.nodes} |->
     LET all  == InterfacesWith(s, a)
         last == CHOOSE x \in all : \A y \in all :
                   y[1] < x[1] \/ (y[1] = x[1] /\ y[2] <= x[2])
     IN  ByCost(s.nodes[last[1]].interfaces[last[2]].routes)]

\* links_by_addr: the place of the link between two addresses, none or one.
LinksByAddr(s, from, to) ==
  {l \in DOMAIN s.links : s.links[l].source = from /\ s.links[l].target = to}
TheLink(s, from, to) == CHOOSE l \in LinksByAddr(s, from, to) : TRUE

\* Route::next_hop_towards_destination is Some(next).
LeadsTo(r, dest) == r.destination.start <= dest /\ dest <= r.destination.end_inclusive

\* What walk_links visits: direct links first, then what the routes of each
\* address lead to; `routes' is routes_by_addr.
DirectLinks(s, n, dest) ==
  LET from == SelectSeq(Addresses(s, n), LAMBDA a : LinksByAddr(s, a, dest) # {})
  IN  [k \in DOMAIN from |-> TheLink(s, from[k], dest)]
RoutedLinks(s, routes, a, dest) ==
  LET hops == SelectSeq(routes[a], LAMBDA r : LeadsTo(r, dest) /\ LinksByAddr(s, a, r.next) # {})
  IN  [k \in DOMAIN hops |-> TheLink(s, a, hops[k].next)]

WalkLinks_directOnly(s, routes, n, dest) == DirectLinks(s, n, dest)
WalkLinks(s, routes, n, dest) ==
  LET as == Addresses(s, n)
  IN  DirectLinks(s, n, dest)
        \o FlattenSeq([k \in DOMAIN as |-> RoutedLinks(s, routes, as[k], dest)])
HasRouteTo(s, routes, n, dest) == WalkLinks(s, routes, n, dest) # <<>>
=============================================================================
