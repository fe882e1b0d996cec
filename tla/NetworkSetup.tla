---------------------------- MODULE NetworkSetup ----------------------------
(***************************************************************************)
(* From the configuration files to a running network: the files are        *)
(* parsed, the events sorted and initial statuses derived from them        *)
(* (NetworkEvents::new), the tables checked and filled in                  *)
(* (InMemoryNetwork::initialize); then the event task applies the events   *)
(* as time passes, and a packet finds its way over the links that          *)
(* walk_links offers.  What happens to it on a link, and between packets,  *)
(* is the business of module Network: here a hop is one step.              *)
(***************************************************************************)
EXTENDS Routing

CONSTANTS
  Topologies,    \* the network configuration files, see Routing
  EventFiles,    \* the event files: sequences of [time, link, node], where
                 \* link and node are <<>> or the sequence of one payload
  Horizon        \* bound: last instant

ASSUME HorizonAssumption ==
  /\ Horizon \in Nat
  /\ \A f \in EventFiles : \A e \in Range(f) : e.time \in 0..Horizon

VARIABLES
  json,          \* NetworkSpecJson
  raw,           \* NetworkEventsJson
  fresh,         \* tracer and start instant are of this very moment
  warp,          \* disable_time_warping is not set
  phase,         \* "files" -> "spec" -> "running", or "rejected"
  spec,          \* NetworkSpec
  routesByAddr,  \* routes_by_addr
  schedule,      \* sorted_events that are still to come
  now,           \* start.elapsed()
  linkUp,        \* NetworkLink.status
  nodeUp,        \* Node.status
  lastClear,     \* Node.last_buffer_clear
  packet         \* the packet that finds its way

files == <<json, raw, fresh, warp>>
vars  == <<files, phase, spec, routesByAddr, schedule, now, linkUp, nodeUp, lastClear, packet>>

Never    == -1
NoPacket == [at |-> 0, dst |-> 0, since |-> 0, st |-> "none"]
Settled  == {"delivered", "dropped", "wiped", "lost"}
Stranded == {"noRoute", "panicked"}

-----------------------------------------------------------------------------
(* Events: NetworkEventJson and NetworkEvents.                              *)

IsEvent(r) == Len(r.link) + Len(r.node) = 1

ToEvent(r) ==
  IF r.node # <<>>
  THEN [time |-> r.time, kind |-> "node", id |-> r.node[1].id,
        status |-> r.node[1].status, clear |-> r.node[1].clear_buffer]
  ELSE [time |-> r.time, kind |-> "link", id |-> r.link[1].id,
        status |-> r.link[1].status, clear |-> FALSE]

SortedEvents_asGiven(es) == es
SortedEvents(es) == StableSort(es, LAMBDA e : e.time)

StatusEvents(es, kind, id) ==
  SelectSeq(es, LAMBDA e : e.kind = kind /\ e.id = id /\ e.status # "none")

InitiallyUp_always(es, kind, id) == TRUE

\* get_initial_status_for_links_with_events and its twin for nodes: before its
\* first status event a thing has the opposite status; without any it is up.
InitiallyUp(es, kind, id) ==
  LET mine == StatusEvents(es, kind, id)
  IN  mine = <<>> \/ mine[1].status = "down"

-----------------------------------------------------------------------------
(* The tables of initialize.                                                *)

SeqOfKind(s, kind) ==
  SelectSeq([n \in DOMAIN s.nodes |-> n], LAMBDA n : s.nodes[n].kind = kind)

\* Node ids and addresses are registered for the hosts first, then for the
\* routers; a host is bound to its first address only.
Registered(s) == SeqOfKind(s, "host") \o SeqOfKind(s, "router")
Bindings(s) ==
  LET BoundTo(n) == IF s.nodes[n].kind = "host" THEN <<Addresses(s, n)[1]>> ELSE Addresses(s, n)
      order == Registered(s)
  IN  FlattenSeq([k \in DOMAIN order |->
        [j \in DOMAIN BoundTo(order[k]) |-> [addr |-> BoundTo(order[k])[j], node |-> order[k]]]])

\* nodes_by_id: of nodes with the same id the last one counts.
NodesWithId(s, id) == SelectSeq(Registered(s), LAMBDA n : s.nodes[n].id = id)
NodesById(s, id)   == {n \in Range(NodesWithId(s, id)) : n = Last(NodesWithId(s, id))}
LinksById(s, id)   == {l \in DOMAIN s.links : s.links[l].id = id}
NodesByAddr(s, a)  == {b.node : b \in {x \in Range(Bindings(s)) : x.addr = a}}

\* The checks of initialize, Node::host and Node::router.
Accepted(s) ==
  /\ Len(SeqOfKind(s, "host")) >= 2
  /\ \A n \in OfKind(s, "host") :
       s.nodes[n].interfaces # <<>> /\ s.nodes[n].interfaces[1].addresses # <<>>
  /\ \A n \in OfKind(s, "router") : Addresses(s, n) # <<>>
  /\ \A j, k \in DOMAIN Bindings(s) : j # k => Bindings(s)[j].addr # Bindings(s)[k].addr
  /\ \A j, k \in DOMAIN s.links : j # k =>
       /\ s.links[j].id # s.links[k].id
       /\ <<s.links[j].source, s.links[j].target>> # <<s.links[k].source, s.links[k].target>>

-----------------------------------------------------------------------------
(* Setting up.                                                              *)

\* serde reads the files; then the specification and the events are derived.
Load ==
  /\ phase = "files"
  /\ IF Parses(json) /\ \A e \in Range(raw) : IsEvent(e)
     THEN /\ phase' = "spec"
          /\ spec' = ToSpec(json)
          /\ schedule' = SortedEvents([k \in DOMAIN raw |-> ToEvent(raw[k])])
     ELSE /\ phase' = "rejected"
          /\ UNCHANGED <<spec, schedule>>
  /\ UNCHANGED <<files, routesByAddr, now, linkUp, nodeUp, lastClear, packet>>

Initialize ==
  /\ phase = "spec"
  /\ IF (~warp \/ fresh) /\ Accepted(spec)
     THEN /\ phase' = "running"
          /\ routesByAddr' = RoutesByAddr(spec)
          /\ linkUp' = [l \in DOMAIN spec.links |-> InitiallyUp(schedule, "link", spec.links[l].id)]
          /\ nodeUp' = [n \in DOMAIN spec.nodes |->
                          n \in NodesById(spec, spec.nodes[n].id)
                            => InitiallyUp(schedule, "node", spec.nodes[n].id)]
          /\ lastClear' = [n \in DOMAIN spec.nodes |-> Never]
     ELSE /\ phase' = "rejected"
          /\ UNCHANGED <<routesByAddr, linkUp, nodeUp, lastClear>>
  /\ UNCHANGED <<files, spec, schedule, now, packet>>

-----------------------------------------------------------------------------
(* The event task.                                                          *)

Updated(up, e) == IF e.status = "none" THEN up ELSE e.status = "up"

\* process_link_event and process_node_event; an unknown id is skipped.
ProcessLinkEvent(e) ==
  /\ e.kind = "link"
  /\ linkUp' = [l \in DOMAIN linkUp |->
                  IF l \in LinksById(spec, e.id) THEN Updated(linkUp[l], e) ELSE linkUp[l]]
  /\ UNCHANGED <<nodeUp, lastClear>>

ProcessNodeEvent(e) ==
  /\ e.kind = "node"
  /\ nodeUp' = [n \in DOMAIN nodeUp |->
                  IF n \in NodesById(spec, e.id) THEN Updated(nodeUp[n], e) ELSE nodeUp[n]]
  /\ lastClear' = [n \in DOMAIN nodeUp |->
                     IF n \in NodesById(spec, e.id) /\ e.clear THEN now ELSE lastClear[n]]
  /\ UNCHANGED linkUp

EventDue == phase = "running" /\ schedule # <<>> /\ schedule[1].time <= now

ApplyEvent ==
  /\ EventDue
  /\ ProcessLinkEvent(schedule[1]) \/ ProcessNodeEvent(schedule[1])
  /\ schedule' = Tail(schedule)
  /\ UNCHANGED <<files, phase, spec, routesByAddr, now, packet>>

\* A paused clock waits for the tasks that can run.
Tick ==
  /\ phase = "running" /\ now < Horizon
  /\ warp => ~EventDue
  /\ now' = now + 1
  /\ UNCHANGED <<files, phase, spec, routesByAddr, schedule, linkUp, nodeUp, lastClear, packet>>

-----------------------------------------------------------------------------
(* A packet on its way.                                                     *)

IsEndpoint(n, dst) == spec.nodes[n].kind = "host" /\ Addresses(spec, n)[1] = dst

\* InMemoryNetwork::forward, when the packet is not lost at random.
Arrive(n, dst) ==
  packet' = [at |-> n, dst |-> dst, since |-> now,
             st |-> IF ~nodeUp[n] THEN "dropped"
                    ELSE IF IsEndpoint(n, dst) THEN "delivered" ELSE "buffered"]

\* Sockets exist for hosts, and send to the first address of another one.
Send(h, g) ==
  /\ phase = "running" /\ packet = NoPacket
  /\ h # g
  /\ Arrive(h, Addresses(spec, g)[1])
  /\ UNCHANGED <<files, phase, spec, routesByAddr, schedule, now, linkUp, nodeUp, lastClear>>

Become(st) == packet' = [packet EXCEPT !.st = st]

\* process_buffer_for_node finds nothing to walk, and ends.
NoRoute ==
  /\ ~HasRouteTo(spec, routesByAddr, packet.at, packet.dst)
  /\ Become("noRoute")

\* One of the links that were offered the packet is up and takes it.
Wiped    == lastClear[packet.at] > packet.since
Cross(l) ==
  /\ l \in Range(WalkLinks(spec, routesByAddr, packet.at, packet.dst))
  /\ linkUp[l]
  /\ LET next == NodesByAddr(spec, spec.links[l].target)
     IN  \/ Wiped /\ Become("wiped")
         \/ ~Wiped /\ Become("lost")
         \/ ~Wiped /\ next = {} /\ Become("panicked")
         \/ ~Wiped /\ \E n \in next : Arrive(n, packet.dst)

Hop ==
  /\ phase = "running" /\ packet.st = "buffered"
  /\ NoRoute \/ \E l \in DOMAIN linkUp : Cross(l)
  /\ UNCHANGED <<files, phase, spec, routesByAddr, schedule, now, linkUp, nodeUp, lastClear>>

-----------------------------------------------------------------------------

Init ==
  /\ json \in Topologies /\ raw \in EventFiles
  /\ fresh \in BOOLEAN /\ warp \in BOOLEAN
  /\ phase = "files"
  /\ spec = [nodes |-> <<>>, links |-> <<>>]
  /\ routesByAddr = <<>> /\ schedule = <<>> /\ now = 0
  /\ linkUp = <<>> /\ nodeUp = <<>> /\ lastClear = <<>>
  /\ packet = NoPacket

Next ==
  \/ Load
  \/ Initialize
  \/ ApplyEvent
  \/ Tick
  \/ \E h, g \in OfKind(spec, "host") : Send(h, g)
  \/ Hop

\* The clock and the tasks go on; a packet in a node that is down may wait.
Fairness ==
  /\ WF_vars(Load) /\ WF_vars(Initialize)
  /\ WF_vars(ApplyEvent) /\ WF_vars(Tick)
  /\ WF_vars(Hop /\ nodeUp[packet.at])

Spec == Init /\ [][Next]_vars /\ Fairness

-----------------------------------------------------------------------------
(* Properties.                                                              *)

\* Statuses belong to the links and nodes of the accepted specification, the
\* remaining events are in the order of time (NetworkEvents.sorted_events),
\* and a packet waits in a node that it is not addressed to.
TypeOK ==
  /\ phase \in {"files", "spec", "running", "rejected"}
  /\ now \in 0..Horizon
  /\ \A j, k \in DOMAIN schedule : j < k => schedule[j].time <= schedule[k].time
  /\ phase = "running" =>
       /\ linkUp \in [DOMAIN spec.links -> BOOLEAN]
       /\ nodeUp \in [DOMAIN spec.nodes -> BOOLEAN]
       /\ lastClear \in [DOMAIN spec.nodes -> Never..now]
  /\ packet.st \in {"none", "buffered"} \cup Settled \cup Stranded
  /\ packet.st = "buffered" =>
       packet.at \in DOMAIN spec.nodes /\ ~IsEndpoint(packet.at, packet.dst)

\* The status that the event file gives to the link or node `id' at instant t,
\* whatever the order of the file: that of the last status event until then,
\* which for equal times is the later one in the file; before the first one
\* the opposite of it; up if there is none.
FileEvents(kind, id) ==
  {k \in DOMAIN raw : LET e == ToEvent(raw[k])
                      IN  e.kind = kind /\ e.id = id /\ e.status # "none"}
NotAfter(j, k) == raw[j].time < raw[k].time \/ (raw[j].time = raw[k].time /\ j <= k)
FileStatus(k)  == ToEvent(raw[k]).status = "up"
StatusAt(kind, id, t) ==
  LET all  == FileEvents(kind, id)
      past == {k \in all : raw[k].time <= t}
  IN  IF all = {} THEN TRUE
      ELSE IF past = {} THEN ~FileStatus(CHOOSE k \in all : \A j \in all : NotAfter(k, j))
      ELSE FileStatus(CHOOSE k \in past : \A j \in past : NotAfter(j, k))

\* NetworkEvents::new and the event task: once no event is due, every link and
\* every node that its id finds has the status that the file gives it at this
\* instant, from before its first event on, also when events of the same
\* instant contradict each other or only clear a buffer.
StatusFollowsSchedule ==
  phase = "running" /\ ~EventDue =>
    /\ \A l \in DOMAIN linkUp : linkUp[l] = StatusAt("link", spec.links[l].id, now)
    /\ \A n \in DOMAIN nodeUp : n \in NodesById(spec, spec.nodes[n].id)
         => nodeUp[n] = StatusAt("node", spec.nodes[n].id, now)

\* The routes of a configuration, read bit by bit: the range a/p covers the
\* addresses that agree with a on the first p bits.
Covers(parts, a) == a \div 2^(Bits - Prefix(parts)) = parts[1] \div 2^(Bits - Prefix(parts))
OnInterface(n, i, addr) == \E a \in Range(json.nodes[n].interfaces[i].addresses) : a[1] = addr
RoutesOf(n, l, dst) ==
  UNION {{r \in Range(json.nodes[n].interfaces[i].routes) :
            Covers(r.destination, dst) /\ r.next = json.links[l].target} :
         i \in {x \in DOMAIN json.nodes[n].interfaces : OnInterface(n, x, json.links[l].source)}}
Leaves(n, l) == \E i \in DOMAIN json.nodes[n].interfaces : OnInterface(n, i, json.links[l].source)
Direct(n, l, dst) == Leaves(n, l) /\ json.links[l].target = dst
Routed(n, l, dst) == RoutesOf(n, l, dst) # {}
UsableLinks(n, dst) == {l \in DOMAIN json.links : Direct(n, l, dst) \/ Routed(n, l, dst)}
Cheapest(n, l, dst) ==
  CHOOSE c \in {r.cost : r \in RoutesOf(n, l, dst)} : \A r \in RoutesOf(n, l, dst) : c <= r.cost

\* No address is given to two interfaces; initialize accepts such files when
\* the second one is a further address of a host, and then routes_by_addr
\* holds the routes of one interface only.
Unambiguous ==
  \A n, m \in DOMAIN json.nodes :
    \A i \in DOMAIN json.nodes[n].interfaces, j \in DOMAIN json.nodes[m].interfaces :
      <<n, i>> # <<m, j>> =>
        \A a \in Range(json.nodes[n].interfaces[i].addresses) : ~OnInterface(m, j, a[1])

WalkIsRight(n, dst) ==
  LET walk   == WalkLinks(spec, routesByAddr, n, dst)
      direct == {l \in DOMAIN json.links : Direct(n, l, dst)}
      routed == {l \in DOMAIN json.links : Routed(n, l, dst)}
      later  == (Cardinality(direct) + 1)..Len(walk)
      First(l) == CHOOSE k \in later : walk[k] = l /\ \A j \in later : walk[j] = l => k <= j
  IN  /\ Range(walk) = direct \cup routed
      /\ \A k \in DOMAIN walk \ later : walk[k] \in direct
      /\ \A l, m \in routed :
           /\ json.links[l].source = json.links[m].source
           /\ Cheapest(n, l, dst) < Cheapest(n, m, dst)
           => First(l) < First(m)

\* walk_links, from the text of the ranges on: in a network that initialize
\* accepts it visits, for every node and destination, exactly the links that
\* leave the node and lead to the destination or to the next hop of a route
\* that covers it; direct links come first, and of two routed links that leave
\* the same address the cheaper one.
WalkMatchesRoutes ==
  [][phase' = "running" /\ phase # "running" /\ Unambiguous =>
       \A n \in DOMAIN spec.nodes, dst \in Addr : WalkIsRight(n, dst)']_vars

\* The nodes from which every path of usable links leads to dst in at most k hops.
Bound(a) == {n \in DOMAIN json.nodes : NodesByAddr(spec, a) = {n}}
SafeWithin(dst) ==
  LET safe[k \in Nat] ==
        IF k = 0 THEN {n \in DOMAIN json.nodes : IsEndpoint(n, dst)}
        ELSE LET nearer == safe[k - 1]
                 IsSafe(n) == /\ UsableLinks(n, dst) # {}
                              /\ \A l \in UsableLinks(n, dst) :
                                   /\ Bound(json.links[l].target) # {}
                                   /\ Bound(json.links[l].target) \subseteq nearer
             IN  nearer \cup {n \in DOMAIN json.nodes \ nearer : IsSafe(n)}
  IN  safe[Len(json.nodes)]
EndsUp ==
  /\ \A l \in DOMAIN spec.links : StatusAt("link", spec.links[l].id, Horizon)
  /\ \A n \in DOMAIN spec.nodes : StatusAt("node", spec.nodes[n].id, Horizon)
WellRouted == Unambiguous /\ EndsUp /\ packet.at \in SafeWithin(packet.dst)

\* forward, walk_links and nodes_by_addr together: where the routes of the file
\* have no loop and no gap, and everything is up in the end, every packet comes
\* to rest at its destination, or is lost, wiped or dropped by a node that is
\* down; it never stays in a buffer, never misses a route, and never meets a
\* link whose target no node is bound to.
PacketsArrive ==
  (packet.st = "buffered" /\ WellRouted) ~> (packet.st \in Settled)
=============================================================================
