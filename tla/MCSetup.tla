------------------------------ MODULE MCSetup ------------------------------
(***************************************************************************)
(* Configuration files for NetworkSetup, with addresses of three bits:     *)
(* hosts A (address 1) and B (address 6), between them routers.            *)
(***************************************************************************)
EXTENDS NetworkSetup

Route(dest, next, cost) == [destination |-> dest, next |-> next, cost |-> cost]
Interface(as, routes)   == [addresses |-> [k \in DOMAIN as |-> <<as[k], 2>>], routes |-> routes]
Host(id, ifs)           == [id |-> id, kind |-> "host", interfaces |-> ifs]
Router(id, ifs)         == [id |-> id, kind |-> "router", interfaces |-> ifs]
Between(id, from, to)   == [id |-> id, source |-> from, target |-> to]

A(routes) == Host("A", <<Interface(<<1>>, routes)>>)
B(routes) == Host("B", <<Interface(<<6>>, routes)>>)

\* Two routers; the cheaper route is given last, two more have the same cost,
\* and one router has an interface for each direction.
Detour ==
  [nodes |-> <<A(<<Route(<<7, 1>>, 2, 5), Route(<<6>>, 3, 1), Route(<<4, 2>>, 3, 5)>>),
               Router("R", <<Interface(<<2>>, <<Route(<<1, 3>>, 1, 0)>>),
                             Interface(<<4>>, <<Route(<<5, 1>>, 6, 2)>>)>>),
               Router("S", <<Interface(<<3, 5>>, <<Route(<<0, 2>>, 1, 1), Route(<<7, 2>>, 6, 1)>>)>>),
               B(<<Route(<<2, 1>>, 4, 3), Route(<<0, 2>>, 5, 2)>>)>>,
   links |-> <<Between("A-R", 1, 2), Between("A-S", 1, 3), Between("R-B", 4, 6),
               Between("S-B", 5, 6), Between("B-R", 6, 4), Between("B-S", 6, 5),
               Between("R-A", 2, 1), Between("S-A", 3, 1)>>]

\* A has a direct link and a second address that links and routes name.
TwoHomed(target) ==
  [nodes |-> <<Host("A", <<Interface(<<1>>, <<Route(<<6>>, 2, 1)>>),
                           Interface(<<0>>, <<Route(<<4, 1>>, 2, 0)>>)>>),
               Router("R", <<Interface(<<2>>, <<Route(<<6, 2>>, 6, 1), Route(<<1, 2>>, target, 1)>>)>>),
               B(<<Route(<<1, 1>>, 2, 1)>>)>>,
   links |-> <<Between("A-B", 0, 6), Between("A-R", 1, 2), Between("A'-R", 0, 2),
               Between("R-B", 2, 6), Between("B-R", 6, 2), Between("R-A", 2, target)>>]

\* The routers send packets for B to each other and have none for A.
Loop ==
  [nodes |-> <<A(<<Route(<<6>>, 2, 1)>>),
               Router("R", <<Interface(<<2>>, <<Route(<<6>>, 3, 1)>>)>>),
               Router("R", <<Interface(<<3>>, <<Route(<<6>>, 2, 1)>>)>>),
               B(<<Route(<<1>>, 3, 1)>>)>>,
   links |-> <<Between("A-R", 1, 2), Between("R-S", 2, 3), Between("S-R", 3, 2), Between("B-S", 6, 3)>>]

Pair(nodes, links) == [nodes |-> nodes, links |-> links]
Malformed ==
  {Pair(<<A(<<>>)>>, <<>>),
   Pair(<<A(<<>>), A(<<>>)>>, <<>>),
   Pair(<<A(<<>>), Host("B", <<>>)>>, <<>>),
   Pair(<<A(<<>>), Host("B", <<Interface(<<>>, <<>>)>>)>>, <<>>),
   Pair(<<A(<<>>), B(<<>>), Router("R", <<>>)>>, <<>>),
   Pair(<<A(<<>>), B(<<>>), Router("R", <<Interface(<<2, 6>>, <<>>)>>)>>, <<>>),
   Pair(<<A(<<>>), B(<<>>)>>, <<Between("x", 1, 6), Between("y", 1, 6)>>),
   Pair(<<A(<<>>), B(<<>>)>>, <<Between("x", 1, 6), Between("x", 6, 1)>>)}
  \cup {Pair(<<A(<<Route(d, 6, 1)>>), B(<<>>)>>, <<>>) : d \in {<<-1>>, <<1, 0>>, <<1, 4>>, <<1, 2, 2>>}}

Files == {Detour, TwoHomed(1), TwoHomed(0), Loop} \cup Malformed

-----------------------------------------------------------------------------

OnLink(t, id, status) ==
  [time |-> t, link |-> <<[id |-> id, status |-> status]>>, node |-> <<>>]
OnNode(t, id, status, clear) ==
  [time |-> t, link |-> <<>>, node |-> <<[id |-> id, status |-> status, clear_buffer |-> clear]>>]

Events ==
  {<<>>,
   \* Out of order, and contradicting each other at instant 2.
   <<OnLink(2, "A-R", "up"), OnLink(1, "A-R", "down"), OnLink(2, "A-R", "down"),
     OnLink(3, "A-R", "up"), OnNode(2, "R", "down", FALSE), OnNode(3, "R", "up", FALSE)>>,
   \* Down from the start; a clear is no status; nobody has that name.
   <<OnNode(1, "R", "none", TRUE), OnLink(2, "R-B", "up"), OnNode(2, "R", "up", TRUE),
     OnLink(0, "nobody", "down"), OnNode(3, "nobody", "down", FALSE)>>,
   \* Everything down at the very start; B stays down.
   <<OnLink(0, "A-B", "down"), OnLink(0, "A-R", "down"), OnNode(1, "B", "down", FALSE),
     OnLink(1, "A-B", "up")>>,
   <<[OnLink(1, "A-R", "up") EXCEPT !.node = OnNode(1, "R", "up", TRUE).node]>>,
   <<[OnLink(1, "A-R", "up") EXCEPT !.link = <<>>]>>}
=============================================================================
