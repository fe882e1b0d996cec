--------------------------- MODULE PacketCustody ---------------------------
(***************************************************************************)
(* What the replay log promises about a packet, whatever tasks, queues and *)
(* timers move it: a packet is created once, is then in one place at a     *)
(* time, moves only along the links of the topology, and once it has been  *)
(* read, dropped or lost it stays so.                                      *)
(***************************************************************************)
CONSTANTS
  Id,        \* packets
  Node, Link,
  Source,    \* [Link -> Node]
  Target     \* [Link -> Node]

VARIABLE place    \* place[id]: the step recorded last for a packet, and where

At(step, where) == [step |-> step, at |-> where]
Unborn == At("None", "nowhere")

\* What a packet's arrival in node n may be recorded as.
Arrivals(n) == {At("InNode", n), At("DroppedOnArrival", n),
                At("DroppedRandom", n), At("DroppedBufferFull", n)}

\* What may be recorded next for a packet whose last recorded step is p.
Successors(p) ==
  CASE p = Unborn -> UNION {Arrivals(n) : n \in Node}
    [] p.step = "InNode" ->
         {At("InTransit", l) : l \in {k \in Link : Source[k] = p.at}}
           \cup {At("DroppedBufferCleared", p.at), At("Delivered", p.at)}
    [] p.step = "InTransit" -> Arrivals(Target[p.at]) \cup {At("LostInTransit", p.at)}
    [] OTHER -> {}

Init == place = [id \in Id |-> Unborn]

\* One packet moves and the others stay.
Move(id) == \E q \in Successors(place[id]) : place' = [place EXCEPT ![id] = q]

\* A packet comes to node n and is duplicated there.  The copy is kept only
\* if the original was.
Duplicate(id, copy) ==
  /\ id # copy /\ place[copy] = Unborn
  /\ \E n \in Node : \E q, r \in {At("InNode", n), At("DroppedBufferFull", n)} :
       /\ place[id].step # "InNode" /\ q \in Successors(place[id])
       /\ r = At("InNode", n) => q = At("InNode", n)
       /\ place' = [place EXCEPT ![id] = q, ![copy] = r]

Next ==
  \/ \E id \in Id : Move(id)
  \/ \E id, copy \in Id : Duplicate(id, copy)

Spec == Init /\ [][Next]_place
=============================================================================
