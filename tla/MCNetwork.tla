----------------------------- MODULE MCNetwork -----------------------------
(***************************************************************************)
(* Small networks for TLC.                                                 *)
(*   Parallel: host a reaches host b over l1, or over the dearer l2.       *)
(*   Repeated: the same, but a route of a names l1 once more.              *)
(*   Chain:    host a reaches host b over l1, node r and l2.               *)
(*   Fork:     host a reaches host b over l1, or over the dearer l2 and    *)
(*             node r; it reaches r over l2, or over the dearer l3.  There *)
(*             is no route from r to b, which r finds out if l2 is taken.  *)
(***************************************************************************)
EXTENDS NetworkProperties

CONSTANTS a, r, b, l1, l2, l3

TwoLinks == {l1, l2}
AToB     == {<<a, b>>}

ParallelNodes  == {a, b}
ParallelSource == [l \in TwoLinks |-> a]
ParallelTarget == [l \in TwoLinks |-> b]
ParallelCandidates ==
  [n \in ParallelNodes |-> [d \in ParallelNodes |->
     IF n = a /\ d = b THEN <<l1, l2>> ELSE <<>>]]

RepeatedCandidates ==
  [n \in ParallelNodes |-> [d \in ParallelNodes |->
     IF n = a /\ d = b THEN <<l1, l2, l1>> ELSE <<>>]]

ChainNodes  == {a, r, b}
ChainSource == [l \in TwoLinks |-> IF l = l1 THEN a ELSE r]
ChainTarget == [l \in TwoLinks |-> IF l = l1 THEN r ELSE b]
ChainCandidates ==
  [n \in ChainNodes |-> [d \in ChainNodes |->
     CASE n = a /\ d # a -> <<l1>>
       [] n = r /\ d = b -> <<l2>>
       [] OTHER          -> <<>>]]

ThreeLinks == {l1, l2, l3}
ForkFlows  == {<<a, b>>, <<a, r>>}
ForkSource == [l \in ThreeLinks |-> a]
ForkTarget == [l \in ThreeLinks |-> IF l = l1 THEN b ELSE r]
ForkCandidates ==
  [n \in ChainNodes |-> [d \in ChainNodes |->
     CASE n = a /\ d = b -> <<l1, l2>>
       [] n = a /\ d = r -> <<l2, l3>>
       [] OTHER          -> <<>>]]

\* Link parameters.
NoExtra == [l \in TwoLinks |-> 0]
Unit    == [l \in TwoLinks |-> 1]
Double  == [l \in TwoLinks |-> 2]
Uneven  == [l \in TwoLinks |-> IF l = l1 THEN 1 ELSE 2]
SlowL1  == [l \in TwoLinks |-> IF l = l1 THEN 2 ELSE 0]
ForkNoExtra == [l \in ThreeLinks |-> 0]
ForkUnit    == [l \in ThreeLinks |-> 1]

ParallelCapacity == [n \in ParallelNodes |-> 3]
ChainCapacity    == [n \in ChainNodes |-> 2]
=============================================================================
