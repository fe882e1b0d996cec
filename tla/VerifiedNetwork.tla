--------------------------- MODULE VerifiedNetwork ---------------------------
(***************************************************************************)
(* The network together with the verifier that replays its log.  The       *)
(* program runs the verifier after the simulation; since it reads the log  *)
(* from front to back, it is run here on each step as it is recorded.      *)
(***************************************************************************)
EXTENDS NetworkProperties

CONSTANTS
  Host,     \* the nodes that are hosts
  Window    \* length of the verifier's bandwidth window, in ms

\* Only hosts have a UDP endpoint to send from and to.
ASSUME VerifierAssumption ==
  /\ Host \subseteq Node /\ Flow \subseteq Host \X Host
  /\ IsFiniteSet(Node) /\ IsFiniteSet(Link)
  /\ Window \in Nat

VARIABLE replay    \* the verifier's state

V == INSTANCE Verifier

-----------------------------------------------------------------------------
(* What SimulationStepTracer records.                                       *)

\* track_packet_in_node, track_dropped_on_arrival, track_injected_failures.
ArrivalStep(id, node, dropped) ==
  [kind    |-> IF trace[id].step = "None" /\ data'[id].number # id THEN "Duplicated" ELSE "InNode",
   id      |-> id, number |-> data'[id].number, size |-> data'[id].size,
   node    |-> node, dropped |-> dropped]

DroppedStep(id, node, reason) ==
  [kind |-> "Dropped", id |-> id, node |-> node, reason |-> reason]

\* The steps recorded for packet id in a step of the network, from the last
\* one of them.
StepsFor(id) ==
  LET step == trace'[id].step
      at   == trace'[id].at
  IN  CASE step = "InNode"               -> <<ArrivalStep(id, at, FALSE)>>
        [] step = "DroppedOnArrival"     -> <<ArrivalStep(id, at, TRUE)>>
        [] step = "DroppedRandom"        -> <<ArrivalStep(id, at, FALSE), DroppedStep(id, at, "injected")>>
        [] step = "DroppedBufferFull"    -> <<ArrivalStep(id, at, FALSE), DroppedStep(id, at, "bufferFull")>>
        [] step = "DroppedBufferCleared" -> <<DroppedStep(id, at, "bufferCleared")>>
        [] step = "InTransit"     -> <<[kind |-> "InTransit", id |-> id, node |-> Source[at], link |-> at]>>
        [] step = "LostInTransit" -> <<[kind |-> "LostInTransit", id |-> id, link |-> at]>>
        [] step = "Delivered"     -> <<[kind |-> "Delivered", id |-> id, node |-> at]>>

\* The packets of which a step of the network records something.
Changed == {id \in Id : trace'[id] # trace[id]}

\* One packet at most and its duplicate, which has the higher id and is recorded
\* after it.
ReplayPackets ==
  \/ Changed = {} /\ UNCHANGED replay
  \/ \E visited \in V!Walks(replay), first, second \in Changed :
       /\ \A id \in Changed : first <= id /\ id <= second
       /\ LET w == V!VerifySteps(V!MeasureBuffers(replay, now, visited), StepsFor(first), now)
          IN  replay' = IF first = second THEN w ELSE V!VerifySteps(w, StepsFor(second), now)

ReplayEvent(s) ==
  \E visited \in V!Walks(replay) :
    replay' = V!VerifyStep(V!MeasureBuffers(replay, now, visited), s, now)

-----------------------------------------------------------------------------
VerifiedInit == Init /\ replay = V!NewVerifier(linkUp, lastDown, nodeUp)

VerifiedNext ==
  \/ /\ \/ \E f \in Flow, size \in Size, ecn \in HostEcn : HostSend(f, size, ecn)
        \/ \E n \in Node : HostReceive(n) \/ Dispatch(n)
        \/ \E l \in Link : LinkTask(l) \/ Forwarder(l)
        \/ Tick
     /\ ReplayPackets
  \/ \E l \in EventLink, up \in BOOLEAN :
       /\ LinkEvent(l, up)
       /\ ReplayEvent([kind |-> "LinkEvent", link |-> l, up |-> up])
  \/ \E n \in EventNode \cup ClearNode, up, clear \in BOOLEAN :
       /\ up # nodeUp[n] \/ ~clear => n \in EventNode
       /\ clear => n \in ClearNode
       /\ NodeEvent(n, up, clear)
       /\ ReplayEvent([kind |-> "NodeEvent", node |-> n, up |-> up, clear |-> clear])

VerifiedSpec == VerifiedInit /\ [][VerifiedNext]_<<vars, replay>>

-----------------------------------------------------------------------------
(* Properties.                                                              *)

\* The log never makes the verifier give up: no step refers to a packet that
\* the replay does not find in the node, or brings one twice (FatalError).
NeverFatal == replay.fatal = "none"

\* Packets that the verifier takes for stored, although the log says that they
\* were dropped when their host, which was down, created them.
Ghosts(n) == {id \in Id : trace[id] = Recorded("DroppedOnArrival", n) /\ data[id].src = n}

\* The replay mirrors the network: while no task has died, the verifier finds
\* in every node the packets in its buffer, queues and socket, with their size,
\* and besides them only such ghosts, and in flight the packets that are on the
\* links, sent when they were.
ReplayMirrorsNetwork ==
  dead = {} =>
    /\ replay.linkUp = linkUp /\ replay.nodeUp = nodeUp
    /\ \A n \in Node :
         LET here == {id \in Id : \E c \in Custodians(id) : c[1] # "transit" /\ c[2] = n}
             Sized(ids) == {<<id, data[id].size>> : id \in ids}
             seen == {<<p.id, p.size>> : p \in replay.packets[n]}
         IN  Sized(here) \subseteq seen /\ seen \subseteq Sized(here \cup Ghosts(n))
    /\ {<<x.link, x.id, x.sent>> : x \in replay.inFlight} =
         UNION {{<<l, y.id, y.sent>> : y \in inTransit[l]} : l \in Link}

\* The verifier objects to nothing that the network does, but for five things:
\*  - a packet received although it was sent at the very instant of a "down"
\*    event of its link (was_down_after has >, the verifier >= and also counts
\*    "down" events of a link that is down);
\*  - a packet sent by a node that is down, which the network really does;
\*  - a packet dropped by the down host that created it (packet_created);
\*  - the bytes that such packets take in the replay for ever or, with the real
\*    clock, those of packets that a host has not read yet, and
\*  - a saturated link: a packet counts in full although its window ends before
\*    the packet is sent completely.
KnownAlarms ==
  [][\A e \in replay'.errors \ replay.errors :
       \/ /\ e.kind = "OfflinePacketReceive"
          /\ \E l \in Link : \E x \in inTransit[l] :
               x.id = e.id /\ x.sent \in {lastDown[l], replay.lastDown[l]}
       \/ /\ e.kind = "NodeDownPacketSend"
          /\ ~nodeUp[e.at] /\ trace'[e.id].step = "InTransit"
       \/ /\ e.kind = "NodeDownPacketReceive"
          /\ trace'[e.id] = Recorded("DroppedOnArrival", e.at) /\ data'[e.id].src = e.at
       \/ /\ e.kind = "NodeExceedsBufferSize"
          /\ Ghosts(e.at) # {} \/ (~TimeWarp /\ e.at \in Host)
       \/ /\ e.kind = "LinkBandwidthExceeded"
          /\ \E l \in Link : /\ trace'[e.id] = Recorded("InTransit", l)
                             /\ \E x \in replay'.sends[l] : x.at + Window < sendDone'[l]]_<<vars, replay>>

\* The counters add up: what came into a router or was duplicated there was
\* sent, dropped or is still there, and what nodes sent arrived, was lost or is
\* in flight (NodeStats, LinkStats).
Counted(counter) == UNION {{n} \X (1..replay.stats[n][counter]) : n \in Node}
LostPackets == UNION {{l} \X (1..replay.lost[l]) : l \in Link}
StatsAddUp ==
  /\ \A n \in Node \ Host :
       LET count == replay.stats[n]
       IN  count["received"] + count["duplicates"] =
             count["sent"] + count["injected"] + count["bufferFull"] + count["bufferCleared"]
               + count["onArrival"] + Cardinality(replay.packets[n])
  /\ Cardinality(Counted("sent")) =
       Cardinality(Counted("received")) + Cardinality(LostPackets) + Cardinality(replay.inFlight)

\* On a single path without injected delays nothing is received out of order,
\* not even duplicates (received_out_of_order).
NothingReordered == \A n \in Node : replay.stats[n]["reordered"] = 0
=============================================================================
