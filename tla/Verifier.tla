------------------------------ MODULE Verifier ------------------------------
(***************************************************************************)
(* SimulationVerifier: replays the log of a simulation, step by step, and  *)
(* raises an alarm (a NonFatalError) for everything in it that a network   *)
(* could not have done.  A FatalError ends the replay.                     *)
(*                                                                         *)
(* The verifier is a fold over the steps in the order of their times,      *)
(* which is the order they were recorded in.  Its state is a record; every *)
(* operator below takes it and returns the next one.                       *)
(***************************************************************************)
EXTENDS Integers, Sequences, FiniteSets, FiniteSetsExt

CONSTANTS
  Node, Link,
  Source, Target,    \* LinkMetadata.source_node_id, target_node_id
  Delay,             \* LinkMetadata.delay
  Bandwidth,         \* LinkMetadata.bandwidth_bps, in bytes per ms
  Capacity,          \* NodeMetadata.buffer_size_bytes
  Host,              \* SimulationVerifier.host_nodes
  Window             \* length of the bandwidth window, in ms

Counter == {"sent", "received", "reordered", "duplicates", "injected", "bufferFull",
            "bufferCleared", "onArrival"}

\* SimulationVerifier::new, once the initial events were replayed: links and
\* nodes are down as they say, and the down links are so since the start.
NewVerifier(up, lastDown, nodesUp) ==
  [nodeUp    |-> nodesUp,                              \* ReplayedNode.status
   lastClear |-> [n \in Node |-> -1],                  \* .last_buffer_clear (-1: None)
   packets   |-> [n \in Node |-> {}],                  \* .packets
   highest   |-> [n \in Node |-> 0],                   \* .highest_received
   maxUsage  |-> [n \in Node |-> 0],                   \* .max_buffer_usage
   stats     |-> [n \in Node |-> [c \in Counter |-> 0]],
   linkUp    |-> up,                                   \* ReplayedLink.status
   lastDown  |-> lastDown,                             \* .last_down_relative
   sends     |-> [l \in Link |-> {}],                  \* .packets_in_bandwidth_window
   lost      |-> [l \in Link |-> 0],                   \* LinkStats.dropped_in_transit
   inFlight  |-> {},
   errors    |-> {},
   fatal     |-> "none",
   time      |-> 0]                                    \* last_step_time

-----------------------------------------------------------------------------
(* Errors and counters.                                                     *)

Error(kind, at, id) == [kind |-> kind, at |-> at, id |-> id]
Alarm(bad, v, kind, at, id) ==
  IF bad THEN [v EXCEPT !.errors = @ \cup {Error(kind, at, id)}] ELSE v
Fatal(v, kind) == [v EXCEPT !.fatal = kind]
Count(v, n, counter) == [v EXCEPT !.stats[n][counter] = @ + 1]

-----------------------------------------------------------------------------
(* ReplayedNode.                                                            *)

WithId(packets, id) == {p \in packets : p.id = id}

\* The bytes of some packets, counted one by one.
Bytes(packets) == Cardinality(UNION {{p} \X (1..p.size) : p \in packets})

\* buffer_usage: packets are added to it and taken from it with the map.
Usage(v, n) == Bytes(v.packets[n])

AddPacketToBuffer(v, n, id, size, t) ==
  LET w == Alarm(~v.nodeUp[n], v, "NodeDownPacketReceive", n, id)
  IN  IF WithId(v.packets[n], id) # {} THEN Fatal(w, "PacketAlreadyReceived")
      ELSE [w EXCEPT !.packets[n] = @ \cup {[id |-> id, size |-> size, since |-> t]}]

\* What `counted' becomes without the packet, if it is there.
RemovePacketFromBuffer(v, n, id, counted) ==
  IF WithId(v.packets[n], id) = {} THEN Fatal(v, "MissingPacket")
  ELSE [counted EXCEPT !.packets[n] = @ \ WithId(@, id)]

\* Received packets count as reordered when a higher number came before.
TrackReceived(v, s) ==
  LET w == IF v.highest[s.node] > s.number THEN Count(v, s.node, "reordered") ELSE v
  IN  [Count(w, s.node, "received") EXCEPT !.highest[s.node] = Max({@, s.number})]

PacketReceived(v, s, t) ==
  LET w == TrackReceived(v, s)
  IN  IF s.dropped
      THEN Count(Alarm(v.nodeUp[s.node], w, "NodeUpPacketDroppedOnArrival", s.node, s.id),
                 s.node, "onArrival")
      ELSE AddPacketToBuffer(w, s.node, s.id, s.size, t)

PacketSent(v, s) ==
  LET wiped == \E p \in WithId(v.packets[s.node], s.id) : p.since < v.lastClear[s.node]
      w1    == Alarm(~v.nodeUp[s.node], v, "NodeDownPacketSend", s.node, s.id)
      w2    == Alarm(wiped, w1, "PacketSurvivedBufferCorruption", s.node, s.id)
  IN  RemovePacketFromBuffer(w1, s.node, s.id, Count(w2, s.node, "sent"))

-----------------------------------------------------------------------------
(* ReplayedLink::packet_sent: the sends in the last Window ms, of which     *)
(* both ends belong to the window.                                          *)

WindowAt(v, l, t, id, size) ==
  {x \in v.sends[l] : x.at + Window >= t} \cup {[id |-> id, at |-> t, size |-> size]}

BandwidthExceeded(l, sends) == Bandwidth[l] * Window < Bytes(sends)

-----------------------------------------------------------------------------
(* SimulationVerifier::verify, one branch for each kind of step.            *)

\* The alarms about the link that brought packet x to node n.
LinkAlarms(v, x, n, t) ==
  {e \in {Error("DisconnectedPacketReceive", n, x.id)} : Target[x.link] # n}
    \cup {e \in {Error("TooFastPacketReceive", n, x.id)} : t - x.sent < Delay[x.link] + x.extra}
    \cup {e \in {Error("OfflinePacketReceive", n, x.id)} : v.lastDown[x.link] >= x.sent}

\* A packet that was not in flight must have just been created.
VerifyCreated(v, s, t) ==
  AddPacketToBuffer(Alarm(s.node \notin Host, v, "PacketCreatedByRouterNode", s.node, s.id),
                    s.node, s.id, s.size, t)

VerifyInNode(v, s, t) ==
  LET flights == WithId(v.inFlight, s.id)
      alarms  == UNION {LinkAlarms(v, x, s.node, t) : x \in flights}
  IN  IF flights = {} THEN VerifyCreated(v, s, t)
      ELSE PacketReceived([v EXCEPT !.inFlight = @ \ flights, !.errors = @ \cup alarms], s, t)

DuplicatedUncounted(v, s, t) == AddPacketToBuffer(v, s.node, s.id, s.size, t)
VerifyDuplicated(v, s, t) ==
  AddPacketToBuffer(Count(v, s.node, "duplicates"), s.node, s.id, s.size, t)

VerifyDropped(v, s) ==
  RemovePacketFromBuffer(v, s.node, s.id, Count(v, s.node, s.reason))

LostStaysInFlight(v, s) ==
  IF WithId(v.inFlight, s.id) = {} THEN Alarm(TRUE, v, "MissingLostPacket", s.link, s.id)
  ELSE [v EXCEPT !.lost[s.link] = @ + 1]
VerifyLostInTransit(v, s) ==
  LET flights == WithId(v.inFlight, s.id)
  IN  IF flights = {} THEN Alarm(TRUE, v, "MissingLostPacket", s.link, s.id)
      ELSE [v EXCEPT !.inFlight = @ \ flights, !.lost[s.link] = @ + 1]

\* The packet goes in flight without the extra delay it may have been given:
\* no step that announces one is ever recorded.
VerifyInTransit(v, s, t) ==
  LET size  == CHOOSE z \in {p.size : p \in WithId(v.packets[s.node], s.id)} : TRUE
      w     == PacketSent(v, s)
      sends == WindowAt(v, s.link, t, s.id, size)
      w1    == Alarm(Source[s.link] # s.node, w, "DisconnectedPacketSend", s.node, s.id)
      w2    == Alarm(~v.linkUp[s.link], w1, "OfflinePacketSend", s.node, s.id)
      w3    == Alarm(BandwidthExceeded(s.link, sends), w2, "LinkBandwidthExceeded", s.node, s.id)
      x     == [id |-> s.id, link |-> s.link, sent |-> t, extra |-> 0]
  IN  IF w.fatal # "none" THEN w
      ELSE [w3 EXCEPT !.sends[s.link] = sends,
                      !.inFlight = (@ \ WithId(@, s.id)) \cup {x}]

VerifyDelivered(v, s) == RemovePacketFromBuffer(v, s.node, s.id, v)

\* Every "down" moves last_down, also of a link that is down already.
VerifyLinkEvent(v, s, t) ==
  [v EXCEPT !.linkUp[s.link] = s.up, !.lastDown[s.link] = IF s.up THEN @ ELSE t]

VerifyNodeEvent(v, s, t) ==
  [v EXCEPT !.nodeUp[s.node] = s.up, !.lastClear[s.node] = IF s.clear THEN t ELSE @]

VerifyStep(v, s, t) ==
  IF v.fatal # "none" THEN v
  ELSE CASE s.kind = "InNode"        -> VerifyInNode(v, s, t)
         [] s.kind = "Duplicated"    -> VerifyDuplicated(v, s, t)
         [] s.kind = "Dropped"       -> VerifyDropped(v, s)
         [] s.kind = "LostInTransit" -> VerifyLostInTransit(v, s)
         [] s.kind = "InTransit"     -> VerifyInTransit(v, s, t)
         [] s.kind = "Delivered"     -> VerifyDelivered(v, s)
         [] s.kind = "LinkEvent"     -> VerifyLinkEvent(v, s, t)
         [] s.kind = "NodeEvent"     -> VerifyNodeEvent(v, s, t)

-----------------------------------------------------------------------------
\* update_max_buffer_usage walks the nodes in any order and stops at the first
\* one that exceeds its buffer; `visited' are the nodes it gets to.
PeakUsage(v, n) == Max({Usage(v, n), v.maxUsage[n]})
Exceeding(v) == {n \in Node : Capacity[n] < PeakUsage(v, n)}
Walks(v) ==
  IF Exceeding(v) = {} THEN {Node}
  ELSE {visited \in SUBSET Node : Cardinality(visited \cap Exceeding(v)) = 1}

UpdateMaxBufferUsage(v, visited) ==
  [v EXCEPT !.maxUsage = [n \in Node |-> IF n \in visited THEN PeakUsage(v, n) ELSE @[n]],
            !.errors = @ \cup {Error("NodeExceedsBufferSize", n, 0) : n \in visited \cap Exceeding(v)}]

\* The head of the loop over the steps: buffers are measured when the time of a
\* step, t, differs from that of the one before.
MeasureBuffers(v, t, visited) ==
  IF v.fatal # "none" \/ t = v.time THEN v
  ELSE [UpdateMaxBufferUsage(v, visited) EXCEPT !.time = t]

\* The steps recorded for one packet at time t: one, or its arrival and its drop.
VerifySteps(v, steps, t) ==
  LET w == VerifyStep(v, steps[1], t)
  IN  IF Len(steps) = 1 THEN w ELSE VerifyStep(w, steps[2], t)
=============================================================================
