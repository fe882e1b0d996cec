--------------------------- MODULE VerifiedProofs ---------------------------
(***************************************************************************)
(* The verifier against the network, for every network: the replay of the  *)
(* log never fails, knows where every packet is, its counters add up, and  *)
(* it raises no alarm but the known ones.                                  *)
(*                                                                         *)
(* The invariant for the first three ties the replay to the log, and not   *)
(* to the queues: that the log tells the truth about the queues is         *)
(* CustodyInv, and holds without the verifier.  The alarms need more: the  *)
(* times and bytes of the replay are those of the network (AlarmInv).      *)
(***************************************************************************)
EXTENDS FateProofs, VerifiedNetwork

-----------------------------------------------------------------------------
(* The operators of the verifier, by the fields they change.                *)

Fields == {"nodeUp", "lastClear", "packets", "highest", "maxUsage", "stats", "linkUp", "lastDown",
           "sends", "lost", "inFlight", "errors", "fatal", "time"}

\* w is a state of the verifier that differs from v in some fields at most.
Only(v, w, changed) == DOMAIN w = Fields /\ \A f \in Fields \ changed : w[f] = v[f]

CounterType == [Node -> [V!Counter -> Nat]]

\* One more packet is counted at node n.  Nothing is said of those that came
\* out of order, which are counted besides.
Tallied(s, r, n, counter) ==
  /\ r \in CounterType
  /\ \A m \in Node : \A c \in V!Counter \ {"reordered"} :
       r[m][c] = IF m = n /\ c = counter THEN s[m][c] + 1 ELSE s[m][c]

\* A set of one alarm, or of none.
When(bad, kind, at, id) == {e \in {V!Error(kind, at, id)} : bad}

LEMMA AlarmEffect ==
  ASSUME NEW v, DOMAIN v = Fields, NEW bad \in BOOLEAN, NEW kind, NEW at, NEW id,
         NEW w, w = V!Alarm(bad, v, kind, at, id)
  PROVE  Only(v, w, {"errors"}) /\ w.errors = v.errors \cup When(bad, kind, at, id)
BY DEF Only, V!Alarm, Fields, When

LEMMA CountEffect ==
  ASSUME NEW v, DOMAIN v = Fields, v.stats \in CounterType, NEW n \in Node, NEW c \in V!Counter,
         NEW w, w = V!Count(v, n, c)
  PROVE  /\ Only(v, w, {"stats"}) /\ w.stats \in CounterType
         /\ \A m \in Node : \A d \in V!Counter :
              w.stats[m][d] = IF m = n /\ d = c THEN v.stats[m][d] + 1 ELSE v.stats[m][d]
<1>1. Only(v, w, {"stats"}) /\ w.stats = [v.stats EXCEPT ![n][c] = @ + 1]
  BY DEF Only, V!Count, Fields
<1>2. PICK s : s = v.stats
  OBVIOUS
<1>3. s \in CounterType
  BY <1>2
<1>4. /\ [s EXCEPT ![n][c] = @ + 1] \in CounterType
      /\ \A m \in Node : \A d \in V!Counter :
           [s EXCEPT ![n][c] = @ + 1][m][d] = IF m = n /\ d = c THEN s[m][d] + 1 ELSE s[m][d]
  <2>1. s[n] \in [V!Counter -> Nat] /\ s[n][c] + 1 \in Nat
    BY <1>3 DEF CounterType
  <2> QED
    BY <1>3, <2>1 DEF CounterType
<1> QED
  BY <1>1, <1>2, <1>4

LEMMA CounterNames ==
  {"sent", "received", "reordered", "duplicates", "injected", "bufferFull", "bufferCleared",
   "onArrival"} = V!Counter
BY DEF V!Counter

LEMMA AddPacketEffect ==
  ASSUME NEW v, DOMAIN v = Fields, NEW n, v.nodeUp[n] \in BOOLEAN, NEW id, NEW size, NEW t,
         V!WithId(v.packets[n], id) = {},
         NEW w, w = V!AddPacketToBuffer(v, n, id, size, t)
  PROVE  /\ Only(v, w, {"packets", "errors"})
         /\ w.packets = [v.packets EXCEPT ![n] = @ \cup {[id |-> id, size |-> size, since |-> t]}]
         /\ w.errors = v.errors \cup When(~v.nodeUp[n], "NodeDownPacketReceive", n, id)
<1>0. PICK bad \in BOOLEAN : bad = ~v.nodeUp[n]
  OBVIOUS
<1>1. PICK u : u = V!Alarm(bad, v, "NodeDownPacketReceive", n, id)
  OBVIOUS
<1>2. Only(v, u, {"errors"}) /\ u.errors = v.errors \cup When(bad, "NodeDownPacketReceive", n, id)
  BY <1>1, AlarmEffect
<1>3. w = [u EXCEPT !.packets[n] = @ \cup {[id |-> id, size |-> size, since |-> t]}]
  BY <1>0, <1>1 DEF V!AddPacketToBuffer
<1>4. u.packets = v.packets
  BY <1>2 DEF Only, Fields
<1> QED
  BY <1>0, <1>2, <1>3, <1>4 DEF Only, Fields

LEMMA TrackReceivedEffect ==
  ASSUME NEW v, DOMAIN v = Fields, v.stats \in CounterType, NEW s, s.node \in Node,
         NEW w, w = V!TrackReceived(v, s)
  PROVE  /\ Only(v, w, {"stats", "highest"})
         /\ Tallied(v.stats, w.stats, s.node, "received")
<1> USE CounterNames
<1>1. PICK u : u = IF v.highest[s.node] > s.number THEN V!Count(v, s.node, "reordered") ELSE v
  OBVIOUS
<1>2. /\ Only(v, u, {"stats"}) /\ u.stats \in CounterType
      /\ \A m \in Node : \A c \in V!Counter \ {"reordered"} : u.stats[m][c] = v.stats[m][c]
  <2>1. CASE v.highest[s.node] > s.number
    BY <1>1, <2>1, CountEffect
  <2>2. CASE ~(v.highest[s.node] > s.number)
    BY <1>1, <2>2 DEF Only
  <2> QED
    BY <2>1, <2>2
<1>3. PICK z : z = V!Count(u, s.node, "received")
  OBVIOUS
<1>4. /\ Only(u, z, {"stats"}) /\ z.stats \in CounterType
      /\ \A m \in Node : \A d \in V!Counter :
           z.stats[m][d] = IF m = s.node /\ d = "received" THEN u.stats[m][d] + 1 ELSE u.stats[m][d]
  <2>1. DOMAIN u = Fields /\ "received" \in V!Counter
    BY <1>2 DEF Only
  <2> QED
    BY <1>2, <1>3, <2>1, CountEffect
<1>5. PICK h : w = [z EXCEPT !.highest[s.node] = h]
  BY <1>1, <1>3 DEF V!TrackReceived
<1>6. w.stats = z.stats /\ Only(v, w, {"stats", "highest"})
  BY <1>2, <1>4, <1>5 DEF Only, Fields
<1> QED
  BY <1>2, <1>4, <1>6 DEF Tallied

-----------------------------------------------------------------------------
(* What the verifier makes of each step.                                    *)

Replaying(v) ==
  /\ DOMAIN v = Fields /\ v.fatal = "none"
  /\ v.nodeUp \in [Node -> BOOLEAN] /\ v.linkUp \in [Link -> BOOLEAN]
  /\ v.stats \in CounterType /\ v.lost \in [Link -> Nat]

\* The packets of a node, with one more and without one.
Plus(packets, n, id, size, t) ==
  [packets EXCEPT ![n] = @ \cup {[id |-> id, size |-> size, since |-> t]}]
Minus(packets, n, id) == [packets EXCEPT ![n] = @ \ V!WithId(@, id)]
Landed(flights, id) == flights \ V!WithId(flights, id)

\* Packet id comes into node n, counted or not, and is kept.
Enters(v, w, id, n, size, t, counter) ==
  /\ Only(v, w, {"packets", "inFlight", "stats", "highest", "errors"})
  /\ w.packets = Plus(v.packets, n, id, size, t)
  /\ w.inFlight = Landed(v.inFlight, id)
  /\ Tallied(v.stats, w.stats, n, counter)

\* It comes from a link and is not kept.
Refused(v, w, id, n) ==
  /\ Only(v, w, {"inFlight", "stats", "highest", "errors"})
  /\ w.inFlight = Landed(v.inFlight, id)
  /\ \E r : Tallied(v.stats, r, n, "received") /\ Tallied(r, w.stats, n, "onArrival")

\* It leaves node n, counted or not.
Leaves(v, w, id, n, counter) ==
  /\ Only(v, w, {"packets", "stats"})
  /\ w.packets = Minus(v.packets, n, id)
  /\ Tallied(v.stats, w.stats, n, counter)

LEMMA NothingTallied ==
  ASSUME NEW s \in CounterType, NEW n
  PROVE  Tallied(s, s, n, "none")
BY CounterNames DEF Tallied, V!Counter

LEMMA CreatedEffect ==
  ASSUME NEW v, Replaying(v), NEW id, NEW n \in Node, NEW t,
         V!WithId(v.packets[n], id) = {}, V!WithId(v.inFlight, id) = {},
         NEW s, s.kind = "InNode", s.id = id, s.node = n,
         NEW w, w = V!VerifyStep(v, s, t)
  PROVE  /\ Enters(v, w, id, n, s.size, t, "none")
         /\ w.errors = v.errors \cup When(n \notin Host, "PacketCreatedByRouterNode", n, id)
                         \cup When(~v.nodeUp[n], "NodeDownPacketReceive", n, id)
<1>1. PICK bad \in BOOLEAN : bad = (n \notin Host)
  OBVIOUS
<1>2. PICK u : u = V!Alarm(bad, v, "PacketCreatedByRouterNode", n, id)
  OBVIOUS
<1>3. Only(v, u, {"errors"}) /\ u.errors = v.errors \cup When(bad, "PacketCreatedByRouterNode", n, id)
  BY <1>2, AlarmEffect DEF Replaying
<1>4. w = V!AddPacketToBuffer(u, n, id, s.size, t)
  BY <1>1, <1>2 DEF V!VerifyStep, V!VerifyInNode, V!VerifyCreated, Replaying
<1>5. u.packets = v.packets /\ u.nodeUp = v.nodeUp /\ u.inFlight = v.inFlight /\ u.stats = v.stats
  BY <1>3 DEF Only, Fields
<1>6. u.nodeUp[n] \in BOOLEAN
  BY <1>5 DEF Replaying
<1>7. /\ Only(u, w, {"packets", "errors"})
      /\ w.packets = Plus(v.packets, n, id, s.size, t)
      /\ w.errors = u.errors \cup When(~u.nodeUp[n], "NodeDownPacketReceive", n, id)
  BY <1>3, <1>4, <1>5, <1>6, AddPacketEffect DEF Only, Plus
<1>8. w.inFlight = v.inFlight /\ w.stats = v.stats
  BY <1>5, <1>7 DEF Only, Fields
<1>9. w.inFlight = Landed(v.inFlight, id)
  BY <1>8 DEF Landed
<1>10. Tallied(v.stats, w.stats, n, "none")
  BY <1>8, NothingTallied DEF Replaying
<1>11. Only(v, w, {"packets", "inFlight", "stats", "highest", "errors"})
  BY <1>3, <1>7 DEF Only
<1> QED
  BY <1>1, <1>3, <1>5, <1>7, <1>9, <1>10, <1>11 DEF Enters

LEMMA DuplicatedEffect ==
  ASSUME NEW v, Replaying(v), NEW id, NEW n \in Node, NEW t,
         V!WithId(v.packets[n], id) = {}, V!WithId(v.inFlight, id) = {},
         NEW s, s.kind = "Duplicated", s.id = id, s.node = n,
         NEW w, w = V!VerifyStep(v, s, t)
  PROVE  /\ Enters(v, w, id, n, s.size, t, "duplicates")
         /\ w.errors = v.errors \cup When(~v.nodeUp[n], "NodeDownPacketReceive", n, id)
<1>1. PICK u : u = V!Count(v, n, "duplicates")
  OBVIOUS
<1>2. /\ Only(v, u, {"stats"}) /\ Tallied(v.stats, u.stats, n, "duplicates")
  BY <1>1, CountEffect, CounterNames DEF Replaying, Tallied
<1>3. w = V!AddPacketToBuffer(u, n, id, s.size, t)
  BY <1>1 DEF V!VerifyStep, V!VerifyDuplicated, Replaying
<1>4. u.packets = v.packets /\ u.nodeUp = v.nodeUp /\ u.inFlight = v.inFlight /\ u.errors = v.errors
  BY <1>2 DEF Only, Fields
<1>5. u.nodeUp[n] \in BOOLEAN
  BY <1>4 DEF Replaying
<1>6. /\ Only(u, w, {"packets", "errors"})
      /\ w.packets = Plus(v.packets, n, id, s.size, t)
      /\ w.errors = u.errors \cup When(~u.nodeUp[n], "NodeDownPacketReceive", n, id)
  BY <1>2, <1>3, <1>4, <1>5, AddPacketEffect DEF Only, Plus
<1>7. w.inFlight = v.inFlight /\ w.stats = u.stats
  BY <1>4, <1>6 DEF Only, Fields
<1>8. w.inFlight = Landed(v.inFlight, id)
  BY <1>7 DEF Landed
<1>9. Only(v, w, {"packets", "inFlight", "stats", "highest", "errors"})
  BY <1>2, <1>6 DEF Only
<1> QED
  BY <1>2, <1>4, <1>6, <1>7, <1>8, <1>9 DEF Enters

\* The alarms about the link, for a packet that was in flight.
ArrivalAlarms(v, id, n, t) == UNION {V!LinkAlarms(v, x, n, t) : x \in V!WithId(v.inFlight, id)}

LEMMA FlightLands ==
  ASSUME NEW v, Replaying(v), NEW id, NEW n \in Node, NEW t, V!WithId(v.inFlight, id) # {},
         NEW s, s.kind = "InNode", s.id = id, s.node = n
  PROVE  \E u : /\ Only(v, u, {"inFlight", "errors"})
                /\ u.inFlight = Landed(v.inFlight, id)
                /\ u.errors = v.errors \cup ArrivalAlarms(v, id, n, t)
                /\ V!VerifyStep(v, s, t) = V!PacketReceived(u, s, t)
<1>0. PICK alarms : alarms = ArrivalAlarms(v, id, n, t)
  OBVIOUS
<1>1. PICK u : u = [v EXCEPT !.inFlight = @ \ V!WithId(v.inFlight, id), !.errors = @ \cup alarms]
  OBVIOUS
<1>2. /\ Only(v, u, {"inFlight", "errors"})
      /\ u.inFlight = Landed(v.inFlight, id) /\ u.errors = v.errors \cup alarms
  BY <1>1 DEF Only, Fields, Landed, Replaying
<1>3. V!VerifyStep(v, s, t) = V!VerifyInNode(v, s, t)
  BY DEF V!VerifyStep, Replaying
<1>4. V!VerifyInNode(v, s, t) = V!PacketReceived(u, s, t)
  BY <1>0, <1>1 DEF V!VerifyInNode, ArrivalAlarms
<1> QED
  BY <1>0, <1>2, <1>3, <1>4

LEMMA KeptEffect ==
  ASSUME NEW v, DOMAIN v = Fields, v.stats \in CounterType, v.nodeUp \in [Node -> BOOLEAN],
         NEW s, s.node \in Node, ~s.dropped, V!WithId(v.packets[s.node], s.id) = {}, NEW t,
         NEW w, w = V!PacketReceived(v, s, t)
  PROVE  /\ Only(v, w, {"packets", "stats", "highest", "errors"})
         /\ w.packets = Plus(v.packets, s.node, s.id, s.size, t)
         /\ Tallied(v.stats, w.stats, s.node, "received")
         /\ w.errors = v.errors \cup When(~v.nodeUp[s.node], "NodeDownPacketReceive", s.node, s.id)
<1>1. PICK z : z = V!TrackReceived(v, s)
  OBVIOUS
<1>2. Only(v, z, {"stats", "highest"}) /\ Tallied(v.stats, z.stats, s.node, "received")
  BY <1>1, TrackReceivedEffect
<1>3. w = V!AddPacketToBuffer(z, s.node, s.id, s.size, t)
  BY <1>1 DEF V!PacketReceived
<1>4. z.packets = v.packets /\ z.nodeUp = v.nodeUp /\ z.errors = v.errors /\ DOMAIN z = Fields
  BY <1>2 DEF Only, Fields
<1>5. z.nodeUp[s.node] \in BOOLEAN /\ V!WithId(z.packets[s.node], s.id) = {}
  BY <1>4
<1>6. /\ Only(z, w, {"packets", "errors"})
      /\ w.packets = [z.packets EXCEPT ![s.node] = @ \cup {[id |-> s.id, size |-> s.size, since |-> t]}]
      /\ w.errors = z.errors \cup When(~z.nodeUp[s.node], "NodeDownPacketReceive", s.node, s.id)
  BY <1>3, <1>4, <1>5, AddPacketEffect
<1>7. w.stats = z.stats
  BY <1>6 DEF Only, Fields
<1>8. Only(v, w, {"packets", "stats", "highest", "errors"})
  BY <1>2, <1>6 DEF Only
<1> QED
  BY <1>2, <1>4, <1>6, <1>7, <1>8 DEF Plus

LEMMA ReceivedEffect ==
  ASSUME NEW v, Replaying(v), NEW id, NEW n \in Node, NEW t,
         V!WithId(v.packets[n], id) = {}, V!WithId(v.inFlight, id) # {},
         NEW s, s.kind = "InNode", s.id = id, s.node = n, ~s.dropped,
         NEW w, w = V!VerifyStep(v, s, t)
  PROVE  /\ Enters(v, w, id, n, s.size, t, "received")
         /\ w.errors = v.errors \cup ArrivalAlarms(v, id, n, t)
              \cup When(~v.nodeUp[n], "NodeDownPacketReceive", n, id)
<1>1. PICK u : /\ Only(v, u, {"inFlight", "errors"})
               /\ u.inFlight = Landed(v.inFlight, id)
               /\ u.errors = v.errors \cup ArrivalAlarms(v, id, n, t)
               /\ V!VerifyStep(v, s, t) = V!PacketReceived(u, s, t)
  BY FlightLands
<1>2. u.packets = v.packets /\ u.nodeUp = v.nodeUp /\ u.stats = v.stats /\ DOMAIN u = Fields
  BY <1>1 DEF Only, Fields
<1>3. u.stats \in CounterType /\ u.nodeUp \in [Node -> BOOLEAN]
  BY <1>2 DEF Replaying
<1>4. w = V!PacketReceived(u, s, t) /\ V!WithId(u.packets[n], id) = {}
  BY <1>1, <1>2
<1>5. /\ Only(u, w, {"packets", "stats", "highest", "errors"})
      /\ w.packets = Plus(u.packets, n, id, s.size, t)
      /\ Tallied(u.stats, w.stats, n, "received")
      /\ w.errors = u.errors \cup When(~u.nodeUp[n], "NodeDownPacketReceive", n, id)
  BY <1>2, <1>3, <1>4, KeptEffect
<1>6. w.inFlight = u.inFlight
  BY <1>5 DEF Only, Fields
<1>7. Only(v, w, {"packets", "inFlight", "stats", "highest", "errors"})
  BY <1>1, <1>5 DEF Only
<1>8. w.errors = v.errors \cup ArrivalAlarms(v, id, n, t)
                   \cup When(~v.nodeUp[n], "NodeDownPacketReceive", n, id)
  BY <1>1, <1>2, <1>5
<1> QED
  BY <1>1, <1>2, <1>5, <1>6, <1>7, <1>8 DEF Enters

LEMMA TurnedAwayEffect ==
  ASSUME NEW v, DOMAIN v = Fields, v.stats \in CounterType, v.nodeUp \in [Node -> BOOLEAN],
         NEW s, s.node \in Node, s.dropped, NEW t,
         NEW w, w = V!PacketReceived(v, s, t)
  PROVE  /\ Only(v, w, {"stats", "highest", "errors"})
         /\ \E r : Tallied(v.stats, r, s.node, "received") /\ Tallied(r, w.stats, s.node, "onArrival")
         /\ w.errors = v.errors \cup When(v.nodeUp[s.node], "NodeUpPacketDroppedOnArrival", s.node, s.id)
<1>1. PICK z : z = V!TrackReceived(v, s)
  OBVIOUS
<1>2. Only(v, z, {"stats", "highest"}) /\ Tallied(v.stats, z.stats, s.node, "received")
  BY <1>1, TrackReceivedEffect
<1>3. PICK bad \in BOOLEAN : bad = v.nodeUp[s.node]
  OBVIOUS
<1>4. PICK y : y = V!Alarm(bad, z, "NodeUpPacketDroppedOnArrival", s.node, s.id)
  OBVIOUS
<1>5. w = V!Count(y, s.node, "onArrival")
  BY <1>1, <1>3, <1>4 DEF V!PacketReceived
<1>6. z.errors = v.errors /\ DOMAIN z = Fields
  BY <1>2 DEF Only, Fields
<1>7. /\ Only(z, y, {"errors"})
      /\ y.errors = z.errors \cup When(bad, "NodeUpPacketDroppedOnArrival", s.node, s.id)
  BY <1>4, <1>6, AlarmEffect
<1>8. y.stats = z.stats /\ DOMAIN y = Fields
  BY <1>7 DEF Only, Fields
<1>9. y.stats \in CounterType /\ "onArrival" \in V!Counter
  BY <1>2, <1>8, CounterNames DEF Tallied
<1>10. /\ Only(y, w, {"stats"}) /\ w.stats \in CounterType
       /\ \A m \in Node : \A d \in V!Counter :
            w.stats[m][d] = IF m = s.node /\ d = "onArrival" THEN y.stats[m][d] + 1 ELSE y.stats[m][d]
  BY <1>5, <1>8, <1>9, CountEffect
<1>11. Tallied(z.stats, w.stats, s.node, "onArrival")
  BY <1>8, <1>10 DEF Tallied
<1>12. w.errors = y.errors
  BY <1>10 DEF Only, Fields
<1>13. Only(v, w, {"stats", "highest", "errors"})
  BY <1>2, <1>7, <1>10 DEF Only
<1> QED
  BY <1>2, <1>3, <1>6, <1>7, <1>11, <1>12, <1>13

LEMMA RefusedEffect ==
  ASSUME NEW v, Replaying(v), NEW id, NEW n \in Node, NEW t, V!WithId(v.inFlight, id) # {},
         NEW s, s.kind = "InNode", s.id = id, s.node = n, s.dropped,
         NEW w, w = V!VerifyStep(v, s, t)
  PROVE  /\ Refused(v, w, id, n)
         /\ w.errors = v.errors \cup ArrivalAlarms(v, id, n, t)
              \cup When(v.nodeUp[n], "NodeUpPacketDroppedOnArrival", n, id)
<1>1. PICK u : /\ Only(v, u, {"inFlight", "errors"})
               /\ u.inFlight = Landed(v.inFlight, id)
               /\ u.errors = v.errors \cup ArrivalAlarms(v, id, n, t)
               /\ V!VerifyStep(v, s, t) = V!PacketReceived(u, s, t)
  BY FlightLands
<1>2. u.nodeUp = v.nodeUp /\ u.stats = v.stats /\ DOMAIN u = Fields
  BY <1>1 DEF Only, Fields
<1>3. u.stats \in CounterType /\ u.nodeUp \in [Node -> BOOLEAN]
  BY <1>2 DEF Replaying
<1>4. w = V!PacketReceived(u, s, t)
  BY <1>1
<1>5. /\ Only(u, w, {"stats", "highest", "errors"})
      /\ \E r : Tallied(u.stats, r, n, "received") /\ Tallied(r, w.stats, n, "onArrival")
      /\ w.errors = u.errors \cup When(u.nodeUp[n], "NodeUpPacketDroppedOnArrival", n, id)
  BY <1>2, <1>3, <1>4, TurnedAwayEffect
<1>6. w.inFlight = u.inFlight
  BY <1>5 DEF Only, Fields
<1>7. Only(v, w, {"inFlight", "stats", "highest", "errors"})
  BY <1>1, <1>5 DEF Only
<1>8. w.errors = v.errors \cup ArrivalAlarms(v, id, n, t)
                   \cup When(v.nodeUp[n], "NodeUpPacketDroppedOnArrival", n, id)
  BY <1>1, <1>2, <1>5
<1> QED
  BY <1>1, <1>2, <1>5, <1>6, <1>7, <1>8 DEF Refused

LEMMA DroppedEffect ==
  ASSUME NEW v, Replaying(v), NEW id, NEW n \in Node, NEW t,
         NEW reason \in {"injected", "bufferFull", "bufferCleared"},
         V!WithId(v.packets[n], id) # {},
         NEW w, w = V!VerifyStep(v, DroppedStep(id, n, reason), t)
  PROVE  Leaves(v, w, id, n, reason)
<1>1. PICK u : u = V!Count(v, n, reason)
  OBVIOUS
<1>2. Only(v, u, {"stats"}) /\ Tallied(v.stats, u.stats, n, reason)
  BY <1>1, CountEffect, CounterNames DEF Replaying, Tallied
<1>3. u.packets = v.packets
  BY <1>2 DEF Only, Fields
<1>4. w = [u EXCEPT !.packets[n] = @ \ V!WithId(@, id)]
  BY <1>1 DEF V!VerifyStep, V!VerifyDropped, V!RemovePacketFromBuffer, DroppedStep, Replaying
<1>5. Only(v, w, {"packets", "stats"}) /\ w.stats = u.stats /\ w.packets = Minus(v.packets, n, id)
  BY <1>2, <1>3, <1>4 DEF Only, Fields, Minus
<1> QED
  BY <1>2, <1>5 DEF Leaves

DeliveredStep(id, n) == [kind |-> "Delivered", id |-> id, node |-> n]

LEMMA DeliveredEffect ==
  ASSUME NEW v, Replaying(v), NEW id, NEW n \in Node, NEW t, V!WithId(v.packets[n], id) # {},
         NEW w, w = V!VerifyStep(v, DeliveredStep(id, n), t)
  PROVE  Leaves(v, w, id, n, "none")
<1>1. w = [v EXCEPT !.packets[n] = @ \ V!WithId(@, id)]
  BY DEF V!VerifyStep, V!VerifyDelivered, V!RemovePacketFromBuffer, DeliveredStep, Replaying
<1>2. Only(v, w, {"packets", "stats"}) /\ w.stats = v.stats /\ w.packets = Minus(v.packets, n, id)
  BY <1>1 DEF Only, Fields, Minus, Replaying
<1> QED
  BY <1>2, NothingTallied DEF Leaves, Replaying

\* Packet id leaves node n for link l.
Departs(v, w, id, n, l, t, size) ==
  /\ Only(v, w, {"packets", "inFlight", "sends", "stats", "errors"})
  /\ w.packets = Minus(v.packets, n, id)
  /\ w.inFlight = Landed(v.inFlight, id) \cup {[id |-> id, link |-> l, sent |-> t, extra |-> 0]}
  /\ w.sends = [v.sends EXCEPT ![l] = V!WindowAt(v, l, t, id, size)]
  /\ Tallied(v.stats, w.stats, n, "sent")

\* Packet p was in node n when its buffer was cleared.
Survived(v, n, p) == p.since < v.lastClear[n]

\* The alarms about a packet that is sent.
SendAlarms(v, id, n, l, size, wiped, t) ==
  When(~v.nodeUp[n], "NodeDownPacketSend", n, id)
    \cup When(wiped, "PacketSurvivedBufferCorruption", n, id)
    \cup When(Source[l] # n, "DisconnectedPacketSend", n, id)
    \cup When(~v.linkUp[l], "OfflinePacketSend", n, id)
    \cup When(V!BandwidthExceeded(l, V!WindowAt(v, l, t, id, size)), "LinkBandwidthExceeded", n, id)

LEMMA PacketSentEffect ==
  ASSUME NEW v, Replaying(v), NEW s, s.node \in Node, NEW p,
         V!WithId(v.packets[s.node], s.id) = {p},
         NEW wiped \in BOOLEAN, wiped <=> Survived(v, s.node, p),
         NEW w, w = V!PacketSent(v, s)
  PROVE  /\ Only(v, w, {"packets", "stats", "errors"})
         /\ w.packets = Minus(v.packets, s.node, s.id)
         /\ Tallied(v.stats, w.stats, s.node, "sent")
         /\ w.errors = v.errors \cup When(~v.nodeUp[s.node], "NodeDownPacketSend", s.node, s.id)
              \cup When(wiped, "PacketSurvivedBufferCorruption", s.node, s.id)
<1>1. PICK bad \in BOOLEAN : bad = ~v.nodeUp[s.node]
  OBVIOUS
<1>2. PICK w1 : w1 = V!Alarm(bad, v, "NodeDownPacketSend", s.node, s.id)
  OBVIOUS
<1>3. Only(v, w1, {"errors"}) /\ w1.errors = v.errors \cup When(bad, "NodeDownPacketSend", s.node, s.id)
  BY <1>2, AlarmEffect DEF Replaying
<1>4. PICK w2 : w2 = V!Alarm(wiped, w1, "PacketSurvivedBufferCorruption", s.node, s.id)
  OBVIOUS
<1>5. DOMAIN w1 = Fields /\ w1.packets = v.packets
  BY <1>3 DEF Only, Fields
<1>6. /\ Only(w1, w2, {"errors"})
      /\ w2.errors = w1.errors \cup When(wiped, "PacketSurvivedBufferCorruption", s.node, s.id)
  BY <1>4, <1>5, AlarmEffect
<1>7. PICK w3 : w3 = V!Count(w2, s.node, "sent")
  OBVIOUS
<1>8. DOMAIN w2 = Fields /\ w2.stats = v.stats /\ w2.packets = v.packets
  BY <1>3, <1>6 DEF Only, Fields
<1>9. w2.stats \in CounterType /\ "sent" \in V!Counter
  BY <1>8, CounterNames DEF Replaying
<1>10. /\ Only(w2, w3, {"stats"}) /\ w3.stats \in CounterType
       /\ \A m \in Node : \A d \in V!Counter :
            w3.stats[m][d] = IF m = s.node /\ d = "sent" THEN w2.stats[m][d] + 1 ELSE w2.stats[m][d]
  BY <1>7, <1>8, <1>9, CountEffect
<1>11. Tallied(v.stats, w3.stats, s.node, "sent") /\ w3.packets = v.packets /\ w3.errors = w2.errors
  BY <1>8, <1>10 DEF Tallied, Only, Fields
<1>12. wiped = \E q \in V!WithId(v.packets[s.node], s.id) : q.since < v.lastClear[s.node]
  BY DEF Survived
<1>13. w = V!RemovePacketFromBuffer(w1, s.node, s.id, w3)
  BY <1>1, <1>2, <1>4, <1>7, <1>12 DEF V!PacketSent
<1>14. w = [w3 EXCEPT !.packets[s.node] = @ \ V!WithId(@, s.id)]
  BY <1>5, <1>13 DEF V!RemovePacketFromBuffer
<1>15. Only(v, w3, {"stats", "errors"})
  BY <1>3, <1>6, <1>10 DEF Only
<1>16. /\ Only(v, w, {"packets", "stats", "errors"}) /\ w.stats = w3.stats /\ w.errors = w3.errors
       /\ w.packets = Minus(v.packets, s.node, s.id)
  BY <1>11, <1>14, <1>15 DEF Only, Fields, Minus
<1> QED
  BY <1>1, <1>3, <1>6, <1>11, <1>16

LEMMA SentEffect ==
  ASSUME NEW v, Replaying(v), NEW id, NEW n \in Node, NEW l \in Link, NEW t, NEW p,
         V!WithId(v.packets[n], id) = {p},
         NEW wiped \in BOOLEAN, wiped <=> Survived(v, n, p),
         NEW s, s.kind = "InTransit", s.id = id, s.node = n, s.link = l,
         NEW w, w = V!VerifyStep(v, s, t)
  PROVE  /\ Departs(v, w, id, n, l, t, p.size)
         /\ w.errors = v.errors \cup SendAlarms(v, id, n, l, p.size, wiped, t)
<1>1. PICK u : u = V!PacketSent(v, s)
  OBVIOUS
<1>2. /\ Only(v, u, {"packets", "stats", "errors"})
      /\ u.packets = Minus(v.packets, n, id)
      /\ Tallied(v.stats, u.stats, n, "sent")
      /\ u.errors = v.errors \cup When(~v.nodeUp[n], "NodeDownPacketSend", n, id)
              \cup When(wiped, "PacketSurvivedBufferCorruption", n, id)
  BY <1>1, PacketSentEffect
<1>3. PICK sends : sends = V!WindowAt(v, l, t, id, p.size)
  OBVIOUS
<1>4. PICK b1 \in BOOLEAN : b1 = (Source[l] # n)
  OBVIOUS
<1>5. PICK b2 \in BOOLEAN : b2 = ~v.linkUp[l]
  BY DEF Replaying
<1>6. PICK b3 \in BOOLEAN : b3 <=> V!BandwidthExceeded(l, sends)
  OBVIOUS
<1>7. PICK w1 : w1 = V!Alarm(b1, u, "DisconnectedPacketSend", n, id)
  OBVIOUS
<1>8. PICK w2 : w2 = V!Alarm(b2, w1, "OfflinePacketSend", n, id)
  OBVIOUS
<1>9. PICK w3 : w3 = V!Alarm(b3, w2, "LinkBandwidthExceeded", n, id)
  OBVIOUS
<1>10. DOMAIN u = Fields /\ u.fatal = "none"
  BY <1>2 DEF Only, Fields, Replaying
<1>11. Only(u, w1, {"errors"}) /\ w1.errors = u.errors \cup When(b1, "DisconnectedPacketSend", n, id)
  BY <1>7, <1>10, AlarmEffect
<1>12. DOMAIN w1 = Fields
  BY <1>11 DEF Only
<1>13. Only(w1, w2, {"errors"}) /\ w2.errors = w1.errors \cup When(b2, "OfflinePacketSend", n, id)
  BY <1>8, <1>12, AlarmEffect
<1>14. DOMAIN w2 = Fields
  BY <1>13 DEF Only
<1>15. Only(w2, w3, {"errors"}) /\ w3.errors = w2.errors \cup When(b3, "LinkBandwidthExceeded", n, id)
  BY <1>9, <1>14, AlarmEffect
<1>16. Only(u, w3, {"errors"})
  BY <1>11, <1>13, <1>15 DEF Only
<1>17. p.size = CHOOSE z \in {q.size : q \in V!WithId(v.packets[n], id)} : TRUE
  OBVIOUS
<1>18. V!VerifyStep(v, s, t) = V!VerifyInTransit(v, s, t)
  BY DEF V!VerifyStep, Replaying
<1>19. w = [w3 EXCEPT !.sends[l] = sends,
              !.inFlight = (@ \ V!WithId(@, id)) \cup {[id |-> id, link |-> l, sent |-> t, extra |-> 0]}]
  <2>1. w1 = V!Alarm(Source[s.link] # s.node, u, "DisconnectedPacketSend", s.node, s.id)
    BY <1>4, <1>7
  <2>2. w2 = V!Alarm(~v.linkUp[s.link], w1, "OfflinePacketSend", s.node, s.id)
    BY <1>5, <1>8
  <2>3. w3 = V!Alarm(V!BandwidthExceeded(s.link, sends), w2, "LinkBandwidthExceeded", s.node, s.id)
    BY <1>6, <1>9 DEF V!Alarm
  <2>4. PICK size : size = CHOOSE z \in {q.size : q \in V!WithId(v.packets[s.node], s.id)} : TRUE
    OBVIOUS
  <2>5. sends = V!WindowAt(v, s.link, t, s.id, size)
    BY <1>3, <1>17, <2>4
  <2>6. w = V!VerifyInTransit(v, s, t)
    BY <1>18
  <2> QED
    BY <1>1, <1>10, <2>1, <2>2, <2>3, <2>4, <2>5, <2>6 DEF V!VerifyInTransit
<1>20. w3.inFlight = v.inFlight /\ w3.sends = v.sends /\ w3.stats = u.stats /\ w3.packets = u.packets
  BY <1>2, <1>16 DEF Only, Fields
<1>21. Only(v, w3, {"packets", "stats", "errors"})
  BY <1>2, <1>16 DEF Only
<1>22. /\ Only(v, w, {"packets", "inFlight", "sends", "stats", "errors"})
       /\ w.errors = w3.errors /\ w.packets = w3.packets /\ w.stats = w3.stats
       /\ w.inFlight = Landed(v.inFlight, id) \cup {[id |-> id, link |-> l, sent |-> t, extra |-> 0]}
       /\ w.sends = [v.sends EXCEPT ![l] = sends]
  <2>1. DOMAIN w3 = Fields
    BY <1>21 DEF Only
  <2>2. /\ DOMAIN w = Fields /\ w.errors = w3.errors /\ w.packets = w3.packets /\ w.stats = w3.stats
        /\ w.inFlight = (w3.inFlight \ V!WithId(w3.inFlight, id))
                           \cup {[id |-> id, link |-> l, sent |-> t, extra |-> 0]}
        /\ w.sends = [w3.sends EXCEPT ![l] = sends]
        /\ \A field \in Fields \ {"inFlight", "sends"} : w[field] = w3[field]
    BY <1>19, <2>1 DEF Fields
  <2>3. Only(v, w, {"packets", "inFlight", "sends", "stats", "errors"})
    BY <1>21, <2>2 DEF Only
  <2> QED
    BY <1>20, <2>2, <2>3 DEF Landed
<1>23. Departs(v, w, id, n, l, t, p.size)
  BY <1>2, <1>3, <1>20, <1>22 DEF Departs
<1>24. w.errors = v.errors \cup SendAlarms(v, id, n, l, p.size, wiped, t)
  <2>1. w.errors = v.errors \cup When(~v.nodeUp[n], "NodeDownPacketSend", n, id)
              \cup When(wiped, "PacketSurvivedBufferCorruption", n, id)
              \cup When(b1, "DisconnectedPacketSend", n, id)
              \cup When(b2, "OfflinePacketSend", n, id)
              \cup When(b3, "LinkBandwidthExceeded", n, id)
    BY <1>2, <1>11, <1>13, <1>15, <1>22
  <2> QED
    BY <2>1, <1>3, <1>4, <1>5, <1>6 DEF SendAlarms, When
<1> QED
  BY <1>23, <1>24

\* A packet in flight is lost.
LEMMA LostEffect ==
  ASSUME NEW v, Replaying(v), NEW id, NEW l \in Link, NEW t, V!WithId(v.inFlight, id) # {},
         NEW s, s.kind = "LostInTransit", s.id = id, s.link = l,
         NEW w, w = V!VerifyStep(v, s, t)
  PROVE  /\ Only(v, w, {"inFlight", "lost"}) /\ w.inFlight = Landed(v.inFlight, id)
         /\ w.lost = [v.lost EXCEPT ![l] = @ + 1]
<1>1. V!VerifyStep(v, s, t) = V!VerifyLostInTransit(v, s)
  BY DEF V!VerifyStep, Replaying
<1>2. w = [v EXCEPT !.inFlight = @ \ V!WithId(v.inFlight, id), !.lost[l] = @ + 1]
  BY <1>1 DEF V!VerifyLostInTransit
<1> QED
  BY <1>2 DEF Only, Fields, Landed, Replaying

\* The events, which are about no packet.
\* A status that changes, and the instant of the last event of a kind.
Switched(status, x, up) == [status EXCEPT ![x] = up]
Since(last, x, kept, t) == [last EXCEPT ![x] = IF kept THEN @ ELSE t]

LEMMA LinkEventEffect ==
  ASSUME NEW v, Replaying(v), NEW l \in Link, NEW t,
         NEW s, s.kind = "LinkEvent", s.link = l,
         NEW w, w = V!VerifyStep(v, s, t)
  PROVE  /\ Only(v, w, {"linkUp", "lastDown"})
         /\ w.linkUp = Switched(v.linkUp, l, s.up)
         /\ w.lastDown = Since(v.lastDown, l, s.up, t)
<1>1. V!VerifyStep(v, s, t) = V!VerifyLinkEvent(v, s, t)
  BY DEF V!VerifyStep, Replaying
<1> QED
  BY <1>1 DEF V!VerifyLinkEvent, Only, Fields, Replaying, Switched, Since

LEMMA NodeEventEffect ==
  ASSUME NEW v, Replaying(v), NEW n \in Node, NEW t,
         NEW s, s.kind = "NodeEvent", s.node = n,
         NEW w, w = V!VerifyStep(v, s, t)
  PROVE  /\ Only(v, w, {"nodeUp", "lastClear"})
         /\ w.nodeUp = Switched(v.nodeUp, n, s.up)
         /\ w.lastClear = Since(v.lastClear, n, ~s.clear, t)
<1>1. V!VerifyStep(v, s, t) = V!VerifyNodeEvent(v, s, t)
  BY DEF V!VerifyStep, Replaying
<1> QED
  BY <1>1 DEF V!VerifyNodeEvent, Only, Fields, Replaying, Switched, Since

\* The measurement of the buffers changes no more than what is measured.
LEMMA MeasureEffect ==
  ASSUME NEW v, Replaying(v), NEW t, NEW visited, NEW w, w = V!MeasureBuffers(v, t, visited)
  PROVE  Only(v, w, {"maxUsage", "errors", "time"}) /\ Replaying(w)
<1>1. Only(v, w, {"maxUsage", "errors", "time"})
  <2>1. CASE t = v.time
    BY <2>1 DEF V!MeasureBuffers, Only, Replaying
  <2>2. CASE t # v.time
    <3>1. PICK m, e : V!UpdateMaxBufferUsage(v, visited) = [v EXCEPT !.maxUsage = m, !.errors = e]
      BY DEF V!UpdateMaxBufferUsage
    <3>2. w = [V!UpdateMaxBufferUsage(v, visited) EXCEPT !.time = t]
      BY <2>2 DEF V!MeasureBuffers, Replaying
    <3> QED
      BY <3>1, <3>2 DEF Only, Fields, Replaying
  <2> QED
    BY <2>1, <2>2
<1> QED
  BY <1>1 DEF Only, Fields, Replaying

-----------------------------------------------------------------------------
(* The replay and the log.  `log' is what the log has shown of each packet  *)
(* so far, and d the packets' data.                                         *)

Ghost(id, n, log, d) == log[id] = Recorded("DroppedOnArrival", n) /\ d[id].src = n

\* The verifier knows the packets that the log shows in a node, and others only
\* if a host that was down created them.
MirrorNodes(packets, log, d) ==
  /\ packets \in [Node -> SUBSET [id: Id, size: Nat, since: Nat]]
  /\ \A n \in Node : \A p \in packets[n] :
       /\ p.size = d[p.id].size
       /\ log[p.id] = InNode(n) \/ Ghost(p.id, n, log, d)
  /\ \A n \in Node : \A p, q \in packets[n] : p.id = q.id => p = q
  /\ \A n \in Node, id \in Id : log[id] = InNode(n) => \E p \in packets[n] : p.id = id

\* The packets in flight are those that the log shows on a link.
MirrorLinks(flights, log) ==
  /\ flights \subseteq [id: Id, link: Link, sent: Nat, extra: {0}]
  /\ \A x \in flights : log[x.id] = InTransit(x.link)
  /\ \A x, y \in flights : x.id = y.id => x = y
  /\ \A l \in Link, id \in Id : log[id] = InTransit(l) => \E x \in flights : x.id = id /\ x.link = l

\* The log goes on: the last step recorded for packet id is q.
Relogged(log, g, id, q) == DOMAIN g = Id /\ g[id] = q /\ \A i \in Id \ {id} : g[i] = log[i]

\* Packet id is in no node.
Outside(id, log) ==
  \A m \in Node : log[id] # InNode(m) /\ log[id] # Recorded("DroppedOnArrival", m)

\* A packet that the log did not show in a node comes into one.
LEMMA NodesEnter ==
  ASSUME NEW P, NEW log, DOMAIN log = Id, NEW d, MirrorNodes(P, log, d), NEW id \in Id, NEW n \in Node,
         Outside(id, log),
         NEW size \in Nat, size = d[id].size, NEW t \in Nat,
         NEW q, q = InNode(n) \/ (q = Recorded("DroppedOnArrival", n) /\ d[id].src = n),
         NEW g, Relogged(log, g, id, q)
  PROVE  /\ V!WithId(P[n], id) = {}
         /\ MirrorNodes(Plus(P, n, id, size, t), g, d)
<1> DEFINE e == [id |-> id, size |-> size, since |-> t]
           R == [P EXCEPT ![n] = @ \cup {e}]
<1>1. \A m \in Node : \A p \in P[m] : p.id # id
  BY DEF MirrorNodes, Ghost, Outside
<1>2. V!WithId(P[n], id) = {}
  BY <1>1 DEF V!WithId
<1>3. /\ R \in [Node -> SUBSET [id: Id, size: Nat, since: Nat]]
      /\ \A m \in Node : \A p \in R[m] : p \in P[m] \/ (m = n /\ p = e)
      /\ \A m \in Node : P[m] \subseteq R[m]
      /\ e \in R[n] /\ e.id = id /\ e.size = d[id].size
  BY DEF MirrorNodes
<1>4. g[id] = q /\ \A i \in Id \ {id} : g[i] = log[i]
  BY DEF Relogged
<1>5. \A m \in Node : q = InNode(m) => m = n
  BY DEF InNode, Recorded
<1> HIDE DEF e, R
<1>6. \A m \in Node : \A p \in P[m] : p.id \in Id \ {id}
  BY <1>1 DEF MirrorNodes
<1>7. ASSUME NEW m \in Node, NEW p \in R[m]
      PROVE  p.size = d[p.id].size /\ (g[p.id] = InNode(m) \/ Ghost(p.id, m, g, d))
  <2>1. CASE p \in P[m]
    BY <1>4, <1>6, <2>1 DEF MirrorNodes, Ghost
  <2>2. CASE m = n /\ p = e
    BY <1>3, <1>4, <2>2 DEF Ghost
  <2> QED
    BY <1>3, <2>1, <2>2
<1>8. ASSUME NEW m \in Node, NEW p \in R[m], NEW r \in R[m], p.id = r.id
      PROVE  p = r
  BY <1>3, <1>1, <1>8 DEF MirrorNodes
<1>9. ASSUME NEW m \in Node, NEW i \in Id, g[i] = InNode(m)
      PROVE  \E p \in R[m] : p.id = i
  BY <1>3, <1>4, <1>5, <1>9 DEF MirrorNodes
<1>10. MirrorNodes(R, g, d)
  BY <1>3, <1>7, <1>8, <1>9 DEF MirrorNodes
<1> QED
  BY <1>2, <1>10 DEF R, e, Plus

\* It leaves the node.
LEMMA NodesLeave ==
  ASSUME NEW P, NEW log, DOMAIN log = Id, NEW d, MirrorNodes(P, log, d), NEW id \in Id, NEW n \in Node,
         log[id] = InNode(n), NEW q, \A m \in Node : q # InNode(m),
         NEW g, Relogged(log, g, id, q)
  PROVE  /\ \E p \in P[n] : V!WithId(P[n], id) = {p} /\ p.id = id /\ p.size = d[id].size
         /\ MirrorNodes(Minus(P, n, id), g, d)
<1> DEFINE R == [P EXCEPT ![n] = @ \ V!WithId(@, id)]
<1>1. /\ R \in [Node -> SUBSET [id: Id, size: Nat, since: Nat]]
      /\ \A m \in Node : R[m] \subseteq P[m]
      /\ \A p \in R[n] : p.id # id
      /\ \A p \in P[n] : p.id # id => p \in R[n]
      /\ \A m \in Node \ {n} : R[m] = P[m]
  BY DEF MirrorNodes, V!WithId
<1>2. g[id] = q /\ \A i \in Id \ {id} : g[i] = log[i]
  BY DEF Relogged
<1>3. PICK p \in P[n] : p.id = id
  BY DEF MirrorNodes
<1>4. V!WithId(P[n], id) = {p} /\ p.size = d[id].size
  BY <1>3 DEF MirrorNodes, V!WithId
<1> HIDE DEF R
<1>5. \A m \in Node : \A r \in P[m] : r.id = id => m = n
  <2>1. \A m \in Node : /\ InNode(n) = InNode(m) => m = n
                        /\ InNode(n) # Recorded("DroppedOnArrival", m)
    BY DEF InNode, Recorded
  <2> QED
    BY <2>1 DEF MirrorNodes, Ghost
<1>6. \A m \in Node : \A r \in R[m] : r.id \in Id \ {id} /\ r \in P[m]
  BY <1>1, <1>5 DEF MirrorNodes
<1>7. ASSUME NEW m \in Node, NEW r \in R[m]
      PROVE  r.size = d[r.id].size /\ (g[r.id] = InNode(m) \/ Ghost(r.id, m, g, d))
  BY <1>2, <1>6 DEF MirrorNodes, Ghost
<1>8. ASSUME NEW m \in Node, NEW r \in R[m], NEW s \in R[m], r.id = s.id
      PROVE  r = s
  BY <1>6, <1>8 DEF MirrorNodes
<1>9. ASSUME NEW m \in Node, NEW i \in Id, g[i] = InNode(m)
      PROVE  \E r \in R[m] : r.id = i
  <2>1. i # id /\ log[i] = InNode(m)
    BY <1>2, <1>9
  <2>2. PICK r \in P[m] : r.id = i
    BY <2>1 DEF MirrorNodes
  <2> QED
    BY <1>1, <2>1, <2>2
<1>10. MirrorNodes(R, g, d)
  BY <1>1, <1>7, <1>8, <1>9 DEF MirrorNodes
<1> QED
  BY <1>3, <1>4, <1>10 DEF R, Minus

\* Something is recorded of a packet in no node, and it stays so.
LEMMA NodesStay ==
  ASSUME NEW P, NEW log, DOMAIN log = Id, NEW d, MirrorNodes(P, log, d), NEW id \in Id,
         Outside(id, log),
         NEW q, \A m \in Node : q # InNode(m),
         NEW g, Relogged(log, g, id, q)
  PROVE  MirrorNodes(P, g, d)
<1>1. g[id] = q /\ \A i \in Id \ {id} : g[i] = log[i]
  BY DEF Relogged
<1>2. \A m \in Node : \A p \in P[m] : p.id \in Id \ {id}
  BY DEF MirrorNodes, Ghost, Outside
<1>3. MirrorNodes(P, g, d)
  BY <1>1, <1>2 DEF MirrorNodes, Ghost
<1> QED
  BY <1>3

\* A packet is on no link, any more or still.
LEMMA LinksLand ==
  ASSUME NEW F, NEW log, DOMAIN log = Id, MirrorLinks(F, log), NEW id \in Id,
         NEW q, \A l \in Link : q # InTransit(l),
         NEW g, Relogged(log, g, id, q)
  PROVE  MirrorLinks(Landed(F, id), g)
<1> DEFINE R == F \ V!WithId(F, id)
<1>1. R \subseteq F /\ \A x \in F : x \in R <=> x.id # id
  BY DEF V!WithId
<1>2. g[id] = q /\ \A i \in Id \ {id} : g[i] = log[i]
  BY DEF Relogged
<1> HIDE DEF R
<1>3. MirrorLinks(R, g)
  BY <1>1, <1>2 DEF MirrorLinks
<1> QED
  BY <1>3 DEF R, Landed

\* A packet that was on no link is sent on one.
LEMMA LinksSend ==
  ASSUME NEW F, NEW log, DOMAIN log = Id, MirrorLinks(F, log), NEW id \in Id, NEW l \in Link,
         NEW t \in Nat,
         NEW g, Relogged(log, g, id, InTransit(l))
  PROVE  MirrorLinks(Landed(F, id) \cup {[id |-> id, link |-> l, sent |-> t, extra |-> 0]},
                     g)
<1> DEFINE x == [id |-> id, link |-> l, sent |-> t, extra |-> 0]
           R == (F \ V!WithId(F, id)) \cup {x}
<1>1. /\ \A y \in R : y = x \/ (y \in F /\ y.id # id)
      /\ \A y \in F : y.id # id => y \in R
      /\ x \in R /\ x.id = id /\ x.link = l
      /\ x \in [id: Id, link: Link, sent: Nat, extra: {0}]
  BY DEF V!WithId
<1>2. g[id] = InTransit(l) /\ \A i \in Id \ {id} : g[i] = log[i]
  BY DEF Relogged
<1> HIDE DEF x, R
<1>3. \A k \in Link : InTransit(l) = InTransit(k) => k = l
  BY DEF InTransit, Recorded
<1>4. R \subseteq [id: Id, link: Link, sent: Nat, extra: {0}]
  BY <1>1 DEF MirrorLinks
<1>5. \A y \in R : g[y.id] = InTransit(y.link)
  BY <1>1, <1>2, <1>4 DEF MirrorLinks
<1>6. \A y, z \in R : y.id = z.id => y = z
  BY <1>1 DEF MirrorLinks
<1>7. ASSUME NEW k \in Link, NEW i \in Id, g[i] = InTransit(k)
      PROVE  \E y \in R : y.id = i /\ y.link = k
  BY <1>1, <1>2, <1>3, <1>7 DEF MirrorLinks
<1>8. MirrorLinks(R, g)
  BY <1>4, <1>5, <1>6, <1>7 DEF MirrorLinks
<1> QED
  BY <1>8 DEF x, R, Landed

-----------------------------------------------------------------------------
(* The counters.  Sums over nodes and links are numbers of pairs.           *)

Pairs(S, f) == UNION {{m} \X (1..f[m]) : m \in S}

LEMMA PairOf ==
  ASSUME NEW S, NEW f, NEW x
  PROVE  x \in Pairs(S, f) <=> \E m \in S : \E k \in 1..f[m] : x = <<m, k>>
BY DEF Pairs

LEMMA PairsFinite ==
  ASSUME NEW S, IsFiniteSet(S), NEW f \in [S -> Nat]
  PROVE  IsFiniteSet(Pairs(S, f)) /\ Cardinality(Pairs(S, f)) \in Nat
<1>1. PICK T : T = {{m} \X (1..f[m]) : m \in S}
  OBVIOUS
<1>2. PICK g : g = [m \in S |-> {m} \X (1..f[m])]
  OBVIOUS
<1>3. g \in [S -> T] /\ \A t \in T : \E m \in S : g[m] = t
  BY <1>1, <1>2
<1>4. g \in Surjection(S, T)
  BY <1>3, Fun_IsSurj
<1>5. IsFiniteSet(T)
  BY <1>4, FS_Surjection
<1>6. ASSUME NEW m \in S PROVE IsFiniteSet({m} \X (1..f[m]))
  <2>1. IsFiniteSet({m})
    BY FS_Singleton
  <2>2. IsFiniteSet(1..f[m])
    BY FS_Interval
  <2> QED
    BY <2>1, <2>2, FS_Product
<1>7. \A t \in T : IsFiniteSet(t)
  BY <1>1, <1>6
<1>8. IsFiniteSet(UNION T)
  BY <1>5, <1>7, FS_UNION
<1>9. Pairs(S, f) = UNION T
  BY <1>1 DEF Pairs
<1>10. IsFiniteSet(Pairs(S, f))
  BY <1>8, <1>9
<1> QED
  BY <1>10, FS_CardinalityType

LEMMA PairsGrow ==
  ASSUME NEW S, IsFiniteSet(S), NEW f \in [S -> Nat], NEW g, NEW n \in S,
         g[n] = f[n] + 1, \A m \in S \ {n} : g[m] = f[m]
  PROVE  Cardinality(Pairs(S, g)) = Cardinality(Pairs(S, f)) + 1
<1>1. PICK x : x = <<n, f[n] + 1>>
  OBVIOUS
<1>2. x \notin Pairs(S, f)
  <2>1. ASSUME NEW m \in S, NEW k \in 1..f[m], x = <<m, k>> PROVE FALSE
    <3>1. m = n /\ k = f[n] + 1
      BY <1>1, <2>1
    <3> QED
      BY <3>1
  <2> QED
    BY <2>1, PairOf
<1>3. ASSUME NEW y PROVE y \in Pairs(S, g) <=> y \in Pairs(S, f) \/ y = x
  <2>1. y \in Pairs(S, g) => y \in Pairs(S, f) \/ y = x
    <3>1. SUFFICES ASSUME NEW m \in S, NEW k \in 1..g[m], y = <<m, k>>
                   PROVE  y \in Pairs(S, f) \/ y = x
      BY PairOf
    <3>2. CASE m = n /\ k = f[n] + 1
      BY <1>1, <3>1, <3>2
    <3>3. CASE ~(m = n /\ k = f[n] + 1)
      <4>1. k \in 1..f[m]
        BY <3>1, <3>3
      <4> QED
        BY <3>1, <4>1, PairOf
    <3> QED
      BY <3>2, <3>3
  <2>2. y \in Pairs(S, f) => y \in Pairs(S, g)
    <3>1. SUFFICES ASSUME NEW m \in S, NEW k \in 1..f[m], y = <<m, k>>
                   PROVE  y \in Pairs(S, g)
      BY PairOf
    <3>2. k \in 1..g[m]
      BY <3>1
    <3> QED
      BY <3>1, <3>2, PairOf
  <2>3. f[n] + 1 \in 1..g[n]
    OBVIOUS
  <2>4. x \in Pairs(S, g)
    BY <1>1, <2>3, PairOf
  <2> QED
    BY <2>1, <2>2, <2>4
<1>4. Pairs(S, g) = Pairs(S, f) \cup {x}
  BY <1>3
<1>5. IsFiniteSet(Pairs(S, f))
  BY PairsFinite
<1> QED
  BY <1>2, <1>4, <1>5, FS_AddElement

CountedIn(stats, counter) == Pairs(Node, [n \in Node |-> stats[n][counter]])

LEMMA CountedMore ==
  ASSUME NEW s \in CounterType, NEW r, NEW n \in Node, NEW c \in V!Counter \ {"reordered"},
         Tallied(s, r, n, c)
  PROVE  /\ Cardinality(CountedIn(r, c)) = Cardinality(CountedIn(s, c)) + 1
         /\ Cardinality(CountedIn(s, c)) \in Nat
<1>1. PICK f : f = [m \in Node |-> s[m][c]]
  OBVIOUS
<1>2. PICK g : g = [m \in Node |-> r[m][c]]
  OBVIOUS
<1>3. f \in [Node -> Nat]
  BY <1>1 DEF CounterType
<1>4. g[n] = f[n] + 1 /\ \A m \in Node \ {n} : g[m] = f[m]
  BY <1>1, <1>2 DEF Tallied
<1>5. IsFiniteSet(Node)
  BY VerifierAssumption
<1>6. Cardinality(Pairs(Node, g)) = Cardinality(Pairs(Node, f)) + 1
  BY <1>3, <1>4, <1>5, PairsGrow
<1>7. Cardinality(Pairs(Node, f)) \in Nat
  BY <1>3, <1>5, PairsFinite
<1> QED
  BY <1>1, <1>2, <1>6, <1>7 DEF CountedIn

LEMMA CountedSame ==
  ASSUME NEW s, NEW r, NEW n, NEW c, NEW e \in V!Counter \ {"reordered"}, e # c, Tallied(s, r, n, c)
  PROVE  CountedIn(r, e) = CountedIn(s, e)
<1>1. [m \in Node |-> r[m][e]] = [m \in Node |-> s[m][e]]
  BY DEF Tallied
<1> QED
  BY <1>1 DEF CountedIn

\* What came into a router was sent, dropped or is still there.
Even(count, k) ==
  count["received"] + count["duplicates"] =
    count["sent"] + count["injected"] + count["bufferFull"] + count["bufferCleared"]
      + count["onArrival"] + k
RoutersEven(packets, stats) ==
  /\ \A n \in Node : IsFiniteSet(packets[n])
  /\ \A n \in Node \ Host : Even(stats[n], Cardinality(packets[n]))

\* What was sent came in, was lost or is in flight.
FlightsEven(flights, stats, lost) ==
  /\ IsFiniteSet(flights)
  /\ Cardinality(CountedIn(stats, "sent")) =
       Cardinality(CountedIn(stats, "received")) + Cardinality(Pairs(Link, lost))
         + Cardinality(flights)

In  == {"received", "duplicates"}
Out == {"sent", "injected", "bufferFull", "bufferCleared", "onArrival"}

\* One counter of a node goes up.
LEMMA EvenMoves ==
  ASSUME NEW f \in [V!Counter -> Nat], NEW g, NEW c,
         \A d \in V!Counter \ {"reordered"} : g[d] = IF d = c THEN f[d] + 1 ELSE f[d],
         NEW k \in Nat, Even(f, k)
  PROVE  /\ c \in In => Even(g, k + 1)
         /\ c \in Out => Even(g, k - 1)
<1>1. PICK a1, a2, a3, a4, a5, a6, a7 \in Nat :
        /\ a1 = f["received"] /\ a2 = f["duplicates"] /\ a3 = f["sent"] /\ a4 = f["injected"]
        /\ a5 = f["bufferFull"] /\ a6 = f["bufferCleared"] /\ a7 = f["onArrival"]
  BY CounterNames
<1>2. a1 + a2 = a3 + a4 + a5 + a6 + a7 + k
  BY <1>1 DEF Even
<1>3. /\ g["received"] = IF c = "received" THEN a1 + 1 ELSE a1
      /\ g["duplicates"] = IF c = "duplicates" THEN a2 + 1 ELSE a2
      /\ g["sent"] = IF c = "sent" THEN a3 + 1 ELSE a3
      /\ g["injected"] = IF c = "injected" THEN a4 + 1 ELSE a4
      /\ g["bufferFull"] = IF c = "bufferFull" THEN a5 + 1 ELSE a5
      /\ g["bufferCleared"] = IF c = "bufferCleared" THEN a6 + 1 ELSE a6
      /\ g["onArrival"] = IF c = "onArrival" THEN a7 + 1 ELSE a7
  BY <1>1, CounterNames
<1>4. CASE c = "received"
  BY <1>2, <1>3, <1>4 DEF Even, Out
<1>5. CASE c = "duplicates"
  BY <1>2, <1>3, <1>5 DEF Even, Out
<1>6. CASE c = "sent"
  BY <1>2, <1>3, <1>6 DEF Even, In
<1>7. CASE c = "injected"
  BY <1>2, <1>3, <1>7 DEF Even, In
<1>8. CASE c = "bufferFull"
  BY <1>2, <1>3, <1>8 DEF Even, In
<1>9. CASE c = "bufferCleared"
  BY <1>2, <1>3, <1>9 DEF Even, In
<1>10. CASE c = "onArrival"
  BY <1>2, <1>3, <1>10 DEF Even, In
<1> QED
  BY <1>4, <1>5, <1>6, <1>7, <1>8, <1>9, <1>10 DEF In, Out

LEMMA EvenStays ==
  ASSUME NEW f, NEW g, \A d \in V!Counter \ {"reordered"} : g[d] = f[d], NEW k, Even(f, k)
  PROVE  Even(g, k)
BY CounterNames DEF Even

\* What a tally means for one node.
LEMMA TalliedAt ==
  ASSUME NEW s, NEW r, NEW n, NEW c, Tallied(s, r, n, c), NEW m \in Node
  PROVE  /\ m = n => \A d \in V!Counter \ {"reordered"} : r[m][d] = IF d = c THEN s[m][d] + 1 ELSE s[m][d]
         /\ m # n => \A d \in V!Counter \ {"reordered"} : r[m][d] = s[m][d]
BY DEF Tallied

LEMMA RoutersEnter ==
  ASSUME NEW P, DOMAIN P = Node, NEW s \in CounterType, RoutersEven(P, s), NEW n \in Node, NEW id,
         NEW size, NEW t, V!WithId(P[n], id) = {},
         NEW r, NEW c, c \in In \/ n \in Host, Tallied(s, r, n, c)
  PROVE  RoutersEven(Plus(P, n, id, size, t), r)
<1> DEFINE e == [id |-> id, size |-> size, since |-> t]
           R == [P EXCEPT ![n] = @ \cup {e}]
<1>1. R[n] = P[n] \cup {e} /\ \A m \in Node \ {n} : R[m] = P[m]
  OBVIOUS
<1>2. e \notin P[n]
  BY DEF V!WithId
<1>3. R = Plus(P, n, id, size, t)
  BY DEF Plus
<1> HIDE DEF e, R
<1>4. IsFiniteSet(R[n]) /\ Cardinality(R[n]) = Cardinality(P[n]) + 1 /\ Cardinality(P[n]) \in Nat
  BY <1>1, <1>2, FS_AddElement, FS_CardinalityType DEF RoutersEven
<1>5. ASSUME NEW m \in Node \ Host PROVE Even(r[m], Cardinality(R[m]))
  <2>1. Even(s[m], Cardinality(P[m])) /\ s[m] \in [V!Counter -> Nat]
    BY DEF RoutersEven, CounterType
  <2>2. CASE m # n
    BY <1>1, <2>1, <2>2, TalliedAt, EvenStays
  <2>3. CASE m = n
    <3>1. c \in In /\ \A d \in V!Counter \ {"reordered"} : r[m][d] = IF d = c THEN s[m][d] + 1 ELSE s[m][d]
      BY <2>3, TalliedAt
    <3>2. Cardinality(P[m]) \in Nat
      BY <1>4, <2>3
    <3>3. Even(r[m], Cardinality(P[m]) + 1)
      BY <2>1, <3>1, <3>2, EvenMoves
    <3> QED
      BY <1>4, <2>3, <3>3
  <2> QED
    BY <2>2, <2>3
<1> QED
  BY <1>1, <1>3, <1>4, <1>5 DEF RoutersEven

LEMMA RoutersLeave ==
  ASSUME NEW P, DOMAIN P = Node, NEW s \in CounterType, RoutersEven(P, s), NEW n \in Node, NEW id,
         NEW p \in P[n], V!WithId(P[n], id) = {p},
         NEW r, NEW c, c \in Out \/ n \in Host, Tallied(s, r, n, c)
  PROVE  RoutersEven(Minus(P, n, id), r)
<1> DEFINE R == [P EXCEPT ![n] = @ \ V!WithId(@, id)]
<1>1. R[n] = P[n] \ {p} /\ \A m \in Node \ {n} : R[m] = P[m]
  OBVIOUS
<1>2. R = Minus(P, n, id)
  BY DEF Minus
<1> HIDE DEF R
<1>3. IsFiniteSet(R[n]) /\ Cardinality(R[n]) = Cardinality(P[n]) - 1 /\ Cardinality(P[n]) \in Nat
  BY <1>1, FS_RemoveElement, FS_CardinalityType DEF RoutersEven
<1>4. ASSUME NEW m \in Node \ Host PROVE Even(r[m], Cardinality(R[m]))
  <2>1. Even(s[m], Cardinality(P[m])) /\ s[m] \in [V!Counter -> Nat]
    BY DEF RoutersEven, CounterType
  <2>2. CASE m # n
    BY <1>1, <2>1, <2>2, TalliedAt, EvenStays
  <2>3. CASE m = n
    <3>1. c \in Out /\ \A d \in V!Counter \ {"reordered"} : r[m][d] = IF d = c THEN s[m][d] + 1 ELSE s[m][d]
      BY <2>3, TalliedAt
    <3>2. Cardinality(P[m]) \in Nat
      BY <1>3, <2>3
    <3>3. Even(r[m], Cardinality(P[m]) - 1)
      BY <2>1, <3>1, <3>2, EvenMoves
    <3> QED
      BY <1>3, <2>3, <3>3
  <2> QED
    BY <2>2, <2>3
<1> QED
  BY <1>1, <1>2, <1>3, <1>4 DEF RoutersEven

LEMMA RoutersRefuse ==
  ASSUME NEW P, NEW s \in CounterType, RoutersEven(P, s), NEW n \in Node,
         NEW r, Tallied(s, r, n, "received"), NEW w, Tallied(r, w, n, "onArrival")
  PROVE  RoutersEven(P, w)
<1>1. ASSUME NEW m \in Node \ Host PROVE Even(w[m], Cardinality(P[m]))
  <2>1. /\ Even(s[m], Cardinality(P[m])) /\ Cardinality(P[m]) \in Nat
        /\ s[m] \in [V!Counter -> Nat] /\ r[m] \in [V!Counter -> Nat]
    BY FS_CardinalityType DEF RoutersEven, CounterType, Tallied
  <2>2. CASE m # n
    BY <2>1, <2>2, TalliedAt, EvenStays
  <2>3. CASE m = n
    <3>1. PICK k \in Nat : k = Cardinality(P[m])
      BY <2>1
    <3>2. "received" \in In /\ "onArrival" \in Out /\ k + 1 \in Nat /\ (k + 1) - 1 = k
      BY DEF In, Out
    <3>3. \A d \in V!Counter \ {"reordered"} : r[m][d] = IF d = "received" THEN s[m][d] + 1 ELSE s[m][d]
      BY <2>3, TalliedAt
    <3>4. \A d \in V!Counter \ {"reordered"} : w[m][d] = IF d = "onArrival" THEN r[m][d] + 1 ELSE r[m][d]
      BY <2>3, TalliedAt
    <3>5. Even(r[m], k + 1)
      BY <2>1, <3>1, <3>2, <3>3, EvenMoves
    <3>6. Even(w[m], (k + 1) - 1)
      BY <2>1, <3>2, <3>4, <3>5, EvenMoves
    <3> QED
      BY <3>1, <3>2, <3>6
  <2> QED
    BY <2>2, <2>3
<1> QED
  BY <1>1 DEF RoutersEven

\* Flights.  Of the counters, only those of packets sent and received matter.
LEMMA FlightsStay ==
  ASSUME NEW F, NEW s, NEW lost, FlightsEven(F, s, lost), NEW r, NEW n, NEW c, c \notin {"sent", "received"},
         Tallied(s, r, n, c)
  PROVE  FlightsEven(F, r, lost)
<1>1. CountedIn(r, "sent") = CountedIn(s, "sent")
  BY CountedSame, CounterNames
<1>2. CountedIn(r, "received") = CountedIn(s, "received")
  BY CountedSame, CounterNames
<1> QED
  BY <1>1, <1>2 DEF FlightsEven

LEMMA FlightsType ==
  ASSUME NEW F, NEW s \in CounterType, NEW lost \in [Link -> Nat], FlightsEven(F, s, lost)
  PROVE  /\ Cardinality(CountedIn(s, "sent")) \in Nat /\ Cardinality(CountedIn(s, "received")) \in Nat
         /\ Cardinality(Pairs(Link, lost)) \in Nat /\ Cardinality(F) \in Nat
<1>1. \A c \in V!Counter : [m \in Node |-> s[m][c]] \in [Node -> Nat]
  BY DEF CounterType
<1>2. "sent" \in V!Counter /\ "received" \in V!Counter
  BY CounterNames
<1>3. [m \in Node |-> s[m]["sent"]] \in [Node -> Nat] /\ [m \in Node |-> s[m]["received"]] \in [Node -> Nat]
  BY <1>1, <1>2
<1>4. Cardinality(CountedIn(s, "sent")) \in Nat /\ Cardinality(CountedIn(s, "received")) \in Nat
  BY <1>3, PairsFinite, VerifierAssumption DEF CountedIn
<1>5. Cardinality(Pairs(Link, lost)) \in Nat
  BY PairsFinite, VerifierAssumption
<1> QED
  BY <1>4, <1>5, FS_CardinalityType DEF FlightsEven

LEMMA FlightsSend ==
  ASSUME NEW F, NEW s \in CounterType, NEW lost \in [Link -> Nat], FlightsEven(F, s, lost),
         NEW r, NEW n \in Node, Tallied(s, r, n, "sent"), NEW x, x \notin F
  PROVE  FlightsEven(F \cup {x}, r, lost)
<1>1. CountedIn(r, "received") = CountedIn(s, "received")
  BY CountedSame, CounterNames
<1>2. Cardinality(CountedIn(r, "sent")) = Cardinality(CountedIn(s, "sent")) + 1
  BY CountedMore, CounterNames
<1>3. IsFiniteSet(F \cup {x}) /\ Cardinality(F \cup {x}) = Cardinality(F) + 1
  BY FS_AddElement DEF FlightsEven
<1> QED
  BY <1>1, <1>2, <1>3, FlightsType DEF FlightsEven

LEMMA FlightsReceive ==
  ASSUME NEW F, NEW s \in CounterType, NEW lost \in [Link -> Nat], FlightsEven(F, s, lost),
         NEW r, NEW n \in Node, Tallied(s, r, n, "received"), NEW x \in F
  PROVE  FlightsEven(F \ {x}, r, lost)
<1>1. CountedIn(r, "sent") = CountedIn(s, "sent")
  BY CountedSame, CounterNames
<1>2. Cardinality(CountedIn(r, "received")) = Cardinality(CountedIn(s, "received")) + 1
  BY CountedMore, CounterNames
<1>3. IsFiniteSet(F \ {x}) /\ Cardinality(F \ {x}) = Cardinality(F) - 1
  BY FS_RemoveElement DEF FlightsEven
<1> QED
  BY <1>1, <1>2, <1>3, FlightsType DEF FlightsEven

LEMMA FlightsLose ==
  ASSUME NEW F, NEW s \in CounterType, NEW lost \in [Link -> Nat], FlightsEven(F, s, lost),
         NEW l \in Link, NEW x \in F
  PROVE  FlightsEven(F \ {x}, s, [lost EXCEPT ![l] = @ + 1])
<1>1. PICK more : more = [lost EXCEPT ![l] = @ + 1]
  OBVIOUS
<1>2. more[l] = lost[l] + 1 /\ \A k \in Link \ {l} : more[k] = lost[k]
  BY <1>1
<1>3. Cardinality(Pairs(Link, more)) = Cardinality(Pairs(Link, lost)) + 1
  BY <1>2, PairsGrow, VerifierAssumption
<1>4. IsFiniteSet(F \ {x}) /\ Cardinality(F \ {x}) = Cardinality(F) - 1
  BY FS_RemoveElement DEF FlightsEven
<1>5. FlightsEven(F \ {x}, s, more)
  BY <1>3, <1>4, FlightsType DEF FlightsEven
<1> QED
  BY <1>1, <1>5

-----------------------------------------------------------------------------
(* The replay keeps up with the log.                                        *)

Faithful(v, log, d) ==
  /\ Replaying(v)
  /\ MirrorNodes(v.packets, log, d) /\ MirrorLinks(v.inFlight, log)
  /\ RoutersEven(v.packets, v.stats) /\ FlightsEven(v.inFlight, v.stats, v.lost)

LEMMA FlightOf ==
  ASSUME NEW F, NEW log, MirrorLinks(F, log), NEW id \in Id
  PROVE  /\ \A l \in Link : log[id] = InTransit(l) =>
              \E x \in F : V!WithId(F, id) = {x} /\ x.id = id /\ x.link = l
         /\ (\A l \in Link : log[id] # InTransit(l)) => V!WithId(F, id) = {} /\ Landed(F, id) = F
<1>1. ASSUME NEW l \in Link, log[id] = InTransit(l)
      PROVE  \E x \in F : V!WithId(F, id) = {x} /\ x.id = id /\ x.link = l
  <2>1. PICK x \in F : x.id = id /\ x.link = l
    BY <1>1 DEF MirrorLinks
  <2>2. V!WithId(F, id) = {x}
    BY <2>1 DEF MirrorLinks, V!WithId
  <2> QED
    BY <2>1, <2>2
<1>2. ASSUME \A l \in Link : log[id] # InTransit(l)
      PROVE  V!WithId(F, id) = {}
  BY <1>2 DEF MirrorLinks, V!WithId
<1>3. V!WithId(F, id) = {} => Landed(F, id) = F
  BY DEF Landed
<1> QED
  BY <1>1, <1>2, <1>3

LEMMA FaithfulEnters ==
  ASSUME NEW v, NEW log, DOMAIN log = Id, NEW d, Faithful(v, log, d), NEW id \in Id, NEW n \in Node,
         Outside(id, log), NEW size \in Nat, size = d[id].size, NEW t \in Nat,
         NEW q, q = InNode(n) \/ (q = Recorded("DroppedOnArrival", n) /\ d[id].src = n),
         NEW c,
         \/ /\ \A l \in Link : log[id] # InTransit(l)
            /\ c = "duplicates" \/ (c = "none" /\ n \in Host)
         \/ (\E l \in Link : log[id] = InTransit(l)) /\ c = "received",
         NEW w, Enters(v, w, id, n, size, t, c),
         NEW g, Relogged(log, g, id, q)
  PROVE  Faithful(w, g, d)
<1>1. /\ Only(v, w, {"packets", "inFlight", "stats", "highest", "errors"})
      /\ w.packets = Plus(v.packets, n, id, size, t)
      /\ w.inFlight = Landed(v.inFlight, id)
      /\ Tallied(v.stats, w.stats, n, c)
  BY DEF Enters
<1>2. DOMAIN w = Fields /\ w.fatal = v.fatal /\ w.nodeUp = v.nodeUp /\ w.linkUp = v.linkUp /\ w.lost = v.lost
  BY <1>1 DEF Only, Fields
<1>3. Replaying(w)
  BY <1>1, <1>2 DEF Faithful, Replaying, Tallied
<1>4. v.stats \in CounterType /\ v.lost \in [Link -> Nat] /\ DOMAIN v.packets = Node
  BY DEF Faithful, Replaying, MirrorNodes
<1>5. MirrorNodes(v.packets, log, d) /\ MirrorLinks(v.inFlight, log)
  BY DEF Faithful
<1>6. V!WithId(v.packets[n], id) = {} /\ MirrorNodes(w.packets, g, d)
  <2>1. V!WithId(v.packets[n], id) = {} /\ MirrorNodes(Plus(v.packets, n, id, size, t), g, d)
    BY <1>5, NodesEnter
  <2> QED
    BY <1>1, <2>1
<1>7. MirrorLinks(w.inFlight, g)
  <2>1. \A l \in Link : q # InTransit(l)
    BY DEF InNode, InTransit, Recorded
  <2> QED
    BY <1>1, <1>5, <2>1, LinksLand
<1>8. RoutersEven(w.packets, w.stats)
  <2>1. c \in In \/ n \in Host
    BY DEF In
  <2> QED
    BY <1>1, <1>4, <1>6, <2>1, RoutersEnter DEF Faithful
<1>9. FlightsEven(w.inFlight, w.stats, w.lost)
  <2>1. CASE /\ \A l \in Link : log[id] # InTransit(l)
             /\ c = "duplicates" \/ (c = "none" /\ n \in Host)
    <3>1. w.inFlight = v.inFlight
      BY <1>1, <1>5, <2>1, FlightOf
    <3>2. c \notin {"sent", "received"}
      BY <2>1
    <3> QED
      BY <1>1, <1>2, <3>1, <3>2, FlightsStay DEF Faithful
  <2>2. CASE (\E l \in Link : log[id] = InTransit(l)) /\ c = "received"
    <3>1. PICK x \in v.inFlight : V!WithId(v.inFlight, id) = {x}
      BY <1>5, <2>2, FlightOf
    <3>2. w.inFlight = v.inFlight \ {x}
      BY <1>1, <3>1 DEF Landed
    <3>3. Tallied(v.stats, w.stats, n, "received")
      BY <1>1, <2>2
    <3> QED
      BY <1>2, <1>4, <3>2, <3>3, FlightsReceive DEF Faithful
  <2> QED
    BY <2>1, <2>2
<1> QED
  BY <1>3, <1>6, <1>7, <1>8, <1>9 DEF Faithful

LEMMA FaithfulLeaves ==
  ASSUME NEW v, NEW log, DOMAIN log = Id, NEW d, Faithful(v, log, d), NEW id \in Id, NEW n \in Node,
         log[id] = InNode(n),
         NEW q, \A m \in Node : q # InNode(m), \A l \in Link : q # InTransit(l),
         NEW c, c \in {"injected", "bufferFull", "bufferCleared"} \/ (c = "none" /\ n \in Host),
         NEW w, Leaves(v, w, id, n, c),
         NEW g, Relogged(log, g, id, q)
  PROVE  Faithful(w, g, d)
<1>1. /\ Only(v, w, {"packets", "stats"})
      /\ w.packets = Minus(v.packets, n, id)
      /\ Tallied(v.stats, w.stats, n, c)
  BY DEF Leaves
<1>2. /\ DOMAIN w = Fields /\ w.fatal = v.fatal /\ w.nodeUp = v.nodeUp /\ w.linkUp = v.linkUp
      /\ w.lost = v.lost /\ w.inFlight = v.inFlight
  BY <1>1 DEF Only, Fields
<1>3. Replaying(w)
  BY <1>1, <1>2 DEF Faithful, Replaying, Tallied
<1>4. v.stats \in CounterType /\ v.lost \in [Link -> Nat] /\ DOMAIN v.packets = Node
  BY DEF Faithful, Replaying, MirrorNodes
<1>5. MirrorNodes(v.packets, log, d) /\ MirrorLinks(v.inFlight, log)
  BY DEF Faithful
<1>6. /\ \E p \in v.packets[n] : V!WithId(v.packets[n], id) = {p}
      /\ MirrorNodes(w.packets, g, d)
  BY <1>1, <1>5, NodesLeave
<1>7. MirrorLinks(w.inFlight, g)
  <2>1. \A l \in Link : log[id] # InTransit(l)
    BY DEF InNode, InTransit, Recorded
  <2>2. Landed(v.inFlight, id) = v.inFlight
    BY <1>5, <2>1, FlightOf
  <2> QED
    BY <1>2, <1>5, <2>2, LinksLand
<1>8. RoutersEven(w.packets, w.stats)
  <2>1. c \in Out \/ n \in Host
    BY DEF Out
  <2> QED
    BY <1>1, <1>4, <1>6, <2>1, RoutersLeave DEF Faithful
<1>9. FlightsEven(w.inFlight, w.stats, w.lost)
  <2>1. c \notin {"sent", "received"}
    OBVIOUS
  <2> QED
    BY <1>1, <1>2, <2>1, FlightsStay DEF Faithful
<1> QED
  BY <1>3, <1>6, <1>7, <1>8, <1>9 DEF Faithful

LEMMA FaithfulDeparts ==
  ASSUME NEW v, NEW log, DOMAIN log = Id, NEW d, Faithful(v, log, d), NEW id \in Id, NEW n \in Node,
         log[id] = InNode(n), NEW l \in Link, NEW t \in Nat, NEW size,
         NEW w, Departs(v, w, id, n, l, t, size),
         NEW g, Relogged(log, g, id, InTransit(l))
  PROVE  Faithful(w, g, d)
<1> DEFINE x == [id |-> id, link |-> l, sent |-> t, extra |-> 0]
<1>1. /\ Only(v, w, {"packets", "inFlight", "sends", "stats", "errors"})
      /\ w.packets = Minus(v.packets, n, id)
      /\ w.inFlight = Landed(v.inFlight, id) \cup {x}
      /\ Tallied(v.stats, w.stats, n, "sent")
  BY DEF Departs
<1>2. DOMAIN w = Fields /\ w.fatal = v.fatal /\ w.nodeUp = v.nodeUp /\ w.linkUp = v.linkUp /\ w.lost = v.lost
  BY <1>1 DEF Only, Fields
<1>3. Replaying(w)
  BY <1>1, <1>2 DEF Faithful, Replaying, Tallied
<1>4. v.stats \in CounterType /\ v.lost \in [Link -> Nat] /\ DOMAIN v.packets = Node
  BY DEF Faithful, Replaying, MirrorNodes
<1>5. MirrorNodes(v.packets, log, d) /\ MirrorLinks(v.inFlight, log)
  BY DEF Faithful
<1>6. /\ \E p \in v.packets[n] : V!WithId(v.packets[n], id) = {p}
      /\ MirrorNodes(w.packets, g, d)
  <2>1. \A m \in Node : InTransit(l) # InNode(m)
    BY DEF InNode, InTransit, Recorded
  <2>2. /\ \E p \in v.packets[n] : V!WithId(v.packets[n], id) = {p}
        /\ MirrorNodes(Minus(v.packets, n, id), g, d)
    <3>1. PICK q : q = InTransit(l)
      OBVIOUS
    <3>2. Relogged(log, g, id, q) /\ \A m \in Node : q # InNode(m)
      BY <2>1, <3>1
    <3> QED
      BY <1>5, <3>2, NodesLeave
  <2> QED
    BY <1>1, <2>2
<1>7. MirrorLinks(w.inFlight, g)
  BY <1>1, <1>5, LinksSend
<1>8. RoutersEven(w.packets, w.stats)
  BY <1>1, <1>4, <1>6, RoutersLeave DEF Faithful, Out
<1>9. FlightsEven(w.inFlight, w.stats, w.lost)
  <2>1. \A k \in Link : log[id] # InTransit(k)
    BY DEF InNode, InTransit, Recorded
  <2>2. Landed(v.inFlight, id) = v.inFlight /\ V!WithId(v.inFlight, id) = {}
    BY <1>5, <2>1, FlightOf
  <2>3. x \notin v.inFlight
    BY <2>2 DEF V!WithId
  <2> HIDE DEF x
  <2>4. w.inFlight = v.inFlight \cup {x}
    BY <1>1, <2>2
  <2> QED
    BY <1>1, <1>2, <1>4, <2>3, <2>4, FlightsSend DEF Faithful
<1> QED
  BY <1>3, <1>6, <1>7, <1>8, <1>9 DEF Faithful

LEMMA FaithfulRefused ==
  ASSUME NEW v, NEW log, DOMAIN log = Id, NEW d, Faithful(v, log, d), NEW id \in Id, NEW n \in Node,
         NEW l \in Link, log[id] = InTransit(l),
         NEW q, \A m \in Node : q # InNode(m), \A k \in Link : q # InTransit(k),
         NEW w, Refused(v, w, id, n),
         NEW g, Relogged(log, g, id, q)
  PROVE  Faithful(w, g, d)
<1>1. PICK r : /\ Only(v, w, {"inFlight", "stats", "highest", "errors"})
               /\ w.inFlight = Landed(v.inFlight, id)
               /\ Tallied(v.stats, r, n, "received") /\ Tallied(r, w.stats, n, "onArrival")
  BY DEF Refused
<1>2. /\ DOMAIN w = Fields /\ w.fatal = v.fatal /\ w.nodeUp = v.nodeUp /\ w.linkUp = v.linkUp
      /\ w.lost = v.lost /\ w.packets = v.packets
  BY <1>1 DEF Only, Fields
<1>3. Replaying(w)
  BY <1>1, <1>2 DEF Faithful, Replaying, Tallied
<1>4. v.stats \in CounterType /\ v.lost \in [Link -> Nat] /\ DOMAIN v.packets = Node
  BY DEF Faithful, Replaying, MirrorNodes
<1>5. MirrorNodes(v.packets, log, d) /\ MirrorLinks(v.inFlight, log)
  BY DEF Faithful
<1>6. MirrorNodes(w.packets, g, d)
  <2>1. Outside(id, log)
    BY DEF InNode, InTransit, Recorded, Outside
  <2> QED
    BY <1>2, <1>5, <2>1, NodesStay
<1>7. MirrorLinks(w.inFlight, g)
  BY <1>1, <1>5, LinksLand
<1>8. RoutersEven(w.packets, w.stats)
  BY <1>1, <1>2, <1>4, RoutersRefuse DEF Faithful
<1>9. FlightsEven(w.inFlight, w.stats, w.lost)
  <2>1. PICK x \in v.inFlight : V!WithId(v.inFlight, id) = {x}
    BY <1>5, FlightOf
  <2>2. w.inFlight = v.inFlight \ {x}
    BY <1>1, <2>1 DEF Landed
  <2>3. FlightsEven(w.inFlight, r, v.lost)
    BY <1>1, <1>4, <2>2, FlightsReceive DEF Faithful
  <2> QED
    BY <1>1, <1>2, <2>3, FlightsStay
<1> QED
  BY <1>3, <1>6, <1>7, <1>8, <1>9 DEF Faithful

LEMMA FaithfulLost ==
  ASSUME NEW v, NEW log, DOMAIN log = Id, NEW d, Faithful(v, log, d), NEW id \in Id,
         NEW l \in Link, log[id] = InTransit(l),
         NEW q, \A m \in Node : q # InNode(m), \A k \in Link : q # InTransit(k),
         NEW w, Only(v, w, {"inFlight", "lost"}), w.inFlight = Landed(v.inFlight, id),
         w.lost = [v.lost EXCEPT ![l] = @ + 1],
         NEW g, Relogged(log, g, id, q)
  PROVE  Faithful(w, g, d)
<1>1. v.stats \in CounterType /\ v.lost \in [Link -> Nat] /\ DOMAIN v.packets = Node
  BY DEF Faithful, Replaying, MirrorNodes
<1>2. /\ DOMAIN w = Fields /\ w.fatal = v.fatal /\ w.nodeUp = v.nodeUp /\ w.linkUp = v.linkUp
      /\ w.stats = v.stats /\ w.packets = v.packets
  BY DEF Only, Fields
<1>3. Replaying(w)
  <2>1. w.lost \in [Link -> Nat]
    BY <1>1
  <2> QED
    BY <1>2, <2>1 DEF Faithful, Replaying
<1>5. MirrorNodes(v.packets, log, d) /\ MirrorLinks(v.inFlight, log)
  BY DEF Faithful
<1>6. MirrorNodes(w.packets, g, d)
  <2>1. Outside(id, log)
    BY DEF InNode, InTransit, Recorded, Outside
  <2> QED
    BY <1>2, <1>5, <2>1, NodesStay
<1>7. MirrorLinks(w.inFlight, g)
  BY <1>5, LinksLand
<1>8. RoutersEven(w.packets, w.stats)
  BY <1>2 DEF Faithful
<1>9. FlightsEven(w.inFlight, w.stats, w.lost)
  <2>1. PICK x \in v.inFlight : V!WithId(v.inFlight, id) = {x}
    BY <1>5, FlightOf
  <2>2. w.inFlight = v.inFlight \ {x}
    BY <2>1 DEF Landed
  <2> QED
    BY <1>1, <1>2, <2>2, FlightsLose DEF Faithful
<1> QED
  BY <1>3, <1>6, <1>7, <1>8, <1>9 DEF Faithful

-----------------------------------------------------------------------------
(* What the replay of a packet leaves alone.                                *)

\* From v to w only the packets a and b moved, and they did so now.
Carried(v, w, a, b) ==
  /\ w.linkUp = v.linkUp /\ w.nodeUp = v.nodeUp
  /\ w.lastDown = v.lastDown /\ w.lastClear = v.lastClear
  /\ w.maxUsage = v.maxUsage /\ w.time = v.time
  /\ \A x \in w.inFlight : x \in v.inFlight \/ (x.id \in {a, b} /\ x.sent = now)
  /\ \A n \in Node : \A p \in w.packets[n] :
       p \in v.packets[n] \/ (p.id \in {a, b} /\ p.since = now)

LEMMA CarriedOn ==
  ASSUME NEW v, NEW u, NEW w, NEW a, NEW b, Carried(v, u, a, a), Carried(u, w, b, b)
  PROVE  Carried(v, w, a, b)
BY DEF Carried

LEMMA EntersCarried ==
  ASSUME NEW v, DOMAIN v.packets = Node, NEW w, NEW id, NEW n \in Node, NEW size, NEW c,
         Enters(v, w, id, n, size, now, c)
  PROVE  Carried(v, w, id, id)
<1>1. /\ Only(v, w, {"packets", "inFlight", "stats", "highest", "errors"})
      /\ w.packets = Plus(v.packets, n, id, size, now)
      /\ w.inFlight = Landed(v.inFlight, id)
  BY DEF Enters
<1>2. /\ w.linkUp = v.linkUp /\ w.nodeUp = v.nodeUp
      /\ w.lastDown = v.lastDown /\ w.lastClear = v.lastClear
      /\ w.maxUsage = v.maxUsage /\ w.time = v.time
  BY <1>1 DEF Only, Fields
<1>3. w.inFlight \subseteq v.inFlight
  BY <1>1 DEF Landed
<1>4. \A m \in Node : \A p \in w.packets[m] : p \in v.packets[m] \/ (p.id = id /\ p.since = now)
  BY <1>1 DEF Plus
<1> QED
  BY <1>2, <1>3, <1>4 DEF Carried

LEMMA LeavesCarried ==
  ASSUME NEW v, DOMAIN v.packets = Node, NEW w, NEW id, NEW n \in Node, NEW c,
         Leaves(v, w, id, n, c)
  PROVE  Carried(v, w, id, id)
<1>1. Only(v, w, {"packets", "stats"}) /\ w.packets = Minus(v.packets, n, id)
  BY DEF Leaves
<1>2. /\ w.linkUp = v.linkUp /\ w.nodeUp = v.nodeUp
      /\ w.lastDown = v.lastDown /\ w.lastClear = v.lastClear
      /\ w.maxUsage = v.maxUsage /\ w.time = v.time /\ w.inFlight = v.inFlight
  BY <1>1 DEF Only, Fields
<1>3. \A m \in Node : w.packets[m] \subseteq v.packets[m]
  BY <1>1 DEF Minus
<1> QED
  BY <1>2, <1>3 DEF Carried

LEMMA DepartsCarried ==
  ASSUME NEW v, DOMAIN v.packets = Node, NEW w, NEW id, NEW n \in Node, NEW l, NEW size,
         Departs(v, w, id, n, l, now, size)
  PROVE  Carried(v, w, id, id)
<1>1. /\ Only(v, w, {"packets", "inFlight", "sends", "stats", "errors"})
      /\ w.packets = Minus(v.packets, n, id)
      /\ w.inFlight = Landed(v.inFlight, id) \cup {[id |-> id, link |-> l, sent |-> now, extra |-> 0]}
  BY DEF Departs
<1>2. /\ w.linkUp = v.linkUp /\ w.nodeUp = v.nodeUp
      /\ w.lastDown = v.lastDown /\ w.lastClear = v.lastClear
      /\ w.maxUsage = v.maxUsage /\ w.time = v.time
  BY <1>1 DEF Only, Fields
<1>3. \A m \in Node : w.packets[m] \subseteq v.packets[m]
  BY <1>1 DEF Minus
<1>4. \A x \in w.inFlight : x \in v.inFlight \/ (x.id = id /\ x.sent = now)
  BY <1>1 DEF Landed
<1> QED
  BY <1>2, <1>3, <1>4 DEF Carried

LEMMA LandedCarried ==
  ASSUME NEW v, NEW w, NEW id, w.inFlight = Landed(v.inFlight, id),
         \/ Only(v, w, {"inFlight", "stats", "highest", "errors"})
         \/ Only(v, w, {"inFlight", "lost"})
  PROVE  Carried(v, w, id, id)
<1>1. /\ w.linkUp = v.linkUp /\ w.nodeUp = v.nodeUp
      /\ w.lastDown = v.lastDown /\ w.lastClear = v.lastClear
      /\ w.maxUsage = v.maxUsage /\ w.time = v.time /\ w.packets = v.packets
  BY DEF Only, Fields
<1>2. w.inFlight \subseteq v.inFlight
  BY DEF Landed
<1> QED
  BY <1>1, <1>2 DEF Carried

-----------------------------------------------------------------------------
(* What a step of the network records.                                      *)

ArrivalNames == {"InNode", "DroppedOnArrival", "DroppedRandom", "DroppedBufferFull"}

\* What may be recorded of a packet after p.
Arriving(p, q) ==
  \E n \in Node : /\ p = NotBorn \/ \E l \in Link : p = InTransit(l)
                  /\ \E step \in ArrivalNames : q = Recorded(step, n)
Departing(p, q) ==
  \E n \in Node :
    /\ p = InNode(n)
    /\ \/ q \in {Recorded("Delivered", n), Recorded("DroppedBufferCleared", n)}
       \/ \E l \in Link : Source[l] = n /\ q = InTransit(l)
Losing(p, q) == \E l \in Link : p = InTransit(l) /\ q = Recorded("LostInTransit", l)
Moves(p, q) == Arriving(p, q) \/ Departing(p, q) \/ Losing(p, q)

\* A packet that is new in the log was created by its host, which is where it
\* is recorded, or is the duplicate of another one, kept or not.
Birth(id) ==
  trace[id] = NotBorn =>
    IF data'[id].number = id
    THEN trace'[id].at \in Host /\ data'[id].src = trace'[id].at
    ELSE trace'[id].step # "DroppedOnArrival"

SameData(id) ==
  /\ data'[id].number = data[id].number /\ data'[id].size = data[id].size
  /\ data'[id].src = data[id].src /\ data'[id].dst = data[id].dst

\* Two packets at most move, and those that were there keep their data.
Records ==
  /\ \E a, b : Changed \subseteq {a, b}
  /\ \A id \in Changed : Moves(trace[id], trace'[id]) /\ Birth(id)
  /\ \A id \in Changed : trace'[id].step = "Delivered" => trace'[id].at \in Host
  /\ nextId \in Nat /\ nextId' \in Nat /\ nextId <= nextId'
  /\ \A id \in Id : id < nextId => SameData(id)

\* Only hosts are sent packets, and duplicates have the number of an older one.
Endpoints ==
  /\ \A id \in Id : id < nextId => data[id].number < nextId /\ data[id].dst \in Host
  /\ \A n \in Node : inbound[n] # {} => n \in Host

\* What forward does to the data of packets and to the queues of sockets.
Forwards(n, id, d, fresh) ==
  /\ data'[id] = d /\ \A i \in Id \ {id, fresh} : data'[i] = data[i]
  /\ nextId' = fresh \/ (nextId' = fresh + 1 /\ data'[fresh] = d)
  /\ \A m \in Node : inbound'[m] # inbound[m] => m = n /\ d.dst = n

LEMMA ForwardData ==
  ASSUME TypeOK, NEW n \in Node, NEW id \in Id, NEW d \in Data, NEW task,
         NEW fresh \in 1..(MaxPackets + 1), id # fresh, Forward(n, id, d, fresh, task)
  PROVE  Forwards(n, id, d, fresh)
<1> USE DEF TypeOK, Forwards
<1>1. CASE ArriveAtDownNode(n, id, d, fresh) \/ DropRandomly(n, id, d, fresh)
  BY <1>1 DEF ArriveAtDownNode, DropRandomly
<1>2. CASE ArriveAtEndpoint(n, id, d, fresh)
  BY <1>2 DEF ArriveAtEndpoint
<1>3. CASE StorePacket(n, id, d, fresh, task)
  BY <1>3 DEF StorePacket
<1>4. CASE StoreDuplicated(n, id, d, fresh, task)
  <2>1. fresh \in Id
    BY <1>4, ParameterAssumption DEF StoreDuplicated, Id
  <2>2. /\ data' = [data EXCEPT ![id] = d, ![fresh] = d] /\ nextId' = fresh + 1 /\ inbound' = inbound
    BY <1>4 DEF StoreDuplicated
  <2> QED
    BY <2>1, <2>2
<1> QED
  BY <1>1, <1>2, <1>3, <1>4 DEF Forward

LEMMA ForwardRecords ==
  ASSUME TypeOK, NEW n \in Node, NEW id \in Id, NEW d \in Data, NEW task,
         NEW fresh \in 1..(MaxPackets + 1), id # fresh, Forward(n, id, d, fresh, task)
  PROVE  /\ \A i \in Id \ {id, fresh} : trace'[i] = trace[i]
         /\ \E step \in ArrivalNames : trace'[id] = Recorded(step, n)
         /\ \A i \in Id \ {id} : trace'[i] # trace[i] =>
              i = fresh /\ nextId' = fresh + 1 /\ trace'[i] \in {InNode(n), Unkept(n)}
<1> USE DEF TypeOK, ArrivalNames
<1>1. Arrives(n, id, fresh, task)
  BY ForwardCases
<1>2. CASE Gone(n, id) \/ Readable(n, id) \/ Kept(n, id) \/ Stranded(n, id, task)
  <2>1. PICK step \in ArrivalNames : trace' = [trace EXCEPT ![id] = Recorded(step, n)]
    BY <1>2 DEF Gone, Readable, Kept, Stranded, InNode
  <2> QED
    BY <2>1
<1>3. CASE /\ fresh \in Id /\ nextId' = fresh + 1
           /\ NoneKept(n, id, fresh) \/ OneKept(n, id, fresh) \/ BothKept(n, id, fresh)
  <2>1. PICK q \in {InNode(n), Unkept(n)}, r \in {InNode(n), Unkept(n)} :
          trace' = [trace EXCEPT ![id] = q, ![fresh] = r]
    BY <1>3 DEF NoneKept, OneKept, BothKept, Unkept
  <2>2. trace'[id] = q /\ trace'[fresh] = r /\ \A i \in Id \ {id, fresh} : trace'[i] = trace[i]
    BY <1>3, <2>1
  <2>3. \E step \in ArrivalNames : q = Recorded(step, n)
    BY DEF InNode, Unkept
  <2> QED
    BY <1>3, <2>2, <2>3
<1> QED
  BY <1>1, <1>2, <1>3 DEF Arrives

LEMMA StepNames ==
  /\ \A step, place : Recorded(step, place).step = step /\ Recorded(step, place).at = place
  /\ \A n : InNode(n).step = "InNode" /\ InNode(n).at = n
  /\ \A n : Unkept(n).step = "DroppedBufferFull" /\ Unkept(n).at = n
  /\ \A l : InTransit(l).step = "InTransit" /\ InTransit(l).at = l
  /\ NotBorn.step = "None"
BY DEF Recorded, InNode, Unkept, InTransit, NotBorn

LEMMA ForwardStep ==
  ASSUME CustodyInv, Endpoints, NEW n \in Node, NEW id \in Id, NEW d \in Data, NEW task,
         NEW fresh \in 1..(MaxPackets + 1), id < fresh, Forward(n, id, d, fresh, task), d.dst \in Host,
         \/ /\ trace[id] = NotBorn /\ id = nextId /\ fresh = nextId + 1
            /\ d.number = id /\ d.src = n /\ n \in Host
         \/ /\ \E l \in Link : trace[id] = InTransit(l)
            /\ id < nextId /\ fresh = nextId /\ d = data[id]
  PROVE  Records /\ Endpoints'
<1> USE ParameterAssumption
<1>1. TypeOK /\ nextId \in Nat /\ fresh \in Nat /\ id \in Nat /\ nextId <= fresh /\ id # fresh
  <2>1. TypeOK
    BY DEF CustodyInv
  <2>2. nextId \in Nat /\ fresh \in Nat /\ id \in Nat
    BY <2>1 DEF TypeOK, Id
  <2> QED
    BY <2>1, <2>2
<1>2. /\ data'[id] = d /\ \A i \in Id \ {id, fresh} : data'[i] = data[i]
      /\ nextId' = fresh \/ (nextId' = fresh + 1 /\ data'[fresh] = d)
      /\ \A m \in Node : inbound'[m] # inbound[m] => m = n /\ d.dst = n
  <2>1. Forwards(n, id, d, fresh)
    BY <1>1, ForwardData
  <2> QED
    BY <2>1 DEF Forwards
<1>3. /\ \A i \in Id \ {id, fresh} : trace'[i] = trace[i]
      /\ \E step \in ArrivalNames : trace'[id] = Recorded(step, n)
      /\ \A i \in Id \ {id} : trace'[i] # trace[i] =>
           i = fresh /\ nextId' = fresh + 1 /\ trace'[i] \in {InNode(n), Unkept(n)}
  BY <1>1, ForwardRecords
<1>4. fresh \in Id => trace[fresh] = NotBorn
  BY <1>1 DEF CustodyInv, FreeIds
<1>5. d.number < fresh
  BY DEF Endpoints
<1>6. Changed \subseteq {id, fresh}
  BY <1>3 DEF Changed
<1>7. ASSUME NEW i \in Changed
      PROVE  Moves(trace[i], trace'[i]) /\ Birth(i) /\ trace'[i].step # "Delivered"
  <2>1. CASE i = id
    <3>1. PICK step \in ArrivalNames : trace'[i] = Recorded(step, n)
      BY <1>3, <2>1
    <3>2. trace'[i].step = step /\ trace'[i].at = n /\ step # "Delivered"
      BY <3>1, StepNames DEF ArrivalNames
    <3>3. Arriving(trace[i], trace'[i])
      BY <2>1, <3>1 DEF Arriving
    <3>4. Birth(i)
      <4>1. CASE trace[id] = NotBorn /\ d.number = id /\ d.src = n /\ n \in Host
        BY <1>2, <2>1, <3>2, <4>1 DEF Birth
      <4>2. CASE \E l \in Link : trace[id] = InTransit(l)
        <5>1. trace[id] # NotBorn
          BY <4>2, StepNames
        <5> QED
          BY <2>1, <5>1 DEF Birth
      <4> QED
        BY <4>1, <4>2
    <3> QED
      BY <3>2, <3>3, <3>4 DEF Moves
  <2>2. CASE i # id
    <3>1. i = fresh /\ nextId' = fresh + 1 /\ trace'[i] \in {InNode(n), Unkept(n)} /\ i \in Id
      BY <1>3, <2>2 DEF Changed
    <3>2. trace[i] = NotBorn /\ data'[i] = d
      BY <1>1, <1>2, <1>4, <3>1
    <3>3. trace'[i].step \in {"InNode", "DroppedBufferFull"}
      BY <3>1, StepNames
    <3>4. Arriving(trace[i], trace'[i])
      BY <3>1, <3>2 DEF Arriving, ArrivalNames, InNode, Unkept
    <3>5. data'[i].number # i
      BY <1>1, <1>5, <3>1, <3>2
    <3>6. Birth(i)
      BY <3>3, <3>5 DEF Birth
    <3> QED
      BY <3>3, <3>4, <3>6 DEF Moves
  <2> QED
    BY <2>1, <2>2
<1>8. nextId' \in Nat /\ nextId <= nextId' /\ fresh <= nextId'
  BY <1>1, <1>2
<1>9. ASSUME NEW i \in Id, i < nextId PROVE SameData(i)
  <2>1. i # fresh /\ i \in Nat
    BY <1>1, <1>9 DEF Id
  <2>2. CASE i = id
    <3>1. d = data[id]
      BY <1>1, <1>9, <2>2
    <3> QED
      BY <1>2, <2>2, <3>1 DEF SameData
  <2>3. CASE i # id
    BY <1>2, <2>1, <2>3 DEF SameData
  <2> QED
    BY <2>2, <2>3
<1>10. Records
  BY <1>1, <1>6, <1>7, <1>8, <1>9 DEF Records
<1>11. ASSUME NEW i \in Id, i < nextId' PROVE data'[i].number < nextId' /\ data'[i].dst \in Host
  <2>0. i \in Nat /\ d.number \in Nat
    BY DEF Id, Data
  <2>1. CASE data'[i] = d
    BY <1>1, <1>5, <1>8, <2>0, <2>1
  <2>2. CASE data'[i] # d
    <3>1. i # id /\ i # fresh
      BY <1>1, <1>2, <1>11, <2>0, <2>2
    <3>2. data'[i] = data[i] /\ i < nextId
      BY <1>1, <1>2, <1>11, <2>0, <3>1
    <3>3. data[i].number < nextId /\ data[i].dst \in Host
      BY <3>2 DEF Endpoints
    <3>4. data[i] \in Data
      BY <1>1 DEF TypeOK
    <3>5. data[i].number \in Nat
      BY <3>4 DEF Data, Id
    <3> QED
      BY <1>1, <1>8, <3>2, <3>3, <3>5
  <2> QED
    BY <2>1, <2>2
<1>12. ASSUME NEW m \in Node, inbound'[m] # {} PROVE m \in Host
  BY <1>2, <1>12 DEF Endpoints
<1>13. Endpoints'
  BY <1>11, <1>12 DEF Endpoints
<1> QED
  BY <1>10, <1>13

LEMMA HostSendStep ==
  ASSUME CustodyInv, Endpoints, NEW f \in Flow, NEW size \in Size, NEW ecn \in HostEcn,
         HostSend(f, size, ecn)
  PROVE  Records /\ Endpoints'
<1> DEFINE d == [number |-> nextId, src |-> f[1], dst |-> f[2], size |-> size, ecn |-> ecn]
<1>1. TypeOK /\ f[1] \in Node /\ f[2] \in Node /\ ecn \in Ecn /\ f[1] \in Host /\ f[2] \in Host
  BY ParameterAssumption, VerifierAssumption DEF CustodyInv
<1>2. nextId \in Id /\ nextId + 1 \in 1..(MaxPackets + 1) /\ nextId \in Nat
  BY <1>1, ParameterAssumption DEF TypeOK, HostSend, Id
<1>3. d \in Data /\ d.number = nextId /\ d.src = f[1] /\ d.dst = f[2]
  BY <1>1, <1>2 DEF Data
<1>4. PICK task : Forward(f[1], nextId, d, nextId + 1, task)
  BY DEF HostSend
<1> HIDE DEF d
<1>5. nextId < nextId + 1 /\ nextId >= nextId
  BY <1>2
<1>6. trace[nextId] = NotBorn
  BY <1>2, <1>5 DEF CustodyInv, FreeIds
<1> QED
  BY <1>1, <1>2, <1>3, <1>4, <1>5, <1>6, ForwardStep

LEMMA DeliverNextStep ==
  ASSUME CustodyInv, Endpoints, NEW l \in Link, DeliverNext(l)
  PROVE  Records /\ Endpoints'
<1> DEFINE task == <<"forwarder", l>>
<1>1. PICK x \in Arrived(inTransit[l]) :
        \/ LoseInTransit(l, x)
        \/ Forward(Target[l], x.id, data[x.id], nextId, task)
  BY DEF DeliverNext
<1> HIDE DEF task
<1>2. TypeOK /\ x \in inTransit[l]
  BY <1>1 DEF CustodyInv, Arrived
<1>3. x.id \in Id /\ nextId \in Nat /\ nextId \in 1..(MaxPackets + 1) /\ nextId >= nextId
  <2>1. x.id \in Id
    BY <1>2, CustodyTypes
  <2> QED
    BY <1>2, <2>1 DEF TypeOK
<1>4. trace[x.id] = InTransit(l)
  BY <1>2, <1>3, WhenSent DEF CustodyInv
<1>5. x.id < nextId
  <2>1. trace[x.id] # NotBorn
    BY <1>4, StepNames
  <2>2. x.id \in Nat
    BY <1>3 DEF Id
  <2> QED
    BY <1>3, <2>1, <2>2 DEF CustodyInv, FreeIds
<1>6. CASE LoseInTransit(l, x)
  <2>1. /\ trace' = [trace EXCEPT ![x.id] = Recorded("LostInTransit", l)]
        /\ UNCHANGED <<inbound, data, nextId>>
    BY <1>6 DEF LoseInTransit, Track, packetVars
  <2>2. trace'[x.id] = Recorded("LostInTransit", l) /\ \A i \in Id \ {x.id} : trace'[i] = trace[i]
    BY <1>2, <1>3, <2>1 DEF TypeOK
  <2>3. Changed \subseteq {x.id}
    BY <2>2 DEF Changed
  <2>4. Losing(trace[x.id], trace'[x.id])
    BY <1>4, <2>2 DEF Losing
  <2>5. trace[x.id] # NotBorn /\ trace'[x.id].step # "Delivered"
    BY <1>4, <2>2, StepNames
  <2>6. Records
    BY <1>3, <2>1, <2>3, <2>4, <2>5 DEF Records, Moves, Birth, SameData
  <2>7. Endpoints'
    BY <2>1 DEF Endpoints
  <2> QED
    BY <2>6, <2>7
<1>7. CASE Forward(Target[l], x.id, data[x.id], nextId, task)
  <2>1. Target[l] \in Node /\ data[x.id] \in Data /\ data[x.id].dst \in Host
    BY <1>2, <1>3, <1>5, TopologyAssumption DEF TypeOK, Endpoints
  <2> QED
    BY <1>3, <1>4, <1>5, <1>7, <2>1, ForwardStep
<1> QED
  BY <1>1, <1>6, <1>7

LEMMA HostReceiveStep ==
  ASSUME CustodyInv, Endpoints, NEW n \in Node, HostReceive(n)
  PROVE  Records /\ Endpoints'
<1>1. PICK x \in inbound[n] : /\ inbound' = [inbound EXCEPT ![n] = @ \ {x}]
                              /\ Track(x.id, "Delivered", n)
  BY DEF HostReceive
<1>2. TypeOK /\ nextId \in Nat
  BY DEF CustodyInv, TypeOK
<1>3. x.id \in Id
  BY <1>2, CustodyTypes
<1>4. trace[x.id] = InNode(n)
  BY <1>3, WhenReadable DEF CustodyInv
<1>5. UNCHANGED <<data, nextId>>
  BY DEF HostReceive, packetVars
<1>6. trace'[x.id] = Recorded("Delivered", n) /\ \A i \in Id \ {x.id} : trace'[i] = trace[i]
  BY <1>1, <1>2, <1>3 DEF TypeOK, Track
<1>7. Changed \subseteq {x.id}
  BY <1>6 DEF Changed
<1>8. Departing(trace[x.id], trace'[x.id])
  BY <1>4, <1>6 DEF Departing
<1>9. trace[x.id] # NotBorn /\ trace'[x.id].at = n /\ n \in Host
  BY <1>1, <1>4, <1>6, StepNames DEF Endpoints
<1>10. Records
  BY <1>2, <1>5, <1>7, <1>8, <1>9 DEF Records, Moves, Birth, SameData
<1>11. Endpoints'
  BY <1>1, <1>2, <1>5 DEF Endpoints, TypeOK
<1> QED
  BY <1>10, <1>11

LEMMA LinkTaskStep ==
  ASSUME CustodyInv, Endpoints, NEW l \in Link, LinkTask(l)
  PROVE  Records /\ Endpoints'
<1>1. TypeOK /\ <<"link", l>> \notin dead /\ nextId \in Nat
  BY DEF CustodyInv, LinkTask, TakePacket, Discard, Resume, MayRun, TypeOK
<1>2. PICK o \in Outgoing :
        /\ ComesBy(l, o)
        /\ \/ LetsGo(l, o)
           \/ WaitPanics(l)
           \/ /\ o.channel \notin handled
              /\ \/ \E w \in Waiting, k \in Nat : Await(l, w, o, k)
                 \/ Transmit(l, o)
  BY <1>1, LinkTaskCases
<1>3. nextId' = nextId /\ inbound' = inbound
  BY <1>1, LinkTaskCases DEF linkTaskFrame
<1>4. ASSUME \A id \in Id : SameData(id) PROVE Endpoints'
  BY <1>3, <1>4 DEF Endpoints, SameData
<1>5. CASE \/ LetsGo(l, o) \/ WaitPanics(l)
           \/ \E w \in Waiting, k \in Nat : Await(l, w, o, k)
  <2>1. trace' = trace /\ data' = data
    BY <1>5 DEF LetsGo, WaitPanics, Await
  <2>2. Changed = {} /\ \A id \in Id : SameData(id)
    BY <2>1 DEF Changed, SameData
  <2> QED
    BY <1>1, <1>3, <1>4, <2>2 DEF Records
<1>6. CASE o.channel \notin handled /\ Transmit(l, o)
  <2>1. Held(l) = Elements(outgoing'[l]) \cup {o}
    BY <1>1, <1>2, ComesByHeld
  <2>2. o \in Live(l) /\ o.id \in Id /\ Source[l] \in Node
    BY <1>6, <2>1, TopologyAssumption DEF Live, Outgoing
  <2>3. trace[o.id] = InNode(Source[l])
    BY <2>2, WhenOffered DEF CustodyInv
  <2>4. \/ trace' = [trace EXCEPT ![o.id] = Recorded("DroppedBufferCleared", Source[l])]
        \/ trace' = [trace EXCEPT ![o.id] = InTransit(l)]
        \/ trace' = trace
    BY <1>6 DEF Transmit, DropCleared, SendOnLink, SendPanics, Track, InTransit
  <2>5. data' = data \/ data' = [data EXCEPT ![o.id].ecn = "ce"]
    BY <1>6 DEF Transmit, DropCleared, SendOnLink, SendPanics
  <2>6. ASSUME NEW id \in Id PROVE SameData(id)
    <3>1. data[o.id] \in Data /\ DOMAIN data = Id
      BY <1>1, <2>2 DEF TypeOK
    <3>2. CASE data' = data
      BY <3>2 DEF SameData
    <3>3. CASE data' = [data EXCEPT ![o.id].ecn = "ce"]
      BY <3>1, <3>3, <2>2 DEF SameData, Data
    <3> QED
      BY <2>5, <3>2, <3>3
  <2>7. ASSUME NEW id \in Changed
        PROVE  id = o.id /\ Departing(trace[id], trace'[id]) /\ trace'[id].step # "Delivered"
    <3>1. /\ id = o.id
          /\ trace'[id] = Recorded("DroppedBufferCleared", Source[l]) \/ trace'[id] = InTransit(l)
      BY <1>1, <2>2, <2>4 DEF Changed, TypeOK
    <3>2. Departing(trace[id], trace'[id])
      BY <2>2, <2>3, <3>1 DEF Departing
    <3> QED
      BY <3>1, <3>2, StepNames
  <2>8. trace[o.id] # NotBorn
    BY <2>3, StepNames
  <2>9. Changed \subseteq {o.id}
    BY <2>7
  <2>10. Records
    BY <1>1, <1>3, <2>6, <2>7, <2>8, <2>9 DEF Records, Moves, Birth
  <2> QED
    BY <1>4, <2>6, <2>10
<1> QED
  BY <1>2, <1>5, <1>6

\* Every step of the network records what Moves allows.
LEMMA NextRecords ==
  ASSUME CustodyInv, Endpoints, [Next]_vars
  PROVE  Records /\ Endpoints'
<1>1. ASSUME \/ \E n \in Node : Dispatch(n)
             \/ \E l \in Link : SetTimer(l)
             \/ \E l \in EventLink, up \in BOOLEAN : LinkEvent(l, up)
             \/ \E n, up, clear : NodeEvent(n, up, clear)
             \/ Tick
             \/ UNCHANGED vars
      PROVE  Records /\ Endpoints'
  <2>1. trace' = trace /\ data' = data /\ nextId' = nextId /\ inbound' = inbound
    BY <1>1 DEF Dispatch, SetTimer, LinkEvent, NodeEvent, Tick, vars, packetVars
  <2>2. nextId \in Nat
    BY DEF CustodyInv, TypeOK
  <2>3. Changed = {} /\ \A id \in Id : SameData(id)
    BY <2>1 DEF Changed, SameData
  <2> QED
    BY <2>1, <2>2, <2>3 DEF Records, Endpoints
<1> QED
  BY <1>1, HostSendStep, HostReceiveStep, LinkTaskStep, DeliverNextStep DEF Next, Forwarder

-----------------------------------------------------------------------------
(* The replay of what was recorded for one packet.                          *)

LEMMA StepsForArrival ==
  ASSUME NEW id \in Id, NEW n
  PROVE  /\ trace'[id] = InNode(n) => StepsFor(id) = <<ArrivalStep(id, n, FALSE)>>
         /\ trace'[id] = Recorded("DroppedOnArrival", n) => StepsFor(id) = <<ArrivalStep(id, n, TRUE)>>
         /\ trace'[id] = Recorded("DroppedRandom", n) =>
              StepsFor(id) = <<ArrivalStep(id, n, FALSE), DroppedStep(id, n, "injected")>>
         /\ trace'[id] = Unkept(n) =>
              StepsFor(id) = <<ArrivalStep(id, n, FALSE), DroppedStep(id, n, "bufferFull")>>
<1>1. trace'[id] = InNode(n) => StepsFor(id) = <<ArrivalStep(id, n, FALSE)>>
  <2> HAVE trace'[id] = InNode(n)
  <2>1. trace'[id].step = "InNode" /\ trace'[id].at = n
    BY StepNames
  <2> QED
    BY <2>1 DEF StepsFor
<1>2. trace'[id] = Recorded("DroppedOnArrival", n) => StepsFor(id) = <<ArrivalStep(id, n, TRUE)>>
  <2> HAVE trace'[id] = Recorded("DroppedOnArrival", n)
  <2>1. trace'[id].step = "DroppedOnArrival" /\ trace'[id].at = n
    BY DEF Recorded
  <2> QED
    BY <2>1 DEF StepsFor
<1>3. trace'[id] = Recorded("DroppedRandom", n) =>
        StepsFor(id) = <<ArrivalStep(id, n, FALSE), DroppedStep(id, n, "injected")>>
  <2> HAVE trace'[id] = Recorded("DroppedRandom", n)
  <2>1. trace'[id].step = "DroppedRandom" /\ trace'[id].at = n
    BY DEF Recorded
  <2> QED
    BY <2>1 DEF StepsFor
<1>4. trace'[id] = Unkept(n) =>
        StepsFor(id) = <<ArrivalStep(id, n, FALSE), DroppedStep(id, n, "bufferFull")>>
  <2> SUFFICES ASSUME trace'[id].step = "DroppedBufferFull", trace'[id].at = n
               PROVE  StepsFor(id) = <<ArrivalStep(id, n, FALSE), DroppedStep(id, n, "bufferFull")>>
    BY StepNames
  <2> QED
    BY DEF StepsFor
<1> QED
  BY <1>1, <1>2, <1>3, <1>4

LEMMA StepsForDeparture ==
  ASSUME NEW id \in Id, NEW n
  PROVE  /\ trace'[id] = Recorded("DroppedBufferCleared", n) =>
              StepsFor(id) = <<DroppedStep(id, n, "bufferCleared")>>
         /\ trace'[id] = InTransit(n) =>
              StepsFor(id) = <<[kind |-> "InTransit", id |-> id, node |-> Source[n], link |-> n]>>
         /\ trace'[id] = Recorded("LostInTransit", n) =>
              StepsFor(id) = <<[kind |-> "LostInTransit", id |-> id, link |-> n]>>
         /\ trace'[id] = Recorded("Delivered", n) => StepsFor(id) = <<DeliveredStep(id, n)>>
BY StepNames DEF StepsFor, DeliveredStep

LEMMA VerifyOne ==
  ASSUME NEW v, NEW s, NEW t
  PROVE  V!VerifySteps(v, <<s>>, t) = V!VerifyStep(v, s, t)
BY DEF V!VerifySteps

LEMMA VerifyTwo ==
  ASSUME NEW v, NEW s, NEW r, NEW t
  PROVE  V!VerifySteps(v, <<s, r>>, t) = V!VerifyStep(V!VerifyStep(v, s, t), r, t)
BY DEF V!VerifySteps

\* The fields of an arrival.
IsArrival(s, id, n) ==
  /\ s.id = id /\ s.node = n /\ s.size = data'[id].size
  /\ s.kind = IF trace[id].step = "None" /\ data'[id].number # id THEN "Duplicated" ELSE "InNode"

LEMMA ArrivalFields ==
  ASSUME NEW id, NEW n
  PROVE  /\ \E s : s = ArrivalStep(id, n, FALSE) /\ IsArrival(s, id, n) /\ ~s.dropped
         /\ \E s : s = ArrivalStep(id, n, TRUE) /\ IsArrival(s, id, n) /\ s.dropped
<1>1. ASSUME NEW b \in BOOLEAN, NEW s, s = ArrivalStep(id, n, b)
      PROVE  IsArrival(s, id, n) /\ s.dropped = b
  <2>1. s.id = id /\ s.node = n /\ s.size = data'[id].size /\ s.dropped = b
    BY <1>1 DEF ArrivalStep
  <2>2. s.kind = IF trace[id].step = "None" /\ data'[id].number # id THEN "Duplicated" ELSE "InNode"
    BY <1>1 DEF ArrivalStep
  <2> QED
    BY <2>1, <2>2 DEF IsArrival
<1>2. PICK b \in BOOLEAN, c \in BOOLEAN : b = FALSE /\ c = TRUE
  OBVIOUS
<1>3. PICK s, r : s = ArrivalStep(id, n, b) /\ r = ArrivalStep(id, n, c)
  OBVIOUS
<1>4. IsArrival(s, id, n) /\ s.dropped = b /\ IsArrival(r, id, n) /\ r.dropped = c
  BY <1>1, <1>3
<1> QED
  BY <1>2, <1>3, <1>4, Zenon

\* The replay of steps of packet id leads from v to w, and keeps up with the log g.
Settled(v, w, g, id) == Faithful(w, g, data') /\ Carried(v, w, id, id) /\ w.sends = v.sends

LEMMA EntersSettled ==
  ASSUME NEW v, NEW log, DOMAIN log = Id, Faithful(v, log, data'), NEW id \in Id, NEW n \in Node,
         Outside(id, log), NEW size \in Nat, size = data'[id].size, now \in Nat,
         NEW q, q = InNode(n) \/ (q = Recorded("DroppedOnArrival", n) /\ data'[id].src = n),
         NEW c,
         \/ /\ \A l \in Link : log[id] # InTransit(l)
            /\ c = "duplicates" \/ (c = "none" /\ n \in Host)
         \/ (\E l \in Link : log[id] = InTransit(l)) /\ c = "received",
         NEW w, Enters(v, w, id, n, size, now, c),
         NEW g, Relogged(log, g, id, q)
  PROVE  Settled(v, w, g, id)
<1>1. Faithful(w, g, data')
  BY FaithfulEnters
<1>2. DOMAIN v.packets = Node
  BY DEF Faithful, MirrorNodes
<1>3. Carried(v, w, id, id)
  BY <1>2, EntersCarried
<1>4. w.sends = v.sends
  BY DEF Enters, Only, Fields
<1> QED
  BY <1>1, <1>3, <1>4 DEF Settled

LEMMA LeavesSettled ==
  ASSUME NEW v, NEW log, DOMAIN log = Id, Faithful(v, log, data'), NEW id \in Id, NEW n \in Node,
         log[id] = InNode(n),
         NEW q, \A m \in Node : q # InNode(m), \A l \in Link : q # InTransit(l),
         NEW c, c \in {"injected", "bufferFull", "bufferCleared"} \/ (c = "none" /\ n \in Host),
         NEW w, Leaves(v, w, id, n, c),
         NEW g, Relogged(log, g, id, q)
  PROVE  Settled(v, w, g, id) /\ w.errors = v.errors
<1>1. Faithful(w, g, data')
  BY FaithfulLeaves
<1>2. DOMAIN v.packets = Node
  BY DEF Faithful, MirrorNodes
<1>3. Carried(v, w, id, id)
  BY <1>2, LeavesCarried
<1>4. w.sends = v.sends /\ w.errors = v.errors
  BY DEF Leaves, Only, Fields
<1> QED
  BY <1>1, <1>3, <1>4 DEF Settled

\* The alarms that the arrival of packet id, recorded as q, may raise.
Objections(v, id, q) ==
  ArrivalAlarms(v, id, q.at, now)
    \cup When(~v.nodeUp[q.at] /\ (q.step = "DroppedOnArrival" => trace[id] = NotBorn),
              "NodeDownPacketReceive", q.at, id)
    \cup When(v.nodeUp[q.at] /\ q.step = "DroppedOnArrival",
              "NodeUpPacketDroppedOnArrival", q.at, id)

\* Packet id is recorded in node n, where it is kept for the time being.
LEMMA ReplayArrival ==
  ASSUME NEW v, NEW log, DOMAIN log = Id, Faithful(v, log, data'), NEW id \in Id, NEW n \in Node,
         log[id] = trace[id], trace[id] = NotBorn \/ \E l \in Link : trace[id] = InTransit(l),
         data'[id].size \in Nat, now \in Nat,
         trace[id] = NotBorn /\ data'[id].number = id => n \in Host,
         NEW s, IsArrival(s, id, n), ~s.dropped, NEW w, w = V!VerifyStep(v, s, now),
         NEW g, Relogged(log, g, id, InNode(n))
  PROVE  /\ Settled(v, w, g, id)
         /\ w.errors \subseteq v.errors \cup ArrivalAlarms(v, id, n, now)
              \cup When(~v.nodeUp[n], "NodeDownPacketReceive", n, id)
<1>2. /\ s.id = id /\ s.node = n /\ s.size = data'[id].size
      /\ s.kind = IF trace[id].step = "None" /\ data'[id].number # id THEN "Duplicated" ELSE "InNode"
  BY DEF IsArrival
<1>4. Outside(id, log)
  BY StepNames DEF Outside
<1>5. Replaying(v) /\ MirrorNodes(v.packets, log, data') /\ MirrorLinks(v.inFlight, log)
  BY DEF Faithful
<1>6. V!WithId(v.packets[n], id) = {}
  BY <1>4, <1>5 DEF MirrorNodes, Ghost, Outside, V!WithId
<1>7. CASE trace[id] = NotBorn
  <2>1. \A l \in Link : log[id] # InTransit(l)
    BY <1>7, StepNames
  <2>2. V!WithId(v.inFlight, id) = {}
    BY <1>5, <2>1, FlightOf
  <2>3. trace[id].step = "None"
    BY <1>7, StepNames
  <2>4. CASE data'[id].number = id
    <3>1. s.kind = "InNode"
      BY <1>2, <2>4
    <3>2. /\ Enters(v, w, id, n, s.size, now, "none")
          /\ w.errors = v.errors \cup When(n \notin Host, "PacketCreatedByRouterNode", n, id)
                          \cup When(~v.nodeUp[n], "NodeDownPacketReceive", n, id)
      BY <1>2, <1>5, <1>6, <2>2, <3>1, CreatedEffect
    <3>3. n \in Host
      BY <1>7, <2>4
    <3>4. Settled(v, w, g, id)
      BY <1>2, <1>4, <2>1, <3>2, <3>3, EntersSettled
    <3> QED
      BY <3>2, <3>3, <3>4 DEF When
  <2>5. CASE data'[id].number # id
    <3>1. s.kind = "Duplicated"
      BY <1>2, <2>3, <2>5
    <3>2. /\ Enters(v, w, id, n, s.size, now, "duplicates")
          /\ w.errors = v.errors \cup When(~v.nodeUp[n], "NodeDownPacketReceive", n, id)
      BY <1>2, <1>5, <1>6, <2>2, <3>1, DuplicatedEffect
    <3>3. Settled(v, w, g, id)
      BY <1>2, <1>4, <2>1, <3>2, EntersSettled
    <3> QED
      BY <3>2, <3>3
  <2> QED
    BY <2>4, <2>5
<1>8. ASSUME NEW l \in Link, trace[id] = InTransit(l)
      PROVE  /\ Settled(v, w, g, id)
             /\ w.errors \subseteq v.errors \cup ArrivalAlarms(v, id, n, now)
                  \cup When(~v.nodeUp[n], "NodeDownPacketReceive", n, id)
  <2>1. s.kind = "InNode"
    <3>1. trace[id].step # "None"
      BY <1>8, StepNames
    <3> QED
      BY <1>2, <3>1
  <2>2. V!WithId(v.inFlight, id) # {}
    BY <1>5, <1>8, FlightOf
  <2>3. /\ Enters(v, w, id, n, s.size, now, "received")
        /\ w.errors = v.errors \cup ArrivalAlarms(v, id, n, now)
             \cup When(~v.nodeUp[n], "NodeDownPacketReceive", n, id)
    BY <1>2, <1>5, <1>6, <2>1, <2>2, ReceivedEffect
  <2>4. Settled(v, w, g, id)
    BY <1>2, <1>4, <1>8, <2>3, EntersSettled
  <2> QED
    BY <2>3, <2>4
<1> QED
  BY <1>7, <1>8

\* Packet id is recorded as dropped by a node that is down.
LEMMA ReplayRefusal ==
  ASSUME NEW v, NEW log, DOMAIN log = Id, Faithful(v, log, data'), NEW id \in Id, NEW n \in Node,
         log[id] = trace[id],
         \/ trace[id] = NotBorn /\ data'[id].number = id /\ n \in Host /\ data'[id].src = n
         \/ \E l \in Link : trace[id] = InTransit(l),
         data'[id].size \in Nat, now \in Nat,
         NEW s, IsArrival(s, id, n), s.dropped, NEW w, w = V!VerifyStep(v, s, now),
         NEW q, q = Recorded("DroppedOnArrival", n), NEW g, Relogged(log, g, id, q)
  PROVE  /\ Settled(v, w, g, id)
         /\ w.errors \subseteq v.errors \cup Objections(v, id, q)
<1>2. /\ s.id = id /\ s.node = n /\ s.size = data'[id].size
      /\ s.kind = IF trace[id].step = "None" /\ data'[id].number # id THEN "Duplicated" ELSE "InNode"
  BY DEF IsArrival
<1>4. Outside(id, log)
  BY StepNames DEF Outside
<1>5. Replaying(v) /\ MirrorNodes(v.packets, log, data') /\ MirrorLinks(v.inFlight, log)
  BY DEF Faithful
<1>6. V!WithId(v.packets[n], id) = {}
  BY <1>4, <1>5 DEF MirrorNodes, Ghost, Outside, V!WithId
<1>7. q.step = "DroppedOnArrival" /\ q.at = n
  BY DEF Recorded
<1>8. /\ \A m \in Node : q # InNode(m)
      /\ \A k \in Link : q # InTransit(k)
  BY <1>7, StepNames
<1>9. CASE trace[id] = NotBorn /\ data'[id].number = id /\ n \in Host /\ data'[id].src = n
  <2>1. \A l \in Link : log[id] # InTransit(l)
    BY <1>9, StepNames
  <2>2. V!WithId(v.inFlight, id) = {}
    BY <1>5, <2>1, FlightOf
  <2>3. s.kind = "InNode"
    BY <1>2, <1>9
  <2>4. /\ Enters(v, w, id, n, s.size, now, "none")
        /\ w.errors = v.errors \cup When(n \notin Host, "PacketCreatedByRouterNode", n, id)
                        \cup When(~v.nodeUp[n], "NodeDownPacketReceive", n, id)
    BY <1>2, <1>5, <1>6, <2>2, <2>3, CreatedEffect
  <2>5. Settled(v, w, g, id)
    BY <1>2, <1>4, <1>9, <2>1, <2>4, EntersSettled
  <2>6. w.errors \subseteq v.errors \cup Objections(v, id, q)
    BY <1>7, <1>9, <2>4 DEF Objections, When
  <2> QED
    BY <2>5, <2>6
<1>10. ASSUME NEW l \in Link, trace[id] = InTransit(l)
       PROVE  Settled(v, w, g, id) /\ w.errors \subseteq v.errors \cup Objections(v, id, q)
  <2>1. s.kind = "InNode"
    <3>1. trace[id].step # "None"
      BY <1>10, StepNames
    <3> QED
      BY <1>2, <3>1
  <2>2. V!WithId(v.inFlight, id) # {}
    BY <1>5, <1>10, FlightOf
  <2>3. /\ Refused(v, w, id, n)
        /\ w.errors = v.errors \cup ArrivalAlarms(v, id, n, now)
             \cup When(v.nodeUp[n], "NodeUpPacketDroppedOnArrival", n, id)
    BY <1>2, <1>5, <2>1, <2>2, RefusedEffect
  <2>4. log[id] = InTransit(l)
    BY <1>10
  <2>5. Faithful(w, g, data')
    BY <1>8, <2>3, <2>4, FaithfulRefused
  <2>6. Carried(v, w, id, id) /\ w.sends = v.sends
    <3>1. /\ Only(v, w, {"inFlight", "stats", "highest", "errors"})
          /\ w.inFlight = Landed(v.inFlight, id)
      BY <2>3 DEF Refused
    <3> QED
      BY <3>1, LandedCarried DEF Only, Fields
  <2>7. w.errors \subseteq v.errors \cup Objections(v, id, q)
    BY <1>7, <2>3 DEF Objections, When
  <2> QED
    BY <2>5, <2>6, <2>7 DEF Settled
<1> QED
  BY <1>9, <1>10

\* Packet id is recorded in node n and then dropped there.
LEMMA ReplayDropped ==
  ASSUME NEW v, NEW log, DOMAIN log = Id, Faithful(v, log, data'), NEW id \in Id, NEW n \in Node,
         log[id] = InNode(n), NEW reason \in {"injected", "bufferFull", "bufferCleared"}, NEW t,
         NEW w, w = V!VerifyStep(v, DroppedStep(id, n, reason), t),
         NEW q, \A m \in Node : q # InNode(m), \A k \in Link : q # InTransit(k),
         NEW g, Relogged(log, g, id, q)
  PROVE  Settled(v, w, g, id) /\ w.errors = v.errors
<1>1. Replaying(v) /\ MirrorNodes(v.packets, log, data')
  BY DEF Faithful
<1>2. V!WithId(v.packets[n], id) # {}
  BY <1>1 DEF MirrorNodes, V!WithId
<1>3. Leaves(v, w, id, n, reason)
  BY <1>1, <1>2, DroppedEffect
<1> QED
  BY <1>3, LeavesSettled

\* An arrival at node n is replayed in one step, or in two when the packet is
\* dropped right away.
LEMMA ReplayArriving ==
  ASSUME NEW v, NEW log, DOMAIN log = Id, Faithful(v, log, data'), NEW id \in Id, NEW n \in Node,
         log[id] = trace[id], trace[id] = NotBorn \/ \E l \in Link : trace[id] = InTransit(l),
         NEW q, q = trace'[id], NEW step \in ArrivalNames, q = Recorded(step, n), Birth(id),
         data'[id].size \in Nat, now \in Nat,
         NEW g, Relogged(log, g, id, q), NEW w, w = V!VerifySteps(v, StepsFor(id), now)
  PROVE  Settled(v, w, g, id) /\ w.errors \subseteq v.errors \cup Objections(v, id, q)
<1>1. q.step = step /\ q.at = n
  BY DEF Recorded
<1>2. /\ trace[id] = NotBorn /\ data'[id].number = id => n \in Host /\ data'[id].src = n
      /\ trace[id] = NotBorn /\ data'[id].number # id => step # "DroppedOnArrival"
  BY <1>1 DEF Birth
<1>3. CASE step = "DroppedOnArrival"
  <2>1. PICK s : s = ArrivalStep(id, n, TRUE) /\ IsArrival(s, id, n) /\ s.dropped
    BY ArrivalFields
  <2>2. trace'[id] = Recorded("DroppedOnArrival", n) /\ q = Recorded("DroppedOnArrival", n)
    BY <1>3
  <2>3. StepsFor(id) = <<s>>
    BY <2>1, <2>2, StepsForArrival
  <2>4. w = V!VerifyStep(v, s, now)
    BY <2>3, VerifyOne
  <2>5. \/ trace[id] = NotBorn /\ data'[id].number = id /\ n \in Host /\ data'[id].src = n
        \/ \E l \in Link : trace[id] = InTransit(l)
    BY <1>2, <1>3
  <2> QED
    BY <2>1, <2>2, <2>4, <2>5, ReplayRefusal
<1>4. CASE step # "DroppedOnArrival"
  <2>1. PICK s : s = ArrivalStep(id, n, FALSE) /\ IsArrival(s, id, n) /\ ~s.dropped
    BY ArrivalFields
  <2>2. PICK u : u = V!VerifyStep(v, s, now)
    OBVIOUS
  <2>3. \E h : Relogged(log, h, id, InNode(n))
    <3>1. Relogged(log, [i \in Id |-> IF i = id THEN InNode(n) ELSE log[i]], id, InNode(n))
      BY DEF Relogged
    <3> QED
      BY <3>1
  <2>4. PICK h : Relogged(log, h, id, InNode(n))
    BY <2>3
  <2>5. /\ Settled(v, u, h, id)
        /\ u.errors \subseteq v.errors \cup ArrivalAlarms(v, id, n, now)
             \cup When(~v.nodeUp[n], "NodeDownPacketReceive", n, id)
    BY <1>2, <2>1, <2>2, <2>4, ReplayArrival
  <2>6. u.errors \subseteq v.errors \cup Objections(v, id, q)
    BY <1>1, <1>4, <2>5 DEF Objections, When
  <2>7. CASE step = "InNode"
    <3>1. trace'[id] = InNode(n)
      BY <2>7 DEF InNode
    <3>2. StepsFor(id) = <<s>>
      BY <2>1, <3>1, StepsForArrival
    <3>3. w = u
      BY <2>2, <3>2, VerifyOne
    <3>4. Relogged(log, g, id, InNode(n))
      BY <3>1
    <3>5. Settled(v, u, g, id)
      BY <1>2, <2>1, <2>2, <3>4, ReplayArrival
    <3> QED
      BY <2>6, <3>3, <3>5
  <2>8. ASSUME NEW reason \in {"injected", "bufferFull", "bufferCleared"},
               StepsFor(id) = <<s, DroppedStep(id, n, reason)>>, step # "InNode"
        PROVE  Settled(v, w, g, id) /\ w.errors \subseteq v.errors \cup Objections(v, id, q)
    <3>1. w = V!VerifyStep(u, DroppedStep(id, n, reason), now)
      <4>1. PICK r : r = DroppedStep(id, n, reason)
        OBVIOUS
      <4>2. w = V!VerifySteps(v, <<s, r>>, now)
        BY <2>8, <4>1
      <4> QED
        BY <2>2, <4>1, <4>2, VerifyTwo
    <3>2. Relogged(h, g, id, q) /\ DOMAIN h = Id /\ h[id] = InNode(n)
      BY <2>4 DEF Relogged
    <3>3. (\A m \in Node : q # InNode(m)) /\ (\A k \in Link : q # InTransit(k))
      BY <1>1, <2>8, StepNames DEF ArrivalNames
    <3>4. Faithful(u, h, data')
      BY <2>5 DEF Settled
    <3>5. Settled(u, w, g, id) /\ w.errors = u.errors
      BY <3>1, <3>2, <3>3, <3>4, ReplayDropped
    <3>6. Carried(v, w, id, id)
      BY <2>5, <3>5, CarriedOn DEF Settled
    <3> QED
      BY <2>5, <2>6, <3>5, <3>6 DEF Settled
  <2>9. CASE step = "DroppedRandom"
    <3>1. trace'[id] = Recorded("DroppedRandom", n)
      BY <2>9
    <3>2. StepsFor(id) = <<s, DroppedStep(id, n, "injected")>>
      BY <2>1, <3>1, StepsForArrival
    <3> QED
      BY <2>8, <2>9, <3>2
  <2>10. CASE step = "DroppedBufferFull"
    <3>1. trace'[id] = Unkept(n)
      BY <2>10 DEF Unkept
    <3>2. StepsFor(id) = <<s, DroppedStep(id, n, "bufferFull")>>
      BY <2>1, <3>1, StepsForArrival
    <3> QED
      BY <2>8, <2>10, <3>2
  <2> QED
    BY <1>4, <2>7, <2>9, <2>10 DEF ArrivalNames
<1> QED
  BY <1>3, <1>4

\* A packet that is read or dropped leaves its node without an alarm.
LEMMA ReplayEnding ==
  ASSUME NEW v, NEW log, DOMAIN log = Id, Faithful(v, log, data'), NEW id \in Id, NEW n \in Node,
         log[id] = InNode(n), NEW q, q = trace'[id],
         q = Recorded("Delivered", n) \/ q = Recorded("DroppedBufferCleared", n),
         q.step = "Delivered" => q.at \in Host,
         NEW g, Relogged(log, g, id, q), NEW w, w = V!VerifySteps(v, StepsFor(id), now)
  PROVE  Settled(v, w, g, id) /\ w.errors = v.errors
<1>1. Replaying(v) /\ MirrorNodes(v.packets, log, data')
  BY DEF Faithful
<1>2. V!WithId(v.packets[n], id) # {}
  BY <1>1 DEF MirrorNodes, V!WithId
<1>3. CASE q = Recorded("Delivered", n)
  <2>1. PICK s : s = DeliveredStep(id, n)
    OBVIOUS
  <2>2. StepsFor(id) = <<s>>
    <3>1. trace'[id] = Recorded("Delivered", n)
      BY <1>3
    <3> QED
      BY <2>1, <3>1, StepsForDeparture
  <2>3. w = V!VerifyStep(v, s, now)
    BY <2>2, VerifyOne
  <2>4. Leaves(v, w, id, n, "none")
    BY <1>1, <1>2, <2>1, <2>3, DeliveredEffect
  <2>5. q.step = "Delivered" /\ q.at = n
    BY <1>3 DEF Recorded
  <2>6. n \in Host /\ (\A m \in Node : q # InNode(m)) /\ (\A k \in Link : q # InTransit(k))
    BY <2>5, StepNames
  <2> QED
    BY <2>4, <2>6, LeavesSettled
<1>4. CASE q = Recorded("DroppedBufferCleared", n)
  <2>1. PICK s : s = DroppedStep(id, n, "bufferCleared")
    OBVIOUS
  <2>2. StepsFor(id) = <<s>>
    <3>1. trace'[id] = Recorded("DroppedBufferCleared", n)
      BY <1>4
    <3> QED
      BY <2>1, <3>1, StepsForDeparture
  <2>3. w = V!VerifyStep(v, DroppedStep(id, n, "bufferCleared"), now)
    BY <2>1, <2>2, VerifyOne
  <2>4. q.step = "DroppedBufferCleared"
    BY <1>4 DEF Recorded
  <2>5. (\A m \in Node : q # InNode(m)) /\ (\A k \in Link : q # InTransit(k))
    BY <2>4, StepNames
  <2> QED
    BY <2>3, <2>5, ReplayDropped
<1> QED
  BY <1>3, <1>4

\* The packet p that is sent leaves node n, and the window of link l is moved.
SentOff(v, w, id, n, l) ==
  \E p \in v.packets[n], wiped \in BOOLEAN :
    /\ p.id = id /\ p.size = data'[id].size /\ (wiped <=> Survived(v, n, p))
    /\ w.sends = [v.sends EXCEPT ![l] = V!WindowAt(v, l, now, id, p.size)]
    /\ w.errors = v.errors \cup SendAlarms(v, id, n, l, p.size, wiped, now)

LEMMA ReplaySending ==
  ASSUME NEW v, NEW log, DOMAIN log = Id, Faithful(v, log, data'), NEW id \in Id, NEW n \in Node,
         log[id] = InNode(n), NEW l \in Link, Source[l] = n, trace'[id] = InTransit(l), now \in Nat,
         NEW g, Relogged(log, g, id, InTransit(l)), NEW w, w = V!VerifySteps(v, StepsFor(id), now)
  PROVE  Faithful(w, g, data') /\ Carried(v, w, id, id) /\ SentOff(v, w, id, n, l)
<1>1. Replaying(v) /\ MirrorNodes(v.packets, log, data')
  BY DEF Faithful
<1>2. PICK s : s = [kind |-> "InTransit", id |-> id, node |-> Source[l], link |-> l]
  OBVIOUS
<1>3. StepsFor(id) = <<s>>
  BY <1>2, StepsForDeparture
<1>4. w = V!VerifyStep(v, s, now)
  BY <1>3, VerifyOne
<1>5. s.kind = "InTransit" /\ s.id = id /\ s.node = n /\ s.link = l
  BY <1>2
<1>6. PICK p \in v.packets[n] : p.id = id
  BY <1>1 DEF MirrorNodes
<1>7. V!WithId(v.packets[n], id) = {p} /\ p.size = data'[id].size
  BY <1>1, <1>6 DEF MirrorNodes, V!WithId
<1>8. PICK wiped \in BOOLEAN : wiped <=> Survived(v, n, p)
  OBVIOUS
<1>9. /\ Departs(v, w, id, n, l, now, p.size)
      /\ w.errors = v.errors \cup SendAlarms(v, id, n, l, p.size, wiped, now)
  BY <1>1, <1>4, <1>5, <1>7, <1>8, SentEffect
<1>10. Faithful(w, g, data')
  BY <1>9, FaithfulDeparts
<1>11. Carried(v, w, id, id)
  <2>1. DOMAIN v.packets = Node
    BY <1>1 DEF MirrorNodes
  <2> QED
    BY <1>9, <2>1, DepartsCarried
<1>12. w.sends = [v.sends EXCEPT ![l] = V!WindowAt(v, l, now, id, p.size)]
  BY <1>9 DEF Departs
<1> QED
  BY <1>6, <1>7, <1>8, <1>9, <1>10, <1>11, <1>12 DEF SentOff

LEMMA ReplayLosing ==
  ASSUME NEW v, NEW log, DOMAIN log = Id, Faithful(v, log, data'), NEW id \in Id,
         log[id] = trace[id], Losing(trace[id], trace'[id]),
         NEW g, Relogged(log, g, id, trace'[id]), NEW w, w = V!VerifySteps(v, StepsFor(id), now)
  PROVE  Settled(v, w, g, id) /\ w.errors = v.errors
<1>1. PICK q : q = trace'[id]
  OBVIOUS
<1>2. PICK l \in Link : trace[id] = InTransit(l) /\ q = Recorded("LostInTransit", l)
  BY <1>1 DEF Losing
<1>3. PICK s : s = [kind |-> "LostInTransit", id |-> id, link |-> l]
  OBVIOUS
<1>4. StepsFor(id) = <<s>>
  <2>1. trace'[id] = Recorded("LostInTransit", l)
    BY <1>1, <1>2
  <2> QED
    BY <1>3, <2>1, StepsForDeparture
<1>5. w = V!VerifyStep(v, s, now) /\ s.kind = "LostInTransit" /\ s.id = id /\ s.link = l
  BY <1>3, <1>4, VerifyOne
<1>6. log[id] = InTransit(l) /\ Replaying(v) /\ MirrorLinks(v.inFlight, log)
  BY <1>2 DEF Faithful
<1>7. V!WithId(v.inFlight, id) # {}
  BY <1>6, FlightOf
<1>8. /\ Only(v, w, {"inFlight", "lost"}) /\ w.inFlight = Landed(v.inFlight, id)
      /\ w.lost = [v.lost EXCEPT ![l] = @ + 1]
  BY <1>5, <1>6, <1>7, LostEffect
<1>9. q.step = "LostInTransit"
  BY <1>2 DEF Recorded
<1>10. /\ \A m \in Node : q # InNode(m)
       /\ \A k \in Link : q # InTransit(k)
       /\ Relogged(log, g, id, q)
  BY <1>1, <1>9, StepNames
<1>11. Faithful(w, g, data')
  BY <1>6, <1>8, <1>10, FaithfulLost
<1>12. Carried(v, w, id, id)
  BY <1>8, LandedCarried
<1>13. w.sends = v.sends /\ w.errors = v.errors
  BY <1>8 DEF Only, Fields
<1> QED
  BY <1>11, <1>12, <1>13 DEF Settled

\* What the replay of packet id's steps, from v to w, may raise and does to the
\* bandwidth windows.
Judged(v, w, id) ==
  \/ /\ w.sends = v.sends
     /\ \/ w.errors = v.errors
        \/ /\ Arriving(trace[id], trace'[id])
           /\ w.errors \subseteq v.errors \cup Objections(v, id, trace'[id])
  \/ \E n \in Node, l \in Link :
       /\ Source[l] = n /\ trace[id] = InNode(n) /\ trace'[id] = InTransit(l)
       /\ SentOff(v, w, id, n, l)

\* The replay of a packet's steps keeps up with what is recorded of it.
LEMMA ReplayOne ==
  ASSUME NEW v, NEW log, DOMAIN log = Id, Faithful(v, log, data'), NEW id \in Id,
         log[id] = trace[id], Moves(trace[id], trace'[id]), Birth(id),
         trace'[id].step = "Delivered" => trace'[id].at \in Host,
         data'[id].size \in Nat, now \in Nat,
         NEW g, Relogged(log, g, id, trace'[id]), NEW w, w = V!VerifySteps(v, StepsFor(id), now)
  PROVE  Faithful(w, g, data') /\ Carried(v, w, id, id) /\ Judged(v, w, id)
<1>1. PICK q : q = trace'[id]
  OBVIOUS
<1>2. Relogged(log, g, id, q)
  BY <1>1
<1>3. CASE Arriving(trace[id], trace'[id])
  <2>1. PICK n \in Node, step \in ArrivalNames :
          q = Recorded(step, n) /\ (trace[id] = NotBorn \/ \E l \in Link : trace[id] = InTransit(l))
    BY <1>1, <1>3 DEF Arriving
  <2>2. Settled(v, w, g, id) /\ w.errors \subseteq v.errors \cup Objections(v, id, q)
    BY <1>1, <1>2, <2>1, ReplayArriving
  <2> QED
    BY <1>1, <1>3, <2>2 DEF Settled, Judged
<1>4. CASE Departing(trace[id], trace'[id])
  <2>1. PICK n \in Node : /\ trace[id] = InNode(n)
                          /\ \/ q = Recorded("Delivered", n) \/ q = Recorded("DroppedBufferCleared", n)
                             \/ \E l \in Link : Source[l] = n /\ q = InTransit(l)
    BY <1>1, <1>4 DEF Departing
  <2>2. CASE q = Recorded("Delivered", n) \/ q = Recorded("DroppedBufferCleared", n)
    <3>1. Settled(v, w, g, id) /\ w.errors = v.errors
      BY <1>1, <1>2, <2>1, <2>2, ReplayEnding
    <3> QED
      BY <3>1 DEF Settled, Judged
  <2>3. ASSUME NEW l \in Link, Source[l] = n, q = InTransit(l)
        PROVE  Faithful(w, g, data') /\ Carried(v, w, id, id) /\ Judged(v, w, id)
    <3>1. Relogged(log, g, id, InTransit(l)) /\ trace'[id] = InTransit(l)
      BY <1>1, <1>2, <2>3
    <3>2. Faithful(w, g, data') /\ Carried(v, w, id, id) /\ SentOff(v, w, id, n, l)
      BY <2>1, <2>3, <3>1, ReplaySending
    <3> QED
      BY <2>1, <2>3, <3>1, <3>2 DEF Judged
  <2> QED
    BY <2>1, <2>2, <2>3
<1>5. CASE Losing(trace[id], trace'[id])
  <2>1. Settled(v, w, g, id) /\ w.errors = v.errors
    BY <1>5, ReplayLosing
  <2> QED
    BY <2>1 DEF Settled, Judged
<1> QED
  BY <1>3, <1>4, <1>5 DEF Moves

-----------------------------------------------------------------------------
(* The replay of a whole step of the network.                               *)

LEMMA FaithfulFields ==
  ASSUME NEW v, NEW log, NEW d, Faithful(v, log, d), NEW w, Replaying(w),
         w.packets = v.packets, w.inFlight = v.inFlight, w.stats = v.stats, w.lost = v.lost
  PROVE  Faithful(w, log, d)
BY DEF Faithful

\* The packets that the replay knows were created before the step.
LEMMA FaithfulData ==
  ASSUME CustodyInv, Records, NEW v, Faithful(v, trace, data)
  PROVE  Faithful(v, trace, data')
<1>1. MirrorNodes(v.packets, trace, data)
  BY DEF Faithful
<1>2. ASSUME NEW n \in Node, NEW p \in v.packets[n]
      PROVE  /\ p.size = data'[p.id].size
             /\ trace[p.id] = InNode(n) \/ Ghost(p.id, n, trace, data')
  <2>1. /\ p.id \in Id /\ p.size = data[p.id].size
        /\ trace[p.id] = InNode(n) \/ Ghost(p.id, n, trace, data)
    BY <1>1, <1>2 DEF MirrorNodes
  <2>2. trace[p.id] # NotBorn
    BY <2>1, StepNames DEF Ghost
  <2>3. p.id < nextId
    BY <2>1, <2>2, ParameterAssumption DEF CustodyInv, FreeIds, TypeOK, Id
  <2>4. SameData(p.id)
    BY <2>1, <2>3 DEF Records
  <2> QED
    BY <2>1, <2>4 DEF SameData, Ghost
<1>3. MirrorNodes(v.packets, trace, data')
  BY <1>1, <1>2 DEF MirrorNodes
<1> QED
  BY <1>3 DEF Faithful

\* One packet is replayed, or two of them.
Reviewed(v, w) ==
  \E u : \E first, second \in Changed :
    /\ Carried(v, u, first, first) /\ Judged(v, u, first)
    /\ \/ w = u
       \/ first # second /\ Carried(u, w, second, second) /\ Judged(u, w, second)

LEMMA ReplayFollows ==
  ASSUME CustodyInv, CustodyInv', Records, Faithful(replay, trace, data), ReplayPackets
  PROVE  /\ Faithful(replay', trace', data')
         /\ \/ Changed = {} /\ replay' = replay
            \/ \E visited \in V!Walks(replay) : \E v :
                 v = V!MeasureBuffers(replay, now, visited) /\ Reviewed(v, replay')
<1>1. Faithful(replay, trace, data')
  BY FaithfulData
<1>2. DOMAIN trace = Id /\ DOMAIN trace' = Id /\ now \in Nat /\ \A id \in Id : data'[id].size \in Nat
  BY ParameterAssumption DEF CustodyInv, TypeOK, Data
<1>3. CASE Changed = {} /\ UNCHANGED replay
  <2>1. \A id \in Id : trace'[id] = trace[id]
    BY <1>3 DEF Changed
  <2>2. trace' = trace
    BY <2>1 DEF CustodyInv, TypeOK
  <2> QED
    BY <1>1, <1>3, <2>2
<1>4. ASSUME NEW visited \in V!Walks(replay), NEW first \in Changed, NEW second \in Changed,
             \A id \in Changed : first <= id /\ id <= second,
             replay' = LET w == V!VerifySteps(V!MeasureBuffers(replay, now, visited), StepsFor(first), now)
                       IN  IF first = second THEN w ELSE V!VerifySteps(w, StepsFor(second), now)
      PROVE  /\ Faithful(replay', trace', data')
             /\ \E v : v = V!MeasureBuffers(replay, now, visited) /\ Reviewed(v, replay')
  <2>1. PICK v : v = V!MeasureBuffers(replay, now, visited)
    OBVIOUS
  <2>2. PICK w : w = V!VerifySteps(v, StepsFor(first), now)
    OBVIOUS
  <2>3. Only(replay, v, {"maxUsage", "errors", "time"}) /\ Replaying(v)
    <3>1. Replaying(replay)
      BY <1>1 DEF Faithful
    <3> QED
      BY <2>1, <3>1, MeasureEffect
  <2>4. Faithful(v, trace, data')
    <3>1. /\ v.packets = replay.packets /\ v.inFlight = replay.inFlight /\ v.stats = replay.stats
          /\ v.lost = replay.lost
      BY <2>3 DEF Only, Fields
    <3> QED
      BY <1>1, <2>3, <3>1, FaithfulFields
  <2>5. /\ first \in Id /\ second \in Id
        /\ \A id \in Id \ {first, second} : trace'[id] = trace[id]
    <3>1. PICK a, b : Changed \subseteq {a, b}
      BY DEF Records
    <3>2. Changed \subseteq Id /\ Id \subseteq Int
      BY ParameterAssumption DEF Changed, Id
    <3>3. Changed \subseteq {first, second}
      BY <1>4, <3>1, <3>2
    <3> QED
      BY <3>2, <3>3 DEF Changed
  <2>6. ASSUME NEW id \in Changed
        PROVE  /\ Moves(trace[id], trace'[id]) /\ Birth(id)
               /\ trace'[id].step = "Delivered" => trace'[id].at \in Host
    BY DEF Records
  <2>7. CASE first = second
    <3>1. Relogged(trace, trace', first, trace'[first]) /\ replay' = w
      BY <1>2, <1>4, <2>1, <2>2, <2>5, <2>7 DEF Relogged
    <3>2. Faithful(replay', trace', data') /\ Carried(v, replay', first, first) /\ Judged(v, replay', first)
      BY <1>2, <2>2, <2>4, <2>5, <2>6, <3>1, ReplayOne
    <3> QED
      BY <2>1, <3>2 DEF Reviewed
  <2>8. CASE first # second
    <3>1. \E h : Relogged(trace, h, first, trace'[first])
      <4>1. Relogged(trace, [i \in Id |-> IF i = first THEN trace'[first] ELSE trace[i]], first, trace'[first])
        BY <2>5 DEF Relogged
      <4> QED
        BY <4>1
    <3>2. PICK h : Relogged(trace, h, first, trace'[first])
      BY <3>1
    <3>3. Faithful(w, h, data') /\ Carried(v, w, first, first) /\ Judged(v, w, first)
      BY <1>2, <2>2, <2>4, <2>5, <2>6, <3>2, ReplayOne
    <3>4. DOMAIN h = Id /\ h[second] = trace[second] /\ Relogged(h, trace', second, trace'[second])
      BY <1>2, <2>5, <2>8, <3>2 DEF Relogged
    <3>5. replay' = V!VerifySteps(w, StepsFor(second), now)
      BY <1>4, <2>1, <2>2, <2>8
    <3>6. Faithful(replay', trace', data') /\ Carried(w, replay', second, second) /\ Judged(w, replay', second)
      BY <1>2, <2>5, <2>6, <3>3, <3>4, <3>5, ReplayOne
    <3> QED
      BY <2>1, <2>8, <3>3, <3>6 DEF Reviewed
  <2> QED
    BY <2>7, <2>8
<1> QED
  BY <1>3, <1>4 DEF ReplayPackets

-----------------------------------------------------------------------------
(* What a link's task does to its link and to the buffer it sends from.     *)

Sending(l, o, extra) ==
  /\ linkUp[l] /\ CanSend(l) /\ ~ClearedFromBuffer(l, o)
  /\ trace' = [trace EXCEPT ![o.id] = InTransit(l)]
  /\ sendDone' = [sendDone EXCEPT ![l] = now + SendDuration(l, data[o.id].size)]
  /\ available' = [available EXCEPT ![Source[l]] = @ + data[o.id].size]
  /\ inTransit' = [inTransit EXCEPT ![l] =
                     @ \cup {[id |-> o.id, sent |-> now, arrival |-> now + Delay[l] + extra]}]

Clearing(l, o) ==
  /\ trace' = [trace EXCEPT ![o.id] = Recorded("DroppedBufferCleared", Source[l])]
  /\ UNCHANGED <<sendDone, available, inTransit>>

LEMMA LinkTaskEffect ==
  ASSUME CustodyInv, NEW l \in Link, LinkTask(l)
  PROVE  /\ UNCHANGED <<now, linkUp, lastDown, nodeUp, lastClear, inbound>>
         /\ \/ UNCHANGED <<trace, sendDone, available, inTransit>>
            \/ \E o \in Live(l) :
                 /\ o.id \in Id /\ trace[o.id] = InNode(Source[l])
                 /\ Clearing(l, o) \/ \E extra \in Nat : Sending(l, o, extra)
<1>1. TypeOK /\ <<"link", l>> \notin dead
  BY DEF CustodyInv, LinkTask, TakePacket, Discard, Resume, MayRun
<1>2. PICK o \in Outgoing :
        /\ ComesBy(l, o)
        /\ \/ LetsGo(l, o)
           \/ WaitPanics(l)
           \/ /\ o.channel \notin handled
              /\ \/ \E w \in Waiting, k \in Nat : Await(l, w, o, k)
                 \/ Transmit(l, o)
  BY <1>1, LinkTaskCases
<1>3. UNCHANGED <<now, linkUp, lastDown, nodeUp, lastClear, inbound>>
  BY <1>1, LinkTaskCases DEF linkTaskFrame, clockVars, linkVars, nodeVars
<1>4. CASE \/ LetsGo(l, o) \/ WaitPanics(l)
           \/ \E w \in Waiting, k \in Nat : Await(l, w, o, k)
           \/ \E congestion \in CongestionDraw(l) : SendPanics(l, o, congestion)
  <2>1. UNCHANGED <<trace, sendDone, available, inTransit>>
    BY <1>4 DEF LetsGo, WaitPanics, Await, SendPanics
  <2> QED
    BY <1>3, <2>1
<1>5. CASE /\ o.channel \notin handled
           /\ \/ DropCleared(l, o)
              \/ \E congestion \in CongestionDraw(l), extra \in ExtraDelayDraw(l) :
                   SendOnLink(l, o, congestion, extra)
  <2>1. Held(l) = Elements(outgoing'[l]) \cup {o}
    BY <1>1, <1>2, ComesByHeld
  <2>2. o \in Live(l) /\ o.id \in Id
    BY <1>5, <2>1 DEF Live, Outgoing
  <2>3. trace[o.id] = InNode(Source[l])
    BY <2>2, WhenOffered DEF CustodyInv
  <2>4. DropCleared(l, o) => Clearing(l, o)
    BY DEF DropCleared, Clearing, Track
  <2>5. ASSUME NEW congestion \in CongestionDraw(l), NEW extra \in ExtraDelayDraw(l),
               SendOnLink(l, o, congestion, extra)
        PROVE  extra \in Nat /\ Sending(l, o, extra)
    <3>1. extra \in Nat
      BY ParameterAssumption DEF ExtraDelayDraw
    <3> QED
      BY <2>5, <3>1 DEF SendOnLink, Sending, SendAsserts, Track, InTransit
  <2> QED
    BY <1>3, <1>5, <2>2, <2>3, <2>4, <2>5
<1> QED
  BY <1>2, <1>4, <1>5 DEF Transmit

\* Nothing else puts packets on a link.
LEMMA OthersSendNothing ==
  ASSUME TypeOK, [Next]_vars, \A l \in Link : ~LinkTask(l)
  PROVE  sendDone' = sendDone /\ \A k \in Link : inTransit'[k] \subseteq inTransit[k]
<1>1. ASSUME NEW l \in Link, DeliverNext(l)
      PROVE  sendDone' = sendDone /\ \A k \in Link : inTransit'[k] \subseteq inTransit[k]
  <2>1. PICK x, rest : /\ inTransit' = [inTransit EXCEPT ![l] = rest]
                       /\ rest = IF <<"forwarder", l>> \in dead'
                                 THEN inTransit[l] \ Arrived(inTransit[l]) ELSE inTransit[l] \ {x}
    BY <1>1 DEF DeliverNext
  <2>2. rest \subseteq inTransit[l]
    BY <2>1
  <2>3. sendDone' = sendDone
    BY <1>1 DEF DeliverNext
  <2> QED
    BY <2>1, <2>2, <2>3 DEF TypeOK
<1>2. ASSUME \/ \E f \in Flow, size \in Size, ecn \in HostEcn : HostSend(f, size, ecn)
             \/ \E n \in Node : HostReceive(n)
             \/ \E n \in Node : Dispatch(n)
             \/ \E l \in Link : SetTimer(l)
             \/ \E l \in EventLink, up \in BOOLEAN : LinkEvent(l, up)
             \/ \E n, up, clear : NodeEvent(n, up, clear)
             \/ Tick
             \/ UNCHANGED vars
      PROVE  sendDone' = sendDone /\ inTransit' = inTransit
  BY <1>2 DEF HostSend, HostReceive, Dispatch, SetTimer, LinkEvent, NodeEvent, Tick, vars, transitVars
<1> QED
  BY <1>1, <1>2 DEF Next, Forwarder

\* What is new on a link.
LEMMA NewFlights ==
  ASSUME CustodyInv, [Next]_vars, NEW k \in Link, NEW y \in inTransit'[k], y \notin inTransit[k]
  PROVE  /\ y.id \in Id /\ y.sent = now /\ y.arrival >= now + Delay[k]
         /\ trace[y.id] = InNode(Source[k]) /\ linkUp[k]
         /\ UNCHANGED <<now, linkUp, lastDown>>
<1>1. TypeOK
  BY DEF CustodyInv
<1>2. PICK l \in Link : LinkTask(l)
  BY <1>1, OthersSendNothing
<1>3. PICK o \in Live(l), extra \in Nat :
        o.id \in Id /\ trace[o.id] = InNode(Source[l]) /\ Sending(l, o, extra)
  BY <1>2, LinkTaskEffect DEF Clearing
<1>4. PICK z : z = [id |-> o.id, sent |-> now, arrival |-> now + Delay[l] + extra]
  OBVIOUS
<1>5. inTransit' = [inTransit EXCEPT ![l] = @ \cup {z}] /\ linkUp[l]
  BY <1>3, <1>4 DEF Sending
<1>6. k = l /\ y = z
  BY <1>1, <1>5 DEF TypeOK
<1>7. z.id = o.id /\ z.sent = now /\ z.arrival = now + Delay[l] + extra
  BY <1>4
<1>8. now + Delay[l] + extra >= now + Delay[l]
  <2>1. now \in Nat /\ Delay[l] \in Nat
    BY <1>1, ParameterAssumption DEF TypeOK
  <2> QED
    BY <2>1
<1>9. UNCHANGED <<now, linkUp, lastDown>>
  BY <1>2, LinkTaskEffect
<1> QED
  BY <1>3, <1>5, <1>6, <1>7, <1>8, <1>9

-----------------------------------------------------------------------------
(* The steps of the verified network.                                       *)

\* A step in which packets move, if anything.
Observed == ReplayPackets /\ UNCHANGED <<linkUp, nodeUp, lastDown, lastClear>>

\* A network event and its replay.
LinkObserved(l, up) ==
  LinkEvent(l, up) /\ ReplayEvent([kind |-> "LinkEvent", link |-> l, up |-> up])
NodeObserved(n, up, clear) ==
  NodeEvent(n, up, clear) /\ ReplayEvent([kind |-> "NodeEvent", node |-> n, up |-> up, clear |-> clear])

LEMMA VerifiedCases ==
  ASSUME [VerifiedNext]_<<vars, replay>>
  PROVE  /\ [Next]_vars
         /\ \/ Observed
            \/ \E l \in Link, up \in BOOLEAN : LinkObserved(l, up)
            \/ \E n \in Node, up, clear \in BOOLEAN : NodeObserved(n, up, clear)
<1>1. CASE UNCHANGED <<vars, replay>>
  <2>1. UNCHANGED <<trace, linkUp, nodeUp, lastDown, lastClear, replay>>
    BY <1>1 DEF vars, linkVars, nodeVars
  <2>2. Changed = {}
    BY <2>1 DEF Changed
  <2> QED
    BY <1>1, <2>1, <2>2 DEF Observed, ReplayPackets
<1>2. CASE /\ \/ \E f \in Flow, size \in Size, ecn \in HostEcn : HostSend(f, size, ecn)
              \/ \E n \in Node : HostReceive(n) \/ Dispatch(n)
              \/ \E l \in Link : LinkTask(l) \/ Forwarder(l)
              \/ Tick
           /\ ReplayPackets
  <2>1. UNCHANGED <<linkUp, nodeUp, lastDown, lastClear>>
    BY <1>2 DEF HostSend, HostReceive, Dispatch, LinkTask, TakePacket, Discard, Resume, linkTaskFrame,
       Forwarder, SetTimer, DeliverNext, Tick, linkVars, nodeVars
  <2> QED
    BY <1>2, <2>1 DEF Observed, Next
<1>3. ASSUME NEW l \in EventLink, NEW up \in BOOLEAN, LinkEvent(l, up),
             ReplayEvent([kind |-> "LinkEvent", link |-> l, up |-> up])
      PROVE  [Next]_vars /\ \E k \in Link, u \in BOOLEAN : LinkObserved(k, u)
  BY <1>3, ParameterAssumption DEF LinkObserved, Next
<1>4. ASSUME NEW n \in EventNode \cup ClearNode, NEW up \in BOOLEAN, NEW clear \in BOOLEAN,
             up # nodeUp[n] \/ ~clear => n \in EventNode, clear => n \in ClearNode,
             NodeEvent(n, up, clear),
             ReplayEvent([kind |-> "NodeEvent", node |-> n, up |-> up, clear |-> clear])
      PROVE  [Next]_vars /\ \E m \in Node, u, c \in BOOLEAN : NodeObserved(m, u, c)
  <2>1. n \in Node
    BY <1>4, ParameterAssumption
  <2>2. CASE ~clear
    <3>1. n \in EventNode /\ NodeEvent(n, up, FALSE)
      BY <1>4, <2>2
    <3> QED
      BY <1>4, <2>1, <3>1 DEF NodeObserved, Next
  <2>3. CASE clear
    <3>1. n \in ClearNode /\ NodeEvent(n, up, TRUE)
      BY <1>4, <2>3
    <3>2. up \in {nodeUp[n]} \cup {u \in BOOLEAN : n \in EventNode}
      BY <1>4
    <3> QED
      BY <1>4, <2>1, <3>1, <3>2 DEF NodeObserved, Next
  <2> QED
    BY <2>2, <2>3
<1> QED
  BY <1>1, <1>2, <1>3, <1>4 DEF VerifiedNext

\* Events move no packets, neither in the network nor in the replay.
LEMMA EventEffect ==
  ASSUME TypeOK, Faithful(replay, trace, data), replay.linkUp = linkUp, replay.nodeUp = nodeUp,
         \/ \E l \in Link, up \in BOOLEAN : LinkObserved(l, up)
         \/ \E n \in Node, up, clear \in BOOLEAN : NodeObserved(n, up, clear)
  PROVE  /\ UNCHANGED <<trace, data, inTransit, inbound, sendDone, available, dead, now>>
         /\ Faithful(replay', trace', data')
         /\ replay'.linkUp = linkUp' /\ replay'.nodeUp = nodeUp'
         /\ replay'.inFlight = replay.inFlight /\ replay'.packets = replay.packets
         /\ replay'.sends = replay.sends
         /\ \E visited \in V!Walks(replay) : \E v :
              /\ v = V!MeasureBuffers(replay, now, visited)
              /\ replay'.errors = v.errors /\ replay'.maxUsage = v.maxUsage /\ replay'.time = v.time
<1>1. UNCHANGED <<trace, data, inTransit, inbound, sendDone, available, dead, now>>
  BY DEF LinkObserved, NodeObserved, LinkEvent, NodeEvent, transitVars, packetVars
<1>2. ASSUME NEW visited \in V!Walks(replay), NEW v, v = V!MeasureBuffers(replay, now, visited)
      PROVE  /\ Replaying(v) /\ Faithful(v, trace, data)
             /\ v.linkUp = linkUp /\ v.nodeUp = nodeUp /\ v.sends = replay.sends
             /\ v.inFlight = replay.inFlight /\ v.packets = replay.packets
  <2>1. Only(replay, v, {"maxUsage", "errors", "time"}) /\ Replaying(v)
    BY <1>2, MeasureEffect DEF Faithful
  <2>2. /\ v.packets = replay.packets /\ v.inFlight = replay.inFlight /\ v.stats = replay.stats
        /\ v.lost = replay.lost /\ v.linkUp = replay.linkUp /\ v.nodeUp = replay.nodeUp
        /\ v.sends = replay.sends
    BY <2>1 DEF Only, Fields
  <2> QED
    BY <2>1, <2>2, FaithfulFields
<1>3. ASSUME NEW l \in Link, NEW up \in BOOLEAN, LinkObserved(l, up)
      PROVE  \E visited \in V!Walks(replay) : \E v :
               /\ v = V!MeasureBuffers(replay, now, visited) /\ Only(v, replay', {"linkUp", "lastDown"})
               /\ replay'.linkUp = linkUp' /\ nodeUp' = nodeUp
  <2>1. PICK s : s = [kind |-> "LinkEvent", link |-> l, up |-> up]
    OBVIOUS
  <2>2. s.kind = "LinkEvent" /\ s.link = l /\ s.up = up
    BY <2>1
  <2>3a. PICK visited \in V!Walks(replay) :
           replay' = V!VerifyStep(V!MeasureBuffers(replay, now, visited), s, now)
    BY <1>3, <2>1 DEF LinkObserved, ReplayEvent
  <2>3. PICK v : v = V!MeasureBuffers(replay, now, visited) /\ replay' = V!VerifyStep(v, s, now)
    BY <2>3a
  <2>4. Replaying(v) /\ v.linkUp = linkUp
    BY <1>2, <2>3
  <2>5. Only(v, replay', {"linkUp", "lastDown"}) /\ replay'.linkUp = Switched(v.linkUp, l, s.up)
    <3>1. s.kind = "LinkEvent" /\ s.link = l
      BY <2>2
    <3>2. PICK w : w = replay'
      OBVIOUS
    <3>3. w = V!VerifyStep(v, s, now)
      BY <2>3, <3>2
    <3>4. Only(v, w, {"linkUp", "lastDown"}) /\ w.linkUp = Switched(v.linkUp, l, s.up)
      BY <2>4, <3>1, <3>3, LinkEventEffect
    <3> QED
      BY <3>2, <3>4
  <2>6. linkUp' = Switched(linkUp, l, s.up) /\ nodeUp' = nodeUp
    BY <1>3, <2>2 DEF LinkObserved, LinkEvent, nodeVars, Switched
  <2> QED
    BY <2>3, <2>4, <2>5, <2>6
<1>4. ASSUME NEW n \in Node, NEW up \in BOOLEAN, NEW clear \in BOOLEAN, NodeObserved(n, up, clear)
      PROVE  \E visited \in V!Walks(replay) : \E v :
               /\ v = V!MeasureBuffers(replay, now, visited) /\ Only(v, replay', {"nodeUp", "lastClear"})
               /\ replay'.nodeUp = nodeUp' /\ linkUp' = linkUp
  <2>1. PICK s : s = [kind |-> "NodeEvent", node |-> n, up |-> up, clear |-> clear]
    OBVIOUS
  <2>2. s.kind = "NodeEvent" /\ s.node = n /\ s.up = up /\ s.clear = clear
    BY <2>1
  <2>3a. PICK visited \in V!Walks(replay) :
           replay' = V!VerifyStep(V!MeasureBuffers(replay, now, visited), s, now)
    BY <1>4, <2>1 DEF NodeObserved, ReplayEvent
  <2>3. PICK v : v = V!MeasureBuffers(replay, now, visited) /\ replay' = V!VerifyStep(v, s, now)
    BY <2>3a
  <2>4. Replaying(v) /\ v.nodeUp = nodeUp
    BY <1>2, <2>3
  <2>5. Only(v, replay', {"nodeUp", "lastClear"}) /\ replay'.nodeUp = Switched(v.nodeUp, n, s.up)
    <3>1. s.kind = "NodeEvent" /\ s.node = n
      BY <2>2
    <3>2. PICK w : w = replay'
      OBVIOUS
    <3>3. w = V!VerifyStep(v, s, now)
      BY <2>3, <3>2
    <3>4. Only(v, w, {"nodeUp", "lastClear"}) /\ w.nodeUp = Switched(v.nodeUp, n, s.up)
      BY <2>4, <3>1, <3>3, NodeEventEffect
    <3> QED
      BY <3>2, <3>4
  <2>6. nodeUp' = Switched(nodeUp, n, s.up) /\ linkUp' = linkUp
    BY <1>4, <2>2 DEF NodeObserved, NodeEvent, linkVars, Switched
  <2> QED
    BY <2>3, <2>4, <2>5, <2>6
<1>5a. PICK visited \in V!Walks(replay) : \E v :
        /\ v = V!MeasureBuffers(replay, now, visited)
        /\ \/ /\ Only(v, replay', {"linkUp", "lastDown"})
              /\ replay'.linkUp = linkUp' /\ nodeUp' = nodeUp
           \/ /\ Only(v, replay', {"nodeUp", "lastClear"})
              /\ replay'.nodeUp = nodeUp' /\ linkUp' = linkUp
  BY <1>3, <1>4
<1>5. PICK v :
        /\ v = V!MeasureBuffers(replay, now, visited)
        /\ \/ /\ Only(v, replay', {"linkUp", "lastDown"})
              /\ replay'.linkUp = linkUp' /\ nodeUp' = nodeUp
           \/ /\ Only(v, replay', {"nodeUp", "lastClear"})
              /\ replay'.nodeUp = nodeUp' /\ linkUp' = linkUp
  BY <1>5a
<1>6. /\ Replaying(v) /\ Faithful(v, trace, data)
      /\ v.linkUp = linkUp /\ v.nodeUp = nodeUp /\ v.sends = replay.sends
      /\ v.inFlight = replay.inFlight /\ v.packets = replay.packets
  BY <1>2, <1>5
<1>7. /\ DOMAIN replay' = Fields /\ replay'.fatal = v.fatal
      /\ replay'.packets = v.packets /\ replay'.inFlight = v.inFlight /\ replay'.stats = v.stats
      /\ replay'.lost = v.lost /\ replay'.sends = v.sends /\ replay'.errors = v.errors
      /\ replay'.maxUsage = v.maxUsage /\ replay'.time = v.time
  BY <1>5 DEF Only, Fields
<1>8. replay'.linkUp = linkUp' /\ replay'.nodeUp = nodeUp'
  BY <1>5, <1>6 DEF Only, Fields
<1>9. Replaying(replay')
  <2>1. linkUp' \in [Link -> BOOLEAN] /\ nodeUp' \in [Node -> BOOLEAN]
    <3>1. \/ \E l \in Link, up \in BOOLEAN : linkUp' = [linkUp EXCEPT ![l] = up] /\ nodeUp' = nodeUp
          \/ \E n \in Node, up \in BOOLEAN : nodeUp' = [nodeUp EXCEPT ![n] = up] /\ linkUp' = linkUp
      BY DEF LinkObserved, NodeObserved, LinkEvent, NodeEvent, linkVars, nodeVars
    <3> QED
      BY <3>1 DEF TypeOK
  <2> QED
    BY <1>6, <1>7, <1>8, <2>1 DEF Replaying
<1>10. Faithful(replay', trace', data')
  BY <1>1, <1>6, <1>7, <1>9, FaithfulFields
<1> QED
  BY <1>1, <1>5, <1>6, <1>7, <1>8, <1>10

-----------------------------------------------------------------------------
(* The invariant.                                                           *)

\* A packet that is on a link was sent when the replay says.
SentTogether ==
  \A l \in Link : \A y \in inTransit[l], x \in replay.inFlight : x.id = y.id => x.sent = y.sent

ReplayInv ==
  /\ CustodyInv /\ Endpoints
  /\ Faithful(replay, trace, data)
  /\ replay.linkUp = linkUp /\ replay.nodeUp = nodeUp
  /\ SentTogether

\* What the replay carries over from one step to the next.
LEMMA ObservedCarries ==
  ASSUME ReplayInv, CustodyInv', Records, Observed
  PROVE  /\ Faithful(replay', trace', data')
         /\ replay'.linkUp = linkUp' /\ replay'.nodeUp = nodeUp'
         /\ replay'.lastDown = replay.lastDown /\ replay'.lastClear = replay.lastClear
         /\ \A x \in replay'.inFlight : x \in replay.inFlight \/ (x.id \in Changed /\ x.sent = now)
         /\ \A n \in Node : \A p \in replay'.packets[n] :
              p \in replay.packets[n] \/ (p.id \in Changed /\ p.since = now)
<1>1. /\ CustodyInv /\ Faithful(replay, trace, data) /\ ReplayPackets
      /\ UNCHANGED <<linkUp, nodeUp>> /\ replay.linkUp = linkUp /\ replay.nodeUp = nodeUp
  BY DEF ReplayInv, Observed
<1>2. /\ Faithful(replay', trace', data')
      /\ \/ Changed = {} /\ replay' = replay
         \/ \E visited \in V!Walks(replay) : \E v :
              v = V!MeasureBuffers(replay, now, visited) /\ Reviewed(v, replay')
  BY <1>1, ReplayFollows
<1>3. CASE replay' = replay
  BY <1>1, <1>2, <1>3
<1>4. ASSUME NEW visited \in V!Walks(replay), NEW v, v = V!MeasureBuffers(replay, now, visited),
             Reviewed(v, replay')
      PROVE  /\ replay'.linkUp = linkUp' /\ replay'.nodeUp = nodeUp'
             /\ replay'.lastDown = replay.lastDown /\ replay'.lastClear = replay.lastClear
             /\ \A x \in replay'.inFlight : x \in replay.inFlight \/ (x.id \in Changed /\ x.sent = now)
             /\ \A n \in Node : \A p \in replay'.packets[n] :
                  p \in replay.packets[n] \/ (p.id \in Changed /\ p.since = now)
  <2>1. Only(replay, v, {"maxUsage", "errors", "time"})
    BY <1>1, <1>4, MeasureEffect DEF Faithful
  <2>2. /\ v.packets = replay.packets /\ v.inFlight = replay.inFlight
        /\ v.linkUp = replay.linkUp /\ v.nodeUp = replay.nodeUp
        /\ v.lastDown = replay.lastDown /\ v.lastClear = replay.lastClear
    BY <2>1 DEF Only, Fields
  <2>3. PICK u : \E first, second \in Changed :
          /\ Carried(v, u, first, first)
          /\ replay' = u \/ Carried(u, replay', second, second)
    BY <1>4 DEF Reviewed
  <2>4. PICK first \in Changed, second \in Changed :
          Carried(v, u, first, first) /\ (replay' = u \/ Carried(u, replay', second, second))
    BY <2>3
  <2>5. Carried(v, replay', first, second)
    <3>1. CASE replay' = u
      BY <2>4, <3>1 DEF Carried
    <3>2. CASE Carried(u, replay', second, second)
      BY <2>4, <3>2, CarriedOn
    <3> QED
      BY <2>4, <3>1, <3>2
  <2> QED
    BY <1>1, <2>2, <2>5 DEF Carried
<1> QED
  BY <1>2, <1>3, <1>4

LEMMA SentTogetherStays ==
  ASSUME ReplayInv, CustodyInv', [Next]_vars,
         \A x \in replay'.inFlight : x \in replay.inFlight \/ (x.id \in Changed /\ x.sent = now)
  PROVE  SentTogether'
<1>1. ASSUME NEW l \in Link, NEW y \in inTransit'[l], NEW x \in replay'.inFlight, x.id = y.id
      PROVE  x.sent = y.sent
  <2>1. y.id \in Id
    BY <1>1 DEF CustodyInv, TypeOK, Transit
  <2>2. trace'[y.id] = InTransit(l)
    <3>1. OneCustodian(y.id)'
      BY <2>1 DEF CustodyInv
    <3>2. \E k \in Link : trace'[y.id] = InTransit(k) /\ \E z : SentOnly(y.id, k, z)'
      BY <1>1, <3>1 DEF OneCustodian, QueuedOnly, OfferedOnly, ReadableOnly, NotSent, InTransit, Recorded
    <3> QED
      BY <1>1, <3>2 DEF SentOnly
  <2>3. CASE y \in inTransit[l]
    <3>1. trace[y.id] = InTransit(l)
      BY <2>1, <2>3, WhenSent DEF ReplayInv, CustodyInv
    <3>2. x \in replay.inFlight
      BY <1>1, <2>2, <3>1 DEF Changed
    <3> QED
      BY <1>1, <2>3, <3>2 DEF ReplayInv, SentTogether
  <2>4. CASE y \notin inTransit[l]
    <3>1. y.sent = now /\ trace[y.id] = InNode(Source[l])
      BY <2>4, NewFlights DEF ReplayInv
    <3>2. x \notin replay.inFlight
      BY <1>1, <3>1, StepNames DEF ReplayInv, Faithful, MirrorLinks
    <3> QED
      BY <3>1, <3>2
  <2> QED
    BY <2>3, <2>4
<1> QED
  BY <1>1 DEF SentTogether

LEMMA NextReplay == ReplayInv /\ [VerifiedNext]_<<vars, replay>> => ReplayInv'
<1> SUFFICES ASSUME ReplayInv, [VerifiedNext]_<<vars, replay>>
             PROVE  ReplayInv'
  OBVIOUS
<1>1. /\ [Next]_vars
      /\ \/ Observed
         \/ \E l \in Link, up \in BOOLEAN : LinkObserved(l, up)
         \/ \E n \in Node, up, clear \in BOOLEAN : NodeObserved(n, up, clear)
  BY VerifiedCases
<1>2. CustodyInv' /\ Records /\ Endpoints'
  BY <1>1, NextCustody, NextRecords DEF ReplayInv
<1>3. /\ Faithful(replay', trace', data')
      /\ replay'.linkUp = linkUp' /\ replay'.nodeUp = nodeUp'
      /\ \A x \in replay'.inFlight : x \in replay.inFlight \/ (x.id \in Changed /\ x.sent = now)
  <2>1. CASE Observed
    BY <1>2, <2>1, ObservedCarries
  <2>2. CASE \/ \E l \in Link, up \in BOOLEAN : LinkObserved(l, up)
             \/ \E n \in Node, up, clear \in BOOLEAN : NodeObserved(n, up, clear)
    <3>1. TypeOK
      BY DEF ReplayInv, CustodyInv
    <3> QED
      BY <2>2, <3>1, EventEffect DEF ReplayInv
  <2> QED
    BY <1>1, <2>1, <2>2
<1>4. SentTogether'
  BY <1>1, <1>2, <1>3, SentTogetherStays
<1>5. Faithful(replay, trace, data)'
  BY <1>3 DEF Faithful, Replaying, MirrorNodes, MirrorLinks, RoutersEven, FlightsEven, Ghost
<1> QED
  BY <1>2, <1>3, <1>4, <1>5 DEF ReplayInv

LEMMA InitReplay == VerifiedInit => ReplayInv
<1> SUFFICES ASSUME VerifiedInit
             PROVE  ReplayInv
  OBVIOUS
<1>1. CustodyInv /\ TypeOK
  BY InitCustody DEF VerifiedInit, CustodyInv
<1>2. /\ nextId = 1 /\ inbound = [n \in Node |-> {}] /\ inTransit = [l \in Link |-> {}]
      /\ trace = [id \in Id |-> NotBorn]
  BY DEF VerifiedInit, Init, NotBorn
<1>3. Endpoints
  BY <1>2, ParameterAssumption DEF Endpoints, Id
<1>4. /\ replay.nodeUp = nodeUp /\ replay.linkUp = linkUp /\ replay.fatal = "none"
      /\ replay.packets = [n \in Node |-> {}] /\ replay.inFlight = {}
      /\ replay.stats = [n \in Node |-> [c \in V!Counter |-> 0]] /\ replay.lost = [l \in Link |-> 0]
      /\ DOMAIN replay = Fields
  BY DEF VerifiedInit, V!NewVerifier, Fields
<1>5. Replaying(replay)
  BY <1>1, <1>4 DEF Replaying, CounterType, TypeOK
<1>6. MirrorNodes(replay.packets, trace, data) /\ MirrorLinks(replay.inFlight, trace)
  BY <1>2, <1>4, StepNames DEF MirrorNodes, MirrorLinks
<1>7. RoutersEven(replay.packets, replay.stats)
  <2>1. IsFiniteSet({}) /\ Cardinality({}) = 0
    BY FS_EmptySet
  <2>2. ASSUME NEW n \in Node \ Host PROVE Even(replay.stats[n], 0)
    <3>1. replay.stats[n] = [c \in V!Counter |-> 0]
      BY <1>4
    <3> QED
      BY <3>1, CounterNames DEF Even
  <2> QED
    BY <1>4, <2>1, <2>2 DEF RoutersEven
<1>8. FlightsEven(replay.inFlight, replay.stats, replay.lost)
  <2>1. IsFiniteSet({}) /\ Cardinality({}) = 0
    BY FS_EmptySet
  <2>2. ASSUME NEW c \in V!Counter PROVE CountedIn(replay.stats, c) = {}
    <3>1. \A n \in Node : replay.stats[n][c] = 0
      BY <1>4
    <3>2. 1..0 = {}
      OBVIOUS
    <3> QED
      BY <3>1, <3>2 DEF CountedIn, Pairs
  <2>3. Pairs(Link, replay.lost) = {}
    <3>1. \A l \in Link : replay.lost[l] = 0
      BY <1>4
    <3>2. 1..0 = {}
      OBVIOUS
    <3> QED
      BY <3>1, <3>2 DEF Pairs
  <2>4. CountedIn(replay.stats, "sent") = {} /\ CountedIn(replay.stats, "received") = {}
    BY <2>2, CounterNames
  <2> QED
    BY <1>4, <2>1, <2>3, <2>4 DEF FlightsEven
<1> QED
  BY <1>1, <1>2, <1>3, <1>4, <1>5, <1>6, <1>7, <1>8 DEF ReplayInv, Faithful, SentTogether

\* In every network, with every loss, duplicate, event and panic, the log never
\* makes the verifier give up: every step it is given refers to a packet that the
\* replay finds where the step says, and none brings a packet twice
\* (SimulationVerifier::verify and its FatalErrors).
THEOREM LogIsNeverFatal == VerifiedSpec => []NeverFatal
<1>1. ReplayInv => NeverFatal
  BY DEF ReplayInv, Faithful, Replaying, NeverFatal
<1> QED
  BY <1>1, InitReplay, NextReplay, PTL DEF VerifiedSpec

\* In every network the counters that the verifier reports add up: what comes
\* into a router is sent, dropped or still there, and what nodes send arrives,
\* is lost or is in flight (NodeStats, LinkStats).
THEOREM CountersAddUp == VerifiedSpec => []StatsAddUp
<1>1. ReplayInv => StatsAddUp
  <2> SUFFICES ASSUME ReplayInv
               PROVE  StatsAddUp
    OBVIOUS
  <2>1. RoutersEven(replay.packets, replay.stats) /\ FlightsEven(replay.inFlight, replay.stats, replay.lost)
    BY DEF ReplayInv, Faithful
  <2>2. \A c : Counted(c) = CountedIn(replay.stats, c)
    BY DEF Counted, CountedIn, Pairs
  <2>3. LostPackets = Pairs(Link, replay.lost)
    BY DEF LostPackets, Pairs
  <2>4. Cardinality(Counted("sent")) =
          Cardinality(Counted("received")) + Cardinality(LostPackets) + Cardinality(replay.inFlight)
    BY <2>1, <2>2, <2>3 DEF FlightsEven
  <2> QED
    BY <2>1, <2>4 DEF RoutersEven, Even, StatsAddUp
<1> QED
  BY <1>1, InitReplay, NextReplay, PTL DEF VerifiedSpec

\* The packets in a node, by their custodians and by the log.
LEMMA HeldByLog ==
  ASSUME CustodyInv, dead = {}, NEW n \in Node, NEW id \in Id
  PROVE  (\E c \in Custodians(id) : c[1] # "transit" /\ c[2] = n) <=> trace[id] = InNode(n)
<1>1. /\ \A c \in Custodians(id) : trace[id] = StepOf(c)
      /\ trace[id].step = "InNode" => Custodians(id) # {}
  BY CustodyIsLogged DEF LogIsTruthful
<1>2. ASSUME NEW c \in Custodians(id)
      PROVE  c[1] # "transit" /\ c[2] = n <=> StepOf(c) = InNode(n)
  BY DEF StepOf, InNode, Recorded
<1>3. InNode(n).step = "InNode"
  BY StepNames
<1> QED
  BY <1>1, <1>2, <1>3

LEMMA FlightsMirrored ==
  ASSUME ReplayInv, dead = {}
  PROVE  {<<x.link, x.id, x.sent>> : x \in replay.inFlight} =
           UNION {{<<l, y.id, y.sent>> : y \in inTransit[l]} : l \in Link}
<1>1. CustodyInv /\ MirrorLinks(replay.inFlight, trace) /\ SentTogether
  BY DEF ReplayInv, Faithful
<1>2. ASSUME NEW x \in replay.inFlight
      PROVE  \E l \in Link : \E y \in inTransit[l] : <<x.link, x.id, x.sent>> = <<l, y.id, y.sent>>
  <2>1. x.id \in Id /\ x.link \in Link /\ trace[x.id] = InTransit(x.link)
    BY <1>1, <1>2 DEF MirrorLinks
  <2>2. ~NotSent(x.id)
    BY <1>1, <2>1, StepNames DEF CustodyInv, Present
  <2>0. PICK l \in Link : \E y \in inTransit[l] : y.id = x.id
    BY <2>2 DEF NotSent
  <2>3. PICK y \in inTransit[l] : y.id = x.id
    BY <2>0
  <2>4. trace[x.id] = InTransit(l)
    BY <1>1, <2>1, <2>3, WhenSent DEF CustodyInv
  <2>5. l = x.link
    BY <2>1, <2>4 DEF InTransit, Recorded
  <2> QED
    BY <1>1, <2>3, <2>5 DEF SentTogether
<1>3. ASSUME NEW l \in Link, NEW y \in inTransit[l]
      PROVE  \E x \in replay.inFlight : <<l, y.id, y.sent>> = <<x.link, x.id, x.sent>>
  <2>1. y.id \in Id
    BY <1>1, <1>3 DEF CustodyInv, TypeOK, Transit
  <2>2. trace[y.id] = InTransit(l)
    BY <1>1, <2>1, WhenSent DEF CustodyInv
  <2>3. PICK x \in replay.inFlight : x.id = y.id /\ x.link = l
    BY <1>1, <2>1, <2>2 DEF MirrorLinks
  <2> QED
    BY <1>1, <2>3 DEF SentTogether
<1> QED
  BY <1>2, <1>3

\* In every network, as long as no task dies, the replay knows where every
\* packet is: in which node and of what size, or on which link and since when;
\* besides them it only keeps the packets that a host created while it was down
\* (SimulationVerifier's nodes and links against the network's queues).
THEOREM ReplayIsFaithful == VerifiedSpec => []ReplayMirrorsNetwork
<1>1. ReplayInv => ReplayMirrorsNetwork
  <2> SUFFICES ASSUME ReplayInv, dead = {}
               PROVE  /\ replay.linkUp = linkUp /\ replay.nodeUp = nodeUp
                      /\ \A n \in Node :
                           LET here == {id \in Id : \E c \in Custodians(id) : c[1] # "transit" /\ c[2] = n}
                               Sized(ids) == {<<id, data[id].size>> : id \in ids}
                               seen == {<<p.id, p.size>> : p \in replay.packets[n]}
                           IN  Sized(here) \subseteq seen /\ seen \subseteq Sized(here \cup Ghosts(n))
                      /\ {<<x.link, x.id, x.sent>> : x \in replay.inFlight} =
                           UNION {{<<l, y.id, y.sent>> : y \in inTransit[l]} : l \in Link}
    BY DEF ReplayMirrorsNetwork
  <2>1. CustodyInv /\ MirrorNodes(replay.packets, trace, data)
    BY DEF ReplayInv, Faithful
  <2>2. ASSUME NEW n \in Node
        PROVE  LET here == {id \in Id : \E c \in Custodians(id) : c[1] # "transit" /\ c[2] = n}
                   Sized(ids) == {<<id, data[id].size>> : id \in ids}
                   seen == {<<p.id, p.size>> : p \in replay.packets[n]}
               IN  Sized(here) \subseteq seen /\ seen \subseteq Sized(here \cup Ghosts(n))
    <3>1. PICK here : here = {id \in Id : \E c \in Custodians(id) : c[1] # "transit" /\ c[2] = n}
      OBVIOUS
    <3>2. \A id \in Id : id \in here <=> trace[id] = InNode(n)
      BY <2>1, <3>1, HeldByLog
    <3>3. ASSUME NEW id \in here
          PROVE  \E p \in replay.packets[n] : <<id, data[id].size>> = <<p.id, p.size>>
      <4>1. id \in Id /\ trace[id] = InNode(n)
        BY <3>1, <3>2
      <4> QED
        BY <2>1, <4>1 DEF MirrorNodes
    <3>4. ASSUME NEW p \in replay.packets[n]
          PROVE  \E id \in here \cup Ghosts(n) : <<p.id, p.size>> = <<id, data[id].size>>
      <4>1. p.id \in Id /\ p.size = data[p.id].size /\ (trace[p.id] = InNode(n) \/ Ghost(p.id, n, trace, data))
        BY <2>1, <3>4 DEF MirrorNodes
      <4>2. p.id \in here \cup Ghosts(n)
        BY <3>2, <4>1 DEF Ghost, Ghosts
      <4> QED
        BY <4>1, <4>2
    <3> QED
      BY <3>1, <3>3, <3>4
  <2> QED
    BY <2>2, FlightsMirrored DEF ReplayInv
<1> QED
  BY <1>1, InitReplay, NextReplay, PTL DEF VerifiedSpec

-----------------------------------------------------------------------------
(* The alarms.  What the network guarantees of a packet that arrives.       *)

\* Only a node that is down drops packets on arrival, and it drops them all.
LEMMA ForwardStatus ==
  ASSUME TypeOK, NEW n \in Node, NEW id \in Id, NEW d, NEW task, NEW fresh,
         Forward(n, id, d, fresh, task), NEW i \in Id, trace'[i] # trace[i]
  PROVE  nodeUp[n] <=> trace'[i].step # "DroppedOnArrival"
<1>1. CASE ArriveAtDownNode(n, id, d, fresh)
  <2>1. ~nodeUp[n] /\ trace' = [trace EXCEPT ![id] = Recorded("DroppedOnArrival", n)]
    BY <1>1 DEF ArriveAtDownNode, Track
  <2>2. trace'[i] = Recorded("DroppedOnArrival", n)
    BY <2>1 DEF TypeOK
  <2> QED
    BY <2>1, <2>2, StepNames
<1>2. CASE ArriveAtEndpoint(n, id, d, fresh) \/ DropRandomly(n, id, d, fresh)
  <2>1. PICK step \in {"InNode", "DroppedRandom"} :
          nodeUp[n] /\ trace' = [trace EXCEPT ![id] = Recorded(step, n)]
    BY <1>2 DEF ArriveAtEndpoint, DropRandomly, Track
  <2>2. trace'[i] = Recorded(step, n)
    BY <2>1 DEF TypeOK
  <2> QED
    BY <2>1, <2>2, StepNames
<1>3. CASE StorePacket(n, id, d, fresh, task) \/ StoreDuplicated(n, id, d, fresh, task)
  <2>1. PICK copies : nodeUp[n] /\ StoreCopies(n, copies, d.size, task)
    BY <1>3 DEF StorePacket, StoreDuplicated
  <2>2. PICK s : trace' = [x \in Id |-> IF x \in s.full THEN Recorded("DroppedBufferFull", n)
                                         ELSE IF x \in s.kept THEN Recorded("InNode", n)
                                         ELSE trace[x]]
    BY <2>1, Zenon DEF StoreCopies
  <2>3. trace'[i] \in {Recorded("DroppedBufferFull", n), Recorded("InNode", n)}
    BY <2>2
  <2> QED
    BY <2>1, <2>3, StepNames
<1> QED
  BY <1>1, <1>2, <1>3 DEF Forward

\* Packet id comes into node n: it is new, or its link brought it in time and
\* has not been down since.
Brought(id, n) ==
  /\ trace'[id].at = n /\ trace'[id].step \in ArrivalNames
  /\ nodeUp[n] <=> trace'[id].step # "DroppedOnArrival"
  /\ \/ trace[id] = NotBorn
     \/ \E l \in Link : /\ trace[id] = InTransit(l) /\ Target[l] = n
                        /\ \E y \in inTransit[l] : y.id = id /\ y.arrival <= now /\ lastDown[l] <= y.sent

LEMMA HostSendBrings ==
  ASSUME CustodyInv, NEW f \in Flow, NEW size \in Size, NEW ecn \in HostEcn, HostSend(f, size, ecn),
         NEW id \in Changed
  PROVE  \E n \in Node : Brought(id, n)
<1> DEFINE d == [number |-> nextId, src |-> f[1], dst |-> f[2], size |-> size, ecn |-> ecn]
<1>1. TypeOK /\ f[1] \in Node /\ f[2] \in Node /\ ecn \in Ecn /\ id \in Id /\ trace'[id] # trace[id]
  BY ParameterAssumption DEF CustodyInv, Changed
<1>2. nextId \in Id /\ nextId + 1 \in 1..(MaxPackets + 1) /\ nextId \in Nat
  BY <1>1, ParameterAssumption DEF TypeOK, HostSend, Id
<1>3. d \in Data
  BY <1>1, <1>2 DEF Data
<1>4. PICK task : Forward(f[1], nextId, d, nextId + 1, task)
  BY DEF HostSend
<1> HIDE DEF d
<1>5. nextId + 1 # nextId /\ nextId >= nextId /\ nextId + 1 >= nextId
  BY <1>2
<1>6. /\ \E step \in ArrivalNames : trace'[nextId] = Recorded(step, f[1])
      /\ \A i \in Id \ {nextId} : trace'[i] # trace[i] =>
           i = nextId + 1 /\ trace'[i] \in {InNode(f[1]), Unkept(f[1])}
  BY <1>1, <1>2, <1>3, <1>4, <1>5, ForwardRecords
<1>7. /\ id \in {nextId, nextId + 1}
      /\ trace'[id].at = f[1] /\ trace'[id].step \in ArrivalNames
  BY <1>1, <1>6, StepNames DEF ArrivalNames
<1>8. trace[id] = NotBorn
  BY <1>1, <1>5, <1>7 DEF CustodyInv, FreeIds
<1>9. nodeUp[f[1]] <=> trace'[id].step # "DroppedOnArrival"
  BY <1>1, <1>2, <1>4, ForwardStatus
<1> QED
  BY <1>1, <1>7, <1>8, <1>9 DEF Brought

LEMMA DeliverNextBrings ==
  ASSUME CustodyInv, NEW l \in Link, DeliverNext(l), NEW id \in Changed,
         trace'[id].step # "LostInTransit"
  PROVE  \E n \in Node : Brought(id, n)
<1> DEFINE task == <<"forwarder", l>>
<1>1. PICK x \in Arrived(inTransit[l]) :
        \/ LoseInTransit(l, x)
        \/ ~WasDownAfter(l, x.sent) /\ Forward(Target[l], x.id, data[x.id], nextId, task)
  BY DEF DeliverNext
<1> HIDE DEF task
<1>2. TypeOK /\ x \in inTransit[l] /\ x.arrival <= now /\ id \in Id /\ trace'[id] # trace[id]
  BY <1>1 DEF CustodyInv, Arrived, Changed
<1>3. x.id \in Id /\ x.sent \in Nat /\ lastDown[l] \in Int
  BY <1>2 DEF TypeOK, Transit, Never
<1>4. trace[x.id] = InTransit(l) /\ trace[x.id] # NotBorn
  BY <1>2, <1>3, WhenSent, StepNames DEF CustodyInv
<1>5. nextId \in Nat /\ nextId \in 1..(MaxPackets + 1) /\ nextId >= nextId /\ x.id # nextId
  BY <1>2, <1>3, <1>4 DEF TypeOK, CustodyInv, FreeIds
<1>6. CASE LoseInTransit(l, x)
  <2>1. trace' = [trace EXCEPT ![x.id] = Recorded("LostInTransit", l)]
    BY <1>6 DEF LoseInTransit, Track
  <2>2. trace'[id] = Recorded("LostInTransit", l)
    BY <1>2, <2>1 DEF TypeOK
  <2> QED
    BY <2>2, StepNames
<1>7. CASE ~WasDownAfter(l, x.sent) /\ Forward(Target[l], x.id, data[x.id], nextId, task)
  <2>1. Target[l] \in Node /\ data[x.id] \in Data
    BY <1>2, <1>3, TopologyAssumption DEF TypeOK
  <2>2. /\ \E step \in ArrivalNames : trace'[x.id] = Recorded(step, Target[l])
        /\ \A i \in Id \ {x.id} : trace'[i] # trace[i] =>
             i = nextId /\ trace'[i] \in {InNode(Target[l]), Unkept(Target[l])}
    BY <1>2, <1>3, <1>5, <1>7, <2>1, ForwardRecords
  <2>3. /\ id \in {x.id, nextId}
        /\ trace'[id].at = Target[l] /\ trace'[id].step \in ArrivalNames
    BY <1>2, <2>2, StepNames DEF ArrivalNames
  <2>4. nodeUp[Target[l]] <=> trace'[id].step # "DroppedOnArrival"
    BY <1>2, <1>3, <1>7, <2>1, ForwardStatus
  <2>5. lastDown[l] <= x.sent
    BY <1>3, <1>7 DEF WasDownAfter
  <2>6. id # x.id => trace[id] = NotBorn
    BY <1>2, <1>5, <2>3 DEF CustodyInv, FreeIds
  <2>7. id = x.id => trace[id] = InTransit(l)
    BY <1>4
  <2> QED
    BY <1>2, <2>1, <2>3, <2>4, <2>5, <2>6, <2>7 DEF Brought
<1> QED
  BY <1>1, <1>6, <1>7

\* What is recorded by nobody but forward and a link's task.
LEMMA OthersRecord ==
  ASSUME CustodyInv, [Next]_vars, NEW id \in Changed,
         \A f \in Flow, size \in Size, ecn \in HostEcn : ~HostSend(f, size, ecn),
         \A l \in Link : ~LinkTask(l) /\ ~DeliverNext(l)
  PROVE  trace'[id].step = "Delivered"
<1>1. TypeOK /\ id \in Id /\ trace'[id] # trace[id]
  BY DEF CustodyInv, Changed
<1>2. ASSUME NEW n \in Node, HostReceive(n)
      PROVE  trace'[id].step = "Delivered"
  <2>1. PICK x \in inbound[n] : trace' = [trace EXCEPT ![x.id] = Recorded("Delivered", n)]
    BY <1>2 DEF HostReceive, Track
  <2>2. trace'[id] = Recorded("Delivered", n)
    BY <1>1, <2>1 DEF TypeOK
  <2> QED
    BY <2>2, StepNames
<1>3. ASSUME \/ \E n \in Node : Dispatch(n)
             \/ \E l \in Link : SetTimer(l)
             \/ \E l \in EventLink, up \in BOOLEAN : LinkEvent(l, up)
             \/ \E n, up, clear : NodeEvent(n, up, clear)
             \/ Tick
             \/ UNCHANGED vars
      PROVE  trace' = trace
  BY <1>3 DEF Dispatch, SetTimer, LinkEvent, NodeEvent, Tick, vars
<1> QED
  BY <1>1, <1>2, <1>3 DEF Next, Forwarder

LEMMA LinkTaskRecords ==
  ASSUME CustodyInv, NEW l \in Link, LinkTask(l), NEW id \in Changed
  PROVE  \E o \in Live(l) :
           /\ o.id = id /\ Changed = {id}
           /\ \/ trace'[id] = Recorded("DroppedBufferCleared", Source[l])
              \/ trace'[id] = InTransit(l) /\ \E extra \in Nat : Sending(l, o, extra)
<1>1. TypeOK /\ id \in Id /\ trace'[id] # trace[id]
  BY DEF CustodyInv, Changed
<1>2. PICK o \in Live(l) :
        /\ o.id \in Id /\ trace[o.id] = InNode(Source[l])
        /\ Clearing(l, o) \/ \E extra \in Nat : Sending(l, o, extra)
  BY <1>1, LinkTaskEffect
<1>3. CASE Clearing(l, o)
  <2>1. trace' = [trace EXCEPT ![o.id] = Recorded("DroppedBufferCleared", Source[l])]
    BY <1>3 DEF Clearing
  <2>2. o.id = id /\ trace'[id] = Recorded("DroppedBufferCleared", Source[l])
        /\ \A i \in Id \ {id} : trace'[i] = trace[i]
    BY <1>1, <1>2, <2>1 DEF TypeOK
  <2> QED
    BY <1>1, <2>2 DEF Changed
<1>4. ASSUME NEW extra \in Nat, Sending(l, o, extra)
      PROVE  o.id = id /\ trace'[id] = InTransit(l) /\ Changed = {id}
  <2>1. trace' = [trace EXCEPT ![o.id] = InTransit(l)]
    BY <1>4 DEF Sending
  <2>2. o.id = id /\ trace'[id] = InTransit(l) /\ \A i \in Id \ {id} : trace'[i] = trace[i]
    BY <1>1, <1>2, <2>1 DEF TypeOK
  <2> QED
    BY <1>1, <2>2 DEF Changed
<1> QED
  BY <1>2, <1>3, <1>4

LEMMA ArrivalFacts ==
  ASSUME CustodyInv, [Next]_vars, NEW id \in Changed, Arriving(trace[id], trace'[id])
  PROVE  \E n \in Node : Brought(id, n)
<1>1. trace'[id].step \in ArrivalNames
  BY StepNames DEF Arriving
<1>2. /\ trace'[id].step \notin {"Delivered", "LostInTransit", "DroppedBufferCleared", "InTransit"}
  BY <1>1 DEF ArrivalNames
<1>3. ASSUME NEW l \in Link, LinkTask(l) PROVE FALSE
  <2>1. trace'[id] = Recorded("DroppedBufferCleared", Source[l]) \/ trace'[id] = InTransit(l)
    BY <1>3, LinkTaskRecords
  <2> QED
    BY <1>2, <2>1, StepNames
<1> QED
  BY <1>2, <1>3, OthersRecord, HostSendBrings, DeliverNextBrings

\* A packet that is sent is one that its link was offered, after the last time
\* the buffer was cleared.
LEMMA SendFacts ==
  ASSUME CustodyInv, [Next]_vars, NEW id \in Changed, NEW k \in Link, trace'[id] = InTransit(k)
  PROVE  /\ Changed = {id}
         /\ \E o \in Live(k), extra \in Nat : o.id = id /\ Sending(k, o, extra)
<1>1. trace'[id].step = "InTransit" /\ trace'[id].at = k
  BY StepNames
<1>2. ASSUME NEW n \in Node, Brought(id, n) PROVE FALSE
  BY <1>1, <1>2 DEF Brought, ArrivalNames
<1>3. ASSUME NEW l \in Link, LinkTask(l)
      PROVE  /\ Changed = {id}
             /\ \E o \in Live(k), extra \in Nat : o.id = id /\ Sending(k, o, extra)
  <2>1. PICK o \in Live(l) :
           /\ o.id = id /\ Changed = {id}
           /\ \/ trace'[id] = Recorded("DroppedBufferCleared", Source[l])
              \/ trace'[id] = InTransit(l) /\ \E extra \in Nat : Sending(l, o, extra)
    BY <1>3, LinkTaskRecords
  <2>2. l = k /\ \E extra \in Nat : Sending(l, o, extra)
    BY <1>1, <2>1, StepNames
  <2> QED
    BY <2>1, <2>2
<1> QED
  BY <1>1, <1>2, <1>3, OthersRecord, HostSendBrings, DeliverNextBrings

-----------------------------------------------------------------------------
(* The instants that the verifier notes.                                    *)

\* The link of an event, in the network and in the replay.
LinkMark(l) ==
  \/ /\ replay'.lastDown[l] = replay.lastDown[l] /\ lastDown'[l] = lastDown[l]
     /\ linkUp[l] => linkUp'[l]
  \/ /\ replay'.lastDown[l] = now
     /\ IF linkUp[l] THEN lastDown'[l] = now ELSE lastDown'[l] = lastDown[l]

Marks ==
  /\ replay.lastDown \in [Link -> Int] /\ \A l \in Link : replay.lastDown[l] <= now
  /\ replay.lastClear = lastClear

LEMMA LinkEventMarks ==
  ASSUME TypeOK, Replaying(replay), Marks, NEW k \in Link, NEW up \in BOOLEAN, LinkObserved(k, up)
  PROVE  /\ replay'.lastDown \in [Link -> Int] /\ replay'.lastClear = lastClear'
         /\ \A l \in Link : LinkMark(l)
<1>1. PICK s : s = [kind |-> "LinkEvent", link |-> k, up |-> up]
  OBVIOUS
<1>2. s.kind = "LinkEvent" /\ s.link = k /\ s.up = up
  BY <1>1
<1>3. PICK visited \in V!Walks(replay) :
        replay' = V!VerifyStep(V!MeasureBuffers(replay, now, visited), s, now)
  BY <1>1 DEF LinkObserved, ReplayEvent
<1>4. PICK v, w : v = V!MeasureBuffers(replay, now, visited) /\ w = V!VerifyStep(v, s, now) /\ w = replay'
  BY <1>3
<1>5. Only(replay, v, {"maxUsage", "errors", "time"}) /\ Replaying(v)
  BY <1>4, MeasureEffect
<1>6. v.lastDown = replay.lastDown /\ v.lastClear = replay.lastClear
  BY <1>5 DEF Only, Fields
<1>7. Only(v, w, {"linkUp", "lastDown"}) /\ w.lastDown = Since(v.lastDown, k, s.up, now)
  <2>1. s.kind = "LinkEvent" /\ s.link = k
    BY <1>2
  <2>2. w = V!VerifyStep(v, s, now)
    BY <1>4
  <2>3. Replaying(v)
    BY <1>5
  <2> QED
    BY <2>1, <2>2, <2>3, LinkEventEffect
<1>8. w.lastClear = v.lastClear /\ w.lastDown = [replay.lastDown EXCEPT ![k] = IF up THEN @ ELSE now]
  BY <1>2, <1>6, <1>7 DEF Only, Fields, Since
<1>9. /\ linkUp' = [linkUp EXCEPT ![k] = up] /\ lastClear' = lastClear
      /\ lastDown' = IF linkUp[k] /\ ~up THEN [lastDown EXCEPT ![k] = now] ELSE lastDown
  BY DEF LinkObserved, LinkEvent, nodeVars
<1>10. now \in Int
  BY DEF TypeOK
<1>11. w.lastDown \in [Link -> Int] /\ w.lastClear = lastClear'
  BY <1>6, <1>8, <1>9, <1>10 DEF Marks
<1>12. ASSUME NEW l \in Link PROVE LinkMark(l)
  <2>1. CASE l # k
    BY <1>4, <1>8, <1>9, <2>1 DEF LinkMark, Marks, TypeOK
  <2>2. CASE l = k /\ up
    BY <1>4, <1>8, <1>9, <2>2 DEF LinkMark, Marks, TypeOK
  <2>3. CASE l = k /\ ~up
    BY <1>4, <1>8, <1>9, <2>3 DEF LinkMark, Marks, TypeOK
  <2> QED
    BY <2>1, <2>2, <2>3
<1> QED
  BY <1>4, <1>11, <1>12

LEMMA NodeEventMarks ==
  ASSUME TypeOK, Replaying(replay), Marks, NEW n \in Node, NEW up \in BOOLEAN, NEW clear \in BOOLEAN,
         NodeObserved(n, up, clear)
  PROVE  replay'.lastDown = replay.lastDown /\ replay'.lastClear = lastClear'
<1>1. PICK s : s = [kind |-> "NodeEvent", node |-> n, up |-> up, clear |-> clear]
  OBVIOUS
<1>2. s.kind = "NodeEvent" /\ s.node = n /\ s.clear = clear
  BY <1>1
<1>3. PICK visited \in V!Walks(replay) :
        replay' = V!VerifyStep(V!MeasureBuffers(replay, now, visited), s, now)
  BY <1>1 DEF NodeObserved, ReplayEvent
<1>4. PICK v, w : v = V!MeasureBuffers(replay, now, visited) /\ w = V!VerifyStep(v, s, now) /\ w = replay'
  BY <1>3
<1>5. Only(replay, v, {"maxUsage", "errors", "time"}) /\ Replaying(v)
  BY <1>4, MeasureEffect
<1>6. v.lastDown = replay.lastDown /\ v.lastClear = replay.lastClear
  BY <1>5 DEF Only, Fields
<1>7. Only(v, w, {"nodeUp", "lastClear"}) /\ w.lastClear = Since(v.lastClear, n, ~s.clear, now)
  <2>1. s.kind = "NodeEvent" /\ s.node = n
    BY <1>2
  <2>2. w = V!VerifyStep(v, s, now)
    BY <1>4
  <2>3. Replaying(v)
    BY <1>5
  <2> QED
    BY <2>1, <2>2, <2>3, NodeEventEffect
<1>8. w.lastDown = v.lastDown /\ w.lastClear = [lastClear EXCEPT ![n] = IF ~clear THEN @ ELSE now]
  BY <1>2, <1>6, <1>7 DEF Only, Fields, Since, Marks
<1>9. lastClear' = IF clear THEN [lastClear EXCEPT ![n] = now] ELSE lastClear
  BY DEF NodeObserved, NodeEvent
<1>10. w.lastClear = lastClear'
  <2>1. CASE clear
    BY <1>8, <1>9, <2>1
  <2>2. CASE ~clear
    BY <1>8, <1>9, <2>2 DEF TypeOK
  <2> QED
    BY <2>1, <2>2
<1> QED
  BY <1>4, <1>6, <1>8, <1>10

\* The same of every step.
LEMMA StepMarks ==
  ASSUME ReplayInv, FateInv, Marks, CustodyInv', Records, [VerifiedNext]_<<vars, replay>>
  PROVE  Marks' /\ \A l \in Link : LinkMark(l)
<1>1. /\ TypeOK /\ Replaying(replay) /\ [Next]_vars /\ now \in Nat
      /\ \/ Observed
         \/ \E l \in Link, up \in BOOLEAN : LinkObserved(l, up)
         \/ \E n \in Node, up, clear \in BOOLEAN : NodeObserved(n, up, clear)
  BY VerifiedCases DEF ReplayInv, CustodyInv, Faithful, TypeOK
<1>2. now' >= now /\ now' \in Nat
  BY <1>1, PastInstants DEF CustodyInv, TypeOK
<1>3. ASSUME replay'.lastDown = replay.lastDown, UNCHANGED <<lastDown, linkUp>>, NEW l \in Link
      PROVE  LinkMark(l)
  BY <1>3 DEF LinkMark
<1>4. /\ replay'.lastDown \in [Link -> Int] /\ replay'.lastClear = lastClear'
      /\ \A l \in Link : LinkMark(l)
  <2>1. CASE Observed
    <3>1. /\ replay'.lastDown = replay.lastDown /\ replay'.lastClear = replay.lastClear
          /\ UNCHANGED <<lastDown, linkUp, lastClear>>
      BY <2>1, ObservedCarries DEF Observed
    <3> QED
      BY <1>3, <3>1 DEF Marks
  <2>2. CASE \E l \in Link, up \in BOOLEAN : LinkObserved(l, up)
    BY <1>1, <2>2, LinkEventMarks
  <2>3. ASSUME NEW n \in Node, NEW up \in BOOLEAN, NEW clear \in BOOLEAN, NodeObserved(n, up, clear)
        PROVE  /\ replay'.lastDown \in [Link -> Int] /\ replay'.lastClear = lastClear'
               /\ \A l \in Link : LinkMark(l)
    <3>1. replay'.lastDown = replay.lastDown /\ replay'.lastClear = lastClear'
      BY <1>1, <2>3, NodeEventMarks
    <3>2. UNCHANGED <<lastDown, linkUp>>
      BY <2>3 DEF NodeObserved, NodeEvent, linkVars
    <3> QED
      BY <1>3, <3>1, <3>2 DEF Marks
  <2> QED
    BY <1>1, <2>1, <2>2, <2>3
<1>5. \A l \in Link : replay'.lastDown[l] <= now'
  <2>1. \A l \in Link : replay'.lastDown[l] \in {replay.lastDown[l], now}
    BY <1>4 DEF LinkMark
  <2>2. \A l \in Link : replay.lastDown[l] \in Int /\ replay.lastDown[l] <= now
    BY DEF Marks
  <2> QED
    BY <1>1, <1>2, <2>1, <2>2
<1> QED
  BY <1>4, <1>5 DEF Marks

\* A packet on a link has its delay ahead of it.  If the link has not been down
\* since it was sent, it is up, and in the replay it has not been down either,
\* unless that was at that very instant.
FlightTimes ==
  \A l \in Link : \A y \in inTransit[l] :
    /\ y.sent <= now /\ y.sent + Delay[l] <= y.arrival
    /\ lastDown[l] < y.sent => linkUp[l] /\ replay.lastDown[l] <= y.sent

LEMMA NextFlightTimes ==
  ASSUME ReplayInv, FateInv, Marks, FlightTimes, [VerifiedNext]_<<vars, replay>>
  PROVE  Marks' /\ FlightTimes'
<1>1. [Next]_vars /\ CustodyInv /\ TypeOK
  BY VerifiedCases DEF ReplayInv, CustodyInv
<1>2. CustodyInv' /\ Records
  BY <1>1, NextCustody, NextRecords DEF ReplayInv
<1>3. Marks' /\ \A l \in Link : LinkMark(l)
  BY <1>2, StepMarks
<1>4. now \in Nat /\ now' \in Nat /\ now' >= now
  BY <1>1, <1>2, PastInstants DEF CustodyInv, TypeOK
<1>5. ASSUME NEW l \in Link, NEW y \in inTransit'[l]
      PROVE  /\ y.sent <= now' /\ y.sent + Delay[l] <= y.arrival
             /\ lastDown'[l] < y.sent => linkUp'[l] /\ replay'.lastDown[l] <= y.sent
  <2>1. y.sent \in Nat /\ y.arrival \in Nat /\ Delay[l] \in Nat
    <3>1. TypeOK'
      BY <1>2 DEF CustodyInv
    <3>2. y.sent \in Nat /\ y.arrival \in Nat
      BY <3>1 DEF TypeOK, Transit
    <3> QED
      BY <3>2, ParameterAssumption
  <2>2. CASE y \notin inTransit[l]
    <3>1. y.sent = now /\ y.arrival >= now + Delay[l] /\ linkUp[l] /\ UNCHANGED <<now, linkUp>>
      BY <1>1, <2>2, NewFlights
    <3>2. replay'.lastDown[l] <= now'
      BY <1>3 DEF Marks
    <3> QED
      BY <1>4, <2>1, <3>1, <3>2
  <2>3. CASE y \in inTransit[l]
    <3>1. /\ y.sent <= now /\ y.sent + Delay[l] <= y.arrival
          /\ lastDown[l] < y.sent => linkUp[l] /\ replay.lastDown[l] <= y.sent
      BY <2>3 DEF FlightTimes
    <3>2. y.sent <= now'
      BY <1>4, <2>1, <3>1
    <3>3. ASSUME lastDown'[l] < y.sent
          PROVE  linkUp'[l] /\ replay'.lastDown[l] <= y.sent
      <4>1. lastDown'[l] # now
        BY <1>4, <2>1, <3>1, <3>3
      <4> QED
        BY <1>3, <3>1, <3>3, <4>1 DEF LinkMark
    <3> QED
      BY <3>1, <3>2, <3>3
  <2> QED
    BY <2>2, <2>3
<1> QED
  BY <1>3, <1>5 DEF FlightTimes

-----------------------------------------------------------------------------
(* Since when packets are in their node, in the buffer and in the replay.   *)

\* The copies of a packet say that it came at an instant.
CameAt(id, n, t) ==
  /\ \A i \in Positions(n) : QueuedId(n, i) = id => outbound[n][i].since = t
  /\ \A l \in Link : \A o \in Live(l) : o.id = id => o.since = t

SinceTie ==
  \A n \in Node : \A p \in replay.packets[n] : trace[p.id] = InNode(n) => CameAt(p.id, n, p.since)

\* Buffers only grow at their end, by packets that come now.
LEMMA ArrivalEntries ==
  ASSUME TypeOK, NEW n \in Node, NEW j, NEW fresh, NEW task, Arrives(n, j, fresh, task),
         NEW m \in Node, NEW i \in DOMAIN outbound'[m]
  PROVE  \/ i \in DOMAIN outbound[m] /\ outbound'[m][i] = outbound[m][i]
         \/ outbound'[m][i].since = now
<1>1. outbound[m] \in Seq(Buffered) /\ DOMAIN outbound = Node
  BY DEF TypeOK
<1>2. CASE outbound' = outbound
  BY <1>2
<1>3. ASSUME NEW a, outbound' = [outbound EXCEPT ![n] = Append(@, Entry(a))]
      PROVE  \/ i \in DOMAIN outbound[m] /\ outbound'[m][i] = outbound[m][i]
             \/ outbound'[m][i].since = now
  <2>1. CASE m # n
    BY <1>1, <1>3, <2>1
  <2>2. CASE m = n
    <3>1. outbound'[m] = Append(outbound[m], Entry(a))
      BY <1>1, <1>3, <2>2
    <3>2. i \in 1..Len(outbound[m]) + 1
      BY <1>1, <3>1
    <3>3. Entry(a).since = now
      BY DEF Entry
    <3> QED
      BY <1>1, <3>1, <3>2, <3>3
  <2> QED
    BY <2>1, <2>2
<1>4. ASSUME NEW a, NEW b, outbound' = [outbound EXCEPT ![n] = Append(Append(@, Entry(a)), Entry(b))]
      PROVE  \/ i \in DOMAIN outbound[m] /\ outbound'[m][i] = outbound[m][i]
             \/ outbound'[m][i].since = now
  <2>1. CASE m # n
    BY <1>1, <1>4, <2>1
  <2>2. CASE m = n
    <3>0. PICK e, g, q : e = Entry(a) /\ g = Entry(b) /\ q = outbound[m]
      OBVIOUS
    <3>1. outbound'[m] = Append(Append(q, e), g) /\ q \in Seq(Buffered)
      BY <1>1, <1>4, <2>2, <3>0
    <3>2. i \in 1..Len(q) + 2
      BY <3>1
    <3>3. e.since = now /\ g.since = now
      BY <3>0 DEF Entry
    <3>4. \/ i \in DOMAIN q /\ outbound'[m][i] = q[i]
          \/ outbound'[m][i] = e \/ outbound'[m][i] = g
      BY <3>1, <3>2
    <3> QED
      BY <3>0, <3>3, <3>4
  <2> QED
    BY <2>1, <2>2
<1> QED
  BY <1>2, <1>3, <1>4 DEF Arrives, Gone, Readable, Kept, Stranded, NoneKept, OneKept, BothKept

LEMMA ArrivalSince ==
  ASSUME TypeOK, LinksIdle, NEW n \in Node, NEW j, NEW fresh, NEW task, Arrives(n, j, fresh, task),
         \A l \in Link : <<"link", l>> # task, NEW id, NotQueued(id), NotOffered(id), NEW m \in Node
  PROVE  /\ \A i \in Positions(m)' : QueuedId(m, i)' = id => outbound'[m][i].since = now
         /\ \A l \in Link : \A o \in Live(l)' : o.id # id
<1>1. dead' = dead \/ dead' = dead \cup {task}
  BY DEF Arrives, Gone, Readable, Kept, Stranded, NoneKept, OneKept, BothKept
<1>2. \A l \in Link : Live(l)' = Live(l)
  BY <1>1, LiveFrame DEF LinksIdle
<1>3. ASSUME NEW i \in Positions(m)', QueuedId(m, i)' = id
      PROVE  outbound'[m][i].since = now
  <2>1. <<"processor", m>> \notin dead /\ i \in DOMAIN outbound'[m] /\ outbound'[m][i].id = id
    BY <1>1, <1>3 DEF Positions, QueuedId
  <2>2. ~(i \in DOMAIN outbound[m] /\ outbound'[m][i] = outbound[m][i])
    BY <2>1 DEF NotQueued, Positions, QueuedId
  <2> QED
    BY <2>1, <2>2, ArrivalEntries
<1> QED
  BY <1>2, <1>3 DEF NotOffered

\* A packet that comes into a node has no copies but the one that it comes in.
LEMMA ArrivesNow ==
  ASSUME CustodyInv, [Next]_vars, NEW id \in Changed, Arriving(trace[id], trace'[id]), NEW m \in Node
  PROVE  CameAt(id, m, now)' /\ now' = now
<1>1. TypeOK /\ id \in Id /\ OneCustodian(id)
  BY DEF CustodyInv, Changed
<1>2. trace'[id].step \in ArrivalNames
  BY StepNames DEF Arriving
<1>3. trace'[id].step \notin {"Delivered", "LostInTransit", "DroppedBufferCleared", "InTransit"}
  BY <1>2 DEF ArrivalNames
<1>4. NotQueued(id) /\ NotOffered(id)
  <2>1. \A k \in Node : trace[id] # InNode(k)
    BY StepNames DEF Arriving
  <2> QED
    BY <1>1, <2>1 DEF OneCustodian, SentOnly, NotStored
<1>5. ASSUME LinksIdle, NEW n \in Node, NEW j, NEW fresh, NEW task, Arrives(n, j, fresh, task),
             \A l \in Link : <<"link", l>> # task, now' = now
      PROVE  CameAt(id, m, now)' /\ now' = now
  <2>1. /\ \A i \in Positions(m)' : QueuedId(m, i)' = id => outbound'[m][i].since = now
        /\ \A l \in Link : \A o \in Live(l)' : o.id # id
    BY <1>1, <1>4, <1>5, ArrivalSince
  <2> QED
    BY <1>5, <2>1 DEF CameAt
<1>6. ASSUME NEW f \in Flow, NEW size \in Size, NEW ecn \in HostEcn, HostSend(f, size, ecn)
      PROVE  CameAt(id, m, now)' /\ now' = now
  <2>1. LinksIdle /\ now' = now
    BY <1>6 DEF HostSend, LinksIdle, dispatchVars, taskVars, clockVars
  <2>2. PICK n \in Node, j \in Id :
          \E fresh, task : Arrives(n, j, fresh, task) /\ \A l \in Link : <<"link", l>> # task
    BY <1>6, HostSendArrives
  <2> QED
    BY <1>5, <2>1, <2>2
<1>7. ASSUME NEW l \in Link, DeliverNext(l)
      PROVE  CameAt(id, m, now)' /\ now' = now
  <2>1. LinksIdle /\ now' = now /\ Target[l] \in Node
    BY <1>7, TopologyAssumption DEF DeliverNext, LinksIdle, dispatchVars, taskVars, clockVars
  <2>2. PICK x \in inTransit[l] :
          \/ trace' = [trace EXCEPT ![x.id] = Recorded("LostInTransit", l)]
          \/ \E fresh, task : Arrives(Target[l], x.id, fresh, task) /\ \A k \in Link : <<"link", k>> # task
    BY <1>7, DeliverNextArrives
  <2>3. CASE trace' = [trace EXCEPT ![x.id] = Recorded("LostInTransit", l)]
    <3>1. trace'[id] = Recorded("LostInTransit", l)
      BY <1>1, <2>3 DEF Changed, TypeOK
    <3> QED
      BY <1>3, <3>1, StepNames
  <2> QED
    BY <1>5, <2>1, <2>2, <2>3
<1>8. ASSUME NEW l \in Link, LinkTask(l) PROVE FALSE
  <2>1. trace'[id] = Recorded("DroppedBufferCleared", Source[l]) \/ trace'[id] = InTransit(l)
    BY <1>8, LinkTaskRecords
  <2> QED
    BY <1>3, <2>1, StepNames
<1> QED
  BY <1>6, <1>7, <1>3, <1>8, OthersRecord

LEMMA NextSinceTie ==
  ASSUME ReplayInv, SinceTie, Records, [Next]_vars,
         \A n \in Node : \A p \in replay'.packets[n] :
           p.id \in Id /\ (p \in replay.packets[n] \/ (p.id \in Changed /\ p.since = now))
  PROVE  SinceTie'
<1>1. CustodyInv /\ MirrorNodes(replay.packets, trace, data)
  BY DEF ReplayInv, Faithful
<1>2. ASSUME NEW n \in Node, NEW p \in replay'.packets[n], trace'[p.id] = InNode(n)
      PROVE  CameAt(p.id, n, p.since)'
  <2>1. p.id \in Id /\ (p \in replay.packets[n] \/ (p.id \in Changed /\ p.since = now))
    BY <1>2
  <2>2. CASE p.id \notin Changed
    <3>1. p \in replay.packets[n] /\ trace[p.id] = InNode(n) /\ trace'[p.id] = trace[p.id]
      BY <1>2, <2>1, <2>2 DEF Changed
    <3>2. OnlyMoves(p.id, n)
      BY <1>1, <2>1, <3>1, StoredStays
    <3>3. CameAt(p.id, n, p.since)
      BY <3>1 DEF SinceTie
    <3> QED
      BY <3>2, <3>3 DEF OnlyMoves, CameAt
  <2>3. CASE p.id \in Changed
    <3>1. Arriving(trace[p.id], trace'[p.id])
      <4>1. Moves(trace[p.id], trace'[p.id])
        BY <2>3 DEF Records
      <4>2. trace'[p.id].step = "InNode"
        BY <1>2, StepNames
      <4> QED
        BY <4>1, <4>2, StepNames DEF Moves, Departing, Losing
    <3>2. p \notin replay.packets[n]
      <4>1. trace[p.id].step \in {"None", "InTransit"}
        BY <3>1, StepNames DEF Arriving
      <4> QED
        BY <1>1, <4>1, StepNames DEF MirrorNodes, Ghost
    <3>3. CameAt(p.id, n, now)' /\ now' = now
      BY <1>1, <2>3, <3>1, ArrivesNow
    <3>4. p.since = now
      BY <2>1, <3>2
    <3> QED
      BY <3>3, <3>4 DEF CameAt
  <2> QED
    BY <2>2, <2>3
<1> QED
  BY <1>2 DEF SinceTie

-----------------------------------------------------------------------------
(* Bytes, counted one by one.                                               *)

ByteSet(S) == UNION {{p} \X (1..p.size) : p \in S}

LEMMA InByteSet ==
  ASSUME NEW S, NEW x
  PROVE  x \in ByteSet(S) <=> \E p \in S : \E k \in 1..p.size : x = <<p, k>>
BY DEF ByteSet

LEMMA BytesType ==
  ASSUME NEW S, IsFiniteSet(S), \A p \in S : p.size \in Nat
  PROVE  IsFiniteSet(ByteSet(S)) /\ V!Bytes(S) = Cardinality(ByteSet(S)) /\ V!Bytes(S) \in Nat
<1>1. PICK f : f = [p \in S |-> p.size]
  OBVIOUS
<1>2. f \in [S -> Nat]
  BY <1>1
<1>3. Pairs(S, f) = ByteSet(S)
  BY <1>1 DEF Pairs, ByteSet
<1>4. IsFiniteSet(Pairs(S, f)) /\ Cardinality(Pairs(S, f)) \in Nat
  BY <1>2, PairsFinite
<1>5. V!Bytes(S) = Cardinality(ByteSet(S))
  BY Zenon DEF V!Bytes, ByteSet, V!Cardinality, Cardinality
<1> QED
  BY <1>3, <1>4, <1>5

LEMMA BytesAdd ==
  ASSUME NEW S, IsFiniteSet(S), \A p \in S : p.size \in Nat, NEW q, q.size \in Nat,
         NEW T, T \subseteq S \cup {q}
  PROVE  V!Bytes(T) <= V!Bytes(S) + q.size
<1>1. IsFiniteSet({q}) /\ IsFiniteSet(1..q.size) /\ Cardinality({q}) = 1 /\ Cardinality(1..q.size) = q.size
  <2>1. IsFiniteSet({q}) /\ Cardinality({q}) = 1
    BY FS_Singleton
  <2>2. PICK k \in Nat : k = q.size
    OBVIOUS
  <2>3. IsFiniteSet(1..k) /\ Cardinality(1..k) = IF 1 > k THEN 0 ELSE k - 1 + 1
    BY FS_Interval
  <2>4. Cardinality(1..k) = k
    BY <2>3
  <2> QED
    BY <2>1, <2>2, <2>3, <2>4
<1>2. IsFiniteSet({q} \X (1..q.size)) /\ Cardinality({q} \X (1..q.size)) = q.size
  <2>1. /\ IsFiniteSet({q} \X (1..q.size))
        /\ Cardinality({q} \X (1..q.size)) = Cardinality({q}) * Cardinality(1..q.size)
    BY <1>1, FS_Product
  <2> QED
    BY <1>1, <2>1
<1>3. IsFiniteSet(ByteSet(S)) /\ V!Bytes(S) = Cardinality(ByteSet(S)) /\ V!Bytes(S) \in Nat
  BY BytesType
<1>4. PICK Q : Q = {q} \X (1..q.size)
  OBVIOUS
<1>5. /\ IsFiniteSet(ByteSet(S) \cup Q)
      /\ Cardinality(ByteSet(S) \cup Q) = Cardinality(ByteSet(S)) + Cardinality(Q) - Cardinality(ByteSet(S) \cap Q)
  BY <1>2, <1>3, <1>4, FS_Union
<1>6. Cardinality(ByteSet(S) \cap Q) \in Nat
  <2>1. IsFiniteSet(ByteSet(S) \cap Q)
    BY <1>3, FS_Intersection
  <2> QED
    BY <2>1, FS_CardinalityType
<1>7. ByteSet(T) \subseteq ByteSet(S) \cup Q
  BY <1>4 DEF ByteSet
<1>8. Cardinality(ByteSet(T)) <= Cardinality(ByteSet(S) \cup Q)
  BY <1>5, <1>7, FS_Subset
<1>9. V!Bytes(T) = Cardinality(ByteSet(T)) /\ V!Bytes(T) \in Nat
  <2>1. IsFiniteSet(S \cup {q})
    BY FS_AddElement
  <2>2. IsFiniteSet(T) /\ \A p \in T : p.size \in Nat
    BY <2>1, FS_Subset
  <2> QED
    BY <2>2, BytesType
<1> QED
  BY <1>2, <1>3, <1>4, <1>5, <1>6, <1>8, <1>9

LEMMA NoBytes == V!Bytes({}) = 0
<1>1. ByteSet({}) = {}
  BY DEF ByteSet
<1>2. IsFiniteSet({}) /\ Cardinality({}) = 0 /\ \A p \in {} : p.size \in Nat
  BY FS_EmptySet
<1> QED
  BY <1>1, <1>2, BytesType

-----------------------------------------------------------------------------
(* The bandwidth window of a link.                                          *)

\* The sends from instant a on, and the time the pacer gives them.
Late(S, a) == {x \in S : x.at >= a}
Room(done, a) == IF done < a THEN 0 ELSE done - a

\* The sends S are as far apart as the pacer, which is busy until `done', allows.
WellPaced(S, B, t, done) ==
  /\ IsFiniteSet(S) /\ \A x \in S : x.at \in Nat /\ x.size \in Nat /\ x.at <= t
  /\ \A a \in Nat : V!Bytes(Late(S, a)) <= B * Room(done, a)

\* The time that PacketPacer::track_send computes is enough for the packet.
LEMMA RoundedUp ==
  ASSUME NEW size \in Nat, NEW B \in Nat \ {0}
  PROVE  /\ (size + B - 1) \div B \in Nat
         /\ size <= B * ((size + B - 1) \div B)
<1>1. PICK a \in Nat : a = size + B - 1
  OBVIOUS
<1>2. a = B * (a \div B) + (a % B) /\ a % B < B /\ a \div B \in Int /\ a % B \in Nat
  OBVIOUS
<1>3. PICK q \in Int, r \in Nat : q = a \div B /\ r = a % B /\ a = B * q + r /\ r < B
  BY <1>2
<1>4. q >= 0
  <2>1. SUFFICES ASSUME q <= -1 PROVE FALSE
    OBVIOUS
  <2>2. B * q <= -B
    BY <2>1
  <2> QED
    BY <1>3, <2>2
<1> QED
  BY <1>1, <1>3, <1>4

LEMMA Monotone ==
  ASSUME NEW B \in Nat, NEW i \in Nat, NEW j \in Nat, i <= j
  PROVE  B * i <= B * j
OBVIOUS

LEMMA RoomType ==
  ASSUME NEW done \in Nat, NEW a \in Nat
  PROVE  Room(done, a) \in Nat
BY DEF Room

LEMMA PacedSend ==
  ASSUME NEW S, NEW B \in Nat \ {0}, NEW t \in Nat, NEW done \in Nat, done <= t,
         WellPaced(S, B, t, done), NEW p, p.at = t, p.size \in Nat,
         NEW T, T \subseteq S \cup {p}, NEW done2, done2 = t + ((p.size + B - 1) \div B)
  PROVE  WellPaced(T, B, t, done2)
<1>1. PICK k \in Nat, size \in Nat : k = (p.size + B - 1) \div B /\ size = p.size /\ size <= B * k
  <2>1. PICK size \in Nat : size = p.size
    OBVIOUS
  <2> QED
    BY <2>1, RoundedUp
<1>2. IsFiniteSet(T) /\ \A x \in T : x.at \in Nat /\ x.size \in Nat /\ x.at <= t
  <2>1. IsFiniteSet(S \cup {p})
    BY FS_AddElement DEF WellPaced
  <2>2. IsFiniteSet(T)
    BY <2>1, FS_Subset
  <2> QED
    BY <2>2 DEF WellPaced
<1>3. ASSUME NEW a \in Nat PROVE V!Bytes(Late(T, a)) <= B * Room(done2, a)
  <2>1. done2 = t + k
    BY <1>1
  <2>2. CASE a <= t
    <3>1. PICK i \in Nat : i = Room(done, a)
      BY RoomType
    <3>2. PICK j \in Nat : j = t - a
      BY <2>2
    <3>3. i <= j
      BY <2>2, <3>1, <3>2 DEF Room
    <3>4. Room(done2, a) = j + k
      BY <2>1, <2>2, <3>2 DEF Room
    <3>5. PICK L : L = Late(S, a)
      OBVIOUS
    <3>6. IsFiniteSet(L) /\ \A x \in L : x.size \in Nat
      <4>1. L \subseteq S
        BY <3>5 DEF Late
      <4>2. IsFiniteSet(L)
        BY <4>1, FS_Subset DEF WellPaced
      <4> QED
        BY <4>1, <4>2 DEF WellPaced
    <3>7. PICK b \in Nat : b = V!Bytes(L) /\ b <= B * i
      BY <3>1, <3>5, <3>6, BytesType DEF WellPaced
    <3>8. PICK M : M = Late(T, a) /\ M \subseteq L \cup {p}
      BY <3>5 DEF Late
    <3>9. V!Bytes(M) <= V!Bytes(L) + p.size
      BY <3>6, <3>8, BytesAdd
    <3>10. V!Bytes(M) \in Nat
      <4>1. M \subseteq T
        BY <3>8 DEF Late
      <4>2. IsFiniteSet(M) /\ \A x \in M : x.size \in Nat
        BY <1>2, <4>1, FS_Subset
      <4> QED
        BY <4>2, BytesType
    <3>11. PICK c \in Nat : c = V!Bytes(M) /\ c <= b + size
      BY <1>1, <3>7, <3>9, <3>10
    <3>12. B * i <= B * j /\ B * (j + k) = B * j + B * k
      BY <3>3, Monotone
    <3>13. c <= B * (j + k)
      BY <1>1, <3>7, <3>11, <3>12
    <3> QED
      BY <3>4, <3>8, <3>11, <3>13
  <2>3. CASE t < a
    <3>1. Late(T, a) = {}
      BY <1>2, <2>3 DEF Late
    <3>2. PICK r \in Nat : r = Room(done2, a)
      BY <2>1 DEF Room
    <3>3. 0 <= B * r
      OBVIOUS
    <3> QED
      BY <3>1, <3>2, <3>3, NoBytes
  <2> QED
    BY <2>2, <2>3
<1> QED
  BY <1>2, <1>3 DEF WellPaced

\* No more bytes fit into a window that reaches the end of the last send.
LEMMA NotExceeded ==
  ASSUME NEW S, NEW B \in Nat \ {0}, NEW t \in Nat, NEW done \in Nat, WellPaced(S, B, t, done),
         \A x \in S : x.at + Window >= done
  PROVE  V!Bytes(S) <= B * Window
<1>1. Window \in Nat
  BY VerifierAssumption
<1>2. PICK a \in Nat : a = Room(done, Window)
  BY <1>1, RoomType
<1>3. Late(S, a) = S
  <2>1. ASSUME NEW x \in S PROVE x.at >= a
    BY <1>1, <1>2 DEF Room, WellPaced
  <2> QED
    BY <2>1 DEF Late
<1>4. PICK r \in Nat : r = Room(done, a) /\ r <= Window
  BY <1>1, <1>2 DEF Room
<1>5. V!Bytes(S) <= B * r
  BY <1>3, <1>4 DEF WellPaced
<1>6. V!Bytes(S) \in Nat
  BY BytesType DEF WellPaced
<1>7. B * r <= B * Window
  BY <1>1, <1>4, Monotone
<1> QED
  BY <1>1, <1>5, <1>6, <1>7

LEMMA PacedLater ==
  ASSUME NEW S, NEW B \in Nat \ {0}, NEW t \in Nat, NEW u \in Nat, t <= u,
         NEW done \in Nat, NEW later \in Nat, done <= later, WellPaced(S, B, t, done)
  PROVE  WellPaced(S, B, u, later)
<1>1. IsFiniteSet(S) /\ \A x \in S : x.at \in Nat /\ x.size \in Nat /\ x.at <= u
  BY DEF WellPaced
<1>2. ASSUME NEW a \in Nat PROVE V!Bytes(Late(S, a)) <= B * Room(later, a)
  <2>1. Late(S, a) \subseteq S
    BY DEF Late
  <2>2. IsFiniteSet(Late(S, a)) /\ \A x \in Late(S, a) : x.size \in Nat
    BY <1>1, <2>1, FS_Subset
  <2>3. PICK b \in Nat : b = V!Bytes(Late(S, a))
    BY <2>2, BytesType
  <2>4. PICK i \in Nat : i = Room(done, a)
    BY RoomType
  <2>5. PICK j \in Nat : j = Room(later, a)
    BY RoomType
  <2>6. i <= j
    BY <2>4, <2>5 DEF Room
  <2>7. B * i <= B * j
    BY <2>6, Monotone
  <2>8. b <= B * i
    BY <2>3, <2>4 DEF WellPaced
  <2>9. b <= B * j
    BY <2>7, <2>8
  <2> QED
    BY <2>3, <2>5, <2>9
<1> QED
  BY <1>1, <1>2 DEF WellPaced

AllPaced(sends, done, t) ==
  DOMAIN sends = Link /\ \A l \in Link : WellPaced(sends[l], Bandwidth[l], t, done[l])

Paced == AllPaced(replay.sends, sendDone, now)

\* What the link that sends a packet does to its pacer and to the verifier's window.
LEMMA SendKeepsPace ==
  ASSUME TypeOK, NEW v, AllPaced(v.sends, sendDone, now), NEW l \in Link, NEW o, NEW extra,
         NEW id \in Id, o.id = id, Sending(l, o, extra), NEW size, size = data[id].size,
         NEW sends, sends = [v.sends EXCEPT ![l] = V!WindowAt(v, l, now, id, size)]
  PROVE  AllPaced(sends, sendDone', now)
<1>1. now \in Nat /\ size \in Nat /\ Bandwidth[l] \in Nat \ {0} /\ sendDone[l] \in Nat /\ sendDone[l] <= now
  <2>1. size \in Nat
    BY ParameterAssumption DEF TypeOK, Data
  <2> QED
    BY <2>1, ParameterAssumption DEF TypeOK, Sending, CanSend
<1>2. PICK p : p = [id |-> id, at |-> now, size |-> size]
  OBVIOUS
<1>3. p.at = now /\ p.size = size
  BY <1>2
<1>4. PICK T : T = V!WindowAt(v, l, now, id, size) /\ T \subseteq v.sends[l] \cup {p}
  BY <1>2 DEF V!WindowAt
<1>5. DOMAIN v.sends = Link /\ DOMAIN sendDone = Link
  BY DEF AllPaced, TypeOK
<1>6. DOMAIN sends = Link /\ sends[l] = T /\ \A k \in Link \ {l} : sends[k] = v.sends[k]
  BY <1>4, <1>5
<1>7. /\ sendDone'[l] = now + ((size + Bandwidth[l] - 1) \div Bandwidth[l])
      /\ \A k \in Link \ {l} : sendDone'[k] = sendDone[k]
  BY <1>5 DEF Sending, SendDuration
<1>8. WellPaced(T, Bandwidth[l], now, sendDone'[l])
  <2>1. WellPaced(v.sends[l], Bandwidth[l], now, sendDone[l])
    BY DEF AllPaced
  <2>2. PICK B \in Nat \ {0}, done \in Nat : B = Bandwidth[l] /\ done = sendDone[l]
    BY <1>1
  <2>3. PICK done2 : done2 = sendDone'[l] /\ done2 = now + ((p.size + B - 1) \div B)
    BY <1>3, <1>7, <2>2
  <2>4. PICK S : S = v.sends[l]
    OBVIOUS
  <2>5. WellPaced(S, B, now, done) /\ done <= now
    BY <1>1, <2>1, <2>2, <2>4
  <2>6. T \subseteq S \cup {p} /\ p.at = now /\ p.size \in Nat /\ now \in Nat
    BY <1>1, <1>3, <1>4, <2>4
  <2>7. WellPaced(T, B, now, done2)
    BY <2>3, <2>5, <2>6, PacedSend
  <2> QED
    BY <2>2, <2>3, <2>7
<1> QED
  BY <1>6, <1>7, <1>8 DEF AllPaced

\* Only a link that sends keeps its pacer busy.
LEMMA PacerMoves ==
  ASSUME CustodyInv, [Next]_vars, sendDone' # sendDone
  PROVE  \E l \in Link, id \in Changed : trace'[id] = InTransit(l)
<1>1. TypeOK
  BY DEF CustodyInv
<1>2. PICK l \in Link : LinkTask(l)
  BY <1>1, OthersSendNothing
<1>3. PICK o \in Live(l) :
        /\ o.id \in Id /\ trace[o.id] = InNode(Source[l])
        /\ Clearing(l, o) \/ \E extra \in Nat : Sending(l, o, extra)
  BY <1>2, LinkTaskEffect
<1>4. trace' = [trace EXCEPT ![o.id] = InTransit(l)]
  BY <1>3 DEF Clearing, Sending
<1>5. trace'[o.id] = InTransit(l) /\ trace'[o.id] # trace[o.id]
  BY <1>1, <1>3, <1>4, LogSteps DEF TypeOK
<1> QED
  BY <1>3, <1>5 DEF Changed

LEMMA ReviewedSend ==
  ASSUME CustodyInv, [Next]_vars, NEW v, NEW w, Reviewed(v, w),
         NEW id \in Changed, NEW l \in Link, trace'[id] = InTransit(l)
  PROVE  Changed = {id} /\ Judged(v, w, id)
<1>1. Changed = {id}
  BY SendFacts
<1>2. PICK u : \E first, second \in Changed : Judged(v, u, first) /\ (w = u \/ first # second)
  BY DEF Reviewed
<1> QED
  BY <1>1, <1>2

LEMMA ReviewedRest ==
  ASSUME NEW v, NEW w, Reviewed(v, w), \A id \in Changed, l \in Link : trace'[id] # InTransit(l)
  PROVE  w.sends = v.sends
BY DEF Reviewed, Judged

LEMMA ObservedPaced ==
  ASSUME ReplayInv, Paced, CustodyInv', Records, [Next]_vars, Observed
  PROVE  AllPaced(replay'.sends, sendDone', now)
<1>1. CustodyInv /\ TypeOK /\ now \in Nat
  BY DEF ReplayInv, CustodyInv, TypeOK
<1>2. CASE Changed = {} /\ replay' = replay
  <2>1. sendDone' = sendDone
    BY <1>1, <1>2, PacerMoves
  <2> QED
    BY <1>2, <2>1 DEF Paced
<1>3. CASE \E visited \in V!Walks(replay) : \E v :
             v = V!MeasureBuffers(replay, now, visited) /\ Reviewed(v, replay')
  <2>1. PICK visited \in V!Walks(replay) : \E v :
          v = V!MeasureBuffers(replay, now, visited) /\ Reviewed(v, replay')
    BY <1>3
  <2>2. PICK v : v = V!MeasureBuffers(replay, now, visited) /\ Reviewed(v, replay')
    BY <2>1
  <2>3. PICK w : w = replay'
    OBVIOUS
  <2>4. Reviewed(v, w)
    BY <2>2, <2>3
  <2>5. v.sends = replay.sends
    <3>1. Replaying(replay)
      BY DEF ReplayInv, Faithful
    <3>2. Only(replay, v, {"maxUsage", "errors", "time"})
      BY <2>2, <3>1, MeasureEffect
    <3> QED
      BY <3>2 DEF Only, Fields
  <2>6. AllPaced(v.sends, sendDone, now)
    BY <2>5 DEF Paced
  <2>7. CASE \E id \in Changed, l \in Link : trace'[id] = InTransit(l)
    <3>1. PICK id \in Changed, l \in Link : trace'[id] = InTransit(l)
      BY <2>7
    <3>2. Changed = {id} /\ Judged(v, w, id)
      BY <1>1, <2>4, <3>1, ReviewedSend
    <3>3. PICK o \in Live(l), extra \in Nat : o.id = id /\ Sending(l, o, extra)
      BY <1>1, <3>1, SendFacts
    <3>4. id \in Id
      BY DEF Changed
    <3>5. CASE w.sends = v.sends
      <4>1. ASSUME NEW k \in Link PROVE WellPaced(v.sends[k], Bandwidth[k], now, sendDone'[k])
        <5>1. sendDone[k] \in Nat /\ sendDone'[k] \in Nat /\ Bandwidth[k] \in Nat \ {0}
          BY <1>1, ParameterAssumption DEF TypeOK, CustodyInv
        <5>2. sendDone[k] <= sendDone'[k]
          <6>1. sendDone'[l] = now + SendDuration(l, data[id].size) /\ sendDone[l] <= now
            BY <1>1, <3>3 DEF Sending, CanSend, TypeOK
          <6>2. SendDuration(l, data[id].size) \in Nat
            <7>1. data[id].size \in Nat /\ Bandwidth[l] \in Nat \ {0}
              BY <1>1, <3>4, ParameterAssumption DEF TypeOK, Data
            <7> QED
              BY <7>1, RoundedUp DEF SendDuration
          <6>3. k # l => sendDone'[k] = sendDone[k]
            BY <1>1, <3>3 DEF Sending, TypeOK
          <6> QED
            BY <1>1, <5>1, <6>1, <6>2, <6>3
        <5>3. WellPaced(v.sends[k], Bandwidth[k], now, sendDone[k])
          BY <2>6 DEF AllPaced
        <5> QED
          BY <1>1, <5>1, <5>2, <5>3, PacedLater
      <4> QED
        BY <2>3, <2>6, <3>5, <4>1 DEF AllPaced
    <3>6. CASE w.sends # v.sends
      <4>1. PICK k \in Link : trace'[id] = InTransit(k) /\ SentOff(v, w, id, Source[k], k)
        BY <3>2, <3>6 DEF Judged
      <4>2. k = l
        BY <3>1, <4>1 DEF InTransit, Recorded
      <4>3. w.sends = [v.sends EXCEPT ![l] = V!WindowAt(v, l, now, id, data'[id].size)]
        BY <4>1, <4>2 DEF SentOff
      <4>4. data'[id].size = data[id].size
        <5>1. trace[id] # NotBorn
          <6>1. trace[id] = InNode(Source[l])
            BY <3>2, <3>6, <3>1, LogSteps DEF Judged
          <6> QED
            BY <6>1, LogSteps
        <5>2. id < nextId
          BY <1>1, <3>4, <5>1 DEF CustodyInv, FreeIds, TypeOK, Id
        <5> QED
          BY <3>4, <5>2 DEF Records, SameData
      <4>5. PICK sends : sends = [v.sends EXCEPT ![l] = V!WindowAt(v, l, now, id, data[id].size)]
        OBVIOUS
      <4>6. w.sends = sends
        BY <4>3, <4>4, <4>5
      <4>7. AllPaced(sends, sendDone', now)
        BY <1>1, <2>6, <3>3, <3>4, <4>5, SendKeepsPace
      <4> QED
        BY <2>3, <4>6, <4>7
    <3> QED
      BY <3>5, <3>6
  <2>8. CASE \A id \in Changed, l \in Link : trace'[id] # InTransit(l)
    <3>1. w.sends = v.sends
      BY <2>4, <2>8, ReviewedRest
    <3>2. sendDone' = sendDone
      BY <1>1, <2>8, PacerMoves
    <3> QED
      BY <2>3, <2>6, <3>1, <3>2
  <2> QED
    BY <2>7, <2>8
<1> QED
  BY <1>1, <1>2, <1>3, ReplayFollows DEF ReplayInv, Observed

LEMMA NextPaced ==
  ASSUME ReplayInv, FateInv, Paced, [VerifiedNext]_<<vars, replay>>
  PROVE  Paced'
<1>1. [Next]_vars /\ CustodyInv /\ TypeOK
  BY VerifiedCases DEF ReplayInv, CustodyInv
<1>2. CustodyInv' /\ Records /\ TypeOK'
  BY <1>1, NextCustody, NextRecords DEF ReplayInv, CustodyInv
<1>3. AllPaced(replay'.sends, sendDone', now)
  <2>1. CASE Observed
    BY <1>1, <1>2, <2>1, ObservedPaced
  <2>2. CASE ~Observed
    <3>1. replay'.sends = replay.sends /\ sendDone' = sendDone
      BY <1>1, <2>2, VerifiedCases, EventEffect DEF ReplayInv
    <3> QED
      BY <3>1 DEF Paced
  <2> QED
    BY <2>1, <2>2
<1>4. now \in Nat /\ now' \in Nat /\ now <= now'
  <2>1. now' >= now
    BY <1>1, <1>2, PastInstants
  <2> QED
    BY <1>1, <1>2, <2>1 DEF TypeOK
<1>5. ASSUME NEW l \in Link PROVE WellPaced(replay'.sends[l], Bandwidth[l], now', sendDone'[l])
  <2>1. Bandwidth[l] \in Nat \ {0} /\ sendDone'[l] \in Nat
    BY <1>2, ParameterAssumption DEF TypeOK
  <2>2. PICK S, done : S = replay'.sends[l] /\ done = sendDone'[l] 
    OBVIOUS
  <2>3. done \in Nat /\ done <= done /\ WellPaced(S, Bandwidth[l], now, done)
    BY <1>3, <2>1, <2>2 DEF AllPaced
  <2>4. PICK t \in Nat : t = now' /\ now <= t
    BY <1>4
  <2>5. WellPaced(S, Bandwidth[l], t, done)
    BY <1>4, <2>1, <2>3, <2>4, PacedLater
  <2> QED
    BY <2>2, <2>4, <2>5
<1> QED
  BY <1>3, <1>5 DEF Paced, AllPaced

-----------------------------------------------------------------------------
(* The buffer usage that the verifier measures.                             *)

\* Packets with ids of their own take no more bytes than the ids stand for.
LEMMA BytesByIds ==
  ASSUME NEW S, IsFiniteSet(S), NEW d, NEW T, T \subseteq Id, \A id \in T : d[id].size \in Nat,
         \A p \in S : p.id \in T /\ p.size = d[p.id].size,
         \A p, q \in S : p.id = q.id => p = q
  PROVE  V!Bytes(S) \in Nat /\ SizeOf(T, d) \in Nat /\ V!Bytes(S) <= SizeOf(T, d)
<1>1. \A p \in S : p.size \in Nat
  OBVIOUS
<1>2. V!Bytes(S) = Cardinality(ByteSet(S)) /\ V!Bytes(S) \in Nat
  BY <1>1, BytesType
<1>3. IsFiniteSet(BytesIn(T, d)) /\ SizeOf(T, d) \in Nat
  BY SizeType
<1>4. PICK A, C : A = ByteSet(S) /\ C = BytesIn(T, d)
  OBVIOUS
<1>5. PICK f : f = [x \in A |-> <<x[1].id, x[2]>>]
  OBVIOUS
<1>6. ASSUME NEW x \in A
      PROVE  \E p \in S : \E k \in 1..p.size : x = <<p, k>> /\ f[x] = <<p.id, k>>
  <2>1. PICK p \in S : \E k \in 1..p.size : x = <<p, k>>
    BY <1>4, InByteSet
  <2>2. PICK k \in 1..p.size : x = <<p, k>>
    BY <2>1
  <2>3. f[x] = <<p.id, k>>
    BY <1>5, <2>2
  <2> QED
    BY <2>2, <2>3
<1>7. ASSUME NEW x \in A PROVE f[x] \in C
  <2>1. PICK p \in S : \E k \in 1..p.size : f[x] = <<p.id, k>>
    BY <1>6
  <2>2. p.id \in T /\ p.size = d[p.id].size
    OBVIOUS
  <2> QED
    BY <1>4, <2>1, <2>2 DEF BytesIn
<1>8. \A x, y \in A : f[x] = f[y] => x = y
  BY <1>6
<1>9. f \in [A -> C]
  BY <1>5, <1>7
<1>10. f \in Injection(A, C)
  BY <1>8, <1>9, Fun_IsInj
<1>11. Cardinality(A) <= Cardinality(C)
  BY <1>3, <1>4, <1>10, FS_Injection
<1> QED
  BY <1>2, <1>3, <1>4, <1>11 DEF SizeOf

\* What the verifier measures in a node without ghosts and unread packets fits
\* into the buffer.
LEMMA FitsBuffer ==
  ASSUME ReplayInv, BalanceInv, NEW n \in Node
  PROVE  /\ V!Usage(replay, n) \in Nat
         /\ Ghosts(n) = {} /\ inbound[n] = {} => V!Usage(replay, n) <= Capacity[n]
<1>1. TypeOK
  BY DEF ReplayInv, CustodyInv
<1>2. PICK S : S = replay.packets[n]
  OBVIOUS
<1>3. /\ S \subseteq [id: Id, size: Nat, since: Nat]
      /\ \A p \in S : p.size = data[p.id].size /\ (trace[p.id] = InNode(n) \/ Ghost(p.id, n, trace, data))
      /\ \A p, q \in S : p.id = q.id => p = q
      /\ IsFiniteSet(S)
  BY <1>2 DEF ReplayInv, Faithful, MirrorNodes, RoutersEven
<1>4. V!Usage(replay, n) = V!Bytes(S)
  BY <1>2 DEF V!Usage
<1>5. /\ \A id \in Id : data[id].size \in Nat
      /\ available[n] \in Nat /\ Capacity[n] \in Nat /\ Taken(n) \subseteq Id
  BY <1>1, SizesAreNat
<1>6. V!Bytes(S) \in Nat
  <2>1. \A p \in S : p.size \in Nat
    BY <1>3
  <2> QED
    BY <1>3, <2>1, BytesType
<1>7. ASSUME Ghosts(n) = {}, inbound[n] = {} PROVE V!Bytes(S) <= Capacity[n]
  <2>1. ASSUME NEW p \in S PROVE p.id \in Taken(n) /\ p.size = data[p.id].size
    <3>1. p.id \in Id /\ ~Ghost(p.id, n, trace, data)
      BY <1>3, <1>7 DEF Ghosts, Ghost
    <3> QED
      BY <1>3, <1>7, <3>1 DEF Taken
  <2>2. PICK T : T = Taken(n)
    OBVIOUS
  <2>3. /\ T \subseteq Id /\ \A id \in T : data[id].size \in Nat
        /\ \A p \in S : p.id \in T /\ p.size = data[p.id].size
    BY <1>5, <2>1, <2>2
  <2>4. SizeOf(T, data) \in Nat /\ V!Bytes(S) <= SizeOf(T, data)
    BY <1>3, <2>3, BytesByIds
  <2>5. available[n] + SizeOf(T, data) = Capacity[n]
    BY <2>2 DEF BalanceInv, Balanced
  <2> QED
    BY <1>5, <1>6, <2>4, <2>5
<1> QED
  BY <1>4, <1>6, <1>7

LEMMA MaxOfTwo ==
  ASSUME NEW a \in Nat, NEW b \in Nat
  PROVE  V!Max({a, b}) = IF a < b THEN b ELSE a
BY DEF V!Max

\* The head of the loop over the steps, at time t.
LEMMA MeasuredAt ==
  ASSUME NEW v, Replaying(v), NEW t, NEW visited, NEW w, w = V!MeasureBuffers(v, t, visited)
  PROVE  w.time = t
<1>1. CASE t = v.time
  BY <1>1 DEF V!MeasureBuffers
<1>2. CASE t # v.time
  <2>1. PICK m, e : V!UpdateMaxBufferUsage(v, visited) = [v EXCEPT !.maxUsage = m, !.errors = e]
    BY DEF V!UpdateMaxBufferUsage
  <2>2. w = [V!UpdateMaxBufferUsage(v, visited) EXCEPT !.time = t]
    BY <1>2 DEF V!MeasureBuffers, Replaying
  <2> QED
    BY <2>1, <2>2 DEF Replaying, Fields
<1> QED
  BY <1>1, <1>2

LEMMA MeasureAlarms ==
  ASSUME NEW v, Replaying(v), NEW t, NEW visited, NEW w, w = V!MeasureBuffers(v, t, visited),
         NEW e \in w.errors \ v.errors
  PROVE  t # v.time /\ \E n \in V!Exceeding(v) : e = V!Error("NodeExceedsBufferSize", n, 0)
<1>1. t # v.time
  BY DEF V!MeasureBuffers
<1>2. PICK m, alarms :
        /\ alarms = {V!Error("NodeExceedsBufferSize", n, 0) : n \in visited \cap V!Exceeding(v)}
        /\ V!UpdateMaxBufferUsage(v, visited) = [v EXCEPT !.maxUsage = m, !.errors = v.errors \cup alarms]
  BY DEF V!UpdateMaxBufferUsage
<1>3. w = [V!UpdateMaxBufferUsage(v, visited) EXCEPT !.time = t]
  BY <1>1 DEF V!MeasureBuffers, Replaying
<1>4. w.errors = v.errors \cup alarms
  BY <1>2, <1>3 DEF Replaying, Fields
<1> QED
  BY <1>1, <1>2, <1>4

LEMMA MeasureJudges ==
  ASSUME NEW v, Replaying(v), NEW t, NEW visited, NEW w, w = V!MeasureBuffers(v, t, visited)
  PROVE  /\ t = v.time => w.errors = v.errors /\ w.maxUsage = v.maxUsage
         /\ t # v.time =>
              /\ w.errors = v.errors \cup
                   {V!Error("NodeExceedsBufferSize", n, 0) : n \in visited \cap V!Exceeding(v)}
              /\ w.maxUsage = [n \in Node |-> IF n \in visited THEN V!PeakUsage(v, n) ELSE v.maxUsage[n]]
<1>1. CASE t = v.time
  BY <1>1 DEF V!MeasureBuffers
<1>2. CASE t # v.time
  <2>1. PICK m, e :
          /\ m = [n \in Node |-> IF n \in visited THEN V!PeakUsage(v, n) ELSE v.maxUsage[n]]
          /\ e = v.errors \cup {V!Error("NodeExceedsBufferSize", n, 0) : n \in visited \cap V!Exceeding(v)}
    OBVIOUS
  <2>2. V!UpdateMaxBufferUsage(v, visited) = [v EXCEPT !.maxUsage = m, !.errors = e]
    BY <2>1 DEF V!UpdateMaxBufferUsage
  <2>3. w = [V!UpdateMaxBufferUsage(v, visited) EXCEPT !.time = t]
    BY <1>2 DEF V!MeasureBuffers, Replaying
  <2>4. w.maxUsage = m /\ w.errors = e
    BY <2>2, <2>3 DEF Replaying, Fields
  <2> QED
    BY <1>2, <2>1, <2>4
<1> QED
  BY <1>1, <1>2

\* A packet only becomes readable in a step that is logged.
LEMMA InboundGrows ==
  ASSUME CustodyInv, [Next]_vars, NEW n \in Node, NEW x \in inbound'[n], x \notin inbound[n]
  PROVE  Changed # {}
<1>1. TypeOK
  BY DEF CustodyInv
<1>2. ASSUME NEW m, NEW id \in Id, NEW d, NEW fresh, NEW task, Forward(m, id, d, fresh, task),
             \A k : trace[id] # InNode(k)
      PROVE  Changed # {}
  <2>1. ArriveAtEndpoint(m, id, d, fresh)
    BY <1>2 DEF Forward, ArriveAtDownNode, DropRandomly, StorePacket, StoreDuplicated
  <2>2. trace' = [trace EXCEPT ![id] = InNode(m)]
    BY <2>1 DEF ArriveAtEndpoint, Track, InNode
  <2>3. trace'[id] = InNode(m)
    BY <1>1, <2>2 DEF TypeOK
  <2> QED
    BY <1>2, <2>3 DEF Changed
<1>3. ASSUME NEW f \in Flow, NEW size \in Size, NEW ecn \in HostEcn, HostSend(f, size, ecn)
      PROVE  Changed # {}
  <2>1. nextId \in Id /\ trace[nextId] = NotBorn
    BY <1>1, <1>3, ParameterAssumption DEF TypeOK, HostSend, Id, CustodyInv, FreeIds
  <2>2. \A k : trace[nextId] # InNode(k)
    BY <2>1, LogSteps
  <2>3. \E m, d, fresh, task : Forward(m, nextId, d, fresh, task)
    BY <1>3 DEF HostSend
  <2> QED
    BY <1>2, <2>1, <2>2, <2>3
<1>4. ASSUME NEW l \in Link, DeliverNext(l)
      PROVE  Changed # {}
  <2>1. PICK y \in Arrived(inTransit[l]) :
          \/ LoseInTransit(l, y)
          \/ \E m, d, fresh, task : Forward(m, y.id, d, fresh, task)
    BY <1>4 DEF DeliverNext
  <2>2. y \in inTransit[l] /\ y.id \in Id
    BY <1>1 DEF Arrived, TypeOK, Transit
  <2>3. trace[y.id] = InTransit(l)
    BY <2>2, WhenSent DEF CustodyInv
  <2>4. \A k : trace[y.id] # InNode(k)
    BY <2>3, LogSteps
  <2>5. CASE LoseInTransit(l, y)
    BY <2>5 DEF LoseInTransit
  <2> QED
    BY <1>2, <2>1, <2>2, <2>4, <2>5
<1>5. ASSUME NEW m \in Node, HostReceive(m) PROVE FALSE
  <2>1. PICK y \in inbound[m] : inbound' = [inbound EXCEPT ![m] = @ \ {y}]
    BY <1>5 DEF HostReceive
  <2> QED
    BY <1>1, <2>1 DEF TypeOK
<1>6. ASSUME NEW l \in Link, LinkTask(l) PROVE FALSE
  BY <1>6, LinkTaskEffect
<1>7. ASSUME \/ \E m \in Node : Dispatch(m)
             \/ \E l \in Link : SetTimer(l)
             \/ \E l \in EventLink, up \in BOOLEAN : LinkEvent(l, up)
             \/ \E m, up, clear : NodeEvent(m, up, clear)
             \/ Tick
             \/ UNCHANGED vars
      PROVE  FALSE
  BY <1>7 DEF Dispatch, SetTimer, LinkEvent, NodeEvent, Tick, vars
<1> QED
  BY <1>3, <1>4, <1>5, <1>6, <1>7 DEF Next, Forwarder

\* The clock moves in no step that is logged, and with the paused clock only
\* when nothing is left to read.
LEMMA ClockMoves ==
  ASSUME [Next]_vars, now' # now
  PROVE  /\ UNCHANGED <<trace, inbound>>
         /\ TimeWarp => \A n \in Node : inbound[n] = {}
<1>1. ASSUME NEW l \in Link, LinkTask(l) PROVE now' = now
  BY <1>1 DEF LinkTask, TakePacket, Discard, Resume, linkTaskFrame, clockVars
<1>2. ASSUME \/ \E f \in Flow, size \in Size, ecn \in HostEcn : HostSend(f, size, ecn)
             \/ \E m \in Node : Dispatch(m) \/ HostReceive(m)
             \/ \E l \in Link : SetTimer(l) \/ DeliverNext(l)
             \/ \E l \in EventLink, up \in BOOLEAN : LinkEvent(l, up)
             \/ \E m, up, clear : NodeEvent(m, up, clear)
             \/ UNCHANGED vars
      PROVE  now' = now
  BY <1>2 DEF HostSend, HostReceive, Dispatch, SetTimer, DeliverNext, LinkEvent, NodeEvent, vars, clockVars
<1>3. Tick
  BY <1>1, <1>2 DEF Next, Forwarder
<1> QED
  BY <1>3 DEF Tick, Busy

\* With the paused clock everything is read before the clock moves.
Measured == TimeWarp => replay.time = now \/ \A n \in Node : inbound[n] = {}

\* The peak that the verifier has measured in a node is a usage that fits into
\* its buffer, ghosts and unread packets aside.
Roomy ==
  /\ replay.maxUsage \in [Node -> Nat]
  /\ \A n \in Node : Ghosts(n) = {} /\ (TimeWarp \/ n \notin Host) => replay.maxUsage[n] <= Capacity[n]

LEMMA PeakFits ==
  ASSUME ReplayInv, BalanceInv, Measured, Roomy, NEW n \in Node
  PROVE  /\ V!PeakUsage(replay, n) \in Nat
         /\ replay.time # now /\ Ghosts(n) = {} /\ (TimeWarp \/ n \notin Host) =>
              V!PeakUsage(replay, n) <= Capacity[n]
<1>1. PICK a \in Nat : a = V!Usage(replay, n)
  BY FitsBuffer
<1>2. PICK b \in Nat : b = replay.maxUsage[n]
  BY DEF Roomy
<1>3. V!PeakUsage(replay, n) = IF a < b THEN b ELSE a
  BY <1>1, <1>2, MaxOfTwo DEF V!PeakUsage
<1>4. ASSUME replay.time # now, Ghosts(n) = {}, TimeWarp \/ n \notin Host
      PROVE  a <= Capacity[n] /\ b <= Capacity[n]
  <2>1. inbound[n] = {}
    BY <1>4 DEF Measured, ReplayInv, Endpoints
  <2>2. a <= Capacity[n]
    BY <1>1, <1>4, <2>1, FitsBuffer
  <2> QED
    BY <1>2, <1>4, <2>2 DEF Roomy
<1> QED
  BY <1>3, <1>4

\* How a step that is logged is measured.
LEMMA StepMeasures ==
  ASSUME ReplayInv, CustodyInv', Records, [VerifiedNext]_<<vars, replay>>
  PROVE  \/ Changed = {} /\ replay' = replay
         \/ /\ now' = now
            /\ \E visited \in V!Walks(replay) : \E v :
                 /\ v = V!MeasureBuffers(replay, now, visited)
                 /\ replay'.maxUsage = v.maxUsage /\ replay'.time = v.time
<1>1. [Next]_vars /\ CustodyInv /\ TypeOK
  BY VerifiedCases DEF ReplayInv, CustodyInv
<1>2. CASE Observed
  <2>1. SUFFICES ASSUME \E visited \in V!Walks(replay) : \E v :
                          v = V!MeasureBuffers(replay, now, visited) /\ Reviewed(v, replay')
                 PROVE  /\ now' = now
                        /\ \E visited \in V!Walks(replay) : \E v :
                             /\ v = V!MeasureBuffers(replay, now, visited)
                             /\ replay'.maxUsage = v.maxUsage /\ replay'.time = v.time
    BY <1>1, <1>2, ReplayFollows DEF ReplayInv, Observed
  <2>2. PICK visited \in V!Walks(replay) : \E v :
          v = V!MeasureBuffers(replay, now, visited) /\ Reviewed(v, replay')
    BY <2>1
  <2>3. PICK v : v = V!MeasureBuffers(replay, now, visited) /\ Reviewed(v, replay')
    BY <2>2
  <2>4. PICK w : w = replay'
    OBVIOUS
  <2>5. w.maxUsage = v.maxUsage /\ w.time = v.time /\ Changed # {}
    BY <2>3, <2>4 DEF Reviewed, Carried
  <2>6. now' = now
    BY <1>1, <2>5, ClockMoves DEF Changed
  <2> QED
    BY <2>2, <2>3, <2>4, <2>5, <2>6
<1>3. CASE ~Observed
  <2>1. \/ \E l \in Link, up \in BOOLEAN : LinkObserved(l, up)
        \/ \E n \in Node, up, clear \in BOOLEAN : NodeObserved(n, up, clear)
    BY <1>3, VerifiedCases
  <2>2. /\ now' = now
        /\ \E visited \in V!Walks(replay) : \E v :
             /\ v = V!MeasureBuffers(replay, now, visited)
             /\ replay'.errors = v.errors /\ replay'.maxUsage = v.maxUsage /\ replay'.time = v.time
    BY <1>1, <2>1, EventEffect DEF ReplayInv
  <2> QED
    BY <2>2
<1> QED
  BY <1>2, <1>3

LEMMA NextMeasured ==
  ASSUME ReplayInv, Measured, CustodyInv', Records, [VerifiedNext]_<<vars, replay>>
  PROVE  Measured'
<1>1. [Next]_vars /\ CustodyInv /\ Replaying(replay)
  BY VerifiedCases DEF ReplayInv, Faithful
<1>2. CASE Changed = {} /\ replay' = replay
  <2>1. CASE now' # now
    BY <1>1, <2>1, ClockMoves DEF Measured
  <2>2. CASE now' = now
    <3>1. \A n \in Node : inbound'[n] \subseteq inbound[n]
      BY <1>1, <1>2, InboundGrows
    <3> QED
      BY <1>2, <2>2, <3>1 DEF Measured
  <2> QED
    BY <2>1, <2>2
<1>3. ASSUME now' = now, NEW visited, NEW v, v = V!MeasureBuffers(replay, now, visited),
             replay'.time = v.time
      PROVE  Measured'
  <2>1. v.time = now
    <3>1. PICK r, t : r = replay /\ t = now
      OBVIOUS
    <3>2. Replaying(r) /\ v = V!MeasureBuffers(r, t, visited)
      BY <1>1, <1>3, <3>1
    <3>3. v.time = t
      BY <3>2, MeasuredAt
    <3> QED
      BY <3>1, <3>3
  <2> QED
    BY <1>3, <2>1 DEF Measured
<1> QED
  BY <1>2, <1>3, StepMeasures

LEMMA GhostsStay ==
  ASSUME CustodyInv, [Next]_vars, Records, NEW n \in Node
  PROVE  Ghosts(n) \subseteq Ghosts(n)'
<1>1. SUFFICES ASSUME NEW id \in Ghosts(n) PROVE id \in Ghosts(n)'
  OBVIOUS
<1>2. id \in Id /\ trace[id] = Recorded("DroppedOnArrival", n) /\ data[id].src = n
  BY DEF Ghosts
<1>3. trace[id].step = "DroppedOnArrival" /\ trace[id] # NotBorn
  BY <1>2 DEF Recorded, NotBorn
<1>4. trace'[id] = trace[id]
  BY <1>2, <1>3, EndsStay
<1>5. id < nextId
  BY <1>2, <1>3 DEF CustodyInv, FreeIds, TypeOK, Id
<1>6. data'[id].src = data[id].src
  BY <1>2, <1>5 DEF Records, SameData
<1> QED
  BY <1>2, <1>4, <1>6 DEF Ghosts

LEMMA NextRoomy ==
  ASSUME ReplayInv, BalanceInv, Measured, Roomy, CustodyInv', Records, [VerifiedNext]_<<vars, replay>>
  PROVE  Roomy'
<1>1. [Next]_vars /\ CustodyInv /\ Replaying(replay)
  BY VerifiedCases DEF ReplayInv, Faithful
<1>2. \A n \in Node : Ghosts(n)' = {} => Ghosts(n) = {}
  BY <1>1, GhostsStay
<1>3. CASE replay' = replay
  BY <1>2, <1>3 DEF Roomy
<1>4. ASSUME NEW visited, NEW v, v = V!MeasureBuffers(replay, now, visited),
             replay'.maxUsage = v.maxUsage
      PROVE  Roomy'
  <2>1. /\ now = replay.time => v.maxUsage = replay.maxUsage
        /\ now # replay.time =>
             v.maxUsage = [n \in Node |-> IF n \in visited THEN V!PeakUsage(replay, n) ELSE replay.maxUsage[n]]
    BY <1>1, <1>4, MeasureJudges
  <2>2. \A n \in Node : V!PeakUsage(replay, n) \in Nat
    BY PeakFits
  <2>3. v.maxUsage \in [Node -> Nat]
    BY <2>1, <2>2 DEF Roomy
  <2>4. ASSUME NEW n \in Node, Ghosts(n)' = {}, TimeWarp \/ n \notin Host
        PROVE  v.maxUsage[n] <= Capacity[n]
    <3>1. Ghosts(n) = {}
      BY <1>2, <2>4
    <3>2. replay.maxUsage[n] <= Capacity[n]
      BY <2>4, <3>1 DEF Roomy
    <3>3. replay.time # now => V!PeakUsage(replay, n) <= Capacity[n]
      BY <2>4, <3>1, PeakFits
    <3> QED
      BY <2>1, <3>2, <3>3
  <2> QED
    BY <1>4, <2>3, <2>4 DEF Roomy
<1> QED
  BY <1>3, <1>4, StepMeasures

-----------------------------------------------------------------------------
(* What makes the verifier's alarms known.                                  *)

\* The inductive invariant for the alarms: the replay mirrors the network
\* (ReplayInv), the buffers are in balance (BalanceInv), and besides
\*  - the replay knows the last "down" of each link and the last clearing of
\*    each node (Marks), and a packet in flight that no "down" followed was sent
\*    no earlier than the last one in the replay (FlightTimes),
\*  - a packet is in its node since the same instant in both (SinceTie),
\*  - the sends in the bandwidth window are paced (Paced), and
\*  - the peak usage is one that fits the buffer (Measured, Roomy).
AlarmInv ==
  /\ ReplayInv /\ BalanceInv /\ FateInv
  /\ Marks /\ FlightTimes /\ SinceTie /\ Paced /\ Measured /\ Roomy

LEMMA InitAlarm == VerifiedInit => AlarmInv
<1> SUFFICES ASSUME VerifiedInit
             PROVE  AlarmInv
  OBVIOUS
<1>1. ReplayInv /\ BalanceInv /\ FateInv /\ TypeOK
  BY InitReplay, InitBalance, InitFate DEF VerifiedInit, FateInv, CustodyInv
<1>2. /\ now = 0 /\ sendDone = [l \in Link |-> 0] /\ inTransit = [l \in Link |-> {}]
      /\ lastClear = [n \in Node |-> Never]
  BY DEF VerifiedInit, Init
<1>3. /\ replay.lastDown = lastDown /\ replay.lastClear = [n \in Node |-> -1]
      /\ replay.packets = [n \in Node |-> {}] /\ replay.maxUsage = [n \in Node |-> 0]
      /\ replay.sends = [l \in Link |-> {}] /\ replay.time = 0
  BY DEF VerifiedInit, V!NewVerifier
<1>4. Marks
  <2>1. lastDown \in [Link -> Int] /\ \A l \in Link : lastDown[l] <= now
    BY <1>1 DEF FateInv, TypeOK, Never
  <2> QED
    BY <1>2, <1>3, <2>1 DEF Marks, Never
<1>5. FlightTimes /\ SinceTie /\ Measured
  BY <1>2, <1>3 DEF FlightTimes, SinceTie, Measured
<1>6. Paced
  <2>1. ASSUME NEW B \in Nat \ {0} PROVE WellPaced({}, B, 0, 0)
    <3>1. \A a : Late({}, a) = {}
      BY DEF Late
    <3>2. \A a \in Nat : Room(0, a) = 0
      BY DEF Room
    <3>3. IsFiniteSet({})
      BY FS_EmptySet
    <3> QED
      BY <3>1, <3>2, <3>3, NoBytes DEF WellPaced
  <2>2. \A l \in Link : Bandwidth[l] \in Nat \ {0}
    BY ParameterAssumption
  <2> QED
    BY <1>2, <1>3, <2>1, <2>2 DEF Paced, AllPaced
<1>7. Roomy
  BY <1>3, ParameterAssumption DEF Roomy
<1> QED
  BY <1>1, <1>4, <1>5, <1>6, <1>7 DEF AlarmInv

LEMMA NextAlarm == AlarmInv /\ [VerifiedNext]_<<vars, replay>> => AlarmInv'
<1> SUFFICES ASSUME AlarmInv, [VerifiedNext]_<<vars, replay>>
             PROVE  AlarmInv'
  OBVIOUS
<1>1. /\ ReplayInv /\ BalanceInv /\ FateInv /\ CustodyInv /\ TypeOK
      /\ Marks /\ FlightTimes /\ SinceTie /\ Paced /\ Measured /\ Roomy
  BY DEF AlarmInv, FateInv, CustodyInv
<1>2. [Next]_vars
  BY VerifiedCases
<1>3. CustodyInv' /\ Records
  BY <1>1, <1>2, NextCustody, NextRecords DEF ReplayInv
<1>4. ReplayInv' /\ BalanceInv' /\ FateInv'
  BY <1>1, <1>2, NextReplay, NextBalance, NextFate
<1>5. Marks' /\ FlightTimes'
  BY <1>1, NextFlightTimes
<1>6. SinceTie'
  <2>1. \A n \in Node : \A p \in replay'.packets[n] : p.id \in Id
    BY <1>4 DEF ReplayInv, Faithful, MirrorNodes
  <2>2. \A n \in Node : \A p \in replay'.packets[n] :
          p \in replay.packets[n] \/ (p.id \in Changed /\ p.since = now)
    <3>1. CASE Observed
      BY <1>1, <1>3, <3>1, ObservedCarries
    <3>2. CASE ~Observed
      <4>1. replay'.packets = replay.packets
        BY <1>1, <3>2, VerifiedCases, EventEffect DEF ReplayInv
      <4> QED
        BY <4>1
    <3> QED
      BY <3>1, <3>2
  <2> QED
    BY <1>1, <1>2, <1>3, <2>1, <2>2, NextSinceTie
<1>7. Paced'
  BY <1>1, NextPaced
<1>8. Measured' /\ Roomy'
  BY <1>1, <1>3, NextMeasured, NextRoomy
<1> QED
  BY <1>4, <1>5, <1>6, <1>7, <1>8 DEF AlarmInv

\* One of the five alarms that KnownAlarms allows.
Known(e) ==
  \/ /\ e.kind = "OfflinePacketReceive"
     /\ \E l \in Link : \E x \in inTransit[l] :
          x.id = e.id /\ x.sent \in {lastDown[l], replay.lastDown[l]}
  \/ /\ e.kind = "NodeDownPacketSend"
     /\ ~nodeUp[e.at] /\ trace'[e.id].step = "InTransit"
  \/ /\ e.kind = "NodeDownPacketReceive"
     /\ trace'[e.id] = Recorded("DroppedOnArrival", e.at) /\ data'[e.id].src = e.at
  \/ /\ e.kind = "NodeExceedsBufferSize"
     /\ Ghosts(e.at) # {} \/ (~TimeWarp /\ e.at \in Host)
  \/ /\ e.kind = "LinkBandwidthExceeded"
     /\ \E l \in Link : /\ trace'[e.id] = Recorded("InTransit", l)
                        /\ \E x \in replay'.sends[l] : x.at + Window < sendDone'[l]

LEMMA ErrorFields ==
  ASSUME NEW kind, NEW at, NEW id, NEW e, e = V!Error(kind, at, id)
  PROVE  e.kind = kind /\ e.at = at /\ e.id = id
BY DEF V!Error

\* A buffer is exceeded only by ghosts and, with the real clock, by packets that
\* a host has not read.
LEMMA MeasuringKnown ==
  ASSUME AlarmInv, NEW visited, NEW v, v = V!MeasureBuffers(replay, now, visited),
         NEW e \in v.errors \ replay.errors
  PROVE  Known(e)
<1>1. Replaying(replay) /\ ReplayInv /\ BalanceInv /\ Measured /\ Roomy
  BY DEF AlarmInv, ReplayInv, Faithful
<1>2. PICK r, t : r = replay /\ t = now
  OBVIOUS
<1>3. Replaying(r) /\ v = V!MeasureBuffers(r, t, visited) /\ e \in v.errors \ r.errors
  BY <1>1, <1>2
<1>4. t # r.time /\ \E n \in V!Exceeding(r) : e = V!Error("NodeExceedsBufferSize", n, 0)
  BY <1>3, MeasureAlarms
<1>5. PICK n \in V!Exceeding(replay) : e = V!Error("NodeExceedsBufferSize", n, 0)
  BY <1>2, <1>4
<1>6. n \in Node /\ Capacity[n] < V!PeakUsage(replay, n)
  BY <1>5 DEF V!Exceeding
<1>7. Capacity[n] \in Nat
  BY <1>6, ParameterAssumption
<1>8. ~(Ghosts(n) = {} /\ (TimeWarp \/ n \notin Host))
  <2>1. PICK a \in Nat : a = V!PeakUsage(replay, n)
    BY <1>1, <1>6, PeakFits
  <2>2. ~(a <= Capacity[n])
    BY <1>6, <1>7, <2>1
  <2> QED
    BY <1>1, <1>2, <1>4, <1>6, <2>1, <2>2, PeakFits
<1> QED
  BY <1>5, <1>8, ErrorFields DEF Known

\* Of a packet that comes from a link the verifier says at most that the link
\* went down at the instant the packet was sent.
LEMMA FlightKnown ==
  ASSUME AlarmInv, NEW id \in Id, NEW n, NEW l \in Link, trace[id] = InTransit(l), Target[l] = n,
         NEW y \in inTransit[l], y.id = id, y.arrival <= now, lastDown[l] <= y.sent,
         NEW v, v.lastDown = replay.lastDown, NEW x \in replay.inFlight, x.id = id,
         NEW e \in V!LinkAlarms(v, x, n, now)
  PROVE  Known(e)
<1>1. TypeOK /\ MirrorLinks(replay.inFlight, trace) /\ SentTogether /\ Marks /\ FlightTimes
  BY DEF AlarmInv, ReplayInv, CustodyInv, Faithful
<1>2. /\ now \in Nat /\ y.sent \in Nat /\ y.arrival \in Nat /\ Delay[l] \in Nat
      /\ lastDown[l] \in Int /\ replay.lastDown[l] \in Int
  <2>1. now \in Nat /\ y.sent \in Nat /\ y.arrival \in Nat /\ lastDown[l] \in Int
    BY <1>1 DEF TypeOK, Transit, Never
  <2>2. Delay[l] \in Nat /\ replay.lastDown[l] \in Int
    BY <1>1, ParameterAssumption DEF Marks
  <2> QED
    BY <2>1, <2>2
<1>3. x.link = l /\ x.extra = 0 /\ x.sent = y.sent
  <2>1. trace[id] = InTransit(x.link) /\ x.extra = 0
    BY <1>1 DEF MirrorLinks
  <2> QED
    BY <1>1, <2>1 DEF SentTogether, InTransit, Recorded
<1>4. y.sent + Delay[l] <= y.arrival /\ (lastDown[l] < y.sent => replay.lastDown[l] <= y.sent)
  BY <1>1 DEF FlightTimes
<1>5. ~(now - x.sent < Delay[x.link] + x.extra) /\ Target[x.link] = n
  BY <1>2, <1>3, <1>4
<1>6. e = V!Error("OfflinePacketReceive", n, id) /\ replay.lastDown[l] >= y.sent
  BY <1>3, <1>5 DEF V!LinkAlarms
<1>7. y.sent \in {lastDown[l], replay.lastDown[l]}
  BY <1>2, <1>4, <1>6
<1> QED
  BY <1>6, <1>7, ErrorFields DEF Known

LEMMA ArrivingKnown ==
  ASSUME AlarmInv, [Next]_vars, Records, NEW id \in Changed, Arriving(trace[id], trace'[id]),
         NEW v, v.nodeUp = nodeUp, v.lastDown = replay.lastDown,
         V!WithId(v.inFlight, id) \subseteq replay.inFlight,
         NEW e \in Objections(v, id, trace'[id])
  PROVE  Known(e)
<1>1. CustodyInv /\ TypeOK /\ id \in Id /\ Birth(id)
  BY DEF AlarmInv, FateInv, CustodyInv, Changed, Records
<1>2. PICK n \in Node : Brought(id, n)
  BY <1>1, ArrivalFacts
<1>3. PICK q : q = trace'[id]
  OBVIOUS
<1>4. q.at = n /\ (nodeUp[n] <=> q.step # "DroppedOnArrival")
  BY <1>2, <1>3 DEF Brought
<1>5. CASE e \in ArrivalAlarms(v, id, n, now)
  <2>1. PICK x \in V!WithId(v.inFlight, id) : e \in V!LinkAlarms(v, x, n, now)
    BY <1>5 DEF ArrivalAlarms
  <2>2. x \in replay.inFlight /\ x.id = id
    BY DEF V!WithId
  <2>3. trace[id] = InTransit(x.link)
    BY <2>2 DEF AlarmInv, ReplayInv, Faithful, MirrorLinks
  <2>4. trace[id] # NotBorn
    BY <2>3, LogSteps
  <2>5. PICK l \in Link : /\ trace[id] = InTransit(l) /\ Target[l] = n
                          /\ \E y \in inTransit[l] : y.id = id /\ y.arrival <= now /\ lastDown[l] <= y.sent
    BY <1>2, <2>4 DEF Brought
  <2> QED
    BY <1>1, <2>1, <2>2, <2>5, FlightKnown
<1>6. CASE e \in When(~nodeUp[n] /\ (q.step = "DroppedOnArrival" => trace[id] = NotBorn),
                      "NodeDownPacketReceive", n, id)
  <2>1. /\ e = V!Error("NodeDownPacketReceive", n, id)
        /\ q.step = "DroppedOnArrival" /\ trace[id] = NotBorn
    BY <1>4, <1>6 DEF When
  <2>2. data'[id].src = n
    BY <1>1, <1>3, <1>4, <2>1 DEF Birth
  <2>3. q = Recorded("DroppedOnArrival", n)
    BY <1>3, <1>4, <2>1 DEF Arriving, Recorded
  <2>4. e.kind = "NodeDownPacketReceive" /\ e.at = n /\ e.id = id
    BY <2>1, ErrorFields
  <2> QED
    BY <1>3, <2>2, <2>3, <2>4 DEF Known
<1>7. e \notin When(nodeUp[n] /\ q.step = "DroppedOnArrival", "NodeUpPacketDroppedOnArrival", n, id)
  BY <1>4 DEF When
<1> QED
  BY <1>3, <1>4, <1>5, <1>6, <1>7 DEF Objections

\* Of a packet that is sent the verifier says at most that its node is down or
\* that the link is saturated.
LEMMA SendingKnown ==
  ASSUME AlarmInv, [Next]_vars, Records, NEW id \in Changed, NEW n \in Node, NEW l \in Link,
         Source[l] = n, trace[id] = InNode(n), trace'[id] = InTransit(l),
         NEW v, v.nodeUp = nodeUp, v.linkUp = linkUp, v.lastClear = replay.lastClear,
         v.packets = replay.packets, v.sends = replay.sends,
         NEW w, w.sends = replay'.sends, SentOff(v, w, id, n, l),
         NEW e \in w.errors \ v.errors
  PROVE  Known(e)
<1>1. CustodyInv /\ TypeOK /\ id \in Id /\ SinceTie /\ Marks /\ Paced
  BY DEF AlarmInv, FateInv, CustodyInv, Changed
<1>2. PICK o \in Live(l), extra \in Nat : o.id = id /\ Sending(l, o, extra)
  BY <1>1, SendFacts
<1>3. linkUp[l] /\ ~(o.since < lastClear[n])
  BY <1>2 DEF Sending, ClearedFromBuffer
<1>4. PICK p \in v.packets[n], wiped \in BOOLEAN :
        /\ p.id = id /\ p.size = data'[id].size /\ (wiped <=> Survived(v, n, p))
        /\ w.sends = [v.sends EXCEPT ![l] = V!WindowAt(v, l, now, id, p.size)]
        /\ w.errors = v.errors \cup SendAlarms(v, id, n, l, p.size, wiped, now)
  BY DEF SentOff
<1>5. ~wiped
  <2>1. p \in replay.packets[n] /\ trace[p.id] = InNode(n)
    BY <1>4
  <2>2. o.since = p.since
    BY <1>1, <1>2, <1>4, <2>1 DEF SinceTie, CameAt
  <2>3. v.lastClear = lastClear
    BY <1>1 DEF Marks
  <2> QED
    BY <1>3, <1>4, <2>2, <2>3 DEF Survived
<1>6. data'[id].size = data[id].size /\ data[id].size \in Nat
  <2>1. trace[id] # NotBorn
    BY LogSteps
  <2>2. id < nextId
    BY <1>1, <2>1 DEF CustodyInv, FreeIds, TypeOK, Id
  <2>3. data'[id].size = data[id].size
    BY <1>1, <2>2 DEF Records, SameData
  <2> QED
    BY <1>1, <2>3, SizesAreNat
<1>7. PICK size, W : size = p.size /\ W = V!WindowAt(v, l, now, id, size)
  OBVIOUS
<1>8. CASE e = V!Error("LinkBandwidthExceeded", n, id) /\ V!BandwidthExceeded(l, W)
  <2>1. PICK sends : sends = [v.sends EXCEPT ![l] = W]
    OBVIOUS
  <2>2. AllPaced(sends, sendDone', now)
    <3>1. AllPaced(v.sends, sendDone, now)
      BY <1>1 DEF Paced
    <3>2. size = data[id].size /\ sends = [v.sends EXCEPT ![l] = V!WindowAt(v, l, now, id, size)]
      BY <1>4, <1>6, <1>7, <2>1
    <3> QED
      BY <1>1, <1>2, <3>1, <3>2, SendKeepsPace
  <2>3. DOMAIN v.sends = Link
    BY <1>1 DEF Paced, AllPaced
  <2>4. replay'.sends = sends
    BY <1>4, <1>7, <2>1
  <2>5. sends[l] = W
    BY <2>1, <2>3
  <2>6. PICK B \in Nat \ {0}, done \in Nat : B = Bandwidth[l] /\ done = sendDone'[l]
    <3>1. Bandwidth[l] \in Nat \ {0}
      BY ParameterAssumption
    <3>2. data[id].size \in Nat /\ now \in Nat /\ DOMAIN sendDone = Link
      BY <1>1, <1>6 DEF TypeOK
    <3>3. sendDone'[l] = now + SendDuration(l, data[id].size)
      BY <1>2, <3>2 DEF Sending
    <3>4. SendDuration(l, data[id].size) \in Nat
      BY <3>1, <3>2, RoundedUp DEF SendDuration
    <3>5. sendDone'[l] \in Nat
      BY <3>2, <3>3, <3>4
    <3> QED
      BY <3>1, <3>5
  <2>7. WellPaced(W, B, now, done) /\ now \in Nat
    BY <1>1, <2>2, <2>5, <2>6 DEF AllPaced, TypeOK
  <2>8. ~(V!Bytes(W) <= B * Window)
    <3>1. B * Window < V!Bytes(W)
      BY <1>8, <2>6 DEF V!BandwidthExceeded
    <3>2. V!Bytes(W) \in Nat
      BY <2>7, BytesType DEF WellPaced
    <3>3. B * Window \in Nat
      BY VerifierAssumption
    <3> QED
      BY <3>1, <3>2, <3>3
  <2>9. PICK x \in W : ~(x.at + Window >= done)
    BY <2>7, <2>8, NotExceeded
  <2>10. x.at + Window < done
    <3>1. x.at \in Nat /\ Window \in Nat
      BY <2>7, VerifierAssumption DEF WellPaced
    <3> QED
      BY <2>9, <3>1
  <2>11. e.kind = "LinkBandwidthExceeded" /\ e.id = id
    BY <1>8, ErrorFields
  <2>12. x \in replay'.sends[l] /\ x.at + Window < sendDone'[l]
    BY <2>4, <2>5, <2>6, <2>10
  <2>13. trace'[e.id] = Recorded("InTransit", l)
    BY <2>11 DEF InTransit
  <2> QED
    BY <2>11, <2>12, <2>13 DEF Known
<1>9. CASE e = V!Error("NodeDownPacketSend", n, id) /\ ~nodeUp[n]
  <2>1. e.kind = "NodeDownPacketSend" /\ e.at = n /\ e.id = id
    BY <1>9, ErrorFields
  <2>2. trace'[id].step = "InTransit"
    BY LogSteps
  <2> QED
    BY <1>9, <2>1, <2>2 DEF Known
<1>10. e \in SendAlarms(v, id, n, l, size, wiped, now)
  BY <1>4, <1>7
<1>11. e \in When(~nodeUp[n], "NodeDownPacketSend", n, id)
         \cup When(V!BandwidthExceeded(l, W), "LinkBandwidthExceeded", n, id)
  BY <1>3, <1>5, <1>7, <1>10 DEF SendAlarms, When
<1> QED
  BY <1>8, <1>9, <1>11 DEF When

\* What the replay of a packet's steps begins with.
Begins(v) ==
  /\ v.nodeUp = nodeUp /\ v.linkUp = linkUp
  /\ v.lastDown = replay.lastDown /\ v.lastClear = replay.lastClear

\* Unless a packet is sent, the alarms are about arrivals.
LEMMA ReviewKnown ==
  ASSUME AlarmInv, [Next]_vars, Records, NEW v, NEW w, Begins(v), v.inFlight = replay.inFlight,
         Reviewed(v, w), \A id \in Changed, l \in Link : trace'[id] # InTransit(l),
         NEW e \in w.errors \ v.errors
  PROVE  Known(e)
<1>1. PICK u : \E first, second \in Changed :
        /\ Carried(v, u, first, first) /\ Judged(v, u, first)
        /\ \/ w = u
           \/ first # second /\ Carried(u, w, second, second) /\ Judged(u, w, second)
  BY DEF Reviewed
<1>2. PICK first \in Changed, second \in Changed :
        /\ Carried(v, u, first, first) /\ Judged(v, u, first)
        /\ w = u \/ (first # second /\ Judged(u, w, second))
  BY <1>1
<1>3. ASSUME NEW r, NEW s, NEW id \in Changed, Judged(r, s, id), Begins(r),
             V!WithId(r.inFlight, id) \subseteq replay.inFlight, NEW x \in s.errors \ r.errors
      PROVE  Known(x)
  <2>1. Arriving(trace[id], trace'[id]) /\ x \in Objections(r, id, trace'[id])
    BY <1>3 DEF Judged
  <2>2. r.nodeUp = nodeUp /\ r.lastDown = replay.lastDown
    BY <1>3 DEF Begins
  <2> QED
    BY <1>3, <2>1, <2>2, ArrivingKnown
<1>4. CASE e \in u.errors
  <2>1. V!WithId(v.inFlight, first) \subseteq replay.inFlight
    BY DEF V!WithId
  <2> QED
    BY <1>2, <1>3, <1>4, <2>1
<1>5. CASE e \notin u.errors
  <2>1. first # second /\ Judged(u, w, second)
    BY <1>2, <1>5
  <2>2. Begins(u)
    BY <1>2 DEF Carried, Begins
  <2>3. V!WithId(u.inFlight, second) \subseteq replay.inFlight
    BY <1>2, <2>1 DEF V!WithId, Carried
  <2> QED
    BY <1>3, <1>5, <2>1, <2>2, <2>3
<1> QED
  BY <1>4, <1>5

LEMMA ObservedKnown ==
  ASSUME AlarmInv, CustodyInv', Records, [Next]_vars, Observed,
         NEW e \in replay'.errors \ replay.errors
  PROVE  Known(e)
<1>1. /\ ReplayInv /\ CustodyInv /\ Faithful(replay, trace, data) /\ Replaying(replay)
      /\ replay.nodeUp = nodeUp /\ replay.linkUp = linkUp
  BY DEF AlarmInv, ReplayInv, Faithful
<1>2. PICK visited \in V!Walks(replay) : \E v :
        v = V!MeasureBuffers(replay, now, visited) /\ Reviewed(v, replay')
  BY <1>1, ReplayFollows DEF Observed
<1>3. PICK v : v = V!MeasureBuffers(replay, now, visited) /\ Reviewed(v, replay')
  BY <1>2
<1>4. PICK w : w = replay'
  OBVIOUS
<1>5. Reviewed(v, w) /\ e \in w.errors
  BY <1>3, <1>4
<1>6. Only(replay, v, {"maxUsage", "errors", "time"})
  BY <1>1, <1>3, MeasureEffect
<1>7. /\ v.packets = replay.packets /\ v.sends = replay.sends /\ v.inFlight = replay.inFlight
      /\ Begins(v)
  BY <1>1, <1>6 DEF Only, Fields, Begins
<1>8. CASE e \in v.errors
  BY <1>3, <1>8, MeasuringKnown
<1>9. CASE e \notin v.errors /\ \E id \in Changed, l \in Link : trace'[id] = InTransit(l)
  <2>1. PICK id \in Changed : \E l \in Link : trace'[id] = InTransit(l)
    BY <1>9
  <2>2. Judged(v, w, id)
    BY <1>1, <1>5, <2>1, ReviewedSend
  <2>3. ~Arriving(trace[id], trace'[id])
    BY <2>1, LogSteps DEF Arriving, ArrivalNames, Recorded
  <2>4. PICK n \in Node, l \in Link :
          /\ Source[l] = n /\ trace[id] = InNode(n) /\ trace'[id] = InTransit(l)
          /\ SentOff(v, w, id, n, l)
    BY <1>5, <1>9, <2>2, <2>3 DEF Judged
  <2>5. /\ v.nodeUp = nodeUp /\ v.linkUp = linkUp /\ v.lastClear = replay.lastClear
        /\ w.sends = replay'.sends /\ e \in w.errors \ v.errors
    BY <1>4, <1>5, <1>7, <1>9 DEF Begins
  <2> QED
    BY <1>7, <2>4, <2>5, SendingKnown
<1>10. CASE e \notin v.errors /\ \A id \in Changed, l \in Link : trace'[id] # InTransit(l)
  BY <1>5, <1>7, <1>10, ReviewKnown
<1> QED
  BY <1>8, <1>9, <1>10

LEMMA AlarmsKnown ==
  ASSUME AlarmInv, [VerifiedNext]_<<vars, replay>>, NEW e \in replay'.errors \ replay.errors
  PROVE  Known(e)
<1>1. [Next]_vars /\ ReplayInv /\ CustodyInv /\ TypeOK
  BY VerifiedCases DEF AlarmInv, ReplayInv, CustodyInv
<1>2. CustodyInv' /\ Records
  BY <1>1, NextCustody, NextRecords DEF ReplayInv
<1>3. CASE Observed
  BY <1>1, <1>2, <1>3, ObservedKnown
<1>4. CASE ~Observed
  <2>1. \E visited \in V!Walks(replay) : \E v :
          v = V!MeasureBuffers(replay, now, visited) /\ replay'.errors = v.errors
    BY <1>1, <1>4, VerifiedCases, EventEffect DEF ReplayInv
  <2> QED
    BY <2>1, MeasuringKnown
<1> QED
  BY <1>3, <1>4

\* KnownAlarms: whatever the network, its parameters and the order of its tasks,
\* SimulationVerifier raises no alarm about a log of the network but the five
\* known ones: packets that are received too early, from a link that was down or
\* not connected, that survive the clearing of a buffer, that leave over a link
\* that is down or that exceed the bandwidth of an unsaturated one are never
\* reported, nor is a buffer that is exceeded without ghosts or unread packets.
THEOREM OnlyKnownAlarms == VerifiedSpec => KnownAlarms
<1>1. VerifiedInit => AlarmInv
  BY InitAlarm
<1>2. AlarmInv /\ [VerifiedNext]_<<vars, replay>> => AlarmInv'
  BY NextAlarm
<1>3. AlarmInv /\ [VerifiedNext]_<<vars, replay>> =>
        [\A e \in replay'.errors \ replay.errors : Known(e)]_<<vars, replay>>
  BY AlarmsKnown
<1> QED
  BY <1>1, <1>2, <1>3, PTL DEF VerifiedSpec, KnownAlarms, Known

=============================================================================
