------------------------- MODULE NetworkProperties -------------------------
(***************************************************************************)
(* What the network of module Network has to get right.                    *)
(***************************************************************************)
EXTENDS Network, FiniteSets

-----------------------------------------------------------------------------
(* Types.                                                                   *)

\* Type invariant: every field of the network keeps the type its Rust
\* declaration gives it; in particular the free space of a buffer
\* (available_capacity_bytes, a usize) never becomes negative.
TypeOK ==
  /\ now \in Nat /\ events \in Nat
  /\ running \in Task \cup {NoTask}
  /\ linkUp \in [Link -> BOOLEAN] /\ nodeUp \in [Node -> BOOLEAN]
  /\ lastDown \in [Link -> Nat \cup {Never}] /\ lastClear \in [Node -> Nat \cup {Never}]
  /\ sendDone \in [Link -> Nat]
  /\ available \in [Node -> Nat]
  /\ outbound \in [Node -> Seq(Buffered)]
  /\ inbound \in [Node -> SUBSET [id: Id, arrival: Nat]]
  /\ outgoing \in [Link -> Seq(Outgoing)]
  /\ handled \subseteq Nat /\ nextChannel \in Nat
  /\ pc \in [Link -> Waiting \cup {"idle"}]
  /\ cur \in [Link -> Outgoing \cup {NoPacket}]
  /\ \A l \in Link : pc[l] \in Waiting => cur[l] \in Outgoing
  /\ ahead \in [Link -> Nat]
  /\ inTransit \in [Link -> SUBSET Transit]
  /\ wakeAt \in [Link -> Nat \cup {Never}]
  /\ data \in [Id -> Data]
  /\ nextId \in 1..(MaxPackets + 1)
  /\ trace \in [Id -> [step: Step, at: Node \cup Link \cup {NoPlace}]]
  /\ dead \subseteq Task

-----------------------------------------------------------------------------
(* Where packets really are.                                                *)

Elements(s) == {s[i] : i \in DOMAIN s}

\* The OutgoingPackets in the hands of link l: queued, and held by its task.
\* A task that died took its queue with it.
Held(l) ==
  IF <<"link", l>> \in dead THEN {}
  ELSE Elements(outgoing[l]) \cup (IF pc[l] \in Waiting THEN {cur[l]} ELSE {})

\* The copies at node n that no link has handled yet.
Pending(n) ==
  UNION {{o \in Held(l) : o.channel \notin handled} : l \in {k \in Link : Source[k] = n}}

\* Positions of packet id in node n's channel.
Queued(n, id) ==
  IF <<"processor", n>> \in dead THEN {} ELSE {i \in DOMAIN outbound[n] : outbound[n][i].id = id}

\* Every custodian of packet id, kind by kind.  All pending copies of one
\* dispatch, on however many links, are one custodian: their watch channel.
OutboundCustodians(id) == UNION {{<<"outbound", n, i>> : i \in Queued(n, id)} : n \in Node}
PendingCustodians(id)  ==
  UNION {{<<"pending", n, o.channel>> : o \in {p \in Pending(n) : p.id = id}} : n \in Node}
TransitCustodians(id)  ==
  UNION {{<<"transit", l, x.sent>> : x \in {y \in inTransit[l] : y.id = id}} : l \in Link}
InboundCustodians(id)  ==
  UNION {{<<"inbound", n, x.arrival>> : x \in {y \in inbound[n] : y.id = id}} : n \in Node}

Custodians(id) == OutboundCustodians(id) \cup PendingCustodians(id)
                    \cup TransitCustodians(id) \cup InboundCustodians(id)

\* The step the log should show for a packet with custodian c.
StepOf(c) ==
  Recorded(IF c[1] = "transit" THEN "InTransit" ELSE "InNode", c[2])

\* The packets in node n's buffer that can still be sent, and the bytes of some
\* packets, counted one by one.
Stored(n) ==
  {id \in Id : Queued(n, id) # {} \/ \E o \in Pending(n) : o.id = id}
Bytes(ids) == Cardinality(UNION {{id} \X (1..data[id].size) : id \in ids})

-----------------------------------------------------------------------------
(* Safety.                                                                  *)

\* A packet never has two custodians: it is not sent by two of the links it
\* was offered to, and no copy of it stays behind in a buffer or a queue once
\* it has been sent (process_link_queue and the `handled' watch channel).
SingleCustody == \A id \in Id : \A c, d \in Custodians(id) : c = d

\* The replay log tells the truth: a packet is where the last recorded step
\* says it is, and as long as no task has died no packet that the log shows in
\* a node or on a link has silently disappeared (tracer.rs against the queues).
LogIsTruthful ==
  \A id \in Id :
    /\ \A c \in Custodians(id) : trace[id] = StepOf(c)
    /\ (dead = {} /\ trace[id].step \in {"InNode", "InTransit"}) => Custodians(id) # {}

\* Buffer accounting (OutboundBuffer::reserve and release): the free space is
\* the capacity less the packets stored and less the packets that a buffer
\* clear dropped, whose space is never released.
BufferBalance ==
  dead = {} =>
    \A n \in Node :
      LET cleared == {id \in Id : trace[id] = Recorded("DroppedBufferCleared", n)}
      IN  available[n] + Bytes(Stored(n)) + Bytes(cleared) = Capacity[n]

\* PacketPacer: two packets in transit on a link were sent at least the sending
\* time of the earlier one apart.
PacedSends ==
  \A l \in Link : \A x, y \in inTransit[l] :
    x # y => \/ y.sent >= x.sent + SendDuration(l, data[x.id].size)
             \/ x.sent >= y.sent + SendDuration(l, data[y.id].size)

\* No lost wake-up: a link task that sleeps until its link (its node) comes up
\* does so only while the link (the node) is down, however often the status
\* changed before the task ran again (update_status, sleep_until_ready_to_send).
NoLostWakeup ==
  \A l \in Link :
    /\ pc[l] = "linkDown" => ~linkUp[l]
    /\ pc[l] = "nodeDown" => ~nodeUp[Source[l]]

\* With the paused clock, time does not pass the arrival time of a packet: it
\* is handed over at the very instant the link's delay has gone by.
DeliveredOnTime ==
  TimeWarp => \A l \in Link : <<"forwarder", l>> \notin dead =>
                \A x \in inTransit[l] : now <= x.arrival

-----------------------------------------------------------------------------
(* Action properties.                                                       *)

\* Packets of one flow leave their host in the order they were sent, whichever
\* of the candidate links takes each of them (readme, Forwarding, note 1).
LeavesInOrder ==
  [][\A p, q \in Id :
       LET h == data[p].src
       IN  (/\ p < q /\ dead' = {}
            /\ data[q].src = h /\ data[q].dst = data[p].dst
            /\ trace[p] = Recorded("InNode", h)
            /\ trace[q] = Recorded("InNode", h)
            /\ trace'[q].step = "InTransit")
           => trace'[p] # Recorded("InNode", h)]_vars

\* Packet id is being sent over link l by a node that is up, although link k
\* stands before l among the links it was offered to, is up, done with its last
\* packet, and alive.
PassedOver(k, id, l) ==
  /\ trace'[id] = Recorded("InTransit", l) /\ trace[id] # trace'[id]
  /\ nodeUp[Source[l]]
  /\ k \in {Candidates[Source[l]][data[id].dst][i] : i \in 1..LinksAhead(l, data[id].dst)}
  /\ HasBandwidthAvailable(k) /\ <<"link", k>> \notin dead


\* A packet that had to wait for a link is not sent past a cheaper one that is
\* available and has no other packet to send: "When multiple links are available
\* at the same time, the cheapest one gets to send the packet" (readme,
\* Forwarding, note 4).
CheapestLinkWins ==
  [][\A id \in Id, k, l \in Link :
       ~(/\ PassedOver(k, id, l)
         /\ \E o \in Pending(Source[l]) : o.id = id /\ o.since < now
         /\ \A o \in Held(k) : o.id = id \/ o.channel \in handled)]_vars

\* No task of the network dies of a failed assertion.
NoTaskDies == dead = {}

-----------------------------------------------------------------------------
(* Temporal properties.                                                     *)

\* A packet that was on link l when l went down, after the instant it was
\* sent, never reaches a node, even if the link is up again by then.
Doomed(id, l) ==
  /\ trace[id] = Recorded("InTransit", l) /\ ~linkUp[l]
  /\ \E x \in inTransit[l] : x.id = id /\ x.sent < lastDown[l]

LostWhenLinkGoesDown ==
  \A id \in Id, l \in Link :
    [](Doomed(id, l) => [](trace[id].step \in {"InTransit", "LostInTransit"}))

\* A packet that a buffer clear found in the buffer, received before that
\* instant, never leaves the node.
Wiped(id, n) ==
  \/ \E i \in Queued(n, id) : outbound[n][i].since < lastClear[n]
  \/ \E o \in Pending(n) : o.id = id /\ o.since < lastClear[n]

WipedNeverSent ==
  \A id \in Id, n \in Node :
    [](Wiped(id, n) => [](trace[id] \in {Recorded("InNode", n), Recorded("DroppedBufferCleared", n)}))

\* Every task is polled again after it was woken, and time goes on.
Fairness ==
  /\ \A l \in Link : WF_vars(LinkTask(l)) /\ WF_vars(Forwarder(l))
  /\ \A n \in Node : WF_vars(Dispatch(n)) /\ WF_vars(HostReceive(n))
  /\ WF_vars(Tick)

FairSpec == Spec /\ Fairness

AllUp == (\A l \in Link : linkUp[l]) /\ (\A n \in Node : nodeUp[n])

\* If in the end all links and nodes stay up and no task has died, every
\* packet is read, dropped or lost: none is stuck in a buffer, on a link or in
\* a socket (links coming up wake the waiting tasks, a losing link lets go).
EveryPacketSettles ==
  <>[](AllUp /\ dead = {}) =>
    \A id \in Id : <>[](trace[id].step \notin {"InNode", "InTransit"})

-----------------------------------------------------------------------------
(* The network implements the abstract life of a packet.                    *)

Custody == INSTANCE PacketCustody WITH place <- trace

\* Every recorded step is a move that PacketCustody allows.
ImplementsCustody == Custody!Spec
=============================================================================
