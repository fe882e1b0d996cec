--------------------------- MODULE NetworkProofs ---------------------------
(***************************************************************************)
(* Theorems about module Network, for every topology, every capacity and   *)
(* any number of packets and events.                                       *)
(***************************************************************************)
EXTENDS NetworkProperties, FiniteSetTheorems, WellFoundedInduction, SequenceTheorems, TLAPS

-----------------------------------------------------------------------------
(* The operators the model is built from.                                   *)

\* The sending time PacketPacer computes is a number of milliseconds.
LEMMA SendDurationType ==
  ASSUME NEW l \in Link, NEW size \in Size
  PROVE  SendDuration(l, size) \in Nat
<1> DEFINE bw == Bandwidth[l]
<1>1. bw \in Nat /\ bw > 0 /\ size \in Nat
  BY ParameterAssumption
<1>2. \A p, q \in Nat : q > 0 => p \div q \in Nat
  OBVIOUS
<1>3. size + bw - 1 \in Nat
  BY <1>1
<1> QED
  BY <1>1, <1>2, <1>3 DEF SendDuration

\* The number of yields of a link is a natural number.
LEMMA LinksAheadType ==
  ASSUME NEW l \in Link, NEW dst \in Node
  PROVE  LinksAhead(l, dst) \in Nat
<1> DEFINE links == Candidates[Source[l]][dst]
           S == {i \in DOMAIN links : \A j \in 1..i : links[j] # l}
<1>1. links \in Seq(Link)
  BY TopologyAssumption
<1>2. DOMAIN links = 1..Len(links) /\ Len(links) \in Nat
  BY <1>1
<1>3. IsFiniteSet(1..Len(links))
  BY <1>2, FS_Interval
<1>4. S \in SUBSET (1..Len(links))
  BY <1>2
<1>5. IsFiniteSet(S)
  BY <1>3, <1>4, FS_Subset
<1>6. Cardinality(S) \in Nat
  BY <1>5, FS_CardinalityType
<1> QED
  BY <1>6 DEF LinksAhead

\* A set of packets on a link has an earliest arrival time.
LEMMA EarliestArrivalType ==
  ASSUME NEW S \in SUBSET Transit
  PROVE  /\ EarliestArrival(S) \in Nat \cup {Never}
         /\ S # {} => /\ EarliestArrival(S) \in {x.arrival : x \in S}
                      /\ \A x \in S : EarliestArrival(S) <= x.arrival
<1>1. CASE S = {}
  BY <1>1 DEF EarliestArrival
<1>2. CASE S # {}
  <2> DEFINE T == {x.arrival : x \in S}
  <2>1. T \subseteq Nat /\ T # {}
    BY <1>2 DEF Transit
  <2> DEFINE R == {p \in Nat \X Nat : p[1] < p[2]}
  <2>2A. IsWellFoundedOn(R, Nat)
    BY NatLessThanWellFounded DEF OpToRel
  <2> HIDE DEF R
  <2>2. PICK t \in T : \A y \in T : ~ (<<y, t>> \in R)
    BY <2>1, <2>2A, WFMin
  <2>3. \A y \in T : t <= y
    <3> TAKE y \in T
    <3>1. y \in Nat /\ t \in Nat
      BY <2>1
    <3>2. ~(y < t)
      BY <2>2, <3>1 DEF R
    <3> QED
      BY <3>1, <3>2
  <2>4. \A x \in S : t <= x.arrival
    BY <2>3
  <2>5. /\ EarliestArrival(S) \in T
        /\ \A x \in S : EarliestArrival(S) <= x.arrival
    BY <1>2, <2>4 DEF EarliestArrival
  <2> QED
    BY <1>2, <2>1, <2>5
<1> QED
  BY <1>1, <1>2

\* Task names are tasks.
LEMMA TaskNames ==
  /\ \A l \in Link : <<"link", l>> \in Task /\ <<"forwarder", l>> \in Task
  /\ \A n \in Node : <<"processor", n>> \in Task /\ <<"host", n>> \in Task
BY DEF Task

\* What Enqueue is given and returns: the state of a buffer.
BufferState == [space: Nat, queue: Seq(Buffered), kept: SUBSET Id, full: SUBSET Id, panic: BOOLEAN]

LEMMA EnqueueType ==
  ASSUME NEW s \in BufferState, NEW n \in Node, NEW id \in Id, NEW size \in Size, now \in Nat
  PROVE  Enqueue(s, n, id, size) \in BufferState
<1> DEFINE p == [id |-> id, since |-> now]
<1>1. size \in Nat
  BY ParameterAssumption
<1>2. p \in Buffered
  BY DEF Buffered
<1>3. s.space \in Nat /\ s.queue \in Seq(Buffered) /\ Append(s.queue, p) \in Seq(Buffered)
  BY <1>2, AppendProperties DEF BufferState
<1>4. CASE s.panic
  BY <1>4 DEF Enqueue
<1>5. CASE ~s.panic /\ s.space < size
  <2>1. Enqueue(s, n, id, size) = [s EXCEPT !.full = s.full \cup {id}]
    BY <1>5 DEF Enqueue
  <2>2. s.full \cup {id} \in SUBSET Id
    BY DEF BufferState
  <2> QED
    BY <2>1, <2>2 DEF BufferState
<1>6. CASE ~s.panic /\ ~(s.space < size)
  <2> DEFINE closed == <<"processor", n>> \in dead
             q == IF closed THEN s.queue ELSE Append(s.queue, p)
  <2>1. s.space - size \in Nat
    BY <1>1, <1>3, <1>6
  <2>2. Enqueue(s, n, id, size) =
          [s EXCEPT !.space = s.space - size, !.kept = s.kept \cup {id}, !.queue = q,
                    !.panic = closed]
    BY <1>6 DEF Enqueue
  <2>3. s.kept \cup {id} \in SUBSET Id
    BY DEF BufferState
  <2>4. q \in Seq(Buffered) /\ closed \in BOOLEAN
    BY <1>3
  <2> HIDE DEF q, closed
  <2> QED
    BY <2>1, <2>2, <2>3, <2>4 DEF BufferState
<1> QED
  BY <1>4, <1>5, <1>6 DEF BufferState

-----------------------------------------------------------------------------
(* Type correctness.                                                        *)

LEMMA DataNotEmpty == (CHOOSE d \in Data : TRUE) \in Data
<1>1. PICK f \in Flow : f \in Node \X Node
  BY ParameterAssumption
<1>2. PICK size \in Size : TRUE
  BY ParameterAssumption
<1>3. 1 \in Id
  BY ParameterAssumption DEF Id
<1>4. [number |-> 1, src |-> f[1], dst |-> f[1], size |-> size, ecn |-> "ect"] \in Data
  BY <1>1, <1>2, <1>3 DEF Data, Ecn
<1> QED
  BY <1>4

LEMMA InitTypeOK == Init => TypeOK
<1> SUFFICES ASSUME Init PROVE TypeOK
  OBVIOUS
<1>1. data \in [Id -> Data]
  BY DataNotEmpty DEF Init
<1>2. available \in [Node -> Nat]
  BY ParameterAssumption DEF Init
<1>3. /\ linkUp \in [Link -> BOOLEAN] /\ nodeUp \in [Node -> BOOLEAN]
      /\ lastDown \in [Link -> Nat \cup {Never}] /\ lastClear \in [Node -> Nat \cup {Never}]
  BY DEF Init
<1>4. nextId \in 1..(MaxPackets + 1)
  BY ParameterAssumption DEF Init
<1>5. trace \in [Id -> [step: Step, at: Node \cup Link \cup {NoPlace}]]
  BY DEF Init, Recorded, Step
<1>6. \A l \in Link : pc[l] \in Waiting => cur[l] \in Outgoing
  BY DEF Init, Waiting
<1> QED
  BY <1>1, <1>2, <1>3, <1>4, <1>5, <1>6 DEF Init, TypeOK

\* The records written for a packet have the type of the log.
TraceType == [Id -> [step: Step, at: Node \cup Link \cup {NoPlace}]]

LEMMA TrackType ==
  ASSUME trace \in TraceType, NEW id \in Id, NEW step \in Step, NEW place \in Node \cup Link,
         Track(id, step, place)
  PROVE  trace' \in TraceType
BY DEF Track, TraceType, Recorded

\* The part of the type invariant that forwarding a packet can disturb.
ForwardTypes ==
  /\ available \in [Node -> Nat]
  /\ outbound \in [Node -> Seq(Buffered)]
  /\ inbound \in [Node -> SUBSET [id: Id, arrival: Nat]]
  /\ data \in [Id -> Data]
  /\ nextId \in 1..(MaxPackets + 1)
  /\ trace \in TraceType
  /\ dead \subseteq Task

LEMMA StoreCopiesType ==
  ASSUME TypeOK, NEW n \in Node, NEW task \in Task, NEW size \in Size,
         NEW copies \in Seq(Id), Len(copies) \in {1, 2},
         StoreCopies(n, copies, size, task)
  PROVE  /\ available' \in [Node -> Nat]
         /\ outbound' \in [Node -> Seq(Buffered)]
         /\ trace' \in TraceType
         /\ dead' \subseteq Task
<1> DEFINE s0 == [space |-> available[n], queue |-> outbound[n],
                  kept |-> {}, full |-> {}, panic |-> FALSE]
           s1 == Enqueue(s0, n, copies[1], size)
           s  == IF Len(copies) = 1 THEN s1 ELSE Enqueue(s1, n, copies[2], size)
<1>1. s0 \in BufferState
  BY DEF TypeOK, BufferState
<1>2. copies[1] \in Id /\ (Len(copies) # 1 => copies[2] \in Id)
  OBVIOUS
<1>3. now \in Nat
  BY DEF TypeOK
<1>4. s1 \in BufferState
  BY <1>1, <1>2, <1>3, EnqueueType
<1>5. s \in BufferState
  BY <1>2, <1>3, <1>4, EnqueueType
<1>6. /\ available' = [available EXCEPT ![n] = s.space]
      /\ outbound' = [outbound EXCEPT ![n] = s.queue]
      /\ trace' = [x \in Id |-> IF x \in s.full THEN Recorded("DroppedBufferFull", n)
                                ELSE IF x \in s.kept THEN Recorded("InNode", n)
                                ELSE trace[x]]
      /\ dead' = IF s.panic THEN dead \cup {task} ELSE dead
  BY DEF StoreCopies
<1> HIDE DEF s
<1>7. s.space \in Nat /\ s.queue \in Seq(Buffered)
  BY <1>5 DEF BufferState
<1>8. available' \in [Node -> Nat] /\ outbound' \in [Node -> Seq(Buffered)]
  BY <1>6, <1>7 DEF TypeOK
<1>9. trace' \in TraceType
  BY <1>6 DEF TypeOK, TraceType, Recorded, Step
<1>10. dead' \subseteq Task
  BY <1>6 DEF TypeOK
<1> QED
  BY <1>8, <1>9, <1>10

LEMMA ForwardType ==
  ASSUME TypeOK, NEW n \in Node, NEW id \in Id, NEW d \in Data, NEW task \in Task,
         NEW fresh \in 1..(MaxPackets + 1), Forward(n, id, d, fresh, task)
  PROVE  ForwardTypes'
<1> USE ParameterAssumption
<1>1. d.size \in Size
  BY DEF Data
<1>2. ForwardTypes /\ trace \in TraceType /\ now \in Nat
  BY DEF TypeOK, ForwardTypes, TraceType
<1>3. {"DroppedOnArrival", "InNode", "DroppedRandom"} \subseteq Step
  BY DEF Step
<1>4. CASE ArriveAtDownNode(n, id, d, fresh)
  <2>1. trace' \in TraceType
    BY <1>2, <1>3, <1>4, TrackType DEF ArriveAtDownNode
  <2> QED
    BY <1>2, <1>4, <2>1 DEF ForwardTypes, ArriveAtDownNode
<1>5. CASE ArriveAtEndpoint(n, id, d, fresh)
  <2>1. trace' \in TraceType
    BY <1>2, <1>3, <1>5, TrackType DEF ArriveAtEndpoint
  <2>2. [id |-> id, arrival |-> now] \in [id: Id, arrival: Nat]
    BY <1>2
  <2> QED
    BY <1>2, <1>5, <2>1, <2>2 DEF ForwardTypes, ArriveAtEndpoint
<1>6. CASE DropRandomly(n, id, d, fresh)
  <2>1. trace' \in TraceType
    BY <1>2, <1>3, <1>6, TrackType DEF DropRandomly
  <2> QED
    BY <1>2, <1>6, <2>1 DEF ForwardTypes, DropRandomly
<1>7. CASE StorePacket(n, id, d, fresh, task)
  <2>1. <<id>> \in Seq(Id) /\ Len(<<id>>) \in {1, 2}
    OBVIOUS
  <2>2. /\ available' \in [Node -> Nat] /\ outbound' \in [Node -> Seq(Buffered)]
        /\ trace' \in TraceType /\ dead' \subseteq Task
    BY <1>1, <1>7, <2>1, StoreCopiesType DEF StorePacket
  <2> QED
    BY <1>2, <1>7, <2>2 DEF ForwardTypes, StorePacket
<1>8. CASE StoreDuplicated(n, id, d, fresh, task)
  <2>1. fresh \in Id /\ fresh + 1 \in 1..(MaxPackets + 1)
    BY <1>8 DEF StoreDuplicated, Id
  <2>2. <<id, fresh>> \in Seq(Id) /\ Len(<<id, fresh>>) \in {1, 2}
    BY <2>1
  <2>3. /\ available' \in [Node -> Nat] /\ outbound' \in [Node -> Seq(Buffered)]
        /\ trace' \in TraceType /\ dead' \subseteq Task
    BY <1>1, <1>8, <2>2, StoreCopiesType DEF StoreDuplicated
  <2> QED
    BY <1>2, <1>8, <2>1, <2>3 DEF ForwardTypes, StoreDuplicated
<1> QED
  BY <1>4, <1>5, <1>6, <1>7, <1>8 DEF Forward

LEMMA HostSendType ==
  ASSUME TypeOK, NEW f \in Flow, NEW size \in Size, NEW ecn \in HostEcn, HostSend(f, size, ecn)
  PROVE  TypeOK'
<1> DEFINE d == [number |-> nextId, src |-> f[1], dst |-> f[2], size |-> size, ecn |-> ecn]
<1>1. f[1] \in Node /\ f[2] \in Node /\ ecn \in Ecn
  BY ParameterAssumption
<1>2. nextId \in Id /\ nextId + 1 \in 1..(MaxPackets + 1)
  BY ParameterAssumption DEF TypeOK, HostSend, Id
<1>3. d \in Data
  BY <1>1, <1>2 DEF Data
<1>4. <<"host", f[1]>> \in Task
  BY <1>1, TaskNames
<1>5. Forward(f[1], nextId, d, nextId + 1, <<"host", f[1]>>)
  BY DEF HostSend
<1> HIDE DEF d
<1>6. ForwardTypes'
  BY <1>1, <1>2, <1>3, <1>4, <1>5, ForwardType
<1> QED
  BY <1>6 DEF HostSend, ForwardTypes, TraceType, TypeOK, clockVars, linkVars, nodeVars,
     dispatchVars, taskVars, transitVars

LEMMA HostReceiveType ==
  ASSUME TypeOK, NEW n \in Node, HostReceive(n)
  PROVE  TypeOK'
<1>1. PICK x \in inbound[n] : /\ inbound' = [inbound EXCEPT ![n] = @ \ {x}]
                              /\ Track(x.id, "Delivered", n)
  BY DEF HostReceive
<1>2. x.id \in Id /\ "Delivered" \in Step /\ trace \in TraceType
  BY DEF TypeOK, Step, TraceType
<1>3. trace' \in TraceType
  BY <1>1, <1>2, TrackType
<1>4. inbound' \in [Node -> SUBSET [id: Id, arrival: Nat]]
  BY <1>1 DEF TypeOK
<1> QED
  BY <1>3, <1>4 DEF HostReceive, TypeOK, TraceType, clockVars, linkVars, nodeVars,
     dispatchVars, taskVars, transitVars, packetVars

\* The copies of a packet that process_buffer_for_node hands to a link.
LEMMA DispatchCopies ==
  ASSUME TypeOK, NEW n \in Node, Dispatch(n)
  PROVE  LET p     == Head(outbound[n])
             links == Candidates[n][data[p.id].dst]
             copy  == [id |-> p.id, since |-> p.since, channel |-> nextChannel]
             Copies(l) == Cardinality({i \in Reached(links) : links[i] = l})
         IN  \A l \in Link : [k \in 1..Copies(l) |-> copy] \in Seq(Outgoing)
<1> DEFINE p     == Head(outbound[n])
           links == Candidates[n][data[p.id].dst]
           copy  == [id |-> p.id, since |-> p.since, channel |-> nextChannel]
           Copies(l) == Cardinality({i \in Reached(links) : links[i] = l})
<1>1. outbound[n] \in Seq(Buffered) /\ outbound[n] # <<>>
  BY DEF TypeOK, Dispatch
<1>2. p \in Buffered
  BY <1>1
<1>3. copy \in Outgoing
  BY <1>2 DEF Buffered, Outgoing, TypeOK
<1>4. links \in Seq(Link)
  BY <1>2, TopologyAssumption DEF Buffered, TypeOK, Data
<1>5. \A l \in Link : Copies(l) \in Nat
  <2> HIDE DEF links
  <2> TAKE l \in Link
  <2> DEFINE S == {i \in Reached(links) : links[i] = l}
  <2>1. DOMAIN links = 1..Len(links) /\ Len(links) \in Nat
    BY <1>4
  <2>2. IsFiniteSet(1..Len(links))
    BY <2>1, FS_Interval
  <2>3. S \in SUBSET (1..Len(links))
    BY <2>1 DEF Reached
  <2>4. IsFiniteSet(S)
    BY <2>2, <2>3, FS_Subset
  <2> QED
    BY <2>4, FS_CardinalityType
<1> HIDE DEF Copies, copy, links
<1>6. \A l \in Link : [k \in 1..Copies(l) |-> copy] \in Seq(Outgoing)
  BY <1>3, <1>5, IsASeq
<1> QED
  BY <1>6 DEF Copies, copy, links

LEMMA DispatchType ==
  ASSUME TypeOK, NEW n \in Node, Dispatch(n)
  PROVE  TypeOK'
<1> DEFINE p     == Head(outbound[n])
           links == Candidates[n][data[p.id].dst]
           copy  == [id |-> p.id, since |-> p.since, channel |-> nextChannel]
           Copies(l) == Cardinality({i \in Reached(links) : links[i] = l})
<1>1. outbound[n] \in Seq(Buffered) /\ outbound[n] # <<>>
  BY DEF TypeOK, Dispatch
<1>2. p \in Buffered /\ Tail(outbound[n]) \in Seq(Buffered)
  BY <1>1
<1>3. /\ outgoing' = [l \in Link |-> outgoing[l] \o [k \in 1..Copies(l) |-> copy]]
      /\ dead' = IF links = <<>> \/ Reached(links) # DOMAIN links
                 THEN dead \cup {<<"processor", n>>} ELSE dead
      /\ nextChannel' = IF links = <<>> THEN nextChannel ELSE nextChannel + 1
  BY DEF Dispatch
<1>4. \A l \in Link : [k \in 1..Copies(l) |-> copy] \in Seq(Outgoing)
  BY DispatchCopies
<1> HIDE DEF Copies, copy, links
<1>5. outgoing' \in [Link -> Seq(Outgoing)]
  <2>1. \A l \in Link : outgoing[l] \o [k \in 1..Copies(l) |-> copy] \in Seq(Outgoing)
    BY <1>4, ConcatProperties DEF TypeOK
  <2> QED
    BY <1>3, <2>1
<1>6. dead' \subseteq Task /\ nextChannel' \in Nat
  <2>1. dead' = dead \/ dead' = dead \cup {<<"processor", n>>}
    BY <1>3
  <2>2. nextChannel' = nextChannel \/ nextChannel' = nextChannel + 1
    BY <1>3
  <2>3. <<"processor", n>> \in Task
    BY TaskNames
  <2>4. dead \subseteq Task /\ nextChannel \in Nat
    BY DEF TypeOK
  <2> QED
    BY <2>1, <2>2, <2>3, <2>4
<1>7. outbound' \in [Node -> Seq(Buffered)]
  BY <1>2 DEF TypeOK, Dispatch
<1>8. running' \in Task \cup {NoTask}
  BY TaskNames DEF Dispatch
<1> QED
  BY <1>5, <1>6, <1>7, <1>8 DEF Dispatch, TypeOK, clockVars, linkVars, nodeVars,
     taskVars, transitVars, packetVars

LEMMA SetTimerType ==
  ASSUME TypeOK, NEW l \in Link, SetTimer(l)
  PROVE  TypeOK'
<1>1. EarliestArrival(inTransit[l]) \in Nat \cup {Never}
  BY EarliestArrivalType DEF TypeOK
<1>2. wakeAt' \in [Link -> Nat \cup {Never}]
  BY <1>1 DEF SetTimer, TypeOK
<1> QED
  BY <1>2 DEF SetTimer, TypeOK, clockVars, linkVars, nodeVars,
     taskVars, dispatchVars, packetVars

LEMMA DeliverNextType ==
  ASSUME TypeOK, NEW l \in Link, DeliverNext(l)
  PROVE  TypeOK'
<1>1. PICK x \in Arrived(inTransit[l]) :
        /\ \/ LoseInTransit(l, x)
           \/ Forward(Target[l], x.id, data[x.id], nextId, <<"forwarder", l>>)
        /\ LET rest == IF <<"forwarder", l>> \in dead'
                       THEN inTransit[l] \ Arrived(inTransit[l]) ELSE inTransit[l] \ {x}
           IN  /\ inTransit' = [inTransit EXCEPT ![l] = rest]
               /\ running' = IF Arrived(rest) = {} THEN NoTask ELSE <<"forwarder", l>>
               /\ wakeAt' = [wakeAt EXCEPT ![l] = EarliestArrival(rest)]
  BY DEF DeliverNext
<1> DEFINE rest == IF <<"forwarder", l>> \in dead'
                   THEN inTransit[l] \ Arrived(inTransit[l]) ELSE inTransit[l] \ {x}
<1>2. x \in inTransit[l] /\ x \in Transit /\ x.id \in Id
  BY DEF Arrived, TypeOK, Transit
<1>3. rest \in SUBSET Transit
  BY DEF TypeOK
<1>4. ForwardTypes'
  <2>1. CASE LoseInTransit(l, x)
    <3>1. trace \in TraceType /\ "LostInTransit" \in Step
      BY DEF TypeOK, TraceType, Step
    <3>2. trace' \in TraceType
      BY <1>2, <2>1, <3>1, TrackType DEF LoseInTransit
    <3> QED
      BY <2>1, <3>2 DEF LoseInTransit, ForwardTypes, TypeOK, packetVars
  <2>2. CASE Forward(Target[l], x.id, data[x.id], nextId, <<"forwarder", l>>)
    <3>1. Target[l] \in Node /\ data[x.id] \in Data /\ nextId \in 1..(MaxPackets + 1)
      BY <1>2, TopologyAssumption DEF TypeOK
    <3> QED
      BY <1>2, <2>2, <3>1, TaskNames, ForwardType
  <2> QED
    BY <1>1, <2>1, <2>2
<1>5. EarliestArrival(rest) \in Nat \cup {Never}
  BY <1>3, EarliestArrivalType
<1>6. /\ inTransit' = [inTransit EXCEPT ![l] = rest]
      /\ running' = IF Arrived(rest) = {} THEN NoTask ELSE <<"forwarder", l>>
      /\ wakeAt' = [wakeAt EXCEPT ![l] = EarliestArrival(rest)]
  BY <1>1
<1> HIDE DEF rest
<1>7. /\ inTransit' \in [Link -> SUBSET Transit]
      /\ wakeAt' \in [Link -> Nat \cup {Never}]
      /\ running' \in Task \cup {NoTask}
  BY <1>3, <1>5, <1>6, TaskNames DEF TypeOK
<1> QED
  BY <1>4, <1>7 DEF DeliverNext, ForwardTypes, TraceType, TypeOK, clockVars, linkVars,
     nodeVars, dispatchVars, taskVars

LEMMA EventType ==
  ASSUME TypeOK,
         \/ \E l \in EventLink, up \in BOOLEAN : LinkEvent(l, up)
         \/ \E n \in Node, up \in BOOLEAN, clear \in BOOLEAN : NodeEvent(n, up, clear)
         \/ Tick
  PROVE  TypeOK'
<1>1. ASSUME NEW l \in EventLink, NEW up \in BOOLEAN, LinkEvent(l, up)
      PROVE  TypeOK'
  <2>1. l \in Link
    BY ParameterAssumption
  <2>2. /\ linkUp' \in [Link -> BOOLEAN] /\ lastDown' \in [Link -> Nat \cup {Never}]
        /\ events' \in Nat
    BY <1>1, <2>1 DEF LinkEvent, TypeOK
  <2>3. /\ pc' \in [Link -> Waiting \cup {"idle"}]
        /\ \A k \in Link : pc'[k] \in Waiting => cur'[k] \in Outgoing
    BY <1>1, <2>1 DEF LinkEvent, TypeOK, Waiting
  <2> QED
    BY <1>1, <2>2, <2>3 DEF LinkEvent, TypeOK, nodeVars, dispatchVars, transitVars, packetVars
<1>2. ASSUME NEW n \in Node, NEW up \in BOOLEAN, NEW clear \in BOOLEAN, NodeEvent(n, up, clear)
      PROVE  TypeOK'
  <2>1. /\ nodeUp' \in [Node -> BOOLEAN] /\ lastClear' \in [Node -> Nat \cup {Never}]
        /\ events' \in Nat
    BY <1>2 DEF NodeEvent, TypeOK
  <2>2. /\ pc' \in [Link -> Waiting \cup {"idle"}]
        /\ \A k \in Link : pc'[k] \in Waiting => cur'[k] \in Outgoing
    BY <1>2 DEF NodeEvent, TypeOK, Waiting
  <2> QED
    BY <1>2, <2>1, <2>2 DEF NodeEvent, TypeOK, linkVars, dispatchVars, transitVars, packetVars
<1>3. ASSUME Tick
      PROVE  TypeOK'
  BY <1>3 DEF Tick, TypeOK, linkVars, nodeVars, taskVars, dispatchVars, transitVars, packetVars
<1> QED
  BY <1>1, <1>2, <1>3

-----------------------------------------------------------------------------
(* The steps of process_link_queue.                                         *)

\* The part of the type invariant that a link task can disturb.
LinkTaskTypes ==
  /\ running \in Task \cup {NoTask}
  /\ sendDone \in [Link -> Nat]
  /\ available \in [Node -> Nat]
  /\ handled \subseteq Nat
  /\ pc \in [Link -> Waiting \cup {"idle"}]
  /\ cur \in [Link -> Outgoing \cup {NoPacket}]
  /\ \A l \in Link : pc[l] \in Waiting => cur[l] \in Outgoing
  /\ ahead \in [Link -> Nat]
  /\ inTransit \in [Link -> SUBSET Transit]
  /\ data \in [Id -> Data]
  /\ trace \in TraceType
  /\ dead \subseteq Task

LEMMA GoIdleType ==
  ASSUME TypeOK, NEW l \in Link, GoIdle(l)
  PROVE  /\ running' \in Task \cup {NoTask}
         /\ pc' \in [Link -> Waiting \cup {"idle"}]
         /\ cur' \in [Link -> Outgoing \cup {NoPacket}]
         /\ \A k \in Link : pc'[k] \in Waiting => cur'[k] \in Outgoing
         /\ ahead' \in [Link -> Nat]
<1>1. running' \in Task \cup {NoTask}
  BY TaskNames DEF GoIdle
<1>2. "idle" \notin Waiting
  BY DEF Waiting
<1> QED
  BY <1>1, <1>2 DEF GoIdle, TypeOK

LEMMA AwaitType ==
  ASSUME TypeOK, NEW l \in Link, NEW where \in Waiting, NEW o \in Outgoing, NEW k \in Nat,
         Await(l, where, o, k)
  PROVE  LinkTaskTypes'
BY DEF Await, TypeOK, LinkTaskTypes, TraceType

LEMMA TransmitType ==
  ASSUME TypeOK, NEW l \in Link, NEW o \in Outgoing, Transmit(l, o)
  PROVE  LinkTaskTypes'
<1>1. o.id \in Id /\ o.channel \in Nat /\ Source[l] \in Node
  BY TopologyAssumption DEF Outgoing
<1>2. handled' \subseteq Nat
  BY <1>1 DEF Transmit, TypeOK
<1>3. trace \in TraceType /\ {"DroppedBufferCleared", "InTransit"} \subseteq Step
  BY DEF TypeOK, TraceType, Step
<1>4. CASE DropCleared(l, o)
  <2>1. GoIdle(l)
    BY <1>4 DEF DropCleared
  <2>2. trace' \in TraceType
    BY <1>1, <1>3, <1>4, TrackType DEF DropCleared
  <2> QED
    BY <1>2, <1>4, <2>1, <2>2, GoIdleType DEF DropCleared, TypeOK, LinkTaskTypes
<1>5. ASSUME NEW congestion \in CongestionDraw(l), NEW extra \in ExtraDelayDraw(l),
             SendOnLink(l, o, congestion, extra)
      PROVE  LinkTaskTypes'
  <2>1. GoIdle(l)
    BY <1>5 DEF SendOnLink
  <2>2. trace' \in TraceType
    BY <1>1, <1>3, <1>5, TrackType DEF SendOnLink
  <2>3. extra \in Nat /\ Delay[l] \in Nat /\ now \in Nat
    BY ParameterAssumption DEF ExtraDelayDraw, TypeOK
  <2>4. data[o.id] \in Data /\ data[o.id].size \in Size /\ data[o.id].size \in Nat
    BY <1>1, ParameterAssumption DEF TypeOK, Data
  <2>5. data' \in [Id -> Data]
    <3>1. [data[o.id] EXCEPT !.ecn = "ce"] \in Data
      BY <2>4 DEF Data, Ecn
    <3>2. data' = data \/ data' = [data EXCEPT ![o.id] = [data[o.id] EXCEPT !.ecn = "ce"]]
      BY <1>5 DEF SendOnLink
    <3> QED
      BY <3>1, <3>2, <1>1 DEF TypeOK
  <2>6. sendDone' \in [Link -> Nat]
    <3>1. SendDuration(l, data[o.id].size) \in Nat
      BY <2>4, SendDurationType
    <3> QED
      BY <1>5, <2>3, <3>1 DEF SendOnLink, TypeOK
  <2>7. available' \in [Node -> Nat]
    BY <1>1, <1>5, <2>4 DEF SendOnLink, TypeOK
  <2>8. inTransit' \in [Link -> SUBSET Transit]
    <3>1. [id |-> o.id, sent |-> now, arrival |-> now + Delay[l] + extra] \in Transit
      BY <1>1, <2>3 DEF Transit
    <3> QED
      BY <1>5, <3>1 DEF SendOnLink, TypeOK
  <2>9. dead' \subseteq Task
    BY <1>5 DEF SendOnLink, TypeOK
  <2> QED
    BY <1>2, <2>1, <2>2, <2>5, <2>6, <2>7, <2>8, <2>9, GoIdleType DEF LinkTaskTypes
<1>6. ASSUME NEW congestion \in CongestionDraw(l), SendPanics(l, o, congestion)
      PROVE  LinkTaskTypes'
  <2>1. GoIdle(l)
    BY <1>6 DEF SendPanics
  <2>2. dead' \subseteq Task
    BY <1>6, TaskNames DEF SendPanics, TypeOK
  <2> QED
    BY <1>2, <1>3, <1>6, <2>1, <2>2, GoIdleType DEF SendPanics, TypeOK, LinkTaskTypes
<1> QED
  BY <1>4, <1>5, <1>6 DEF Transmit

LEMMA OfferType ==
  ASSUME TypeOK, NEW l \in Link, NEW o \in Outgoing, NEW k \in Nat, Offer(l, o, k)
  PROVE  LinkTaskTypes'
<1>1. CASE k = 0
  BY <1>1, TransmitType DEF Offer
<1>2. CASE k # 0
  <2>1. "yield" \in Waiting /\ k - 1 \in Nat
    BY <1>2 DEF Waiting
  <2> QED
    BY <1>2, <2>1, AwaitType DEF Offer
<1> QED
  BY <1>1, <1>2

\* What every way through sleep_until_ready_to_send and the yield loop does:
\* wait at some point, or offer the packet.
LEMMA OfferFromTopType ==
  ASSUME TypeOK, NEW l \in Link, NEW o \in Outgoing, Offer(l, o, LinksAhead(l, data[o.id].dst))
  PROVE  LinkTaskTypes'
<1>1. data[o.id].dst \in Node
  BY DEF TypeOK, Outgoing, Data
<1> QED
  BY <1>1, LinksAheadType, OfferType

LEMMA LoopTopType ==
  ASSUME TypeOK, NEW l \in Link, NEW o \in Outgoing, LoopTop(l, o)
  PROVE  LinkTaskTypes'
<1>1. {"linkDown", "nodeDown"} \subseteq Waiting
  BY DEF Waiting
<1> QED
  BY <1>1, AwaitType, OfferFromTopType DEF LoopTop

LEMMA LinkTaskType ==
  ASSUME TypeOK, NEW l \in Link, LinkTask(l)
  PROVE  TypeOK'
<1>1. {"linkDown", "nodeDown", "bandwidth"} \subseteq Waiting
  BY DEF Waiting
<1>2. CASE TakePacket(l)
  <2> DEFINE o == Head(outgoing[l])
  <2>1. outgoing[l] \in Seq(Outgoing) /\ outgoing[l] # <<>>
    BY <1>2 DEF TakePacket, TypeOK
  <2>2. o \in Outgoing /\ Tail(outgoing[l]) \in Seq(Outgoing)
    BY <2>1
  <2>3. outgoing' \in [Link -> Seq(Outgoing)]
    BY <1>2, <2>2 DEF TakePacket, TypeOK
  <2>4. \/ /\ UNCHANGED <<handled, sendDone, available, inTransit, data, trace, dead>>
           /\ GoIdle(l)
        \/ Offer(l, o, LinksAhead(l, data[o.id].dst))
        \/ Await(l, "bandwidth", o, 0)
        \/ LoopTop(l, o)
        \/ WaitPanics(l)
    BY <1>2 DEF TakePacket
  <2> HIDE DEF o
  <2>5. LinkTaskTypes'
    <3>1. CASE /\ UNCHANGED <<handled, sendDone, available, inTransit, data, trace, dead>>
               /\ GoIdle(l)
      BY <3>1, GoIdleType DEF TypeOK, LinkTaskTypes, TraceType
    <3>2. CASE WaitPanics(l)
      <4>1. dead' \subseteq Task
        BY <3>2, TaskNames DEF WaitPanics, TypeOK
      <4> QED
        BY <3>2, <4>1, GoIdleType DEF WaitPanics, TypeOK, LinkTaskTypes, TraceType
    <3> QED
      BY <1>1, <2>2, <2>4, <3>1, <3>2, AwaitType, OfferFromTopType, LoopTopType
  <2> QED
    BY <1>2, <2>3, <2>5 DEF TakePacket, TypeOK, LinkTaskTypes, TraceType, linkTaskFrame,
       clockVars, linkVars, nodeVars
<1>3. CASE Discard(l)
  <2>1. LinkTaskTypes'
    BY <1>3, GoIdleType DEF Discard, TypeOK, LinkTaskTypes, TraceType
  <2> QED
    BY <1>3, <2>1 DEF Discard, TypeOK, LinkTaskTypes, TraceType, linkTaskFrame,
       clockVars, linkVars, nodeVars
<1>4. CASE Resume(l)
  <2>1. cur[l] \in Outgoing /\ ahead[l] \in Nat
    BY <1>4 DEF Resume, TypeOK
  <2>2. \/ LoopTop(l, cur[l]) \/ AfterLinkUp(l, cur[l]) \/ AfterNodeUp(l, cur[l])
        \/ Offer(l, cur[l], ahead[l])
    BY <1>4 DEF Resume
  <2>3. \/ LoopTop(l, cur[l]) \/ Await(l, "nodeDown", cur[l], 0) \/ Await(l, "linkDown", cur[l], 0)
        \/ Offer(l, cur[l], ahead[l]) \/ Offer(l, cur[l], LinksAhead(l, data[cur[l].id].dst))
    BY <2>2 DEF AfterLinkUp, AfterNodeUp
  <2>4. LinkTaskTypes'
    BY <1>1, <2>1, <2>3, AwaitType, OfferType, OfferFromTopType, LoopTopType
  <2> QED
    BY <1>4, <2>4 DEF Resume, TypeOK, LinkTaskTypes, TraceType, linkTaskFrame,
       clockVars, linkVars, nodeVars
<1> QED
  BY <1>2, <1>3, <1>4 DEF LinkTask

-----------------------------------------------------------------------------
LEMMA NextTypeOK == TypeOK /\ [Next]_vars => TypeOK'
<1> SUFFICES ASSUME TypeOK, [Next]_vars
             PROVE  TypeOK'
  OBVIOUS
<1>1. CASE UNCHANGED vars
  BY <1>1 DEF vars, TypeOK, clockVars, linkVars, nodeVars, dispatchVars, taskVars,
     transitVars, packetVars
<1>2. ASSUME NEW n \in ClearNode, NEW up \in {nodeUp[n]} \cup {u \in BOOLEAN : n \in EventNode},
             NodeEvent(n, up, TRUE)
      PROVE  TypeOK'
  <2>1. n \in Node /\ up \in BOOLEAN
    BY ParameterAssumption DEF TypeOK
  <2> QED
    BY <1>2, <2>1, EventType
<1>3. ASSUME NEW n \in EventNode, NEW up \in BOOLEAN, NodeEvent(n, up, FALSE)
      PROVE  TypeOK'
  <2>1. n \in Node
    BY ParameterAssumption
  <2> QED
    BY <1>3, <2>1, EventType
<1> QED
  BY <1>1, <1>2, <1>3, HostSendType, HostReceiveType, DispatchType, LinkTaskType, SetTimerType,
     DeliverNextType, EventType DEF Next, Forwarder

\* Type correctness, whatever the network: in particular the free space of a
\* buffer never wraps below zero (OutboundBuffer::reserve and release), and a
\* link task that waits always holds the packet it waits for.
THEOREM TypeCorrect == Spec => []TypeOK
BY InitTypeOK, NextTypeOK, PTL DEF Spec

-----------------------------------------------------------------------------
(* Wake-ups.                                                                *)

\* Where a step of l's task leaves it, and what it has then seen.
LEMMA LinkTaskWaits ==
  ASSUME TypeOK, NEW l \in Link, LinkTask(l)
  PROVE  /\ UNCHANGED <<linkUp, nodeUp>>
         /\ \E w \in Waiting \cup {"idle"} :
              /\ pc' = [pc EXCEPT ![l] = w]
              /\ w = "linkDown" => ~linkUp[l]
              /\ w = "nodeDown" => ~nodeUp[Source[l]]
<1> DEFINE Ends(w) == pc' = [pc EXCEPT ![l] = w]
           Right == \E w \in Waiting \cup {"idle"} :
                      /\ Ends(w)
                      /\ w = "linkDown" => ~linkUp[l]
                      /\ w = "nodeDown" => ~nodeUp[Source[l]]
<1>1. {"bandwidth", "linkDown", "nodeDown", "yield"} \subseteq Waiting
  BY DEF Waiting
<1>2. GoIdle(l) => Ends("idle")
  BY DEF GoIdle
<1>3. \A w, o, k : Await(l, w, o, k) => Ends(w)
  BY DEF Await
<1>4. \A o : Transmit(l, o) => Ends("idle")
  BY <1>2 DEF Transmit, DropCleared, SendOnLink, SendPanics
<1>5. \A o, k : Offer(l, o, k) => Ends("idle") \/ Ends("yield")
  BY <1>3, <1>4 DEF Offer
<1> HIDE DEF Ends
<1>6. \A o : LoopTop(l, o) => Right
  BY <1>1, <1>3, <1>5 DEF LoopTop
<1>7. ASSUME TakePacket(l)
      PROVE  Right
  <2>1. \/ GoIdle(l)
        \/ \E o : \/ Offer(l, o, LinksAhead(l, data[o.id].dst))
                  \/ Await(l, "bandwidth", o, 0)
                  \/ LoopTop(l, o)
    BY <1>7 DEF TakePacket, WaitPanics
  <2> QED
    BY <1>1, <1>2, <1>3, <1>5, <1>6, <2>1
<1>8. ASSUME Discard(l)
      PROVE  Right
  BY <1>2, <1>8 DEF Discard
<1>9. ASSUME Resume(l)
      PROVE  Right
  <2>1. \/ \E o : LoopTop(l, o) \/ AfterLinkUp(l, o) \/ AfterNodeUp(l, o)
        \/ \E o, k : Offer(l, o, k)
    BY <1>9 DEF Resume
  <2> QED
    BY <1>1, <1>3, <1>5, <1>6, <2>1 DEF AfterLinkUp, AfterNodeUp
<1>10. UNCHANGED <<linkUp, nodeUp>>
  BY DEF LinkTask, TakePacket, Discard, Resume, linkTaskFrame, linkVars, nodeVars
<1>11. Right
  BY <1>7, <1>8, <1>9 DEF LinkTask
<1> QED
  BY <1>10, <1>11 DEF Ends

\* Together with the types, NoLostWakeup is inductive.
LEMMA NextNoLostWakeup == TypeOK /\ NoLostWakeup /\ [Next]_vars => NoLostWakeup'
<1> SUFFICES ASSUME TypeOK, NoLostWakeup, [Next]_vars
             PROVE  NoLostWakeup'
  OBVIOUS
<1> USE DEF NoLostWakeup
<1>1. ASSUME UNCHANGED <<pc, linkUp, nodeUp>>
      PROVE  NoLostWakeup'
  BY <1>1
<1>2. ASSUME NEW l \in Link, LinkTask(l)
      PROVE  NoLostWakeup'
  <2>1. PICK w \in Waiting \cup {"idle"} :
          /\ pc' = [pc EXCEPT ![l] = w]
          /\ w = "linkDown" => ~linkUp[l]
          /\ w = "nodeDown" => ~nodeUp[Source[l]]
    BY <1>2, LinkTaskWaits
  <2>2. UNCHANGED <<linkUp, nodeUp>>
    BY <1>2, LinkTaskWaits
  <2>3. \A k \in Link : pc'[k] = IF k = l THEN w ELSE pc[k]
    BY <2>1 DEF TypeOK
  <2> QED
    BY <2>1, <2>2, <2>3
<1>3. ASSUME NEW l \in Link, NEW up \in BOOLEAN, LinkEvent(l, up)
      PROVE  NoLostWakeup'
  BY <1>3 DEF LinkEvent, TypeOK, nodeVars
<1>4. ASSUME NEW n \in Node, NEW up \in BOOLEAN, NEW clear \in BOOLEAN, NodeEvent(n, up, clear)
      PROVE  NoLostWakeup'
  BY <1>4, TopologyAssumption DEF NodeEvent, TypeOK, linkVars
<1>5. ASSUME NEW n \in ClearNode, NEW up \in {nodeUp[n]} \cup {u \in BOOLEAN : n \in EventNode},
             NodeEvent(n, up, TRUE)
      PROVE  NoLostWakeup'
  <2>1. n \in Node /\ up \in BOOLEAN
    BY ParameterAssumption DEF TypeOK
  <2> QED
    BY <1>4, <1>5, <2>1
<1>6. ASSUME \/ \E f \in Flow, size \in Size, ecn \in HostEcn : HostSend(f, size, ecn)
             \/ \E n \in Node : HostReceive(n) \/ Dispatch(n)
             \/ \E l \in Link : Forwarder(l)
             \/ Tick
             \/ UNCHANGED vars
      PROVE  UNCHANGED <<pc, linkUp, nodeUp>>
  BY <1>6 DEF HostSend, HostReceive, Dispatch, Forwarder, SetTimer, DeliverNext, Tick, vars,
     taskVars, linkVars, nodeVars
<1>7. EventLink \subseteq Link /\ EventNode \subseteq Node
  BY ParameterAssumption
<1> QED
  BY <1>1, <1>2, <1>3, <1>4, <1>5, <1>6, <1>7 DEF Next

\* No wake-up is lost, in any network and under any sequence of events: a link
\* task asleep until its link (node) comes up sleeps only while it is down
\* (sleep_until_ready_to_send against update_status of links and nodes).
THEOREM NoWakeupIsLost == Spec => []NoLostWakeup
<1>1. Init => NoLostWakeup
  BY DEF Init, NoLostWakeup
<1> QED
  BY <1>1, TypeCorrect, NextNoLostWakeup, PTL DEF Spec

-----------------------------------------------------------------------------
(* The pacer keeps the packets on a link apart (PacketPacer, link.rs).       *)
(* PacedSends is not inductive: that the next packet is late enough follows  *)
(* from sendDone, and sendDone speaks of sizes that nobody changes because   *)
(* packet ids are never used twice.                                          *)

\* Every packet in a queue of the network was given its id (new_packet_id).
BornIds ==
  /\ \A n \in Node : \A i \in DOMAIN outbound[n] : outbound[n][i].id < nextId
  /\ \A l \in Link : \A i \in DOMAIN outgoing[l] : outgoing[l][i].id < nextId
  /\ \A l \in Link : pc[l] \in Waiting => cur[l].id < nextId
  /\ \A l \in Link : \A x \in inTransit[l] : x.id < nextId

\* The pacer's send_done is past the sending of every packet on the link.
PacedUntil ==
  \A l \in Link : \A x \in inTransit[l] :
    x.sent + SendDuration(l, data[x.id].size) <= sendDone[l]

PacingInv == TypeOK /\ BornIds /\ PacedUntil /\ PacedSends

-----------------------------------------------------------------------------
\* Enqueue puts no other packet into a buffer than the one it is given.
LEMMA EnqueueIds ==
  ASSUME NEW s \in BufferState, NEW n \in Node, NEW id \in Id, NEW size \in Size, now \in Nat,
         NEW bound \in Nat, id < bound, \A i \in DOMAIN s.queue : s.queue[i].id < bound
  PROVE  LET q == Enqueue(s, n, id, size).queue IN \A i \in DOMAIN q : q[i].id < bound
<1> DEFINE p == [id |-> id, since |-> now]
           q == Enqueue(s, n, id, size).queue
<1>1. s.queue \in Seq(Buffered) /\ p \in Buffered
  BY DEF BufferState, Buffered
<1>2. q = s.queue \/ q = Append(s.queue, p)
  BY DEF Enqueue, BufferState
<1>3. \A i \in DOMAIN Append(s.queue, p) :
        Append(s.queue, p)[i] = p \/ (i \in DOMAIN s.queue /\ Append(s.queue, p)[i] = s.queue[i])
  BY <1>1, AppendProperties
<1> HIDE DEF q
<1>4. \A i \in DOMAIN q : q[i].id < bound
  BY <1>2, <1>3
<1> QED
  BY <1>4 DEF q

\* Storing a packet or its two copies in a buffer.
LEMMA StoreCopiesIds ==
  ASSUME TypeOK, NEW n \in Node, NEW task \in Task, NEW size \in Size,
         NEW copies \in Seq(Id), Len(copies) \in {1, 2},
         StoreCopies(n, copies, size, task),
         NEW bound \in Nat, \A i \in DOMAIN copies : copies[i] < bound,
         \A m \in Node : \A i \in DOMAIN outbound[m] : outbound[m][i].id < bound
  PROVE  \A m \in Node : \A i \in DOMAIN outbound'[m] : outbound'[m][i].id < bound
<1> DEFINE s0 == [space |-> available[n], queue |-> outbound[n],
                  kept |-> {}, full |-> {}, panic |-> FALSE]
           s1 == Enqueue(s0, n, copies[1], size)
           s  == IF Len(copies) = 1 THEN s1 ELSE Enqueue(s1, n, copies[2], size)
<1>1. s0 \in BufferState /\ now \in Nat
  BY DEF TypeOK, BufferState
<1>2. /\ copies[1] \in Id /\ copies[1] < bound
      /\ Len(copies) # 1 => copies[2] \in Id /\ copies[2] < bound
  OBVIOUS
<1>3. s1 \in BufferState
  BY <1>1, <1>2, EnqueueType
<1>4. \A i \in DOMAIN s1.queue : s1.queue[i].id < bound
  <2>1. \A i \in DOMAIN s0.queue : s0.queue[i].id < bound
    OBVIOUS
  <2> HIDE DEF s0
  <2> QED
    BY <1>1, <1>2, <2>1, EnqueueIds
<1> HIDE DEF s1
<1>5. \A i \in DOMAIN s.queue : s.queue[i].id < bound
  BY <1>1, <1>2, <1>3, <1>4, EnqueueIds
<1>6. outbound' = [outbound EXCEPT ![n] = s.queue]
  BY DEF StoreCopies, s1
<1> HIDE DEF s
<1> QED
  BY <1>5, <1>6 DEF TypeOK

\* Forwarding creates ids from `fresh' on and leaves known packets as they are.
LEMMA ForwardIds ==
  ASSUME TypeOK, BornIds, NEW n \in Node, NEW id \in Id, NEW d \in Data, NEW task \in Task,
         NEW fresh \in 1..(MaxPackets + 1), Forward(n, id, d, fresh, task),
         id < fresh, nextId <= fresh, id < nextId => d = data[id]
  PROVE  /\ nextId' \in Nat /\ nextId' >= nextId /\ id < nextId'
         /\ \A i \in Id : i < nextId => data'[i] = data[i]
         /\ \A m \in Node : \A i \in DOMAIN outbound'[m] : outbound'[m][i].id < nextId'
<1> USE ParameterAssumption
<1>1. d.size \in Size /\ id \in Nat /\ nextId \in Nat /\ fresh \in Nat
  BY DEF Data, Id, TypeOK
<1>2. /\ \A m \in Node : \A i \in DOMAIN outbound[m] : outbound[m][i].id < fresh
      /\ \A m \in Node : \A i \in DOMAIN outbound[m] : outbound[m][i].id < fresh + 1
  <2>1. ASSUME NEW m \in Node, NEW i \in DOMAIN outbound[m]
        PROVE  outbound[m][i].id < fresh /\ outbound[m][i].id < fresh + 1
    <3>1. outbound[m] \in Seq(Buffered)
      BY DEF TypeOK
    <3>2. outbound[m][i] \in Buffered
      BY <3>1
    <3>3. outbound[m][i].id \in Nat /\ outbound[m][i].id < nextId
      BY <3>2 DEF Buffered, Id, BornIds
    <3> QED
      BY <1>1, <3>3
  <2> QED
    BY <2>1
<1>3. CASE \/ ArriveAtDownNode(n, id, d, fresh) \/ ArriveAtEndpoint(n, id, d, fresh)
           \/ DropRandomly(n, id, d, fresh)
  <2>1. outbound' = outbound /\ nextId' = fresh /\ data' = [data EXCEPT ![id] = d]
    BY <1>3 DEF ArriveAtDownNode, ArriveAtEndpoint, DropRandomly
  <2> QED
    BY <1>1, <1>2, <2>1 DEF TypeOK
<1>4. CASE StorePacket(n, id, d, fresh, task)
  <2>1. <<id>> \in Seq(Id) /\ Len(<<id>>) \in {1, 2} /\ \A i \in DOMAIN <<id>> : <<id>>[i] < fresh
    OBVIOUS
  <2>2. \A m \in Node : \A i \in DOMAIN outbound'[m] : outbound'[m][i].id < fresh
    BY <1>1, <1>2, <1>4, <2>1, StoreCopiesIds DEF StorePacket
  <2> QED
    BY <1>1, <1>4, <2>2 DEF StorePacket, TypeOK
<1>5. CASE StoreDuplicated(n, id, d, fresh, task)
  <2>1. fresh \in Id
    BY <1>5 DEF StoreDuplicated, Id
  <2>2. /\ <<id, fresh>> \in Seq(Id) /\ Len(<<id, fresh>>) \in {1, 2}
        /\ \A i \in DOMAIN <<id, fresh>> : <<id, fresh>>[i] < fresh + 1
    BY <1>1, <2>1
  <2>3. fresh + 1 \in Nat
    BY <1>1
  <2>4. \A m \in Node : \A i \in DOMAIN outbound'[m] : outbound'[m][i].id < fresh + 1
    BY <1>1, <1>2, <1>5, <2>2, <2>3, StoreCopiesIds DEF StoreDuplicated
  <2> QED
    BY <1>1, <1>5, <2>4 DEF StoreDuplicated, TypeOK
<1> QED
  BY <1>3, <1>4, <1>5 DEF Forward

-----------------------------------------------------------------------------
(* A step of a link's task, whichever way it takes through                  *)
(* process_link_queue: it comes by a packet and lets it go, waits with it   *)
(* or transmits it.                                                         *)

ComesBy(l, o) ==
  \/ /\ pc[l] = "idle" /\ outgoing[l] # <<>> /\ o = Head(outgoing[l])
     /\ outgoing' = [outgoing EXCEPT ![l] = Tail(@)]
  \/ pc[l] \in Waiting /\ o = cur[l] /\ outgoing' = outgoing

LetsGo(l, o) ==
  /\ o.channel \in handled
  /\ UNCHANGED <<handled, sendDone, available, inTransit, data, trace, dead>>
  /\ GoIdle(l)

LEMMA OfferCases ==
  ASSUME NEW l \in Link, NEW o \in Outgoing, NEW k \in Nat, Offer(l, o, k)
  PROVE  \/ Transmit(l, o)
         \/ \E w \in Waiting, j \in Nat : Await(l, w, o, j)
<1>1. "yield" \in Waiting /\ (k # 0 => k - 1 \in Nat)
  BY DEF Waiting
<1> QED
  BY <1>1 DEF Offer

LEMMA LinkTaskCases ==
  ASSUME TypeOK, NEW l \in Link, LinkTask(l)
  PROVE  /\ UNCHANGED linkTaskFrame
         /\ \E o \in Outgoing :
              /\ ComesBy(l, o)
              /\ \/ LetsGo(l, o)
                 \/ WaitPanics(l)
                 \/ /\ o.channel \notin handled
                    /\ \/ \E w \in Waiting, k \in Nat : Await(l, w, o, k)
                       \/ Transmit(l, o)
<1> DEFINE Goes(o) == \/ \E w \in Waiting, k \in Nat : Await(l, w, o, k)
                      \/ Transmit(l, o)
<1>1. UNCHANGED linkTaskFrame
  BY DEF LinkTask, TakePacket, Discard, Resume
<1>2. \A w \in {"bandwidth", "linkDown", "nodeDown"}, o \in Outgoing : Await(l, w, o, 0) => Goes(o)
  <2>1. {"bandwidth", "linkDown", "nodeDown"} \subseteq Waiting /\ 0 \in Nat
    BY DEF Waiting
  <2> QED
    BY <2>1
<1>3. \A o \in Outgoing : Offer(l, o, LinksAhead(l, data[o.id].dst)) => Goes(o)
  <2>1. \A o \in Outgoing : LinksAhead(l, data[o.id].dst) \in Nat
    BY LinksAheadType DEF TypeOK, Outgoing, Data
  <2> QED
    BY <2>1, OfferCases
<1>4. \A o \in Outgoing, k \in Nat : Offer(l, o, k) => Goes(o)
  BY OfferCases
<1> HIDE DEF Goes
<1>5. \A o \in Outgoing : LoopTop(l, o) => Goes(o)
  BY <1>2, <1>3 DEF LoopTop
<1>6. CASE TakePacket(l)
  <2> DEFINE o == Head(outgoing[l])
  <2>1. outgoing[l] \in Seq(Outgoing) /\ outgoing[l] # <<>>
    BY <1>6 DEF TakePacket, TypeOK
  <2>2. o \in Outgoing
    BY <2>1
  <2>3. ComesBy(l, o)
    BY <1>6 DEF TakePacket, ComesBy
  <2>4. \/ LetsGo(l, o)
        \/ WaitPanics(l)
        \/ /\ o.channel \notin handled
           /\ \/ Offer(l, o, LinksAhead(l, data[o.id].dst))
              \/ Await(l, "bandwidth", o, 0)
              \/ LoopTop(l, o)
    BY <1>6 DEF TakePacket, LetsGo
  <2> HIDE DEF o
  <2>5. LetsGo(l, o) \/ WaitPanics(l) \/ (o.channel \notin handled /\ Goes(o))
    BY <1>2, <1>3, <1>5, <2>2, <2>4
  <2> QED
    BY <1>1, <2>2, <2>3, <2>5 DEF Goes
<1>7. CASE Discard(l)
  <2>1. cur[l] \in Outgoing /\ ComesBy(l, cur[l]) /\ LetsGo(l, cur[l])
    BY <1>7 DEF Discard, ComesBy, LetsGo, TypeOK
  <2> QED
    BY <1>1, <2>1
<1>8. CASE Resume(l)
  <2>1. cur[l] \in Outgoing /\ ahead[l] \in Nat /\ ComesBy(l, cur[l])
    BY <1>8 DEF Resume, ComesBy, TypeOK
  <2>2. cur[l].channel \notin handled
    BY <1>8 DEF Resume
  <2>3. \/ LoopTop(l, cur[l]) \/ AfterLinkUp(l, cur[l]) \/ AfterNodeUp(l, cur[l])
        \/ Offer(l, cur[l], ahead[l])
    BY <1>8 DEF Resume
  <2>4. Goes(cur[l])
    BY <1>2, <1>3, <1>4, <1>5, <2>1, <2>3 DEF AfterLinkUp, AfterNodeUp
  <2> QED
    BY <1>1, <2>1, <2>2, <2>4 DEF Goes
<1> QED
  BY <1>6, <1>7, <1>8 DEF LinkTask

-----------------------------------------------------------------------------
(* The invariant is preserved.                                              *)

\* Steps that send nothing on a link, and leave the known packets alone.
LEMMA PacingKept ==
  ASSUME PacingInv, sendDone' = sendDone, nextId' \in Nat, nextId' >= nextId,
         \A l \in Link : inTransit'[l] \subseteq inTransit[l],
         \A i \in Id : i < nextId => data'[i].size = data[i].size
  PROVE  /\ PacedUntil' /\ PacedSends'
         /\ \A l \in Link : \A x \in inTransit'[l] : x.id < nextId'
<1>1. ASSUME NEW l \in Link, NEW x \in inTransit'[l]
      PROVE  /\ x \in inTransit[l] /\ x.id \in Id /\ x.id \in Nat /\ x.id < nextId
             /\ data'[x.id].size = data[x.id].size
  BY <1>1 DEF PacingInv, TypeOK, BornIds, Transit, Id
<1>2. \A l \in Link : \A x \in inTransit'[l] :
        SendDuration(l, data'[x.id].size) = SendDuration(l, data[x.id].size)
  BY <1>1 DEF SendDuration
<1>3. PacedUntil'
  BY <1>1, <1>2 DEF PacingInv, PacedUntil
<1>4. PacedSends'
  BY <1>1, <1>2 DEF PacingInv, PacedSends
<1>5. nextId \in Nat
  BY DEF PacingInv, TypeOK
<1> QED
  BY <1>1, <1>3, <1>4, <1>5

\* The queues in front of the links.
QueuedBorn ==
  /\ \A l \in Link : \A i \in DOMAIN outgoing[l] : outgoing[l][i].id < nextId
  /\ \A l \in Link : pc[l] \in Waiting => cur[l].id < nextId

LEMMA QueuedBornKept ==
  ASSUME TypeOK, BornIds, nextId' \in Nat, nextId' >= nextId,
         UNCHANGED <<outgoing, cur>>, \A l \in Link : pc'[l] \in Waiting => pc[l] \in Waiting
  PROVE  QueuedBorn'
<1>1. ASSUME NEW l \in Link, NEW i \in DOMAIN outgoing[l]
      PROVE  outgoing[l][i].id \in Nat
  <2>1. outgoing[l] \in Seq(Outgoing)
    BY DEF TypeOK
  <2>2. outgoing[l][i] \in Outgoing
    BY <2>1
  <2> QED
    BY <2>2 DEF Outgoing, Id
<1>2. ASSUME NEW l \in Link, pc[l] \in Waiting
      PROVE  cur[l].id \in Nat
  BY <1>2 DEF TypeOK, Outgoing, Id
<1>3. nextId \in Nat
  BY DEF TypeOK
<1> QED
  BY <1>1, <1>2, <1>3 DEF BornIds, QueuedBorn

LEMMA HostSendPacing ==
  ASSUME PacingInv, NEW f \in Flow, NEW size \in Size, NEW ecn \in HostEcn, HostSend(f, size, ecn)
  PROVE  BornIds' /\ PacedUntil' /\ PacedSends'
<1> DEFINE d == [number |-> nextId, src |-> f[1], dst |-> f[2], size |-> size, ecn |-> ecn]
<1>1. f[1] \in Node /\ f[2] \in Node /\ ecn \in Ecn
  BY ParameterAssumption
<1>2. nextId \in Id /\ nextId + 1 \in 1..(MaxPackets + 1) /\ nextId \in Nat
  BY ParameterAssumption DEF PacingInv, TypeOK, HostSend, Id
<1>3. d \in Data
  BY <1>1, <1>2 DEF Data
<1>4. Forward(f[1], nextId, d, nextId + 1, <<"host", f[1]>>)
  BY DEF HostSend
<1> HIDE DEF d
<1>5. /\ nextId' \in Nat /\ nextId' >= nextId
      /\ \A j \in Id : j < nextId => data'[j] = data[j]
      /\ \A m \in Node : \A j \in DOMAIN outbound'[m] : outbound'[m][j].id < nextId'
  <2>1. nextId < nextId + 1 /\ nextId <= nextId + 1 /\ ~(nextId < nextId)
    BY <1>2
  <2> QED
    BY <1>1, <1>2, <1>3, <1>4, <2>1, TaskNames, ForwardIds DEF PacingInv
<1>6. UNCHANGED <<sendDone, inTransit, outgoing, pc, cur>>
  BY DEF HostSend, dispatchVars, taskVars, transitVars
<1>7. PacedUntil' /\ PacedSends' /\ \A l \in Link : \A x \in inTransit'[l] : x.id < nextId'
  BY <1>5, <1>6, PacingKept
<1>8. QueuedBorn'
  BY <1>5, <1>6, QueuedBornKept DEF PacingInv
<1> QED
  BY <1>5, <1>7, <1>8 DEF BornIds, QueuedBorn

LEMMA DeliverNextPacing ==
  ASSUME PacingInv, NEW l \in Link, DeliverNext(l)
  PROVE  BornIds' /\ PacedUntil' /\ PacedSends'
<1>1. PICK x \in Arrived(inTransit[l]) :
        /\ \/ LoseInTransit(l, x)
           \/ Forward(Target[l], x.id, data[x.id], nextId, <<"forwarder", l>>)
        /\ \E rest : rest \subseteq inTransit[l] /\ inTransit' = [inTransit EXCEPT ![l] = rest]
  BY DEF DeliverNext
<1>2. x \in inTransit[l] /\ x.id \in Id /\ x.id \in Nat /\ x.id < nextId
  BY DEF Arrived, PacingInv, TypeOK, BornIds, Transit, Id
<1>3. nextId \in 1..(MaxPackets + 1) /\ nextId \in Nat
  BY DEF PacingInv, TypeOK
<1>4. /\ nextId' \in Nat /\ nextId' >= nextId
      /\ \A j \in Id : j < nextId => data'[j] = data[j]
      /\ \A m \in Node : \A j \in DOMAIN outbound'[m] : outbound'[m][j].id < nextId'
  <2>1. CASE LoseInTransit(l, x)
    BY <1>3, <2>1 DEF LoseInTransit, packetVars, PacingInv, BornIds
  <2>2. CASE Forward(Target[l], x.id, data[x.id], nextId, <<"forwarder", l>>)
    <3>1. Target[l] \in Node /\ data[x.id] \in Data
      BY <1>2, TopologyAssumption DEF PacingInv, TypeOK
    <3>2. nextId <= nextId
      BY <1>3
    <3> QED
      BY <1>2, <1>3, <2>2, <3>1, <3>2, TaskNames, ForwardIds DEF PacingInv
  <2> QED
    BY <1>1, <2>1, <2>2
<1>5. UNCHANGED <<sendDone, outgoing, pc, cur>>
  BY DEF DeliverNext, dispatchVars, taskVars
<1>6. \A k \in Link : inTransit'[k] \subseteq inTransit[k]
  BY <1>1 DEF PacingInv, TypeOK
<1>7. PacedUntil' /\ PacedSends' /\ \A k \in Link : \A y \in inTransit'[k] : y.id < nextId'
  BY <1>4, <1>5, <1>6, PacingKept
<1>8. QueuedBorn'
  BY <1>4, <1>5, QueuedBornKept DEF PacingInv
<1> QED
  BY <1>4, <1>7, <1>8 DEF BornIds, QueuedBorn

LEMMA DispatchPacing ==
  ASSUME PacingInv, NEW n \in Node, Dispatch(n)
  PROVE  BornIds' /\ PacedUntil' /\ PacedSends'
<1> DEFINE p     == Head(outbound[n])
           links == Candidates[n][data[p.id].dst]
           copy  == [id |-> p.id, since |-> p.since, channel |-> nextChannel]
           Copies(l) == Cardinality({i \in Reached(links) : links[i] = l})
<1>1. outbound[n] \in Seq(Buffered) /\ outbound[n] # <<>>
  BY DEF PacingInv, TypeOK, Dispatch
<1>2. 1 \in DOMAIN outbound[n] /\ p = outbound[n][1]
  BY <1>1
<1>3. copy.id < nextId
  BY <1>2 DEF PacingInv, BornIds
<1>4. outgoing' = [l \in Link |-> outgoing[l] \o [k \in 1..Copies(l) |-> copy]]
  BY DEF Dispatch
<1>5. \A l \in Link : [k \in 1..Copies(l) |-> copy] \in Seq(Outgoing)
  BY DispatchCopies DEF PacingInv
<1> HIDE DEF Copies, copy, links, p
<1>6. \A l \in Link : \A i \in DOMAIN outgoing'[l] : outgoing'[l][i].id < nextId
  <2> TAKE l \in Link
  <2> DEFINE new == [k \in 1..Copies(l) |-> copy]
  <2>1. new \in Seq(Outgoing) /\ outgoing[l] \in Seq(Outgoing)
    BY <1>5 DEF PacingInv, TypeOK
  <2>2. \A i \in DOMAIN new : new[i] = copy
    OBVIOUS
  <2> HIDE DEF new
  <2>3. \A i \in DOMAIN (outgoing[l] \o new) :
          \/ i \in DOMAIN outgoing[l] /\ (outgoing[l] \o new)[i] = outgoing[l][i]
          \/ (outgoing[l] \o new)[i] = copy
    BY <2>1, <2>2
  <2>4. outgoing'[l] = outgoing[l] \o new
    BY <1>4 DEF new
  <2> QED
    BY <1>3, <2>3, <2>4 DEF PacingInv, BornIds
<1>7. UNCHANGED <<sendDone, inTransit, data, nextId, pc, cur>>
  BY DEF Dispatch, transitVars, packetVars, taskVars
<1>8. \A m \in Node : \A i \in DOMAIN outbound'[m] : outbound'[m][i].id < nextId
  <2>1. outbound' = [outbound EXCEPT ![n] = Tail(outbound[n])]
    BY DEF Dispatch
  <2>2. \A i \in DOMAIN Tail(outbound[n]) :
          i + 1 \in DOMAIN outbound[n] /\ Tail(outbound[n])[i] = outbound[n][i + 1]
    BY <1>1
  <2> QED
    BY <2>1, <2>2 DEF PacingInv, BornIds, TypeOK
<1>9. nextId \in Nat /\ nextId >= nextId
  BY DEF PacingInv, TypeOK
<1>10. PacedUntil' /\ PacedSends' /\ \A k \in Link : \A y \in inTransit'[k] : y.id < nextId'
  BY <1>7, <1>9, PacingKept
<1> QED
  BY <1>6, <1>7, <1>8, <1>10 DEF BornIds, PacingInv

LEMMA LinkTaskPacing ==
  ASSUME PacingInv, NEW l \in Link, LinkTask(l)
  PROVE  BornIds' /\ PacedUntil' /\ PacedSends'
<1>1. TypeOK
  BY DEF PacingInv
<1>2. UNCHANGED <<outbound, nextId>>
  BY <1>1, LinkTaskCases DEF linkTaskFrame
<1>3. PICK o \in Outgoing :
        /\ ComesBy(l, o)
        /\ \/ LetsGo(l, o)
           \/ WaitPanics(l)
           \/ \E w \in Waiting, k \in Nat : Await(l, w, o, k)
           \/ Transmit(l, o)
  BY <1>1, LinkTaskCases
<1>4. outgoing[l] \in Seq(Outgoing)
  BY <1>1 DEF TypeOK
<1>5. o.id \in Id /\ o.id < nextId
  <2>1. CASE pc[l] \in Waiting /\ o = cur[l]
    BY <2>1 DEF PacingInv, BornIds, Outgoing
  <2>2. CASE outgoing[l] # <<>> /\ o = Head(outgoing[l])
    <3>1. 1 \in DOMAIN outgoing[l] /\ o = outgoing[l][1]
      BY <1>4, <2>2
    <3> QED
      BY <3>1 DEF PacingInv, BornIds, Outgoing
  <2> QED
    BY <1>3, <2>1, <2>2 DEF ComesBy
<1>6. \A k \in Link : \A i \in DOMAIN outgoing'[k] : outgoing'[k][i].id < nextId
  <2>1. CASE outgoing' = outgoing
    BY <2>1 DEF PacingInv, BornIds
  <2>2. CASE outgoing[l] # <<>> /\ outgoing' = [outgoing EXCEPT ![l] = Tail(outgoing[l])]
    <3>1. \A i \in DOMAIN Tail(outgoing[l]) :
            i + 1 \in DOMAIN outgoing[l] /\ Tail(outgoing[l])[i] = outgoing[l][i + 1]
      BY <1>4, <2>2
    <3> QED
      BY <1>1, <2>2, <3>1 DEF PacingInv, BornIds, TypeOK
  <2> QED
    BY <1>3, <2>1, <2>2 DEF ComesBy
<1>7. \A k \in Link : pc'[k] \in Waiting => cur'[k].id < nextId
  <2>1. "idle" \notin Waiting
    BY DEF Waiting
  <2>2. \/ pc' = [pc EXCEPT ![l] = "idle"] /\ cur' = [cur EXCEPT ![l] = NoPacket]
        \/ \E w \in Waiting : pc' = [pc EXCEPT ![l] = w] /\ cur' = [cur EXCEPT ![l] = o]
    BY <1>3 DEF LetsGo, WaitPanics, Await, Transmit, DropCleared, SendOnLink, SendPanics,
       GoIdle
  <2> QED
    BY <1>1, <1>5, <2>1, <2>2 DEF PacingInv, BornIds, TypeOK
<1>8. nextId \in Nat /\ nextId >= nextId /\ now \in Nat
  BY <1>1 DEF TypeOK
<1>9. ASSUME UNCHANGED <<inTransit, sendDone, data>>
      PROVE  BornIds' /\ PacedUntil' /\ PacedSends'
  <2>1. PacedUntil' /\ PacedSends' /\ \A k \in Link : \A y \in inTransit'[k] : y.id < nextId'
    BY <1>2, <1>8, <1>9, PacingKept
  <2> QED
    BY <1>2, <1>6, <1>7, <2>1 DEF BornIds, PacingInv
<1>10. ASSUME NEW congestion, NEW extra \in ExtraDelayDraw(l), SendOnLink(l, o, congestion, extra)
       PROVE  BornIds' /\ PacedUntil' /\ PacedSends'
  <2> DEFINE y == [id |-> o.id, sent |-> now, arrival |-> now + Delay[l] + extra]
             Time(k, x) == SendDuration(k, data[x.id].size)
  <2>1. /\ inTransit' = [inTransit EXCEPT ![l] = inTransit[l] \cup {y}]
        /\ sendDone' = [sendDone EXCEPT ![l] = now + Time(l, y)]
        /\ sendDone[l] <= now
    BY <1>10 DEF SendOnLink, SendAsserts, CanSend
  <2>2. \A k \in Link : \A x \in inTransit[k] : x.id \in Id /\ x.sent \in Nat
    BY <1>1 DEF TypeOK, Transit
  <2>3. \A j \in Id : data'[j].size = data[j].size
    BY <1>1, <1>5, <1>10 DEF SendOnLink, TypeOK, Data
  <2>4. \A k \in Link : \A j \in Id : SendDuration(k, data'[j].size) = SendDuration(k, data[j].size)
    BY <2>3 DEF SendDuration
  <2>5. \A k \in Link : \A j \in Id : SendDuration(k, data[j].size) \in Nat
    BY <1>1, SendDurationType DEF TypeOK, Data
  <2>6. y.id = o.id /\ y.sent = now
    OBVIOUS
  <2> HIDE DEF y
  <2>7. \A x \in inTransit[l] : x.sent + Time(l, x) <= now
    <3> TAKE x \in inTransit[l]
    <3>1. x.sent + Time(l, x) <= sendDone[l]
      BY DEF PacingInv, PacedUntil
    <3>2. x.sent \in Nat /\ Time(l, x) \in Nat /\ sendDone[l] \in Nat
      BY <1>1, <2>2, <2>5 DEF TypeOK
    <3> QED
      BY <1>8, <2>1, <3>1, <3>2
  <2>8. \A k \in Link : \A x \in inTransit'[k] : x.id < nextId'
    BY <1>1, <1>2, <1>5, <2>1, <2>6 DEF PacingInv, BornIds, TypeOK
  <2>9. PacedUntil'
    <3>1. SUFFICES ASSUME NEW k \in Link, NEW x \in inTransit'[k]
                   PROVE  x.sent + SendDuration(k, data'[x.id].size) <= sendDone'[k]
      BY DEF PacedUntil
    <3>2. CASE k # l
      <4>1. x \in inTransit[k] /\ sendDone'[k] = sendDone[k]
        BY <1>1, <2>1, <3>2 DEF TypeOK
      <4> QED
        BY <2>2, <2>4, <4>1 DEF PacingInv, PacedUntil
    <3>3. CASE k = l
      <4>1. sendDone'[l] = now + Time(l, y) /\ Time(l, y) \in Nat
        BY <1>1, <1>5, <2>1, <2>5, <2>6 DEF TypeOK
      <4>2. CASE x = y
        <5>1. x.sent = now /\ SendDuration(k, data'[x.id].size) = Time(l, y)
          BY <1>5, <2>4, <2>6, <3>3, <4>2
        <5> QED
          BY <1>8, <3>3, <4>1, <5>1
      <4>3. CASE x \in inTransit[l]
        <5>1. /\ x.sent + Time(l, x) <= now /\ x.sent \in Nat /\ Time(l, x) \in Nat
              /\ SendDuration(k, data'[x.id].size) = Time(l, x)
          BY <2>2, <2>4, <2>5, <2>7, <3>3, <4>3
        <5> QED
          BY <1>8, <3>3, <4>1, <5>1
      <4> QED
        BY <1>1, <2>1, <3>3, <4>2, <4>3 DEF TypeOK
    <3> QED
      BY <3>2, <3>3
  <2>10. PacedSends'
    <3>1. SUFFICES ASSUME NEW k \in Link, NEW x \in inTransit'[k], NEW z \in inTransit'[k], x # z
                   PROVE  \/ z.sent >= x.sent + SendDuration(k, data'[x.id].size)
                          \/ x.sent >= z.sent + SendDuration(k, data'[z.id].size)
      BY DEF PacedSends
    <3>2. CASE x \in inTransit[k] /\ z \in inTransit[k]
      BY <2>2, <2>4, <3>1, <3>2 DEF PacingInv, PacedSends
    <3>3. k = l /\ x \in inTransit[l] /\ z = y =>
            z.sent >= x.sent + SendDuration(k, data'[x.id].size)
      BY <1>8, <2>2, <2>4, <2>5, <2>6, <2>7
    <3>4. k = l /\ z \in inTransit[l] /\ x = y =>
            x.sent >= z.sent + SendDuration(k, data'[z.id].size)
      BY <1>8, <2>2, <2>4, <2>5, <2>6, <2>7
    <3>5. \/ x \in inTransit[k] /\ z \in inTransit[k]
          \/ k = l /\ x \in inTransit[l] /\ z = y
          \/ k = l /\ z \in inTransit[l] /\ x = y
      BY <1>1, <2>1, <3>1 DEF TypeOK
    <3> QED
      BY <3>2, <3>3, <3>4, <3>5
  <2> QED
    BY <1>2, <1>6, <1>7, <2>8, <2>9, <2>10 DEF BornIds, PacingInv
<1> QED
  BY <1>3, <1>9, <1>10 DEF LetsGo, WaitPanics, Await, Transmit, DropCleared, SendPanics

LEMMA NextPacing == PacingInv /\ [Next]_vars => PacingInv'
<1> SUFFICES ASSUME PacingInv, [Next]_vars
             PROVE  PacingInv'
  OBVIOUS
<1>1. TypeOK'
  BY NextTypeOK DEF PacingInv
<1>2. ASSUME UNCHANGED <<outbound, outgoing, cur, inTransit, sendDone, data, nextId>>,
             \A l \in Link : pc'[l] \in Waiting => pc[l] \in Waiting
      PROVE  BornIds' /\ PacedUntil' /\ PacedSends'
  <2>1. nextId \in Nat /\ nextId >= nextId
    BY DEF PacingInv, TypeOK
  <2>2. PacedUntil' /\ PacedSends' /\ \A k \in Link : \A y \in inTransit'[k] : y.id < nextId'
    BY <1>2, <2>1, PacingKept
  <2>3. QueuedBorn'
    BY <1>2, <2>1, QueuedBornKept DEF PacingInv
  <2> QED
    BY <1>2, <2>2, <2>3 DEF BornIds, QueuedBorn, PacingInv
<1>3. ASSUME \/ \E n \in Node : HostReceive(n)
             \/ \E l \in Link : SetTimer(l)
             \/ Tick
             \/ UNCHANGED vars
      PROVE  UNCHANGED <<outbound, outgoing, cur, pc, inTransit, sendDone, data, nextId>>
  BY <1>3 DEF HostReceive, SetTimer, Tick, vars, dispatchVars, taskVars, transitVars, packetVars
<1>4. ASSUME NEW l, NEW up, LinkEvent(l, up)
      PROVE  /\ UNCHANGED <<outbound, outgoing, cur, inTransit, sendDone, data, nextId>>
             /\ \A k \in Link : pc'[k] \in Waiting => pc[k] \in Waiting
  BY <1>4 DEF LinkEvent, dispatchVars, transitVars, packetVars, Waiting, PacingInv, TypeOK
<1>5. ASSUME NEW n, NEW up, NEW clear, NodeEvent(n, up, clear)
      PROVE  /\ UNCHANGED <<outbound, outgoing, cur, inTransit, sendDone, data, nextId>>
             /\ \A k \in Link : pc'[k] \in Waiting => pc[k] \in Waiting
  BY <1>5 DEF NodeEvent, dispatchVars, transitVars, packetVars, Waiting, PacingInv, TypeOK
<1>6. BornIds' /\ PacedUntil' /\ PacedSends'
  BY <1>2, <1>3, <1>4, <1>5, HostSendPacing, DeliverNextPacing, DispatchPacing, LinkTaskPacing
     DEF Next, Forwarder
<1> QED
  BY <1>1, <1>6 DEF PacingInv

\* Packets on one link were sent at least the sending time of the earlier one
\* apart, for every bandwidth, size and candidate list (PacketPacer::track_send
\* and can_send, asserted by NetworkLink::send).
THEOREM SendsArePaced == Spec => []PacedSends
<1>1. Init => BornIds /\ PacedUntil /\ PacedSends
  BY DEF Init, BornIds, PacedUntil, PacedSends, Waiting
<1>2. Init => PacingInv
  BY <1>1, InitTypeOK DEF PacingInv
<1>3. PacingInv => PacedSends
  BY DEF PacingInv
<1> QED
  BY <1>2, <1>3, NextPacing, PTL DEF Spec

=============================================================================
