----------------------------- MODULE FateProofs -----------------------------
(***************************************************************************)
(* What becomes of packets, for every network: the replay log moves only   *)
(* as PacketCustody allows, a packet whose link went down under it, or     *)
(* whose buffer was cleared, does not come through, and every byte of a    *)
(* buffer that is not free belongs to a packet the log tells of.           *)
(***************************************************************************)
EXTENDS CustodyProofs, FunctionTheorems

-----------------------------------------------------------------------------
(* What PacketCustody lets follow a recorded step.                          *)

\* The names of the two modules for what the log shows.
LEMMA LogNames ==
  /\ \A step, place : Custody!At(step, place) = Recorded(step, place)
  /\ Custody!Unborn = NotBorn
BY DEF Custody!At, Custody!Unborn, Recorded, NotBorn, NoPlace

\* A packet in nobody's hands, or on a link, may be recorded in a node.
LEMMA ArrivalFollows ==
  ASSUME NEW n \in Node, NEW p, p = NotBorn \/ \E l \in Link : p = InTransit(l) /\ Target[l] = n
  PROVE  /\ p.step # "InNode"
         /\ \A step \in {"InNode", "DroppedOnArrival", "DroppedRandom", "DroppedBufferFull"} :
              Recorded(step, n) \in Custody!Successors(p)
<1>1. \A step \in {"InNode", "DroppedOnArrival", "DroppedRandom", "DroppedBufferFull"} :
        Recorded(step, n) \in Custody!Arrivals(n)
  BY LogNames DEF Custody!Arrivals
<1>2. CASE p = NotBorn
  <2>1. Custody!Successors(p) = UNION {Custody!Arrivals(m) : m \in Node}
    BY <1>2, LogNames, LogSteps DEF Custody!Successors
  <2> QED
    BY <1>1, <1>2, <2>1, LogSteps
<1>3. ASSUME NEW l \in Link, p = InTransit(l), Target[l] = n
      PROVE  /\ p.step # "InNode"
             /\ Custody!Arrivals(n) \subseteq Custody!Successors(p)
  <2>1. p.step = "InTransit" /\ p.at = l /\ p # NotBorn
    BY <1>3, LogSteps
  <2>2. Custody!Successors(p) = Custody!Arrivals(Target[p.at]) \cup {Custody!At("LostInTransit", p.at)}
    BY <2>1, LogNames DEF Custody!Successors
  <2> QED
    BY <1>3, <2>1, <2>2
<1> QED
  BY <1>1, <1>2, <1>3

LEMMA LossFollows ==
  ASSUME NEW l \in Link
  PROVE  Recorded("LostInTransit", l) \in Custody!Successors(InTransit(l))
<1> DEFINE p == InTransit(l)
<1>1. p.step = "InTransit" /\ p.at = l /\ p # NotBorn
  BY LogSteps
<1> HIDE DEF p
<1>2. Custody!Successors(p) = Custody!Arrivals(Target[p.at]) \cup {Custody!At("LostInTransit", p.at)}
  BY <1>1, LogNames DEF Custody!Successors
<1> QED
  BY <1>1, <1>2, LogNames DEF p

\* A packet in a node may be read or cleared there, or sent on a link from there.
LEMMA DepartureFollows ==
  ASSUME NEW n \in Node
  PROVE  /\ Recorded("Delivered", n) \in Custody!Successors(InNode(n))
         /\ Recorded("DroppedBufferCleared", n) \in Custody!Successors(InNode(n))
         /\ \A l \in Link : Source[l] = n => InTransit(l) \in Custody!Successors(InNode(n))
<1> DEFINE p == InNode(n)
<1>1. p.step = "InNode" /\ p.at = n /\ p # NotBorn
  BY LogSteps
<1> HIDE DEF p
<1>2. Custody!Successors(p) =
        {Custody!At("InTransit", l) : l \in {k \in Link : Source[k] = p.at}}
          \cup {Custody!At("DroppedBufferCleared", p.at), Custody!At("Delivered", p.at)}
  BY <1>1, LogNames DEF Custody!Successors
<1> QED
  BY <1>1, <1>2, LogNames DEF p, InTransit

-----------------------------------------------------------------------------
(* Every step of the network is one of PacketCustody, or none.              *)

LEMMA ArrivalMoves ==
  ASSUME NEW n \in Node, NEW id \in Id, NEW fresh, NEW task, Arrives(n, id, fresh, task),
         id # fresh, fresh \in Id => trace[fresh] = NotBorn,
         trace[id] = NotBorn \/ \E l \in Link : trace[id] = InTransit(l) /\ Target[l] = n
  PROVE  Custody!Next
<1>1. /\ trace[id].step # "InNode"
      /\ \A step \in {"InNode", "DroppedOnArrival", "DroppedRandom", "DroppedBufferFull"} :
           Recorded(step, n) \in Custody!Successors(trace[id])
  BY ArrivalFollows
<1>2. ASSUME NEW step \in {"InNode", "DroppedOnArrival", "DroppedRandom", "DroppedBufferFull"},
             trace' = [trace EXCEPT ![id] = Recorded(step, n)]
      PROVE  Custody!Next
  BY <1>1, <1>2 DEF Custody!Next, Custody!Move
<1>3. ASSUME NEW q \in {"InNode", "DroppedBufferFull"}, NEW r \in {"InNode", "DroppedBufferFull"},
             r = "InNode" => q = "InNode", fresh \in Id,
             trace' = [trace EXCEPT ![id] = Recorded(q, n), ![fresh] = Recorded(r, n)]
      PROVE  Custody!Next
  <2>1. /\ Recorded(q, n) \in {Custody!At("InNode", n), Custody!At("DroppedBufferFull", n)}
        /\ Recorded(r, n) \in {Custody!At("InNode", n), Custody!At("DroppedBufferFull", n)}
    BY LogNames
  <2>2. Recorded(q, n) \in Custody!Successors(trace[id])
    BY <1>1
  <2>3. Recorded(r, n) = Custody!At("InNode", n) => Recorded(q, n) = Custody!At("InNode", n)
    BY <1>3, LogNames DEF Recorded
  <2>4. trace[fresh] = Custody!Unborn
    BY <1>3, LogNames
  <2>5. Custody!Duplicate(id, fresh)
    BY <1>1, <1>3, <2>1, <2>2, <2>3, <2>4 DEF Custody!Duplicate
  <2> QED
    BY <1>3, <2>5 DEF Custody!Next
<1>4. CASE Gone(n, id)
  BY <1>2, <1>4 DEF Gone
<1>5. CASE Readable(n, id) \/ Kept(n, id) \/ Stranded(n, id, task)
  BY <1>2, <1>5 DEF Readable, Kept, Stranded, InNode
<1>6. CASE fresh \in Id /\ (NoneKept(n, id, fresh) \/ OneKept(n, id, fresh) \/ BothKept(n, id, fresh))
  BY <1>3, <1>6 DEF NoneKept, OneKept, BothKept, InNode
<1> QED
  BY <1>4, <1>5, <1>6 DEF Arrives

\* The packet that a host sends is new, and so is its duplicate.
LEMMA HostSendArrives ==
  ASSUME CustodyInv, NEW f \in Flow, NEW size \in Size, NEW ecn \in HostEcn, HostSend(f, size, ecn)
  PROVE  \E n \in Node, id \in Id : \E fresh, task :
           /\ Arrives(n, id, fresh, task) /\ id # fresh
           /\ trace[id] = NotBorn /\ (fresh \in Id => trace[fresh] = NotBorn)
           /\ \A l \in Link : <<"link", l>> # task
<1> DEFINE d == [number |-> nextId, src |-> f[1], dst |-> f[2], size |-> size, ecn |-> ecn]
<1>1. TypeOK /\ f[1] \in Node /\ f[2] \in Node /\ ecn \in Ecn
  BY ParameterAssumption DEF CustodyInv
<1>2. nextId \in Id /\ nextId + 1 \in 1..(MaxPackets + 1) /\ nextId \in Nat
  BY <1>1, ParameterAssumption DEF TypeOK, HostSend, Id
<1>3. d \in Data
  BY <1>1, <1>2 DEF Data
<1>4. PICK task : /\ Forward(f[1], nextId, d, nextId + 1, task)
                  /\ \A l \in Link : <<"link", l>> # task
  BY DEF HostSend
<1> HIDE DEF d
<1>5. nextId # nextId + 1 /\ nextId >= nextId /\ nextId + 1 >= nextId
  BY <1>2
<1>6. Arrives(f[1], nextId, nextId + 1, task)
  BY <1>1, <1>2, <1>3, <1>4, <1>5, ForwardCases
<1>7. trace[nextId] = NotBorn /\ (nextId + 1 \in Id => trace[nextId + 1] = NotBorn)
  BY <1>2, <1>5 DEF CustodyInv, FreeIds
<1> QED
  BY <1>1, <1>2, <1>4, <1>5, <1>6, <1>7

\* The packet that a forwarder delivers was on its link.
LEMMA DeliverNextArrives ==
  ASSUME CustodyInv, NEW l \in Link, DeliverNext(l)
  PROVE  /\ \A k \in Link : inTransit'[k] \subseteq inTransit[k]
         /\ \E x \in inTransit[l] :
              /\ x.id \in Id /\ trace[x.id] = InTransit(l)
              /\ \/ /\ WasDownAfter(l, x.sent)
                    /\ trace' = [trace EXCEPT ![x.id] = Recorded("LostInTransit", l)]
                    /\ UNCHANGED <<inbound, outbound, dead>>
                 \/ /\ ~WasDownAfter(l, x.sent)
                    /\ \E fresh, task :
                         /\ Arrives(Target[l], x.id, fresh, task) /\ x.id # fresh
                         /\ fresh \in Id => trace[fresh] = NotBorn
                         /\ \A k \in Link : <<"link", k>> # task
<1> DEFINE task == <<"forwarder", l>>
<1>1. PICK x, rest :
        /\ x \in Arrived(inTransit[l])
        /\ \/ LoseInTransit(l, x)
           \/ /\ ~WasDownAfter(l, x.sent)
              /\ Forward(Target[l], x.id, data[x.id], nextId, task)
        /\ rest \subseteq inTransit[l] /\ inTransit' = [inTransit EXCEPT ![l] = rest]
  BY DEF DeliverNext
<1>2. \A k \in Link : <<"link", k>> # task
  OBVIOUS
<1> HIDE DEF task
<1>3. TypeOK /\ x \in inTransit[l]
  BY <1>1 DEF CustodyInv, Arrived
<1>4. x.id \in Id /\ nextId \in Nat /\ nextId \in 1..(MaxPackets + 1) /\ nextId >= nextId
  <2>1. x.id \in Id
    BY <1>3, CustodyTypes
  <2> QED
    BY <1>3, <2>1 DEF TypeOK
<1>5. \A k \in Link : inTransit'[k] \subseteq inTransit[k]
  BY <1>1, <1>3 DEF TypeOK
<1>6. trace[x.id] = InTransit(l)
  BY <1>3, <1>4, WhenSent DEF CustodyInv
<1>7. CASE LoseInTransit(l, x)
  <2>1. /\ WasDownAfter(l, x.sent)
        /\ trace' = [trace EXCEPT ![x.id] = Recorded("LostInTransit", l)]
        /\ UNCHANGED <<inbound, outbound, dead>>
    BY <1>7 DEF LoseInTransit, Track
  <2> QED
    BY <1>3, <1>4, <1>5, <1>6, <2>1
<1>8. CASE ~WasDownAfter(l, x.sent) /\ Forward(Target[l], x.id, data[x.id], nextId, task)
  <2>1. nextId \in Id => trace[nextId] = NotBorn
    BY <1>4 DEF CustodyInv, FreeIds
  <2>2. x.id # nextId
    BY <1>4, <1>6, <2>1, LogSteps
  <2>3. Target[l] \in Node /\ data[x.id] \in Data
    BY <1>3, <1>4, TopologyAssumption DEF TypeOK
  <2>4. Arrives(Target[l], x.id, nextId, task)
    BY <1>3, <1>4, <1>8, <2>2, <2>3, ForwardCases
  <2> QED
    BY <1>3, <1>4, <1>5, <1>6, <1>8, <1>2, <2>1, <2>2, <2>4
<1> QED
  BY <1>1, <1>7, <1>8

LEMMA HostSendMoves ==
  ASSUME CustodyInv, NEW f \in Flow, NEW size \in Size, NEW ecn \in HostEcn, HostSend(f, size, ecn)
  PROVE  Custody!Next
BY HostSendArrives, ArrivalMoves

LEMMA DeliverNextMoves ==
  ASSUME CustodyInv, NEW l \in Link, DeliverNext(l)
  PROVE  Custody!Next
<1>1. PICK x \in inTransit[l] :
        /\ x.id \in Id /\ trace[x.id] = InTransit(l)
        /\ \/ trace' = [trace EXCEPT ![x.id] = Recorded("LostInTransit", l)]
           \/ \E fresh, task : /\ Arrives(Target[l], x.id, fresh, task) /\ x.id # fresh
                               /\ fresh \in Id => trace[fresh] = NotBorn
  BY DeliverNextArrives
<1>2. CASE trace' = [trace EXCEPT ![x.id] = Recorded("LostInTransit", l)]
  <2>1. Recorded("LostInTransit", l) \in Custody!Successors(trace[x.id])
    BY <1>1, LossFollows
  <2> QED
    BY <1>1, <1>2, <2>1 DEF Custody!Next, Custody!Move
<1>3. CASE \E fresh, task : /\ Arrives(Target[l], x.id, fresh, task) /\ x.id # fresh
                            /\ fresh \in Id => trace[fresh] = NotBorn
  <2>1. Target[l] \in Node
    BY TopologyAssumption
  <2> QED
    BY <1>1, <1>3, <2>1, ArrivalMoves
<1> QED
  BY <1>1, <1>2, <1>3

LEMMA HostReceiveMoves ==
  ASSUME CustodyInv, NEW n \in Node, HostReceive(n)
  PROVE  Custody!Next
<1>1. PICK x \in inbound[n] : Track(x.id, "Delivered", n)
  BY DEF HostReceive
<1>2. TypeOK
  BY DEF CustodyInv
<1>3. x.id \in Id
  BY <1>2, CustodyTypes
<1>4. trace[x.id] = InNode(n)
  BY <1>3, WhenReadable DEF CustodyInv
<1>5. Recorded("Delivered", n) \in Custody!Successors(trace[x.id])
  BY <1>4, DepartureFollows
<1> QED
  BY <1>1, <1>3, <1>5 DEF Track, Custody!Next, Custody!Move

LEMMA LinkTaskMoves ==
  ASSUME CustodyInv, NEW l \in Link, LinkTask(l)
  PROVE  trace' = trace \/ Custody!Next
<1>1. TypeOK /\ <<"link", l>> \notin dead
  BY DEF CustodyInv, LinkTask, TakePacket, Discard, Resume, MayRun
<1>2. PICK o \in Outgoing :
        /\ ComesBy(l, o)
        /\ \/ LetsGo(l, o)
           \/ WaitPanics(l)
           \/ /\ o.channel \notin handled
              /\ \/ \E w \in Waiting, k \in Nat : Await(l, w, o, k)
                 \/ Transmit(l, o)
  BY <1>1, LinkTaskCases
<1>3. CASE \/ LetsGo(l, o) \/ WaitPanics(l)
           \/ \E w \in Waiting, k \in Nat : Await(l, w, o, k)
  BY <1>3 DEF LetsGo, WaitPanics, Await
<1>4. CASE o.channel \notin handled /\ Transmit(l, o)
  <2>1. Held(l) = Elements(outgoing'[l]) \cup {o}
    BY <1>1, <1>2, ComesByHeld
  <2>2. o \in Live(l) /\ o.id \in Id /\ Source[l] \in Node
    BY <1>4, <2>1, TopologyAssumption DEF Live, Outgoing
  <2>3. trace[o.id] = InNode(Source[l])
    BY <2>2, WhenOffered DEF CustodyInv
  <2>4. \/ trace' = [trace EXCEPT ![o.id] = Recorded("DroppedBufferCleared", Source[l])]
        \/ trace' = [trace EXCEPT ![o.id] = InTransit(l)]
        \/ trace' = trace
    BY <1>4 DEF Transmit, DropCleared, SendOnLink, SendPanics, Track, InTransit
  <2>5. /\ Recorded("DroppedBufferCleared", Source[l]) \in Custody!Successors(trace[o.id])
        /\ InTransit(l) \in Custody!Successors(trace[o.id])
    BY <2>2, <2>3, DepartureFollows
  <2> QED
    BY <2>2, <2>4, <2>5 DEF Custody!Next, Custody!Move
<1> QED
  BY <1>2, <1>3, <1>4

LEMMA NextMoves == CustodyInv /\ [Next]_vars => [Custody!Next]_trace
<1> SUFFICES ASSUME CustodyInv, [Next]_vars
             PROVE  trace' = trace \/ Custody!Next
  OBVIOUS
<1>1. ASSUME \/ \E n \in Node : Dispatch(n)
             \/ \E l \in Link : SetTimer(l)
             \/ \E l \in EventLink, up \in BOOLEAN : LinkEvent(l, up)
             \/ \E n, up, clear : NodeEvent(n, up, clear)
             \/ Tick
             \/ UNCHANGED vars
      PROVE  trace' = trace
  BY <1>1 DEF Dispatch, SetTimer, LinkEvent, NodeEvent, Tick, vars
<1> QED
  BY <1>1, HostSendMoves, HostReceiveMoves, LinkTaskMoves, DeliverNextMoves DEF Next, Forwarder

\* Every network implements PacketCustody: a packet is created once, moves only
\* along the links of the topology, and once it was read, dropped or lost the
\* replay log never says anything else of it (tracer.rs).
THEOREM NetworkImplementsCustody == Spec => ImplementsCustody
<1>1. Init => Custody!Init
  BY LogNames DEF Init, Custody!Init, NotBorn
<1> QED
  BY <1>1, InitCustody, NextCustody, NextMoves, PTL DEF Spec, ImplementsCustody, Custody!Spec

-----------------------------------------------------------------------------
(* What a step leaves alone.                                                *)

\* An arrival records nothing of the packets it is not about.
LEMMA ArrivalLeaves ==
  ASSUME TypeOK, NEW n \in Node, NEW id \in Id, NEW fresh, NEW task, Arrives(n, id, fresh, task),
         NEW j \in Id, j # id, j # fresh
  PROVE  /\ trace'[j] = trace[j]
         /\ \A m \in Node : \A x \in inbound'[m] : x.id = j => x \in inbound[m]
         /\ \A m \in Node : \A i \in Positions(m)' :
              QueuedId(m, i)' = j => i \in Positions(m) /\ outbound'[m][i] = outbound[m][i]
<1>1. trace'[j] = trace[j]
  BY DEF Arrives, Gone, Readable, Kept, Stranded, NoneKept, OneKept, BothKept, TypeOK
<1>2. \A m \in Node : \A x \in inbound'[m] : x.id = j => x \in inbound[m]
  <2>1. CASE inbound' = inbound
    BY <2>1
  <2>2. CASE inbound' = [inbound EXCEPT ![n] = @ \cup {[id |-> id, arrival |-> now]}]
    BY <2>2 DEF TypeOK
  <2> QED
    BY <2>1, <2>2 DEF Arrives, Gone, Readable, Kept, Stranded, NoneKept, OneKept, BothKept
<1>3. \A m \in Node : Positions(m)' \subseteq DOMAIN outbound'[m]
  BY DEF Positions
<1>4. CASE outbound' = outbound
  <2>1. \A m \in Node : <<"processor", m>> \in dead => <<"processor", m>> \in dead'
    BY DEF Arrives, Gone, Readable, Kept, Stranded, NoneKept, OneKept, BothKept
  <2> QED
    BY <1>1, <1>2, <1>4, <2>1 DEF Positions, QueuedId
<1>5. ASSUME <<"processor", n>> \notin dead, dead' = dead, NEW s \in Seq(Buffered),
             outbound' = [outbound EXCEPT ![n] = s], Len(s) >= Len(outbound[n]),
             \A i \in 1..Len(outbound[n]) : s[i] = outbound[n][i],
             \A i \in DOMAIN s : i \in 1..Len(outbound[n]) \/ s[i].id \in {id, fresh}
      PROVE  \A m \in Node : \A i \in Positions(m)' :
               QueuedId(m, i)' = j => i \in Positions(m) /\ outbound'[m][i] = outbound[m][i]
  <2> SUFFICES ASSUME NEW m \in Node, NEW i \in Positions(m)', QueuedId(m, i)' = j
               PROVE  i \in Positions(m) /\ outbound'[m][i] = outbound[m][i]
    OBVIOUS
  <2>1. CASE m # n
    BY <1>5, <2>1 DEF Positions, TypeOK
  <2>2. CASE m = n
    <3>1. outbound'[n] = s /\ i \in DOMAIN s /\ s[i].id = j
      BY <1>5, <2>2 DEF Positions, QueuedId, TypeOK
    <3>2. i \in 1..Len(outbound[n])
      BY <1>5, <3>1
    <3>3. DOMAIN outbound[n] = 1..Len(outbound[n])
      BY DEF TypeOK
    <3> QED
      BY <1>5, <2>2, <3>1, <3>2, <3>3 DEF Positions
  <2> QED
    BY <2>1, <2>2
<1>6. \A p \in Id : Entry(p) \in Buffered /\ Entry(p).id = p
  BY DEF Entry, Buffered, TypeOK
<1>7. outbound[n] \in Seq(Buffered)
  BY DEF TypeOK
<1>8. ASSUME NEW q \in Seq(Buffered), NEW e \in Buffered
      PROVE  /\ Append(q, e) \in Seq(Buffered) /\ Len(Append(q, e)) = Len(q) + 1
             /\ \A i \in 1..Len(q) : Append(q, e)[i] = q[i]
             /\ \A i \in DOMAIN Append(q, e) : i \in 1..Len(q) \/ Append(q, e)[i] = e
  BY <1>8, AppendProperties
<1>9. CASE Kept(n, id) \/ OneKept(n, id, fresh)
  <2> DEFINE s == Append(outbound[n], Entry(id))
  <2>1. /\ <<"processor", n>> \notin dead /\ dead' = dead /\ outbound' = [outbound EXCEPT ![n] = s]
    BY <1>9 DEF Kept, OneKept
  <2>2. /\ s \in Seq(Buffered) /\ Len(s) >= Len(outbound[n])
        /\ \A i \in 1..Len(outbound[n]) : s[i] = outbound[n][i]
        /\ \A i \in DOMAIN s : i \in 1..Len(outbound[n]) \/ s[i].id \in {id, fresh}
    BY <1>6, <1>7, <1>8
  <2> HIDE DEF s
  <2> QED
    BY <1>1, <1>2, <1>5, <2>1, <2>2
<1>10. CASE BothKept(n, id, fresh) /\ fresh \in Id
  <2> DEFINE r == Append(outbound[n], Entry(id))
             s == Append(r, Entry(fresh))
  <2>1. /\ <<"processor", n>> \notin dead /\ dead' = dead /\ outbound' = [outbound EXCEPT ![n] = s]
    BY <1>10 DEF BothKept
  <2>2. /\ r \in Seq(Buffered) /\ Len(r) = Len(outbound[n]) + 1
        /\ \A i \in 1..Len(outbound[n]) : r[i] = outbound[n][i]
        /\ \A i \in DOMAIN r : i \in 1..Len(outbound[n]) \/ r[i].id = id
    BY <1>6, <1>7, <1>8
  <2> HIDE DEF r
  <2>3. /\ s \in Seq(Buffered) /\ Len(s) = Len(r) + 1
        /\ \A i \in 1..Len(r) : s[i] = r[i]
        /\ \A i \in DOMAIN s : i \in 1..Len(r) \/ s[i].id = fresh
    BY <1>6, <1>8, <1>10, <2>2
  <2> HIDE DEF s
  <2>4. /\ Len(outbound[n]) \in Nat /\ DOMAIN r = 1..Len(r)
    BY <1>7, <2>2
  <2>5. /\ Len(s) >= Len(outbound[n])
        /\ \A i \in 1..Len(outbound[n]) : s[i] = outbound[n][i]
        /\ \A i \in DOMAIN s : i \in 1..Len(outbound[n]) \/ s[i].id \in {id, fresh}
    BY <2>2, <2>3, <2>4
  <2> QED
    BY <1>1, <1>2, <1>5, <2>1, <2>3, <2>5
<1> QED
  BY <1>4, <1>9, <1>10 DEF Arrives, Gone, Readable, Stranded, NoneKept

\* A link's task that sends nothing records nothing, and holds on to no new copy.
LEMMA LinkTaskLeaves ==
  ASSUME CustodyInv, NEW l \in Link, LinkTask(l)
  PROVE  /\ UNCHANGED <<outbound, inbound, lastDown, lastClear, now>>
         /\ \A n \in Node : Positions(n)' = Positions(n)
         /\ \A k \in Link : Live(k)' \subseteq Live(k)
         /\ \/ UNCHANGED <<trace, inTransit>>
            \/ \E o \in Live(l) :
                 /\ o.id \in Id
                 /\ \A j \in Id \ {o.id} : trace'[j] = trace[j]
                 /\ \A k \in Link : \A x \in inTransit'[k] : x \in inTransit[k] \/ x.id = o.id
                 /\ o.since < lastClear[Source[l]] =>
                      trace'[o.id] = Recorded("DroppedBufferCleared", Source[l])
<1>1. TypeOK /\ <<"link", l>> \notin dead
  BY DEF CustodyInv, LinkTask, TakePacket, Discard, Resume, MayRun
<1>2. UNCHANGED linkTaskFrame
  BY <1>1, LinkTaskCases
<1>3. UNCHANGED <<outbound, inbound, lastDown, lastClear, now>>
  BY <1>2 DEF linkTaskFrame, clockVars, linkVars, nodeVars
<1>4. PICK o \in Outgoing :
        /\ ComesBy(l, o)
        /\ \/ LetsGo(l, o)
           \/ WaitPanics(l)
           \/ /\ o.channel \notin handled
              /\ \/ \E w \in Waiting, k \in Nat : Await(l, w, o, k)
                 \/ Transmit(l, o)
  BY <1>1, LinkTaskCases
<1>5. PICK w, r : /\ pc' = [pc EXCEPT ![l] = w] /\ cur' = [cur EXCEPT ![l] = r]
                  /\ w \in Waiting => r = o
  <2>1. "idle" \notin Waiting
    BY DEF Waiting
  <2> QED
    BY <1>4, <2>1 DEF LetsGo, WaitPanics, Await, Transmit, DropCleared, SendOnLink, SendPanics, GoIdle
<1>6. /\ dead' = dead \/ dead' = dead \cup {<<"link", l>>}
      /\ handled \subseteq handled'
  BY <1>4 DEF LetsGo, WaitPanics, Await, Transmit, DropCleared, SendOnLink, SendPanics
<1>7. /\ \A k \in Link \ {l} : Held(k)' = Held(k)
      /\ \A n \in Node : Positions(n)' = Positions(n)
      /\ Held(l)' = IF dead' = dead
                    THEN Elements(outgoing'[l]) \cup (IF w \in Waiting THEN {r} ELSE {}) ELSE {}
  BY <1>1, <1>2, <1>4, <1>5, <1>6, LinkTaskFrame
<1>8. Held(l) = Elements(outgoing'[l]) \cup {o}
  BY <1>1, <1>4, ComesByHeld
<1>9. \A k \in Link : Live(k)' \subseteq Live(k)
  <2>1. Held(l)' \subseteq Held(l)
    BY <1>5, <1>7, <1>8
  <2> QED
    BY <1>6, <1>7, <2>1 DEF Live
<1>10. CASE \/ LetsGo(l, o) \/ WaitPanics(l)
            \/ \E v \in Waiting, k \in Nat : Await(l, v, o, k)
  <2>1. UNCHANGED <<trace, inTransit>>
    BY <1>10 DEF LetsGo, WaitPanics, Await
  <2> QED
    BY <1>3, <1>7, <1>9, <2>1
<1>11. CASE o.channel \notin handled /\ Transmit(l, o)
  <2>1. o \in Live(l) /\ o.id \in Id
    BY <1>8, <1>11 DEF Live, Outgoing
  <2>2. CASE DropCleared(l, o)
    <3>1. /\ trace' = [trace EXCEPT ![o.id] = Recorded("DroppedBufferCleared", Source[l])]
          /\ inTransit' = inTransit
      BY <2>2 DEF DropCleared, Track
    <3>2. /\ \A j \in Id \ {o.id} : trace'[j] = trace[j]
          /\ trace'[o.id] = Recorded("DroppedBufferCleared", Source[l])
      BY <1>1, <2>1, <3>1 DEF TypeOK
    <3> QED
      BY <1>3, <1>7, <1>9, <2>1, <3>1, <3>2
  <2>3. ASSUME NEW congestion, NEW extra, SendOnLink(l, o, congestion, extra)
        PROVE  /\ \A j \in Id \ {o.id} : trace'[j] = trace[j]
               /\ \A k \in Link : \A x \in inTransit'[k] : x \in inTransit[k] \/ x.id = o.id
               /\ ~(o.since < lastClear[Source[l]])
    <3>1. PICK z : z = [id |-> o.id, sent |-> now, arrival |-> now + Delay[l] + extra]
      OBVIOUS
    <3>2. /\ trace' = [trace EXCEPT ![o.id] = Recorded("InTransit", l)]
          /\ inTransit' = [inTransit EXCEPT ![l] = @ \cup {z}]
          /\ z.id = o.id
      BY <2>3, <3>1 DEF SendOnLink, Track
    <3>3. ~(o.since < lastClear[Source[l]])
      BY <2>3 DEF SendOnLink, ClearedFromBuffer
    <3> QED
      BY <1>1, <3>2, <3>3 DEF TypeOK
  <2>4. CASE \E congestion \in CongestionDraw(l) : SendPanics(l, o, congestion)
    <3>1. UNCHANGED <<trace, inTransit>>
      BY <2>4 DEF SendPanics
    <3> QED
      BY <1>3, <1>7, <1>9, <3>1
  <2> QED
    BY <1>3, <1>7, <1>9, <1>11, <2>1, <2>2, <2>3, <2>4 DEF Transmit
<1> QED
  BY <1>4, <1>10, <1>11

-----------------------------------------------------------------------------
(* Statuses change and buffers are cleared at instants that have come.      *)

FateInv ==
  /\ CustodyInv
  /\ \A l \in Link : lastDown[l] <= now
  /\ \A n \in Node : lastClear[n] <= now

\* Instants only move forward.
LEMMA PastInstants ==
  ASSUME FateInv, [Next]_vars
  PROVE  /\ now' >= now
         /\ \A l \in Link : lastDown'[l] >= lastDown[l] /\ lastDown'[l] <= now'
         /\ \A n \in Node : lastClear'[n] >= lastClear[n] /\ lastClear'[n] <= now'
<1>1. TypeOK
  BY DEF FateInv, CustodyInv
<1>2. /\ now \in Nat /\ \A l \in Link : lastDown[l] \in Int /\ lastDown[l] <= now
      /\ \A n \in Node : lastClear[n] \in Int /\ lastClear[n] <= now
  BY <1>1 DEF FateInv, TypeOK, Never
<1>3. ASSUME UNCHANGED <<now, lastDown, lastClear>>
      PROVE  /\ now' >= now
             /\ \A l \in Link : lastDown'[l] >= lastDown[l] /\ lastDown'[l] <= now'
             /\ \A n \in Node : lastClear'[n] >= lastClear[n] /\ lastClear'[n] <= now'
  BY <1>2, <1>3
<1>4. ASSUME \/ \E f \in Flow, size \in Size, ecn \in HostEcn : HostSend(f, size, ecn)
             \/ \E n \in Node : HostReceive(n)
             \/ \E n \in Node : Dispatch(n)
             \/ \E l \in Link : LinkTask(l)
             \/ \E l \in Link : Forwarder(l)
             \/ UNCHANGED vars
      PROVE  UNCHANGED <<now, lastDown, lastClear>>
  BY <1>4 DEF HostSend, HostReceive, Dispatch, LinkTask, TakePacket, Discard, Resume, linkTaskFrame,
     Forwarder, SetTimer, DeliverNext, vars, clockVars, linkVars, nodeVars
<1>5. ASSUME NEW l \in Link, NEW up, LinkEvent(l, up)
      PROVE  /\ now' = now /\ lastClear' = lastClear
             /\ \A k \in Link : lastDown'[k] = lastDown[k] \/ lastDown'[k] = now
  BY <1>1, <1>5 DEF LinkEvent, nodeVars, TypeOK
<1>6. ASSUME NEW n \in Node, NEW up, NEW clear, NodeEvent(n, up, clear)
      PROVE  /\ now' = now /\ lastDown' = lastDown
             /\ \A m \in Node : lastClear'[m] = lastClear[m] \/ lastClear'[m] = now
  BY <1>1, <1>6 DEF NodeEvent, linkVars, TypeOK
<1>7. CASE Tick
  <2>1. now' = now + 1 /\ UNCHANGED <<lastDown, lastClear>>
    BY <1>7 DEF Tick, linkVars, nodeVars
  <2> QED
    BY <1>2, <2>1
<1>8. CASE \E l \in EventLink, up \in BOOLEAN : LinkEvent(l, up)
  BY <1>2, <1>5, <1>8, ParameterAssumption
<1>9. CASE \/ \E n \in EventNode, up \in BOOLEAN : NodeEvent(n, up, FALSE)
           \/ \E n \in ClearNode : \E up \in {nodeUp[n]} \cup {u \in BOOLEAN : n \in EventNode} :
                NodeEvent(n, up, TRUE)
  <2>1. EventNode \subseteq Node /\ ClearNode \subseteq Node
    BY ParameterAssumption
  <2>2. /\ now' = now /\ lastDown' = lastDown
        /\ \A m \in Node : lastClear'[m] = lastClear[m] \/ lastClear'[m] = now
    BY <1>6, <1>9, <2>1
  <2> QED
    BY <1>2, <2>2
<1> QED
  BY <1>3, <1>4, <1>7, <1>8, <1>9 DEF Next

LEMMA NextFate == FateInv /\ [Next]_vars => FateInv'
BY NextCustody, PastInstants DEF FateInv

LEMMA InitFate == Init => FateInv
<1> SUFFICES ASSUME Init
             PROVE  FateInv
  OBVIOUS
<1>1. now = 0 /\ \A n \in Node : lastClear[n] = Never
  BY DEF Init
<1>2. \A l \in Link : lastDown[l] \in {0, Never}
  BY DEF Init
<1> QED
  BY <1>1, <1>2, InitCustody DEF FateInv, Never

-----------------------------------------------------------------------------
(* A packet that was read, dropped or lost stays so.                        *)

LEMMA EndsStay ==
  ASSUME CustodyInv, [Next]_vars, NEW id \in Id,
         trace[id].step \notin {"None", "InNode", "InTransit"}
  PROVE  trace'[id] = trace[id]
<1>1. [Custody!Next]_trace
  BY NextMoves
<1>2. DOMAIN trace = Id
  BY DEF CustodyInv, TypeOK
<1>3. trace[id] # Custody!Unborn
  BY LogNames, LogSteps
<1>4. Custody!Successors(trace[id]) = {}
  BY <1>3 DEF Custody!Successors
<1>5. ASSUME NEW j \in Id, Custody!Move(j)
      PROVE  trace'[id] = trace[id]
  BY <1>2, <1>4, <1>5 DEF Custody!Move
<1>6. ASSUME NEW j \in Id, NEW copy \in Id, Custody!Duplicate(j, copy)
      PROVE  trace'[id] = trace[id]
  BY <1>2, <1>3, <1>4, <1>6 DEF Custody!Duplicate
<1> QED
  BY <1>1, <1>5, <1>6 DEF Custody!Next

-----------------------------------------------------------------------------
(* Packets on a link that goes down.                                        *)

\* The packet is lost, or on the link and sent before the link last went down.
Doom(id, l) ==
  \/ trace[id] = Recorded("LostInTransit", l)
  \/ /\ trace[id] = InTransit(l)
     /\ \A x \in inTransit[l] : x.id = id => x.sent < lastDown[l]

\* Only the link's own forwarder touches a packet on a link.
LEMMA OnLinkStays ==
  ASSUME CustodyInv, [Next]_vars, NEW id \in Id, NEW l \in Link, trace[id] = InTransit(l)
  PROVE  \/ /\ trace'[id] = trace[id]
            /\ \A y \in inTransit'[l] : y.id = id => y \in inTransit[l]
         \/ \E x \in inTransit[l] :
              /\ x.id = id
              /\ WasDownAfter(l, x.sent) => trace'[id] = Recorded("LostInTransit", l)
<1>1. TypeOK /\ OneCustodian(id) /\ FreeIds
  BY DEF CustodyInv
<1>2. CASE \/ \E n \in Node : Dispatch(n)
           \/ \E k \in Link : SetTimer(k)
           \/ \E k \in EventLink, up \in BOOLEAN : LinkEvent(k, up)
           \/ \E n, up, clear : NodeEvent(n, up, clear)
           \/ Tick
           \/ UNCHANGED vars
  <2>1. UNCHANGED <<trace, inTransit>>
    BY <1>2 DEF Dispatch, SetTimer, LinkEvent, NodeEvent, Tick, vars, transitVars
  <2> QED
    BY <2>1
<1>3. ASSUME NEW f \in Flow, NEW size \in Size, NEW ecn \in HostEcn, HostSend(f, size, ecn)
      PROVE  trace'[id] = trace[id] /\ inTransit' = inTransit
  <2>1. PICK n, j, fresh, task :
          /\ n \in Node /\ j \in Id
          /\ Arrives(n, j, fresh, task)
          /\ trace[j] = NotBorn /\ (fresh \in Id => trace[fresh] = NotBorn)
    BY <1>3, HostSendArrives
  <2>2. id # j /\ id # fresh
    BY <2>1, LogSteps
  <2> QED
    BY <1>1, <1>3, <2>1, <2>2, ArrivalLeaves DEF HostSend, transitVars
<1>4. ASSUME NEW n \in Node, HostReceive(n)
      PROVE  trace'[id] = trace[id] /\ inTransit' = inTransit
  <2>1. PICK x \in inbound[n] : Track(x.id, "Delivered", n)
    BY <1>4 DEF HostReceive
  <2>2. x.id # id
    BY <1>1, WhenReadable, LogSteps
  <2> QED
    BY <1>1, <1>4, <2>1, <2>2 DEF Track, TypeOK, HostReceive, transitVars
<1>5. ASSUME NEW k \in Link, LinkTask(k)
      PROVE  /\ trace'[id] = trace[id]
             /\ \A y \in inTransit'[l] : y.id = id => y \in inTransit[l]
  <2>1. \A o \in Live(k) : o.id # id
    BY <1>1, WhenOffered, LogSteps
  <2> QED
    BY <1>5, <2>1, LinkTaskLeaves
<1>6. ASSUME NEW k \in Link, DeliverNext(k)
      PROVE  \/ /\ trace'[id] = trace[id]
                /\ \A y \in inTransit'[l] : y.id = id => y \in inTransit[l]
             \/ \E x \in inTransit[l] :
                  /\ x.id = id
                  /\ WasDownAfter(l, x.sent) => trace'[id] = Recorded("LostInTransit", l)
  <2>1. PICK x \in inTransit[k] :
          /\ x.id \in Id /\ trace[x.id] = InTransit(k)
          /\ \/ trace' = [trace EXCEPT ![x.id] = Recorded("LostInTransit", k)]
             \/ /\ ~WasDownAfter(k, x.sent)
                /\ \E fresh, task : /\ Arrives(Target[k], x.id, fresh, task)
                                    /\ fresh \in Id => trace[fresh] = NotBorn
    BY <1>6, DeliverNextArrives
  <2>2. inTransit'[l] \subseteq inTransit[l]
    BY <1>6, DeliverNextArrives
  <2>3. CASE x.id = id
    <3>1. k = l
      BY <2>1, <2>3, LogSteps
    <3> QED
      BY <1>1, <2>1, <2>3, <3>1 DEF TypeOK
  <2>4. CASE x.id # id
    <3>1. Target[k] \in Node
      BY TopologyAssumption
    <3>2. ASSUME NEW fresh, NEW task, Arrives(Target[k], x.id, fresh, task),
                 fresh \in Id => trace[fresh] = NotBorn
          PROVE  trace'[id] = trace[id]
      <4>1. id # fresh
        BY <3>2, LogSteps
      <4> QED
        BY <1>1, <2>1, <2>4, <3>1, <3>2, <4>1, ArrivalLeaves
    <3>3. trace'[id] = trace[id]
      BY <1>1, <2>1, <2>4, <3>2 DEF TypeOK
    <3> QED
      BY <2>2, <3>3
  <2> QED
    BY <2>3, <2>4
<1> QED
  BY <1>2, <1>3, <1>4, <1>5, <1>6 DEF Next, Forwarder

LEMMA DoomStays ==
  ASSUME NEW id \in Id, NEW l \in Link
  PROVE  FateInv /\ Doom(id, l) /\ [Next]_vars => Doom(id, l)'
<1> SUFFICES ASSUME FateInv, Doom(id, l), [Next]_vars
             PROVE  Doom(id, l)'
  OBVIOUS
<1>1. CustodyInv /\ TypeOK
  BY DEF FateInv, CustodyInv
<1>2. CASE trace[id] = Recorded("LostInTransit", l)
  BY <1>1, <1>2, EndsStay DEF Recorded, Doom
<1>3. CASE trace[id] = InTransit(l) /\ \A x \in inTransit[l] : x.id = id => x.sent < lastDown[l]
  <2>1. lastDown'[l] >= lastDown[l] /\ lastDown[l] \in Int /\ lastDown'[l] \in Int
    <3>1. TypeOK'
      BY <1>1, NextTypeOK
    <3> QED
      BY <1>1, <3>1, PastInstants DEF TypeOK, Never
  <2>2. \A x \in inTransit[l] : x.sent \in Nat
    BY <1>1 DEF TypeOK, Transit
  <2>3. CASE /\ trace'[id] = trace[id]
             /\ \A y \in inTransit'[l] : y.id = id => y \in inTransit[l]
    <3>1. \A y \in inTransit'[l] : y.id = id => y.sent < lastDown'[l]
      BY <1>3, <2>1, <2>2, <2>3
    <3> QED
      BY <1>3, <2>3, <3>1 DEF Doom
  <2>4. CASE \E x \in inTransit[l] :
               /\ x.id = id
               /\ WasDownAfter(l, x.sent) => trace'[id] = Recorded("LostInTransit", l)
    BY <1>3, <2>1, <2>2, <2>4 DEF Doom, WasDownAfter
  <2> QED
    BY <1>1, <1>3, <2>3, <2>4, OnLinkStays
<1> QED
  BY <1>2, <1>3 DEF Doom

\* A packet that is on a link when the link goes down is lost, or stays on the
\* link for ever, in every network: coming up again does not save it
\* (NetworkLink::was_down_after, asked by the forwarder on delivery).
THEOREM DownLinkLosesPackets == Spec => LostWhenLinkGoesDown
<1> SUFFICES ASSUME NEW id \in Id, NEW l \in Link
             PROVE  Spec => [](Doomed(id, l) => [](trace[id].step \in {"InTransit", "LostInTransit"}))
  BY DEF LostWhenLinkGoesDown
<1>1. FateInv /\ Doomed(id, l) => Doom(id, l)
  <2> SUFFICES ASSUME FateInv, Doomed(id, l)
               PROVE  Doom(id, l)
    OBVIOUS
  <2>1. PICK x \in inTransit[l] : x.id = id /\ x.sent < lastDown[l]
    BY DEF Doomed
  <2>2. SentOnly(id, l, x)
    BY <2>1, WhenSent DEF FateInv, CustodyInv
  <2> QED
    BY <2>1, <2>2 DEF Doomed, Doom, SentOnly, InTransit
<1>2. Doom(id, l) => trace[id].step \in {"InTransit", "LostInTransit"}
  BY LogSteps DEF Doom, Recorded
<1>3. FateInv /\ Doom(id, l) /\ [Next]_vars => Doom(id, l)'
  BY DoomStays
<1> QED
  BY <1>1, <1>2, <1>3, InitFate, NextFate, PTL DEF Spec

-----------------------------------------------------------------------------
(* Packets in a buffer that is cleared.                                     *)

\* The packet was dropped by the clear, or it is in the node and every copy
\* of it came in before the buffer was last cleared.
Wipe(id, n) ==
  \/ trace[id] = Recorded("DroppedBufferCleared", n)
  \/ /\ trace[id] = InNode(n) /\ NotReadable(id)
     /\ \A i \in Positions(n) : QueuedId(n, i) = id => outbound[n][i].since < lastClear[n]
     /\ \A l \in Link : \A o \in Live(l) : o.id = id => o.since < lastClear[n]

\* The packet gets no other copies than those of what node n had buffered.
OnlyMoves(id, n) ==
  /\ trace'[id] = trace[id] /\ (NotReadable(id) => NotReadable(id)')
  /\ \A i \in Positions(n)' : QueuedId(n, i)' = id =>
       \E k \in Positions(n) : QueuedId(n, k) = id /\ outbound'[n][i].since = outbound[n][k].since
  /\ \A l \in Link : \A o \in Live(l)' : o.id = id =>
       \/ o \in Live(l)
       \/ \E k \in Positions(n) : QueuedId(n, k) = id /\ o.since = outbound[n][k].since

LEMMA WipeMoves ==
  ASSUME FateInv, [Next]_vars, NEW id \in Id, NEW n \in Node, Wipe(id, n), trace[id] = InNode(n),
         OnlyMoves(id, n)
  PROVE  Wipe(id, n)'
<1>1. TypeOK /\ TypeOK'
  BY NextTypeOK DEF FateInv, CustodyInv
<1>2. lastClear'[n] >= lastClear[n] /\ lastClear[n] \in Int /\ lastClear'[n] \in Int
  BY <1>1, PastInstants DEF TypeOK, Never
<1>3. /\ \A i \in Positions(n) : QueuedId(n, i) = id => outbound[n][i].since < lastClear[n]
      /\ \A l \in Link : \A o \in Live(l) : o.id = id => o.since < lastClear[n]
  BY DEF Wipe, InNode, Recorded
<1>4. /\ \A i \in Positions(n) : outbound[n][i].since \in Nat
      /\ \A l \in Link : \A o \in Live(l) : o.since \in Nat
  BY <1>1, CustodyTypes DEF Buffered, Outgoing
<1>5. /\ \A i \in Positions(n) : QueuedId(n, i) = id => outbound[n][i].since < lastClear'[n]
      /\ \A l \in Link : \A o \in Live(l) : o.id = id => o.since < lastClear'[n]
  BY <1>2, <1>3, <1>4
<1>6. \A i \in Positions(n)' : QueuedId(n, i)' = id => outbound'[n][i].since < lastClear'[n]
  BY <1>5 DEF OnlyMoves
<1>7. \A l \in Link : \A o \in Live(l)' : o.id = id => o.since < lastClear'[n]
  BY <1>5 DEF OnlyMoves
<1> QED
  BY <1>6, <1>7 DEF Wipe, OnlyMoves

\* Arrivals of other packets.
LEMMA ArrivalWipe ==
  ASSUME TypeOK, LinksIdle, NEW m \in Node, NEW j \in Id, NEW fresh, NEW task,
         Arrives(m, j, fresh, task), \A l \in Link : <<"link", l>> # task,
         NEW id \in Id, id # j, id # fresh, NEW n \in Node
  PROVE  OnlyMoves(id, n)
<1>1. /\ trace'[id] = trace[id]
      /\ \A k \in Node : \A x \in inbound'[k] : x.id = id => x \in inbound[k]
      /\ \A k \in Node : \A i \in Positions(k)' :
           QueuedId(k, i)' = id => i \in Positions(k) /\ outbound'[k][i] = outbound[k][i]
  BY ArrivalLeaves
<1>2. dead' = dead \/ dead' = dead \cup {task}
  BY DEF Arrives, Gone, Readable, Kept, Stranded, NoneKept, OneKept, BothKept
<1>3. \A l \in Link : Live(l)' = Live(l)
  BY <1>2, LiveFrame DEF LinksIdle
<1>4. NotReadable(id) => NotReadable(id)'
  BY <1>1 DEF NotReadable
<1>5. ASSUME NEW i \in Positions(n)', QueuedId(n, i)' = id
      PROVE  i \in Positions(n) /\ QueuedId(n, i) = id /\ outbound'[n][i].since = outbound[n][i].since
  BY <1>1, <1>5 DEF QueuedId
<1> QED
  BY <1>1, <1>3, <1>4, <1>5 DEF OnlyMoves

\* The packet is handed to the links, or moves up in the buffer.
LEMMA DispatchWipe ==
  ASSUME CustodyInv, NEW m \in Node, Dispatch(m), NEW id \in Id, NEW n \in Node,
         trace[id] = InNode(n)
  PROVE  OnlyMoves(id, n)
<1>1. TypeOK /\ ChannelsApart /\ OneCustodian(id)
  BY DEF CustodyInv
<1>2. PICK copy : copy = HeadCopy(m)
  OBVIOUS
<1>3. /\ \A l \in Link : \A o \in Live(l)' : o \in Live(l) \/ o = copy
      /\ dead' = dead \/ dead' = dead \cup {<<"processor", m>>}
  BY <1>1, <1>2, DispatchOffers
<1>4. /\ UNCHANGED <<inbound, trace>>
      /\ outbound'[m] = Tail(outbound[m]) /\ \A k \in Node \ {m} : outbound'[k] = outbound[k]
      /\ outbound[m] \in Seq(Buffered) /\ outbound[m] # <<>>
  BY <1>1, DispatchWrites, DispatchReads
<1>5. /\ 1 \in Positions(m) /\ QueuedId(m, 1) = Head(outbound[m]).id
      /\ \A i \in Positions(m)' : i + 1 \in Positions(m) /\ QueuedId(m, i)' = QueuedId(m, i + 1)
      /\ \A k \in Node \ {m} : Positions(k)' = Positions(k) /\ \A i : QueuedId(k, i)' = QueuedId(k, i)
  BY <1>1, <1>3, DispatchShifts
<1>6. NotReadable(id) => NotReadable(id)'
  BY <1>4 DEF NotReadable
<1>7. ASSUME NEW i \in Positions(n)', QueuedId(n, i)' = id
      PROVE  \E k \in Positions(n) : QueuedId(n, k) = id /\ outbound'[n][i].since = outbound[n][k].since
  <2>1. CASE n # m
    BY <1>4, <1>5, <1>7, <2>1
  <2>2. CASE n = m
    <3>1. i \in DOMAIN Tail(outbound[m])
      BY <1>4, <2>2 DEF Positions
    <3>2. Tail(outbound[m])[i] = outbound[m][i + 1]
      BY <1>4, <3>1
    <3> QED
      BY <1>4, <1>5, <1>7, <2>2, <3>2
  <2> QED
    BY <2>1, <2>2
<1>8. ASSUME copy.id = id
      PROVE  \E k \in Positions(n) : QueuedId(n, k) = id /\ copy.since = outbound[n][k].since
  <2>1. QueuedId(m, 1) = id /\ copy.since = Head(outbound[m]).since
    BY <1>2, <1>5, <1>8 DEF HeadCopy
  <2>2. m = n
    BY <1>1, <1>5, <2>1, WhenQueued, LogSteps
  <2>3. Head(outbound[m]) = outbound[m][1]
    BY <1>4
  <2> QED
    BY <1>5, <2>1, <2>2, <2>3
<1> QED
  BY <1>3, <1>4, <1>6, <1>7, <1>8 DEF OnlyMoves

\* A packet in a node stays there in the copies that there are of it, unless it
\* is read or, in a buffer, a link sends or drops it.
LEMMA StoredStays ==
  ASSUME CustodyInv, [Next]_vars, NEW id \in Id, NEW n \in Node, trace[id] = InNode(n)
  PROVE  \/ OnlyMoves(id, n)
         \/ /\ trace'[id] # trace[id]
            /\ NotReadable(id) => \E l \in Link : LinkTask(l)
<1>1. TypeOK /\ OneCustodian(id)
  BY DEF CustodyInv
<1>2. ASSUME LinksIdle, UNCHANGED <<outbound, inbound, dead, trace>>
      PROVE  OnlyMoves(id, n)
  <2>1. \A l \in Link : Live(l)' = Live(l)
    BY <1>2, LiveFrame DEF LinksIdle
  <2>2. Positions(n)' = Positions(n) /\ \A i : QueuedId(n, i)' = QueuedId(n, i)
    BY <1>2 DEF Positions, QueuedId
  <2> QED
    BY <1>1, <1>2, <2>1, <2>2 DEF OnlyMoves, NotReadable
<1>3. ASSUME \/ \E l \in Link : SetTimer(l)
             \/ Tick
             \/ UNCHANGED vars
      PROVE  LinksIdle /\ UNCHANGED <<outbound, inbound, dead, trace>>
  BY <1>3 DEF SetTimer, Tick, vars, dispatchVars, taskVars, LinksIdle
<1>4. ASSUME NEW l, NEW up, LinkEvent(l, up)
      PROVE  LinksIdle /\ UNCHANGED <<outbound, inbound, dead, trace>>
  BY <1>1, <1>4 DEF LinkEvent, dispatchVars, LinksIdle, Waiting, TypeOK
<1>5. ASSUME NEW m, NEW up, NEW clear, NodeEvent(m, up, clear)
      PROVE  LinksIdle /\ UNCHANGED <<outbound, inbound, dead, trace>>
  BY <1>1, <1>5 DEF NodeEvent, dispatchVars, LinksIdle, Waiting, TypeOK
<1>6. ASSUME NEW f \in Flow, NEW size \in Size, NEW ecn \in HostEcn, HostSend(f, size, ecn)
      PROVE  OnlyMoves(id, n)
  <2>1. PICK m, j, fresh, task :
          /\ m \in Node /\ j \in Id
          /\ Arrives(m, j, fresh, task)
          /\ trace[j] = NotBorn /\ (fresh \in Id => trace[fresh] = NotBorn)
          /\ \A l \in Link : <<"link", l>> # task
    BY <1>1, <1>6, HostSendArrives
  <2>2. id # j /\ id # fresh
    BY <2>1, LogSteps
  <2>3. LinksIdle
    BY <1>6 DEF HostSend, LinksIdle, dispatchVars, taskVars
  <2> QED
    BY <1>1, <2>1, <2>2, <2>3, ArrivalWipe
<1>7. ASSUME NEW m \in Node, HostReceive(m)
      PROVE  OnlyMoves(id, n) \/ (trace'[id] # trace[id] /\ ~NotReadable(id))
  <2>1. PICK x \in inbound[m] : /\ inbound' = [inbound EXCEPT ![m] = @ \ {x}]
                                /\ Track(x.id, "Delivered", m)
    BY <1>7 DEF HostReceive
  <2>2. CASE x.id = id
    <3>1. trace'[id].step = "Delivered" /\ trace[id].step = "InNode"
      BY <1>1, <2>1, <2>2, LogSteps DEF Track, TypeOK, Recorded
    <3> QED
      BY <1>7, <2>2, <3>1 DEF NotReadable
  <2>3. CASE x.id # id
    <3>1. trace'[id] = trace[id] /\ (NotReadable(id) => NotReadable(id)')
      BY <1>1, <2>1, <2>3 DEF Track, TypeOK, NotReadable
    <3>2. LinksIdle /\ UNCHANGED <<outbound, dead>>
      BY <1>7 DEF HostReceive, LinksIdle, dispatchVars, taskVars
    <3>3. \A l \in Link : Live(l)' = Live(l)
      BY <3>2, LiveFrame DEF LinksIdle
    <3>4. Positions(n)' = Positions(n) /\ \A i : QueuedId(n, i)' = QueuedId(n, i)
      BY <3>2 DEF Positions, QueuedId
    <3> QED
      BY <3>1, <3>2, <3>3, <3>4 DEF OnlyMoves
  <2> QED
    BY <2>2, <2>3
<1>8. ASSUME NEW l \in Link, DeliverNext(l)
      PROVE  OnlyMoves(id, n)
  <2>1. PICK x \in inTransit[l] :
          /\ x.id \in Id /\ trace[x.id] = InTransit(l)
          /\ \/ /\ trace' = [trace EXCEPT ![x.id] = Recorded("LostInTransit", l)]
                /\ UNCHANGED <<inbound, outbound, dead>>
             \/ \E fresh, task :
                  /\ Arrives(Target[l], x.id, fresh, task)
                  /\ fresh \in Id => trace[fresh] = NotBorn
                  /\ \A k \in Link : <<"link", k>> # task
    BY <1>1, <1>8, DeliverNextArrives
  <2>2. LinksIdle /\ x.id # id
    BY <1>8, <2>1, LogSteps DEF DeliverNext, LinksIdle, dispatchVars, taskVars
  <2>3. CASE /\ trace' = [trace EXCEPT ![x.id] = Recorded("LostInTransit", l)]
             /\ UNCHANGED <<inbound, outbound, dead>>
    <3>1. trace'[id] = trace[id] /\ (NotReadable(id) => NotReadable(id)')
      BY <1>1, <2>2, <2>3 DEF TypeOK, NotReadable
    <3>2. \A k \in Link : Live(k)' = Live(k)
      BY <2>2, <2>3, LiveFrame DEF LinksIdle
    <3>3. Positions(n)' = Positions(n) /\ \A i : QueuedId(n, i)' = QueuedId(n, i)
      BY <2>3 DEF Positions, QueuedId
    <3> QED
      BY <2>3, <3>1, <3>2, <3>3 DEF OnlyMoves
  <2>4. ASSUME NEW fresh, NEW task, Arrives(Target[l], x.id, fresh, task),
               fresh \in Id => trace[fresh] = NotBorn, \A k \in Link : <<"link", k>> # task
        PROVE  OnlyMoves(id, n)
    <3>1. id # fresh /\ Target[l] \in Node
      BY <2>4, TopologyAssumption, LogSteps
    <3> QED
      BY <1>1, <2>1, <2>2, <2>4, <3>1, ArrivalWipe
  <2> QED
    BY <2>1, <2>3, <2>4
<1>9. ASSUME NEW l \in Link, LinkTask(l)
      PROVE  OnlyMoves(id, n) \/ trace'[id] # trace[id]
  <2>1. /\ UNCHANGED <<outbound, inbound>>
        /\ \A m \in Node : Positions(m)' = Positions(m)
        /\ \A k \in Link : Live(k)' \subseteq Live(k)
    BY <1>9, LinkTaskLeaves
  <2>2. /\ \A i : QueuedId(n, i)' = QueuedId(n, i)
        /\ NotReadable(id) => NotReadable(id)'
    BY <2>1 DEF QueuedId, NotReadable
  <2> QED
    BY <2>1, <2>2 DEF OnlyMoves
<1>10. ASSUME NEW m \in Node, Dispatch(m)
       PROVE  OnlyMoves(id, n)
  BY <1>10, DispatchWipe
<1> QED
  BY <1>2, <1>3, <1>4, <1>5, <1>6, <1>7, <1>8, <1>9, <1>10 DEF Next, Forwarder

LEMMA WipeStays ==
  ASSUME NEW id \in Id, NEW n \in Node
  PROVE  FateInv /\ Wipe(id, n) /\ [Next]_vars => Wipe(id, n)'
<1> SUFFICES ASSUME FateInv, Wipe(id, n), [Next]_vars
             PROVE  Wipe(id, n)'
  OBVIOUS
<1>1. CustodyInv /\ TypeOK /\ OneCustodian(id)
  BY DEF FateInv, CustodyInv
<1>2. CASE trace[id] = Recorded("DroppedBufferCleared", n)
  BY <1>1, <1>2, EndsStay DEF Recorded, Wipe
<1>3. CASE trace[id] = InNode(n)
  <2>1. /\ NotReadable(id)
        /\ \A l \in Link : \A o \in Live(l) : o.id = id => o.since < lastClear[n]
    BY <1>3 DEF Wipe, InNode, Recorded
  <2>2. CASE OnlyMoves(id, n)
    BY <1>3, <2>2, WipeMoves
  <2>3. ASSUME NEW l \in Link, LinkTask(l), trace'[id] # trace[id]
        PROVE  Wipe(id, n)'
    <3>1. PICK o \in Live(l) :
            /\ o.id = id
            /\ o.since < lastClear[Source[l]] =>
                 trace'[id] = Recorded("DroppedBufferCleared", Source[l])
      BY <1>1, <2>3, LinkTaskLeaves
    <3>2. Source[l] = n
      BY <1>1, <1>3, <3>1, WhenOffered, LogSteps
    <3> QED
      BY <2>1, <3>1, <3>2 DEF Wipe
  <2> QED
    BY <1>1, <1>3, <2>1, <2>2, <2>3, StoredStays
<1> QED
  BY <1>2, <1>3 DEF Wipe

\* In every network, a packet that a buffer clear found in the buffer never
\* leaves the node: no link that holds a copy of it sends it, however late its
\* turn comes (Node::clear_buffer, process_link_queue).
THEOREM ClearedPacketsStay == Spec => WipedNeverSent
<1> SUFFICES ASSUME NEW id \in Id, NEW n \in Node
             PROVE  Spec => [](Wiped(id, n) => [](trace[id] \in {Recorded("InNode", n), Recorded("DroppedBufferCleared", n)}))
  BY DEF WipedNeverSent
<1>1. FateInv /\ Wiped(id, n) => Wipe(id, n)
  <2> SUFFICES ASSUME FateInv, Wiped(id, n)
               PROVE  Wipe(id, n)
    OBVIOUS
  <2>1. OneCustodian(id) /\ ChannelsApart
    BY DEF FateInv, CustodyInv
  <2>2. CASE \E i \in Queued(n, id) : outbound[n][i].since < lastClear[n]
    <3>1. PICK i \in Positions(n) : QueuedId(n, i) = id /\ outbound[n][i].since < lastClear[n]
      BY <2>2 DEF Queued, Positions, QueuedId
    <3>2. trace[id] = InNode(n) /\ QueuedOnly(id, n, i)
      BY <2>1, <3>1, WhenQueued
    <3> QED
      BY <3>1, <3>2 DEF Wipe, QueuedOnly, NotOffered
  <2>3. CASE \E o \in Pending(n) : o.id = id /\ o.since < lastClear[n]
    <3>1. PICK o \in Pending(n) : o.id = id /\ o.since < lastClear[n]
      BY <2>3
    <3>2. PICK l \in Link : Source[l] = n /\ o \in Live(l)
      BY DEF Pending, Live
    <3>3. trace[id] = InNode(n) /\ OfferedOnly(id, n, o.channel)
      BY <2>1, <3>1, <3>2, WhenOffered
    <3>4. \A k \in Link : \A p \in Live(k) : p.id = id => p = o
      BY <2>1, <3>2, <3>3 DEF OfferedOnly, ChannelsApart
    <3> QED
      BY <3>1, <3>3, <3>4 DEF Wipe, OfferedOnly, NotQueued
  <2> QED
    BY <2>2, <2>3 DEF Wiped
<1>2. Wipe(id, n) => trace[id] \in {Recorded("InNode", n), Recorded("DroppedBufferCleared", n)}
  BY DEF Wipe, InNode
<1>3. FateInv /\ Wipe(id, n) /\ [Next]_vars => Wipe(id, n)'
  BY WipeStays
<1> QED
  BY <1>1, <1>2, <1>3, InitFate, NextFate, PTL DEF Spec

-----------------------------------------------------------------------------
(* When packets arrive.                                                     *)

\* DeliveredOnTime is not inductive: that the timer of a link does not fire
\* late rests on the packets of a link without extra delays arriving in the
\* order they were sent, so that the timer, set once, is never too late.
Punctual(l) ==
  /\ \A x \in inTransit[l] : x.arrival <= now + Delay[l]
  /\ wakeAt[l] # Never => /\ wakeAt[l] <= now + Delay[l]
                          /\ \A x \in inTransit[l] : wakeAt[l] <= x.arrival
  /\ (TimeWarp /\ <<"forwarder", l>> \notin dead) => \A x \in inTransit[l] : now <= x.arrival

\* A forwarder that sets its timer to the earliest of what is on the link.
LEMMA TimerIsPunctual ==
  ASSUME TypeOK, TypeOK', NEW l \in Link, Punctual(l), now' = now, dead \subseteq dead',
         inTransit'[l] \subseteq inTransit[l],
         wakeAt'[l] = wakeAt[l] \/ wakeAt'[l] = EarliestArrival(inTransit'[l])
  PROVE  Punctual(l)'
<1>1. now \in Nat /\ Delay[l] \in Nat /\ \A x \in inTransit[l] : x.arrival \in Nat
  BY ParameterAssumption DEF TypeOK, Transit
<1>2. \A x \in inTransit'[l] : x.arrival <= now' + Delay[l]
  BY <1>1 DEF Punctual
<1>3. wakeAt'[l] # Never => /\ wakeAt'[l] <= now' + Delay[l]
                            /\ \A x \in inTransit'[l] : wakeAt'[l] <= x.arrival
  <2>1. CASE wakeAt'[l] = wakeAt[l]
    BY <2>1 DEF Punctual
  <2>2. CASE wakeAt'[l] = EarliestArrival(inTransit'[l])
    <3>1. inTransit'[l] = {} => wakeAt'[l] = Never
      BY <2>2 DEF EarliestArrival
    <3>2. inTransit'[l] # {} => /\ EarliestArrival(inTransit'[l]) \in {x.arrival : x \in inTransit'[l]}
                                /\ \A x \in inTransit'[l] : EarliestArrival(inTransit'[l]) <= x.arrival
      <4>1. PICK S : S = inTransit'[l]
        OBVIOUS
      <4>2. S \in SUBSET Transit
        BY <4>1 DEF TypeOK
      <4>3. S # {} => /\ EarliestArrival(S) \in {x.arrival : x \in S}
                      /\ \A x \in S : EarliestArrival(S) <= x.arrival
        BY <4>2, EarliestArrivalType
      <4> QED
        BY <4>1, <4>3
    <3> QED
      BY <1>2, <2>2, <3>1, <3>2
  <2> QED
    BY <2>1, <2>2
<1>4. (TimeWarp /\ <<"forwarder", l>> \notin dead') => \A x \in inTransit'[l] : now' <= x.arrival
  BY DEF Punctual
<1> QED
  BY <1>2, <1>3, <1>4 DEF Punctual

\* Tasks stay dead.
LEMMA DeadStay ==
  ASSUME [Next]_vars
  PROVE  dead \subseteq dead'
<1>1. ASSUME NEW n, NEW id, NEW d, NEW fresh, NEW task, Forward(n, id, d, fresh, task)
      PROVE  dead \subseteq dead'
  <2>1. ASSUME NEW copies, NEW size, StoreCopies(n, copies, size, task)
        PROVE  dead \subseteq dead'
    BY <2>1 DEF StoreCopies
  <2> QED
    BY <1>1, <2>1 DEF Forward, ArriveAtDownNode, ArriveAtEndpoint, DropRandomly, StorePacket, StoreDuplicated
<1>2. ASSUME NEW l \in Link, DeliverNext(l)
      PROVE  dead \subseteq dead'
  BY <1>1, <1>2 DEF DeliverNext, LoseInTransit
<1>3. ASSUME NEW f \in Flow, NEW size \in Size, NEW ecn \in HostEcn, HostSend(f, size, ecn)
      PROVE  dead \subseteq dead'
  BY <1>1, <1>3 DEF HostSend
<1>4. ASSUME NEW n \in Node, Dispatch(n)
      PROVE  dead \subseteq dead'
  BY <1>4 DEF Dispatch
<1>5. ASSUME NEW l \in Link, LinkTask(l)
      PROVE  dead \subseteq dead'
  <2>1. ASSUME NEW o, NEW k, Offer(l, o, k)
        PROVE  dead \subseteq dead'
    BY <2>1 DEF Offer, Await, Transmit, DropCleared, SendOnLink, SendPanics
  <2>2. ASSUME NEW w, NEW o, NEW k, Await(l, w, o, k)
        PROVE  dead \subseteq dead'
    BY <2>2 DEF Await
  <2>3. ASSUME NEW o, LoopTop(l, o) \/ AfterLinkUp(l, o) \/ AfterNodeUp(l, o)
        PROVE  dead \subseteq dead'
    BY <2>1, <2>2, <2>3 DEF LoopTop, AfterLinkUp, AfterNodeUp
  <2>4. WaitPanics(l) => dead \subseteq dead'
    BY DEF WaitPanics
  <2> QED
    BY <1>5, <2>1, <2>2, <2>3, <2>4 DEF LinkTask, TakePacket, Discard, Resume
<1>6. ASSUME \/ \E n \in Node : HostReceive(n)
             \/ \E l \in Link : SetTimer(l)
             \/ \E l \in EventLink, up \in BOOLEAN : LinkEvent(l, up)
             \/ \E n, up, clear : NodeEvent(n, up, clear)
             \/ Tick
             \/ UNCHANGED vars
      PROVE  dead' = dead
  BY <1>6 DEF HostReceive, SetTimer, LinkEvent, NodeEvent, Tick, vars
<1> QED
  BY <1>2, <1>3, <1>4, <1>5, <1>6 DEF Next, Forwarder

\* What a link's task puts on its link.
LEMMA LinkTaskSends ==
  ASSUME TypeOK, NEW l \in Link, LinkTask(l)
  PROVE  /\ now' = now /\ wakeAt' = wakeAt
         /\ \/ inTransit' = inTransit
            \/ \E id : \E extra \in ExtraDelayDraw(l) :
                 inTransit' = [inTransit EXCEPT ![l] =
                   @ \cup {[id |-> id, sent |-> now, arrival |-> now + Delay[l] + extra]}]
<1>1. now' = now /\ wakeAt' = wakeAt
  BY LinkTaskCases DEF linkTaskFrame, clockVars
<1>2. PICK o \in Outgoing :
        \/ LetsGo(l, o) \/ WaitPanics(l)
        \/ \E w \in Waiting, k \in Nat : Await(l, w, o, k)
        \/ Transmit(l, o)
  BY LinkTaskCases
<1>3. ASSUME \/ LetsGo(l, o) \/ WaitPanics(l)
             \/ \E w \in Waiting, k \in Nat : Await(l, w, o, k)
             \/ DropCleared(l, o)
             \/ \E congestion : SendPanics(l, o, congestion)
      PROVE  inTransit' = inTransit
  BY <1>3 DEF LetsGo, WaitPanics, Await, DropCleared, SendPanics
<1>4. ASSUME NEW congestion, NEW extra \in ExtraDelayDraw(l), SendOnLink(l, o, congestion, extra)
      PROVE  \E id : \E e \in ExtraDelayDraw(l) :
               inTransit' = [inTransit EXCEPT ![l] =
                 @ \cup {[id |-> id, sent |-> now, arrival |-> now + Delay[l] + e]}]
  <2>1. inTransit' = [inTransit EXCEPT ![l] =
          @ \cup {[id |-> o.id, sent |-> now, arrival |-> now + Delay[l] + extra]}]
    BY <1>4 DEF SendOnLink
  <2> QED
    BY <2>1
<1>5. CASE Transmit(l, o)
  BY <1>1, <1>3, <1>4, <1>5 DEF Transmit
<1> QED
  BY <1>1, <1>2, <1>3, <1>5

LEMMA NextPunctual ==
  ASSUME NEW l \in Link, ExtraDelay[l] = 0
  PROVE  TypeOK /\ Punctual(l) /\ [Next]_vars => Punctual(l)'
<1> SUFFICES ASSUME TypeOK, Punctual(l), [Next]_vars
             PROVE  Punctual(l)'
  OBVIOUS
<1>1. TypeOK'
  BY NextTypeOK
<1>2. dead \subseteq dead'
  BY DeadStay
<1>3. now \in Nat /\ Delay[l] \in Nat /\ \A x \in inTransit[l] : x.arrival \in Nat
  BY ParameterAssumption DEF TypeOK, Transit
<1>4. CASE now' = now /\ inTransit'[l] \subseteq inTransit[l]
           /\ (wakeAt'[l] = wakeAt[l] \/ wakeAt'[l] = EarliestArrival(inTransit'[l]))
  BY <1>1, <1>2, <1>4, TimerIsPunctual
<1>5. CASE Tick
  <2>1. now' = now + 1 /\ UNCHANGED <<inTransit, wakeAt, dead>>
    BY <1>5 DEF Tick, transitVars
  <2>2. wakeAt[l] \in Nat \cup {Never} /\ wakeAt[l] \in Int
    BY DEF TypeOK, Never
  <2>3. \A x \in inTransit[l] : x.arrival <= now' + Delay[l]
    BY <1>3, <2>1 DEF Punctual
  <2>4. wakeAt[l] # Never => wakeAt[l] <= now' + Delay[l]
    BY <1>3, <2>1, <2>2 DEF Punctual
  <2>5. ASSUME TimeWarp, <<"forwarder", l>> \notin dead, NEW x \in inTransit[l]
        PROVE  now' <= x.arrival
    <3>1. ~ForwarderWoken(l)
      BY <1>5, <2>5 DEF Tick, Busy
    <3>2. wakeAt[l] # Never /\ ~(wakeAt[l] <= now)
      BY <2>5, <3>1 DEF ForwarderWoken
    <3>3. wakeAt[l] <= x.arrival
      BY <3>2 DEF Punctual
    <3> QED
      BY <1>3, <2>1, <2>2, <3>2, <3>3
  <2> QED
    BY <2>1, <2>3, <2>4, <2>5 DEF Punctual
<1>6. ASSUME NEW k \in Link, LinkTask(k)
      PROVE  Punctual(l)'
  <2>1. now' = now /\ wakeAt' = wakeAt
    BY <1>6, LinkTaskSends
  <2>2. CASE inTransit'[l] = inTransit[l]
    BY <1>4, <2>1, <2>2
  <2>3. CASE inTransit'[l] # inTransit[l]
    <3>1. PICK id, extra :
            /\ extra \in ExtraDelayDraw(k)
            /\ inTransit' = [inTransit EXCEPT ![k] =
                 @ \cup {[id |-> id, sent |-> now, arrival |-> now + Delay[k] + extra]}]
      BY <1>6, <2>3, LinkTaskSends
    <3>2. k = l /\ extra = 0
      BY <2>3, <3>1 DEF TypeOK, ExtraDelayDraw
    <3>3. \A x \in inTransit'[l] : x \in inTransit[l] \/ x.arrival = now + Delay[l] + 0
      BY <3>1, <3>2 DEF TypeOK
    <3>4. \A x \in inTransit'[l] : x \in inTransit[l] \/ x.arrival = now + Delay[l]
      BY <1>3, <3>3
    <3>5. \A x \in inTransit'[l] : x.arrival <= now' + Delay[l]
      BY <1>3, <2>1, <3>4 DEF Punctual
    <3>6. wakeAt[l] # Never => /\ wakeAt[l] <= now' + Delay[l]
                               /\ \A x \in inTransit'[l] : wakeAt[l] <= x.arrival
      BY <2>1, <3>4 DEF Punctual
    <3>7. (TimeWarp /\ <<"forwarder", l>> \notin dead') => \A x \in inTransit'[l] : now' <= x.arrival
      BY <1>2, <1>3, <2>1, <3>4 DEF Punctual
    <3> QED
      BY <2>1, <3>5, <3>6, <3>7 DEF Punctual
  <2> QED
    BY <2>2, <2>3
<1>7. ASSUME NEW k \in Link, DeliverNext(k) \/ SetTimer(k)
      PROVE  Punctual(l)'
  <2>1. now' = now
    BY <1>7 DEF DeliverNext, SetTimer, clockVars
  <2>2. PICK rest : /\ rest \subseteq inTransit[k] /\ inTransit' = [inTransit EXCEPT ![k] = rest]
                    /\ wakeAt' = [wakeAt EXCEPT ![k] = EarliestArrival(rest)]
    <3>1. CASE DeliverNext(k)
      BY <3>1 DEF DeliverNext
    <3>2. CASE SetTimer(k)
      <4>1. /\ inTransit' = inTransit
            /\ wakeAt' = [wakeAt EXCEPT ![k] = EarliestArrival(inTransit[k])]
        BY <3>2 DEF SetTimer
      <4>2. inTransit' = [inTransit EXCEPT ![k] = inTransit[k]]
        BY <4>1 DEF TypeOK
      <4> QED
        BY <4>1, <4>2
    <3> QED
      BY <1>7, <3>1, <3>2
  <2>3. CASE k = l
    <3>1. inTransit'[l] = rest /\ wakeAt'[l] = EarliestArrival(rest)
      BY <2>2, <2>3 DEF TypeOK
    <3> QED
      BY <1>4, <2>1, <2>2, <2>3, <3>1
  <2>4. CASE k # l
    <3>1. inTransit'[l] = inTransit[l] /\ wakeAt'[l] = wakeAt[l]
      BY <2>2, <2>4 DEF TypeOK
    <3> QED
      BY <1>4, <2>1, <3>1
  <2> QED
    BY <2>3, <2>4
<1>8. ASSUME \/ \E f \in Flow, size \in Size, ecn \in HostEcn : HostSend(f, size, ecn)
             \/ \E n \in Node : HostReceive(n)
             \/ \E n \in Node : Dispatch(n)
             \/ \E k \in EventLink, up \in BOOLEAN : LinkEvent(k, up)
             \/ \E n, up, clear : NodeEvent(n, up, clear)
             \/ UNCHANGED vars
      PROVE  UNCHANGED <<now, inTransit, wakeAt>>
  BY <1>8 DEF HostSend, HostReceive, Dispatch, LinkEvent, NodeEvent, vars, clockVars, transitVars
<1>9. CASE UNCHANGED <<now, inTransit, wakeAt>>
  BY <1>4, <1>9
<1> QED
  BY <1>5, <1>6, <1>7, <1>8, <1>9 DEF Next, Forwarder

\* In every network whose links inject no extra delays, the paused clock never
\* passes the arrival time of a packet on a link whose forwarder is alive: it
\* is handed over at that very instant (NextPacketDelivery::poll).
THEOREM LinksDeliverOnTime ==
  ASSUME \A l \in Link : ExtraDelay[l] = 0
  PROVE  Spec => []DeliveredOnTime
<1> DEFINE OnTime == TypeOK /\ \A l \in Link : Punctual(l)
<1>1. Init => OnTime
  BY InitTypeOK DEF Init, Punctual
<1>2. OnTime /\ [Next]_vars => OnTime'
  BY NextTypeOK, NextPunctual
<1>3. OnTime => DeliveredOnTime
  BY DEF DeliveredOnTime, Punctual
<1> QED
  BY <1>1, <1>2, <1>3, PTL DEF Spec

-----------------------------------------------------------------------------
(* The bytes of a buffer.                                                   *)

\* The bytes of the packets in S with the data d.
BytesIn(S, d) == UNION {{id} \X (1..d[id].size) : id \in S}
SizeOf(S, d)  == Cardinality(BytesIn(S, d))

LEMMA ByteOf ==
  ASSUME NEW S, NEW d, NEW x
  PROVE  x \in BytesIn(S, d) <=> \E id \in S : \E b \in 1..d[id].size : x = <<id, b>>
  BY DEF BytesIn

LEMMA SizeType ==
  ASSUME NEW S, S \subseteq Id, NEW d, \A id \in S : d[id].size \in Nat
  PROVE  IsFiniteSet(BytesIn(S, d)) /\ SizeOf(S, d) \in Nat
<1>1. PICK T : T = {{id} \X (1..d[id].size) : id \in S}
  OBVIOUS
<1>2. PICK g : g = [id \in S |-> {id} \X (1..d[id].size)]
  OBVIOUS
<1>3. IsFiniteSet(Id)
  BY ParameterAssumption, FS_Interval DEF Id
<1>4. IsFiniteSet(S)
  BY <1>3, FS_Subset
<1>5. g \in [S -> T] /\ \A t \in T : \E id \in S : g[id] = t
  BY <1>1, <1>2
<1>6. g \in Surjection(S, T)
  BY <1>5, Fun_IsSurj
<1>7. IsFiniteSet(T)
  BY <1>4, <1>6, FS_Surjection
<1>8. ASSUME NEW id \in S PROVE IsFiniteSet({id} \X (1..d[id].size))
  <2>1. IsFiniteSet({id})
    BY FS_Singleton
  <2>2. IsFiniteSet(1..d[id].size)
    BY FS_Interval
  <2> QED
    BY <2>1, <2>2, FS_Product
<1>9. IsFiniteSet(UNION T)
  <2>1. \A t \in T : IsFiniteSet(t)
    BY <1>1, <1>8
  <2> QED
    BY <1>7, <2>1, FS_UNION
<1>10. BytesIn(S, d) = UNION T
  BY <1>1 DEF BytesIn
<1>11. IsFiniteSet(BytesIn(S, d))
  BY <1>9, <1>10
<1> QED
  BY <1>11, FS_CardinalityType DEF SizeOf

LEMMA SizeDisjoint ==
  ASSUME NEW S, S \subseteq Id, NEW T, T \subseteq Id, S \cap T = {},
         NEW d, \A id \in S \cup T : d[id].size \in Nat
  PROVE  SizeOf(S \cup T, d) = SizeOf(S, d) + SizeOf(T, d)
<1>1. IsFiniteSet(BytesIn(S, d)) /\ IsFiniteSet(BytesIn(T, d))
  BY SizeType
<1>2. BytesIn(S \cup T, d) = BytesIn(S, d) \cup BytesIn(T, d)
  BY DEF BytesIn
<1>3. BytesIn(S, d) \cap BytesIn(T, d) = {}
  <2>1. ASSUME NEW x, x \in BytesIn(S, d), x \in BytesIn(T, d) PROVE FALSE
    <3>1. PICK i \in S : \E b \in 1..d[i].size : x = <<i, b>>
      BY <2>1, ByteOf
    <3>2. PICK j \in T : \E b \in 1..d[j].size : x = <<j, b>>
      BY <2>1, ByteOf
    <3>3. i = j
      BY <3>1, <3>2
    <3> QED
      BY <3>3
  <2> QED
    BY <2>1
<1>4. Cardinality(BytesIn(S, d) \cup BytesIn(T, d))
        = Cardinality(BytesIn(S, d)) + Cardinality(BytesIn(T, d)) - Cardinality({})
  BY <1>1, <1>3, FS_Union
<1>5. Cardinality({}) = 0
  BY FS_EmptySet
<1>6. Cardinality(BytesIn(S, d)) \in Nat /\ Cardinality(BytesIn(T, d)) \in Nat
  BY <1>1, FS_CardinalityType
<1>7. /\ SizeOf(S \cup T, d) = Cardinality(BytesIn(S, d) \cup BytesIn(T, d))
      /\ SizeOf(S, d) = Cardinality(BytesIn(S, d)) /\ SizeOf(T, d) = Cardinality(BytesIn(T, d))
  BY <1>2 DEF SizeOf
<1> QED
  BY <1>4, <1>5, <1>6, <1>7

LEMMA SizeSingle ==
  ASSUME NEW id, NEW d, d[id].size \in Nat
  PROVE  SizeOf({id}, d) = d[id].size
<1>1. PICK n \in Nat : n = d[id].size
  OBVIOUS
<1>2. BytesIn({id}, d) = {id} \X (1..n)
  BY <1>1 DEF BytesIn
<1>3. IsFiniteSet({id}) /\ Cardinality({id}) = 1
  BY FS_Singleton
<1>4. IsFiniteSet(1..n) /\ Cardinality(1..n) = n
  BY FS_Interval
<1>5. Cardinality({id} \X (1..n)) = 1 * n
  <2>1. Cardinality({id} \X (1..n)) = Cardinality({id}) * Cardinality(1..n)
    BY <1>3, <1>4, FS_Product
  <2> QED
    BY <1>3, <1>4, <2>1
<1>6. SizeOf({id}, d) = Cardinality({id} \X (1..n))
  BY <1>2 DEF SizeOf
<1> QED
  BY <1>1, <1>5, <1>6

\* Of the c bytes of a buffer a are free, and the packets S take the rest.
Balanced(a, S, d, c) == a + SizeOf(S, d) = c

LEMMA BalanceGrows ==
  ASSUME NEW S, S \subseteq Id, NEW id \in Id \ S, NEW d, \A j \in S \cup {id} : d[j].size \in Nat,
         NEW a \in Nat, NEW c \in Nat, Balanced(a, S, d, c)
  PROVE  Balanced(a - d[id].size, S \cup {id}, d, c)
<1>1. SizeOf(S, d) \in Nat
  BY SizeType
<1>2. SizeOf({id}, d) = d[id].size /\ d[id].size \in Nat
  BY SizeSingle
<1>3. SizeOf(S \cup {id}, d) = SizeOf(S, d) + SizeOf({id}, d)
  <2>1. {id} \subseteq Id /\ S \cap {id} = {}
    OBVIOUS
  <2> QED
    BY <2>1, SizeDisjoint
<1> QED
  BY <1>1, <1>2, <1>3 DEF Balanced

LEMMA BalanceShrinks ==
  ASSUME NEW S, S \subseteq Id, NEW id \in S, NEW d, \A j \in S : d[j].size \in Nat,
         NEW a \in Nat, NEW c \in Nat, Balanced(a, S, d, c)
  PROVE  Balanced(a + d[id].size, S \ {id}, d, c)
<1>1. SizeOf(S \ {id}, d) \in Nat
  BY SizeType
<1>2. SizeOf({id}, d) = d[id].size /\ d[id].size \in Nat
  BY SizeSingle
<1>3. SizeOf(S, d) = SizeOf(S \ {id}, d) + SizeOf({id}, d)
  <2>1. {id} \subseteq Id /\ (S \ {id}) \cap {id} = {} /\ S \ {id} \subseteq Id /\ S = (S \ {id}) \cup {id}
    OBVIOUS
  <2>2. SizeOf((S \ {id}) \cup {id}, d) = SizeOf(S \ {id}, d) + SizeOf({id}, d)
    BY <2>1, SizeDisjoint
  <2> QED
    BY <2>1, <2>2
<1> QED
  BY <1>1, <1>2, <1>3 DEF Balanced

\* Only the sizes count.
LEMMA BalanceAgrees ==
  ASSUME NEW S, NEW d, NEW e, \A j \in S : e[j].size = d[j].size,
         NEW a, NEW c, Balanced(a, S, d, c)
  PROVE  Balanced(a, S, e, c)
<1>1. BytesIn(S, e) = BytesIn(S, d)
  BY DEF BytesIn
<1> QED
  BY <1>1 DEF Balanced, SizeOf

-----------------------------------------------------------------------------
(* Free space and the log.                                                  *)

\* The packets that take space at node n: those that the log shows there and no
\* socket can read, and those that a clear dropped there.
Cleared(n) == Recorded("DroppedBufferCleared", n)
Taken(n) ==
  {id \in Id : \/ trace[id] = InNode(n) /\ \A x \in inbound[n] : x.id # id
               \/ trace[id] = Cleared(n)}

BalanceInv ==
  /\ CustodyInv
  /\ \A n \in Node : Balanced(available[n], Taken(n), data, Capacity[n])

LEMMA TakenSteps ==
  ASSUME NEW n, NEW id \in Taken(n)
  PROVE  id \in Id /\ trace[id].step \in {"InNode", "DroppedBufferCleared"} /\ trace[id].at = n
BY DEF Taken, InNode, Cleared, Recorded

LEMMA NotTaken ==
  ASSUME NEW id, trace[id].step \notin {"InNode", "DroppedBufferCleared"}
  PROVE  \A n : id \notin Taken(n)
BY TakenSteps

LEMMA NotTakenNext ==
  ASSUME NEW id, trace'[id].step \notin {"InNode", "DroppedBufferCleared"}
  PROVE  \A n : id \notin Taken(n)'
<1>1. ASSUME NEW n, id \in Taken(n)' PROVE FALSE
  <2>1. trace'[id] = InNode(n) \/ trace'[id] = Cleared(n)
    BY <1>1 DEF Taken, InNode, Cleared, Recorded
  <2> QED
    BY <2>1 DEF InNode, Cleared, Recorded
<1> QED
  BY <1>1

LEMMA TakenSame ==
  ASSUME NEW n \in Node, NEW id \in Id, trace'[id] = trace[id],
         (\A x \in inbound'[n] : x.id # id) <=> (\A x \in inbound[n] : x.id # id)
  PROVE  id \in Taken(n)' <=> id \in Taken(n)
BY DEF Taken, InNode, Cleared, Recorded

LEMMA SizesAreNat ==
  ASSUME TypeOK
  PROVE  /\ \A id \in Id : data[id].size \in Nat
         /\ \A n \in Node : available[n] \in Nat /\ Capacity[n] \in Nat /\ Taken(n) \subseteq Id
<1>1. \A id \in Id : data[id].size \in Nat
  <2>1. \A id \in Id : data[id] \in Data
    BY DEF TypeOK
  <2>2. Size \subseteq Nat
    BY ParameterAssumption
  <2> QED
    BY <2>1, <2>2 DEF Data
<1>2. \A n \in Node : available[n] \in Nat /\ Capacity[n] \in Nat
  BY ParameterAssumption DEF TypeOK
<1> QED
  BY <1>1, <1>2 DEF Taken

\* A node whose space and packets stay as they are.
LEMMA BalanceStays ==
  ASSUME NEW n \in Node, Balanced(available[n], Taken(n), data, Capacity[n]),
         available'[n] = available[n], Taken(n)' = Taken(n),
         \A id \in Taken(n) : data'[id].size = data[id].size
  PROVE  Balanced(available'[n], Taken(n)', data', Capacity[n])
BY BalanceAgrees

-----------------------------------------------------------------------------
(* What arrives is charged to the buffer that keeps it.                     *)

Unkept(n) == Recorded("DroppedBufferFull", n)

LEMMA StoreOneSpace ==
  ASSUME TypeOK, NEW n \in Node, NEW id \in Id, NEW size \in Size, NEW task,
         StoreCopies(n, <<id>>, size, task)
  PROVE  /\ \A m \in Node \ {n} : available'[m] = available[m]
         /\ \A j \in Id \ {id} : trace'[j] = trace[j]
         /\ \/ available'[n] = available[n] /\ trace'[id] = Unkept(n)
            \/ available'[n] = available[n] - size /\ trace'[id] = InNode(n)
<1> DEFINE s0 == [space |-> available[n], queue |-> outbound[n],
                  kept |-> {}, full |-> {}, panic |-> FALSE]
           s  == Enqueue(s0, n, id, size)
<1>1. /\ available' = [available EXCEPT ![n] = s.space]
      /\ trace' = [x \in Id |-> IF x \in s.full THEN Unkept(n)
                                ELSE IF x \in s.kept THEN InNode(n)
                                ELSE trace[x]]
  BY DEF StoreCopies, InNode, Unkept
<1>2. \/ s.space = available[n] /\ s.full = {id} /\ s.kept = {}
      \/ s.space = available[n] - size /\ s.full = {} /\ s.kept = {id}
  BY DEF Enqueue
<1> HIDE DEF s
<1>3. available' \in [Node -> {available[m] : m \in Node} \cup {s.space}]
  BY <1>1 DEF TypeOK
<1> QED
  BY <1>1, <1>2 DEF TypeOK

LEMMA StoreTwoSpace ==
  ASSUME TypeOK, NEW n \in Node, NEW id \in Id, NEW copy \in Id, id # copy,
         NEW size \in Size, NEW task, StoreCopies(n, <<id, copy>>, size, task)
  PROVE  /\ \A m \in Node \ {n} : available'[m] = available[m]
         /\ \A j \in Id \ {id, copy} : trace'[j] = trace[j]
         /\ \/ available'[n] = available[n] /\ trace'[id] = Unkept(n) /\ trace'[copy] = Unkept(n)
            \/ /\ available'[n] = available[n] - size /\ trace'[id] = InNode(n)
               /\ trace'[copy] \in {Unkept(n), trace[copy]}
            \/ /\ available[n] - size \in Nat /\ available'[n] = (available[n] - size) - size
               /\ trace'[id] = InNode(n) /\ trace'[copy] = InNode(n)
<1> DEFINE s0 == [space |-> available[n], queue |-> outbound[n],
                  kept |-> {}, full |-> {}, panic |-> FALSE]
           s1 == Enqueue(s0, n, id, size)
           s  == Enqueue(s1, n, copy, size)
<1>1. /\ available' = [available EXCEPT ![n] = s.space]
      /\ trace' = [x \in Id |-> IF x \in s.full THEN Unkept(n)
                                ELSE IF x \in s.kept THEN InNode(n)
                                ELSE trace[x]]
  BY DEF StoreCopies, InNode, Unkept
<1>2. available[n] \in Nat /\ size \in Nat
  BY ParameterAssumption DEF TypeOK
<1>3. CASE available[n] < size
  <2>1. s1 = [s0 EXCEPT !.full = {id}]
    BY <1>3 DEF Enqueue
  <2>2. s1.space = available[n] /\ s1.queue = outbound[n] /\ s1.full = {id} /\ s1.kept = {} /\ ~s1.panic
    BY <2>1
  <2> HIDE DEF s1
  <2>3. s.space = available[n] /\ s.full = {id, copy} /\ s.kept = {}
    BY <1>3, <2>1, <2>2 DEF Enqueue
  <2> HIDE DEF s
  <2> QED
    BY <1>1, <2>3 DEF TypeOK
<1>4. CASE ~(available[n] < size)
  <2>1. s1.space = available[n] - size /\ s1.full = {} /\ s1.kept = {id}
    BY <1>4 DEF Enqueue
  <2>2. available[n] - size \in Nat
    BY <1>2, <1>4
  <2>3. s1 \in BufferState
    <3>1. s0 \in BufferState /\ now \in Nat
      BY DEF BufferState, TypeOK
    <3> QED
      BY <3>1, EnqueueType
  <2> HIDE DEF s1
  <2>4. \/ s.space = available[n] - size /\ s.full = {} /\ s.kept = {id}
        \/ s.space = available[n] - size /\ s.full = {copy} /\ s.kept = {id}
        \/ s.space = (available[n] - size) - size /\ s.full = {} /\ s.kept = {id, copy}
    BY <2>1, <2>3 DEF Enqueue, BufferState
  <2> HIDE DEF s
  <2> QED
    BY <1>1, <2>2, <2>4 DEF TypeOK
<1> QED
  BY <1>3, <1>4

\* Packet id, new to the buffers, arrives at node n with data d, and possibly a
\* duplicate of it.
LEMMA ArrivalBalance ==
  ASSUME TypeOK, NEW n \in Node, NEW id \in Id, NEW d \in Data, NEW task,
         NEW fresh \in 1..(MaxPackets + 1), id # fresh, Forward(n, id, d, fresh, task),
         trace[id].step \notin {"InNode", "DroppedBufferCleared"}, NotReadable(id),
         fresh \in Id => /\ trace[fresh].step \notin {"InNode", "DroppedBufferCleared"}
                         /\ NotReadable(fresh),
         \A m \in Node : Balanced(available[m], Taken(m), data, Capacity[m])
  PROVE  \A m \in Node : Balanced(available'[m], Taken(m)', data', Capacity[m])
<1>1. /\ \A m \in Node : id \notin Taken(m)
      /\ fresh \in Id => \A m \in Node : fresh \notin Taken(m)
  BY NotTaken
<1>2. PICK size \in Size : size = d.size
  BY DEF Data
<1>3. size \in Nat /\ \A m \in Node : available[m] \in Nat /\ Capacity[m] \in Nat /\ Taken(m) \subseteq Id
  BY SizesAreNat, ParameterAssumption
<1>4. \A j \in Id : data[j].size \in Nat
  BY SizesAreNat
<1>5. \A m : Unkept(m).step \notin {"InNode", "DroppedBufferCleared"}
  BY DEF Unkept, Recorded
<1>6. ASSUME \A m \in Node : available'[m] = available[m],
             \A m \in Node : Taken(m)' = Taken(m),
             data' = [data EXCEPT ![id] = d] \/ data' = [data EXCEPT ![id] = d, ![fresh] = d]
      PROVE  \A m \in Node : Balanced(available'[m], Taken(m)', data', Capacity[m])
  <2>1. ASSUME NEW m \in Node
        PROVE  Balanced(available'[m], Taken(m)', data', Capacity[m])
    <3>1. \A j \in Taken(m) : j \in Id /\ j # id /\ j # fresh
      BY <1>1, <1>3
    <3>2. \A j \in Taken(m) : data'[j].size = data[j].size
      BY <1>6, <3>1 DEF TypeOK
    <3> QED
      BY <1>6, <3>2, BalanceStays
  <2> QED
    BY <2>1
<1>7. CASE ArriveAtDownNode(n, id, d, fresh) \/ DropRandomly(n, id, d, fresh)
  <2>1. PICK step \in {"DroppedOnArrival", "DroppedRandom"} :
          trace' = [trace EXCEPT ![id] = Recorded(step, n)]
    BY <1>7 DEF ArriveAtDownNode, DropRandomly, Track
  <2>2. inbound' = inbound /\ available' = available /\ data' = [data EXCEPT ![id] = d]
    BY <1>7 DEF ArriveAtDownNode, DropRandomly
  <2>3. /\ \A j \in Id \ {id} : trace'[j] = trace[j]
        /\ trace'[id].step \notin {"InNode", "DroppedBufferCleared"}
    BY <2>1 DEF TypeOK, Recorded
  <2>4. \A m \in Node : id \notin Taken(m)'
    BY <2>3, NotTakenNext
  <2>5. ASSUME NEW m \in Node PROVE Taken(m)' = Taken(m)
    <3>1. \A j \in Id \ {id} : j \in Taken(m)' <=> j \in Taken(m)
      BY <2>2, <2>3, TakenSame
    <3>2. Taken(m)' \subseteq Id /\ Taken(m) \subseteq Id
      BY DEF Taken
    <3>3. id \notin Taken(m) /\ id \notin Taken(m)'
      BY <1>1, <2>4
    <3> QED
      BY <3>1, <3>2, <3>3
  <2> QED
    BY <1>6, <2>2, <2>5
<1>8. CASE ArriveAtEndpoint(n, id, d, fresh)
  <2>1. PICK z : /\ z.id = id
                 /\ inbound' = [inbound EXCEPT ![n] = @ \cup {z}]
                 /\ trace' = [trace EXCEPT ![id] = InNode(n)]
                 /\ available' = available /\ data' = [data EXCEPT ![id] = d]
    <3>1. PICK z : z = [id |-> id, arrival |-> now]
      OBVIOUS
    <3>2. z.id = id
      BY <3>1
    <3>3. inbound' = [inbound EXCEPT ![n] = @ \cup {z}]
      BY <1>8, <3>1 DEF ArriveAtEndpoint
    <3>4. /\ trace' = [trace EXCEPT ![id] = InNode(n)]
          /\ available' = available /\ data' = [data EXCEPT ![id] = d]
      BY <1>8 DEF ArriveAtEndpoint, Track, InNode
    <3> QED
      BY <3>2, <3>3, <3>4
  <2>2. /\ \A j \in Id \ {id} : trace'[j] = trace[j]
        /\ trace'[id] = InNode(n) /\ z \in inbound'[n]
        /\ \A m \in Node : \A j \in Id \ {id} :
             (\A x \in inbound'[m] : x.id # j) <=> (\A x \in inbound[m] : x.id # j)
    BY <2>1 DEF TypeOK
  <2>3. \A m \in Node : id \notin Taken(m)'
    <3>1. \A m \in Node : InNode(n) # Cleared(m) /\ (InNode(n) = InNode(m) => m = n)
      BY DEF InNode, Cleared, Recorded
    <3>2. \A m \in Node : Cleared(m)' = Cleared(m) /\ InNode(m)' = InNode(m)
      BY DEF InNode, Cleared, Recorded
    <3> QED
      BY <2>1, <2>2, <3>1, <3>2 DEF Taken
  <2>4. ASSUME NEW m \in Node PROVE Taken(m)' = Taken(m)
    <3>1. \A j \in Id \ {id} : j \in Taken(m)' <=> j \in Taken(m)
      BY <2>2, TakenSame
    <3>2. Taken(m)' \subseteq Id /\ Taken(m) \subseteq Id
      BY DEF Taken
    <3>3. id \notin Taken(m) /\ id \notin Taken(m)'
      BY <1>1, <2>3
    <3> QED
      BY <3>1, <3>2, <3>3
  <2> QED
    BY <1>6, <2>1, <2>4
\* The packets that a buffer keeps, and nothing else, are new in it.
<1>9. ASSUME NEW K, K \subseteq {id, fresh} \cap Id, inbound' = inbound,
             \A j \in K : trace'[j] = InNode(n),
             \A j \in Id \ K : \/ trace'[j] = trace[j]
                               \/ j \in {id, fresh} /\ trace'[j] = Unkept(n)
      PROVE  /\ Taken(n)' = Taken(n) \cup K
             /\ \A m \in Node \ {n} : Taken(m)' = Taken(m)
  <2>1. \A j \in K : NotReadable(j)
    BY <1>9
  <2>2. \A j \in K : j \in Taken(n)' /\ \A m \in Node \ {n} : j \notin Taken(m)'
    <3>1. \A m \in Node : InNode(n) # Cleared(m) /\ (InNode(n) = InNode(m) => m = n)
      BY DEF InNode, Cleared, Recorded
    <3>2. \A m \in Node : Cleared(m)' = Cleared(m) /\ InNode(m)' = InNode(m)
      BY DEF InNode, Cleared, Recorded
    <3> QED
      BY <1>9, <2>1, <3>1, <3>2 DEF Taken, NotReadable
  <2>3. ASSUME NEW m \in Node, NEW j \in Id \ K PROVE j \in Taken(m)' <=> j \in Taken(m)
    <3>1. CASE trace'[j] = trace[j]
      BY <1>9, <3>1, TakenSame
    <3>2. CASE j \in {id, fresh} /\ trace'[j] = Unkept(n)
      <4>1. j \notin Taken(m)
        BY <1>1, <3>2
      <4>2. j \notin Taken(m)'
        BY <1>5, <3>2, NotTakenNext
      <4> QED
        BY <4>1, <4>2
    <3> QED
      BY <1>9, <3>1, <3>2
  <2>4. \A j \in K : \A m \in Node : j \notin Taken(m)
    BY <1>1, <1>9
  <2>5. \A m \in Node : Taken(m)' \subseteq Id /\ Taken(m) \subseteq Id
    BY DEF Taken
  <2>6. K \subseteq Id
    BY <1>9
  <2>7. Taken(n)' = Taken(n) \cup K
    BY <2>2, <2>3, <2>5, <2>6
  <2>8. ASSUME NEW m \in Node \ {n} PROVE Taken(m)' = Taken(m)
    <3>1. \A j \in K : j \notin Taken(m)' /\ j \notin Taken(m)
      BY <2>2, <2>4
    <3>2. \A j \in Id \ K : j \in Taken(m)' <=> j \in Taken(m)
      BY <2>3
    <3>3. Taken(m)' \subseteq Id /\ Taken(m) \subseteq Id
      BY <2>5
    <3> QED
      BY <3>1, <3>2, <3>3
  <2> QED
    BY <2>7, <2>8
\* Nodes that keep nothing, and the node that keeps K.
<1>10. ASSUME NEW K, K \subseteq {id, fresh} \cap Id, inbound' = inbound,
              data' = [data EXCEPT ![id] = d] \/ data' = [data EXCEPT ![id] = d, ![fresh] = d],
              \A j \in K : trace'[j] = InNode(n),
              \A j \in K : data'[j] = d,
              \A j \in Id \ K : \/ trace'[j] = trace[j]
                                \/ j \in {id, fresh} /\ trace'[j] = Unkept(n),
              \A m \in Node \ {n} : available'[m] = available[m],
              \/ K = {} /\ available'[n] = available[n]
              \/ K = {id} /\ available'[n] = available[n] - size
              \/ /\ K = {id, fresh} /\ available[n] - size \in Nat
                 /\ available'[n] = (available[n] - size) - size
       PROVE  \A m \in Node : Balanced(available'[m], Taken(m)', data', Capacity[m])
  <2>1. Taken(n)' = Taken(n) \cup K /\ \A m \in Node \ {n} : Taken(m)' = Taken(m)
    BY <1>9, <1>10
  <2>2. ASSUME NEW m \in Node
        PROVE  /\ \A j \in Taken(m) : data'[j].size = data[j].size /\ data'[j].size \in Nat
               /\ Balanced(available[m], Taken(m), data', Capacity[m])
    <3>1. \A j \in Taken(m) : j \in Id /\ j # id /\ j # fresh
      BY <1>1, <1>3
    <3>2. \A j \in Taken(m) : data'[j].size = data[j].size
      BY <1>10, <3>1 DEF TypeOK
    <3>3. \A j \in Taken(m) : data'[j].size \in Nat
      BY <1>4, <3>1, <3>2
    <3> QED
      BY <3>2, <3>3, BalanceAgrees
  <2>3. \A m \in Node \ {n} : Balanced(available'[m], Taken(m)', data', Capacity[m])
    BY <1>10, <2>1, <2>2
  <2>4. \A j \in K : data'[j].size = size
    BY <1>2, <1>10
  <2>5. CASE K = {} /\ available'[n] = available[n]
    BY <2>1, <2>2, <2>3, <2>5
  <2>6. CASE K = {id} /\ available'[n] = available[n] - size
    <3>1. id \in Id \ Taken(n)
      BY <1>1
    <3>2. \A j \in Taken(n) \cup {id} : data'[j].size \in Nat
      BY <1>3, <2>2, <2>4, <2>6
    <3>3. Balanced(available[n] - data'[id].size, Taken(n) \cup {id}, data', Capacity[n])
      BY <1>3, <2>2, <3>1, <3>2, BalanceGrows
    <3>4. data'[id].size = size
      BY <2>4, <2>6
    <3>5. Balanced(available'[n], Taken(n)', data', Capacity[n])
      BY <2>1, <2>6, <3>3, <3>4
    <3> QED
      BY <2>3, <3>5
  <2>7. CASE /\ K = {id, fresh} /\ available[n] - size \in Nat
             /\ available'[n] = (available[n] - size) - size
    <3>1. id \in Id \ Taken(n) /\ fresh \in Id \ (Taken(n) \cup {id})
      BY <1>1, <1>10, <2>7
    <3>2. \A j \in (Taken(n) \cup {id}) \cup {fresh} : data'[j].size \in Nat
      BY <1>3, <2>2, <2>4, <2>7
    <3>3. data'[id].size = size /\ data'[fresh].size = size
      BY <2>4, <2>7
    <3>4. Balanced(available[n] - data'[id].size, Taken(n) \cup {id}, data', Capacity[n])
      <4>1. \A j \in Taken(n) \cup {id} : data'[j].size \in Nat
        BY <3>2
      <4> QED
        BY <1>3, <2>2, <3>1, <4>1, BalanceGrows
    <3>5. PICK a \in Nat : a = available[n] - size
      BY <2>7
    <3>6. Balanced(a, Taken(n) \cup {id}, data', Capacity[n])
      BY <3>3, <3>4, <3>5
    <3>7. Balanced(a - data'[fresh].size, (Taken(n) \cup {id}) \cup {fresh}, data', Capacity[n])
      <4>1. Taken(n) \cup {id} \subseteq Id
        BY <1>3
      <4> QED
        BY <1>3, <3>1, <3>2, <3>6, <4>1, BalanceGrows
    <3>8. Taken(n)' = (Taken(n) \cup {id}) \cup {fresh}
      BY <2>1, <2>7
    <3>9. Balanced(available'[n], Taken(n)', data', Capacity[n])
      BY <2>7, <3>3, <3>5, <3>7, <3>8
    <3> QED
      BY <2>3, <3>9
  <2> QED
    BY <1>10, <2>5, <2>6, <2>7
<1>11. CASE StorePacket(n, id, d, fresh, task)
  <2>1. StoreCopies(n, <<id>>, size, task) /\ inbound' = inbound /\ data' = [data EXCEPT ![id] = d]
    BY <1>2, <1>11 DEF StorePacket
  <2>2. /\ \A m \in Node \ {n} : available'[m] = available[m]
        /\ \A j \in Id \ {id} : trace'[j] = trace[j]
        /\ \/ available'[n] = available[n] /\ trace'[id] = Unkept(n)
           \/ available'[n] = available[n] - size /\ trace'[id] = InNode(n)
    BY <2>1, StoreOneSpace
  <2>3. data'[id] = d
    BY <2>1 DEF TypeOK
  <2>4. CASE available'[n] = available[n] /\ trace'[id] = Unkept(n)
    <3>1. PICK K : K = {}
      OBVIOUS
    <3>2. K \subseteq {id, fresh} \cap Id /\ \A j \in K : trace'[j] = InNode(n) /\ data'[j] = d
      BY <2>1, <2>2, <2>4, <3>1
    <3>3. \A j \in Id \ K : trace'[j] = trace[j] \/ (j \in {id, fresh} /\ trace'[j] = Unkept(n))
      BY <2>1, <2>2, <2>4, <3>1
    <3> QED
      BY <1>10, <2>1, <2>2, <2>4, <3>1, <3>2, <3>3
  <2>5. CASE available'[n] = available[n] - size /\ trace'[id] = InNode(n)
    <3>1. PICK K : K = {id}
      OBVIOUS
    <3>2. K \subseteq {id, fresh} \cap Id /\ \A j \in K : trace'[j] = InNode(n) /\ data'[j] = d
      BY <2>1, <2>2, <2>3, <2>5, <3>1
    <3>3. \A j \in Id \ K : trace'[j] = trace[j] \/ (j \in {id, fresh} /\ trace'[j] = Unkept(n))
      BY <2>1, <2>2, <2>3, <2>5, <3>1
    <3> QED
      BY <1>10, <2>1, <2>2, <2>3, <2>5, <3>1, <3>2, <3>3
  <2> QED
    BY <2>2, <2>4, <2>5
<1>12. CASE StoreDuplicated(n, id, d, fresh, task)
  <2>1. /\ StoreCopies(n, <<id, fresh>>, size, task) /\ inbound' = inbound
        /\ data' = [data EXCEPT ![id] = d, ![fresh] = d] /\ fresh \in Id
    BY <1>2, <1>12, ParameterAssumption DEF StoreDuplicated, Id
  <2>2. /\ \A m \in Node \ {n} : available'[m] = available[m]
        /\ \A j \in Id \ {id, fresh} : trace'[j] = trace[j]
        /\ \/ available'[n] = available[n] /\ trace'[id] = Unkept(n) /\ trace'[fresh] = Unkept(n)
           \/ /\ available'[n] = available[n] - size /\ trace'[id] = InNode(n)
              /\ trace'[fresh] \in {Unkept(n), trace[fresh]}
           \/ /\ available[n] - size \in Nat /\ available'[n] = (available[n] - size) - size
              /\ trace'[id] = InNode(n) /\ trace'[fresh] = InNode(n)
    BY <2>1, StoreTwoSpace
  <2>3. data'[id] = d /\ data'[fresh] = d
    BY <2>1 DEF TypeOK
  <2>4. CASE available'[n] = available[n] /\ trace'[id] = Unkept(n) /\ trace'[fresh] = Unkept(n)
    <3>1. PICK K : K = {}
      OBVIOUS
    <3>2. K \subseteq {id, fresh} \cap Id /\ \A j \in K : trace'[j] = InNode(n) /\ data'[j] = d
      BY <2>1, <2>2, <2>4, <3>1
    <3>3. \A j \in Id \ K : trace'[j] = trace[j] \/ (j \in {id, fresh} /\ trace'[j] = Unkept(n))
      BY <2>1, <2>2, <2>4, <3>1
    <3> QED
      BY <1>10, <2>1, <2>2, <2>4, <3>1, <3>2, <3>3
  <2>5. CASE /\ available'[n] = available[n] - size /\ trace'[id] = InNode(n)
             /\ trace'[fresh] \in {Unkept(n), trace[fresh]}
    <3>1. PICK K : K = {id}
      OBVIOUS
    <3>2. K \subseteq {id, fresh} \cap Id /\ \A j \in K : trace'[j] = InNode(n) /\ data'[j] = d
      BY <2>1, <2>2, <2>3, <2>5, <3>1
    <3>3. \A j \in Id \ K : trace'[j] = trace[j] \/ (j \in {id, fresh} /\ trace'[j] = Unkept(n))
      BY <2>1, <2>2, <2>3, <2>5, <3>1
    <3> QED
      BY <1>10, <2>1, <2>2, <2>3, <2>5, <3>1, <3>2, <3>3
  <2>6. CASE /\ available[n] - size \in Nat /\ available'[n] = (available[n] - size) - size
             /\ trace'[id] = InNode(n) /\ trace'[fresh] = InNode(n)
    <3>1. PICK K : K = {id, fresh}
      OBVIOUS
    <3>2. K \subseteq {id, fresh} \cap Id /\ \A j \in K : trace'[j] = InNode(n) /\ data'[j] = d
      BY <2>1, <2>2, <2>3, <2>6, <3>1
    <3>3. \A j \in Id \ K : trace'[j] = trace[j] \/ (j \in {id, fresh} /\ trace'[j] = Unkept(n))
      BY <2>1, <2>2, <2>3, <2>6, <3>1
    <3> QED
      BY <1>10, <2>1, <2>2, <2>3, <2>6, <3>1, <3>2, <3>3
  <2> QED
    BY <2>2, <2>4, <2>5, <2>6
<1> QED
  BY <1>7, <1>8, <1>11, <1>12 DEF Forward

LEMMA HostSendBalance ==
  ASSUME BalanceInv, NEW f \in Flow, NEW size \in Size, NEW ecn \in HostEcn, HostSend(f, size, ecn)
  PROVE  \A m \in Node : Balanced(available'[m], Taken(m)', data', Capacity[m])
<1> DEFINE d == [number |-> nextId, src |-> f[1], dst |-> f[2], size |-> size, ecn |-> ecn]
<1>1. TypeOK /\ f[1] \in Node /\ f[2] \in Node /\ ecn \in Ecn
  BY ParameterAssumption DEF BalanceInv, CustodyInv
<1>2. nextId \in Id /\ nextId + 1 \in 1..(MaxPackets + 1) /\ nextId \in Nat
  BY <1>1, ParameterAssumption DEF TypeOK, HostSend, Id
<1>3. d \in Data
  BY <1>1, <1>2 DEF Data
<1>4. PICK task : Forward(f[1], nextId, d, nextId + 1, task)
  BY DEF HostSend
<1> HIDE DEF d
<1>5. nextId # nextId + 1 /\ nextId >= nextId /\ nextId + 1 >= nextId
  BY <1>2
<1>6. trace[nextId] = NotBorn /\ (nextId + 1 \in Id => trace[nextId + 1] = NotBorn)
  BY <1>2, <1>5 DEF BalanceInv, CustodyInv, FreeIds
<1>7. \A j \in Id : trace[j] = NotBorn =>
        trace[j].step \notin {"InNode", "DroppedBufferCleared"} /\ NotReadable(j)
  BY LogSteps, NotInNode DEF BalanceInv, CustodyInv, NotStored
<1> QED
  BY <1>1, <1>2, <1>3, <1>4, <1>5, <1>6, <1>7, ArrivalBalance DEF BalanceInv

LEMMA DeliverNextBalance ==
  ASSUME BalanceInv, NEW l \in Link, DeliverNext(l)
  PROVE  \A m \in Node : Balanced(available'[m], Taken(m)', data', Capacity[m])
<1> DEFINE task == <<"forwarder", l>>
<1>1. PICK x \in Arrived(inTransit[l]) :
        \/ LoseInTransit(l, x)
        \/ Forward(Target[l], x.id, data[x.id], nextId, task)
  BY DEF DeliverNext
<1> HIDE DEF task
<1>2. TypeOK /\ x \in inTransit[l] /\ CustodyInv
  BY <1>1 DEF BalanceInv, CustodyInv, Arrived
<1>3. x.id \in Id /\ nextId \in Nat /\ nextId \in 1..(MaxPackets + 1) /\ nextId >= nextId
  <2>1. x.id \in Id
    BY <1>2, CustodyTypes
  <2> QED
    BY <1>2, <2>1 DEF TypeOK
<1>4. trace[x.id] = InTransit(l)
  BY <1>2, <1>3, WhenSent DEF CustodyInv
<1>5. \A j \in Id : trace[j].step \in {"None", "InTransit"} =>
        trace[j].step \notin {"InNode", "DroppedBufferCleared"} /\ NotReadable(j)
  BY <1>2, NotInNode DEF CustodyInv, NotStored
<1>6. CASE LoseInTransit(l, x)
  <2>1. /\ trace' = [trace EXCEPT ![x.id] = Recorded("LostInTransit", l)]
        /\ UNCHANGED <<inbound, available, data>>
    BY <1>6 DEF LoseInTransit, Track, packetVars
  <2>2. \A j \in Id \ {x.id} : trace'[j] = trace[j]
    BY <1>2, <2>1 DEF TypeOK
  <2>3. trace'[x.id].step = "LostInTransit" /\ trace[x.id].step = "InTransit"
    BY <1>2, <1>3, <1>4, <2>1, LogSteps DEF TypeOK, Recorded
  <2>4. \A m \in Node : x.id \notin Taken(m) /\ x.id \notin Taken(m)'
    BY <2>3, NotTaken, NotTakenNext
  <2>5. ASSUME NEW m \in Node PROVE Taken(m)' = Taken(m)
    <3>1. \A j \in Id \ {x.id} : j \in Taken(m)' <=> j \in Taken(m)
      BY <2>1, <2>2, TakenSame
    <3>2. Taken(m)' \subseteq Id /\ Taken(m) \subseteq Id
      BY DEF Taken
    <3>3. x.id \notin Taken(m) /\ x.id \notin Taken(m)'
      BY <2>4
    <3> QED
      BY <3>1, <3>2, <3>3
  <2> QED
    BY <2>1, <2>5 DEF BalanceInv
<1>7. CASE Forward(Target[l], x.id, data[x.id], nextId, task)
  <2>1. nextId \in Id => trace[nextId] = NotBorn
    BY <1>2, <1>3 DEF CustodyInv, FreeIds
  <2>2. x.id # nextId
    BY <1>3, <1>4, <2>1, LogSteps
  <2>3. Target[l] \in Node /\ data[x.id] \in Data
    BY <1>2, <1>3, TopologyAssumption DEF TypeOK
  <2>4. /\ trace[x.id].step \notin {"InNode", "DroppedBufferCleared"} /\ NotReadable(x.id)
        /\ nextId \in Id => /\ trace[nextId].step \notin {"InNode", "DroppedBufferCleared"}
                            /\ NotReadable(nextId)
    BY <1>3, <1>4, <1>5, <2>1, LogSteps
  <2> QED
    BY <1>2, <1>3, <1>7, <2>2, <2>3, <2>4, ArrivalBalance DEF BalanceInv
<1> QED
  BY <1>1, <1>6, <1>7

LEMMA HostReceiveBalance ==
  ASSUME BalanceInv, NEW n \in Node, HostReceive(n)
  PROVE  \A m \in Node : Balanced(available'[m], Taken(m)', data', Capacity[m])
<1>1. PICK x \in inbound[n] : /\ inbound' = [inbound EXCEPT ![n] = @ \ {x}]
                              /\ Track(x.id, "Delivered", n)
  BY DEF HostReceive
<1>2. available' = available /\ data' = data
  BY DEF HostReceive, packetVars
<1>3. TypeOK /\ CustodyInv
  BY DEF BalanceInv, CustodyInv
<1>4. x.id \in Id
  BY <1>3, CustodyTypes
<1>5. trace[x.id] = InNode(n)
  BY <1>3, <1>4, WhenReadable DEF CustodyInv
<1>6. /\ \A j \in Id \ {x.id} : trace'[j] = trace[j]
      /\ trace'[x.id].step = "Delivered"
      /\ \A m \in Node : \A j \in Id \ {x.id} :
           (\A y \in inbound'[m] : y.id # j) <=> (\A y \in inbound[m] : y.id # j)
  BY <1>1, <1>3, <1>4 DEF TypeOK, Track, Recorded
<1>7. ASSUME NEW m \in Node PROVE x.id \notin Taken(m) /\ x.id \notin Taken(m)'
  <2>1. InNode(n) # Cleared(m) /\ (InNode(n) = InNode(m) => m = n)
    BY DEF InNode, Cleared, Recorded
  <2>2. x.id \notin Taken(m)
    BY <1>5, <2>1 DEF Taken
  <2> QED
    BY <1>6, <2>2, NotTakenNext
<1>8. ASSUME NEW m \in Node PROVE Taken(m)' = Taken(m)
  <2>1. \A j \in Id \ {x.id} : j \in Taken(m)' <=> j \in Taken(m)
    BY <1>6, TakenSame
  <2>2. Taken(m)' \subseteq Id /\ Taken(m) \subseteq Id
    BY DEF Taken
  <2> QED
    BY <1>7, <2>1, <2>2
<1> QED
  BY <1>2, <1>8 DEF BalanceInv

LEMMA LinkTaskBalance ==
  ASSUME BalanceInv, NEW l \in Link, LinkTask(l)
  PROVE  \A m \in Node : Balanced(available'[m], Taken(m)', data', Capacity[m])
<1>1. TypeOK /\ CustodyInv /\ <<"link", l>> \notin dead
  BY DEF BalanceInv, CustodyInv, LinkTask, TakePacket, Discard, Resume, MayRun
<1>2. PICK o \in Outgoing :
        /\ ComesBy(l, o)
        /\ \/ LetsGo(l, o)
           \/ WaitPanics(l)
           \/ /\ o.channel \notin handled
              /\ \/ \E w \in Waiting, k \in Nat : Await(l, w, o, k)
                 \/ Transmit(l, o)
  BY <1>1, LinkTaskCases
<1>3. inbound' = inbound
  BY <1>1, LinkTaskLeaves
<1>5. CASE \/ LetsGo(l, o) \/ WaitPanics(l) \/ \E w \in Waiting, k \in Nat : Await(l, w, o, k)
           \/ \E congestion : SendPanics(l, o, congestion)
  <2>1. UNCHANGED <<available, data, trace>>
    BY <1>5 DEF LetsGo, Await, WaitPanics, SendPanics
  <2>2. \A m \in Node : Taken(m)' = Taken(m)
    BY <1>3, <2>1 DEF Taken, InNode, Cleared, Recorded
  <2> QED
    BY <2>1, <2>2 DEF BalanceInv
<1>6. CASE o.channel \notin handled /\ Transmit(l, o)
  <2> DEFINE n == Source[l]
  <2>1. o \in Live(l) /\ o.id \in Id /\ n \in Node
    <3>1. Held(l) = Elements(outgoing'[l]) \cup {o}
      BY <1>1, <1>2, ComesByHeld
    <3> QED
      BY <1>6, <3>1, TopologyAssumption DEF Live, Outgoing
  <2>2. trace[o.id] = InNode(n) /\ NotReadable(o.id)
    BY <1>1, <2>1, WhenOffered DEF CustodyInv, OfferedOnly
  <2> HIDE DEF n
  <2>3. \A m \in Node : o.id \in Taken(m) <=> m = n
    <3>1. \A m \in Node : InNode(n) # Cleared(m) /\ (InNode(n) = InNode(m) => m = n)
      BY DEF InNode, Cleared, Recorded
    <3> QED
      BY <2>1, <2>2, <3>1 DEF Taken, NotReadable
  <2>4. CASE DropCleared(l, o)
    <3>1. trace' = [trace EXCEPT ![o.id] = Cleared(n)] /\ available' = available /\ data' = data
      BY <2>4 DEF DropCleared, Track, Cleared, n
    <3>2. /\ \A j \in Id \ {o.id} : trace'[j] = trace[j]
          /\ trace'[o.id] = Cleared(n)
      BY <1>1, <2>1, <3>1 DEF TypeOK
    <3>3. \A m \in Node : o.id \in Taken(m)' <=> m = n
      <4>1. \A m \in Node : InNode(m) # Cleared(n) /\ (Cleared(n) = Cleared(m) => m = n)
        BY DEF InNode, Cleared, Recorded
      <4>2. \A m \in Node : Cleared(m)' = Cleared(m) /\ InNode(m)' = InNode(m)
        BY DEF InNode, Cleared, Recorded
      <4> QED
        BY <2>1, <3>2, <4>1, <4>2 DEF Taken
    <3>4. ASSUME NEW m \in Node PROVE Taken(m)' = Taken(m)
      <4>1. \A j \in Id \ {o.id} : j \in Taken(m)' <=> j \in Taken(m)
        BY <1>3, <3>2, TakenSame
      <4>2. Taken(m)' \subseteq Id /\ Taken(m) \subseteq Id
        BY DEF Taken
      <4> QED
        BY <2>3, <3>3, <4>1, <4>2
    <3> QED
      BY <3>1, <3>4 DEF BalanceInv
  <2>5. ASSUME NEW congestion, NEW extra, SendOnLink(l, o, congestion, extra)
        PROVE  \A m \in Node : Balanced(available'[m], Taken(m)', data', Capacity[m])
    <3>1. /\ trace' = [trace EXCEPT ![o.id] = InTransit(l)]
          /\ available' = [available EXCEPT ![n] = @ + data[o.id].size]
          /\ data' = data \/ data' = [data EXCEPT ![o.id].ecn = "ce"]
      BY <2>5 DEF SendOnLink, Track, InTransit, n
    <3>2. /\ \A j \in Id \ {o.id} : trace'[j] = trace[j]
          /\ trace'[o.id].step = "InTransit"
          /\ available'[n] = available[n] + data[o.id].size
          /\ \A m \in Node \ {n} : available'[m] = available[m]
      BY <1>1, <2>1, <3>1, LogSteps DEF TypeOK
    <3>3. \A j \in Id : data'[j].size = data[j].size /\ data[j].size \in Nat
      <4>1. \A j \in Id : data[j] \in Data /\ data[j].size \in Nat
        BY <1>1, SizesAreNat DEF TypeOK
      <4>2. ASSUME NEW j \in Id PROVE data'[j].size = data[j].size
        <5>1. CASE data' = data
          BY <5>1
        <5>2. CASE data' = [data EXCEPT ![o.id].ecn = "ce"]
          <6>1. CASE j = o.id
            <7>1. data'[j] = [data[j] EXCEPT !.ecn = "ce"]
              BY <1>1, <5>2, <6>1 DEF TypeOK
            <7> QED
              BY <4>1, <7>1 DEF Data
          <6>2. CASE j # o.id
            BY <1>1, <5>2, <6>2 DEF TypeOK
          <6> QED
            BY <6>1, <6>2
        <5> QED
          BY <3>1, <5>1, <5>2
      <4> QED
        BY <4>1, <4>2
    <3>4. ASSUME NEW m \in Node PROVE Taken(m)' = Taken(m) \ {o.id}
      <4>1. \A j \in Id \ {o.id} : j \in Taken(m)' <=> j \in Taken(m)
        BY <1>3, <3>2, TakenSame
      <4>2. Taken(m)' \subseteq Id /\ Taken(m) \subseteq Id
        BY DEF Taken
      <4>3. o.id \notin Taken(m)'
        BY <3>2, NotTakenNext
      <4> QED
        BY <4>1, <4>2, <4>3
    <3>5. \A m \in Node : Taken(m) \subseteq Id /\ available[m] \in Nat /\ Capacity[m] \in Nat
      BY <1>1, SizesAreNat
    <3>6. ASSUME NEW m \in Node, m # n
          PROVE  Balanced(available'[m], Taken(m)', data', Capacity[m])
      <4>1. Taken(m)' = Taken(m)
        BY <2>3, <3>4, <3>6
      <4>2. \A j \in Taken(m) : data'[j].size = data[j].size
        BY <3>3, <3>5
      <4> QED
        BY <3>2, <3>6, <4>1, <4>2, BalanceStays DEF BalanceInv
    <3>7. Balanced(available'[n], Taken(n)', data', Capacity[n])
      <4>1. Balanced(available[n], Taken(n), data, Capacity[n])
        BY <2>1 DEF BalanceInv
      <4>2. o.id \in Taken(n) /\ \A j \in Taken(n) : data[j].size \in Nat
        BY <2>1, <2>3, <3>3, <3>5
      <4>3. Balanced(available[n] + data[o.id].size, Taken(n) \ {o.id}, data, Capacity[n])
        BY <2>1, <3>5, <4>1, <4>2, BalanceShrinks
      <4>4. \A j \in Taken(n) \ {o.id} : data'[j].size = data[j].size
        BY <2>1, <3>3, <3>5
      <4>5. Balanced(available[n] + data[o.id].size, Taken(n) \ {o.id}, data', Capacity[n])
        BY <4>3, <4>4, BalanceAgrees
      <4> QED
        BY <2>1, <3>2, <3>4, <4>5
    <3> QED
      BY <3>6, <3>7
  <2> QED
    BY <1>5, <1>6, <2>4, <2>5 DEF Transmit
<1> QED
  BY <1>2, <1>5, <1>6

LEMMA NextBalance == BalanceInv /\ [Next]_vars => BalanceInv'
<1> SUFFICES ASSUME BalanceInv, [Next]_vars PROVE BalanceInv'
  OBVIOUS
<1>1. CustodyInv'
  BY NextCustody DEF BalanceInv
<1>2. \A m \in Node : Balanced(available'[m], Taken(m)', data', Capacity[m])
  <2>1. CASE \/ \E n \in Node : Dispatch(n)
             \/ \E l \in Link : SetTimer(l)
             \/ \E l \in EventLink, up \in BOOLEAN : LinkEvent(l, up)
             \/ \E n, up, clear : NodeEvent(n, up, clear)
             \/ Tick
             \/ UNCHANGED vars
    <3>1. UNCHANGED <<available, data, trace, inbound>>
      BY <2>1 DEF Dispatch, SetTimer, LinkEvent, NodeEvent, Tick, vars, packetVars
    <3>2. \A m \in Node : Taken(m)' = Taken(m)
      BY <3>1 DEF Taken, InNode, Cleared, Recorded
    <3> QED
      BY <3>1, <3>2 DEF BalanceInv
  <2> QED
    BY <2>1, HostSendBalance, HostReceiveBalance, LinkTaskBalance, DeliverNextBalance
       DEF Next, Forwarder
<1> QED
  BY <1>1, <1>2 DEF BalanceInv

LEMMA InitBalance == Init => BalanceInv
<1> SUFFICES ASSUME Init PROVE BalanceInv
  OBVIOUS
<1>1. CustodyInv
  BY InitCustody
<1>2. ASSUME NEW n \in Node PROVE Balanced(available[n], Taken(n), data, Capacity[n])
  <2>1. Taken(n) = {}
    BY DEF Init, Taken, InNode, Cleared, Recorded
  <2>2. BytesIn({}, data) = {}
    BY DEF BytesIn
  <2>3. SizeOf({}, data) = 0
    BY <2>2, FS_EmptySet DEF SizeOf
  <2>4. available[n] = Capacity[n] /\ Capacity[n] \in Nat
    BY ParameterAssumption DEF Init
  <2> QED
    BY <2>1, <2>3, <2>4 DEF Balanced
<1> QED
  BY <1>1, <1>2 DEF BalanceInv

\* The packets in the buffer of n are those that the log shows at n, without
\* those that a socket of n can read.
LEMMA StoredByLog ==
  ASSUME CustodyInv, dead = {}, NEW n \in Node
  PROVE  Stored(n) = {id \in Id : trace[id] = InNode(n) /\ \A x \in inbound[n] : x.id # id}
<1>1. ASSUME NEW id \in Stored(n)
      PROVE  id \in Id /\ trace[id] = InNode(n) /\ NotReadable(id)
  <2>1. id \in Id /\ OneCustodian(id)
    BY DEF CustodyInv, Stored
  <2>2. CASE Queued(n, id) # {}
    <3>1. PICK i \in Positions(n) : QueuedId(n, i) = id
      BY <2>2 DEF Queued, Positions, QueuedId
    <3> QED
      BY <2>1, <3>1, WhenQueued DEF QueuedOnly
  <2>3. CASE \E o \in Pending(n) : o.id = id
    <3>1. PICK o \in Pending(n) : o.id = id
      BY <2>3
    <3>2. PICK l \in Link : Source[l] = n /\ o \in Live(l)
      BY DEF Pending, Live
    <3> QED
      BY <2>1, <3>1, <3>2, WhenOffered DEF OfferedOnly
  <2> QED
    BY <2>2, <2>3 DEF Stored
<1>2. ASSUME NEW id \in Id, trace[id] = InNode(n), \A x \in inbound[n] : x.id # id
      PROVE  id \in Stored(n)
  <2>1. OneCustodian(id) /\ ~NotStored(id)
    BY <1>2, LogSteps DEF CustodyInv, Present
  <2>2. NotReadable(id)
    <3> SUFFICES ASSUME NEW m \in Node, NEW x \in inbound[m], x.id = id PROVE FALSE
      BY DEF NotReadable
    <3>1. trace[id] = InNode(m)
      BY <2>1, WhenReadable
    <3>2. m = n
      BY <1>2, <3>1 DEF InNode, Recorded
    <3> QED
      BY <1>2, <3>2
  <2>3. CASE ~NotQueued(id)
    <3>1. PICK m \in Node : \E i \in Positions(m) : QueuedId(m, i) = id
      BY <2>3 DEF NotQueued
    <3>2. PICK i \in Positions(m) : QueuedId(m, i) = id
      BY <3>1
    <3>3. trace[id] = InNode(m)
      BY <2>1, <3>2, WhenQueued
    <3>4. m = n
      BY <1>2, <3>3 DEF InNode, Recorded
    <3>5. i \in Queued(n, id)
      BY <3>2, <3>4 DEF Queued, Positions, QueuedId
    <3> QED
      BY <3>5 DEF Stored
  <2>4. CASE ~NotOffered(id)
    <3>1. PICK l \in Link : \E o \in Live(l) : o.id = id
      BY <2>4 DEF NotOffered
    <3>2. PICK o \in Live(l) : o.id = id
      BY <3>1
    <3>3. trace[id] = InNode(Source[l])
      BY <2>1, <3>2, WhenOffered
    <3>4. Source[l] = n
      BY <1>2, <3>3 DEF InNode, Recorded
    <3>5. o \in Pending(n)
      BY <3>2, <3>4 DEF Pending, Live
    <3> QED
      BY <3>2, <3>5 DEF Stored
  <2> QED
    BY <2>1, <2>2, <2>3, <2>4 DEF NotStored
<1>3. \A id \in Stored(n) : \A x \in inbound[n] : x.id # id
  BY <1>1 DEF NotReadable
<1> QED
  BY <1>1, <1>2, <1>3

LEMMA BalanceFollows ==
  ASSUME BalanceInv
  PROVE  BufferBalance
<1> SUFFICES ASSUME dead = {}, NEW n \in Node
             PROVE  available[n] + Bytes(Stored(n))
                      + Bytes({id \in Id : trace[id] = Recorded("DroppedBufferCleared", n)})
                      = Capacity[n]
  BY DEF BufferBalance
<1>1. PICK S : S = Stored(n)
  OBVIOUS
<1>2. PICK T : T = {id \in Id : trace[id] = Recorded("DroppedBufferCleared", n)}
  OBVIOUS
<1>3. S \subseteq Id /\ T \subseteq Id
  BY <1>1, <1>2 DEF Stored
<1>4. CustodyInv /\ TypeOK
  BY DEF BalanceInv, CustodyInv
<1>5. S = {id \in Id : trace[id] = InNode(n) /\ \A x \in inbound[n] : x.id # id}
  BY <1>1, <1>4, StoredByLog
<1>6. Taken(n) = S \cup T
  BY <1>2, <1>5 DEF Taken, Cleared
<1>7. S \cap T = {}
  <2>1. InNode(n) # Recorded("DroppedBufferCleared", n)
    BY DEF InNode, Recorded
  <2> QED
    BY <1>2, <1>5, <2>1
<1>8. \A id \in Id : data[id].size \in Nat
  BY <1>4, SizesAreNat
<1>9. SizeOf(S \cup T, data) = SizeOf(S, data) + SizeOf(T, data)
  BY <1>3, <1>7, <1>8, SizeDisjoint
<1>10. SizeOf(S, data) \in Nat /\ SizeOf(T, data) \in Nat
  BY <1>3, <1>8, SizeType
<1>11. available[n] + SizeOf(S \cup T, data) = Capacity[n] /\ available[n] \in Nat
  BY <1>4, <1>6 DEF BalanceInv, Balanced, TypeOK
<1>12. Bytes(S) = SizeOf(S, data) /\ Bytes(T) = SizeOf(T, data)
  BY DEF Bytes, SizeOf, BytesIn
<1>13. available[n] + Bytes(S) + Bytes(T) = Capacity[n]
  BY <1>9, <1>10, <1>11, <1>12
<1> QED
  BY <1>1, <1>2, <1>13

\* In every network, as long as no task has died, a buffer accounts for every
\* byte: what is not free is taken by packets that can still be sent, or was
\* taken by packets that a clear dropped (OutboundBuffer::reserve and release).
THEOREM BuffersBalance == Spec => []BufferBalance
BY InitBalance, NextBalance, BalanceFollows, PTL DEF Spec

=============================================================================
