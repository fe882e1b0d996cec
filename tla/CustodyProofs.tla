--------------------------- MODULE CustodyProofs ---------------------------
(***************************************************************************)
(* Where packets are, for every network: a packet has one custodian, the   *)
(* replay log names it, and the log moves as PacketCustody allows.         *)
(*                                                                         *)
(* SingleCustody alone is not inductive.  That the winner of a dispatch    *)
(* takes the packet away from every other link rests on the watch channel  *)
(* they share, so the invariant ties channels and packets together; that a *)
(* new id is in nobody's hands rests on the log, so the invariant ties the *)
(* log to every queue.                                                     *)
(***************************************************************************)
EXTENDS NetworkProofs

\* The copies on link l that can still be sent, and the buffer positions of
\* node n that can still be dispatched.
Live(l) == {o \in Held(l) : o.channel \notin handled}
Positions(n) == IF <<"processor", n>> \in dead THEN {} ELSE DOMAIN outbound[n]
QueuedId(n, i) == outbound[n][i].id

InNode(n)    == Recorded("InNode", n)
InTransit(l) == Recorded("InTransit", l)
NotBorn      == Recorded("None", NoPlace)

\* Nobody of one kind has packet id.
NotQueued(id)   == \A n \in Node : \A i \in Positions(n) : QueuedId(n, i) # id
NotOffered(id)  == \A l \in Link : \A o \in Live(l) : o.id # id
NotSent(id)     == \A l \in Link : \A x \in inTransit[l] : x.id # id
NotReadable(id) == \A n \in Node : \A x \in inbound[n] : x.id # id
NotStored(id)   == NotQueued(id) /\ NotOffered(id) /\ NotReadable(id)

\* If anybody has packet id, it is the one named.
QueuedOnly(id, n, k) ==
  /\ \A m \in Node : \A i \in Positions(m) : QueuedId(m, i) = id => m = n /\ i = k
  /\ NotOffered(id) /\ NotSent(id) /\ NotReadable(id)
OfferedOnly(id, n, c) ==
  /\ \A l \in Link : \A o \in Live(l) : o.id = id => Source[l] = n /\ o.channel = c
  /\ NotQueued(id) /\ NotSent(id) /\ NotReadable(id)
SentOnly(id, l, x) ==
  /\ \A k \in Link : \A y \in inTransit[k] : y.id = id => k = l /\ y = x
  /\ NotStored(id)
ReadableOnly(id, n, x) ==
  /\ \A m \in Node : \A y \in inbound[m] : y.id = id => m = n /\ y = x
  /\ NotQueued(id) /\ NotOffered(id) /\ NotSent(id)

\* Packet id has one custodian at most, and the log names it.
OneCustodian(id) ==
  \/ NotStored(id) /\ NotSent(id)
  \/ \E n \in Node : /\ trace[id] = InNode(n)
                     /\ \/ \E k : QueuedOnly(id, n, k)
                        \/ \E c : OfferedOnly(id, n, c)
                        \/ \E x : ReadableOnly(id, n, x)
  \/ \E l \in Link : trace[id] = InTransit(l) /\ \E x : SentOnly(id, l, x)

\* The copies that share a watch channel are copies of one buffered packet, and
\* a channel is not used again.
ChannelsApart ==
  /\ \A l, k \in Link : \A o \in Live(l), p \in Live(k) : o.channel = p.channel => o = p
  /\ \A l \in Link : \A o \in Live(l) : o.channel < nextChannel
  /\ \A c \in handled : c < nextChannel

\* Nothing is recorded of an id that is still free.
FreeIds == \A id \in Id : id >= nextId => trace[id] = NotBorn

\* A packet that the log shows in a node or on a link has not vanished.
Present(id) ==
  /\ trace[id].step = "InNode" => ~NotStored(id)
  /\ trace[id].step = "InTransit" => ~NotSent(id)

CustodyInv ==
  /\ TypeOK
  /\ \A id \in Id : OneCustodian(id)
  /\ ChannelsApart
  /\ FreeIds
  /\ dead = {} => \A id \in Id : Present(id)

-----------------------------------------------------------------------------
(* What arrives in a node, and what becomes of it.                          *)

Entry(id) == [id |-> id, since |-> now]

Gone(n, id) ==
  /\ \E step \in {"DroppedOnArrival", "DroppedRandom", "DroppedBufferFull"} :
       trace' = [trace EXCEPT ![id] = Recorded(step, n)]
  /\ UNCHANGED <<outbound, inbound, dead>>
Readable(n, id) ==
  /\ trace' = [trace EXCEPT ![id] = InNode(n)]
  /\ inbound' = [inbound EXCEPT ![n] = @ \cup {[id |-> id, arrival |-> now]}]
  /\ UNCHANGED <<outbound, dead>>
Kept(n, id) ==
  /\ <<"processor", n>> \notin dead
  /\ trace' = [trace EXCEPT ![id] = InNode(n)]
  /\ outbound' = [outbound EXCEPT ![n] = Append(@, Entry(id))]
  /\ UNCHANGED <<inbound, dead>>
\* The packet is recorded, but the channel to the node's processor is closed.
Stranded(n, id, task) ==
  /\ trace' = [trace EXCEPT ![id] = InNode(n)]
  /\ dead' = dead \cup {task}
  /\ UNCHANGED <<outbound, inbound>>
NoneKept(n, id, copy) ==
  /\ trace' = [trace EXCEPT ![id] = Recorded("DroppedBufferFull", n),
                            ![copy] = Recorded("DroppedBufferFull", n)]
  /\ UNCHANGED <<outbound, inbound, dead>>
OneKept(n, id, copy) ==
  /\ <<"processor", n>> \notin dead
  /\ trace' = [trace EXCEPT ![id] = InNode(n), ![copy] = Recorded("DroppedBufferFull", n)]
  /\ outbound' = [outbound EXCEPT ![n] = Append(@, Entry(id))]
  /\ UNCHANGED <<inbound, dead>>
BothKept(n, id, copy) ==
  /\ <<"processor", n>> \notin dead
  /\ trace' = [trace EXCEPT ![id] = InNode(n), ![copy] = InNode(n)]
  /\ outbound' = [outbound EXCEPT ![n] = Append(Append(@, Entry(id)), Entry(copy))]
  /\ UNCHANGED <<inbound, dead>>

\* Storing one packet, and storing a packet with its duplicate.
LEMMA StoreOne ==
  ASSUME TypeOK, NEW n \in Node, NEW id \in Id, NEW size \in Size, NEW task,
         StoreCopies(n, <<id>>, size, task), inbound' = inbound
  PROVE  Gone(n, id) \/ Kept(n, id) \/ Stranded(n, id, task)
<1> DEFINE s0 == [space |-> available[n], queue |-> outbound[n],
                  kept |-> {}, full |-> {}, panic |-> FALSE]
           s  == Enqueue(s0, n, id, size)
           closed == <<"processor", n>> \in dead
<1>1. /\ outbound' = [outbound EXCEPT ![n] = s.queue]
      /\ trace' = [x \in Id |-> IF x \in s.full THEN Recorded("DroppedBufferFull", n)
                                ELSE IF x \in s.kept THEN Recorded("InNode", n)
                                ELSE trace[x]]
      /\ dead' = IF s.panic THEN dead \cup {task} ELSE dead
  BY DEF StoreCopies
<1>2. /\ outbound = [outbound EXCEPT ![n] = outbound[n]]
      /\ DOMAIN trace = Id
  BY DEF TypeOK
<1>3. CASE available[n] < size
  <2>1. s.queue = outbound[n] /\ s.full = {id} /\ s.kept = {} /\ ~s.panic
    BY <1>3 DEF Enqueue
  <2> HIDE DEF s
  <2>2. trace' = [trace EXCEPT ![id] = Recorded("DroppedBufferFull", n)]
    BY <1>1, <1>2, <2>1 DEF TypeOK
  <2> QED
    BY <1>1, <1>2, <2>1, <2>2 DEF Gone
<1>4. CASE ~(available[n] < size)
  <2>1. /\ s.queue = IF closed THEN outbound[n] ELSE Append(outbound[n], Entry(id))
        /\ s.full = {} /\ s.kept = {id} /\ s.panic = closed
    BY <1>4 DEF Enqueue, Entry
  <2> HIDE DEF s
  <2>2. trace' = [trace EXCEPT ![id] = InNode(n)]
    BY <1>1, <1>2, <2>1 DEF TypeOK, InNode
  <2> QED
    BY <1>1, <1>2, <2>1, <2>2 DEF Kept, Stranded
<1> QED
  BY <1>3, <1>4

LEMMA StoreTwo ==
  ASSUME TypeOK, NEW n \in Node, NEW id \in Id, NEW copy \in Id, id # copy, NEW size \in Size,
         NEW task, StoreCopies(n, <<id, copy>>, size, task), inbound' = inbound
  PROVE  \/ Stranded(n, id, task) \/ NoneKept(n, id, copy)
         \/ OneKept(n, id, copy) \/ BothKept(n, id, copy)
<1> DEFINE s0 == [space |-> available[n], queue |-> outbound[n],
                  kept |-> {}, full |-> {}, panic |-> FALSE]
           s1 == Enqueue(s0, n, id, size)
           s  == Enqueue(s1, n, copy, size)
           closed == <<"processor", n>> \in dead
<1>1. /\ outbound' = [outbound EXCEPT ![n] = s.queue]
      /\ trace' = [x \in Id |-> IF x \in s.full THEN Recorded("DroppedBufferFull", n)
                                ELSE IF x \in s.kept THEN Recorded("InNode", n)
                                ELSE trace[x]]
      /\ dead' = IF s.panic THEN dead \cup {task} ELSE dead
  BY DEF StoreCopies
<1>2. /\ outbound = [outbound EXCEPT ![n] = outbound[n]]
      /\ DOMAIN trace = Id
  BY DEF TypeOK
<1>3. CASE available[n] < size
  <2>1. s1 = [s0 EXCEPT !.full = {id}]
    BY <1>3 DEF Enqueue
  <2>2. s1.space = available[n] /\ s1.queue = outbound[n] /\ s1.full = {id} /\ s1.kept = {} /\ ~s1.panic
    BY <2>1
  <2> HIDE DEF s1
  <2>3. s.queue = outbound[n] /\ s.full = {id, copy} /\ s.kept = {} /\ ~s.panic
    BY <1>3, <2>1, <2>2 DEF Enqueue
  <2> HIDE DEF s
  <2>4. trace' = [trace EXCEPT ![id] = Recorded("DroppedBufferFull", n),
                               ![copy] = Recorded("DroppedBufferFull", n)]
    BY <1>1, <1>2, <2>3 DEF TypeOK
  <2> QED
    BY <1>1, <1>2, <2>3, <2>4 DEF NoneKept
<1>4. CASE ~(available[n] < size) /\ closed
  <2>1. /\ s1.queue = outbound[n]
        /\ s1.full = {} /\ s1.kept = {id} /\ s1.panic
    BY <1>4 DEF Enqueue
  <2> HIDE DEF s1
  <2>2. s = s1
    BY <2>1 DEF Enqueue
  <2> HIDE DEF s
  <2>3. trace' = [trace EXCEPT ![id] = InNode(n)]
    BY <1>1, <1>2, <2>1, <2>2 DEF TypeOK, InNode
  <2> QED
    BY <1>1, <1>2, <2>1, <2>2, <2>3 DEF Stranded
<1>5. CASE ~(available[n] < size) /\ ~closed
  <2>1. /\ s1.queue = Append(outbound[n], Entry(id))
        /\ s1.full = {} /\ s1.kept = {id} /\ ~s1.panic
    BY <1>5 DEF Enqueue, Entry
  <2>2A. s1 \in BufferState
    <3>1. s0 \in BufferState /\ now \in Nat
      BY DEF BufferState, TypeOK
    <3> QED
      BY <3>1, EnqueueType
  <2> HIDE DEF s1
  <2>2. CASE s1.space < size
    <3>1. s.queue = Append(outbound[n], Entry(id)) /\ s.full = {copy} /\ s.kept = {id} /\ ~s.panic
      BY <2>1, <2>2A, <2>2 DEF Enqueue, BufferState
    <3> HIDE DEF s
    <3>2. trace' = [trace EXCEPT ![id] = InNode(n), ![copy] = Recorded("DroppedBufferFull", n)]
      BY <1>1, <1>2, <3>1 DEF TypeOK, InNode
    <3> QED
      BY <1>1, <1>2, <1>5, <3>1, <3>2 DEF OneKept
  <2>3. CASE ~(s1.space < size)
    <3>1. /\ s.queue = Append(Append(outbound[n], Entry(id)), Entry(copy))
          /\ s.full = {} /\ s.kept = {id, copy} /\ ~s.panic
      BY <1>5, <2>1, <2>2A, <2>3 DEF Enqueue, Entry, BufferState
    <3> HIDE DEF s
    <3>2. trace' = [trace EXCEPT ![id] = InNode(n), ![copy] = InNode(n)]
      BY <1>1, <1>2, <3>1 DEF TypeOK, InNode
    <3> QED
      BY <1>1, <1>2, <1>5, <3>1, <3>2 DEF BothKept
  <2> QED
    BY <2>2, <2>3
<1> QED
  BY <1>3, <1>4, <1>5

\* What InMemoryNetwork::forward comes down to, for packet id at node n.
Arrives(n, id, fresh, task) ==
  \/ /\ nextId' = fresh
     /\ Gone(n, id) \/ Readable(n, id) \/ Kept(n, id) \/ Stranded(n, id, task)
  \/ /\ nextId' = fresh + 1 /\ fresh \in Id
     /\ \/ Stranded(n, id, task) \/ NoneKept(n, id, fresh)
        \/ OneKept(n, id, fresh) \/ BothKept(n, id, fresh)

LEMMA ForwardCases ==
  ASSUME TypeOK, NEW n \in Node, NEW id \in Id, NEW d \in Data, NEW task,
         NEW fresh \in 1..(MaxPackets + 1), id # fresh, Forward(n, id, d, fresh, task)
  PROVE  Arrives(n, id, fresh, task)
<1> USE DEF Arrives
<1>1. d.size \in Size
  BY DEF Data
<1>2. CASE ArriveAtDownNode(n, id, d, fresh) \/ DropRandomly(n, id, d, fresh)
  BY <1>2 DEF ArriveAtDownNode, DropRandomly, Gone, Track
<1>3. CASE ArriveAtEndpoint(n, id, d, fresh)
  BY <1>3 DEF ArriveAtEndpoint, Readable, Track, InNode
<1>4. CASE StorePacket(n, id, d, fresh, task)
  BY <1>1, <1>4, StoreOne DEF StorePacket
<1>5. CASE StoreDuplicated(n, id, d, fresh, task)
  <2>1. fresh \in Id
    BY <1>5, ParameterAssumption DEF StoreDuplicated, Id
  <2> QED
    BY <1>1, <1>5, <2>1, StoreTwo DEF StoreDuplicated
<1> QED
  BY <1>2, <1>3, <1>4, <1>5 DEF Forward

-----------------------------------------------------------------------------
(* Steps that leave most of the network alone.                              *)

\* What is in a queue is a packet.
LEMMA CustodyTypes ==
  ASSUME TypeOK
  PROVE  /\ \A n \in Node : \A i \in Positions(n) :
              i \in DOMAIN outbound[n] /\ outbound[n][i] \in Buffered /\ QueuedId(n, i) \in Id
         /\ \A l \in Link : \A o \in Live(l) : o \in Outgoing /\ o.id \in Id /\ o.channel \in Nat
         /\ \A l \in Link : \A x \in inTransit[l] : x.id \in Id
         /\ \A n \in Node : \A x \in inbound[n] : x.id \in Id
<1>1. ASSUME NEW n \in Node, NEW i \in Positions(n)
      PROVE  i \in DOMAIN outbound[n] /\ outbound[n][i] \in Buffered /\ QueuedId(n, i) \in Id
  <2>1. outbound[n] \in Seq(Buffered) /\ i \in DOMAIN outbound[n]
    BY DEF TypeOK, Positions
  <2>2. outbound[n][i] \in Buffered
    BY <2>1
  <2> QED
    BY <2>1, <2>2 DEF QueuedId, Buffered
<1>2. ASSUME NEW l \in Link, NEW o \in Live(l)
      PROVE  o \in Outgoing /\ o.id \in Id /\ o.channel \in Nat
  <2>1. outgoing[l] \in Seq(Outgoing)
    BY DEF TypeOK
  <2>2. \A i \in DOMAIN outgoing[l] : outgoing[l][i] \in Outgoing
    BY <2>1
  <2>3. o \in Outgoing
    BY <2>2 DEF Live, Held, Elements, TypeOK
  <2> QED
    BY <2>3 DEF Outgoing
<1> QED
  BY <1>1, <1>2 DEF TypeOK, Transit

\* No link task takes, lets go or dies.
LEMMA LiveFrame ==
  ASSUME UNCHANGED <<outgoing, cur, handled>>,
         \A l \in Link : pc'[l] \in Waiting <=> pc[l] \in Waiting,
         \A l \in Link : <<"link", l>> \in dead' <=> <<"link", l>> \in dead
  PROVE  \A l \in Link : Live(l)' = Live(l)
BY DEF Live, Held

\* The steps of hosts and forwarders reach no copy that a link holds, and no
\* buffer position, except by storing what arrives.
LinksIdle ==
  /\ UNCHANGED <<outgoing, cur, handled, nextChannel>>
  /\ \A l \in Link : pc'[l] \in Waiting <=> pc[l] \in Waiting

-----------------------------------------------------------------------------
(* Reading the invariant.                                                   *)

LEMMA LogSteps ==
  /\ \A n : InNode(n).step = "InNode" /\ InNode(n).at = n
  /\ \A l : InTransit(l).step = "InTransit" /\ InTransit(l).at = l
  /\ NotBorn.step = "None"
BY DEF InNode, InTransit, NotBorn, Recorded

\* Who has a packet is its only custodian.
LEMMA WhenQueued ==
  ASSUME NEW id, OneCustodian(id), NEW n \in Node, NEW i \in Positions(n), QueuedId(n, i) = id
  PROVE  trace[id] = InNode(n) /\ QueuedOnly(id, n, i)
<1>1. ~NotQueued(id)
  BY DEF NotQueued
<1>2. PICK m, k : m \in Node /\ trace[id] = InNode(m) /\ QueuedOnly(id, m, k)
  BY <1>1 DEF OneCustodian, NotStored, OfferedOnly, ReadableOnly, SentOnly
<1>3. m = n /\ k = i
  BY <1>2 DEF QueuedOnly
<1> QED
  BY <1>2, <1>3

LEMMA WhenOffered ==
  ASSUME NEW id, OneCustodian(id), NEW l \in Link, NEW o \in Live(l), o.id = id
  PROVE  trace[id] = InNode(Source[l]) /\ OfferedOnly(id, Source[l], o.channel)
<1>1. ~NotOffered(id)
  BY DEF NotOffered
<1>2. PICK m, c : m \in Node /\ trace[id] = InNode(m) /\ OfferedOnly(id, m, c)
  BY <1>1 DEF OneCustodian, NotStored, QueuedOnly, ReadableOnly, SentOnly
<1>3. m = Source[l] /\ c = o.channel
  BY <1>2 DEF OfferedOnly
<1> QED
  BY <1>2, <1>3

LEMMA WhenSent ==
  ASSUME NEW id, OneCustodian(id), NEW l \in Link, NEW x \in inTransit[l], x.id = id
  PROVE  trace[id] = InTransit(l) /\ SentOnly(id, l, x)
<1>1. ~NotSent(id)
  BY DEF NotSent
<1>2. PICK k, y : k \in Link /\ trace[id] = InTransit(k) /\ SentOnly(id, k, y)
  BY <1>1 DEF OneCustodian, OfferedOnly, QueuedOnly, ReadableOnly
<1>3. k = l /\ y = x
  BY <1>2 DEF SentOnly
<1> QED
  BY <1>2, <1>3

LEMMA WhenReadable ==
  ASSUME NEW id, OneCustodian(id), NEW n \in Node, NEW x \in inbound[n], x.id = id
  PROVE  trace[id] = InNode(n) /\ ReadableOnly(id, n, x)
<1>1. ~NotReadable(id)
  BY DEF NotReadable
<1>2. PICK m, y : m \in Node /\ trace[id] = InNode(m) /\ ReadableOnly(id, m, y)
  BY <1>1 DEF OneCustodian, NotStored, QueuedOnly, OfferedOnly, SentOnly
<1>3. m = n /\ y = x
  BY <1>2 DEF ReadableOnly
<1> QED
  BY <1>2, <1>3

\* A packet that the log does not show in a node is in no node, and one that
\* it does not show on a link is on none.
LEMMA NotInNode ==
  ASSUME NEW id, OneCustodian(id), trace[id].step # "InNode"
  PROVE  NotStored(id)
BY LogSteps DEF OneCustodian, SentOnly

LEMMA NotOnLink ==
  ASSUME NEW id, OneCustodian(id), trace[id].step # "InTransit"
  PROVE  NotSent(id)
BY LogSteps DEF OneCustodian, QueuedOnly, OfferedOnly, ReadableOnly

\* A packet of which nothing is recorded keeps its custodian, unless somebody
\* lets go of it.
KeepsPlace(id) ==
  /\ trace'[id] = trace[id]
  /\ \A n \in Node : \A i \in Positions(n)' :
       QueuedId(n, i)' = id => i \in Positions(n) /\ QueuedId(n, i) = id
  /\ \A l \in Link : \A o \in Live(l)' : o.id = id => o \in Live(l)
  /\ \A l \in Link : \A x \in inTransit'[l] : x.id = id => x \in inTransit[l]
  /\ \A n \in Node : \A x \in inbound'[n] : x.id = id => x \in inbound[n]

LEMMA CustodyKept ==
  ASSUME NEW id, OneCustodian(id), KeepsPlace(id)
  PROVE  OneCustodian(id)'
<1>1. /\ NotQueued(id) => NotQueued(id)'
      /\ NotOffered(id) => NotOffered(id)'
      /\ NotSent(id) => NotSent(id)'
      /\ NotReadable(id) => NotReadable(id)'
  BY DEF KeepsPlace, NotQueued, NotOffered, NotSent, NotReadable
<1>2. NotStored(id) => NotStored(id)'
  BY <1>1 DEF NotStored
<1>3. \A n, k : QueuedOnly(id, n, k) => QueuedOnly(id, n, k)'
  BY <1>1 DEF KeepsPlace, QueuedOnly
<1>4. \A n, c : OfferedOnly(id, n, c) => OfferedOnly(id, n, c)'
  BY <1>1 DEF KeepsPlace, OfferedOnly
<1>5. \A n, x : ReadableOnly(id, n, x) => ReadableOnly(id, n, x)'
  BY <1>1 DEF KeepsPlace, ReadableOnly
<1>6. \A l, x : SentOnly(id, l, x) => SentOnly(id, l, x)'
  BY <1>2 DEF KeepsPlace, SentOnly
<1>7. trace'[id] = trace[id]
  BY DEF KeepsPlace
<1> QED
  BY <1>1, <1>2, <1>3, <1>4, <1>5, <1>6, <1>7 DEF OneCustodian

\* Nobody lets go of packet id, and what the log says of it stays.
StaysThere(id) ==
  /\ trace'[id] = trace[id]
  /\ \A n \in Node : \A i \in Positions(n) :
       QueuedId(n, i) = id => i \in Positions(n)' /\ QueuedId(n, i)' = id
  /\ \A l \in Link : \A o \in Live(l) : o.id = id => o \in Live(l)'
  /\ \A l \in Link : \A x \in inTransit[l] : x.id = id => x \in inTransit'[l]
  /\ \A n \in Node : \A x \in inbound[n] : x.id = id => x \in inbound'[n]

LEMMA PresentKept ==
  ASSUME NEW id, Present(id), StaysThere(id)
  PROVE  Present(id)'
<1>1. ~NotStored(id) => ~NotStored(id)'
  BY DEF StaysThere, NotStored, NotQueued, NotOffered, NotReadable
<1>2. ~NotSent(id) => ~NotSent(id)'
  BY DEF StaysThere, NotSent
<1> QED
  BY <1>1, <1>2 DEF Present, StaysThere

-----------------------------------------------------------------------------
(* A packet arrives in a node.                                              *)

\* The positions of a buffer at whose end a packet, or two, are stored.
LEMMA StoredAtEnd ==
  ASSUME TypeOK, NEW n \in Node, <<"processor", n>> \notin dead, dead' = dead,
         NEW id \in Id, NEW len, len = Len(outbound[n]),
         outbound' = [outbound EXCEPT ![n] = Append(@, Entry(id))]
  PROVE  /\ \A m \in Node : \A i \in Positions(m) : QueuedId(m, i)' = QueuedId(m, i)
         /\ \A m \in Node \ {n} : Positions(m)' = Positions(m)
         /\ Positions(n)' = Positions(n) \cup {len + 1}
         /\ QueuedId(n, len + 1)' = id
<1> DEFINE q == outbound[n]
           e == Entry(id)
<1>1. q \in Seq(Buffered) /\ len \in Nat /\ DOMAIN q = 1..len
  BY DEF TypeOK
<1>2. e \in Buffered /\ e.id = id
  BY DEF Entry, Buffered, TypeOK
<1>3. outbound'[n] = Append(q, e) /\ \A m \in Node \ {n} : outbound'[m] = outbound[m]
  BY DEF TypeOK
<1> HIDE DEF e
<1>4. /\ DOMAIN Append(q, e) = 1..(len + 1)
      /\ \A i \in 1..len : Append(q, e)[i] = q[i]
      /\ Append(q, e)[len + 1] = e
  BY <1>1, <1>2, AppendProperties
<1>5. /\ Positions(n) = 1..len /\ Positions(n)' = 1..(len + 1)
      /\ \A m \in Node \ {n} : Positions(m)' = Positions(m)
  BY <1>1, <1>3, <1>4 DEF Positions
<1>6. 1..(len + 1) = (1..len) \cup {len + 1}
  <2>1. len \in Nat
    BY <1>1
  <2> QED
    BY <2>1
<1>7. QueuedId(n, len + 1)' = id /\ \A i \in 1..len : QueuedId(n, i)' = QueuedId(n, i)
  BY <1>2, <1>3, <1>4 DEF QueuedId
<1>8. \A m \in Node \ {n} : \A i : QueuedId(m, i)' = QueuedId(m, i)
  BY <1>3 DEF QueuedId
<1> QED
  BY <1>5, <1>6, <1>7, <1>8

LEMMA BothAtEnd ==
  ASSUME TypeOK, NEW n \in Node, NEW id \in Id, NEW copy \in Id, BothKept(n, id, copy),
         NEW len, len = Len(outbound[n])
  PROVE  /\ \A m \in Node : \A i \in Positions(m) : QueuedId(m, i)' = QueuedId(m, i)
         /\ \A m \in Node \ {n} : Positions(m)' = Positions(m)
         /\ Positions(n)' = Positions(n) \cup {len + 1, len + 2}
         /\ QueuedId(n, len + 1)' = id /\ QueuedId(n, len + 2)' = copy
<1> DEFINE q == outbound[n]
           e == Entry(id)
           f == Entry(copy)
           r == Append(q, e)
<1>1. q \in Seq(Buffered) /\ len \in Nat /\ DOMAIN q = 1..len
  BY DEF TypeOK
<1>2. e \in Buffered /\ f \in Buffered /\ e.id = id /\ f.id = copy
  BY DEF Entry, Buffered, TypeOK
<1>3. /\ outbound'[n] = Append(r, f) /\ \A m \in Node \ {n} : outbound'[m] = outbound[m]
      /\ dead' = dead /\ <<"processor", n>> \notin dead
  BY DEF TypeOK, BothKept
<1> HIDE DEF e, f
<1>4. /\ r \in Seq(Buffered) /\ Len(r) = len + 1
      /\ \A i \in 1..len : r[i] = q[i]
      /\ r[len + 1] = e
  BY <1>1, <1>2, AppendProperties
<1> HIDE DEF r
<1>5. /\ DOMAIN Append(r, f) = 1..(len + 2)
      /\ \A i \in 1..(len + 1) : Append(r, f)[i] = r[i]
      /\ Append(r, f)[len + 2] = f
  BY <1>1, <1>2, <1>4, AppendProperties
<1>6. /\ Positions(n) = 1..len /\ Positions(n)' = 1..(len + 2)
      /\ \A m \in Node \ {n} : Positions(m)' = Positions(m)
  BY <1>1, <1>3, <1>5 DEF Positions
<1>7. /\ 1..(len + 2) = (1..len) \cup {len + 1, len + 2}
      /\ 1..len \subseteq 1..(len + 1) /\ len + 1 \in 1..(len + 1)
  <2>1. len \in Nat
    BY <1>1
  <2> QED
    BY <2>1
<1>8. /\ QueuedId(n, len + 1)' = id /\ QueuedId(n, len + 2)' = copy
      /\ \A i \in 1..len : QueuedId(n, i)' = QueuedId(n, i)
  BY <1>2, <1>3, <1>4, <1>5, <1>7 DEF QueuedId
<1>9. \A m \in Node \ {n} : \A i : QueuedId(m, i)' = QueuedId(m, i)
  BY <1>3 DEF QueuedId
<1> QED
  BY <1>6, <1>7, <1>8, <1>9

LEMMA ArrivalCustody ==
  ASSUME CustodyInv, TypeOK', LinksIdle,
         NEW n \in Node, NEW id \in Id, NEW fresh \in 1..(MaxPackets + 1), NEW task,
         \A l \in Link : <<"link", l>> # task, \A m \in Node : <<"processor", m>> # task,
         Arrives(n, id, fresh, task), id < fresh, nextId <= fresh, NotStored(id),
         \A l \in Link : inTransit'[l] \subseteq inTransit[l], NotSent(id)',
         dead' = {} => \A l \in Link : \A x \in inTransit[l] : x.id # id => x \in inTransit'[l]
  PROVE  CustodyInv'
<1> DEFINE Good(j) == OneCustodian(j)' /\ (dead' = {} => Present(j)')
           Other(j) == j \in Id /\ j # id /\ (j = fresh => nextId' = fresh)
<1> USE LogSteps
<1>1. dead' = dead \/ dead' = dead \cup {task}
  BY DEF Arrives, Gone, Readable, Kept, Stranded, NoneKept, OneKept, BothKept
<1>2. \A l \in Link : Live(l)' = Live(l)
  BY <1>1, LiveFrame DEF LinksIdle
<1>3. /\ \A j \in Id : OneCustodian(j)
      /\ dead' = {} => dead = {} /\ \A j \in Id : Present(j)
      /\ TypeOK
  BY <1>1 DEF CustodyInv
<1>4. /\ id \in Nat /\ fresh \in Nat /\ nextId \in Nat /\ id # fresh
      /\ fresh \in Id => trace[fresh] = NotBorn
  BY <1>3 DEF CustodyInv, FreeIds, TypeOK, Id
<1>5. fresh \in Id => NotStored(fresh) /\ NotSent(fresh)
  BY <1>3, <1>4, NotInNode, NotOnLink
<1>6. fresh \in Id => NotSent(fresh)'
  BY <1>5 DEF NotSent
<1>7. \A j : Other(j) => trace'[j] = trace[j]
  <2>1. fresh + 1 # fresh
    BY <1>4
  <2>2. CASE Gone(n, id) \/ Readable(n, id) \/ Kept(n, id) \/ Stranded(n, id, task)
    BY <1>3, <2>2 DEF Gone, Readable, Kept, Stranded, TypeOK
  <2>3. CASE /\ nextId' = fresh + 1
             /\ NoneKept(n, id, fresh) \/ OneKept(n, id, fresh) \/ BothKept(n, id, fresh)
    BY <1>3, <2>1, <2>3 DEF NoneKept, OneKept, BothKept, TypeOK
  <2> QED
    BY <2>2, <2>3 DEF Arrives
<1>8. ChannelsApart'
  BY <1>2 DEF CustodyInv, ChannelsApart, LinksIdle
<1>9. FreeIds'
  <2> SUFFICES ASSUME NEW j \in Id, j >= nextId'
               PROVE  trace'[j] = NotBorn
    BY DEF FreeIds
  <2>1. j \in Nat /\ (nextId' = fresh \/ nextId' = fresh + 1)
    BY DEF Arrives, Id
  <2>2. j >= nextId /\ Other(j)
    BY <1>4, <2>1
  <2> QED
    BY <1>7, <2>2 DEF CustodyInv, FreeIds
<1> HIDE DEF Other
<1>10. ASSUME UNCHANGED outbound
       PROVE  \A m \in Node : Positions(m)' = Positions(m) /\ \A i : QueuedId(m, i)' = QueuedId(m, i)
  BY <1>1, <1>10 DEF Positions, QueuedId
<1>11. PICK len : len = Len(outbound[n])
  OBVIOUS
<1>12. ASSUME Kept(n, id) \/ OneKept(n, id, fresh)
       PROVE  /\ \A m \in Node : \A i \in Positions(m) : QueuedId(m, i)' = QueuedId(m, i)
              /\ \A m \in Node \ {n} : Positions(m)' = Positions(m)
              /\ Positions(n)' = Positions(n) \cup {len + 1}
              /\ QueuedId(n, len + 1)' = id
  BY <1>3, <1>11, <1>12, StoredAtEnd DEF Kept, OneKept
<1>13. ASSUME BothKept(n, id, fresh), fresh \in Id
       PROVE  /\ \A m \in Node : \A i \in Positions(m) : QueuedId(m, i)' = QueuedId(m, i)
              /\ \A m \in Node \ {n} : Positions(m)' = Positions(m)
              /\ Positions(n)' = Positions(n) \cup {len + 1, len + 2}
              /\ QueuedId(n, len + 1)' = id /\ QueuedId(n, len + 2)' = fresh
  BY <1>3, <1>11, <1>13, BothAtEnd
\* In every case the buffers and sockets keep what they had.
<1>14. /\ \A m \in Node : \A i \in Positions(m) : i \in Positions(m)' /\ QueuedId(m, i)' = QueuedId(m, i)
       /\ \A m \in Node : inbound[m] \subseteq inbound'[m]
  <2>1. CASE Gone(n, id) \/ Stranded(n, id, task) \/ NoneKept(n, id, fresh)
    BY <1>10, <2>1 DEF Gone, Stranded, NoneKept
  <2>2. CASE Readable(n, id)
    BY <1>3, <1>10, <2>2 DEF Readable, TypeOK
  <2>3. CASE Kept(n, id) \/ OneKept(n, id, fresh)
    BY <1>12, <2>3 DEF Kept, OneKept
  <2>4. CASE BothKept(n, id, fresh) /\ fresh \in Id
    BY <1>13, <2>4 DEF BothKept
  <2> QED
    BY <2>1, <2>2, <2>3, <2>4 DEF Arrives
\* What they did not have is the packet, or its duplicate.
<1>15. /\ \A m \in Node : \A i \in Positions(m)' :
            i \in Positions(m) \/ QueuedId(m, i)' = id \/ (QueuedId(m, i)' = fresh /\ nextId' = fresh + 1)
       /\ \A m \in Node : \A x \in inbound'[m] : x \in inbound[m] \/ x.id = id
  <2>1. CASE Gone(n, id) \/ Stranded(n, id, task) \/ NoneKept(n, id, fresh)
    BY <1>10, <2>1 DEF Gone, Stranded, NoneKept
  <2>2. CASE Readable(n, id)
    BY <1>3, <1>10, <2>2 DEF Readable, TypeOK
  <2>3. CASE Kept(n, id) \/ OneKept(n, id, fresh)
    BY <1>12, <2>3 DEF Kept, OneKept
  <2>4. CASE BothKept(n, id, fresh) /\ fresh \in Id /\ nextId' = fresh + 1
    BY <1>13, <2>4 DEF BothKept
  <2> QED
    BY <2>1, <2>2, <2>3, <2>4 DEF Arrives
<1>16. ASSUME NEW j \in Id, Other(j)
       PROVE  Good(j)
  <2>1. nextId' = fresh + 1 => j # fresh
    BY <1>4, <1>16 DEF Other
  <2>2. j # id
    BY <1>16 DEF Other
  <2>3. KeepsPlace(j)
    BY <1>2, <1>7, <1>14, <1>15, <1>16, <2>1, <2>2 DEF KeepsPlace
  <2>4. dead' = {} => StaysThere(j)
    BY <1>2, <1>7, <1>14, <1>16, <2>2 DEF StaysThere
  <2> QED
    BY <1>3, <2>3, <2>4, CustodyKept, PresentKept
\* The packet itself.
<1>17. Good(id)
  <2>1. CASE Gone(n, id) \/ Stranded(n, id, task) \/ (NoneKept(n, id, fresh) /\ fresh \in Id)
    <3>1. NotStored(id)'
      BY <1>2, <1>10, <2>1 DEF NotStored, NotQueued, NotOffered, NotReadable, Gone, Stranded, NoneKept
    <3>2. dead' = {} => trace'[id].step \notin {"InNode", "InTransit"}
      BY <1>3, <1>4, <2>1 DEF Gone, Stranded, NoneKept, Recorded, TypeOK
    <3> QED
      BY <3>1, <3>2 DEF OneCustodian, Present
  <2>2. CASE Readable(n, id)
    <3> DEFINE x == [id |-> id, arrival |-> now]
    <3>1. trace'[id] = InNode(n) /\ x \in inbound'[n] /\ x.id = id
      BY <1>3, <2>2 DEF Readable, TypeOK
    <3>2. \A m \in Node : \A y \in inbound'[m] : y \in inbound[m] \/ (m = n /\ y = x)
      BY <1>3, <2>2 DEF Readable, TypeOK
    <3>3. NotQueued(id)' /\ NotOffered(id)'
      BY <1>2, <1>10, <2>2 DEF NotStored, NotQueued, NotOffered, Readable
    <3>4. PICK y : y = x
      OBVIOUS
    <3>5. ReadableOnly(id, n, y)'
      BY <3>2, <3>3, <3>4 DEF ReadableOnly, NotStored, NotReadable
    <3>6. ~NotStored(id)'
      BY <3>1 DEF NotStored, NotReadable
    <3> QED
      BY <3>1, <3>5, <3>6 DEF OneCustodian, Present
  <2>3. CASE \/ Kept(n, id)
             \/ fresh \in Id /\ (OneKept(n, id, fresh) \/ BothKept(n, id, fresh))
    <3>1. trace'[id] = InNode(n) /\ inbound' = inbound
      BY <1>3, <1>4, <2>3 DEF Kept, OneKept, BothKept, TypeOK
    <3>2. /\ len + 1 \in Positions(n)' /\ QueuedId(n, len + 1)' = id
          /\ \A m \in Node : \A i \in Positions(m)' :
               QueuedId(m, i)' = id => i \in Positions(m) \/ (m = n /\ i = len + 1)
      BY <1>4, <1>12, <1>13, <2>3
    <3>3. NotOffered(id)' /\ NotReadable(id)'
      BY <1>2, <3>1 DEF NotStored, NotOffered, NotReadable
    <3>4. PICK k : k = len + 1
      OBVIOUS
    <3>5. QueuedOnly(id, n, k)'
      BY <1>14, <3>2, <3>3, <3>4 DEF QueuedOnly, NotStored, NotQueued
    <3>6. ~NotStored(id)'
      BY <3>2 DEF NotStored, NotQueued
    <3> QED
      BY <3>1, <3>5, <3>6 DEF OneCustodian, Present
  <2> QED
    BY <2>1, <2>2, <2>3 DEF Arrives
\* Its duplicate.
<1>18. ASSUME fresh \in Id, nextId' = fresh + 1
       PROVE  Good(fresh)
  <2>1. CASE Stranded(n, id, task) \/ NoneKept(n, id, fresh) \/ OneKept(n, id, fresh)
    <3>1. inbound' = inbound
      BY <2>1 DEF Stranded, NoneKept, OneKept
    <3>2. NotQueued(fresh)'
      BY <1>4, <1>5, <1>10, <1>12, <1>18, <2>1 DEF Stranded, NoneKept, OneKept, NotStored, NotQueued
    <3>3. NotStored(fresh)'
      BY <1>2, <1>5, <1>18, <3>1, <3>2 DEF NotStored, NotOffered, NotReadable
    <3>4. trace'[fresh].step \notin {"InNode", "InTransit"}
      <4>1. DOMAIN trace = Id /\ id # fresh /\ trace[fresh].step = "None"
        BY <1>3, <1>4, <1>18, LogSteps DEF TypeOK
      <4>2. CASE Stranded(n, id, task)
        BY <1>18, <4>1, <4>2 DEF Stranded
      <4>3. CASE NoneKept(n, id, fresh) \/ OneKept(n, id, fresh)
        BY <1>18, <4>1, <4>3 DEF NoneKept, OneKept, Recorded
      <4> QED
        BY <2>1, <4>2, <4>3
    <3> QED
      BY <1>6, <1>18, <3>3, <3>4 DEF OneCustodian, Present
  <2>2. CASE BothKept(n, id, fresh)
    <3>1. trace'[fresh] = InNode(n) /\ inbound' = inbound
      BY <1>3, <1>18, <2>2 DEF BothKept, TypeOK
    <3>2. /\ len + 2 \in Positions(n)' /\ QueuedId(n, len + 2)' = fresh
          /\ \A m \in Node : \A i \in Positions(m)' :
               QueuedId(m, i)' = fresh => i \in Positions(m) \/ (m = n /\ i = len + 2)
      BY <1>4, <1>13, <1>18, <2>2
    <3>3. NotOffered(fresh)' /\ NotReadable(fresh)'
      BY <1>2, <1>5, <1>18, <3>1 DEF NotStored, NotOffered, NotReadable
    <3>4. PICK k : k = len + 2
      OBVIOUS
    <3>5. QueuedOnly(fresh, n, k)'
      BY <1>5, <1>6, <1>14, <1>18, <3>2, <3>3, <3>4 DEF QueuedOnly, NotStored, NotQueued
    <3>6. ~NotStored(fresh)'
      BY <3>2 DEF NotStored, NotQueued
    <3> QED
      BY <3>1, <3>5, <3>6 DEF OneCustodian, Present
  <2> QED
    BY <1>4, <1>18, <2>1, <2>2 DEF Arrives
<1>19. \A j \in Id : Good(j)
  <2> TAKE j \in Id
  <2>1. j = id \/ Other(j) \/ (j = fresh /\ nextId' = fresh + 1)
    BY DEF Other, Arrives
  <2> QED
    BY <1>16, <1>17, <1>18, <2>1
<1> QED
  BY <1>8, <1>9, <1>19 DEF CustodyInv

-----------------------------------------------------------------------------
(* The steps of the network.                                                *)

LEMMA CustodyFrame ==
  ASSUME CustodyInv, TypeOK', LinksIdle,
         UNCHANGED <<outbound, inbound, inTransit, trace, dead, nextId>>
  PROVE  CustodyInv'
<1>1. \A l \in Link : Live(l)' = Live(l)
  BY LiveFrame DEF LinksIdle
<1>2. \A n \in Node : Positions(n)' = Positions(n) /\ \A i : QueuedId(n, i)' = QueuedId(n, i)
  BY DEF Positions, QueuedId
<1>3. \A id \in Id : KeepsPlace(id) /\ StaysThere(id)
  BY <1>1, <1>2 DEF KeepsPlace, StaysThere
<1>4. \A id \in Id : OneCustodian(id)' /\ (dead' = {} => Present(id)')
  BY <1>3, CustodyKept, PresentKept DEF CustodyInv
<1>5. ChannelsApart' /\ FreeIds'
  BY <1>1 DEF CustodyInv, ChannelsApart, FreeIds, LinksIdle
<1> QED
  BY <1>4, <1>5 DEF CustodyInv

LEMMA HostSendCustody ==
  ASSUME CustodyInv, TypeOK', NEW f \in Flow, NEW size \in Size, NEW ecn \in HostEcn,
         HostSend(f, size, ecn)
  PROVE  CustodyInv'
<1> DEFINE d == [number |-> nextId, src |-> f[1], dst |-> f[2], size |-> size, ecn |-> ecn]
           task == <<"host", f[1]>>
<1>1. TypeOK /\ f[1] \in Node /\ f[2] \in Node /\ ecn \in Ecn
  BY ParameterAssumption DEF CustodyInv
<1>2. nextId \in Id /\ nextId + 1 \in 1..(MaxPackets + 1) /\ nextId \in Nat
  BY <1>1, ParameterAssumption DEF TypeOK, HostSend, Id
<1>3. d \in Data
  BY <1>1, <1>2 DEF Data
<1>4. Forward(f[1], nextId, d, nextId + 1, task)
  BY DEF HostSend
<1> HIDE DEF d
<1>5. nextId < nextId + 1 /\ nextId <= nextId + 1 /\ nextId # nextId + 1 /\ nextId >= nextId
  BY <1>2
<1>6. Arrives(f[1], nextId, nextId + 1, task)
  BY <1>1, <1>2, <1>3, <1>4, <1>5, ForwardCases
<1>7. /\ \A l \in Link : <<"link", l>> # task
      /\ \A m \in Node : <<"processor", m>> # task
  OBVIOUS
<1> HIDE DEF task
<1>8. LinksIdle /\ inTransit' = inTransit
  BY DEF HostSend, LinksIdle, dispatchVars, taskVars, transitVars
<1>9. OneCustodian(nextId) /\ trace[nextId] = NotBorn
  BY <1>2, <1>5 DEF CustodyInv, FreeIds
<1>10. NotStored(nextId) /\ NotSent(nextId)
  BY <1>9, LogSteps, NotInNode, NotOnLink
<1>11. PICK id : id = nextId
  OBVIOUS
<1>12. NotSent(id)'
  BY <1>8, <1>10, <1>11 DEF NotSent
<1> QED
  BY <1>1, <1>2, <1>5, <1>6, <1>7, <1>8, <1>10, <1>11, <1>12, ArrivalCustody

LEMMA HostReceiveCustody ==
  ASSUME CustodyInv, TypeOK', NEW n \in Node, HostReceive(n)
  PROVE  CustodyInv'
<1>1. PICK x \in inbound[n] : /\ inbound' = [inbound EXCEPT ![n] = @ \ {x}]
                              /\ Track(x.id, "Delivered", n)
  BY DEF HostReceive
<1>2. TypeOK /\ x.id \in Id
  <2>1. TypeOK
    BY DEF CustodyInv
  <2> QED
    BY <2>1, CustodyTypes
<1>3. OneCustodian(x.id) /\ trace[x.id] = InNode(n) /\ ReadableOnly(x.id, n, x)
  BY <1>2, WhenReadable DEF CustodyInv
<1>4. /\ trace' = [trace EXCEPT ![x.id] = Recorded("Delivered", n)]
      /\ \A m \in Node : \A y \in inbound'[m] : y \in inbound[m] /\ ~(m = n /\ y = x)
      /\ \A m \in Node : \A y \in inbound[m] : y.id # x.id => y \in inbound'[m]
  BY <1>1, <1>2 DEF Track, TypeOK
<1>5. LinksIdle /\ UNCHANGED <<outbound, inTransit, dead, nextId>>
  BY DEF HostReceive, LinksIdle, dispatchVars, taskVars, transitVars, packetVars
<1>6. \A l \in Link : Live(l)' = Live(l)
  BY <1>5, LiveFrame DEF LinksIdle
<1>7. \A m \in Node : Positions(m)' = Positions(m) /\ \A i : QueuedId(m, i)' = QueuedId(m, i)
  BY <1>5 DEF Positions, QueuedId
<1>8. ASSUME NEW id \in Id, id # x.id
      PROVE  OneCustodian(id)' /\ (dead' = {} => Present(id)')
  <2>1. trace'[id] = trace[id]
    BY <1>2, <1>4, <1>8 DEF TypeOK
  <2>2. KeepsPlace(id) /\ StaysThere(id)
    BY <1>4, <1>5, <1>6, <1>7, <1>8, <2>1 DEF KeepsPlace, StaysThere
  <2> QED
    BY <1>5, <2>2, CustodyKept, PresentKept DEF CustodyInv
<1>9. PICK id : id = x.id
  OBVIOUS
<1>10. OneCustodian(id)' /\ Present(id)'
  <2>1. NotStored(id)' /\ NotSent(id)'
    BY <1>3, <1>4, <1>5, <1>6, <1>7, <1>9
       DEF ReadableOnly, NotStored, NotQueued, NotOffered, NotReadable, NotSent
  <2>2. trace'[id].step = "Delivered"
    BY <1>2, <1>4, <1>9 DEF TypeOK, Recorded
  <2> QED
    BY <2>1, <2>2 DEF OneCustodian, Present
<1>11. ChannelsApart'
  BY <1>5, <1>6 DEF CustodyInv, ChannelsApart, LinksIdle
<1>12. FreeIds'
  <2>1. ~(x.id >= nextId)
    BY <1>2, <1>3, LogSteps DEF CustodyInv, FreeIds
  <2> QED
    BY <1>2, <1>4, <1>5, <2>1 DEF CustodyInv, FreeIds, TypeOK
<1> QED
  BY <1>8, <1>9, <1>10, <1>11, <1>12 DEF CustodyInv

LEMMA DeliverNextCustody ==
  ASSUME CustodyInv, TypeOK', NEW l \in Link, DeliverNext(l)
  PROVE  CustodyInv'
<1> DEFINE task == <<"forwarder", l>>
<1>1. PICK x \in Arrived(inTransit[l]) :
        /\ \/ LoseInTransit(l, x)
           \/ Forward(Target[l], x.id, data[x.id], nextId, task)
        /\ inTransit' = [inTransit EXCEPT ![l] =
             IF task \in dead' THEN inTransit[l] \ Arrived(inTransit[l]) ELSE inTransit[l] \ {x}]
  BY DEF DeliverNext
<1>2. TypeOK /\ x \in inTransit[l] /\ x.id \in Id /\ x.id \in Nat
  <2>1. TypeOK /\ x \in inTransit[l]
    BY DEF CustodyInv, Arrived
  <2>2. x.id \in Id
    BY <2>1, CustodyTypes
  <2> QED
    BY <2>1, <2>2 DEF Id
<1>3. OneCustodian(x.id) /\ trace[x.id] = InTransit(l) /\ SentOnly(x.id, l, x)
  BY <1>2, WhenSent DEF CustodyInv
<1>4. /\ \A k \in Link : inTransit'[k] \subseteq inTransit[k]
      /\ \A k \in Link : \A y \in inTransit'[k] : ~(k = l /\ y = x)
      /\ dead' = {} => \A k \in Link : \A y \in inTransit[k] : y.id # x.id => y \in inTransit'[k]
  BY <1>1, <1>2 DEF TypeOK
<1>5. PICK id : id = x.id
  OBVIOUS
<1>6. NotStored(id) /\ NotSent(id)'
  BY <1>3, <1>4, <1>5 DEF SentOnly, NotSent
<1>7. nextId \in Nat /\ nextId \in 1..(MaxPackets + 1) /\ id < nextId
  <2>1. nextId \in Nat /\ nextId \in 1..(MaxPackets + 1)
    BY <1>2 DEF TypeOK
  <2>2. ~(x.id >= nextId)
    BY <1>2, <1>3, LogSteps DEF CustodyInv, FreeIds
  <2> QED
    BY <1>2, <1>5, <2>1, <2>2
<1>8. LinksIdle
  BY DEF DeliverNext, LinksIdle, dispatchVars, taskVars
<1>9. /\ \A k \in Link : <<"link", k>> # task
      /\ \A m \in Node : <<"processor", m>> # task
  OBVIOUS
<1>10. CASE Forward(Target[l], x.id, data[x.id], nextId, task)
  <2>1. Target[l] \in Node /\ data[x.id] \in Data
    BY <1>2, TopologyAssumption DEF TypeOK
  <2>2. id # nextId /\ nextId <= nextId
    BY <1>2, <1>5, <1>7
  <2> HIDE DEF task
  <2>3. Arrives(Target[l], id, nextId, task)
    BY <1>2, <1>5, <1>7, <1>10, <2>1, <2>2, ForwardCases
  <2> QED
    BY <1>2, <1>4, <1>5, <1>6, <1>7, <1>8, <1>9, <2>1, <2>2, <2>3, ArrivalCustody
<1>11. CASE LoseInTransit(l, x)
  <2>1. /\ trace' = [trace EXCEPT ![x.id] = Recorded("LostInTransit", l)]
        /\ UNCHANGED <<inbound, outbound, nextId, dead>>
    BY <1>11 DEF LoseInTransit, Track, packetVars
  <2>2. \A k \in Link : Live(k)' = Live(k)
    BY <1>8, <2>1, LiveFrame DEF LinksIdle
  <2>3. \A m \in Node : Positions(m)' = Positions(m) /\ \A i : QueuedId(m, i)' = QueuedId(m, i)
    BY <2>1 DEF Positions, QueuedId
  <2>4. ASSUME NEW j \in Id, j # id
        PROVE  OneCustodian(j)' /\ (dead' = {} => Present(j)')
    <3>1. trace'[j] = trace[j]
      BY <1>2, <1>5, <2>1, <2>4 DEF TypeOK
    <3>2. KeepsPlace(j) /\ (dead' = {} => StaysThere(j))
      BY <1>4, <1>5, <2>1, <2>2, <2>3, <2>4, <3>1 DEF KeepsPlace, StaysThere
    <3> QED
      BY <2>1, <3>2, CustodyKept, PresentKept DEF CustodyInv
  <2>5. OneCustodian(id)' /\ Present(id)'
    <3>1. NotStored(id)'
      BY <1>6, <2>1, <2>2, <2>3 DEF NotStored, NotQueued, NotOffered, NotReadable
    <3>2. trace'[id].step = "LostInTransit"
      BY <1>2, <1>5, <2>1 DEF TypeOK, Recorded
    <3> QED
      BY <1>6, <3>1, <3>2 DEF OneCustodian, Present
  <2>6. ChannelsApart'
    BY <1>8, <2>2 DEF CustodyInv, ChannelsApart, LinksIdle
  <2>7. FreeIds'
    BY <1>2, <1>5, <1>7, <2>1 DEF CustodyInv, FreeIds, TypeOK
  <2> QED
    BY <2>4, <2>5, <2>6, <2>7 DEF CustodyInv
<1> QED
  BY <1>1, <1>10, <1>11

-----------------------------------------------------------------------------
(* A packet is handed to the candidate links.                               *)

\* The candidate links of the packet at the head of node n's buffer, the copy
\* that each is given, and the places of a link among the candidates.
HeadLinks(n)    == Candidates[n][data[Head(outbound[n]).id].dst]
HeadCopy(n)     == [id |-> Head(outbound[n]).id, since |-> Head(outbound[n]).since,
                    channel |-> nextChannel]
HeadPlaces(n, l) == {i \in Reached(HeadLinks(n)) : HeadLinks(n)[i] = l}

LEMMA DispatchReads ==
  ASSUME TypeOK, NEW n \in Node, Dispatch(n)
  PROVE  /\ outbound[n] \in Seq(Buffered) /\ outbound[n] # <<>> /\ Head(outbound[n]) \in Buffered
         /\ HeadLinks(n) \in Seq(Link) /\ \A i \in DOMAIN HeadLinks(n) : Source[HeadLinks(n)[i]] = n
         /\ \A l \in Link : IsFiniteSet(HeadPlaces(n, l))
         /\ \A l \in Link : [k \in 1..Cardinality(HeadPlaces(n, l)) |-> HeadCopy(n)] \in Seq(Outgoing)
<1>1. outbound[n] \in Seq(Buffered) /\ outbound[n] # <<>>
  BY DEF TypeOK, Dispatch
<1>2. Head(outbound[n]) \in Buffered
  BY <1>1
<1>3. HeadLinks(n) \in Seq(Link) /\ \A i \in DOMAIN HeadLinks(n) : Source[HeadLinks(n)[i]] = n
  <2>1. data[Head(outbound[n]).id].dst \in Node
    BY <1>2 DEF Buffered, TypeOK, Data
  <2>2. PICK d \in Node : HeadLinks(n) = Candidates[n][d]
    BY <2>1 DEF HeadLinks
  <2> QED
    BY <2>2, TopologyAssumption
<1>4. \A l \in Link : [k \in 1..Cardinality(HeadPlaces(n, l)) |-> HeadCopy(n)] \in Seq(Outgoing)
  BY DispatchCopies DEF HeadLinks, HeadCopy, HeadPlaces
<1>5. ASSUME NEW l \in Link
      PROVE  IsFiniteSet(HeadPlaces(n, l))
  <2>1. DOMAIN HeadLinks(n) = 1..Len(HeadLinks(n)) /\ Len(HeadLinks(n)) \in Nat
    BY <1>3
  <2>2. IsFiniteSet(1..Len(HeadLinks(n)))
    BY <2>1, FS_Interval
  <2>3. HeadPlaces(n, l) \in SUBSET (1..Len(HeadLinks(n)))
    BY <2>1 DEF HeadPlaces, Reached
  <2> QED
    BY <2>2, <2>3, FS_Subset
<1> QED
  BY <1>1, <1>2, <1>3, <1>4, <1>5

LEMMA DispatchWrites ==
  ASSUME TypeOK, NEW n \in Node, Dispatch(n)
  PROVE  /\ <<"processor", n>> \notin dead
         /\ outgoing' = [l \in Link |-> outgoing[l] \o [k \in 1..Cardinality(HeadPlaces(n, l)) |-> HeadCopy(n)]]
         /\ dead' = IF HeadLinks(n) = <<>> \/ Reached(HeadLinks(n)) # DOMAIN HeadLinks(n)
                    THEN dead \cup {<<"processor", n>>} ELSE dead
         /\ nextChannel' = IF HeadLinks(n) = <<>> THEN nextChannel ELSE nextChannel + 1
         /\ outbound'[n] = Tail(outbound[n]) /\ \A m \in Node \ {n} : outbound'[m] = outbound[m]
         /\ UNCHANGED <<handled, pc, cur, inTransit, inbound, trace, nextId>>
<1>1. <<"processor", n>> \notin dead
  BY DEF Dispatch, MayRun
<1>2. outbound' = [outbound EXCEPT ![n] = Tail(@)]
  BY DEF Dispatch
<1>3. outbound'[n] = Tail(outbound[n]) /\ \A m \in Node \ {n} : outbound'[m] = outbound[m]
  BY <1>2 DEF TypeOK
<1>4. /\ outgoing' = [l \in Link |-> outgoing[l] \o [k \in 1..Cardinality(HeadPlaces(n, l)) |-> HeadCopy(n)]]
      /\ dead' = IF HeadLinks(n) = <<>> \/ Reached(HeadLinks(n)) # DOMAIN HeadLinks(n)
                 THEN dead \cup {<<"processor", n>>} ELSE dead
      /\ nextChannel' = IF HeadLinks(n) = <<>> THEN nextChannel ELSE nextChannel + 1
  BY DEF Dispatch, HeadLinks, HeadCopy, HeadPlaces
<1>5. UNCHANGED <<handled, pc, cur, inTransit, inbound, trace, nextId>>
  BY DEF Dispatch, taskVars, transitVars, packetVars
<1> QED
  BY <1>1, <1>3, <1>4, <1>5

\* The new copies: one for each time a candidate list names the link.
LEMMA DispatchOffers ==
  ASSUME TypeOK, ChannelsApart, NEW n \in Node, Dispatch(n), NEW copy, copy = HeadCopy(n)
  PROVE  /\ \A l \in Link : Live(l) \subseteq Live(l)'
         /\ \A l \in Link : \A o \in Live(l)' : o \in Live(l) \/ (o = copy /\ Source[l] = n)
         /\ \A l \in Link : copy \in Live(l)' => nextChannel' = nextChannel + 1
         /\ nextChannel' = nextChannel \/ nextChannel' = nextChannel + 1
         /\ dead' = {} => \E l \in Link : copy \in Live(l)'
         /\ dead' = dead \/ dead' = dead \cup {<<"processor", n>>}
<1> DEFINE links == HeadLinks(n)
           S(l)  == HeadPlaces(n, l)
           new(l) == [k \in 1..Cardinality(S(l)) |-> copy]
<1>1. links \in Seq(Link) /\ \A i \in DOMAIN links : Source[links[i]] = n
  BY DispatchReads
<1>2. /\ outgoing' = [l \in Link |-> outgoing[l] \o new(l)]
      /\ dead' = IF links = <<>> \/ Reached(links) # DOMAIN links
                 THEN dead \cup {<<"processor", n>>} ELSE dead
      /\ nextChannel' = IF links = <<>> THEN nextChannel ELSE nextChannel + 1
      /\ UNCHANGED <<handled, pc, cur>>
  BY DispatchWrites
<1>3. \A l \in Link : new(l) \in Seq(Outgoing)
  BY DispatchReads
<1>4. \A l \in Link : IsFiniteSet(S(l))
  BY DispatchReads
<1>5. \A l \in Link : Cardinality(S(l)) \in Nat /\ (Cardinality(S(l)) = 0 <=> S(l) = {})
  BY <1>4, FS_CardinalityType, FS_EmptySet
<1>6. /\ \A l \in Link : \A i \in S(l) : i \in DOMAIN links /\ links[i] = l
      /\ \A l \in Link : \A i \in Reached(links) : links[i] = l => i \in S(l)
  BY DEF HeadPlaces, Reached
<1> HIDE DEF S, links
<1>7. \A l \in Link : (S(l) = {} /\ DOMAIN new(l) = {}) \/ (S(l) # {} /\ 1 \in DOMAIN new(l))
  BY <1>5
<1>8. \A l \in Link : \A i \in DOMAIN new(l) : new(l)[i] = copy
  OBVIOUS
<1> HIDE DEF new
<1>9. \A l \in Link : /\ Elements(outgoing[l]) \subseteq Elements(outgoing'[l])
                      /\ \A o \in Elements(outgoing'[l]) :
                           o \in Elements(outgoing[l]) \/ (o = copy /\ S(l) # {})
                      /\ S(l) # {} => copy \in Elements(outgoing'[l])
  <2> TAKE l \in Link
  <2> DEFINE q == outgoing[l]
             r == new(l)
  <2>1. q \in Seq(Outgoing) /\ r \in Seq(Outgoing) /\ outgoing'[l] = q \o r
    BY <1>2, <1>3 DEF TypeOK
  <2>2. (S(l) = {} /\ DOMAIN r = {}) \/ (S(l) # {} /\ 1 \in DOMAIN r)
    BY <1>7
  <2>3. \A i \in DOMAIN r : r[i] = copy
    BY <1>8
  <2> HIDE DEF q, r
  <2>4. \A i \in DOMAIN q : i \in DOMAIN (q \o r) /\ (q \o r)[i] = q[i]
    BY <2>1
  <2>5. \A i \in DOMAIN r : Len(q) + i \in DOMAIN (q \o r) /\ (q \o r)[Len(q) + i] = r[i]
    BY <2>1
  <2>6. \A i \in DOMAIN (q \o r) :
          \/ i \in DOMAIN q
          \/ i - Len(q) \in DOMAIN r /\ (q \o r)[i] = r[i - Len(q)]
    BY <2>1
  <2>7. Elements(q) \subseteq Elements(q \o r)
    BY <2>4 DEF Elements
  <2>8. ASSUME NEW o \in Elements(q \o r)
        PROVE  o \in Elements(q) \/ (o = copy /\ S(l) # {})
    <3>1. PICK i \in DOMAIN (q \o r) : o = (q \o r)[i]
      BY DEF Elements
    <3> QED
      BY <2>2, <2>3, <2>4, <2>6, <3>1 DEF Elements
  <2>9. S(l) # {} => copy \in Elements(q \o r)
    BY <2>2, <2>3, <2>5 DEF Elements
  <2> QED
    BY <2>1, <2>7, <2>8, <2>9 DEF q
<1>10. copy.channel = nextChannel /\ nextChannel \in Nat /\ nextChannel \notin handled
  BY DEF TypeOK, ChannelsApart, HeadCopy
<1>11. \A l \in Link : <<"link", l>> \in dead' <=> <<"link", l>> \in dead
  BY <1>2
<1>12. \A l \in Link : Live(l) \subseteq Live(l)'
  BY <1>2, <1>9, <1>11 DEF Live, Held
<1>13. ASSUME NEW l \in Link, NEW o \in Live(l)'
       PROVE  o \in Live(l) \/ (o = copy /\ S(l) # {})
  <2>1. /\ <<"link", l>> \notin dead /\ o.channel \notin handled
        /\ o \in Elements(outgoing'[l]) \cup (IF pc[l] \in Waiting THEN {cur[l]} ELSE {})
    BY <1>2, <1>11, <1>13 DEF Live, Held
  <2>2. o \in Elements(outgoing'[l]) => o \in Elements(outgoing[l]) \/ (o = copy /\ S(l) # {})
    BY <1>9
  <2> QED
    BY <2>1, <2>2 DEF Live, Held
<1>14. \A l \in Link : S(l) # {} => Source[l] = n /\ links # <<>>
  BY <1>1, <1>6
<1>15. \A l \in Link : copy \in Live(l)' => nextChannel' = nextChannel + 1
  <2>1. \A l \in Link : copy \notin Live(l)
    BY <1>10 DEF ChannelsApart
  <2> QED
    BY <1>2, <1>13, <1>14, <2>1
<1>16. ASSUME dead' = {}
       PROVE  \E l \in Link : copy \in Live(l)'
  <2>1. links # <<>> /\ Reached(links) = DOMAIN links
    BY <1>2, <1>16
  <2>2. 1 \in DOMAIN links /\ links[1] \in Link
    BY <1>1, <2>1
  <2>3. PICK k \in Link : k = links[1]
    BY <2>2
  <2>4. S(k) # {}
    BY <1>6, <2>1, <2>2, <2>3
  <2>5. copy \in Elements(outgoing'[k])
    BY <1>9, <2>4
  <2> QED
    BY <1>2, <1>10, <1>16, <2>5 DEF Live, Held
<1> QED
  BY <1>2, <1>12, <1>13, <1>14, <1>15, <1>16

\* The packets behind the head of the buffer move up, unless the processor ends.
LEMMA DispatchShifts ==
  ASSUME TypeOK, NEW n \in Node, Dispatch(n),
         dead' = dead \/ dead' = dead \cup {<<"processor", n>>}
  PROVE  /\ 1 \in Positions(n) /\ QueuedId(n, 1) = Head(outbound[n]).id
         /\ \A i \in Positions(n)' :
              i \in Nat /\ i >= 1 /\ i + 1 \in Positions(n) /\ QueuedId(n, i)' = QueuedId(n, i + 1)
         /\ dead' = {} => \A i \in Positions(n) :
              i = 1 \/ (i - 1 \in Positions(n)' /\ QueuedId(n, i - 1)' = QueuedId(n, i))
         /\ \A m \in Node \ {n} : Positions(m)' = Positions(m) /\ \A i : QueuedId(m, i)' = QueuedId(m, i)
<1> DEFINE q == outbound[n]
<1>1. q \in Seq(Buffered) /\ q # <<>> /\ <<"processor", n>> \notin dead
  BY DispatchReads, DispatchWrites
<1>2. outbound'[n] = Tail(q) /\ \A m \in Node \ {n} : outbound'[m] = outbound[m]
  BY DispatchWrites
<1>3. 1 \in DOMAIN q /\ q[1] = Head(q)
  BY <1>1
<1>4. \A i \in DOMAIN Tail(q) : i \in Nat /\ i >= 1 /\ i + 1 \in DOMAIN q /\ Tail(q)[i] = q[i + 1]
  BY <1>1
<1>5. \A i \in DOMAIN q : i = 1 \/ (i - 1 \in DOMAIN Tail(q) /\ Tail(q)[i - 1] = q[i])
  BY <1>1
<1> HIDE DEF q
<1>6. Positions(n) = DOMAIN q
  BY <1>1 DEF Positions, q
<1>7. Positions(n)' \subseteq DOMAIN Tail(q) /\ (dead' = {} => Positions(n)' = DOMAIN Tail(q))
  BY <1>2 DEF Positions
<1>8. \A m \in Node \ {n} : Positions(m)' = Positions(m) /\ \A i : QueuedId(m, i)' = QueuedId(m, i)
  BY <1>2 DEF Positions, QueuedId
<1>9. \A i : QueuedId(n, i) = q[i].id
  BY DEF QueuedId, q
<1>10. \A i : QueuedId(n, i)' = Tail(q)[i].id
  BY <1>2 DEF QueuedId
<1>11. QueuedId(n, 1) = Head(outbound[n]).id
  BY <1>3, <1>9 DEF q
<1>12. \A i \in Positions(n)' : i \in DOMAIN Tail(q)
  BY <1>7
<1>13. \A i \in Positions(n)' :
         i \in Nat /\ i >= 1 /\ i + 1 \in Positions(n) /\ QueuedId(n, i)' = QueuedId(n, i + 1)
  BY <1>4, <1>6, <1>9, <1>10, <1>12
<1>14. dead' = {} => \A i \in Positions(n) :
         i = 1 \/ (i - 1 \in Positions(n)' /\ QueuedId(n, i - 1)' = QueuedId(n, i))
  BY <1>5, <1>6, <1>7, <1>9, <1>10
<1> QED
  BY <1>3, <1>6, <1>8, <1>11, <1>13, <1>14

LEMMA DispatchCustody ==
  ASSUME CustodyInv, TypeOK', NEW n \in Node, Dispatch(n)
  PROVE  CustodyInv'
<1> DEFINE Good(j) == OneCustodian(j)' /\ (dead' = {} => Present(j)')
<1>1. TypeOK /\ ChannelsApart /\ FreeIds /\ \A j \in Id : OneCustodian(j)
  BY DEF CustodyInv
<1>2. PICK copy : copy = HeadCopy(n)
  OBVIOUS
<1>3. /\ \A l \in Link : Live(l) \subseteq Live(l)'
      /\ \A l \in Link : \A o \in Live(l)' : o \in Live(l) \/ (o = copy /\ Source[l] = n)
      /\ \A l \in Link : copy \in Live(l)' => nextChannel' = nextChannel + 1
      /\ nextChannel' = nextChannel \/ nextChannel' = nextChannel + 1
      /\ dead' = {} => \E l \in Link : copy \in Live(l)'
      /\ dead' = dead \/ dead' = dead \cup {<<"processor", n>>}
  BY <1>1, <1>2, DispatchOffers
<1>4. UNCHANGED <<handled, inTransit, inbound, trace, nextId>>
  BY <1>1, DispatchWrites
<1>5. PICK id : id = Head(outbound[n]).id
  OBVIOUS
<1>6. copy.id = id /\ copy.channel = nextChannel
  BY <1>2, <1>5 DEF HeadCopy
<1>7. /\ 1 \in Positions(n) /\ QueuedId(n, 1) = id
      /\ \A i \in Positions(n)' :
           i \in Nat /\ i >= 1 /\ i + 1 \in Positions(n) /\ QueuedId(n, i)' = QueuedId(n, i + 1)
      /\ dead' = {} => \A i \in Positions(n) :
           i = 1 \/ (i - 1 \in Positions(n)' /\ QueuedId(n, i - 1)' = QueuedId(n, i))
      /\ \A m \in Node \ {n} : Positions(m)' = Positions(m) /\ \A i : QueuedId(m, i)' = QueuedId(m, i)
  BY <1>1, <1>3, <1>5, DispatchShifts
<1>8. id \in Id /\ trace[id] = InNode(n) /\ QueuedOnly(id, n, 1)
  <2>1. id \in Id
    BY <1>1, <1>7, CustodyTypes
  <2> QED
    BY <1>1, <1>7, <2>1, WhenQueued
\* The packet at the head is in the hands of the links.
<1>9. Good(id)
  <2>1. NotQueued(id)'
    <3> SUFFICES ASSUME NEW m \in Node, NEW i \in Positions(m)', QueuedId(m, i)' = id
                 PROVE  FALSE
      BY DEF NotQueued
    <3>1. CASE m # n
      BY <1>7, <1>8, <3>1 DEF QueuedOnly
    <3>2. CASE m = n
      <4>1. i \in Nat /\ i >= 1 /\ i + 1 \in Positions(n) /\ QueuedId(n, i + 1) = id
        BY <1>7, <3>2
      <4>2. i + 1 = 1
        BY <1>8, <4>1 DEF QueuedOnly
      <4> QED
        BY <4>1, <4>2
    <3> QED
      BY <3>1, <3>2
  <2>2. NotSent(id)' /\ NotReadable(id)'
    BY <1>4, <1>8 DEF QueuedOnly, NotSent, NotReadable
  <2>3. PICK c : c = nextChannel
    OBVIOUS
  <2>4. OfferedOnly(id, n, c)'
    <3>1. \A l \in Link : \A o \in Live(l)' : o.id = id => Source[l] = n /\ o.channel = c
      BY <1>3, <1>6, <1>8, <2>3 DEF QueuedOnly, NotOffered
    <3> QED
      BY <2>1, <2>2, <3>1 DEF OfferedOnly
  <2>5. dead' = {} => ~NotStored(id)'
    BY <1>3, <1>6 DEF NotStored, NotOffered
  <2>6. trace'[id] = InNode(n)
    BY <1>4, <1>8
  <2> QED
    BY <2>4, <2>5, <2>6, LogSteps DEF OneCustodian, Present
\* Those behind it are one position further on.
<1>10. ASSUME NEW j \in Id, j # id, NEW k \in Positions(n), QueuedId(n, k) = j
       PROVE  Good(j)
  <2>1. trace[j] = InNode(n) /\ QueuedOnly(j, n, k)
    BY <1>1, <1>10, WhenQueued
  <2>2. PICK h : h = k - 1
    OBVIOUS
  <2>3. k \in Nat
    <3>1. outbound[n] \in Seq(Buffered) /\ k \in DOMAIN outbound[n]
      BY <1>1 DEF TypeOK, Positions
    <3> QED
      BY <3>1
  <2>4. ASSUME NEW m \in Node, NEW i \in Positions(m)', QueuedId(m, i)' = j
        PROVE  m = n /\ i = h
    <3>1. CASE m # n
      BY <1>7, <2>1, <2>4, <3>1 DEF QueuedOnly
    <3>2. CASE m = n
      <4>1. i \in Nat /\ i + 1 \in Positions(n) /\ QueuedId(n, i + 1) = j
        BY <1>7, <2>4, <3>2
      <4>2. i + 1 = k
        BY <2>1, <4>1 DEF QueuedOnly
      <4> QED
        BY <2>2, <2>3, <3>2, <4>1, <4>2
    <3> QED
      BY <3>1, <3>2
  <2>5. NotOffered(j)' /\ NotSent(j)' /\ NotReadable(j)'
    BY <1>3, <1>4, <1>6, <1>10, <2>1 DEF QueuedOnly, NotOffered, NotSent, NotReadable
  <2>6. QueuedOnly(j, n, h)'
    BY <2>4, <2>5 DEF QueuedOnly
  <2>7. k # 1
    BY <1>7, <1>10
  <2>8. dead' = {} => ~NotStored(j)'
    BY <1>7, <1>10, <2>7 DEF NotStored, NotQueued
  <2>9. trace'[j] = InNode(n)
    BY <1>4, <2>1
  <2> QED
    BY <2>6, <2>8, <2>9, LogSteps DEF OneCustodian, Present
\* The others stay where they are.
<1>11. ASSUME NEW j \in Id, \A k \in Positions(n) : QueuedId(n, k) # j
       PROVE  Good(j)
  <2>1. j # id
    BY <1>7, <1>11
  <2>2. \A m \in Node : \A i \in Positions(m)' :
          QueuedId(m, i)' = j => i \in Positions(m) /\ QueuedId(m, i) = j
    BY <1>7, <1>11
  <2>3. \A m \in Node : \A i \in Positions(m) :
          QueuedId(m, i) = j => i \in Positions(m)' /\ QueuedId(m, i)' = j
    BY <1>7, <1>11
  <2>4. KeepsPlace(j)
    BY <1>3, <1>4, <1>6, <2>1, <2>2 DEF KeepsPlace
  <2>5. StaysThere(j)
    BY <1>3, <1>4, <2>3 DEF StaysThere
  <2>6. dead' = {} => dead = {}
    BY <1>3
  <2> QED
    BY <1>1, <2>4, <2>5, <2>6, CustodyKept, PresentKept DEF CustodyInv
<1>12. ChannelsApart'
  <2>1. nextChannel \in Nat /\ nextChannel' >= nextChannel
    BY <1>1, <1>3 DEF TypeOK
  <2>2. \A l \in Link : \A o \in Live(l) : o.channel \in Nat /\ o.channel < nextChannel
    BY <1>1, CustodyTypes DEF ChannelsApart
  <2>3. \A l, k \in Link : \A o \in Live(l)', q \in Live(k)' : o.channel = q.channel => o = q
    <3> SUFFICES ASSUME NEW l \in Link, NEW k \in Link, NEW o \in Live(l)', NEW q \in Live(k)',
                        o.channel = q.channel
                 PROVE  o = q
      OBVIOUS
    <3>1. (o \in Live(l) \/ o = copy) /\ (q \in Live(k) \/ q = copy)
      BY <1>3
    <3>2. CASE o \in Live(l) /\ q \in Live(k)
      BY <1>1, <3>2 DEF ChannelsApart
    <3>3. CASE o = copy \/ q = copy
      <4>1. o = copy /\ q = copy
        BY <1>6, <2>1, <2>2, <3>1, <3>3
      <4> QED
        BY <4>1
    <3> QED
      BY <3>1, <3>2, <3>3
  <2>4. \A l \in Link : \A o \in Live(l)' : o.channel < nextChannel'
    <3> SUFFICES ASSUME NEW l \in Link, NEW o \in Live(l)'
                 PROVE  o.channel < nextChannel'
      OBVIOUS
    <3>1. CASE o \in Live(l)
      BY <1>3, <2>1, <2>2, <3>1
    <3>2. CASE o = copy
      BY <1>3, <1>6, <2>1, <3>2
    <3> QED
      BY <1>3, <3>1, <3>2
  <2>5. \A c \in handled' : c < nextChannel'
    BY <1>1, <1>3, <1>4, <2>1 DEF ChannelsApart, TypeOK
  <2> QED
    BY <2>3, <2>4, <2>5 DEF ChannelsApart
<1>13. FreeIds'
  BY <1>1, <1>4 DEF FreeIds
<1>14. \A j \in Id : Good(j)
  BY <1>9, <1>10, <1>11
<1> QED
  BY <1>12, <1>13, <1>14 DEF CustodyInv

-----------------------------------------------------------------------------
(* A link's task runs.                                                      *)

\* The copy it comes by is one it holds, and it keeps the others.
LEMMA ComesByHeld ==
  ASSUME TypeOK, NEW l \in Link, NEW o \in Outgoing, ComesBy(l, o), <<"link", l>> \notin dead
  PROVE  /\ Held(l) = Elements(outgoing'[l]) \cup {o}
         /\ \A k \in Link \ {l} : outgoing'[k] = outgoing[k]
<1>1. CASE pc[l] \in Waiting /\ o = cur[l] /\ outgoing' = outgoing
  BY <1>1 DEF Held
<1>2. CASE /\ pc[l] = "idle" /\ outgoing[l] # <<>> /\ o = Head(outgoing[l])
           /\ outgoing' = [outgoing EXCEPT ![l] = Tail(@)]
  <2> DEFINE q == outgoing[l]
  <2>1. q \in Seq(Outgoing) /\ q # <<>> /\ o = Head(q)
    BY <1>2 DEF TypeOK
  <2>2. outgoing'[l] = Tail(q) /\ \A k \in Link \ {l} : outgoing'[k] = outgoing[k]
    BY <1>2 DEF TypeOK
  <2>3. Held(l) = Elements(q)
    BY <1>2 DEF Held, Waiting
  <2> HIDE DEF q
  <2>4. 1 \in DOMAIN q /\ q[1] = o
    BY <2>1
  <2>5. \A i \in DOMAIN Tail(q) : i + 1 \in DOMAIN q /\ Tail(q)[i] = q[i + 1]
    BY <2>1
  <2>6. \A i \in DOMAIN q : i = 1 \/ (i - 1 \in DOMAIN Tail(q) /\ Tail(q)[i - 1] = q[i])
    BY <2>1
  <2>7. Elements(q) = Elements(Tail(q)) \cup {o}
    <3>1. ASSUME NEW p \in Elements(q)
          PROVE  p \in Elements(Tail(q)) \cup {o}
      BY <2>4, <2>6 DEF Elements
    <3>2. ASSUME NEW p \in Elements(Tail(q))
          PROVE  p \in Elements(q)
      BY <2>5 DEF Elements
    <3>3. o \in Elements(q)
      BY <2>4 DEF Elements
    <3> QED
      BY <3>1, <3>2, <3>3
  <2> QED
    BY <2>2, <2>3, <2>7
<1> QED
  BY <1>1, <1>2 DEF ComesBy

\* What the other links hold, and where the buffers are, it does not touch.
LEMMA LinkTaskFrame ==
  ASSUME TypeOK, NEW l \in Link, NEW o \in Outgoing, ComesBy(l, o), <<"link", l>> \notin dead,
         UNCHANGED linkTaskFrame, dead' = dead \/ dead' = dead \cup {<<"link", l>>},
         NEW w, NEW r, pc' = [pc EXCEPT ![l] = w], cur' = [cur EXCEPT ![l] = r]
  PROVE  /\ \A k \in Link \ {l} : Held(k)' = Held(k)
         /\ \A n \in Node : Positions(n)' = Positions(n) /\ \A i : QueuedId(n, i)' = QueuedId(n, i)
         /\ UNCHANGED <<nextChannel, nextId, inbound>>
         /\ Held(l)' = IF dead' = dead
                       THEN Elements(outgoing'[l]) \cup (IF w \in Waiting THEN {r} ELSE {}) ELSE {}
<1>1. UNCHANGED <<nextChannel, nextId, inbound, outbound>>
  BY DEF linkTaskFrame
<1>2. \A n \in Node : Positions(n)' = Positions(n) /\ \A i : QueuedId(n, i)' = QueuedId(n, i)
  BY <1>1 DEF Positions, QueuedId
<1>3. ASSUME NEW k \in Link, k # l
      PROVE  Held(k)' = Held(k)
  <2>1. outgoing'[k] = outgoing[k] /\ pc'[k] = pc[k] /\ cur'[k] = cur[k]
    BY <1>3, ComesByHeld DEF TypeOK
  <2>2. <<"link", k>> \in dead' <=> <<"link", k>> \in dead
    BY <1>3
  <2> QED
    BY <2>1, <2>2 DEF Held
<1>4. Held(l)' = IF dead' = dead
                 THEN Elements(outgoing'[l]) \cup (IF w \in Waiting THEN {r} ELSE {}) ELSE {}
  <2>1. pc'[l] = w /\ cur'[l] = r /\ (<<"link", l>> \in dead' <=> dead' # dead)
    BY DEF TypeOK
  <2> QED
    BY <2>1 DEF Held
<1> QED
  BY <1>1, <1>2, <1>3, <1>4

\* A task that sends nothing: the copy goes back into its hands, or was handled
\* by another link, or the task dies.
LEMMA WaitingCustody ==
  ASSUME CustodyInv, TypeOK', NEW l \in Link, NEW o \in Outgoing, ComesBy(l, o),
         <<"link", l>> \notin dead, UNCHANGED linkTaskFrame,
         \/ LetsGo(l, o)
         \/ WaitPanics(l)
         \/ \E w \in Waiting, k \in Nat : Await(l, w, o, k)
  PROVE  CustodyInv'
<1>1. TypeOK /\ ChannelsApart /\ FreeIds /\ \A j \in Id : OneCustodian(j)
  BY DEF CustodyInv
<1>2. UNCHANGED <<handled, inTransit, trace>>
  BY DEF LetsGo, WaitPanics, Await
<1>3. dead' = dead \/ (dead' = dead \cup {<<"link", l>>} /\ pc' = [pc EXCEPT ![l] = "idle"])
  BY DEF LetsGo, WaitPanics, Await, GoIdle
<1>4. PICK w, r : /\ pc' = [pc EXCEPT ![l] = w] /\ cur' = [cur EXCEPT ![l] = r]
                  /\ dead' # dead \/ (w \in Waiting /\ r = o) \/ (w = "idle" /\ o.channel \in handled)
  BY DEF LetsGo, WaitPanics, Await, GoIdle
<1>5. /\ \A k \in Link \ {l} : Held(k)' = Held(k)
      /\ \A n \in Node : Positions(n)' = Positions(n) /\ \A i : QueuedId(n, i)' = QueuedId(n, i)
      /\ UNCHANGED <<nextChannel, nextId, inbound>>
      /\ Held(l)' = IF dead' = dead
                    THEN Elements(outgoing'[l]) \cup (IF w \in Waiting THEN {r} ELSE {}) ELSE {}
  BY <1>1, <1>3, <1>4, LinkTaskFrame
<1>6. Held(l) = Elements(outgoing'[l]) \cup {o}
  BY <1>1, ComesByHeld
<1>7. "idle" \notin Waiting
  BY DEF Waiting
<1>8. \A k \in Link : Live(k)' \subseteq Live(k) /\ (dead' = dead => Live(k)' = Live(k))
  <2>1. \A k \in Link \ {l} : Live(k)' = Live(k)
    BY <1>2, <1>5 DEF Live
  <2>2. CASE dead' # dead
    BY <1>5, <2>1, <2>2 DEF Live
  <2>3. CASE dead' = dead /\ w \in Waiting /\ r = o
    <3>1. Held(l)' = Held(l)
      BY <1>5, <1>6, <2>3
    <3> QED
      BY <1>2, <2>1, <3>1 DEF Live
  <2>4. CASE dead' = dead /\ w = "idle" /\ o.channel \in handled
    <3>1. Held(l) = Held(l)' \cup {o}
      BY <1>5, <1>6, <1>7, <2>4
    <3>2. Live(l)' = Live(l)
      BY <1>2, <2>4, <3>1 DEF Live
    <3> QED
      BY <2>1, <3>2
  <2> QED
    BY <1>4, <2>2, <2>3, <2>4
<1>9. dead' = {} => dead' = dead
  BY <1>3
<1>10. \A j \in Id : KeepsPlace(j) /\ (dead' = dead => StaysThere(j))
  BY <1>2, <1>5, <1>8 DEF KeepsPlace, StaysThere
<1>11. \A j \in Id : OneCustodian(j)' /\ (dead' = {} => Present(j)')
  BY <1>1, <1>9, <1>10, CustodyKept, PresentKept DEF CustodyInv
<1>12. ChannelsApart' /\ FreeIds'
  BY <1>1, <1>2, <1>5, <1>8 DEF ChannelsApart, FreeIds
<1> QED
  BY <1>11, <1>12 DEF CustodyInv

\* A task that marks the packet handled: no other link keeps a copy of it.
LEMMA TransmitCustody ==
  ASSUME CustodyInv, TypeOK', NEW l \in Link, NEW o \in Outgoing, ComesBy(l, o),
         <<"link", l>> \notin dead, UNCHANGED linkTaskFrame,
         o.channel \notin handled, Transmit(l, o)
  PROVE  CustodyInv'
<1> DEFINE Good(j) == OneCustodian(j)' /\ (dead' = {} => Present(j)')
           y(extra) == [id |-> o.id, sent |-> now, arrival |-> now + Delay[l] + extra]
<1>1. TypeOK /\ ChannelsApart /\ FreeIds /\ \A j \in Id : OneCustodian(j)
  BY DEF CustodyInv
<1>2. PICK id : id = o.id
  OBVIOUS
<1>3. handled' = handled \cup {o.channel}
  BY DEF Transmit
<1>4. /\ pc' = [pc EXCEPT ![l] = "idle"] /\ cur' = [cur EXCEPT ![l] = NoPacket]
      /\ dead' = dead \/ dead' = dead \cup {<<"link", l>>}
  BY DEF Transmit, DropCleared, SendOnLink, SendPanics, GoIdle
<1>5. \/ /\ trace' = [trace EXCEPT ![id] = Recorded("DroppedBufferCleared", Source[l])]
         /\ inTransit' = inTransit /\ dead' = dead
      \/ \E extra : /\ trace' = [trace EXCEPT ![id] = InTransit(l)]
                    /\ inTransit' = [inTransit EXCEPT ![l] = @ \cup {y(extra)}]
                    /\ dead' = dead
      \/ UNCHANGED <<trace, inTransit>> /\ dead' = dead \cup {<<"link", l>>}
  BY <1>2 DEF Transmit, DropCleared, SendOnLink, SendPanics, Track, InTransit
<1>6. /\ \A k \in Link \ {l} : Held(k)' = Held(k)
      /\ \A n \in Node : Positions(n)' = Positions(n) /\ \A i : QueuedId(n, i)' = QueuedId(n, i)
      /\ UNCHANGED <<nextChannel, nextId, inbound>>
      /\ Held(l)' = IF dead' = dead THEN Elements(outgoing'[l]) ELSE {}
  <2>1. "idle" \notin Waiting
    BY DEF Waiting
  <2>2. PICK w, r : w = "idle" /\ r = NoPacket
    OBVIOUS
  <2> QED
    BY <1>1, <1>4, <2>1, <2>2, LinkTaskFrame
<1>7. Held(l) = Elements(outgoing'[l]) \cup {o}
  BY <1>1, ComesByHeld
<1>8. o \in Live(l) /\ id \in Id
  BY <1>2, <1>7 DEF Live, Outgoing
<1>9. trace[id] = InNode(Source[l]) /\ OfferedOnly(id, Source[l], o.channel)
  BY <1>1, <1>2, <1>8, WhenOffered
<1>10. /\ \A k \in Link : \A p \in Live(k)' : p \in Live(k) /\ p.channel # o.channel
       /\ dead' = dead => \A k \in Link : \A p \in Live(k) : p.channel # o.channel => p \in Live(k)'
  <2>1. \A k \in Link : Held(k)' \subseteq Held(k)
    BY <1>6, <1>7
  <2>2. dead' = dead => \A k \in Link : \A p \in Held(k) : p # o => p \in Held(k)'
    BY <1>6, <1>7
  <2> QED
    BY <1>3, <2>1, <2>2 DEF Live
<1>11. \A j \in Id \ {id} :
         /\ trace'[j] = trace[j]
         /\ \A k \in Link : \A x \in inTransit'[k] : x.id = j => x \in inTransit[k]
         /\ \A k \in Link : \A x \in inTransit[k] : x \in inTransit'[k]
  <2>1. \A j \in Id \ {id} : trace'[j] = trace[j]
    BY <1>1, <1>5 DEF TypeOK
  <2>2. ASSUME NEW extra, inTransit' = [inTransit EXCEPT ![l] = @ \cup {y(extra)}]
        PROVE  /\ \A k \in Link : \A x \in inTransit'[k] : x.id # id => x \in inTransit[k]
               /\ \A k \in Link : \A x \in inTransit[k] : x \in inTransit'[k]
    <3>1. PICK z : z = y(extra)
      OBVIOUS
    <3>2. z.id = id
      BY <1>2, <3>1
    <3> QED
      BY <1>1, <2>2, <3>1, <3>2 DEF TypeOK
  <2> QED
    BY <1>5, <2>1, <2>2
<1>12. ASSUME NEW j \in Id, j # id
       PROVE  Good(j)
  <2>1. KeepsPlace(j)
    BY <1>6, <1>10, <1>11, <1>12 DEF KeepsPlace
  <2>2. \A k \in Link : \A p \in Live(k) : p.id = j => p.channel # o.channel
    BY <1>1, <1>2, <1>8, <1>12 DEF ChannelsApart
  <2>3. dead' = {} => dead' = dead
    BY <1>4
  <2>4. dead' = dead => StaysThere(j)
    BY <1>6, <1>10, <1>11, <1>12, <2>2 DEF StaysThere
  <2> QED
    BY <1>1, <2>1, <2>3, <2>4, CustodyKept, PresentKept DEF CustodyInv
<1>13. Good(id)
  <2>1. NotStored(id)'
    <3>1. NotQueued(id)' /\ NotReadable(id)'
      BY <1>6, <1>9 DEF OfferedOnly, NotQueued, NotReadable
    <3>2. NotOffered(id)'
      BY <1>9, <1>10 DEF OfferedOnly, NotOffered
    <3> QED
      BY <3>1, <3>2 DEF NotStored
  <2>2. NotSent(id)
    BY <1>9 DEF OfferedOnly
  <2>3. CASE /\ trace' = [trace EXCEPT ![id] = Recorded("DroppedBufferCleared", Source[l])]
             /\ inTransit' = inTransit /\ dead' = dead
    <3>1. trace'[id].step = "DroppedBufferCleared"
      BY <1>1, <1>8, <2>3 DEF TypeOK, Recorded
    <3>2. NotSent(id)'
      BY <2>2, <2>3 DEF NotSent
    <3> QED
      BY <2>1, <3>1, <3>2 DEF OneCustodian, Present
  <2>4. ASSUME NEW extra, trace' = [trace EXCEPT ![id] = InTransit(l)],
               inTransit' = [inTransit EXCEPT ![l] = @ \cup {y(extra)}]
        PROVE  Good(id)
    <3>1. PICK z : z = y(extra)
      OBVIOUS
    <3>2. z.id = id
      BY <1>2, <3>1
    <3>3. trace'[id] = InTransit(l)
      BY <1>1, <1>8, <2>4 DEF TypeOK
    <3>4. /\ z \in inTransit'[l]
          /\ \A k \in Link : \A x \in inTransit'[k] : x \in inTransit[k] \/ (k = l /\ x = z)
      BY <1>1, <2>4, <3>1 DEF TypeOK
    <3>5. SentOnly(id, l, z)'
      BY <2>1, <2>2, <3>4 DEF SentOnly, NotSent
    <3>6. ~NotSent(id)'
      BY <3>2, <3>4 DEF NotSent
    <3> QED
      BY <3>3, <3>5, <3>6, LogSteps DEF OneCustodian, Present
  <2>5. CASE UNCHANGED <<trace, inTransit>> /\ dead' = dead \cup {<<"link", l>>}
    <3>1. NotSent(id)' /\ dead' # {}
      BY <2>2, <2>5 DEF NotSent
    <3> QED
      BY <2>1, <3>1 DEF OneCustodian
  <2> QED
    BY <1>5, <2>3, <2>4, <2>5
<1>14. ChannelsApart'
  BY <1>1, <1>3, <1>6, <1>8, <1>10 DEF ChannelsApart
<1>15. FreeIds'
  <2>1. ~(id >= nextId)
    BY <1>1, <1>8, <1>9, LogSteps DEF FreeIds
  <2> QED
    BY <1>1, <1>6, <1>11, <2>1 DEF FreeIds
<1>16. \A j \in Id : Good(j)
  BY <1>12, <1>13
<1> QED
  BY <1>14, <1>15, <1>16 DEF CustodyInv

LEMMA LinkTaskCustody ==
  ASSUME CustodyInv, TypeOK', NEW l \in Link, LinkTask(l)
  PROVE  CustodyInv'
<1>1. TypeOK
  BY DEF CustodyInv
<1>2. <<"link", l>> \notin dead
  BY DEF LinkTask, TakePacket, Discard, Resume, MayRun
<1>3. UNCHANGED linkTaskFrame
  BY <1>1, LinkTaskCases
<1>4. PICK o \in Outgoing :
        /\ ComesBy(l, o)
        /\ \/ LetsGo(l, o)
           \/ WaitPanics(l)
           \/ /\ o.channel \notin handled
              /\ \/ \E w \in Waiting, k \in Nat : Await(l, w, o, k)
                 \/ Transmit(l, o)
  BY <1>1, LinkTaskCases
<1>5. CASE \/ LetsGo(l, o) \/ WaitPanics(l)
           \/ \E w \in Waiting, k \in Nat : Await(l, w, o, k)
  BY <1>2, <1>3, <1>4, <1>5, WaitingCustody
<1>6. CASE o.channel \notin handled /\ Transmit(l, o)
  BY <1>2, <1>3, <1>4, <1>6, TransmitCustody
<1> QED
  BY <1>4, <1>5, <1>6

-----------------------------------------------------------------------------
(* The theorems.                                                            *)

LEMMA NextCustody == CustodyInv /\ [Next]_vars => CustodyInv'
<1> SUFFICES ASSUME CustodyInv, [Next]_vars
             PROVE  CustodyInv'
  OBVIOUS
<1>1. TypeOK /\ TypeOK'
  BY NextTypeOK DEF CustodyInv
<1>2. ASSUME \/ \E l \in Link : SetTimer(l)
             \/ Tick
             \/ UNCHANGED vars
      PROVE  LinksIdle /\ UNCHANGED <<outbound, inbound, inTransit, trace, dead, nextId>>
  BY <1>2 DEF SetTimer, Tick, vars, dispatchVars, taskVars, transitVars, packetVars, LinksIdle
<1>3. ASSUME NEW l, NEW up, LinkEvent(l, up)
      PROVE  LinksIdle /\ UNCHANGED <<outbound, inbound, inTransit, trace, dead, nextId>>
  BY <1>1, <1>3 DEF LinkEvent, dispatchVars, transitVars, packetVars, LinksIdle, Waiting, TypeOK
<1>4. ASSUME NEW n, NEW up, NEW clear, NodeEvent(n, up, clear)
      PROVE  LinksIdle /\ UNCHANGED <<outbound, inbound, inTransit, trace, dead, nextId>>
  BY <1>1, <1>4 DEF NodeEvent, dispatchVars, transitVars, packetVars, LinksIdle, Waiting, TypeOK
<1> QED
  BY <1>1, <1>2, <1>3, <1>4, CustodyFrame, HostSendCustody, HostReceiveCustody, DispatchCustody,
     LinkTaskCustody, DeliverNextCustody DEF Next, Forwarder

LEMMA InitCustody == Init => CustodyInv
<1> SUFFICES ASSUME Init
             PROVE  CustodyInv
  OBVIOUS
<1>1. TypeOK
  BY InitTypeOK
<1>2. /\ \A n \in Node : outbound[n] = <<>> /\ inbound[n] = {}
      /\ \A l \in Link : outgoing[l] = <<>> /\ pc[l] = "idle" /\ inTransit[l] = {}
      /\ handled = {} /\ \A id \in Id : trace[id] = NotBorn
  BY DEF Init, NotBorn
<1>3. \A n \in Node : Positions(n) = {}
  BY <1>2 DEF Positions
<1>4. \A l \in Link : Live(l) = {}
  BY <1>2 DEF Live, Held, Elements, Waiting
<1>5. \A id \in Id : NotStored(id) /\ NotSent(id)
  BY <1>2, <1>3, <1>4 DEF NotStored, NotQueued, NotOffered, NotReadable, NotSent
<1>6. \A id \in Id : OneCustodian(id) /\ Present(id)
  BY <1>2, <1>5, LogSteps DEF OneCustodian, Present
<1>7. ChannelsApart /\ FreeIds
  BY <1>2, <1>4 DEF ChannelsApart, FreeIds
<1> QED
  BY <1>1, <1>6, <1>7 DEF CustodyInv

LEMMA CustodianCases ==
  ASSUME NEW id, NEW c \in Custodians(id)
  PROVE  \/ \E n \in Node : \E i \in Positions(n) : QueuedId(n, i) = id /\ c = <<"outbound", n, i>>
         \/ \E l \in Link : \E o \in Live(l) : o.id = id /\ c = <<"pending", Source[l], o.channel>>
         \/ \E l \in Link : \E x \in inTransit[l] : x.id = id /\ c = <<"transit", l, x.sent>>
         \/ \E n \in Node : \E x \in inbound[n] : x.id = id /\ c = <<"inbound", n, x.arrival>>
<1>1. CASE c \in OutboundCustodians(id)
  <2>1. PICK n \in Node : \E i \in Queued(n, id) : c = <<"outbound", n, i>>
    BY <1>1 DEF OutboundCustodians
  <2> QED
    BY <2>1 DEF Queued, Positions, QueuedId
<1>2. CASE c \in PendingCustodians(id)
  <2>1. PICK n \in Node : \E o \in Pending(n) : o.id = id /\ c = <<"pending", n, o.channel>>
    BY <1>2 DEF PendingCustodians
  <2>2. PICK o \in Pending(n) : o.id = id /\ c = <<"pending", n, o.channel>>
    BY <2>1
  <2>3. \E l \in Link : Source[l] = n /\ o \in Live(l)
    BY DEF Pending, Live
  <2> QED
    BY <2>2, <2>3
<1>3. CASE c \in TransitCustodians(id)
  BY <1>3 DEF TransitCustodians
<1>4. CASE c \in InboundCustodians(id)
  BY <1>4 DEF InboundCustodians
<1> QED
  BY <1>1, <1>2, <1>3, <1>4 DEF Custodians

LEMMA SomeCustodian ==
  ASSUME NEW id, Custodians(id) = {}
  PROVE  NotStored(id) /\ NotSent(id)
<1>1. /\ OutboundCustodians(id) = {} /\ PendingCustodians(id) = {}
      /\ TransitCustodians(id) = {} /\ InboundCustodians(id) = {}
  BY DEF Custodians
<1>2. NotQueued(id)
  <2> SUFFICES ASSUME NEW n \in Node, NEW i \in Positions(n), QueuedId(n, i) = id
               PROVE  FALSE
    BY DEF NotQueued
  <2>1. i \in Queued(n, id)
    BY DEF Positions, QueuedId, Queued
  <2>2. <<"outbound", n, i>> \in OutboundCustodians(id)
    BY <2>1 DEF OutboundCustodians
  <2> QED
    BY <1>1, <2>2
<1>3. NotOffered(id)
  <2> SUFFICES ASSUME NEW l \in Link, NEW o \in Live(l), o.id = id
               PROVE  FALSE
    BY DEF NotOffered
  <2>1. Source[l] \in Node
    BY TopologyAssumption
  <2>2. o \in Pending(Source[l])
    BY DEF Pending, Live
  <2>3. <<"pending", Source[l], o.channel>> \in PendingCustodians(id)
    BY <2>1, <2>2 DEF PendingCustodians
  <2> QED
    BY <1>1, <2>3
<1>4. NotSent(id)
  <2> SUFFICES ASSUME NEW l \in Link, NEW x \in inTransit[l], x.id = id
               PROVE  FALSE
    BY DEF NotSent
  <2>1. <<"transit", l, x.sent>> \in TransitCustodians(id)
    BY DEF TransitCustodians
  <2> QED
    BY <1>1, <2>1
<1>5. NotReadable(id)
  <2> SUFFICES ASSUME NEW n \in Node, NEW x \in inbound[n], x.id = id
               PROVE  FALSE
    BY DEF NotReadable
  <2>1. <<"inbound", n, x.arrival>> \in InboundCustodians(id)
    BY DEF InboundCustodians
  <2> QED
    BY <1>1, <2>1
<1> QED
  BY <1>2, <1>3, <1>4, <1>5 DEF NotStored

LEMMA CustodyIsSingle ==
  ASSUME CustodyInv
  PROVE  SingleCustody
<1> SUFFICES ASSUME NEW id \in Id, NEW c \in Custodians(id), NEW d \in Custodians(id)
             PROVE  c = d
  BY DEF SingleCustody
<1>1. OneCustodian(id)
  BY DEF CustodyInv
<1>2. CASE \E n \in Node : \E i \in Positions(n) : QueuedId(n, i) = id /\ c = <<"outbound", n, i>>
  <2>1. PICK n \in Node : \E i \in Positions(n) : QueuedId(n, i) = id /\ c = <<"outbound", n, i>>
    BY <1>2
  <2>2. PICK i \in Positions(n) : QueuedId(n, i) = id /\ c = <<"outbound", n, i>>
    BY <2>1
  <2>3. QueuedOnly(id, n, i)
    BY <1>1, <2>2, WhenQueued
  <2> QED
    BY <2>2, <2>3, CustodianCases DEF QueuedOnly, NotOffered, NotSent, NotReadable
<1>3. CASE \E l \in Link : \E o \in Live(l) : o.id = id /\ c = <<"pending", Source[l], o.channel>>
  <2>1. PICK l \in Link : \E o \in Live(l) : o.id = id /\ c = <<"pending", Source[l], o.channel>>
    BY <1>3
  <2>2. PICK o \in Live(l) : o.id = id /\ c = <<"pending", Source[l], o.channel>>
    BY <2>1
  <2>3. OfferedOnly(id, Source[l], o.channel)
    BY <1>1, <2>2, WhenOffered
  <2> QED
    BY <2>2, <2>3, CustodianCases DEF OfferedOnly, NotQueued, NotSent, NotReadable
<1>4. CASE \E l \in Link : \E x \in inTransit[l] : x.id = id /\ c = <<"transit", l, x.sent>>
  <2>1. PICK l \in Link : \E x \in inTransit[l] : x.id = id /\ c = <<"transit", l, x.sent>>
    BY <1>4
  <2>2. PICK x \in inTransit[l] : x.id = id /\ c = <<"transit", l, x.sent>>
    BY <2>1
  <2>3. SentOnly(id, l, x)
    BY <1>1, <2>2, WhenSent
  <2> QED
    BY <2>2, <2>3, CustodianCases DEF SentOnly, NotStored, NotQueued, NotOffered, NotReadable
<1>5. CASE \E n \in Node : \E x \in inbound[n] : x.id = id /\ c = <<"inbound", n, x.arrival>>
  <2>1. PICK n \in Node : \E x \in inbound[n] : x.id = id /\ c = <<"inbound", n, x.arrival>>
    BY <1>5
  <2>2. PICK x \in inbound[n] : x.id = id /\ c = <<"inbound", n, x.arrival>>
    BY <2>1
  <2>3. ReadableOnly(id, n, x)
    BY <1>1, <2>2, WhenReadable
  <2> QED
    BY <2>2, <2>3, CustodianCases DEF ReadableOnly, NotQueued, NotOffered, NotSent
<1> QED
  BY <1>2, <1>3, <1>4, <1>5, CustodianCases

LEMMA CustodyIsLogged ==
  ASSUME CustodyInv
  PROVE  LogIsTruthful
<1>1. ASSUME NEW id \in Id, NEW c \in Custodians(id)
      PROVE  trace[id] = StepOf(c)
  <2>1. OneCustodian(id)
    BY DEF CustodyInv
  <2>2. \A n, i : StepOf(<<"outbound", n, i>>) = InNode(n)
    BY DEF StepOf, InNode
  <2>3. \A n, i : StepOf(<<"pending", n, i>>) = InNode(n)
    BY DEF StepOf, InNode
  <2>4. \A n, i : StepOf(<<"inbound", n, i>>) = InNode(n)
    BY DEF StepOf, InNode
  <2>5. \A l, i : StepOf(<<"transit", l, i>>) = InTransit(l)
    BY DEF StepOf, InTransit
  <2> QED
    BY <2>1, <2>2, <2>3, <2>4, <2>5, CustodianCases, WhenQueued, WhenOffered, WhenSent, WhenReadable
<1>2. ASSUME NEW id \in Id, dead = {}, trace[id].step \in {"InNode", "InTransit"}
      PROVE  Custodians(id) # {}
  BY <1>2, SomeCustodian DEF CustodyInv, Present
<1> QED
  BY <1>1, <1>2 DEF LogIsTruthful

\* A packet is never in two places, in every network: whichever links it is
\* offered to, whatever fails, and however often it is duplicated, one buffer,
\* one dispatch, one link or one socket has it (process_link_queue).
THEOREM CustodyStaysSingle == Spec => []SingleCustody
BY InitCustody, NextCustody, CustodyIsSingle, PTL DEF Spec

\* In every network the replay log names the custodian of every packet, and as
\* long as no task has died no packet vanishes from where the log shows it
\* (tracer.rs).
THEOREM LogStaysTruthful == Spec => []LogIsTruthful
BY InitCustody, NextCustody, CustodyIsLogged, PTL DEF Spec

=============================================================================
