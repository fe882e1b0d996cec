----------------------------- MODULE QuicProofs -----------------------------
(***************************************************************************)
(* Proofs about the `quic' command, for every command line, any number of  *)
(* connections and of probes: its types, the limits on its requests, that  *)
(* each request is made once, and that the result of the run is the truth. *)
(*                                                                         *)
(* None of these is inductive.  QuicInv says what a state of the driver    *)
(* implies, what the two ends of a connection know of each other, and that *)
(* the handles of the server's tasks and those joined are all there are.   *)
(***************************************************************************)
EXTENDS QuicSimulation, FiniteSetTheorems, SequenceTheorems, TLAPS

\* A probe is on its way, in the socket or read.
ProbesSent == \A w \in Way : probes[w].wire + probes[w].inbound <= round

Checked   == opt.check => \A w \in Way : probes[w].received
Validated == opt.interval => opt.streams = 1

\* What the driver has done in each of its states.
Phase ==
  /\ driver \in Way \cup {"validate", "probing", "verdict", "panicked"} => connTasks = 0
  /\ driver \notin {"validate", "Err", "panicked"} => Validated
  /\ driver \in {"starting", "joining", "draining", "Ok"} => Checked
  /\ connTasks > 0 => Validated /\ Checked /\ opt.conns <= MaxConnections
  /\ connTasks <= opt.conns
  /\ driver \in {"joining", "draining", "Ok"} => connTasks = opt.conns
  /\ driver \in {"draining", "Ok"} => joined = connTasks
  /\ driver \notin {"draining", "Ok", "Err"} => handled = 0
  /\ driver = "draining" => handled < connTasks \/ connTasks = 0
  /\ driver = "Ok" => connTasks > 0 /\ handled = connTasks
  /\ driver \in Way \cup {"probing", "verdict", "panicked"} => opt.check
  /\ driver = "Err" /\ connTasks > 0 => \E c \in Conn : Fault(c)

Started == \A c \in Conn : client[c] # "none" <=> c <= connTasks

AllOk == \A c \in 1..joined : client[c] = "Ok"

\* The server's tasks are those whose handles are queued and those joined, all
\* of which had ended well.
Accepted == {c \in Conn : server[c] # "none"}
Handles ==
  /\ \A i, j \in DOMAIN handles : handles[i] = handles[j] => i = j
  /\ \A i \in DOMAIN handles : handles[i] \in Accepted
  /\ \A c \in Accepted : server[c] = "Ok" \/ \E i \in DOMAIN handles : handles[i] = c
  /\ handled + Len(handles) = Cardinality(Accepted)

Budget == requestsLeft + Cardinality(Claims) = opt.requests

\* The client's side of a connection.
ClientSide(c) ==
  /\ client[c] \in {"none", "connecting"} => requests[c] = <<>>
  /\ client[c] = "none" => clientConn[c] = "none"
  /\ client[c] = "connecting" => clientConn[c] \in {"none", "dead"}
  /\ client[c] \in {"claiming", "acquiring", "sleeping", "joining"} => clientConn[c] \in {"open", "lost", "dead"}
  /\ client[c] = "Ok" => clientConn[c] \in {"closed", "lost"} /\ reqJoined[c] = Len(requests[c])
  /\ client[c] = "Err" => clientConn[c] \in {"none", "lost", "dead"}
  /\ client[c] \in {"joining", "Ok"} => requestsLeft = 0
  /\ client[c] = "sleeping" => opt.interval
  /\ \A i \in 1..reqJoined[c] : requests[c][i] = "Ok"
  /\ \A i \in DOMAIN requests[c] : requests[c][i] = "Err" => clientConn[c] \in {"lost", "dead"}

\* A claim is a request task or about to become one.
Claimed(c) ==
  claimed[c] = Len(requests[c]) + (IF client[c] \in {"acquiring", "sleeping"} THEN 1 ELSE 0)

Running(c) == {i \in DOMAIN requests[c] : requests[c][i] = "running"}

\* The permits are those of the requests under way and of the sleeper.
Permits(c) ==
  held[c] = Cardinality(Running(c)) + (IF client[c] = "sleeping" THEN 1 ELSE 0)

\* The streams of a connection: how far they can be, given its two ends.
StreamSide(c) ==
  /\ \A i \in Req : streams[c][i] # "none" => i \in DOMAIN requests[c]
  /\ \A i \in DOMAIN requests[c] : requests[c][i] = "Ok" => streams[c][i] \in {"answered", "unacked", "Ok"}
  /\ \A i \in Req : streams[c][i] = "Ok" => requests[c][i] = "Ok"
  /\ \A i \in Req : streams[c][i] \in {"Err", "unacked"} => serverConn[c] \in {"lost", "overtaken", "dead"}
  /\ \A i \in Req : streams[c][i] \in {"reading", "answered"} => serverConn[c] \notin {"none", "closed"}

\* The server's side.
ServerSide(c) ==
  /\ server[c] = "none" <=> serverConn[c] = "none"
  /\ server[c] # "none" => client[c] # "none"
  /\ serverConn[c] = "closed" => clientConn[c] = "closed" /\ server[c] # "handshaking"
  /\ server[c] \in {"Err", "panicked"} => serverConn[c] \in {"lost", "overtaken", "dead"}
  /\ server[c] \in {"closing", "Ok"} => /\ serverConn[c] # "open"
                                        /\ \A i \in Req : streams[c][i] \in {"none", "opened", "Ok"}
  /\ server[c] = "Ok" => serverConn[c] = "closed"

ConnInv(c) == ClientSide(c) /\ Claimed(c) /\ Permits(c) /\ StreamSide(c) /\ ServerSide(c)

QuicInv ==
  /\ TypeOK /\ ProbesSent /\ Phase /\ Started /\ AllOk /\ Handles /\ Budget
  /\ \A c \in Conn : ConnInv(c)

-----------------------------------------------------------------------------

LEMMA OptionTypes ==
  ASSUME TypeOK
  PROVE  /\ opt \in Options
         /\ opt.conns \in Nat /\ opt.streams \in Nat /\ opt.requests \in Nat
         /\ opt.interval \in BOOLEAN /\ opt.check \in BOOLEAN
         /\ MaxConnections \in Nat /\ Rounds \in Nat
  BY QuicAssumption DEF TypeOK

\* The options never change.
LEMMA OptionsStay == [Next]_vars => opt' = opt
<1> SUFFICES ASSUME [Next]_vars PROVE opt' = opt
  OBVIOUS
<1>1. CASE Check
  BY <1>1 DEF Check, Validate, Probe, ProbePanics, Probed, Verdict, ProbeArrives, AwaitProbe, InCheck
<1>2. CASE Driver
  BY <1>2 DEF Driver, TooMany, AllStarted, JoinConnection, AllJoined, DrainHandle, Start, InCheck, InDriver
<1>3. ASSUME NEW c \in Conn, ClientTask(c) \/ Client(c) \/ ClientDies(c) PROVE opt' = opt
  BY <1>3 DEF ClientTask, Client, Connected, ConnectFails, Claim, Acquire, IntervalEnds, JoinRequest,
              Close, ClientLoses, ClientDies, OpenStream, RequestEnds, InClient, InServer
<1>4. ASSUME NEW c \in Conn, Server(c) \/ ServerDies(c) PROVE opt' = opt
  BY <1>4 DEF Server, Accept, Handshaken, HandshakeFails, JoinStreams, Closed, CloseArrives,
              ServerLoses, ServerDies, AcceptStream, Answer, Acknowledged, StreamFails, InServer
<1> QED
  BY <1>1, <1>2, <1>3, <1>4 DEF Next, vars

\* A connection that a step does not touch; requests may be claimed elsewhere.
LEMMA ConnFrame ==
  ASSUME NEW c \in Conn, ConnInv(c), opt' = opt, requestsLeft' = requestsLeft \/ requestsLeft # 0,
         client'[c] = client[c], claimed'[c] = claimed[c], held'[c] = held[c],
         requests'[c] = requests[c], reqJoined'[c] = reqJoined[c], clientConn'[c] = clientConn[c],
         server'[c] = server[c], streams'[c] = streams[c], serverConn'[c] = serverConn[c]
  PROVE  ConnInv(c)'
<1>1. ClientSide(c)'
  BY DEF ConnInv, ClientSide
<1>2. Claimed(c)'
  BY DEF ConnInv, Claimed
<1>3. Permits(c)'
  <2>1. Running(c)' = Running(c)
    BY DEF Running
  <2> QED
    BY <2>1 DEF ConnInv, Permits
<1>4. StreamSide(c)'
  BY DEF ConnInv, StreamSide, Req
<1>5. ServerSide(c)'
  BY DEF ConnInv, ServerSide, Req
<1> QED
  BY <1>1, <1>2, <1>3, <1>4, <1>5 DEF ConnInv

\* What a step of the driver that starts and joins nothing leaves alone.
LEMMA TasksFrame ==
  ASSUME QuicInv, InCheck
  PROVE  /\ Started' /\ AllOk' /\ Handles' /\ Budget' /\ \A c \in Conn : ConnInv(c)'
         /\ opt' = opt /\ connTasks' = connTasks /\ joined' = joined /\ handled' = handled
         /\ \A c \in Conn : Fault(c)' = Fault(c)
<1>1. /\ opt' = opt /\ connTasks' = connTasks /\ joined' = joined /\ handled' = handled
      /\ requestsLeft' = requestsLeft /\ client' = client /\ claimed' = claimed /\ held' = held
      /\ requests' = requests /\ reqJoined' = reqJoined /\ clientConn' = clientConn
      /\ server' = server /\ streams' = streams /\ serverConn' = serverConn /\ handles' = handles
  BY DEF InCheck, driverVars, clientVars, serverVars
<1>2. \A c \in Conn : ConnInv(c)'
  BY <1>1, ConnFrame DEF QuicInv
<1>3. Started' /\ AllOk'
  BY <1>1 DEF QuicInv, Started, AllOk
<1>4. Handles'
  <2>1. Accepted' = Accepted
    BY <1>1 DEF Accepted
  <2> QED
    BY <1>1, <2>1 DEF QuicInv, Handles
<1>5. Budget'
  <2>1. Claims' = Claims
    BY <1>1 DEF Claims, Req
  <2> QED
    BY <1>1, <2>1 DEF QuicInv, Budget
<1>6. \A c \in Conn : Fault(c)' = Fault(c)
  BY <1>1 DEF Fault
<1> QED
  BY <1>1, <1>2, <1>3, <1>4, <1>5, <1>6

\* Types of the tasks' state, which only their own steps change.
LEMMA TypesFrame ==
  ASSUME TypeOK, InCheck,
         driver' \in Final \cup Way \cup {"validate", "probing", "verdict", "starting", "joining", "draining"},
         round' \in 0..Rounds, unrouted' \subseteq opt.fragile, ended' \subseteq opt.fragile,
         probes' \in [Way -> [wire: 0..Rounds, inbound: 0..Rounds, received: BOOLEAN]]
  PROVE  TypeOK'
<1>1. /\ opt' = opt /\ connTasks' = connTasks /\ joined' = joined /\ handled' = handled
      /\ requestsLeft' = requestsLeft /\ client' = client /\ claimed' = claimed /\ held' = held
      /\ requests' = requests /\ reqJoined' = reqJoined /\ clientConn' = clientConn
      /\ server' = server /\ streams' = streams /\ serverConn' = serverConn /\ handles' = handles
  BY DEF InCheck, driverVars, clientVars, serverVars
<1> QED
  BY <1>1 DEF TypeOK, Req

\* What the invariant says of the driver's own state, with its types.
LEMMA DriverFacts ==
  ASSUME QuicInv
  PROVE  /\ TypeOK /\ ProbesSent /\ Phase /\ Started /\ AllOk /\ Handles /\ Budget
         /\ \A c \in Conn : ConnInv(c)
         /\ connTasks \in Nat /\ joined \in Nat /\ handled \in Nat /\ joined <= connTasks
         /\ connTasks <= MaxConnections /\ handled <= connTasks
         /\ opt.conns \in Nat /\ MaxConnections \in Nat
         /\ handles \in Seq(Conn) /\ \A c \in Conn : c \in Nat /\ c >= 1
  BY OptionTypes DEF QuicInv, TypeOK, Conn

\* The steps before the connections, and those between two of the driver's loops.
LEMMA CheckInv ==
  ASSUME QuicInv, Check \/ TooMany \/ AllStarted \/ AllJoined
  PROVE  QuicInv'
<1>1. InCheck
  BY DEF Check, Validate, Probe, ProbePanics, Probed, Verdict, ProbeArrives, AwaitProbe, TooMany,
         AllStarted, AllJoined
<1>2. /\ Started' /\ AllOk' /\ Handles' /\ Budget' /\ \A c \in Conn : ConnInv(c)'
      /\ opt' = opt /\ connTasks' = connTasks /\ joined' = joined /\ handled' = handled
      /\ \A c \in Conn : Fault(c)' = Fault(c)
  BY <1>1, TasksFrame
<1>3. /\ TypeOK /\ ProbesSent /\ Phase
      /\ round \in 0..Rounds /\ unrouted \subseteq opt.fragile /\ ended \subseteq opt.fragile
      /\ probes \in [Way -> [wire: 0..Rounds, inbound: 0..Rounds, received: BOOLEAN]]
      /\ driver \in Final \cup Way \cup {"validate", "probing", "verdict", "starting", "joining", "draining"}
      /\ connTasks \in Nat /\ joined \in Nat /\ handled \in Nat
  <2>1. TypeOK /\ ProbesSent /\ Phase
    BY DEF QuicInv
  <2>2. connTasks \in Nat /\ joined \in Nat /\ handled \in Nat
    BY DriverFacts
  <2> QED
    BY <2>1, <2>2 DEF TypeOK
<1>4. /\ opt.conns \in Nat /\ opt.streams \in Nat
      /\ opt.interval \in BOOLEAN /\ opt.check \in BOOLEAN
      /\ MaxConnections \in Nat /\ Rounds \in Nat
  BY <1>3, OptionTypes
<1>5. ASSUME TypeOK', ProbesSent', Phase'
      PROVE  QuicInv'
  BY <1>2, <1>5 DEF QuicInv
<1>6. ASSUME UNCHANGED checkVars
      PROVE  ProbesSent' /\ UNCHANGED <<round, probes, unrouted, ended>>
  BY <1>3, <1>6 DEF ProbesSent, checkVars
<1>7. CASE Validate
  <2>1. ProbesSent' /\ UNCHANGED <<round, probes, unrouted, ended>>
    BY <1>6, <1>7 DEF Validate
  <2>2. driver = "validate" /\ driver' \in {"Err", "probing", "starting"}
        /\ (driver' # "Err" => Validated) /\ (driver' = "starting" => ~opt.check)
        /\ (driver' = "probing" => opt.check)
    BY <1>4, <1>7 DEF Validate, Validated
  <2>3. TypeOK'
    BY <1>1, <1>3, <2>1, <2>2, TypesFrame DEF Final
  <2>4. Phase'
    BY <1>2, <1>3, <1>4, <2>1, <2>2 DEF Phase, Checked, Validated, Way
  <2> QED
    BY <1>5, <2>1, <2>3, <2>4
<1>8. CASE Probe
  <2>1. driver = "probing" /\ driver' = driver /\ round' = round + 1 /\ round < Rounds
        /\ unrouted' = unrouted /\ ended' \subseteq opt.fragile
    BY <1>8 DEF Probe
  <2>2. \A w \in Way : /\ probes'[w].received = probes[w].received
                       /\ probes'[w].inbound = probes[w].inbound
                       /\ probes'[w].wire \in {probes[w].wire, probes[w].wire + 1}
    BY <1>3, <1>8 DEF Probe
  <2>3. ProbesSent'
    BY <1>3, <1>4, <2>1, <2>2 DEF ProbesSent
  <2>4. probes' \in [Way -> [wire: 0..Rounds, inbound: 0..Rounds, received: BOOLEAN]]
    <3>1. \A w \in Way : probes[w].wire + 1 \in 0..Rounds
      <4>1. ASSUME NEW w \in Way PROVE probes[w].wire + 1 \in 0..Rounds
        <5>1. probes[w].wire \in Nat /\ probes[w].inbound \in Nat /\ round \in Nat
          BY <1>3
        <5>2. probes[w].wire + probes[w].inbound <= round
          BY <1>3 DEF ProbesSent
        <5> QED
          BY <1>4, <2>1, <5>1, <5>2
      <4> QED
        BY <4>1
    <3> QED
      BY <1>3, <1>8, <3>1 DEF Probe
  <2>5. TypeOK'
    BY <1>1, <1>3, <1>4, <2>1, <2>4, TypesFrame
  <2>6. Phase'
    BY <1>2, <1>3, <2>1 DEF Phase, Validated, Way
  <2> QED
    BY <1>5, <2>3, <2>5, <2>6
<1>9. CASE ProbePanics
  <2>1. ProbesSent' /\ UNCHANGED <<round, probes, unrouted, ended>>
    BY <1>6, <1>9 DEF ProbePanics
  <2>2. driver = "probing" /\ driver' = "panicked"
    BY <1>3, <1>9 DEF ProbePanics
  <2>3. TypeOK'
    BY <1>1, <1>3, <2>1, <2>2, TypesFrame DEF Final
  <2>4. Phase'
    BY <1>2, <1>3, <2>1, <2>2 DEF Phase, Way
  <2> QED
    BY <1>5, <2>1, <2>3, <2>4
<1>10. ASSUME NEW w \in Way, ProbeArrives(w) \/ AwaitProbe(w)
       PROVE  QuicInv'
  <2>1. /\ driver \in {"probing", "a_to_b", "b_to_a"}
        /\ driver' \in {"probing", "a_to_b", "b_to_a", "verdict"}
        /\ round' = round /\ unrouted' = unrouted /\ ended' = ended
    BY <1>10 DEF ProbeArrives, AwaitProbe, NextWay, Way
  <2>2. \A v \in Way : /\ probes[v].wire \in 0..Rounds /\ probes[v].inbound \in 0..Rounds
                       /\ probes[v].wire + probes[v].inbound <= round
    BY <1>3 DEF ProbesSent
  <2>3. CASE ProbeArrives(w)
    <3>1. probes[w].wire > 0 /\ probes[w] \in [wire: 0..Rounds, inbound: 0..Rounds, received: BOOLEAN]
      BY <1>3, <2>3 DEF ProbeArrives
    <3>2. probes[w].wire - 1 \in 0..Rounds /\ probes[w].inbound + 1 \in 0..Rounds
      BY <1>3, <1>4, <2>2, <3>1
    <3>3. PICK p : p = [probes[w] EXCEPT !.wire = @ - 1, !.inbound = @ + 1]
      OBVIOUS
    <3>4. /\ p \in [wire: 0..Rounds, inbound: 0..Rounds, received: BOOLEAN]
          /\ p.wire = probes[w].wire - 1 /\ p.inbound = probes[w].inbound + 1
      BY <3>1, <3>2, <3>3
    <3>5. probes' = [probes EXCEPT ![w] = p]
      BY <1>3, <2>3, <3>3 DEF ProbeArrives
    <3>6. probes' \in [Way -> [wire: 0..Rounds, inbound: 0..Rounds, received: BOOLEAN]]
      BY <1>3, <3>4, <3>5
    <3>7. ProbesSent'
      BY <1>3, <2>1, <2>2, <3>4, <3>5 DEF ProbesSent
    <3>8. TypeOK'
      BY <1>1, <1>3, <2>1, <3>6, TypesFrame DEF Way
    <3>9. Phase'
      BY <1>2, <1>3, <2>1 DEF Phase, Validated, Way
    <3> QED
      BY <1>5, <3>7, <3>8, <3>9
  <2>4. CASE AwaitProbe(w)
    <3>1. CASE probes' = probes
      <4>1. ProbesSent'
        BY <1>3, <2>1, <3>1 DEF ProbesSent
      <4>2. TypeOK'
        BY <1>1, <1>3, <2>1, <3>1, TypesFrame DEF Way
      <4>3. Phase'
        BY <1>2, <1>3, <2>1 DEF Phase, Validated, Way
      <4> QED
        BY <1>5, <4>1, <4>2, <4>3
    <3>2. CASE probes[w].inbound > 0 /\ probes' = [probes EXCEPT ![w].inbound = @ - 1, ![w].received = TRUE]
      <4>1. probes[w] \in [wire: 0..Rounds, inbound: 0..Rounds, received: BOOLEAN]
        BY <1>3
      <4>2. probes[w].inbound - 1 \in 0..Rounds
        BY <1>4, <2>2, <3>2
      <4>3. PICK p : p = [probes[w] EXCEPT !.inbound = @ - 1, !.received = TRUE]
        OBVIOUS
      <4>4. /\ p \in [wire: 0..Rounds, inbound: 0..Rounds, received: BOOLEAN]
            /\ p.wire = probes[w].wire /\ p.inbound = probes[w].inbound - 1
        BY <4>1, <4>2, <4>3
      <4>5. probes' = [probes EXCEPT ![w] = p]
        BY <1>3, <3>2, <4>3
      <4>6. probes' \in [Way -> [wire: 0..Rounds, inbound: 0..Rounds, received: BOOLEAN]]
        BY <1>3, <4>4, <4>5
      <4>7. ProbesSent'
        BY <1>3, <2>1, <2>2, <4>4, <4>5 DEF ProbesSent
      <4>8. TypeOK'
        BY <1>1, <1>3, <2>1, <4>6, TypesFrame DEF Way
      <4>9. Phase'
        BY <1>2, <1>3, <2>1 DEF Phase, Validated, Way
      <4> QED
        BY <1>5, <4>7, <4>8, <4>9
    <3> QED
      BY <2>4, <3>1, <3>2 DEF AwaitProbe
  <2> QED
    BY <1>10, <2>3, <2>4
<1>11. CASE Probed \/ Verdict
  <2>1. ProbesSent' /\ UNCHANGED <<round, probes, unrouted, ended>>
    BY <1>6, <1>11 DEF Probed, Verdict
  <2>2. driver \in {"probing", "verdict"} /\ driver' \in {"a_to_b", "starting", "Err"}
        /\ (driver' = "starting" => \A w \in Way : probes[w].received)
    BY <1>11 DEF Probed, Verdict
  <2>3. TypeOK'
    BY <1>1, <1>3, <2>1, <2>2, TypesFrame DEF Final, Way
  <2>4. Phase'
    BY <1>2, <1>3, <2>1, <2>2 DEF Phase, Checked, Validated, Way
  <2> QED
    BY <1>5, <2>1, <2>3, <2>4
<1>12. CASE TooMany \/ AllStarted \/ AllJoined
  <2>1. ProbesSent' /\ UNCHANGED <<round, probes, unrouted, ended>>
    BY <1>6, <1>12 DEF TooMany, AllStarted, AllJoined
  <2>2. \/ driver = "starting" /\ driver' = "Err" /\ opt.conns > MaxConnections
        \/ driver = "starting" /\ driver' = "joining" /\ connTasks = opt.conns
        \/ driver = "joining" /\ driver' = "draining" /\ joined = connTasks
    BY <1>12 DEF TooMany, AllStarted, AllJoined
  <2>3. TypeOK'
    BY <1>1, <1>3, <2>1, <2>2, TypesFrame DEF Final
  <2>4. Phase'
    BY <1>2, <1>3, <1>4, <2>1, <2>2 DEF Phase, Checked, Validated, Way
  <2> QED
    BY <1>5, <2>1, <2>3, <2>4
<1> QED
  BY <1>7, <1>8, <1>9, <1>10, <1>11, <1>12 DEF Check

\* Nothing that a connection's invariant speaks of changes.
LEMMA ConnsFrame ==
  ASSUME QuicInv, UNCHANGED <<opt, requestsLeft, clientVars, server, streams, serverConn>>
  PROVE  \A c \in Conn : ConnInv(c)' /\ Fault(c)' = Fault(c)
<1>1. /\ opt' = opt /\ requestsLeft' = requestsLeft /\ client' = client /\ claimed' = claimed
      /\ held' = held /\ requests' = requests /\ reqJoined' = reqJoined /\ clientConn' = clientConn
      /\ server' = server /\ streams' = streams /\ serverConn' = serverConn
  BY DEF clientVars
<1>2. \A c \in Conn : ConnInv(c)'
  BY <1>1, ConnFrame DEF QuicInv
<1> QED
  BY <1>1, <1>2 DEF Fault

LEMMA StartInv ==
  ASSUME QuicInv, NEW c \in Conn, Start(c)
  PROVE  QuicInv'
<1>1. /\ TypeOK /\ ProbesSent /\ Phase /\ Started /\ AllOk /\ Handles /\ Budget
      /\ \A d \in Conn : ConnInv(d)
      /\ connTasks \in Nat /\ joined \in Nat /\ handled \in Nat /\ joined <= connTasks
      /\ opt.conns \in Nat /\ MaxConnections \in Nat /\ \A d \in Conn : d \in Nat /\ d >= 1
      /\ handled <= connTasks
  BY DriverFacts
<1>2. /\ driver = "starting" /\ opt.conns <= MaxConnections /\ c = connTasks + 1 /\ c <= opt.conns
      /\ connTasks' = c /\ client' = [client EXCEPT ![c] = "connecting"]
      /\ UNCHANGED <<opt, driver, round, probes, unrouted, ended, joined, handled, requestsLeft, claimed,
                     held, requests, reqJoined, clientConn, server, streams, serverConn, handles>>
  BY DEF Start, checkVars, serverVars
<1>3. client[c] = "none"
  BY <1>1, <1>2 DEF Started
<1>4. client \in [Conn -> {"none", "connecting", "claiming", "acquiring", "sleeping", "joining", "Ok", "Err"}]
  BY <1>1 DEF TypeOK
<1>5. TypeOK'
  <2>1. connTasks' \in 0..MaxConnections /\ joined' \in 0..connTasks' /\ handled' \in 0..connTasks'
    BY <1>1, <1>2
  <2>2. client' \in [Conn -> {"none", "connecting", "claiming", "acquiring", "sleeping", "joining", "Ok", "Err"}]
    BY <1>2, <1>4
  <2> QED
    BY <1>1, <1>2, <2>1, <2>2 DEF TypeOK, Req
<1>6. ProbesSent' /\ Budget'
  <2>1. Claims' = Claims
    BY <1>2 DEF Claims, Req
  <2> QED
    BY <1>1, <1>2, <2>1 DEF ProbesSent, Budget
<1>7. Phase'
  BY <1>1, <1>2 DEF Phase, Validated, Checked, Way
<1>8. Started'
  BY <1>1, <1>2, <1>4 DEF Started
<1>9. AllOk'
  <2>1. \A d \in 1..joined : d \in Conn /\ d # c
    BY <1>1, <1>2 DEF Conn
  <2> QED
    BY <1>1, <1>2, <1>4, <2>1 DEF AllOk
<1>10. Handles'
  <2>1. Accepted' = Accepted
    BY <1>2 DEF Accepted
  <2> QED
    BY <1>1, <1>2, <2>1 DEF Handles
<1>11. ASSUME NEW d \in Conn PROVE ConnInv(d)'
  <2>1. CASE d # c
    BY <1>1, <1>2, <1>4, <2>1, ConnFrame
  <2>2. CASE d = c
    <3>1. client'[c] = "connecting"
      BY <1>2, <1>4
    <3>2. Running(c)' = Running(c)
      BY <1>2 DEF Running
    <3>3. ClientSide(c)'
      BY <1>1, <1>2, <1>3, <3>1 DEF ConnInv, ClientSide
    <3>4. Claimed(c)' /\ Permits(c)'
      BY <1>1, <1>2, <1>3, <3>1, <3>2 DEF ConnInv, Claimed, Permits
    <3>5. StreamSide(c)' /\ ServerSide(c)'
      BY <1>1, <1>2, <1>3, <3>1 DEF ConnInv, StreamSide, ServerSide, Req
    <3> QED
      BY <2>2, <3>3, <3>4, <3>5 DEF ConnInv
  <2> QED
    BY <2>1, <2>2
<1> QED
  BY <1>5, <1>6, <1>7, <1>8, <1>9, <1>10, <1>11 DEF QuicInv

LEMMA JoinConnectionInv ==
  ASSUME QuicInv, JoinConnection
  PROVE  QuicInv'
<1>1. /\ TypeOK /\ ProbesSent /\ Phase /\ Started /\ AllOk /\ Handles /\ Budget
      /\ \A d \in Conn : ConnInv(d)
      /\ connTasks \in Nat /\ joined \in Nat /\ handled \in Nat /\ joined <= connTasks
      /\ connTasks <= MaxConnections /\ handled <= connTasks
      /\ opt.conns \in Nat /\ MaxConnections \in Nat
  BY DriverFacts
<1>2. /\ driver = "joining" /\ joined < connTasks
      /\ UNCHANGED <<opt, round, probes, unrouted, ended, connTasks, handled, requestsLeft, client, claimed,
                     held, requests, reqJoined, clientConn, server, streams, serverConn, handles>>
  BY DEF JoinConnection, InDriver, checkVars, clientVars
<1>3. \A c \in Conn : ConnInv(c)' /\ Fault(c)' = Fault(c)
  BY ConnsFrame DEF JoinConnection, InDriver
<1>4. joined + 1 \in Conn
  BY <1>1, <1>2 DEF Conn
<1>5. ProbesSent' /\ Budget' /\ Started' /\ Handles'
  <2>1. Claims' = Claims /\ Accepted' = Accepted
    BY <1>2 DEF Claims, Req, Accepted
  <2> QED
    BY <1>1, <1>2, <2>1 DEF ProbesSent, Budget, Started, Handles
<1>6. CASE client[joined + 1] = "Ok" /\ joined' = joined + 1 /\ driver' = driver
  <2>1. TypeOK'
    <3>1. joined' \in 0..connTasks'
      BY <1>1, <1>2, <1>6
    <3> QED
      BY <1>1, <1>2, <1>6, <3>1 DEF TypeOK, Req
  <2>2. Phase'
    BY <1>1, <1>2, <1>6 DEF Phase, Validated, Checked, Way
  <2>3. AllOk'
    <3>1. \A d \in 1..(joined + 1) : d \in 1..joined \/ d = joined + 1
      BY <1>1
    <3> QED
      BY <1>1, <1>2, <1>6, <3>1 DEF AllOk
  <2> QED
    BY <1>3, <1>5, <2>1, <2>2, <2>3 DEF QuicInv
<1>7. CASE client[joined + 1] = "Err" /\ driver' = "Err" /\ joined' = joined
  <2>1. TypeOK'
    BY <1>1, <1>2, <1>7 DEF TypeOK, Req, Final
  <2>2. Fault(joined + 1)
    BY <1>1, <1>4, <1>7 DEF ConnInv, ClientSide, Fault
  <2>3. \E c \in Conn : Fault(c)'
    BY <1>3, <1>4, <2>2
  <2>4. Phase'
    BY <1>1, <1>2, <1>7, <2>3 DEF Phase, Validated, Checked, Way
  <2>5. AllOk'
    BY <1>1, <1>2, <1>7 DEF AllOk
  <2> QED
    BY <1>3, <1>5, <2>1, <2>4, <2>5 DEF QuicInv
<1> QED
  BY <1>6, <1>7 DEF JoinConnection

LEMMA DrainHandleInv ==
  ASSUME QuicInv, DrainHandle
  PROVE  QuicInv'
<1>1. /\ TypeOK /\ ProbesSent /\ Phase /\ Started /\ AllOk /\ Handles /\ Budget
      /\ \A d \in Conn : ConnInv(d)
      /\ connTasks \in Nat /\ joined \in Nat /\ handled \in Nat /\ joined <= connTasks
      /\ connTasks <= MaxConnections /\ handled <= connTasks
      /\ opt.conns \in Nat /\ MaxConnections \in Nat
      /\ handles \in Seq(Conn) /\ \A c \in Conn : c \in Nat /\ c >= 1
  BY DriverFacts
<1>2. /\ driver = "draining" /\ handles # <<>>
      /\ UNCHANGED <<opt, round, probes, unrouted, ended, connTasks, joined, requestsLeft, client, claimed,
                     held, requests, reqJoined, clientConn, server, streams, serverConn>>
  BY DEF DrainHandle, InDriver, checkVars, clientVars
<1>3. \A d \in Conn : ConnInv(d)' /\ Fault(d)' = Fault(d)
  BY ConnsFrame DEF DrainHandle, InDriver
<1>4. PICK c : c = Head(handles)
  OBVIOUS
<1>5. c \in Conn /\ 1 \in DOMAIN handles /\ c = handles[1]
  BY <1>1, <1>2, <1>4
<1>6. c \in Accepted /\ connTasks >= 1 /\ handled < connTasks
  <2>1. c \in Accepted
    BY <1>1, <1>5 DEF Handles
  <2>2. client[c] # "none"
    BY <1>1, <1>5, <2>1 DEF ConnInv, ServerSide, Accepted
  <2>3. c <= connTasks
    BY <1>1, <1>5, <2>2 DEF Started
  <2> QED
    BY <1>1, <1>2, <1>5, <2>1, <2>3 DEF Phase
<1>7. ProbesSent' /\ Budget' /\ Started' /\ AllOk' /\ Accepted' = Accepted
  <2>1. Claims' = Claims /\ Accepted' = Accepted
    BY <1>2 DEF Claims, Req, Accepted
  <2> QED
    BY <1>1, <1>2, <2>1 DEF ProbesSent, Budget, Started, AllOk
<1>8. CASE /\ server[c] = "Ok" /\ handles' = Tail(handles) /\ handled' = handled + 1
           /\ driver' = IF Drained(handled') THEN "Ok" ELSE driver
  <2>1. handled' \in 0..connTasks' /\ (Drained(handled') <=> handled' = connTasks)
    BY <1>1, <1>2, <1>6, <1>8 DEF Drained
  <2>2. /\ handles' \in Seq(Conn) /\ Len(handles') = Len(handles) - 1 /\ Len(handles) \in Nat
        /\ DOMAIN handles' = 1..(Len(handles) - 1) /\ DOMAIN handles = 1..Len(handles)
        /\ \A i \in DOMAIN handles' : i + 1 \in DOMAIN handles /\ handles'[i] = handles[i + 1]
    BY <1>1, <1>2, <1>8
  <2>3. TypeOK'
    BY <1>1, <1>2, <1>8, <2>1, <2>2 DEF TypeOK, Req, Final
  <2>4. Phase'
    <3>1. driver' \in {"Ok", "draining"}
      BY <1>2, <1>8
    <3>2. driver' = "Ok" => handled' = connTasks
      BY <1>2, <1>8, <2>1
    <3>3. driver' = "draining" => handled' < connTasks
      BY <1>1, <1>2, <1>6, <1>8, <2>1
    <3> QED
      BY <1>1, <1>2, <1>6, <3>1, <3>2, <3>3 DEF Phase, Validated, Checked, Way
  <2>5. Handles'
    <3>1. \A i, j \in DOMAIN handles' : handles'[i] = handles'[j] => i = j
      <4>1. ASSUME NEW i \in DOMAIN handles', NEW j \in DOMAIN handles', handles'[i] = handles'[j]
            PROVE  i = j
        <5>1. i + 1 = j + 1
          BY <1>1, <2>2, <4>1 DEF Handles
        <5> QED
          BY <2>2, <5>1
      <4> QED
        BY <4>1
    <3>2. \A i \in DOMAIN handles' : handles'[i] \in Accepted'
      BY <1>1, <1>7, <2>2 DEF Handles
    <3>3. ASSUME NEW d \in Accepted, server[d] # "Ok"
          PROVE  \E i \in DOMAIN handles' : handles'[i] = d
      <4>1. PICK j \in DOMAIN handles : handles[j] = d
        BY <1>1, <3>3 DEF Handles
      <4>2. j # 1
        BY <1>5, <1>8, <3>3, <4>1
      <4>3. j - 1 \in DOMAIN handles' /\ j \in Nat
        BY <2>2, <4>1, <4>2
      <4>4. handles'[j - 1] = handles[(j - 1) + 1] /\ (j - 1) + 1 = j
        BY <2>2, <4>3
      <4> QED
        BY <4>1, <4>3, <4>4
    <3>4. handled' + Len(handles') = handled + Len(handles)
      BY <1>1, <1>8, <2>2
    <3>5. \A d \in Accepted' : server'[d] = "Ok" \/ \E i \in DOMAIN handles' : handles'[i] = d
      BY <1>2, <1>7, <3>3
    <3> QED
      BY <1>1, <1>7, <3>1, <3>2, <3>4, <3>5 DEF Handles
  <2> QED
    BY <1>3, <1>7, <2>3, <2>4, <2>5 DEF QuicInv
<1>9. CASE server[c] \in {"Err", "panicked"} /\ driver' = "Err" /\ UNCHANGED <<handled, handles>>
  <2>1. TypeOK'
    BY <1>1, <1>2, <1>9 DEF TypeOK, Req, Final
  <2>2. Fault(c)'
    BY <1>1, <1>3, <1>5, <1>9 DEF ConnInv, ServerSide, Fault
  <2>3. Phase'
    BY <1>1, <1>2, <1>5, <1>9, <2>2 DEF Phase, Validated, Checked, Way
  <2>4. Handles'
    BY <1>1, <1>2, <1>7, <1>9 DEF Handles
  <2> QED
    BY <1>3, <1>7, <2>1, <2>3, <2>4 DEF QuicInv
<1> QED
  BY <1>4, <1>8, <1>9 DEF DrainHandle

-----------------------------------------------------------------------------
(* The steps of a client connection and of its request tasks.               *)

ClientState == {"none", "connecting", "claiming", "acquiring", "sleeping", "joining", "Ok", "Err"}
StreamState == {"none", "opened", "reading", "answered", "unacked", "Ok", "Err"}

\* A step of one connection's client is right if it is for that connection.
LEMMA ClientStep ==
  ASSUME QuicInv, NEW c \in Conn, InClient, TypeOK', Budget', ConnInv(c)',
         client[c] # "none", client'[c] # "none", client[c] = "Ok" => client'[c] = "Ok",
         requestsLeft' = requestsLeft \/ requestsLeft # 0,
         \A d \in Conn \ {c} :
           /\ client'[d] = client[d] /\ claimed'[d] = claimed[d] /\ held'[d] = held[d]
           /\ requests'[d] = requests[d] /\ reqJoined'[d] = reqJoined[d] /\ clientConn'[d] = clientConn[d]
  PROVE  QuicInv'
<1>1. /\ TypeOK /\ ProbesSent /\ Phase /\ Started /\ AllOk /\ Handles
      /\ \A d \in Conn : ConnInv(d)
      /\ joined \in Nat /\ joined <= connTasks /\ connTasks \in Nat
      /\ connTasks <= MaxConnections /\ MaxConnections \in Nat
  BY DriverFacts
<1>2. /\ driver \notin Final
      /\ UNCHANGED <<opt, driver, round, probes, unrouted, ended, connTasks, joined, handled,
                     server, streams, serverConn, handles>>
  BY DEF InClient, Up, checkVars, driverVars, serverVars
<1>3. \A d \in Conn \ {c} : ConnInv(d)'
  BY <1>1, <1>2, ConnFrame
<1>4. ProbesSent'
  BY <1>1, <1>2 DEF ProbesSent
<1>5. Phase'
  BY <1>1, <1>2 DEF Phase, Validated, Checked, Final
<1>6. Started'
  BY <1>1, <1>2 DEF Started
<1>7. AllOk'
  <2>1. \A d \in 1..joined : d \in Conn
    BY <1>1 DEF Conn
  <2> QED
    BY <1>1, <1>2, <2>1 DEF AllOk
<1>8. Handles'
  <2>1. Accepted' = Accepted
    BY <1>2 DEF Accepted
  <2> QED
    BY <1>1, <1>2, <2>1 DEF Handles
<1> QED
  BY <1>3, <1>4, <1>5, <1>6, <1>7, <1>8 DEF QuicInv

LEMMA ClientTypes ==
  ASSUME TypeOK, InClient, requestsLeft' \in 0..opt.requests, client' \in [Conn -> ClientState],
         claimed' \in [Conn -> 0..opt.requests], held' \in [Conn -> 0..opt.streams],
         requests' \in [Conn -> Seq(TaskState)], reqJoined' \in [Conn -> Nat],
         \A c \in Conn : reqJoined'[c] <= Len(requests'[c]),
         clientConn' \in [Conn -> {"none", "open", "closed", "lost", "dead"}]
  PROVE  TypeOK'
<1>1. UNCHANGED <<opt, driver, round, probes, unrouted, ended, connTasks, joined, handled,
                  server, streams, serverConn, handles>>
  BY DEF InClient, checkVars, driverVars, serverVars
<1> QED
  BY <1>1 DEF TypeOK, Req, ClientState

\* What the invariant says of a connection's client, with its types.
LEMMA ClientFacts ==
  ASSUME QuicInv, NEW c \in Conn
  PROVE  /\ TypeOK /\ ConnInv(c) /\ ClientSide(c) /\ Claimed(c) /\ Permits(c) /\ StreamSide(c) /\ ServerSide(c)
         /\ client \in [Conn -> ClientState] /\ clientConn \in [Conn -> {"none", "open", "closed", "lost", "dead"}]
         /\ claimed \in [Conn -> 0..opt.requests] /\ held \in [Conn -> 0..opt.streams]
         /\ requests \in [Conn -> Seq(TaskState)] /\ reqJoined \in [Conn -> Nat]
         /\ requests[c] \in Seq(TaskState) /\ Len(requests[c]) \in Nat
         /\ DOMAIN requests[c] = 1..Len(requests[c])
         /\ \A d \in Conn : reqJoined[d] <= Len(requests[d])
         /\ requestsLeft \in 0..opt.requests /\ opt.requests \in Nat /\ opt.streams \in Nat
         /\ claimed[c] \in Nat /\ held[c] \in Nat /\ reqJoined[c] \in Nat
<1>1. TypeOK /\ ConnInv(c)
  BY DEF QuicInv
<1>2. opt.requests \in Nat /\ opt.streams \in Nat
  BY <1>1, OptionTypes
<1>3. requests[c] \in Seq(TaskState)
  BY <1>1 DEF TypeOK
<1>4. /\ client \in [Conn -> ClientState] /\ clientConn \in [Conn -> {"none", "open", "closed", "lost", "dead"}]
      /\ claimed \in [Conn -> 0..opt.requests] /\ held \in [Conn -> 0..opt.streams]
      /\ requests \in [Conn -> Seq(TaskState)] /\ reqJoined \in [Conn -> Nat]
      /\ \A d \in Conn : reqJoined[d] <= Len(requests[d])
      /\ requestsLeft \in 0..opt.requests
  BY <1>1 DEF TypeOK, ClientState
<1>5. Len(requests[c]) \in Nat /\ DOMAIN requests[c] = 1..Len(requests[c])
  BY <1>3
<1>6. claimed[c] \in Nat /\ held[c] \in Nat /\ reqJoined[c] \in Nat
  BY <1>2, <1>4
<1> QED
  BY <1>1, <1>2, <1>3, <1>4, <1>5, <1>6 DEF ConnInv

\* The set of claims, while nothing is claimed.
LEMMA NoClaim ==
  ASSUME QuicInv, opt' = opt, UNCHANGED <<requestsLeft, claimed>>
  PROVE  Budget'
<1>1. Claims' = Claims
  BY DEF Claims, Req
<1> QED
  BY <1>1 DEF QuicInv, Budget

\* Connected, ConnectFails, ClientLoses, ClientDies and Close change nothing but the
\* state of the client and of its connection.
LEMMA ConnectionStateInv ==
  ASSUME QuicInv, NEW c \in Conn, Connected(c) \/ ConnectFails(c) \/ ClientLoses(c) \/ ClientDies(c) \/ Close(c)
  PROVE  QuicInv'
<1>1. /\ TypeOK /\ ConnInv(c) /\ ClientSide(c) /\ Claimed(c) /\ Permits(c) /\ StreamSide(c) /\ ServerSide(c)
      /\ client \in [Conn -> ClientState] /\ clientConn \in [Conn -> {"none", "open", "closed", "lost", "dead"}]
      /\ claimed \in [Conn -> 0..opt.requests] /\ held \in [Conn -> 0..opt.streams]
      /\ requests \in [Conn -> Seq(TaskState)] /\ reqJoined \in [Conn -> Nat]
      /\ \A d \in Conn : reqJoined[d] <= Len(requests[d])
      /\ requestsLeft \in 0..opt.requests
      /\ Len(requests[c]) \in Nat /\ DOMAIN requests[c] = 1..Len(requests[c])
  BY ClientFacts
<1>2. /\ InClient /\ UNCHANGED <<requestsLeft, claimed, held, requests, reqJoined>>
      /\ UNCHANGED <<opt, server, streams, serverConn>>
  BY DEF Connected, ConnectFails, ClientLoses, ClientDies, Close, InClient, serverVars
<1>3. \E x \in ClientState, y \in {"none", "open", "closed", "lost", "dead"} :
         /\ client' = [client EXCEPT ![c] = x] /\ clientConn' = [clientConn EXCEPT ![c] = y]
         /\ \/ client[c] = "connecting" /\ x = "claiming" /\ y = "open"
            \/ client[c] = "connecting" /\ x = "Err" /\ y = clientConn[c]
            \/ clientConn[c] = "open" /\ x = client[c] /\ y \in {"lost", "dead"}
            \/ client[c] = "connecting" /\ clientConn[c] = "none" /\ x = client[c] /\ y = "dead"
            \/ /\ client[c] = "joining" /\ reqJoined[c] = Len(requests[c])
               /\ x = IF clientConn[c] = "dead" THEN "Err" ELSE "Ok"
               /\ y = IF clientConn[c] = "open" THEN "closed" ELSE clientConn[c]
  <2>1. CASE Connected(c)
    BY <1>1, <2>1 DEF Connected, ClientState
  <2>2. CASE ConnectFails(c)
    BY <1>1, <2>2 DEF ConnectFails, ClientState
  <2>3. CASE ClientLoses(c)
    BY <1>1, <2>3 DEF ClientLoses
  <2>4. CASE Close(c)
    <3>1. clientConn' = [clientConn EXCEPT ![c] = IF clientConn[c] = "open" THEN "closed" ELSE clientConn[c]]
      BY <1>1, <2>4 DEF Close
    <3>2. /\ client' = [client EXCEPT ![c] = IF clientConn[c] = "dead" THEN "Err" ELSE "Ok"]
          /\ client[c] = "joining" /\ reqJoined[c] = Len(requests[c])
      BY <2>4 DEF Close
    <3> QED
      BY <1>1, <3>1, <3>2 DEF ClientState
  <2>5. CASE ClientDies(c)
    BY <1>1, <2>5 DEF ClientDies
  <2> QED
    BY <2>1, <2>2, <2>3, <2>4, <2>5
<1>4. PICK x \in ClientState, y \in {"none", "open", "closed", "lost", "dead"} :
         /\ client' = [client EXCEPT ![c] = x] /\ clientConn' = [clientConn EXCEPT ![c] = y]
         /\ \/ client[c] = "connecting" /\ x = "claiming" /\ y = "open"
            \/ client[c] = "connecting" /\ x = "Err" /\ y = clientConn[c]
            \/ clientConn[c] = "open" /\ x = client[c] /\ y \in {"lost", "dead"}
            \/ client[c] = "connecting" /\ clientConn[c] = "none" /\ x = client[c] /\ y = "dead"
            \/ /\ client[c] = "joining" /\ reqJoined[c] = Len(requests[c])
               /\ x = IF clientConn[c] = "dead" THEN "Err" ELSE "Ok"
               /\ y = IF clientConn[c] = "open" THEN "closed" ELSE clientConn[c]
  BY <1>3
<1>5. client'[c] = x /\ clientConn'[c] = y
  BY <1>1, <1>4
<1>6. TypeOK'
  <2>1. client' \in [Conn -> ClientState] /\ clientConn' \in [Conn -> {"none", "open", "closed", "lost", "dead"}]
    BY <1>1, <1>4
  <2> QED
    BY <1>1, <1>2, <2>1, ClientTypes
<1>7. Budget'
  BY <1>2, NoClaim
<1>8. ClientSide(c)'
  BY <1>1, <1>2, <1>4, <1>5 DEF ClientSide, ClientState
<1>9. Claimed(c)' /\ Permits(c)'
  <2>1. Running(c)' = Running(c)
    BY <1>2 DEF Running
  <2> QED
    BY <1>1, <1>2, <1>4, <1>5, <2>1 DEF Claimed, Permits
<1>10. StreamSide(c)'
  BY <1>1, <1>2 DEF StreamSide, Req
<1>11. client[c] # "none" /\ x # "none" /\ (client[c] = "Ok" => x = "Ok")
       /\ (clientConn[c] = "closed" => y = "closed")
  BY <1>1, <1>4 DEF ClientSide
<1>12. ServerSide(c)'
  BY <1>1, <1>2, <1>5, <1>11 DEF ServerSide, Req
<1>13. ConnInv(c)'
  BY <1>8, <1>9, <1>10, <1>12 DEF ConnInv
<1>14. \A d \in Conn \ {c} : client'[d] = client[d] /\ clientConn'[d] = clientConn[d]
  BY <1>1, <1>4
<1> QED
  BY <1>2, <1>5, <1>6, <1>7, <1>11, <1>13, <1>14, ClientStep

\* A connection claims no more than there is: each claim is in the set Claims.
LEMMA ClaimsType ==
  ASSUME QuicInv
  PROVE  /\ IsFiniteSet(Claims) /\ Cardinality(Claims) \in Nat
         /\ \A c \in Conn : claimed[c] <= Cardinality(Claims)
<1>1. /\ MaxConnections \in Nat /\ opt.requests \in Nat /\ claimed \in [Conn -> 0..opt.requests]
  BY OptionTypes DEF QuicInv, TypeOK
<1>2. IsFiniteSet(Conn) /\ IsFiniteSet(Req)
  BY <1>1, FS_Interval DEF Conn, Req
<1>3. IsFiniteSet(Conn \X Req)
  BY <1>2, FS_Product
<1>4. IsFiniteSet(Claims)
  BY <1>3, FS_Subset DEF Claims
<1>5. Cardinality(Claims) \in Nat
  BY <1>4, FS_CardinalityType
<1>6. ASSUME NEW c \in Conn PROVE claimed[c] <= Cardinality(Claims)
  <2>1. claimed[c] \in 0..opt.requests /\ claimed[c] \in Nat
    BY <1>1
  <2>2. IsFiniteSet(1..claimed[c]) /\ Cardinality(1..claimed[c]) = claimed[c]
    BY <2>1, FS_Interval
  <2>3. IsFiniteSet({c}) /\ Cardinality({c}) = 1
    BY FS_Singleton
  <2>4. IsFiniteSet({c} \X (1..claimed[c])) /\ Cardinality({c} \X (1..claimed[c])) = claimed[c]
    <3>1. Cardinality({c} \X (1..claimed[c])) = 1 * claimed[c]
      <4>1. Cardinality({c} \X (1..claimed[c])) = Cardinality({c}) * Cardinality(1..claimed[c])
        BY <2>2, <2>3, FS_Product
      <4> QED
        BY <2>2, <2>3, <4>1
    <3>2. IsFiniteSet({c} \X (1..claimed[c]))
      BY <2>2, <2>3, FS_Product
    <3>3. 1 * claimed[c] = claimed[c]
      BY <2>1
    <3> QED
      BY <3>1, <3>2, <3>3
  <2>5. {c} \X (1..claimed[c]) \subseteq Claims
    BY <1>1, <2>1 DEF Claims, Req
  <2> QED
    BY <1>4, <2>4, <2>5, FS_Subset
<1> QED
  BY <1>4, <1>5, <1>6

LEMMA ClaimInv ==
  ASSUME QuicInv, NEW c \in Conn, Claim(c)
  PROVE  QuicInv'
<1>1. /\ TypeOK /\ ConnInv(c) /\ ClientSide(c) /\ Claimed(c) /\ Permits(c) /\ StreamSide(c) /\ ServerSide(c)
      /\ client \in [Conn -> ClientState] /\ clientConn \in [Conn -> {"none", "open", "closed", "lost", "dead"}]
      /\ claimed \in [Conn -> 0..opt.requests] /\ held \in [Conn -> 0..opt.streams]
      /\ requests \in [Conn -> Seq(TaskState)] /\ reqJoined \in [Conn -> Nat]
      /\ \A d \in Conn : reqJoined[d] <= Len(requests[d])
      /\ requestsLeft \in 0..opt.requests /\ opt.requests \in Nat
      /\ Len(requests[c]) \in Nat /\ claimed[c] \in Nat
  BY ClientFacts
<1>2. /\ InClient /\ client[c] = "claiming" /\ UNCHANGED <<held, requests, reqJoined, clientConn>>
      /\ UNCHANGED <<opt, server, streams, serverConn>>
  BY DEF Claim, InClient, serverVars
<1>3. Running(c)' = Running(c)
  BY <1>2 DEF Running
<1>4. StreamSide(c)'
  BY <1>1, <1>2 DEF StreamSide, Req
<1>5. CASE requestsLeft = 0
  <2>1. client' = [client EXCEPT ![c] = "joining"] /\ UNCHANGED <<requestsLeft, claimed>>
    BY <1>5 DEF Claim
  <2>2. client'[c] = "joining" /\ client' \in [Conn -> ClientState]
    BY <1>1, <2>1 DEF ClientState
  <2>3. TypeOK'
    BY <1>1, <1>2, <2>1, <2>2, ClientTypes
  <2>4. Budget'
    BY <1>2, <2>1, NoClaim
  <2>5. ClientSide(c)' /\ ServerSide(c)'
    BY <1>1, <1>2, <1>5, <2>1, <2>2 DEF ClientSide, ServerSide, Req
  <2>6. Claimed(c)' /\ Permits(c)'
    BY <1>1, <1>2, <1>3, <2>1, <2>2 DEF Claimed, Permits
  <2>7. ConnInv(c)'
    BY <1>4, <2>5, <2>6 DEF ConnInv
  <2>8. \A d \in Conn \ {c} : client'[d] = client[d]
    BY <1>1, <2>1
  <2> QED
    BY <1>2, <2>1, <2>2, <2>3, <2>4, <2>7, <2>8, ClientStep
<1>6. CASE requestsLeft # 0
  <2>1. /\ client' = [client EXCEPT ![c] = "acquiring"] /\ requestsLeft' = requestsLeft - 1
        /\ claimed' = [claimed EXCEPT ![c] = claimed[c] + 1]
    BY <1>1, <1>6 DEF Claim
  <2>2. client'[c] = "acquiring" /\ client' \in [Conn -> ClientState]
    BY <1>1, <2>1 DEF ClientState
  <2>3. IsFiniteSet(Claims) /\ Cardinality(Claims) \in Nat /\ claimed[c] <= Cardinality(Claims)
    BY ClaimsType
  <2>4. claimed[c] + 1 \in Req /\ requestsLeft' \in 0..opt.requests
    <3>1. requestsLeft + Cardinality(Claims) = opt.requests
      BY DEF QuicInv, Budget
    <3> QED
      BY <1>1, <1>6, <2>1, <2>3, <3>1 DEF Req
  <2>5. claimed'[c] = claimed[c] + 1 /\ claimed' \in [Conn -> 0..opt.requests]
    BY <1>1, <2>1, <2>4 DEF Req
  <2>6. TypeOK'
    BY <1>1, <1>2, <2>2, <2>4, <2>5, ClientTypes
  <2>7. Budget'
    <3>1. Claims' = Claims \cup {<<c, claimed[c] + 1>>}
      <4>1. ASSUME NEW x \in Conn \X Req
            PROVE  x[2] <= claimed'[x[1]] <=> x[2] <= claimed[x[1]] \/ x = <<c, claimed[c] + 1>>
        <5>1. x[1] \in Conn /\ x[2] \in Nat /\ x = <<x[1], x[2]>> /\ claimed[x[1]] \in Nat
          BY <1>1, <4>1 DEF Req
        <5>2. CASE x[1] = c
          BY <1>1, <2>5, <5>1, <5>2
        <5>3. CASE x[1] # c
          BY <1>1, <2>1, <5>1, <5>3
        <5> QED
          BY <5>2, <5>3
      <4>2. Req' = Req /\ <<c, claimed[c] + 1>> \in Conn \X Req
        BY <1>2, <2>4 DEF Req
      <4> QED
        BY <4>1, <4>2 DEF Claims
    <3>2. <<c, claimed[c] + 1>> \notin Claims
      BY <1>1 DEF Claims
    <3>3. Cardinality(Claims') = Cardinality(Claims) + 1
      BY <2>3, <3>1, <3>2, FS_AddElement
    <3>4. requestsLeft + Cardinality(Claims) = opt.requests
      BY DEF QuicInv, Budget
    <3>5. requestsLeft' + Cardinality(Claims') = opt.requests
      BY <1>1, <2>1, <2>3, <3>3, <3>4
    <3> QED
      BY <1>2, <3>5 DEF Budget
  <2>8. ClientSide(c)' /\ ServerSide(c)'
    BY <1>1, <1>2, <2>2 DEF ClientSide, ServerSide, Req
  <2>9. Claimed(c)' /\ Permits(c)'
    BY <1>1, <1>2, <1>3, <2>2, <2>5 DEF Claimed, Permits
  <2>10. ConnInv(c)'
    BY <1>4, <2>8, <2>9 DEF ConnInv
  <2>11. \A d \in Conn \ {c} : client'[d] = client[d] /\ claimed'[d] = claimed[d]
    BY <1>1, <2>1
  <2> QED
    BY <1>2, <1>6, <2>2, <2>6, <2>7, <2>10, <2>11, ClientStep
<1> QED
  BY <1>5, <1>6

LEMMA RunningType ==
  ASSUME QuicInv, NEW c \in Conn
  PROVE  IsFiniteSet(Running(c)) /\ Cardinality(Running(c)) \in Nat
<1>1. DOMAIN requests[c] = 1..Len(requests[c]) /\ Len(requests[c]) \in Nat
  BY ClientFacts
<1>2. IsFiniteSet(1..Len(requests[c]))
  BY <1>1, FS_Interval
<1>3. Running(c) \subseteq 1..Len(requests[c])
  BY <1>1 DEF Running
<1> QED
  BY <1>2, <1>3, FS_Subset, FS_CardinalityType

\* A request task is spawned: one more request under way, and no stream yet.
LEMMA SpawnRuns ==
  ASSUME QuicInv, NEW c \in Conn, requests' = [requests EXCEPT ![c] = Append(@, "running")]
  PROVE  /\ requests' \in [Conn -> Seq(TaskState)] /\ Len(requests'[c]) = Len(requests[c]) + 1
         /\ DOMAIN requests'[c] = 1..(Len(requests[c]) + 1)
         /\ \A i \in 1..Len(requests[c]) : requests'[c][i] = requests[c][i]
         /\ requests'[c][Len(requests[c]) + 1] = "running"
         /\ \A d \in Conn \ {c} : requests'[d] = requests[d]
         /\ Cardinality(Running(c)') = Cardinality(Running(c)) + 1
<1>1. /\ requests \in [Conn -> Seq(TaskState)] /\ requests[c] \in Seq(TaskState)
      /\ Len(requests[c]) \in Nat /\ DOMAIN requests[c] = 1..Len(requests[c])
  BY ClientFacts
<1>2. PICK new : new = Append(requests[c], "running")
  OBVIOUS
<1>3. "running" \in TaskState
  BY DEF TaskState
<1>4. /\ new \in Seq(TaskState) /\ Len(new) = Len(requests[c]) + 1
      /\ \A i \in 1..Len(requests[c]) : new[i] = requests[c][i]
      /\ new[Len(requests[c]) + 1] = "running"
  BY <1>1, <1>2, <1>3, AppendProperties
<1>5. requests'[c] = new /\ requests' \in [Conn -> Seq(TaskState)]
      /\ \A d \in Conn \ {c} : requests'[d] = requests[d]
  BY <1>1, <1>2, <1>4
<1>6. DOMAIN new = 1..(Len(requests[c]) + 1)
  BY <1>4
<1>7. PICK k : k = Len(requests[c]) + 1
  OBVIOUS
<1>8. DOMAIN new = DOMAIN requests[c] \cup {k} /\ k \notin DOMAIN requests[c]
  BY <1>1, <1>6, <1>7
<1>9. Running(c)' = Running(c) \cup {k} /\ k \notin Running(c)
  BY <1>1, <1>4, <1>5, <1>7, <1>8 DEF Running
<1>10. Cardinality(Running(c)') = Cardinality(Running(c)) + 1
  BY <1>9, RunningType, FS_AddElement
<1> QED
  BY <1>4, <1>5, <1>6, <1>10

LEMMA AcquireInv ==
  ASSUME QuicInv, NEW c \in Conn, Acquire(c) \/ IntervalEnds(c)
  PROVE  QuicInv'
<1>1. /\ TypeOK /\ ConnInv(c) /\ ClientSide(c) /\ Claimed(c) /\ Permits(c) /\ StreamSide(c) /\ ServerSide(c)
      /\ client \in [Conn -> ClientState] /\ clientConn \in [Conn -> {"none", "open", "closed", "lost", "dead"}]
      /\ claimed \in [Conn -> 0..opt.requests] /\ held \in [Conn -> 0..opt.streams]
      /\ requests \in [Conn -> Seq(TaskState)] /\ reqJoined \in [Conn -> Nat]
      /\ \A d \in Conn : reqJoined[d] <= Len(requests[d])
      /\ requestsLeft \in 0..opt.requests /\ opt.requests \in Nat /\ opt.streams \in Nat
      /\ Len(requests[c]) \in Nat /\ claimed[c] \in Nat /\ held[c] \in Nat /\ reqJoined[c] \in Nat
      /\ DOMAIN requests[c] = 1..Len(requests[c])
  BY ClientFacts
<1>2. /\ InClient /\ client[c] \in {"acquiring", "sleeping"}
      /\ UNCHANGED <<requestsLeft, claimed, reqJoined, clientConn, opt, server, streams, serverConn>>
  BY DEF Acquire, IntervalEnds, InClient, serverVars
<1>3. Cardinality(Running(c)) \in Nat
  BY RunningType
<1>4. Budget'
  BY <1>2, NoClaim
<1>5. /\ held' \in [Conn -> 0..opt.streams] /\ \A d \in Conn \ {c} : held'[d] = held[d]
      /\ held'[c] = held[c] + (IF client[c] = "acquiring" THEN 1 ELSE 0)
  <2>1. CASE Acquire(c)
    <3>1. held' = [held EXCEPT ![c] = held[c] + 1] /\ held[c] < opt.streams /\ client[c] = "acquiring"
      BY <1>1, <2>1 DEF Acquire, MayAcquire
    <3>2. held[c] + 1 \in 0..opt.streams
      BY <1>1, <3>1
    <3> QED
      BY <1>1, <3>1, <3>2
  <2>2. CASE IntervalEnds(c)
    BY <1>1, <2>2 DEF IntervalEnds
  <2> QED
    BY <2>1, <2>2
<1>6. CASE Spawn(c)
  <2>1. /\ requests' \in [Conn -> Seq(TaskState)] /\ Len(requests'[c]) = Len(requests[c]) + 1
        /\ DOMAIN requests'[c] = 1..(Len(requests[c]) + 1)
        /\ \A i \in 1..Len(requests[c]) : requests'[c][i] = requests[c][i]
        /\ requests'[c][Len(requests[c]) + 1] = "running"
        /\ \A d \in Conn \ {c} : requests'[d] = requests[d]
        /\ Cardinality(Running(c)') = Cardinality(Running(c)) + 1
    BY <1>6, SpawnRuns DEF Spawn
  <2>2. client'[c] = "claiming" /\ client' \in [Conn -> ClientState]
        /\ \A d \in Conn \ {c} : client'[d] = client[d]
    BY <1>1, <1>6 DEF Spawn, ClientState
  <2>3. \A d \in Conn : reqJoined'[d] <= Len(requests'[d])
    <3>1. reqJoined[c] <= Len(requests[c]) + 1
      BY <1>1
    <3> QED
      BY <1>1, <1>2, <2>1, <3>1
  <2>4. TypeOK'
    BY <1>1, <1>2, <1>5, <2>1, <2>2, <2>3, ClientTypes
  <2>5. \A i \in DOMAIN requests'[c] : i \in DOMAIN requests[c] \/ requests'[c][i] = "running"
    BY <1>1, <2>1
  <2>6. ClientSide(c)'
    <3>1. \A i \in 1..reqJoined[c] : i \in 1..Len(requests[c])
      BY <1>1
    <3>2. \A i \in 1..reqJoined[c] : requests'[c][i] = "Ok"
      BY <1>1, <2>1, <3>1 DEF ClientSide
    <3>3. clientConn[c] \in {"open", "lost", "dead"}
      BY <1>1, <1>2 DEF ClientSide
    <3>4. \A i \in DOMAIN requests'[c] : requests'[c][i] = "Err" => clientConn[c] \in {"lost", "dead"}
      BY <1>1, <2>1, <2>5 DEF ClientSide
    <3> QED
      BY <1>2, <2>2, <3>2, <3>3, <3>4 DEF ClientSide
  <2>7. Claimed(c)'
    BY <1>1, <1>2, <2>1, <2>2 DEF Claimed
  <2>8. Permits(c)'
    BY <1>1, <1>2, <1>3, <1>5, <2>1, <2>2 DEF Permits
  <2>9. StreamSide(c)'
    <3>1. \A i \in DOMAIN requests[c] : i \in DOMAIN requests'[c] /\ requests'[c][i] = requests[c][i]
      BY <1>1, <2>1
    <3> QED
      BY <1>1, <1>2, <2>5, <3>1 DEF StreamSide, Req
  <2>10. ServerSide(c)'
    BY <1>1, <1>2, <2>2 DEF ServerSide, Req
  <2>11. ConnInv(c)'
    BY <2>6, <2>7, <2>8, <2>9, <2>10 DEF ConnInv
  <2> QED
    BY <1>2, <1>4, <1>5, <2>1, <2>2, <2>4, <2>11, ClientStep
<1>7. CASE /\ client[c] = "acquiring" /\ opt.interval
           /\ client' = [client EXCEPT ![c] = "sleeping"] /\ UNCHANGED requests
  <2>1. client'[c] = "sleeping" /\ client' \in [Conn -> ClientState]
        /\ \A d \in Conn \ {c} : client'[d] = client[d]
    BY <1>1, <1>7 DEF ClientState
  <2>2. TypeOK'
    BY <1>1, <1>2, <1>5, <1>7, <2>1, ClientTypes
  <2>3. ClientSide(c)' /\ Claimed(c)'
    BY <1>1, <1>2, <1>7, <2>1 DEF ClientSide, Claimed
  <2>4. Permits(c)'
    <3>1. Running(c)' = Running(c)
      BY <1>7 DEF Running
    <3> QED
      BY <1>1, <1>3, <1>5, <1>7, <2>1, <3>1 DEF Permits
  <2>5. StreamSide(c)' /\ ServerSide(c)'
    BY <1>1, <1>2, <1>7, <2>1 DEF StreamSide, ServerSide, Req
  <2>6. ConnInv(c)'
    BY <2>3, <2>4, <2>5 DEF ConnInv
  <2> QED
    BY <1>2, <1>4, <1>5, <1>7, <2>1, <2>2, <2>6, ClientStep
<1> QED
  BY <1>6, <1>7 DEF Acquire, IntervalEnds

LEMMA RequestEndsInv ==
  ASSUME QuicInv, NEW c \in Conn, NEW i \in DOMAIN requests[c], RequestEnds(c, i)
  PROVE  QuicInv'
<1>1. /\ TypeOK /\ ConnInv(c) /\ ClientSide(c) /\ Claimed(c) /\ Permits(c) /\ StreamSide(c) /\ ServerSide(c)
      /\ client \in [Conn -> ClientState] /\ clientConn \in [Conn -> {"none", "open", "closed", "lost", "dead"}]
      /\ claimed \in [Conn -> 0..opt.requests] /\ held \in [Conn -> 0..opt.streams]
      /\ requests \in [Conn -> Seq(TaskState)] /\ reqJoined \in [Conn -> Nat]
      /\ \A d \in Conn : reqJoined[d] <= Len(requests[d])
      /\ requestsLeft \in 0..opt.requests /\ opt.requests \in Nat /\ opt.streams \in Nat
      /\ Len(requests[c]) \in Nat /\ claimed[c] \in Nat /\ held[c] \in Nat /\ reqJoined[c] \in Nat
      /\ requests[c] \in Seq(TaskState) /\ DOMAIN requests[c] = 1..Len(requests[c])
  BY ClientFacts
<1>2. /\ InClient /\ requests[c][i] = "running" /\ held' = [held EXCEPT ![c] = held[c] - 1]
      /\ UNCHANGED <<requestsLeft, client, claimed, reqJoined, clientConn, opt, server, streams, serverConn>>
  BY <1>1 DEF RequestEnds, Release, InClient, serverVars
<1>3. PICK r \in {"Ok", "Err"} :
        /\ requests' = [requests EXCEPT ![c][i] = r]
        /\ r = "Ok" => clientConn[c] = "open" /\ streams[c][i] \in {"answered", "unacked"}
        /\ r = "Err" => clientConn[c] \in {"lost", "dead"}
  BY DEF RequestEnds
<1>4. PICK new : new = [requests[c] EXCEPT ![i] = r]
  OBVIOUS
<1>5. /\ new \in Seq(TaskState) /\ Len(new) = Len(requests[c]) /\ DOMAIN new = DOMAIN requests[c]
      /\ new[i] = r /\ \A j \in DOMAIN requests[c] : j # i => new[j] = requests[c][j]
  BY <1>1, <1>3, <1>4 DEF TaskState
<1>6. requests' = [requests EXCEPT ![c] = new]
  BY <1>1, <1>3, <1>4
<1>7. /\ requests'[c] = new /\ requests' \in [Conn -> Seq(TaskState)]
      /\ \A d \in Conn \ {c} : requests'[d] = requests[d]
  BY <1>1, <1>5, <1>6
<1>8. IsFiniteSet(Running(c)) /\ Cardinality(Running(c)) \in Nat
  BY RunningType
<1>9. Running(c)' = Running(c) \ {i} /\ i \in Running(c)
  BY <1>2, <1>3, <1>5, <1>7 DEF Running
<1>10. Cardinality(Running(c)') = Cardinality(Running(c)) - 1 /\ Cardinality(Running(c)) >= 1
  <2>1. Cardinality(Running(c)') = Cardinality(Running(c)) - 1
    BY <1>8, <1>9, FS_RemoveElement
  <2>2. Cardinality(Running(c)) # 0
    BY <1>8, <1>9, FS_EmptySet
  <2> QED
    BY <1>8, <2>1, <2>2
<1>11. held[c] >= 1 /\ held'[c] = held[c] - 1 /\ held' \in [Conn -> 0..opt.streams]
       /\ \A d \in Conn \ {c} : held'[d] = held[d]
  <2>1. held[c] >= 1
    BY <1>1, <1>8, <1>10 DEF Permits
  <2>2. held[c] - 1 \in 0..opt.streams
    BY <1>1, <2>1
  <2> QED
    BY <1>1, <1>2, <2>1, <2>2
<1>12. TypeOK'
  <2>1. \A d \in Conn : reqJoined'[d] <= Len(requests'[d])
    BY <1>1, <1>2, <1>5, <1>7
  <2> QED
    BY <1>1, <1>2, <1>7, <1>11, <2>1, ClientTypes
<1>13. Budget'
  BY <1>2, NoClaim
<1>14. ClientSide(c)'
  <2>1. ~(i \in 1..reqJoined[c])
    BY <1>1, <1>2 DEF ClientSide
  <2>2. \A j \in 1..reqJoined[c] : j \in DOMAIN requests[c] /\ j # i
    BY <1>1, <2>1
  <2>3. client[c] \notin {"none", "connecting"}
    BY <1>1 DEF ClientSide
  <2> QED
    BY <1>1, <1>2, <1>3, <1>5, <1>7, <2>2, <2>3 DEF ClientSide
<1>15. Claimed(c)' /\ Permits(c)'
  <2>1. Claimed(c)'
    BY <1>1, <1>2, <1>5, <1>7 DEF Claimed
  <2>2. client'[c] = client[c] /\ held[c] = Cardinality(Running(c)) + (IF client[c] = "sleeping" THEN 1 ELSE 0)
    BY <1>1, <1>2 DEF Permits
  <2>3. held'[c] = Cardinality(Running(c)') + (IF client'[c] = "sleeping" THEN 1 ELSE 0)
    BY <1>8, <1>10, <1>11, <2>2
  <2> QED
    BY <2>1, <2>3 DEF Permits
<1>16. StreamSide(c)'
  <2>1. streams[c][i] # "Ok"
    <3>1. i \in Req
      BY <1>1 DEF Claimed, Req
    <3> QED
      BY <1>1, <1>2, <3>1 DEF StreamSide
  <2> QED
    BY <1>1, <1>2, <1>3, <1>5, <1>7, <2>1 DEF StreamSide, Req
<1>17. ServerSide(c)'
  BY <1>1, <1>2 DEF ServerSide, Req
<1>18. ConnInv(c)'
  BY <1>14, <1>15, <1>16, <1>17 DEF ConnInv
<1>19. client[c] # "none"
  BY <1>1 DEF ClientSide
<1> QED
  BY <1>2, <1>7, <1>11, <1>12, <1>13, <1>18, <1>19, ClientStep

LEMMA JoinRequestInv ==
  ASSUME QuicInv, NEW c \in Conn, JoinRequest(c)
  PROVE  QuicInv'
<1>1. /\ TypeOK /\ ConnInv(c) /\ ClientSide(c) /\ Claimed(c) /\ Permits(c) /\ StreamSide(c) /\ ServerSide(c)
      /\ client \in [Conn -> ClientState] /\ clientConn \in [Conn -> {"none", "open", "closed", "lost", "dead"}]
      /\ claimed \in [Conn -> 0..opt.requests] /\ held \in [Conn -> 0..opt.streams]
      /\ requests \in [Conn -> Seq(TaskState)] /\ reqJoined \in [Conn -> Nat]
      /\ \A d \in Conn : reqJoined[d] <= Len(requests[d])
      /\ requestsLeft \in 0..opt.requests
      /\ Len(requests[c]) \in Nat /\ reqJoined[c] \in Nat /\ DOMAIN requests[c] = 1..Len(requests[c])
  BY ClientFacts
<1>2. /\ InClient /\ client[c] = "joining" /\ reqJoined[c] < Len(requests[c])
      /\ UNCHANGED <<requestsLeft, claimed, held, requests, clientConn, opt, server, streams, serverConn>>
  BY DEF JoinRequest, InClient, serverVars
<1>3. Budget' /\ Running(c)' = Running(c) /\ StreamSide(c)'
  <2>1. Budget'
    BY <1>2, NoClaim
  <2> QED
    BY <1>1, <1>2, <2>1 DEF Running, StreamSide, Req
<1>4. reqJoined[c] + 1 \in DOMAIN requests[c]
  BY <1>1, <1>2
<1>5. CASE /\ requests[c][reqJoined[c] + 1] = "Ok"
           /\ reqJoined' = [reqJoined EXCEPT ![c] = reqJoined[c] + 1] /\ UNCHANGED client
  <2>1. /\ reqJoined' \in [Conn -> Nat] /\ reqJoined'[c] = reqJoined[c] + 1
        /\ \A d \in Conn \ {c} : reqJoined'[d] = reqJoined[d]
    BY <1>1, <1>5
  <2>2. \A d \in Conn : reqJoined'[d] <= Len(requests'[d])
    <3>1. reqJoined[c] + 1 <= Len(requests[c])
      BY <1>1, <1>2
    <3> QED
      BY <1>1, <1>2, <2>1, <3>1
  <2>3. TypeOK'
    BY <1>1, <1>2, <1>5, <2>1, <2>2, ClientTypes
  <2>4. \A j \in 1..(reqJoined[c] + 1) : j \in 1..reqJoined[c] \/ j = reqJoined[c] + 1
    BY <1>1
  <2>5. ClientSide(c)'
    BY <1>1, <1>2, <1>5, <2>1, <2>4 DEF ClientSide
  <2>6. Claimed(c)' /\ Permits(c)' /\ ServerSide(c)'
    BY <1>1, <1>2, <1>3, <1>5 DEF Claimed, Permits, ServerSide, Req
  <2>7. ConnInv(c)'
    BY <1>3, <2>5, <2>6 DEF ConnInv
  <2> QED
    BY <1>2, <1>3, <1>5, <2>1, <2>3, <2>7, ClientStep
<1>6. CASE /\ requests[c][reqJoined[c] + 1] = "Err"
           /\ client' = [client EXCEPT ![c] = "Err"] /\ UNCHANGED reqJoined
  <2>1. /\ client' \in [Conn -> ClientState] /\ client'[c] = "Err"
        /\ \A d \in Conn \ {c} : client'[d] = client[d]
    BY <1>1, <1>6 DEF ClientState
  <2>2. TypeOK'
    BY <1>1, <1>2, <1>6, <2>1, ClientTypes
  <2>3. clientConn[c] \in {"lost", "dead"}
    BY <1>1, <1>4, <1>6 DEF ClientSide
  <2>4. ClientSide(c)'
    BY <1>1, <1>2, <1>6, <2>1, <2>3 DEF ClientSide
  <2>5. Claimed(c)' /\ Permits(c)' /\ ServerSide(c)'
    BY <1>1, <1>2, <1>3, <2>1 DEF Claimed, Permits, ServerSide, Req
  <2>6. ConnInv(c)'
    BY <1>3, <2>4, <2>5 DEF ConnInv
  <2> QED
    BY <1>2, <1>3, <1>6, <2>1, <2>2, <2>6, ClientStep
<1> QED
  BY <1>1, <1>5, <1>6 DEF JoinRequest

-----------------------------------------------------------------------------
(* The steps of the server's tasks and of the connection between the two.   *)

ServerState == {"none", "handshaking", "accepting", "closing", "Ok", "Err", "panicked"}
ServerEnd   == {"none", "open", "closed", "overtaken", "lost", "dead"}

\* A step of one connection's server is right if it is for that connection.
LEMMA ServerStep ==
  ASSUME QuicInv, NEW c \in Conn, InServer, Handles', ConnInv(c)', handles' \in Seq(Conn),
         server' \in [Conn -> ServerState], serverConn' \in [Conn -> ServerEnd],
         streams' \in [Conn -> [Req -> StreamState]],
         \A d \in Conn \ {c} :
           server'[d] = server[d] /\ streams'[d] = streams[d] /\ serverConn'[d] = serverConn[d]
  PROVE  QuicInv'
<1>1. /\ TypeOK /\ ProbesSent /\ Phase /\ Started /\ AllOk /\ Budget /\ \A d \in Conn : ConnInv(d)
  BY DriverFacts
<1>2. /\ driver \notin Final
      /\ UNCHANGED <<opt, driver, round, probes, unrouted, ended, connTasks, joined, handled, requestsLeft,
                     client, claimed, held, requests, reqJoined, clientConn>>
  BY DEF InServer, Up, checkVars, driverVars, clientVars
<1>3. \A d \in Conn \ {c} : ConnInv(d)'
  BY <1>1, <1>2, ConnFrame
<1>4. ProbesSent' /\ Started' /\ AllOk'
  BY <1>1, <1>2 DEF ProbesSent, Started, AllOk
<1>5. Phase'
  BY <1>1, <1>2 DEF Phase, Validated, Checked, Final
<1>6. Budget'
  BY <1>2, NoClaim
<1>7. TypeOK'
  BY <1>1, <1>2 DEF TypeOK, Req, ServerState, ServerEnd, StreamState
<1> QED
  BY <1>3, <1>4, <1>5, <1>6, <1>7 DEF QuicInv

\* What the invariant says of a connection's server, with its types.
LEMMA ServerFacts ==
  ASSUME QuicInv, NEW c \in Conn
  PROVE  /\ Handles /\ ConnInv(c) /\ ClientSide(c) /\ Claimed(c) /\ Permits(c) /\ StreamSide(c) /\ ServerSide(c)
         /\ server \in [Conn -> ServerState] /\ serverConn \in [Conn -> ServerEnd]
         /\ streams \in [Conn -> [Req -> StreamState]] /\ streams[c] \in [Req -> StreamState]
         /\ handles \in Seq(Conn) /\ handled \in Nat
         /\ clientConn[c] \in {"none", "open", "closed", "lost", "dead"} /\ client[c] \in ClientState
         /\ DOMAIN requests[c] \subseteq Req
<1>1. TypeOK /\ ConnInv(c) /\ Handles
  BY DEF QuicInv
<1>2. DOMAIN requests[c] = 1..Len(requests[c]) /\ Len(requests[c]) \in Nat /\ claimed[c] \in 0..opt.requests
      /\ Claimed(c) /\ opt.requests \in Nat
  BY ClientFacts
<1>3. Len(requests[c]) <= opt.requests
  <2>1. claimed[c] = Len(requests[c]) + 1 \/ claimed[c] = Len(requests[c]) + 0
    BY <1>2 DEF Claimed
  <2> QED
    BY <1>2, <2>1
<1>4. DOMAIN requests[c] \subseteq Req
  BY <1>2, <1>3 DEF Req
<1>5. /\ server \in [Conn -> ServerState] /\ serverConn \in [Conn -> ServerEnd]
      /\ streams \in [Conn -> [Req -> StreamState]] /\ handles \in Seq(Conn)
      /\ clientConn[c] \in {"none", "open", "closed", "lost", "dead"} /\ client[c] \in ClientState
  BY <1>1 DEF TypeOK, ServerState, ServerEnd, StreamState, ClientState
<1>6. handled \in Nat
  BY DriverFacts
<1> QED
  BY <1>1, <1>4, <1>5, <1>6 DEF ConnInv

\* A step that accepts no connection and keeps what has ended well.
LEMMA HandlesFrame ==
  ASSUME QuicInv, NEW c \in Conn, InServer, handles' = handles, server[c] # "none", server'[c] # "none",
         server[c] = "Ok" => server'[c] = "Ok", \A d \in Conn \ {c} : server'[d] = server[d]
  PROVE  Handles'
<1>1. Handles /\ handled' = handled
  BY ServerFacts DEF InServer, driverVars
<1>2. Accepted' = Accepted
  BY DEF Accepted
<1>3. \A d \in Accepted : server[d] = "Ok" => server'[d] = "Ok"
  BY DEF Accepted
<1> QED
  BY <1>1, <1>2, <1>3 DEF Handles

LEMMA AcceptInv ==
  ASSUME QuicInv, NEW c \in Conn, Accept(c)
  PROVE  QuicInv'
<1>1. /\ Handles /\ ConnInv(c) /\ ClientSide(c) /\ Claimed(c) /\ Permits(c) /\ StreamSide(c) /\ ServerSide(c)
      /\ server \in [Conn -> ServerState] /\ serverConn \in [Conn -> ServerEnd]
      /\ streams \in [Conn -> [Req -> StreamState]] /\ handles \in Seq(Conn) /\ handled \in Nat
  BY ServerFacts
<1>2. /\ InServer /\ client[c] # "none" /\ server[c] = "none" /\ streams' = streams
      /\ server' = [server EXCEPT ![c] = "handshaking"]
      /\ serverConn' = [serverConn EXCEPT ![c] = "open"] /\ handles' = Append(handles, c)
      /\ UNCHANGED <<opt, handled, requestsLeft, client, claimed, held, requests, reqJoined, clientConn>>
  BY DEF Accept, InServer, clientVars, driverVars
<1>3. /\ server' \in [Conn -> ServerState] /\ serverConn' \in [Conn -> ServerEnd]
      /\ server'[c] = "handshaking" /\ serverConn'[c] = "open" /\ serverConn[c] = "none"
      /\ \A d \in Conn \ {c} : server'[d] = server[d] /\ serverConn'[d] = serverConn[d]
  BY <1>1, <1>2 DEF ServerState, ServerEnd, ServerSide
<1>4. /\ handles' \in Seq(Conn) /\ Len(handles') = Len(handles) + 1 /\ Len(handles) \in Nat
      /\ \A i \in 1..Len(handles) : handles'[i] = handles[i]
      /\ handles'[Len(handles) + 1] = c
      /\ DOMAIN handles' = 1..(Len(handles) + 1) /\ DOMAIN handles = 1..Len(handles)
  BY <1>1, <1>2, AppendProperties
<1>5. Accepted' = Accepted \cup {c} /\ c \notin Accepted
  BY <1>2, <1>3 DEF Accepted
<1>6. Cardinality(Accepted') = Cardinality(Accepted) + 1
  <2>1. MaxConnections \in Int
    BY QuicAssumption
  <2>2. IsFiniteSet(Conn)
    BY <2>1, FS_Interval DEF Conn
  <2>3. IsFiniteSet(Accepted)
    BY <2>2, FS_Subset DEF Accepted
  <2> QED
    BY <1>5, <2>3, FS_AddElement
<1>7. Handles'
  <2>1. PICK k : k = Len(handles) + 1
    OBVIOUS
  <2>2. /\ DOMAIN handles' = DOMAIN handles \cup {k} /\ handles'[k] = c
        /\ \A i \in DOMAIN handles : handles'[i] = handles[i] /\ handles'[i] \in Accepted
    BY <1>1, <1>4, <2>1 DEF Handles
  <2>3. \A i, j \in DOMAIN handles' : handles'[i] = handles'[j] => i = j
    BY <1>1, <1>5, <2>2 DEF Handles
  <2>4. \A i \in DOMAIN handles' : handles'[i] \in Accepted'
    BY <1>5, <2>2
  <2>5. \A d \in Accepted' : server'[d] = "Ok" \/ \E i \in DOMAIN handles' : handles'[i] = d
    <3>1. ASSUME NEW d \in Accepted, server[d] # "Ok"
          PROVE  \E i \in DOMAIN handles' : handles'[i] = d
      BY <1>1, <2>2, <3>1 DEF Handles
    <3>2. \A d \in Accepted : server'[d] = server[d]
      BY <1>3, <1>5 DEF Accepted
    <3> QED
      BY <1>5, <2>2, <3>1, <3>2
  <2>6. handled' + Len(handles') = Cardinality(Accepted')
    <3>1. handled + Len(handles) = Cardinality(Accepted)
      BY <1>1 DEF Handles
    <3> QED
      BY <1>1, <1>2, <1>4, <1>6, <3>1
  <2> QED
    BY <2>3, <2>4, <2>5, <2>6 DEF Handles
<1>8. ConnInv(c)'
  <2>1. ClientSide(c)' /\ Claimed(c)'
    BY <1>1, <1>2 DEF ClientSide, Claimed
  <2>2. Permits(c)'
    <3>1. Running(c)' = Running(c)
      BY <1>2 DEF Running
    <3> QED
      BY <1>1, <1>2, <3>1 DEF Permits
  <2>3. StreamSide(c)'
    BY <1>1, <1>2, <1>3 DEF StreamSide, Req
  <2>4. ServerSide(c)'
    BY <1>1, <1>2, <1>3 DEF ServerSide, Req
  <2> QED
    BY <2>1, <2>2, <2>3, <2>4 DEF ConnInv
<1> QED
  BY <1>1, <1>2, <1>3, <1>4, <1>7, <1>8, ServerStep

\* The server's task moves on: Handshaken, HandshakeFails, JoinStreams, Closed.
LEMMA ServerTaskInv ==
  ASSUME QuicInv, NEW c \in Conn, Handshaken(c) \/ HandshakeFails(c) \/ JoinStreams(c) \/ Closed(c)
  PROVE  QuicInv'
<1>1. /\ Handles /\ ConnInv(c) /\ ClientSide(c) /\ Claimed(c) /\ Permits(c) /\ StreamSide(c) /\ ServerSide(c)
      /\ server \in [Conn -> ServerState] /\ serverConn \in [Conn -> ServerEnd]
      /\ streams \in [Conn -> [Req -> StreamState]] /\ handles \in Seq(Conn)
      /\ streams[c] \in [Req -> StreamState] /\ serverConn[c] \in ServerEnd
  BY ServerFacts
<1>2. /\ InServer /\ UNCHANGED <<streams, serverConn, handles>>
      /\ UNCHANGED <<opt, requestsLeft, client, claimed, held, requests, reqJoined, clientConn>>
  BY DEF Handshaken, HandshakeFails, JoinStreams, Closed, InServer, clientVars
<1>3. PICK x \in ServerState \ {"none"} :
        /\ server' = [server EXCEPT ![c] = x]
        /\ \/ server[c] = "handshaking" /\ x = "accepting"
           \/ server[c] = "handshaking" /\ serverConn[c] # "open" /\ x = "Err"
           \/ /\ server[c] = "accepting" /\ x = "Err"
              /\ \E i \in Req : streams[c][i] \in {"Err", "unacked"}
           \/ /\ server[c] = "accepting" /\ serverConn[c] # "open" /\ x = "closing"
              /\ \A i \in Req : streams[c][i] \in {"none", "opened", "Ok"}
           \/ server[c] = "closing" /\ serverConn[c] = "closed" /\ x = "Ok"
           \/ server[c] = "closing" /\ serverConn[c] # "closed" /\ x = "panicked"
  <2>1. CASE Handshaken(c) \/ HandshakeFails(c)
    BY <2>1 DEF Handshaken, HandshakeFails, ServerState
  <2>2. CASE JoinStreams(c)
    BY <2>2 DEF JoinStreams, ServerState
  <2>3. CASE Closed(c)
    <3>1. server[c] = "closing" /\ server' = [server EXCEPT ![c] = IF serverConn[c] = "closed" THEN "Ok" ELSE "panicked"]
      BY <2>3 DEF Closed
    <3> QED
      BY <3>1 DEF ServerState
  <2> QED
    BY <2>1, <2>2, <2>3
<1>4. server'[c] = x /\ server' \in [Conn -> ServerState] /\ \A d \in Conn \ {c} : server'[d] = server[d]
  BY <1>1, <1>3
<1>5. Handles'
  <2>1. server[c] # "none" /\ (server[c] = "Ok" => server'[c] = "Ok") /\ server'[c] # "none"
    BY <1>3, <1>4
  <2> QED
    BY <1>2, <1>4, <2>1, HandlesFrame
<1>6. ClientSide(c)' /\ Claimed(c)' /\ StreamSide(c)'
  BY <1>1, <1>2 DEF ClientSide, Claimed, StreamSide, Req
<1>7. Permits(c)'
  <2>1. Running(c)' = Running(c)
    BY <1>2 DEF Running
  <2> QED
    BY <1>1, <1>2, <2>1 DEF Permits
<1>8. ServerSide(c)'
  <2>1. x \in {"Err", "panicked"} => serverConn[c] \in {"lost", "overtaken", "dead"}
    BY <1>1, <1>3 DEF ServerSide, StreamSide, ServerEnd
  <2>2. x \in {"closing", "Ok"} => /\ serverConn[c] # "open"
                                   /\ \A i \in Req : streams[c][i] \in {"none", "opened", "Ok"}
    BY <1>1, <1>3 DEF ServerSide
  <2>3. x = "Ok" => serverConn[c] = "closed"
    BY <1>3
  <2>4. server[c] # "none" /\ x # "none" /\ x # "handshaking"
    BY <1>3
  <2> QED
    BY <1>1, <1>2, <1>4, <2>1, <2>2, <2>3, <2>4 DEF ServerSide, Req
<1>9. ConnInv(c)'
  BY <1>6, <1>7, <1>8 DEF ConnInv
<1> QED
  BY <1>1, <1>2, <1>4, <1>5, <1>9, ServerStep

\* A stream moves on: OpenStream, AcceptStream, Answer, Acknowledged, StreamFails.
LEMMA StreamInv ==
  ASSUME QuicInv, NEW c \in Conn, NEW i \in DOMAIN requests[c],
         OpenStream(c, i) \/ AcceptStream(c, i) \/ Answer(c, i) \/ Acknowledged(c, i) \/ StreamFails(c, i)
  PROVE  QuicInv'
<1>1. /\ Handles /\ ConnInv(c) /\ ClientSide(c) /\ Claimed(c) /\ Permits(c) /\ StreamSide(c) /\ ServerSide(c)
      /\ server \in [Conn -> ServerState] /\ serverConn \in [Conn -> ServerEnd]
      /\ streams \in [Conn -> [Req -> StreamState]] /\ handles \in Seq(Conn)
      /\ streams[c] \in [Req -> StreamState] /\ i \in Req /\ serverConn[c] \in ServerEnd
      /\ DOMAIN requests[c] \subseteq Req
  BY ServerFacts
<1>2. /\ InServer /\ UNCHANGED <<server, serverConn, handles>>
      /\ UNCHANGED <<opt, requestsLeft, client, claimed, held, requests, reqJoined, clientConn>>
  BY DEF OpenStream, AcceptStream, Answer, Acknowledged, StreamFails, InServer, clientVars
<1>3. PICK x \in StreamState :
        /\ streams' = [streams EXCEPT ![c][i] = x]
        /\ \/ streams[c][i] = "none" /\ x = "opened"
           \/ streams[c][i] = "opened" /\ x = "reading" /\ serverConn[c] = "open" /\ server[c] = "accepting"
           \/ streams[c][i] = "reading" /\ x = "answered" /\ serverConn[c] = "open"
           \/ streams[c][i] = "answered" /\ x = "Ok" /\ requests[c][i] = "Ok"
           \/ streams[c][i] = "answered" /\ x = "unacked" /\ serverConn[c] # "open"
           \/ streams[c][i] = "reading" /\ x = "Err" /\ serverConn[c] # "open"
  <2>1. CASE OpenStream(c, i) \/ AcceptStream(c, i) \/ Answer(c, i) \/ Acknowledged(c, i)
    BY <2>1 DEF OpenStream, AcceptStream, Answer, Acknowledged, StreamState
  <2>2. CASE StreamFails(c, i)
    <3>1. /\ streams[c][i] \in {"reading", "answered"} /\ serverConn[c] # "open"
          /\ streams' = [streams EXCEPT ![c][i] = IF streams[c][i] = "answered" THEN "unacked" ELSE "Err"]
      BY <1>1, <2>2 DEF StreamFails
    <3> QED
      BY <3>1 DEF StreamState
  <2> QED
    BY <2>1, <2>2
<1>4. PICK new : new = [streams[c] EXCEPT ![i] = x]
  OBVIOUS
<1>5. new \in [Req -> StreamState] /\ new[i] = x /\ \A j \in Req : j # i => new[j] = streams[c][j]
  BY <1>1, <1>3, <1>4
<1>6. streams' = [streams EXCEPT ![c] = new]
  BY <1>1, <1>3, <1>4
<1>7. streams'[c] = new /\ streams' \in [Conn -> [Req -> StreamState]] /\ \A d \in Conn \ {c} : streams'[d] = streams[d]
  BY <1>1, <1>5, <1>6
<1>8. Handles'
  <2>1. Accepted' = Accepted /\ handled' = handled
    BY <1>2 DEF Accepted, InServer, driverVars
  <2> QED
    BY <1>1, <1>2, <2>1 DEF Handles
<1>9. ClientSide(c)' /\ Claimed(c)'
  BY <1>1, <1>2 DEF ClientSide, Claimed
<1>10. Permits(c)'
  <2>1. Running(c)' = Running(c)
    BY <1>2 DEF Running
  <2> QED
    BY <1>1, <1>2, <2>1 DEF Permits
<1>11. StreamSide(c)'
  <2>1. requests[c][i] = "Ok" => x \in {"answered", "unacked", "Ok"}
    BY <1>1, <1>3 DEF StreamSide
  <2>2. x = "Ok" => requests[c][i] = "Ok"
    BY <1>3
  <2>3. x \in {"Err", "unacked"} => serverConn[c] \in {"lost", "overtaken", "dead"}
    BY <1>1, <1>3 DEF StreamSide, ServerEnd
  <2>4. x \in {"reading", "answered"} => serverConn[c] \notin {"none", "closed"}
    BY <1>3
  <2>5. Req' = Req
    BY <1>2 DEF Req
  <2> QED
    BY <1>1, <1>2, <1>5, <1>7, <2>1, <2>2, <2>3, <2>4, <2>5 DEF StreamSide
<1>12. ServerSide(c)'
  <2>1. server[c] \in {"closing", "Ok"} => x \in {"none", "opened", "Ok"}
    BY <1>1, <1>3 DEF ServerSide
  <2>2. Req' = Req
    BY <1>2 DEF Req
  <2> QED
    BY <1>1, <1>2, <1>5, <1>7, <2>1, <2>2 DEF ServerSide
<1>13. ConnInv(c)'
  BY <1>9, <1>10, <1>11, <1>12 DEF ConnInv
<1> QED
  BY <1>1, <1>2, <1>7, <1>8, <1>13, ServerStep

\* The server's end learns of a close, or gives up.
LEMMA ServerEndInv ==
  ASSUME QuicInv, NEW c \in Conn, CloseArrives(c) \/ ServerLoses(c) \/ ServerDies(c)
  PROVE  QuicInv'
<1>1. /\ Handles /\ ConnInv(c) /\ ClientSide(c) /\ Claimed(c) /\ Permits(c) /\ StreamSide(c) /\ ServerSide(c)
      /\ server \in [Conn -> ServerState] /\ serverConn \in [Conn -> ServerEnd]
      /\ streams \in [Conn -> [Req -> StreamState]] /\ handles \in Seq(Conn)
      /\ streams[c] \in [Req -> StreamState] /\ DOMAIN requests[c] \subseteq Req
      /\ clientConn[c] \in {"none", "open", "closed", "lost", "dead"} /\ client[c] \in ClientState
  BY ServerFacts
<1>2. /\ InServer /\ UNCHANGED <<server, handles>> /\ serverConn[c] = "open"
      /\ UNCHANGED <<opt, requestsLeft, client, claimed, held, requests, reqJoined, clientConn>>
  BY DEF CloseArrives, ServerLoses, ServerDies, InServer, clientVars
<1>3. Handles'
  <2>1. Accepted' = Accepted /\ handled' = handled
    BY <1>2 DEF Accepted, InServer, driverVars
  <2> QED
    BY <1>1, <1>2, <2>1 DEF Handles
<1>4. ClientSide(c)' /\ Claimed(c)' /\ Req' = Req
  BY <1>1, <1>2 DEF ClientSide, Claimed, Req
<1>5. Permits(c)'
  <2>1. Running(c)' = Running(c)
    BY <1>2 DEF Running
  <2> QED
    BY <1>1, <1>2, <2>1 DEF Permits
<1>6. CASE ServerLoses(c) \/ ServerDies(c)
  <2>1. PICK y \in {"lost", "dead"} : serverConn' = [serverConn EXCEPT ![c] = y] /\ streams' = streams
    BY <1>6 DEF ServerLoses, ServerDies
  <2>2. /\ serverConn'[c] = y /\ serverConn' \in [Conn -> ServerEnd]
        /\ \A d \in Conn \ {c} : serverConn'[d] = serverConn[d]
    BY <1>1, <2>1 DEF ServerEnd
  <2>3. StreamSide(c)' /\ ServerSide(c)'
    BY <1>1, <1>2, <1>4, <2>1, <2>2 DEF StreamSide, ServerSide
  <2>4. ConnInv(c)'
    BY <1>4, <1>5, <2>3 DEF ConnInv
  <2> QED
    BY <1>1, <1>2, <1>3, <2>1, <2>2, <2>4, ServerStep
<1>7. CASE CloseArrives(c)
  <2>1. clientConn[c] = "closed"
    BY <1>7 DEF CloseArrives
  <2>2. client[c] = "Ok" /\ \A i \in DOMAIN requests[c] : requests[c][i] = "Ok"
    <3>1. client[c] = "Ok"
      BY <1>1, <2>1 DEF ClientSide, ClientState
    <3>2. DOMAIN requests[c] = 1..Len(requests[c])
      BY ClientFacts
    <3> QED
      BY <1>1, <3>1, <3>2 DEF ClientSide
  <2>3. \A i \in Req : streams[c][i] \in {"none", "answered", "Ok"}
    BY <1>1, <1>2, <2>2 DEF StreamSide
  <2>4. PICK y \in ServerEnd : /\ serverConn' = [serverConn EXCEPT ![c] = y]
                               /\ y = IF server[c] = "handshaking" THEN "overtaken" ELSE "closed"
    BY <1>7 DEF CloseArrives, ServerEnd
  <2>5. PICK new : new = [i \in Req |-> IF streams[c][i] = "answered" THEN "Ok" ELSE streams[c][i]]
    OBVIOUS
  <2>6. streams' = [streams EXCEPT ![c] = new]
    <3>1. streams' = [streams EXCEPT ![c] =
            [i \in DOMAIN streams[c] |-> IF streams[c][i] = "answered" THEN "Ok" ELSE streams[c][i]]]
      BY <1>1, <1>7 DEF CloseArrives
    <3>2. DOMAIN streams[c] = Req
      BY <1>1
    <3> QED
      BY <2>5, <3>1, <3>2
  <2>7. new \in [Req -> StreamState] /\ \A i \in Req : new[i] \in {"none", "Ok"} /\ (new[i] = "none" <=> streams[c][i] = "none")
    BY <2>3, <2>5 DEF StreamState
  <2>8. /\ streams'[c] = new /\ streams' \in [Conn -> [Req -> StreamState]]
        /\ serverConn'[c] = y /\ serverConn' \in [Conn -> ServerEnd]
        /\ \A d \in Conn \ {c} : streams'[d] = streams[d] /\ serverConn'[d] = serverConn[d]
    BY <1>1, <2>4, <2>6, <2>7
  <2>9. StreamSide(c)'
    <3>1. \A i \in Req : new[i] = "Ok" => i \in DOMAIN requests[c] /\ requests[c][i] = "Ok"
      BY <1>1, <2>2, <2>7 DEF StreamSide
    <3>2. \A i \in DOMAIN requests[c] : new[i] = "Ok"
      BY <1>1, <2>2, <2>7 DEF StreamSide
    <3> QED
      BY <1>2, <1>4, <2>7, <2>8, <3>1, <3>2 DEF StreamSide
  <2>10. ServerSide(c)'
    <3>1. server[c] \notin {"none", "Err", "panicked", "closing", "Ok"}
      BY <1>1, <1>2 DEF ServerSide
    <3> QED
      BY <1>1, <1>2, <1>4, <2>1, <2>4, <2>8, <3>1 DEF ServerSide
  <2>11. ConnInv(c)'
    BY <1>4, <1>5, <2>9, <2>10 DEF ConnInv
  <2> QED
    BY <1>1, <1>2, <1>3, <2>8, <2>11, ServerStep
<1> QED
  BY <1>6, <1>7

-----------------------------------------------------------------------------

LEMMA InitQuic == Init => QuicInv
<1> SUFFICES ASSUME Init PROVE QuicInv
  OBVIOUS
<1>1. opt \in Options /\ opt.requests \in Nat /\ opt.streams \in Nat /\ opt.conns \in Nat
      /\ MaxConnections \in Nat /\ Rounds \in Nat
  BY QuicAssumption DEF Init
<1>2. TypeOK
  <2>1. unrouted \subseteq opt.fragile /\ ended \subseteq opt.fragile
    BY DEF Init
  <2>2. probes \in [Way -> [wire: 0..Rounds, inbound: 0..Rounds, received: BOOLEAN]] /\ round \in 0..Rounds
    BY <1>1 DEF Init
  <2>3. connTasks \in 0..MaxConnections /\ joined \in 0..connTasks /\ handled \in 0..connTasks
        /\ requestsLeft \in 0..opt.requests
    BY <1>1 DEF Init
  <2>4. /\ client \in [Conn -> {"none", "connecting", "claiming", "acquiring", "sleeping", "joining", "Ok", "Err"}]
        /\ clientConn \in [Conn -> {"none", "open", "closed", "lost", "dead"}]
        /\ server \in [Conn -> {"none", "handshaking", "accepting", "closing", "Ok", "Err", "panicked"}]
        /\ serverConn \in [Conn -> {"none", "open", "closed", "overtaken", "lost", "dead"}]
        /\ streams \in [Conn -> [Req -> {"none", "opened", "reading", "answered", "unacked", "Ok", "Err"}]]
    BY DEF Init
  <2>5. claimed \in [Conn -> 0..opt.requests] /\ held \in [Conn -> 0..opt.streams]
        /\ reqJoined \in [Conn -> Nat]
    BY <1>1 DEF Init
  <2>6. requests \in [Conn -> Seq(TaskState)] /\ \A c \in Conn : reqJoined[c] <= Len(requests[c])
    BY DEF Init
  <2>7. handles \in Seq(Conn) /\ driver = "validate"
    BY DEF Init
  <2> QED
    BY <1>1, <2>1, <2>2, <2>3, <2>4, <2>5, <2>6, <2>7 DEF TypeOK
<1>3. ProbesSent
  BY DEF Init, ProbesSent
<1>4. Phase
  BY <1>1 DEF Init, Phase, Way
<1>5. Started /\ AllOk
  BY <1>1 DEF Init, Started, AllOk, Conn
<1>6. Handles
  <2>1. Accepted = {}
    BY DEF Init, Accepted
  <2>2. Cardinality({}) = 0
    BY FS_EmptySet
  <2>3. handles = <<>> /\ handled = 0
    BY DEF Init
  <2> QED
    BY <2>1, <2>2, <2>3 DEF Handles
<1>7. Budget
  <2>1. Claims = {}
    BY <1>1 DEF Init, Claims, Req
  <2>2. Cardinality({}) = 0
    BY FS_EmptySet
  <2> QED
    BY <1>1, <2>1, <2>2 DEF Init, Budget
<1>8. ASSUME NEW c \in Conn PROVE ConnInv(c)
  <2>1. /\ client[c] = "none" /\ clientConn[c] = "none" /\ requests[c] = <<>> /\ reqJoined[c] = 0
        /\ claimed[c] = 0 /\ held[c] = 0 /\ server[c] = "none" /\ serverConn[c] = "none"
        /\ \A i \in Req : streams[c][i] = "none"
    BY DEF Init
  <2>2. Running(c) = {}
    BY <2>1 DEF Running
  <2>3. Permits(c)
    BY <2>1, <2>2, FS_EmptySet DEF Permits
  <2>4. ClientSide(c) /\ Claimed(c)
    BY <2>1 DEF ClientSide, Claimed
  <2>5. StreamSide(c) /\ ServerSide(c)
    BY <2>1 DEF StreamSide, ServerSide
  <2> QED
    BY <2>3, <2>4, <2>5 DEF ConnInv
<1> QED
  BY <1>2, <1>3, <1>4, <1>5, <1>6, <1>7, <1>8 DEF QuicInv

LEMMA NextQuic == QuicInv /\ [Next]_vars => QuicInv'
<1> SUFFICES ASSUME QuicInv, [Next]_vars
             PROVE  QuicInv'
  OBVIOUS
<1>1. CASE Check
  BY <1>1, CheckInv
<1>2. CASE Driver
  BY <1>2, CheckInv, JoinConnectionInv, DrainHandleInv, StartInv DEF Driver
<1>3. ASSUME NEW c \in Conn, ClientTask(c) \/ Client(c) \/ ClientDies(c) PROVE QuicInv'
  BY <1>3, ConnectionStateInv, ClaimInv, AcquireInv, JoinRequestInv, RequestEndsInv, StreamInv DEF ClientTask, Client
<1>4. ASSUME NEW c \in Conn, Server(c) \/ ServerDies(c) PROVE QuicInv'
  BY <1>4, AcceptInv, ServerTaskInv, ServerEndInv, StreamInv DEF Server
<1>5. CASE UNCHANGED vars
  <2>1. InCheck /\ UNCHANGED <<driver, round, probes, unrouted, ended>>
    BY <1>5 DEF vars, InCheck, checkVars
  <2>2. TypeOK'
    BY <2>1, TypesFrame DEF QuicInv, TypeOK
  <2>3. /\ Started' /\ AllOk' /\ Handles' /\ Budget' /\ \A c \in Conn : ConnInv(c)'
        /\ opt' = opt /\ connTasks' = connTasks /\ joined' = joined /\ handled' = handled
        /\ \A c \in Conn : Fault(c)' = Fault(c)
    BY <2>1, TasksFrame
  <2>4. ProbesSent' /\ Phase'
    BY <2>1, <2>3 DEF QuicInv, ProbesSent, Phase, Validated, Checked
  <2> QED
    BY <2>2, <2>3, <2>4 DEF QuicInv
<1> QED
  BY <1>1, <1>2, <1>3, <1>4, <1>5 DEF Next

\* Types: the driver joins and counts no more tasks than it started, and the
\* budget and the permits never run below zero or above their options.
THEOREM QuicTypes == Spec => []TypeOK
<1>1. QuicInv => TypeOK
  BY DEF QuicInv
<1> QED
  BY <1>1, InitQuic, NextQuic, PTL DEF Spec

\* A connection never has more requests under way than --concurrent-streams,
\* its sleep begins after the last response, and no permit is lost or freed
\* twice.
THEOREM StreamsAreLimited == Spec => []StreamLimit
<1>1. ASSUME QuicInv PROVE StreamLimit
  <2>1. ASSUME NEW c \in Conn
        PROVE  /\ With(c, "running") <= opt.streams
               /\ held[c] = With(c, "running") + (IF client[c] = "sleeping" THEN 1 ELSE 0)
               /\ client[c] = "sleeping" => With(c, "running") = 0
    <3>1. held[c] \in 0..opt.streams /\ opt.streams \in Nat /\ Permits(c) /\ ClientSide(c)
      BY <1>1, ClientFacts
    <3>2. With(c, "running") = Cardinality(Running(c)) /\ Cardinality(Running(c)) \in Nat
      BY <1>1, RunningType DEF With, Running
    <3>3. held[c] = With(c, "running") + (IF client[c] = "sleeping" THEN 1 ELSE 0)
      BY <3>1, <3>2 DEF Permits
    <3>4. client[c] = "sleeping" => opt.streams = 1
      <4>1. client[c] # "none" => connTasks > 0
        BY <1>1, DriverFacts DEF Started, Conn
      <4> QED
        BY <1>1, <3>1, <4>1 DEF ClientSide, QuicInv, Phase, Validated
    <3> QED
      BY <3>1, <3>2, <3>3, <3>4
  <2> QED
    BY <2>1 DEF StreamLimit
<1> QED
  BY <1>1, InitQuic, NextQuic, PTL DEF Spec

\* When the run has ended well, every connection was accepted, joined on both
\* sides and closed on both.
LEMMA AllServed ==
  ASSUME QuicInv, driver = "Ok"
  PROVE  /\ connTasks = opt.conns /\ connTasks \in Nat \ {0} /\ handles = <<>>
         /\ 1..connTasks \subseteq Conn
         /\ \A c \in 1..connTasks : /\ client[c] = "Ok" /\ clientConn[c] = "closed"
                                    /\ server[c] = "Ok" /\ serverConn[c] = "closed"
         /\ \A c \in Conn : c \notin 1..connTasks => client[c] = "none"
<1>1. /\ Phase /\ Started /\ AllOk /\ Handles /\ \A c \in Conn : ConnInv(c)
      /\ connTasks \in Nat /\ joined \in Nat /\ handled \in Nat
      /\ connTasks <= MaxConnections /\ MaxConnections \in Nat
      /\ handles \in Seq(Conn) /\ \A c \in Conn : c \in Nat /\ c >= 1
  BY DriverFacts
<1>2. connTasks = opt.conns /\ joined = connTasks /\ connTasks > 0 /\ handled = connTasks
  BY <1>1 DEF Phase
<1>3. 1..connTasks \subseteq Conn /\ \A c \in Conn : c \notin 1..connTasks => client[c] = "none"
  BY <1>1 DEF Started, Conn
<1>4. Accepted \subseteq 1..connTasks
  BY <1>1 DEF Accepted, Started, ConnInv, ServerSide
<1>5. IsFiniteSet(1..connTasks) /\ Cardinality(1..connTasks) = connTasks
  <2>1. connTasks \in Int /\ 1 \in Int
    BY <1>1
  <2>2. IsFiniteSet(1..connTasks)
        /\ Cardinality(1..connTasks) = IF 1 > connTasks THEN 0 ELSE connTasks - 1 + 1
    BY <2>1, FS_Interval
  <2> QED
    BY <1>2, <2>1, <2>2
<1>6. /\ Cardinality(Accepted) <= connTasks
      /\ Cardinality(Accepted) = connTasks => Accepted = 1..connTasks
  BY <1>4, <1>5, FS_Subset
<1>7. Len(handles) \in Nat /\ connTasks + Len(handles) = Cardinality(Accepted)
  BY <1>1, <1>2, LenProperties DEF Handles
<1>8. Len(handles) = 0 /\ Cardinality(Accepted) = connTasks
  BY <1>1, <1>6, <1>7
<1>9. handles = <<>> /\ DOMAIN handles = {}
  BY <1>1, <1>8, EmptySeq
<1>10. \A c \in 1..connTasks : server[c] = "Ok"
  BY <1>1, <1>6, <1>8, <1>9 DEF Handles
<1>11. \A c \in 1..connTasks : serverConn[c] = "closed" /\ clientConn[c] = "closed"
  BY <1>1, <1>3, <1>10 DEF ConnInv, ServerSide
<1> QED
  BY <1>1, <1>2, <1>3, <1>9, <1>10, <1>11 DEF AllOk

\* The result of the run is the truth: connections start only after a check that
\* passed, Ok means that both sides of every connection ended well, and an error
\* after that has a connection that failed behind it.
THEOREM ResultStaysTrue == Spec => []ResultIsTrue
<1>1. ASSUME QuicInv PROVE ResultIsTrue
  <2>1. Phase /\ connTasks \in Nat
    BY <1>1, DriverFacts
  <2>2. driver = "Ok" => /\ connTasks = opt.conns /\ handles = <<>>
                         /\ \A c \in 1..opt.conns : /\ client[c] = "Ok" /\ clientConn[c] = "closed"
                                                    /\ server[c] = "Ok" /\ serverConn[c] = "closed"
    BY <1>1, AllServed
  <2> QED
    BY <2>1, <2>2 DEF ResultIsTrue, Phase, Checked
<1> QED
  BY <1>1, InitQuic, NextQuic, PTL DEF Spec

\* The budget that the connections race for is conserved, every claim becomes one
\* request, and a run that ends well has had every request answered once.
THEOREM RequestsAreMadeOnce == Spec => []EveryRequestOnce
<1>1. ASSUME QuicInv PROVE EveryRequestOnce
  <2>1. Budget /\ \A c \in Conn : ConnInv(c)
    BY <1>1, DriverFacts
  <2>2. \A c \in Conn : Claimed(c)
    BY <2>1 DEF ConnInv
  <2>3. ASSUME driver = "Ok"
        PROVE  Cardinality(Succeeded) = opt.requests /\ Cardinality(Answered) = opt.requests
    <3>1. /\ connTasks \in Nat \ {0} /\ 1..connTasks \subseteq Conn
          /\ \A c \in 1..connTasks : client[c] = "Ok" /\ server[c] = "Ok"
          /\ \A c \in Conn : c \notin 1..connTasks => client[c] = "none"
      BY <1>1, <2>3, AllServed
    <3>2. requestsLeft = 0
      BY <2>1, <3>1 DEF ConnInv, ClientSide
    <3>3. Cardinality(Claims) = opt.requests
      <4>1. Cardinality(Claims) \in Nat
        BY <1>1, ClaimsType
      <4> QED
        BY <2>1, <3>2, <4>1 DEF Budget
    <3>4. ASSUME NEW c \in Conn, NEW i \in Req
          PROVE  /\ i <= claimed[c] <=> i \in DOMAIN requests[c] /\ requests[c][i] = "Ok"
                 /\ i <= claimed[c] <=> streams[c][i] = "Ok"
      <4>1. requests[c] \in Seq(TaskState) /\ opt.requests \in Nat
        BY <1>1, ClientFacts
      <4>2. Len(requests[c]) \in Nat /\ DOMAIN requests[c] = 1..Len(requests[c]) /\ i \in Nat /\ i >= 1
        BY <4>1, LenProperties DEF Req
      <4>3. claimed[c] = Len(requests[c])
        <5>1. client[c] \in {"Ok", "none"}
          BY <3>1
        <5>2. ~(client[c] \in {"acquiring", "sleeping"})
          BY <5>1
        <5>3. Claimed(c)
          BY <2>2
        <5>4. claimed[c] = Len(requests[c]) + 0
          BY <5>2, <5>3 DEF Claimed
        <5> QED
          BY <4>2, <5>4
      <4>4. i <= claimed[c] <=> i \in DOMAIN requests[c]
        BY <4>2, <4>3
      <4>5. ASSUME i \in DOMAIN requests[c]
            PROVE  requests[c][i] = "Ok" /\ streams[c][i] = "Ok"
        <5>1. c \in 1..connTasks
          <6>1. client[c] = "none" => DOMAIN requests[c] = {}
            BY <2>1 DEF ConnInv, ClientSide
          <6> QED
            BY <3>1, <4>5, <6>1
        <5>2. requests[c][i] = "Ok"
          BY <2>1, <3>1, <4>2, <4>5, <5>1 DEF ConnInv, ClientSide
        <5> QED
          BY <2>1, <3>1, <4>5, <5>1, <5>2 DEF ConnInv, StreamSide, ServerSide
      <4>6. streams[c][i] = "Ok" => i \in DOMAIN requests[c]
        BY <2>1 DEF ConnInv, StreamSide
      <4> QED
        BY <4>4, <4>5, <4>6
    <3>5. Succeeded = Claims
      BY <3>4 DEF Succeeded, Claims
    <3>6. Answered = Claims
      BY <3>4 DEF Answered, Claims
    <3> QED
      BY <3>3, <3>5, <3>6
  <2> QED
    BY <2>1, <2>2, <2>3 DEF EveryRequestOnce, Budget, Claimed
<1> QED
  BY <1>1, InitQuic, NextQuic, PTL DEF Spec

=============================================================================
