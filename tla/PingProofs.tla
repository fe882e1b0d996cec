----------------------------- MODULE PingProofs -----------------------------
(***************************************************************************)
(* Proofs about the `ping' command: its types, that every ping gets one    *)
(* verdict, and that the verdict is the right one.                         *)
(***************************************************************************)
EXTENDS Ping, FiniteSetTheorems, TLAPS

\* The sender's numbers and its clock go together: the sleeps add up to the
\* number of pings sent, so that the duration bounds that number.
SentOnTime == nextSend = pingNr * Interval

\* What Append does to the positions of a sequence.
LEMMA AppendPositions ==
  ASSUME NEW S, NEW s \in Seq(S), NEW e \in S
  PROVE  /\ DOMAIN Append(s, e) = DOMAIN s \cup {Len(s) + 1}
         /\ Len(s) + 1 \notin DOMAIN s
         /\ Append(s, e)[Len(s) + 1] = e
         /\ \A i \in DOMAIN s : Append(s, e)[i] = s[i]
<1>1. DOMAIN s = 1..Len(s) /\ Len(s) \in Nat
  OBVIOUS
<1>2. Append(s, e) \in Seq(S) /\ Len(Append(s, e)) = Len(s) + 1
  OBVIOUS
<1>3. DOMAIN Append(s, e) = 1..(Len(s) + 1)
  BY <1>2
<1> QED
  BY <1>1, <1>3

LEMMA PingInTime ==
  ASSUME NEW n \in Nat, n * Interval <= Duration
  PROVE  n \in Number
<1>1. Duration \in Nat /\ Interval \in Nat /\ Interval # 0
  BY PingAssumption
<1>2. PICK q \in Int : q = Duration \div Interval
  BY <1>1
<1>3. Duration < q * Interval + Interval /\ q >= 0
  BY <1>1, <1>2
<1>4. n * Interval < (q + 1) * Interval
  BY <1>1, <1>3
<1>5. n < q + 1
  BY <1>1, <1>2, <1>4
<1> QED
  BY <1>2, <1>3, <1>5 DEF Number, MaxNr

Types == TypeOK /\ SentOnTime

LEMMA InitTypes == Init => Types
<1> SUFFICES ASSUME Init PROVE Types
  OBVIOUS
<1>1. Duration \in Nat /\ Deadline \in Nat /\ Interval \in Nat /\ MaxNr \in Nat
  BY PingAssumption DEF MaxNr
<1>2. wire \in [Message -> Nat] /\ firstReply \in [Number -> {Never} \cup (0..Duration)]
  BY DEF Init
<1>3. lost \in Seq(Number) /\ printed \in Seq(Line)
  BY DEF Init
<1>4. SentOnTime
  <2>1. nextSend = 0 /\ pingNr = 0
    BY DEF Init
  <2> QED
    BY <1>1, <2>1 DEF SentOnTime
<1>5. routed \subseteq Host /\ nodeTask \subseteq Host /\ alive \subseteq {"sender", "server"}
      /\ done \in BOOLEAN
  BY DEF Init
<1>6. now \in 0..Duration /\ pingNr \in 0..(MaxNr + 1) /\ nextSend \in 0..(Duration + Interval)
  BY <1>1 DEF Init
<1>7. inFlight = {} /\ deadlines = {}
  BY DEF Init
<1> QED
  BY <1>2, <1>3, <1>4, <1>5, <1>6, <1>7 DEF Types, TypeOK

\* A number of copies that the network delivers.
LEMMA CopiesType ==
  ASSUME NEW h, NEW c \in Copies(h)
  PROVE  c \in Nat
  BY PingAssumption DEF Copies

\* What the driver leaves of the clock: all types are about the same instants.
LEMMA NextTypes == Types /\ [Next]_vars => Types'
<1> SUFFICES ASSUME Types, [Next]_vars
             PROVE  Types'
  OBVIOUS
<1>1. Duration \in Nat /\ Deadline \in Nat /\ Interval \in Nat /\ MaxNr \in Nat
  BY PingAssumption DEF MaxNr
<1>2. now \in 0..Duration /\ pingNr \in 0..(MaxNr + 1) /\ nextSend \in 0..(Duration + Interval)
  BY DEF Types, TypeOK
<1>3. CASE SendPing
  <2>1. pingNr \in Number
    BY <1>1, <1>2, <1>3, PingInTime DEF SendPing, Types, SentOnTime
  <2>2. now = nextSend /\ pingNr' = pingNr + 1 /\ nextSend' = now + Interval /\ now' = now
    BY <1>3 DEF SendPing, fixed, NextPing
  <2>3. nextSend' = pingNr' * Interval
    <3>1. nextSend = pingNr * Interval
      BY DEF Types, SentOnTime
    <3>2. pingNr \in Nat
      BY <1>1, <1>2
    <3> QED
      BY <1>1, <2>2, <3>1, <3>2
  <2>4. pingNr' \in 0..(MaxNr + 1) /\ nextSend' \in 0..(Duration + Interval)
    BY <1>1, <1>2, <2>1, <2>2 DEF Number
  <2>5. inFlight' \subseteq [nr: Number, sent: 0..Duration]
    BY <1>2, <1>3, <2>1 DEF SendPing, Types, TypeOK
  <2>6. deadlines' \subseteq [nr: Number, at: 0..(Duration + Deadline)]
    <3>1. now + Deadline \in 0..(Duration + Deadline)
      BY <1>1, <1>2
    <3> QED
      BY <1>3, <2>1, <3>1 DEF SendPing, Types, TypeOK, DeadlineAt
  <2>7. wire' \in [Message -> Nat] /\ nodeTask' \subseteq Host
    <3>1. wire \in [Message -> Nat] /\ nodeTask \subseteq Host
      BY DEF Types, TypeOK
    <3>2. PICK c \in Copies("client") : wire' = [wire EXCEPT ![<<"ping", pingNr>>] = @ + c]
      BY <1>3 DEF SendPing, TrySend
    <3>3. c \in Nat /\ <<"ping", pingNr>> \in Message
      BY <2>1, CopiesType DEF Message
    <3>4. nodeTask' \subseteq nodeTask
      BY <1>3 DEF SendPing, TrySend, Handover
    <3> QED
      BY <3>1, <3>2, <3>3, <3>4
  <2> QED
    BY <1>3, <2>2, <2>3, <2>4, <2>5, <2>6, <2>7 DEF SendPing, Types, TypeOK, SentOnTime, fixed
<1>4. CASE SenderPanics
  BY <1>4 DEF SenderPanics, Types, TypeOK, SentOnTime, fixed
<1>5. ASSUME NEW d \in deadlines, DeadlineExpires(d)
      PROVE  Types'
  <2>1. deadlines' \subseteq [nr: Number, at: 0..(Duration + Deadline)] /\ d.nr \in Number
    BY <1>5 DEF DeadlineExpires, Types, TypeOK
  <2>2. inFlight' \subseteq inFlight /\ inFlight \subseteq [nr: Number, sent: 0..Duration]
    BY <1>5 DEF DeadlineExpires, Remove, Types, TypeOK
  <2>3. lost' \in Seq(Number)
    <3>1. lost \in Seq(Number)
      BY DEF Types, TypeOK
    <3>2. lost' = lost \/ lost' = Append(lost, d.nr)
      BY <1>5 DEF DeadlineExpires
    <3> QED
      BY <2>1, <3>1, <3>2
  <2>4. printed' \in Seq(Line)
    <3>1. printed \in Seq(Line)
      BY DEF Types, TypeOK
    <3>2. ASSUME NEW p \in inFlight
          PROVE  [nr |-> d.nr, verdict |-> "LOST", sent |-> p.sent, at |-> now] \in Line
      BY <1>2, <2>1, <2>2, <3>2 DEF Line
    <3>3. printed' = printed \/ \E line \in Line : printed' = Append(printed, line)
      BY <1>5, <3>2 DEF DeadlineExpires
    <3> QED
      BY <3>1, <3>3
  <2> QED
    BY <1>5, <2>1, <2>2, <2>3, <2>4 DEF DeadlineExpires, Types, TypeOK, SentOnTime, fixed
<1>6. ASSUME NEW n \in Number, ReceiveReply(n)
      PROVE  Types'
  <2>1. wire' \in [Message -> Nat]
    <3>1. wire \in [Message -> Nat] /\ <<"reply", n>> \in Message
      BY DEF Types, TypeOK, Message
    <3>2. wire[<<"reply", n>>] - 1 \in Nat
      BY <1>6, <3>1 DEF ReceiveReply
    <3> QED
      BY <1>6, <3>1, <3>2 DEF ReceiveReply
  <2>2. firstReply' \in [Number -> {Never} \cup (0..Duration)]
    BY <1>2, <1>6 DEF ReceiveReply, Types, TypeOK
  <2>3. inFlight' \subseteq inFlight /\ inFlight \subseteq [nr: Number, sent: 0..Duration]
    BY <1>6 DEF ReceiveReply, Remove, Types, TypeOK
  <2>4. printed' \in Seq(Line)
    <3>1. printed \in Seq(Line)
      BY DEF Types, TypeOK
    <3>2. ASSUME NEW p \in inFlight
          PROVE  [nr |-> n, verdict |-> "RECEIVED", sent |-> p.sent, at |-> now] \in Line
      BY <1>2, <2>3, <3>2 DEF Line
    <3>3. printed' = printed \/ \E line \in Line : printed' = Append(printed, line)
      BY <1>6, <3>2 DEF ReceiveReply
    <3> QED
      BY <3>1, <3>3
  <2> QED
    BY <1>6, <2>1, <2>2, <2>3, <2>4 DEF ReceiveReply, Types, TypeOK, SentOnTime, fixed
<1>7. ASSUME NEW n \in Number, Echo(n) \/ ServerPanics(n)
      PROVE  Types'
  <2>1. wire' \in [Message -> Nat]
    <3>1. wire \in [Message -> Nat] /\ <<"reply", n>> \in Message /\ <<"ping", n>> \in Message
      BY DEF Types, TypeOK, Message
    <3>2. wire[<<"ping", n>>] - 1 \in Nat
      BY <1>7, <3>1 DEF Echo, ServerPanics
    <3>3. ASSUME NEW c \in Copies("server")
          PROVE  [wire EXCEPT ![<<"ping", n>>] = @ - 1, ![<<"reply", n>>] = @ + c] \in [Message -> Nat]
      BY <3>1, <3>2, <3>3, CopiesType
    <3> QED
      BY <1>7, <3>1, <3>2, <3>3 DEF Echo, ServerPanics
  <2>2. nodeTask' \subseteq Host /\ alive' \subseteq {"sender", "server"}
    BY <1>7 DEF Echo, ServerPanics, Handover, Types, TypeOK
  <2> QED
    BY <1>7, <2>1, <2>2 DEF Echo, ServerPanics, Types, TypeOK, SentOnTime, fixed
<1>8. CASE Tick
  <2>1. now' \in 0..Duration
    BY <1>1, <1>2, <1>8 DEF Tick, Idle
  <2> QED
    BY <1>8, <2>1 DEF Tick, Types, TypeOK, SentOnTime
<1>9. CASE Finish \/ UNCHANGED vars
  BY <1>9 DEF Finish, vars, Types, TypeOK, SentOnTime
<1> QED
  BY <1>3, <1>4, <1>5, <1>6, <1>7, <1>8, <1>9 DEF Next

\* Types.  The sender sends no more pings than fit into the duration, and no
\* verdict carries a time after the end of the run, for every duration,
\* deadline and interval.
THEOREM PingTypes == Spec => []TypeOK
<1>1. Types => TypeOK
  BY DEF Types
<1> QED
  BY <1>1, InitTypes, NextTypes, PTL DEF Spec

-----------------------------------------------------------------------------
(* One verdict for each ping.                                               *)

\* EveryPingAccounted is not inductive.  A deadline task and a ping in flight
\* with the same number belong together, a ping still to be sent has neither a
\* deadline task nor a message under way, and each ping is in flight or has a
\* line, never both.
Waiting(n, p)  == {x \in inFlight : x.nr = n} = {p} /\ LinesOf(n) = {}
Decided(n, i)  == {x \in inFlight : x.nr = n} = {} /\ LinesOf(n) = {i}
Unsent(n)      == /\ {x \in inFlight : x.nr = n} = {} /\ LinesOf(n) = {}
                  /\ wire[<<"ping", n>>] = 0 /\ wire[<<"reply", n>>] = 0
                  /\ firstReply[n] = Never

OneVerdict ==
  \A n \in Number :
    IF n < pingNr THEN (\E p \in inFlight : Waiting(n, p)) \/ (\E i \in DOMAIN printed : Decided(n, i))
                  ELSE Unsent(n)

InTime ==
  /\ \A p \in inFlight : [nr |-> p.nr, at |-> p.sent + Deadline] \in deadlines
  /\ \A d \in deadlines : /\ d.nr < pingNr /\ now <= d.at
                          /\ \A p \in inFlight : p.nr = d.nr => d.at = p.sent + Deadline

LostLines == {j \in DOMAIN printed : printed[j].verdict = "LOST"}

LostListed ==
  /\ {lost[i] : i \in DOMAIN lost} = {printed[i].nr : i \in LostLines}
  /\ Len(lost) = Cardinality(LostLines)

PastLines == \A i \in DOMAIN printed : printed[i].at <= now

PingInv == Types /\ OneVerdict /\ InTime /\ LostListed /\ PastLines /\ VerdictIsRight

LEMMA LinesGrow ==
  ASSUME Types, NEW line \in Line, printed' = Append(printed, line)
  PROVE  /\ DOMAIN printed' = DOMAIN printed \cup {Len(printed) + 1}
         /\ Len(printed) + 1 \notin DOMAIN printed
         /\ printed'[Len(printed) + 1] = line
         /\ \A i \in DOMAIN printed : printed'[i] = printed[i]
         /\ LinesOf(line.nr)' = LinesOf(line.nr) \cup {Len(printed) + 1}
         /\ \A n : n # line.nr => LinesOf(n)' = LinesOf(n)
<1>1. printed \in Seq(Line)
  BY DEF Types, TypeOK
<1>2. /\ DOMAIN printed' = DOMAIN printed \cup {Len(printed) + 1}
      /\ Len(printed) + 1 \notin DOMAIN printed
      /\ printed'[Len(printed) + 1] = line
      /\ \A i \in DOMAIN printed : printed'[i] = printed[i]
  BY <1>1, AppendPositions
<1>3. PICK k : k = Len(printed) + 1
  OBVIOUS
<1>4. LinesOf(line.nr)' = LinesOf(line.nr) \cup {k}
  BY <1>2, <1>3, Zenon DEF LinesOf
<1>5. \A n : n # line.nr => LinesOf(n)' = LinesOf(n)
  BY <1>2, <1>3, Zenon DEF LinesOf
<1> QED
  BY <1>2, <1>3, <1>4, <1>5

\* Taking a ping out of in_flight and printing its line is one verdict more.
LEMMA DecideOne ==
  ASSUME Types, OneVerdict, NEW p \in inFlight, NEW line \in Line, line.nr = p.nr,
         inFlight' = inFlight \ {p}, printed' = Append(printed, line), pingNr' = pingNr,
         \A n \in Number : n >= pingNr => Unsent(n)' \/ n = p.nr
  PROVE  OneVerdict'
<1>1. p.nr \in Number /\ p.nr < pingNr
  <2>1. p.nr \in Number /\ pingNr \in Nat
    BY PingAssumption DEF Types, TypeOK, Line, MaxNr
  <2>2. p.nr < pingNr \/ Unsent(p.nr)
    BY <2>1 DEF OneVerdict
  <2> QED
    BY <2>1, <2>2 DEF Unsent
<1>2. PICK k : k = Len(printed) + 1
  OBVIOUS
<1>3. \A n \in Number : n # p.nr => /\ {x \in inFlight' : x.nr = n} = {x \in inFlight : x.nr = n}
                                     /\ LinesOf(n)' = LinesOf(n)
  BY LinesGrow
<1>4. Decided(p.nr, k)' /\ k \in DOMAIN printed'
  <2>1. PICK q \in inFlight : Waiting(p.nr, q)
    BY <1>1 DEF OneVerdict, Decided
  <2>2. q = p
    BY <2>1 DEF Waiting
  <2>3. {x \in inFlight' : x.nr = p.nr} = {}
    BY <2>1, <2>2 DEF Waiting
  <2>4. LinesOf(p.nr)' = {k}
    BY <1>2, <2>1, LinesGrow DEF Waiting
  <2> QED
    BY <1>2, <2>3, <2>4, LinesGrow DEF Decided
<1>5. ASSUME NEW n \in Number
      PROVE  IF n < pingNr' THEN \/ \E x \in inFlight' : Waiting(n, x)'
                                 \/ \E i \in DOMAIN printed' : Decided(n, i)'
                            ELSE Unsent(n)'
  <2>1. CASE n = p.nr
    BY <1>1, <1>4, <2>1
  <2>2. CASE n # p.nr /\ n < pingNr
    <3>1. CASE \E x \in inFlight : Waiting(n, x)
      <4>1. PICK x \in inFlight : Waiting(n, x)
        BY <3>1
      <4>2. x # p
        BY <2>2, <4>1 DEF Waiting
      <4>3. Waiting(n, x)'
        BY <1>3, <2>2, <4>1 DEF Waiting
      <4> QED
        BY <2>2, <4>2, <4>3
    <3>2. CASE \E i \in DOMAIN printed : Decided(n, i)
      BY <1>3, <2>2, <3>2, LinesGrow DEF Decided
    <3> QED
      BY <2>2, <3>1, <3>2 DEF OneVerdict
  <2>3. CASE n # p.nr /\ ~(n < pingNr)
    <3>1. n \in Int /\ pingNr \in Int
      BY PingAssumption DEF Types, TypeOK, Number, MaxNr
    <3> QED
      BY <2>3, <3>1
  <2> QED
    BY <2>1, <2>2, <2>3
<1> QED
  BY <1>5 DEF OneVerdict

\* A step that decides nothing and sends no message of a ping still unsent.
LEMMA DecideNone ==
  ASSUME OneVerdict, UNCHANGED <<pingNr, inFlight, printed>>,
         \A n \in Number : Unsent(n) => /\ wire'[<<"ping", n>>] = 0 /\ wire'[<<"reply", n>>] = 0
                                        /\ firstReply'[n] = Never
  PROVE  OneVerdict'
<1>1. \A n \in Number : Unsent(n) => Unsent(n)'
  BY DEF Unsent, LinesOf
<1>2. \A n \in Number, p \in inFlight : Waiting(n, p) => Waiting(n, p)'
  BY DEF Waiting, LinesOf
<1>3. \A n \in Number, i \in DOMAIN printed : Decided(n, i) => Decided(n, i)'
  BY DEF Decided, LinesOf
<1> QED
  BY <1>1, <1>2, <1>3 DEF OneVerdict

\* A message under way belongs to a ping that was sent.
LEMMA UnderWay ==
  ASSUME Types, OneVerdict, NEW n \in Number, wire[<<"ping", n>>] # 0 \/ wire[<<"reply", n>>] # 0
  PROVE  n < pingNr
  BY DEF OneVerdict, Unsent

\* No two pings in flight have the same number.
LEMMA OneInFlight ==
  ASSUME Types, OneVerdict, NEW p \in inFlight, NEW q \in inFlight, p.nr = q.nr
  PROVE  p = q
<1>1. p.nr \in Number
  BY DEF Types, TypeOK
<1>2. {x \in inFlight : x.nr = p.nr} # {}
  OBVIOUS
<1>3. PICK x \in inFlight : Waiting(p.nr, x)
  BY <1>1, <1>2 DEF OneVerdict, Decided, Unsent
<1> QED
  BY <1>3 DEF Waiting

LEMMA SendPingInv ==
  ASSUME PingInv, Types', SendPing
  PROVE  PingInv'
<1>1. /\ Types /\ OneVerdict /\ InTime /\ LostListed /\ PastLines /\ VerdictIsRight
      /\ pingNr \in Nat /\ now \in Nat /\ Deadline \in Nat /\ Interval \in Nat
  BY PingAssumption DEF PingInv, Types, TypeOK, MaxNr
<1>2. pingNr \in Number
  BY <1>1, PingInTime DEF SendPing, Types, TypeOK, SentOnTime
<1>3. Unsent(pingNr)
  BY <1>1, <1>2 DEF OneVerdict
<1>4. PICK new : new = [nr |-> pingNr, sent |-> now]
  OBVIOUS
<1>5. /\ inFlight' = inFlight \cup {new} /\ new.nr = pingNr /\ new.sent = now
      /\ deadlines' = deadlines \cup {[nr |-> pingNr, at |-> now + Deadline]}
      /\ pingNr' = pingNr + 1 /\ UNCHANGED <<now, lost, printed, firstReply>>
  BY <1>4 DEF SendPing, DeadlineAt, fixed
<1>6. \A n \in Number : n # pingNr => /\ wire'[<<"ping", n>>] = wire[<<"ping", n>>]
                                      /\ wire'[<<"reply", n>>] = wire[<<"reply", n>>]
  <2>1. PICK c : wire' = [wire EXCEPT ![<<"ping", pingNr>>] = @ + c]
    BY DEF SendPing, TrySend
  <2>2. wire \in [Message -> Nat] /\ \A n \in Number : <<"ping", n>> \in Message /\ <<"reply", n>> \in Message
    BY <1>1 DEF Types, TypeOK, Message
  <2> QED
    BY <2>1, <2>2
<1>7. OneVerdict'
  <2>1. \A n : LinesOf(n)' = LinesOf(n)
    BY <1>5 DEF LinesOf
  <2>2. \A n : n # pingNr => {x \in inFlight' : x.nr = n} = {x \in inFlight : x.nr = n}
    BY <1>5
  <2>3. {x \in inFlight' : x.nr = pingNr} = {new}
    BY <1>3, <1>5 DEF Unsent
  <2>4. ASSUME NEW n \in Number
        PROVE  IF n < pingNr' THEN \/ \E x \in inFlight' : Waiting(n, x)'
                                   \/ \E i \in DOMAIN printed' : Decided(n, i)'
                              ELSE Unsent(n)'
    <3>1. CASE n = pingNr
      <4>1. Waiting(n, new)' /\ new \in inFlight' /\ n < pingNr'
        BY <1>1, <1>3, <1>5, <2>1, <2>3, <3>1 DEF Waiting, Unsent
      <4> QED
        BY <4>1
    <3>2. CASE n < pingNr
      <4>1. n < pingNr' /\ n # pingNr
        BY <1>1, <1>5, <3>2 DEF Number
      <4>2. CASE \E x \in inFlight : Waiting(n, x)
        BY <1>5, <2>1, <2>2, <4>1, <4>2 DEF Waiting
      <4>3. CASE \E i \in DOMAIN printed : Decided(n, i)
        BY <1>5, <2>1, <2>2, <4>1, <4>3 DEF Decided
      <4> QED
        BY <1>1, <3>2, <4>2, <4>3 DEF OneVerdict
    <3>3. CASE n # pingNr /\ ~(n < pingNr)
      <4>1. ~(n < pingNr')
        BY <1>1, <1>5, <3>3 DEF Number
      <4>2. Unsent(n)
        BY <1>1, <3>3 DEF OneVerdict
      <4>3. Unsent(n)'
        BY <1>5, <1>6, <2>1, <2>2, <3>3, <4>2 DEF Unsent
      <4> QED
        BY <4>1, <4>3
    <3> QED
      BY <3>1, <3>2, <3>3
  <2> QED
    BY <2>4 DEF OneVerdict
<1>8. InTime'
  <2>1. \A p \in inFlight' : [nr |-> p.nr, at |-> p.sent + Deadline] \in deadlines'
    BY <1>1, <1>5 DEF InTime
  <2>2. \A d \in deadlines : d.nr \in Int /\ d.nr < pingNr /\ d.nr # pingNr
    BY <1>1 DEF InTime, Types, TypeOK, Number
  <2>3. \A p \in inFlight : p.nr # pingNr
    BY <1>3 DEF Unsent
  <2>4. ASSUME NEW d \in deadlines'
        PROVE  /\ d.nr < pingNr' /\ now' <= d.at
               /\ \A p \in inFlight' : p.nr = d.nr => d.at = p.sent + Deadline
    <3>1. CASE d \in deadlines
      <4>1. d.nr < pingNr' /\ now' <= d.at
        BY <1>1, <1>5, <2>2, <3>1 DEF InTime
      <4> QED
        BY <1>1, <1>5, <2>2, <3>1, <4>1 DEF InTime
    <3>2. CASE d = [nr |-> pingNr, at |-> now + Deadline]
      BY <1>1, <1>5, <2>3, <3>2
    <3> QED
      BY <1>5, <3>1, <3>2
  <2> QED
    BY <2>1, <2>4 DEF InTime
<1>9. LostListed' /\ PastLines'
  BY <1>1, <1>5 DEF LostListed, LostLines, PastLines
<1>10. VerdictIsRight'
  <2>1. now' <= new.sent + Deadline /\ firstReply'[new.nr] = Never
    BY <1>1, <1>3, <1>5 DEF Unsent
  <2> QED
    BY <1>1, <1>5, <2>1 DEF VerdictIsRight
<1> QED
  BY <1>7, <1>8, <1>9, <1>10 DEF PingInv

LEMMA DeadlineExpiresInv ==
  ASSUME PingInv, Types', NEW d \in deadlines, DeadlineExpires(d)
  PROVE  PingInv'
<1>1. /\ Types /\ OneVerdict /\ InTime /\ LostListed /\ PastLines /\ VerdictIsRight
      /\ pingNr \in Nat /\ now \in Nat /\ Deadline \in Nat
      /\ printed \in Seq(Line) /\ lost \in Seq(Number) /\ d.nr \in Number
  BY PingAssumption DEF PingInv, Types, TypeOK, MaxNr
<1>2. /\ deadlines' = deadlines \ {d} /\ d.at <= now
      /\ UNCHANGED <<now, pingNr, wire, firstReply>>
  BY DEF DeadlineExpires, fixed
<1>3. now = d.at
  <2>1. now <= d.at /\ d.at \in Int
    BY <1>1, PingAssumption DEF InTime, Types, TypeOK
  <2> QED
    BY <1>1, <1>2, <2>1
<1>4. ASSUME inFlight' \subseteq inFlight, \A x \in inFlight' : x.nr # d.nr
      PROVE  InTime'
  BY <1>1, <1>2, <1>4 DEF InTime
<1>5. CASE NotInFlight(d.nr) /\ UNCHANGED <<inFlight, lost, printed>>
  <2>1. OneVerdict'
    BY <1>1, <1>2, <1>5, DecideNone DEF Unsent
  <2>2. InTime'
    BY <1>4, <1>5 DEF NotInFlight
  <2>3. LostListed' /\ PastLines'
    BY <1>1, <1>2, <1>5 DEF LostListed, LostLines, PastLines
  <2>4. VerdictIsRight'
    BY <1>1, <1>2, <1>5 DEF VerdictIsRight
  <2> QED
    BY <2>1, <2>2, <2>3, <2>4 DEF PingInv
<1>6. ASSUME NEW p \in inFlight, p.nr = d.nr, inFlight' = inFlight \ {p}, lost' = Append(lost, d.nr),
             printed' = Append(printed, [nr |-> d.nr, verdict |-> "LOST", sent |-> p.sent, at |-> now])
      PROVE  PingInv'
  <2>1. PICK line : line = [nr |-> d.nr, verdict |-> "LOST", sent |-> p.sent, at |-> now]
    OBVIOUS
  <2>2. /\ line \in Line /\ line.nr = p.nr /\ line.verdict = "LOST" /\ line.sent = p.sent
        /\ line.at = now /\ printed' = Append(printed, line)
    BY <1>1, <1>6, <2>1 DEF Line, Types, TypeOK
  <2>3. OneVerdict'
    <3>1. \A n \in Number : n >= pingNr => Unsent(n)' \/ n = p.nr
      <4>1. ASSUME NEW n \in Number, n >= pingNr, n # p.nr
            PROVE  Unsent(n)'
        <5>1. Unsent(n)
          BY <1>1, <4>1 DEF OneVerdict, Number
        <5> QED
          BY <1>1, <1>2, <1>6, <2>2, <4>1, <5>1, LinesGrow DEF Unsent
      <4> QED
        BY <4>1
    <3> QED
      BY <1>1, <1>2, <1>6, <2>2, <3>1, DecideOne
  <2>4. InTime'
    <3>1. \A x \in inFlight' : x.nr # d.nr
      BY <1>1, <1>6, OneInFlight
    <3> QED
      BY <1>4, <1>6, <3>1
  <2>5. PICK k : k = Len(printed) + 1
    OBVIOUS
  <2>6. /\ DOMAIN printed' = DOMAIN printed \cup {k} /\ k \notin DOMAIN printed
        /\ printed'[k] = line /\ \A i \in DOMAIN printed : printed'[i] = printed[i]
    BY <1>1, <2>2, <2>5, LinesGrow
  <2>7. LostLines' = LostLines \cup {k} /\ k \notin LostLines
    BY <2>2, <2>6 DEF LostLines
  <2>8. LostListed'
    <3>1. IsFiniteSet(LostLines)
      <4>1. LostLines \subseteq 1..Len(printed) /\ Len(printed) \in Nat
        BY <1>1 DEF LostLines
      <4>2. IsFiniteSet(1..Len(printed))
        BY <4>1, FS_Interval
      <4> QED
        BY <4>1, <4>2, FS_Subset
    <3>2. Cardinality(LostLines') = Cardinality(LostLines) + 1
      BY <2>7, <3>1, FS_AddElement
    <3>3. Len(lost') = Len(lost) + 1
      BY <1>1, <1>6
    <3>4. {lost'[i] : i \in DOMAIN lost'} = {lost[i] : i \in DOMAIN lost} \cup {d.nr}
      <4>1. /\ DOMAIN lost' = DOMAIN lost \cup {Len(lost) + 1} /\ lost'[Len(lost) + 1] = d.nr
            /\ \A i \in DOMAIN lost : lost'[i] = lost[i]
        BY <1>1, <1>6, AppendPositions
      <4> QED
        BY <4>1
    <3>5. {printed'[i].nr : i \in LostLines'} = {printed[i].nr : i \in LostLines} \cup {d.nr}
      <4>1. \A i \in LostLines : printed'[i] = printed[i]
        BY <2>6 DEF LostLines
      <4>2. printed'[k].nr = d.nr
        BY <1>6, <2>2, <2>6
      <4> QED
        BY <2>7, <4>1, <4>2
    <3> QED
      BY <1>1, <3>2, <3>3, <3>4, <3>5 DEF LostListed
  <2>9. PastLines'
    BY <1>1, <1>2, <2>2, <2>6 DEF PastLines
  <2>10. VerdictIsRight'
    <3>1. line.at = line.sent + Deadline /\ firstReply[line.nr] = Never
      BY <1>1, <1>3, <1>6, <2>2 DEF InTime, VerdictIsRight
    <3>2. ASSUME NEW i \in DOMAIN printed'
          PROVE  LET l == printed'[i] IN
                 IF l.verdict = "RECEIVED"
                   THEN firstReply'[l.nr] = l.at /\ l.at <= l.sent + Deadline
                   ELSE /\ l.at = l.sent + Deadline
                        /\ firstReply'[l.nr] = Never \/ firstReply'[l.nr] >= l.at
      <4>1. CASE i = k
        BY <1>2, <2>2, <2>6, <3>1, <4>1
      <4>2. CASE i \in DOMAIN printed
        BY <1>1, <1>2, <2>6, <4>2 DEF VerdictIsRight
      <4> QED
        BY <2>6, <4>1, <4>2
    <3>3. \A x \in inFlight' : now' <= x.sent + Deadline /\ firstReply'[x.nr] = Never
      BY <1>1, <1>2, <1>6 DEF VerdictIsRight
    <3> QED
      BY <3>2, <3>3 DEF VerdictIsRight
  <2> QED
    BY <2>3, <2>4, <2>8, <2>9, <2>10 DEF PingInv
<1> QED
  BY <1>5, <1>6 DEF DeadlineExpires, Remove

LEMMA ReceiveReplyInv ==
  ASSUME PingInv, Types', NEW n \in Number, ReceiveReply(n)
  PROVE  PingInv'
<1>1. /\ Types /\ OneVerdict /\ InTime /\ LostListed /\ PastLines /\ VerdictIsRight
      /\ pingNr \in Nat /\ now \in Nat /\ Deadline \in Nat
      /\ printed \in Seq(Line) /\ firstReply \in [Number -> {Never} \cup (0..Duration)]
  BY PingAssumption DEF PingInv, Types, TypeOK, MaxNr
<1>2. /\ wire' = [wire EXCEPT ![<<"reply", n>>] = @ - 1]
      /\ firstReply' = [firstReply EXCEPT ![n] = IF @ = Never THEN now ELSE @]
      /\ UNCHANGED <<now, pingNr, lost, deadlines>>
  BY DEF ReceiveReply, fixed
<1>3. n < pingNr
  <2>1. wire[<<"reply", n>>] # 0
    BY DEF ReceiveReply
  <2> QED
    BY <1>1, <2>1, UnderWay
<1>4. \A m \in Number : m # n => /\ wire'[<<"ping", m>>] = wire[<<"ping", m>>]
                                 /\ wire'[<<"reply", m>>] = wire[<<"reply", m>>]
                                 /\ firstReply'[m] = firstReply[m]
  BY <1>1, <1>2 DEF Types, TypeOK, Message
<1>5. \A m \in Number : Unsent(m) => m # n
  <2>1. wire[<<"reply", n>>] # 0
    BY DEF ReceiveReply
  <2> QED
    BY <2>1 DEF Unsent
<1>6. ASSUME NEW line \in Line, firstReply[line.nr] = line.at /\ line.at <= line.sent + Deadline
      PROVE  firstReply'[line.nr] = line.at
  <2>1. line.nr \in Number /\ line.at \in Nat
    BY <1>6, PingAssumption DEF Line
  <2>2. line.at # Never
    BY <2>1 DEF Never
  <2> QED
    BY <1>1, <1>2, <1>6, <2>1, <2>2
<1>7. ASSUME NEW line \in Line, line.at <= now, firstReply[line.nr] = Never \/ firstReply[line.nr] >= line.at
      PROVE  firstReply'[line.nr] = Never \/ firstReply'[line.nr] >= line.at
  <2>1. line.nr \in Number /\ line.at \in Nat
    BY <1>7, PingAssumption DEF Line
  <2> QED
    BY <1>1, <1>2, <1>7, <2>1
<1>8. ASSUME NEW i \in DOMAIN printed
      PROVE  LET line == printed[i] IN
             IF line.verdict = "RECEIVED"
               THEN firstReply'[line.nr] = line.at /\ line.at <= line.sent + Deadline
               ELSE /\ line.at = line.sent + Deadline
                    /\ firstReply'[line.nr] = Never \/ firstReply'[line.nr] >= line.at
  <2>1. printed[i] \in Line /\ printed[i].at <= now
    BY <1>1 DEF PastLines
  <2> QED
    BY <1>1, <1>6, <1>7, <2>1 DEF VerdictIsRight
<1>9. CASE NotInFlight(n) /\ UNCHANGED <<inFlight, printed>>
  <2>1. OneVerdict'
    BY <1>1, <1>2, <1>4, <1>5, <1>9, DecideNone DEF Unsent
  <2>2. VerdictIsRight'
    <3>1. \A p \in inFlight : p.nr \in Number /\ p.nr # n
      BY <1>1, <1>9 DEF NotInFlight, Types, TypeOK
    <3>2. \A p \in inFlight' : now' <= p.sent + Deadline /\ firstReply'[p.nr] = Never
      BY <1>1, <1>2, <1>4, <1>9, <3>1 DEF VerdictIsRight
    <3> QED
      BY <1>8, <1>9, <3>2 DEF VerdictIsRight
  <2> QED
    BY <1>1, <1>2, <1>9, <2>1, <2>2 DEF PingInv, LostListed, LostLines, PastLines, InTime
<1>10. ASSUME NEW p \in inFlight, p.nr = n, inFlight' = inFlight \ {p},
              printed' = Append(printed, [nr |-> n, verdict |-> "RECEIVED", sent |-> p.sent, at |-> now])
       PROVE  PingInv'
  <2>1. PICK line : line = [nr |-> n, verdict |-> "RECEIVED", sent |-> p.sent, at |-> now]
    OBVIOUS
  <2>2. /\ line \in Line /\ line.nr = p.nr /\ line.verdict = "RECEIVED" /\ line.sent = p.sent
        /\ line.at = now /\ printed' = Append(printed, line)
    BY <1>1, <1>10, <2>1 DEF Line, Types, TypeOK
  <2>3. OneVerdict'
    <3>1. \A m \in Number : m >= pingNr => Unsent(m)' \/ m = p.nr
      <4>1. ASSUME NEW m \in Number, m >= pingNr, m # p.nr
            PROVE  Unsent(m)'
        <5>1. Unsent(m)
          BY <1>1, <4>1 DEF OneVerdict, Number
        <5> QED
          BY <1>1, <1>4, <1>10, <2>2, <4>1, <5>1, LinesGrow DEF Unsent
      <4> QED
        BY <4>1
    <3> QED
      BY <1>1, <1>2, <1>10, <2>2, <3>1, DecideOne
  <2>4. InTime'
    BY <1>1, <1>2, <1>10 DEF InTime
  <2>5. PICK k : k = Len(printed) + 1
    OBVIOUS
  <2>6. /\ DOMAIN printed' = DOMAIN printed \cup {k} /\ k \notin DOMAIN printed
        /\ printed'[k] = line /\ \A i \in DOMAIN printed : printed'[i] = printed[i]
    BY <1>1, <2>2, <2>5, LinesGrow
  <2>7. LostListed'
    <3>1. LostLines' = LostLines
      BY <2>2, <2>6 DEF LostLines
    <3>2. {printed'[i].nr : i \in LostLines'} = {printed[i].nr : i \in LostLines}
      BY <2>6, <3>1 DEF LostLines
    <3> QED
      BY <1>1, <1>2, <3>1, <3>2 DEF LostListed
  <2>8. PastLines'
    BY <1>1, <1>2, <2>2, <2>6 DEF PastLines
  <2>9. VerdictIsRight'
    <3>1. firstReply'[line.nr] = line.at /\ line.at <= line.sent + Deadline
      BY <1>1, <1>2, <1>10, <2>2 DEF VerdictIsRight
    <3>2. ASSUME NEW i \in DOMAIN printed'
          PROVE  LET l == printed'[i] IN
                 IF l.verdict = "RECEIVED"
                   THEN firstReply'[l.nr] = l.at /\ l.at <= l.sent + Deadline
                   ELSE /\ l.at = l.sent + Deadline
                        /\ firstReply'[l.nr] = Never \/ firstReply'[l.nr] >= l.at
      BY <1>8, <2>2, <2>6, <3>1
    <3>3. \A x \in inFlight' : x.nr \in Number /\ x.nr # n
      BY <1>1, <1>10, OneInFlight DEF Types, TypeOK
    <3>4. \A x \in inFlight' : now' <= x.sent + Deadline /\ firstReply'[x.nr] = Never
      BY <1>1, <1>2, <1>4, <1>10, <3>3 DEF VerdictIsRight
    <3> QED
      BY <3>2, <3>4 DEF VerdictIsRight
  <2> QED
    BY <2>3, <2>4, <2>7, <2>8, <2>9 DEF PingInv
<1> QED
  BY <1>9, <1>10 DEF ReceiveReply, Remove

LEMMA InitPing == Init => PingInv
<1> SUFFICES ASSUME Init PROVE PingInv
  OBVIOUS
<1>1. Types
  BY InitTypes
<1>2. inFlight = {} /\ deadlines = {} /\ DOMAIN printed = {} /\ DOMAIN lost = {} /\ Len(lost) = 0
      /\ pingNr = 0
  BY DEF Init
<1>3. OneVerdict
  BY <1>2 DEF Init, OneVerdict, Unsent, LinesOf, Message, Number
<1>4. LostLines = {}
  BY <1>2 DEF LostLines
<1>5. LostListed
  BY <1>2, <1>4, FS_EmptySet DEF LostListed
<1> QED
  BY <1>1, <1>2, <1>3, <1>5 DEF PingInv, InTime, PastLines, VerdictIsRight

LEMMA NextPingInv == PingInv /\ [Next]_vars => PingInv'
<1> SUFFICES ASSUME PingInv, [Next]_vars
             PROVE  PingInv'
  OBVIOUS
<1>1. Types /\ Types' /\ OneVerdict
  BY NextTypes DEF PingInv
<1>2. CASE SendPing
  BY <1>1, <1>2, SendPingInv
<1>3. ASSUME NEW d \in deadlines, DeadlineExpires(d)
      PROVE  PingInv'
  BY <1>1, <1>3, DeadlineExpiresInv
<1>4. ASSUME NEW n \in Number, ReceiveReply(n)
      PROVE  PingInv'
  BY <1>1, <1>4, ReceiveReplyInv
<1>5. ASSUME UNCHANGED <<now, pingNr, inFlight, deadlines, lost, printed, firstReply>>,
             \A n \in Number : Unsent(n) => wire'[<<"ping", n>>] = 0 /\ wire'[<<"reply", n>>] = 0
      PROVE  PingInv'
  <2>1. OneVerdict'
    BY <1>1, <1>5, DecideNone DEF Unsent
  <2> QED
    <3>1. InTime' /\ PastLines'
      BY <1>5 DEF PingInv, InTime, PastLines
    <3>2. LostListed'
      BY <1>5 DEF PingInv, LostListed, LostLines
    <3>3. VerdictIsRight'
      BY <1>5 DEF PingInv, VerdictIsRight
    <3> QED
      BY <1>1, <2>1, <3>1, <3>2, <3>3 DEF PingInv
<1>6. ASSUME NEW n \in Number, Echo(n) \/ ServerPanics(n)
      PROVE  PingInv'
  <2>1. wire \in [Message -> Nat] /\ \A m \in Number : <<"ping", m>> \in Message /\ <<"reply", m>> \in Message
    BY <1>1 DEF Types, TypeOK, Message
  <2>2. wire[<<"ping", n>>] # 0
    BY <1>6 DEF Echo, ServerPanics
  <2>3. \A m \in Number : Unsent(m) => m # n
    BY <2>2 DEF Unsent
  <2>4. \A m \in Number : m # n => /\ wire'[<<"ping", m>>] = wire[<<"ping", m>>]
                                   /\ wire'[<<"reply", m>>] = wire[<<"reply", m>>]
    BY <1>6, <2>1 DEF Echo, ServerPanics
  <2>5. \A m \in Number : Unsent(m) => wire'[<<"ping", m>>] = 0 /\ wire'[<<"reply", m>>] = 0
    BY <2>3, <2>4 DEF Unsent
  <2>6. UNCHANGED <<now, pingNr, inFlight, deadlines, lost, printed, firstReply>>
    BY <1>6 DEF Echo, ServerPanics, fixed
  <2> QED
    BY <1>5, <2>5, <2>6
<1>7. CASE SenderPanics \/ Finish \/ UNCHANGED vars
  <2>1. UNCHANGED <<now, pingNr, inFlight, deadlines, lost, printed, firstReply, wire>>
    BY <1>7 DEF SenderPanics, Finish, vars, fixed
  <2> QED
    BY <1>5, <2>1 DEF Unsent
<1>8. CASE Tick
  <2>1. /\ UNCHANGED <<pingNr, inFlight, deadlines, lost, printed, firstReply, wire>>
        /\ now' = now + 1 /\ \A d \in deadlines : now < d.at
    BY <1>8 DEF Tick, Idle
  <2>2. OneVerdict'
    BY <1>1, <2>1, DecideNone DEF Unsent
  <2>3. now \in Nat /\ Deadline \in Nat /\ \A d \in deadlines : d.at \in Nat
    BY <1>1, PingAssumption DEF Types, TypeOK
  <2>4. InTime'
    BY <2>1, <2>3 DEF PingInv, InTime
  <2>5. \A i \in DOMAIN printed : printed[i].at \in Nat
    <3>1. printed \in Seq(Line)
      BY <1>1 DEF Types, TypeOK
    <3>2. \A i \in DOMAIN printed : printed[i] \in Line
      BY <3>1
    <3> QED
      BY <3>2, PingAssumption DEF Line
  <2>6. PastLines'
    BY <2>1, <2>3, <2>5 DEF PingInv, PastLines
  <2>7. \A p \in inFlight' : now' <= p.sent + Deadline
    BY <2>1, <2>4 DEF InTime
  <2>8. VerdictIsRight'
    BY <2>1, <2>7 DEF PingInv, VerdictIsRight
  <2> QED
    BY <1>1, <2>1, <2>2, <2>4, <2>6, <2>8 DEF PingInv, LostListed, LostLines
<1> QED
  BY <1>2, <1>3, <1>4, <1>6, <1>7, <1>8 DEF Next

\* A ping is RECEIVED exactly if its first reply beats the deadline task to
\* in_flight, and LOST otherwise, for every duration, deadline and interval
\* and whatever the network does to the messages.
THEOREM VerdictsAreRight == Spec => []VerdictIsRight
<1>1. PingInv => VerdictIsRight
  BY DEF PingInv
<1> QED
  BY <1>1, InitPing, NextPingInv, PTL DEF Spec

\* Every ping sent is in flight with its deadline task, or has one line, and
\* the vector `lost' holds what was printed as LOST.
THEOREM PingsAreAccounted == Spec => []EveryPingAccounted
<1>1. ASSUME PingInv PROVE EveryPingAccounted
  <2>1. Types /\ OneVerdict /\ InTime /\ LostListed
    BY <1>1 DEF PingInv
  <2>2. ASSUME NEW n \in Number
        PROVE  Cardinality({p \in inFlight : p.nr = n}) + Cardinality(LinesOf(n))
                 = IF n < pingNr THEN 1 ELSE 0
    <3>1. Cardinality({}) = 0 /\ \A x : Cardinality({x}) = 1
      BY FS_EmptySet, FS_Singleton
    <3>2. CASE \E p \in inFlight : Waiting(n, p) /\ n < pingNr
      BY <3>1, <3>2 DEF Waiting
    <3>3. CASE \E i \in DOMAIN printed : Decided(n, i) /\ n < pingNr
      <4>1. PICK i : Decided(n, i) /\ n < pingNr
        BY <3>3
      <4>2. Cardinality({p \in inFlight : p.nr = n}) = 0 /\ Cardinality(LinesOf(n)) = 1
        BY <3>1, <4>1 DEF Decided
      <4> QED
        BY <4>1, <4>2
    <3>4. CASE ~(n < pingNr) /\ Unsent(n)
      BY <3>1, <3>4 DEF Unsent
    <3> QED
      BY <2>1, <3>2, <3>3, <3>4 DEF OneVerdict
  <2> QED
    BY <2>1, <2>2 DEF EveryPingAccounted, InTime, LostListed, LostLines
<1> QED
  BY <1>1, InitPing, NextPingInv, PTL DEF Spec

=============================================================================
