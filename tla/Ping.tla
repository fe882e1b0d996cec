-------------------------------- MODULE Ping --------------------------------
(***************************************************************************)
(* The `ping' command: a sender task that numbers its pings and spawns a   *)
(* deadline task for each, a server task that echoes, a receiver task that *)
(* takes the replies, and the driver that ends the run after a while.      *)
(*                                                                         *)
(* The clock is tokio's paused one: it moves only when no task is ready.   *)
(* The network between the two sockets is reduced to what Network allows   *)
(* it to do to a packet: lose it, duplicate it and take any time, so that  *)
(* replies overtake each other.  A host without a route loses the task of  *)
(* its node with the first packet (network/mod.rs:598-611), after which    *)
(* try_send panics (node.rs:127).                                          *)
(***************************************************************************)
EXTENDS Integers, Sequences, FiniteSets

CONSTANTS
  Duration,      \* --duration-ms
  Deadline,      \* --deadline-ms
  Interval,      \* --interval-ms
  MaxCopies      \* bound: copies of one message that the network delivers

ASSUME PingAssumption ==
  Duration \in Nat /\ Deadline \in Nat /\ Interval \in Nat \ {0} /\ MaxCopies \in Nat \ {0}

VARIABLES
  now,           \* Instant::now() - simulation_start
  pingNr,        \* ping_nr of the sender: the next ping
  nextSend,      \* end of the sender's sleep
  inFlight,      \* in_flight: the ping numbers and when they were sent
  deadlines,     \* deadline tasks that sleep: the ping and the end of the sleep
  lost,          \* the vector of lost pings
  printed,       \* the lines printed, one per verdict
  wire,          \* copies of each message in the network or in a socket
  routed,        \* hosts that have a route to the other one
  nodeTask,      \* hosts whose node still takes packets
  alive,         \* tasks that have not panicked: sender and server
  done,          \* the driver has returned, and the runtime with it
  firstReply     \* history: when the receiver first took a reply to each ping

vars == <<now, pingNr, nextSend, inFlight, deadlines, lost, printed, wire, routed,
          nodeTask, alive, done, firstReply>>

Host    == {"client", "server"}
MaxNr   == Duration \div Interval            \* the last ping that can be sent
Number  == 0..MaxNr
Message == {"ping", "reply"} \X Number
Never   == -1

\* What every step of a task that is not the driver's leaves alone.
fixed == <<now, routed, done>>

-----------------------------------------------------------------------------
(* The network.  What becomes of a message is settled when it is sent: it  *)
(* vanishes, or one or two copies of it arrive at some time, or never.      *)

Copies(h) == IF h \in nodeTask \cap routed THEN 0..MaxCopies ELSE {0}

\* The node's task returns when it meets a packet it has no route for; it meets
\* none that is dropped on the way into the buffer.
Handover(h) == nodeTask' \in {nodeTask, IF h \in routed THEN nodeTask ELSE nodeTask \ {h}}

TrySend(h, m) ==
  /\ \E c \in Copies(h) : wire' = [wire EXCEPT ![m] = @ + c]
  /\ Handover(h)

\* node.rs:127: the channel of a node whose task has returned is closed.
Panics(h) == h \notin nodeTask

-----------------------------------------------------------------------------
(* The client's tasks.                                                      *)

\* What the sleeps of the sender and of the deadline tasks, and the two calls
\* of remove on in_flight, come down to.
NextPing_now == now

NextPing == now + Interval

DeadlineAt_late == now + Deadline + 1

DeadlineAt == now + Deadline

Remove_get(p) == inFlight' = inFlight

Remove(p) == inFlight' = inFlight \ {p}

NotInFlight_awaited(n) == FALSE

NotInFlight(n) == \A p \in inFlight : p.nr # n

\* One turn of the sender: send, record, spawn the deadline task, sleep.
SendPing ==
  /\ ~done /\ "sender" \in alive /\ now = nextSend
  /\ TrySend("client", <<"ping", pingNr>>)
  /\ inFlight' = inFlight \cup {[nr |-> pingNr, sent |-> now]}
  /\ deadlines' = deadlines \cup {[nr |-> pingNr, at |-> DeadlineAt]}
  /\ pingNr' = pingNr + 1
  /\ nextSend' = NextPing
  /\ UNCHANGED <<fixed, lost, printed, alive, firstReply>>

\* try_send panics before anything is recorded; nobody awaits the task.
SenderPanics ==
  /\ ~done /\ "sender" \in alive /\ now = nextSend /\ Panics("client")
  /\ alive' = alive \ {"sender"}
  /\ UNCHANGED <<fixed, pingNr, nextSend, inFlight, deadlines, lost, printed, wire,
                 nodeTask, firstReply>>

\* A deadline task wakes up: the ping is lost if nothing has removed it yet.
DeadlineExpires(d) ==
  /\ ~done /\ d \in deadlines /\ d.at <= now
  /\ deadlines' = deadlines \ {d}
  /\ \/ \E p \in inFlight :
          /\ p.nr = d.nr
          /\ Remove(p)
          /\ lost' = Append(lost, d.nr)
          /\ printed' = Append(printed, [nr |-> d.nr, verdict |-> "LOST", sent |-> p.sent, at |-> now])
     \/ /\ NotInFlight(d.nr)
        /\ UNCHANGED <<inFlight, lost, printed>>
  /\ UNCHANGED <<fixed, pingNr, nextSend, wire, nodeTask, alive, firstReply>>

\* The receiver takes a reply from its socket: the first one removes the ping;
\* a duplicate, or a reply after the deadline, finds nothing to remove.
ReceiveReply(n) ==
  /\ ~done /\ wire[<<"reply", n>>] > 0
  /\ wire' = [wire EXCEPT ![<<"reply", n>>] = @ - 1]
  /\ firstReply' = [firstReply EXCEPT ![n] = IF @ = Never THEN now ELSE @]
  /\ \/ \E p \in inFlight :
          /\ p.nr = n
          /\ Remove(p)
          /\ printed' = Append(printed, [nr |-> n, verdict |-> "RECEIVED", sent |-> p.sent, at |-> now])
     \/ NotInFlight(n) /\ UNCHANGED <<inFlight, printed>>
  /\ UNCHANGED <<fixed, pingNr, nextSend, deadlines, lost, nodeTask, alive>>

-----------------------------------------------------------------------------
(* The server and the network.                                              *)

\* The server takes a ping and echoes its payload.
Echo(n) ==
  /\ ~done /\ "server" \in alive /\ wire[<<"ping", n>>] > 0
  /\ \E c \in Copies("server") :
       wire' = [wire EXCEPT ![<<"ping", n>>] = @ - 1, ![<<"reply", n>>] = @ + c]
  /\ Handover("server")
  /\ UNCHANGED <<fixed, pingNr, nextSend, inFlight, deadlines, lost, printed, alive, firstReply>>

ServerPanics(n) ==
  /\ ~done /\ "server" \in alive /\ wire[<<"ping", n>>] > 0 /\ Panics("server")
  /\ wire' = [wire EXCEPT ![<<"ping", n>>] = @ - 1]
  /\ alive' = alive \ {"server"}
  /\ UNCHANGED <<fixed, pingNr, nextSend, inFlight, deadlines, lost, printed, nodeTask, firstReply>>

-----------------------------------------------------------------------------
(* The clock and the driver.                                                *)

\* No sleep ends at this instant: the paused clock may move on.
Idle ==
  /\ "sender" \in alive => now < nextSend
  /\ \A d \in deadlines : now < d.at
  /\ now < Duration

Tick ==
  /\ ~done /\ Idle
  /\ now' = now + 1
  /\ UNCHANGED <<pingNr, nextSend, inFlight, deadlines, lost, printed, wire, routed,
                 nodeTask, alive, done, firstReply>>

\* The driver's sleep ends; from here on it does not await, so no other task runs.
Finish ==
  /\ ~done /\ now = Duration
  /\ done' = TRUE
  /\ UNCHANGED <<now, pingNr, nextSend, inFlight, deadlines, lost, printed, wire, routed,
                 nodeTask, alive, firstReply>>

Init ==
  /\ now = 0 /\ pingNr = 0 /\ nextSend = 0 /\ done = FALSE
  /\ inFlight = {} /\ deadlines = {} /\ lost = <<>> /\ printed = <<>>
  /\ wire = [m \in Message |-> 0]
  /\ routed \in SUBSET Host /\ nodeTask = Host /\ alive = {"sender", "server"}
  /\ firstReply = [n \in Number |-> Never]

Next ==
  \/ SendPing
  \/ SenderPanics
  \/ \E d \in deadlines : DeadlineExpires(d)
  \/ \E n \in Number : ReceiveReply(n)
  \/ \E n \in Number : Echo(n)
  \/ \E n \in Number : ServerPanics(n)
  \/ Tick
  \/ Finish

\* The executor polls every task that is ready, and the paused clock moves
\* when none is.  Nothing is assumed of the network.
Fairness ==
  /\ WF_vars(SendPing \/ SenderPanics)
  /\ WF_vars(\E d \in deadlines : DeadlineExpires(d))
  /\ WF_vars(Tick)
  /\ WF_vars(Finish)

Spec == Init /\ [][Next]_vars /\ Fairness

-----------------------------------------------------------------------------
(* Properties.                                                              *)

Line == [nr: Number, verdict: {"RECEIVED", "LOST"}, sent: 0..Duration, at: 0..Duration]

\* Types.  The sender sends no more pings than its interval allows in the
\* duration, and no line is printed after the end.
TypeOK ==
  /\ now \in 0..Duration
  /\ pingNr \in 0..(MaxNr + 1)
  /\ nextSend \in 0..(Duration + Interval)
  /\ inFlight \subseteq [nr: Number, sent: 0..Duration]
  /\ deadlines \subseteq [nr: Number, at: 0..(Duration + Deadline)]
  /\ lost \in Seq(Number)
  /\ printed \in Seq(Line)
  /\ wire \in [Message -> Nat]
  /\ routed \subseteq Host /\ nodeTask \subseteq Host
  /\ alive \subseteq {"sender", "server"}
  /\ done \in BOOLEAN
  /\ firstReply \in [Number -> {Never} \cup (0..Duration)]

LinesOf(n) == {i \in DOMAIN printed : printed[i].nr = n}

\* Every ping sent is accounted for exactly once, whoever wins the race between
\* its deadline task and its replies: it is in flight, with its deadline task
\* still to come, or one line has been printed for it; and the pings in `lost'
\* are those printed as LOST.
EveryPingAccounted ==
  /\ \A n \in Number :
       Cardinality({p \in inFlight : p.nr = n}) + Cardinality(LinesOf(n))
         = IF n < pingNr THEN 1 ELSE 0
  /\ \A p \in inFlight : [nr |-> p.nr, at |-> p.sent + Deadline] \in deadlines
  /\ {lost[i] : i \in DOMAIN lost} = {printed[i].nr : i \in {j \in DOMAIN printed : printed[j].verdict = "LOST"}}
  /\ Len(lost) = Cardinality({j \in DOMAIN printed : printed[j].verdict = "LOST"})

\* The verdict is the one the first reply calls for: RECEIVED at the instant of
\* that reply, no later than the deadline; LOST exactly at the deadline, and then
\* no reply had come before it.  No ping stays undecided past its deadline.
VerdictIsRight ==
  /\ \A i \in DOMAIN printed :
       LET line == printed[i] IN
       IF line.verdict = "RECEIVED"
         THEN firstReply[line.nr] = line.at /\ line.at <= line.sent + Deadline
         ELSE /\ line.at = line.sent + Deadline
              /\ firstReply[line.nr] = Never \/ firstReply[line.nr] >= line.at
  /\ \A p \in inFlight : now <= p.sent + Deadline /\ firstReply[p.nr] = Never

\* The command ends, even when its sender or its server has panicked.
Terminates == <>done
=============================================================================
