----------------------------- MODULE Throughput -----------------------------
(***************************************************************************)
(* The `throughput' command: a sender task that sends a burst per interval *)
(* until it is cancelled, a server task that waits for packets and for the *)
(* cancellation at once, and the driver, which cancels both after a while, *)
(* joins the server and computes the peak of the smoothed throughput.      *)
(*                                                                         *)
(* The clock is tokio's paused one.  The network delivers a packet at any  *)
(* instant or never.  Times are in units of the model: `Second', `Window'  *)
(* and `SendInterval' stand for 1000, 100 and 50 ms.                       *)
(***************************************************************************)
EXTENDS Integers, Sequences, FiniteSets, FiniteSetsExt, SequencesExt

CONSTANTS
  Duration,      \* --duration-ms
  SendBps,       \* --send-bps, or twice the bandwidth of the fastest link
  Second,        \* 1000 ms
  SendInterval,  \* send_interval_ms
  Window,        \* window_duration
  MaxTransmit,   \* max_bytes_per_transmit
  BatchSize      \* packets that one receive returns at most

ASSUME ThroughputAssumption ==
  /\ {Duration, SendBps} \subseteq Nat
  /\ {Second, SendInterval, Window, MaxTransmit, BatchSize} \subseteq Nat \ {0}
  /\ Second % SendInterval = 0 /\ Second % Window = 0

VARIABLES
  now,           \* simulation_start.elapsed()
  sender,        \* the sender task: "sleeping", "ended" or "panicked"
  nextSend,      \* end of its sleep
  server,        \* the server task: "ready" to be polled, "waiting" or "ended"
  driver,        \* "sleeping", "joining" the server task, "smoothing" or "returned"
  cancelled,     \* CancellationToken.cancelled
  wire,          \* sizes of the packets in the network, by number
  inbound,       \* packets that the server's socket can return
  arrived,       \* arrived_packets of the server
  window,        \* the sliding window
  windowBytes,   \* bytes_in_window
  peak,          \* max_smoothed_throughput_bps
  routed,        \* the client has a route to the server
  arrivals,      \* history: when each packet came into the socket
  sent           \* history: bytes sent, and when

clientVars == <<sender, nextSend, sent>>
packetVars == <<wire, inbound, arrivals>>
peakVars   == <<window, windowBytes, peak>>
vars == <<now, clientVars, server, driver, cancelled, packetVars, arrived, peakVars, routed>>

Arrival == [at: 0..Duration, bytes: 1..MaxTransmit]

\* Other tasks run only while the driver awaits.
Running == driver \in {"sleeping", "joining"}

\* The bytes of the entries of f with an index in S, counted one by one.
SumBytes(S, f) == Cardinality(UNION {{i} \X (1..f[i].bytes) : i \in S})

-----------------------------------------------------------------------------
(* The sender.                                                              *)

BytesPerInterval_rounded == ((SendBps \div 8) \div (Second \div SendInterval)) + 1

\* send_bytes_per_interval
BytesPerInterval == (SendBps \div 8) \div (Second \div SendInterval)

Burst_oneTransmit == IF BytesPerInterval = 0 THEN <<>> ELSE <<BytesPerInterval>>

\* The sizes of the packets of a burst: full ones and the rest.
Burst ==
  LET full == BytesPerInterval \div MaxTransmit
      rest == BytesPerInterval % MaxTransmit
  IN  [i \in 1..full |-> MaxTransmit] \o (IF rest = 0 THEN <<>> ELSE <<rest>>)

\* One turn of the sender: the packets of a burst are sent without awaiting.
SendBurst ==
  /\ Running /\ sender = "sleeping" /\ now = nextSend /\ ~cancelled
  /\ wire' = IF routed THEN wire \o Burst ELSE wire
  /\ sent' = Append(sent, [at |-> now, bytes |-> BytesPerInterval])
  /\ nextSend' = now + SendInterval
  /\ UNCHANGED <<now, sender, server, driver, cancelled, inbound, arrivals, arrived, peakVars, routed>>

SenderEnds ==
  /\ Running /\ sender = "sleeping" /\ now = nextSend /\ cancelled
  /\ sender' = "ended"
  /\ UNCHANGED <<now, nextSend, sent, server, driver, cancelled, packetVars, arrived, peakVars, routed>>

\* Without a route the client's node ends its task at the first packet, and
\* try_send panics at a later one; nobody awaits the sender.
SenderPanics ==
  /\ Running /\ sender = "sleeping" /\ now = nextSend /\ ~cancelled
  /\ ~routed /\ Burst # <<>> /\ sent # <<>>
  /\ sender' = "panicked"
  /\ UNCHANGED <<now, nextSend, sent, server, driver, cancelled, packetVars, arrived, peakVars, routed>>

-----------------------------------------------------------------------------
(* The network and the server.                                              *)

Wake_lost == server' = server

\* What makes the server's task ready again: both futures of its select.
Wake == server' = IF server = "waiting" THEN "ready" ELSE server

\* A packet becomes readable; its socket wakes the task that waits for it.
Arrive(i) ==
  /\ Running
  /\ inbound' = Append(inbound, wire[i])
  /\ wire' = RemoveAt(wire, i)
  /\ arrivals' = Append(arrivals, [at |-> now, bytes |-> wire[i]])
  /\ Wake
  /\ UNCHANGED <<now, clientVars, driver, cancelled, arrived, peakVars, routed>>

\* select_biased: the cancellation comes first ...
ServerEnds ==
  /\ server = "ready" /\ cancelled
  /\ server' = "ended"
  /\ UNCHANGED <<now, clientVars, driver, cancelled, packetVars, arrived, peakVars, routed>>

\* ... then the packets that can be read, a batch per turn of the loop ...
ServerReceives ==
  /\ server = "ready" /\ ~cancelled /\ inbound # <<>>
  /\ LET n == Min({BatchSize, Len(inbound)}) IN
     /\ arrived' = arrived \o [i \in 1..n |-> [at |-> now, bytes |-> inbound[i]]]
     /\ inbound' = SubSeq(inbound, n + 1, Len(inbound))
  /\ UNCHANGED <<now, clientVars, server, driver, cancelled, wire, arrivals, peakVars, routed>>

\* ... and with neither the task waits for both.
ServerWaits ==
  /\ server = "ready" /\ ~cancelled /\ inbound = <<>>
  /\ server' = "waiting"
  /\ UNCHANGED <<now, clientVars, driver, cancelled, packetVars, arrived, peakVars, routed>>

-----------------------------------------------------------------------------
(* The driver.                                                              *)

Expired_inclusive(t) == {i \in DOMAIN window : \A j \in 1..i : window[j].at + Window <= t}

\* The packets at the front of the window that are popped at an arrival at t.
Expired(t) == {i \in DOMAIN window : \A j \in 1..i : window[j].at + Window < t}

Cancel_silent ==
  /\ driver = "sleeping" /\ now = Duration
  /\ cancelled' = TRUE
  /\ driver' = "joining"
  /\ UNCHANGED <<now, clientVars, server, packetVars, arrived, peakVars, routed>>

\* The driver's sleep ends: CancellationToken::cancel, then it joins the server.
Cancel ==
  /\ driver = "sleeping" /\ now = Duration
  /\ cancelled' = TRUE
  /\ driver' = "joining"
  /\ Wake
  /\ UNCHANGED <<now, clientVars, packetVars, arrived, peakVars, routed>>

Join ==
  /\ driver = "joining" /\ server = "ended"
  /\ driver' = "smoothing"
  /\ UNCHANGED <<now, clientVars, server, cancelled, packetVars, arrived, peakVars, routed>>

\* One turn of the loop over the packets that the server has returned.
Smooth ==
  /\ driver = "smoothing" /\ arrived # <<>>
  /\ LET p    == Head(arrived)
         gone == Expired(p.at) IN
     /\ window' = Append(SubSeq(window, Cardinality(gone) + 1, Len(window)), p)
     /\ windowBytes' = (windowBytes - SumBytes(gone, window)) + p.bytes
     /\ peak' = Max({peak, windowBytes' * 8 * (Second \div Window)})
  /\ arrived' = Tail(arrived)
  /\ UNCHANGED <<now, clientVars, server, driver, cancelled, packetVars, routed>>

Return ==
  /\ driver = "smoothing" /\ arrived = <<>>
  /\ driver' = "returned"
  /\ UNCHANGED <<now, clientVars, server, cancelled, packetVars, arrived, peakVars, routed>>

Idle ==
  /\ sender = "sleeping" => now < nextSend
  /\ server # "ready"
  /\ now < Duration

\* The clock moves when no task is ready.
Tick ==
  /\ Idle
  /\ now' = now + 1
  /\ UNCHANGED <<clientVars, server, driver, cancelled, packetVars, arrived, peakVars, routed>>

Init ==
  /\ now = 0 /\ sender = "sleeping" /\ nextSend = 0
  /\ server = "ready" /\ driver = "sleeping" /\ cancelled = FALSE
  /\ wire = <<>> /\ inbound = <<>> /\ arrived = <<>>
  /\ window = <<>> /\ windowBytes = 0 /\ peak = 0
  /\ routed \in BOOLEAN /\ arrivals = <<>> /\ sent = <<>>

Next ==
  \/ SendBurst \/ SenderEnds \/ SenderPanics
  \/ \E i \in DOMAIN wire : Arrive(i)
  \/ ServerEnds \/ ServerReceives \/ ServerWaits
  \/ Cancel \/ Join \/ Smooth \/ Return \/ Tick

\* The executor polls every task that is ready and the paused clock moves when
\* none is.  Nothing is assumed of the network.
Fairness ==
  /\ WF_vars(SendBurst \/ SenderEnds \/ SenderPanics)
  /\ WF_vars(ServerEnds \/ ServerReceives \/ ServerWaits)
  /\ WF_vars(Cancel) /\ WF_vars(Join \/ Smooth \/ Return) /\ WF_vars(Tick)

Spec == Init /\ [][Next]_vars /\ Fairness

-----------------------------------------------------------------------------
(* Properties.                                                              *)

\* Types: packets fit a transmit, and the window's counter never underflows.
TypeOK ==
  /\ now \in 0..Duration
  /\ sender \in {"sleeping", "ended", "panicked"}
  /\ nextSend \in 0..(Duration + SendInterval)
  /\ server \in {"ready", "waiting", "ended"}
  /\ driver \in {"sleeping", "joining", "smoothing", "returned"}
  /\ cancelled \in BOOLEAN /\ routed \in BOOLEAN
  /\ wire \in Seq(1..MaxTransmit) /\ inbound \in Seq(1..MaxTransmit)
  /\ arrived \in Seq(Arrival) /\ arrivals \in Seq(Arrival)
  /\ window \in Seq(Arrival) /\ windowBytes \in Nat /\ peak \in Nat
  /\ sent \in Seq([at: 0..Duration, bytes: Nat])

\* The server counts every packet that arrives before the instant at which it is
\* cancelled, once, in order and with its time of arrival; what it has not counted
\* arrived at the present instant, which after the cancellation is the last one.
EverythingCounted ==
  driver \in {"sleeping", "joining"} =>
    /\ arrived = SubSeq(arrivals, 1, Len(arrived))
    /\ \A i \in (Len(arrived) + 1)..Len(arrivals) : arrivals[i].at = now

\* The peak that is printed is that of the best window of 100 ms, both ends
\* included, wherever it begins, over the packets that the server counted; of
\* those it missed, all came at the last instant.
PeakIsRight ==
  driver = "returned" =>
    \E n \in 0..Len(arrivals) :
      /\ \A i \in (n + 1)..Len(arrivals) : arrivals[i].at = Duration
      /\ peak = Max({8 * (Second \div Window) *
                     SumBytes({i \in 1..n : arrivals[i].at \in t..(t + Window)}, arrivals)
                       : t \in 0..Duration})

\* The sender never exceeds the rate it was given, counted over any run of its
\* intervals.
RateKept ==
  \A i \in DOMAIN sent : \A j \in i..Len(sent) :
    8 * Second * SumBytes(i..j, sent) <= SendBps * (sent[j].at - sent[i].at + SendInterval)

\* The server hears of the cancellation, whatever it is waiting for, so that the
\* driver's join ends.
Terminates == <>(driver = "returned")
=============================================================================
