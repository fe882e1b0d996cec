--------------------------- MODULE QuicSimulation ---------------------------
(***************************************************************************)
(* The `quic' command: the driver that checks connectivity, starts one     *)
(* task per client connection, joins them and then the server's tasks; the *)
(* connection tasks, which draw requests from one budget and spawn a task  *)
(* per request; and the server's task per connection and per stream.       *)
(*                                                                         *)
(* quinn is external, reduced to what these tasks see of it: a handshake   *)
(* completes or fails, a stream is opened, answered and acknowledged, and  *)
(* each side may lose the connection, which its idle timeout guarantees    *)
(* when the other side is silent.  A close is sent once, with the last     *)
(* acknowledgements, and may get lost or overtake the client's Finished.   *)
(* quinn's own task for a connection sends its packets and runs its timers *)
(* too.  It dies, and with it the idle timeout, when the host's node has   *)
(* ended its task and a send panics: the connection is then "dead".        *)
(* Time is left out; a timeout is a step that may be taken at any moment.  *)
(***************************************************************************)
EXTENDS Integers, Sequences, FiniteSets

CONSTANTS
  Options,       \* command lines: [conns, streams, requests, interval, check], and of
                 \* the network they name: [fragile], the ways whose sender's node may
                 \* end its task, for want of a route or because of a link's dead task
  MaxConnections,\* b'Z' - b'A'
  Rounds         \* probes sent each way by the connectivity check: 100

Conn == 1..MaxConnections
Way  == {"a_to_b", "b_to_a"}        \* server to client, client to server

ASSUME QuicAssumption ==
  /\ \A o \in Options : /\ {o.conns, o.streams, o.requests} \subseteq Nat
                        /\ {o.interval, o.check} \subseteq BOOLEAN
                        /\ o.fragile \subseteq Way
  /\ MaxConnections \in Nat /\ Rounds \in Nat \ {0}

VARIABLES
  opt,           \* quic_options
  driver,        \* where QuicSimulation::run is
  round,         \* rounds of probes sent
  probes,        \* what happened to the probes of each way
  unrouted,      \* ways whose sender has no route
  ended,         \* ways whose sender's node has ended its task, in the check
  connTasks,     \* client connections started
  joined,        \* client connections joined
  handled,       \* handled_connections
  requestsLeft,  \* requests_left
  client,        \* where run_connection is, per connection
  claimed,       \* requests that the connection has taken from the budget
  held,          \* permits of requests_semaphore that are taken
  requests,      \* the state of each request task of the connection
  reqJoined,     \* request tasks it has joined
  clientConn,    \* the client's side of the connection
  server,        \* where the server's task for the connection is
  streams,       \* the state of each stream task of the server
  serverConn,    \* the server's side of the connection
  handles        \* the channel of server task handles

checkVars  == <<round, probes, unrouted, ended>>
driverVars == <<connTasks, joined, handled>>
clientVars == <<client, claimed, held, requests, reqJoined, clientConn>>
serverVars == <<server, streams, serverConn, handles>>
vars == <<opt, driver, checkVars, driverVars, requestsLeft, clientVars, serverVars>>

Final == {"Ok", "Err", "panicked"}
Up    == driver \notin Final          \* the runtime is dropped when run returns
Req   == 1..opt.requests            \* the streams that a connection can open

\* What the steps of each kind of task leave alone.
InCheck  == UNCHANGED <<opt, driverVars, requestsLeft, clientVars, serverVars>>
InDriver == UNCHANGED <<opt, checkVars, requestsLeft, clientVars, server, streams, serverConn>>
InClient == Up /\ UNCHANGED <<opt, driver, checkVars, driverVars, serverVars>>
InServer == Up /\ UNCHANGED <<opt, driver, checkVars, driverVars, requestsLeft, clientVars>>

-----------------------------------------------------------------------------
(* run, up to the connections: options, connectivity check.                 *)

\* validate_opts
Validate ==
  /\ driver = "validate"
  /\ driver' = IF opt.interval /\ opt.streams # 1 THEN "Err"
               ELSE IF opt.check THEN "probing" ELSE "starting"
  /\ InCheck /\ UNCHANGED checkVars

\* One round of assert_connectivity_between_hosts: a probe each way, and a minute, in
\* which the task of a node may end: at a packet for which it has no route, unless the
\* node is down and drops it, or at the queue of a link whose task is dead.
Probe ==
  /\ driver = "probing" /\ round < Rounds
  /\ round' = round + 1
  /\ probes' = [w \in Way |-> IF w \in unrouted \cup ended THEN probes[w]
                              ELSE [probes[w] EXCEPT !.wire = @ + 1]]
  /\ ended' \in SUBSET opt.fragile /\ ended \subseteq ended'
  /\ InCheck /\ UNCHANGED <<driver, unrouted>>

\* A host has lost the task of its node: forward panics, unless it drops the probe.
ProbePanics ==
  /\ driver = "probing" /\ round < Rounds /\ ended # {}
  /\ driver' = "panicked"
  /\ InCheck /\ UNCHANGED checkVars

ProbeArrives(w) ==
  /\ driver \in {"probing", "a_to_b", "b_to_a"} /\ probes[w].wire > 0
  /\ probes' = [probes EXCEPT ![w].wire = @ - 1, ![w].inbound = @ + 1]
  /\ InCheck /\ UNCHANGED <<driver, round, unrouted, ended>>

Probed ==
  /\ driver = "probing" /\ round = Rounds
  /\ driver' = "a_to_b"
  /\ InCheck /\ UNCHANGED checkVars

NextWay(w) == IF w = "a_to_b" THEN "b_to_a" ELSE "verdict"

\* A timeout of 90 days around a receive, first for one way and then for the
\* other; the socket's packets win if both are ready.
AwaitProbe(w) ==
  /\ driver = w
  /\ \/ /\ probes[w].inbound > 0
        /\ probes' = [probes EXCEPT ![w].inbound = @ - 1, ![w].received = TRUE]
     \/ probes[w].inbound = 0 /\ UNCHANGED probes
  /\ driver' = NextWay(w)
  /\ InCheck /\ UNCHANGED <<round, unrouted, ended>>

Verdict ==
  /\ driver = "verdict"
  /\ driver' = IF \A w \in Way : probes[w].received THEN "starting" ELSE "Err"
  /\ InCheck /\ UNCHANGED checkVars

-----------------------------------------------------------------------------
(* run, from the connections on.                                            *)

TooMany ==
  /\ driver = "starting" /\ opt.conns > MaxConnections
  /\ driver' = "Err"
  /\ InCheck /\ UNCHANGED checkVars

\* A connection task is spawned; other tasks run in the millisecond after it.
\* (connections_semaphore has a permit for each of them.)
Start(c) ==
  /\ driver = "starting" /\ opt.conns <= MaxConnections /\ c = connTasks + 1 /\ c <= opt.conns
  /\ connTasks' = c
  /\ client' = [client EXCEPT ![c] = "connecting"]
  /\ UNCHANGED <<opt, driver, checkVars, joined, handled, requestsLeft, claimed, held,
                 requests, reqJoined, clientConn, serverVars>>

AllStarted ==
  /\ driver = "starting" /\ connTasks = opt.conns
  /\ driver' = "joining"
  /\ InCheck /\ UNCHANGED checkVars

\* The connection tasks are joined in the order they were started; the first
\* error among those ends the run.
JoinConnection ==
  /\ driver = "joining" /\ joined < connTasks
  /\ \/ client[joined + 1] = "Ok" /\ joined' = joined + 1 /\ UNCHANGED driver
     \/ client[joined + 1] = "Err" /\ driver' = "Err" /\ UNCHANGED joined
  /\ InDriver /\ UNCHANGED <<connTasks, handled, handles>>

AllJoined ==
  /\ driver = "joining" /\ joined = connTasks
  /\ driver' = "draining"
  /\ InCheck /\ UNCHANGED checkVars

Drained_early(n) == n + 1 >= connTasks

Drained(n) == n >= connTasks

\* The next server task, in the order in which the server accepted them.
DrainHandle ==
  /\ driver = "draining" /\ handles # <<>>
  /\ LET c == Head(handles) IN
     \/ /\ server[c] = "Ok"
        /\ handles' = Tail(handles)
        /\ handled' = handled + 1
        /\ driver' = IF Drained(handled') THEN "Ok" ELSE driver
     \/ /\ server[c] \in {"Err", "panicked"}
        /\ driver' = "Err"
        /\ UNCHANGED <<handled, handles>>
  /\ InDriver /\ UNCHANGED <<connTasks, joined>>

-----------------------------------------------------------------------------
(* run_connection and its request tasks.                                    *)

\* connect().await succeeds: the server's handshake packets have come back.
Connected(c) ==
  /\ client[c] = "connecting" /\ clientConn[c] = "none"
  /\ server[c] # "none" /\ "a_to_b" \notin unrouted
  /\ client' = [client EXCEPT ![c] = "claiming"]
  /\ clientConn' = [clientConn EXCEPT ![c] = "open"]
  /\ InClient /\ UNCHANGED <<requestsLeft, claimed, held, requests, reqJoined>>

ConnectFails(c) ==
  /\ client[c] = "connecting" /\ clientConn[c] = "none"
  /\ client' = [client EXCEPT ![c] = "Err"]
  /\ InClient /\ UNCHANGED <<requestsLeft, claimed, held, requests, reqJoined, clientConn>>

\* The head of the loop: take a request from the budget that all connections
\* share, or stop.  The state of the connection is not looked at.
Claim(c) ==
  /\ client[c] = "claiming"
  /\ IF requestsLeft = 0
       THEN /\ client' = [client EXCEPT ![c] = "joining"]
            /\ UNCHANGED <<requestsLeft, claimed>>
       ELSE /\ client' = [client EXCEPT ![c] = "acquiring"]
            /\ requestsLeft' = requestsLeft - 1
            /\ claimed' = [claimed EXCEPT ![c] = @ + 1]
  /\ InClient /\ UNCHANGED <<held, requests, reqJoined, clientConn>>

MayAcquire_always(c) == TRUE

MayAcquire(c) == held[c] < opt.streams

Spawn(c) ==
  /\ requests' = [requests EXCEPT ![c] = Append(@, "running")]
  /\ client' = [client EXCEPT ![c] = "claiming"]

\* A permit; then, if this is not the first request, the interval; then a task.
Acquire(c) ==
  /\ client[c] = "acquiring" /\ MayAcquire(c)
  /\ held' = [held EXCEPT ![c] = @ + 1]
  /\ IF opt.interval /\ requests[c] # <<>>
       THEN client' = [client EXCEPT ![c] = "sleeping"] /\ UNCHANGED requests
       ELSE Spawn(c)
  /\ InClient /\ UNCHANGED <<requestsLeft, claimed, reqJoined, clientConn>>

IntervalEnds(c) ==
  /\ client[c] = "sleeping"
  /\ Spawn(c)
  /\ InClient /\ UNCHANGED <<requestsLeft, claimed, held, reqJoined, clientConn>>

Release_leak(c) == held' = held

\* The permit is dropped with the request task, whatever its result.
Release(c) == held' = [held EXCEPT ![c] = @ - 1]

\* open_bi and write_all of a request task: the request is on its way.
OpenStream(c, i) ==
  /\ requests[c][i] = "running" /\ streams[c][i] = "none" /\ clientConn[c] = "open"
  /\ streams' = [streams EXCEPT ![c][i] = "opened"]
  /\ InServer /\ UNCHANGED <<server, serverConn, handles>>

\* The request task has the whole response, or finds the connection lost or dead.
RequestEnds(c, i) ==
  /\ requests[c][i] = "running"
  /\ \/ /\ clientConn[c] = "open" /\ streams[c][i] \in {"answered", "unacked"}
        /\ requests' = [requests EXCEPT ![c][i] = "Ok"]
     \/ /\ clientConn[c] \in {"lost", "dead"}
        /\ requests' = [requests EXCEPT ![c][i] = "Err"]
  /\ Release(c)
  /\ InClient /\ UNCHANGED <<requestsLeft, client, claimed, reqJoined, clientConn>>

\* Request tasks are joined in the order they were spawned.
JoinRequest(c) ==
  /\ client[c] = "joining" /\ reqJoined[c] < Len(requests[c])
  /\ LET i == reqJoined[c] + 1 IN
     \/ /\ requests[c][i] = "Ok"
        /\ reqJoined' = [reqJoined EXCEPT ![c] = i] /\ UNCHANGED client
     \/ /\ requests[c][i] = "Err"
        /\ client' = [client EXCEPT ![c] = "Err"] /\ UNCHANGED reqJoined
  /\ InClient /\ UNCHANGED <<requestsLeft, claimed, held, requests, clientConn>>

Close_early(c) ==
  /\ client[c] = "joining"
  /\ client' = [client EXCEPT ![c] = IF clientConn[c] = "dead" THEN "Err" ELSE "Ok"]
  /\ clientConn' = [clientConn EXCEPT ![c] = IF @ = "open" THEN "closed" ELSE @]
  /\ InClient /\ UNCHANGED <<requestsLeft, claimed, held, requests, reqJoined>>

\* close() does not wait for the close packet, nor mind a connection that is lost;
\* it panics if the connection is dead.
Close(c) ==
  /\ client[c] = "joining" /\ reqJoined[c] = Len(requests[c])
  /\ client' = [client EXCEPT ![c] = IF clientConn[c] = "dead" THEN "Err" ELSE "Ok"]
  /\ clientConn' = [clientConn EXCEPT ![c] = IF @ = "open" THEN "closed" ELSE @]
  /\ InClient /\ UNCHANGED <<requestsLeft, claimed, held, requests, reqJoined>>

-----------------------------------------------------------------------------
(* The server's task for a connection and its stream tasks.                 *)

\* The first packet of a client arrives: a task, and its handle for the driver.
Accept(c) ==
  /\ client[c] # "none" /\ server[c] = "none" /\ "b_to_a" \notin unrouted
  /\ server' = [server EXCEPT ![c] = "handshaking"]
  /\ serverConn' = [serverConn EXCEPT ![c] = "open"]
  /\ handles' = Append(handles, c)
  /\ InServer /\ UNCHANGED streams

\* incoming.await succeeds: the client's Finished has arrived.
Handshaken(c) ==
  /\ server[c] = "handshaking" /\ serverConn[c] = "open"
  /\ clientConn[c] # "none" /\ client[c] # "connecting"
  /\ server' = [server EXCEPT ![c] = "accepting"]
  /\ InServer /\ UNCHANGED <<streams, serverConn, handles>>

HandshakeFails(c) ==
  /\ server[c] = "handshaking" /\ serverConn[c] # "open"
  /\ server' = [server EXCEPT ![c] = "Err"]
  /\ InServer /\ UNCHANGED <<streams, serverConn, handles>>

AcceptStream(c, i) ==
  /\ server[c] = "accepting" /\ serverConn[c] = "open"
  /\ streams[c][i] = "opened"
  /\ streams' = [streams EXCEPT ![c][i] = "reading"]
  /\ InServer /\ UNCHANGED <<server, serverConn, handles>>

\* The request is read and the response written; the task waits in stopped().
Answer(c, i) ==
  /\ streams[c][i] = "reading" /\ serverConn[c] = "open"
  /\ streams' = [streams EXCEPT ![c][i] = "answered"]
  /\ InServer /\ UNCHANGED <<server, serverConn, handles>>

\* The client's acknowledgement of the response arrives.
Acknowledged(c, i) ==
  /\ streams[c][i] = "answered" /\ requests[c][i] = "Ok" /\ serverConn[c] = "open"
  /\ streams' = [streams EXCEPT ![c][i] = "Ok"]
  /\ InServer /\ UNCHANGED <<server, serverConn, handles>>

StreamFails(c, i) ==
  /\ streams[c][i] \in {"reading", "answered"} /\ serverConn[c] # "open"
  /\ streams' = [streams EXCEPT ![c][i] = IF @ = "answered" THEN "unacked" ELSE "Err"]
  /\ InServer /\ UNCHANGED <<server, serverConn, handles>>

\* accept_bi fails; the stream tasks are joined, up to the first that failed.
JoinStreams(c) ==
  /\ server[c] = "accepting" /\ serverConn[c] # "open"
  /\ \/ /\ \E i \in Req : streams[c][i] \in {"Err", "unacked"}
        /\ server' = [server EXCEPT ![c] = "Err"]
     \/ /\ \A i \in Req : streams[c][i] \in {"none", "opened", "Ok"}
        /\ server' = [server EXCEPT ![c] = "closing"]
  /\ InServer /\ UNCHANGED <<streams, serverConn, handles>>

\* closed().await: only ApplicationClosed will do.
Closed(c) ==
  /\ server[c] = "closing"
  /\ server' = [server EXCEPT ![c] = IF serverConn[c] = "closed" THEN "Ok" ELSE "panicked"]
  /\ InServer /\ UNCHANGED <<streams, serverConn, handles>>

-----------------------------------------------------------------------------
(* quinn and the network.                                                   *)

\* The close arrives, with the acknowledgements of all that the client has read.
CloseArrives(c) ==
  /\ clientConn[c] = "closed" /\ serverConn[c] = "open"
  /\ serverConn' = [serverConn EXCEPT ![c] = IF server[c] = "handshaking" THEN "overtaken" ELSE "closed"]
  /\ streams' = [streams EXCEPT ![c] =
                   [i \in DOMAIN @ |-> IF @[i] = "answered" THEN "Ok" ELSE @[i]]]
  /\ InServer /\ UNCHANGED <<server, handles>>

ClientLoses(c) ==
  /\ clientConn[c] = "open"
  /\ clientConn' = [clientConn EXCEPT ![c] = "lost"]
  /\ InClient /\ UNCHANGED <<requestsLeft, client, claimed, held, requests, reqJoined>>

ServerLoses(c) ==
  /\ serverConn[c] = "open"
  /\ serverConn' = [serverConn EXCEPT ![c] = "lost"]
  /\ InServer /\ UNCHANGED <<server, streams, handles>>

\* The task of the client's node has ended, at a packet for which it has no route or at
\* the queue of a link whose task is dead: the next try_send panics in quinn's task for
\* the connection.  Other connections of the host may still get by on what is under way.
ClientDies(c) ==
  /\ "b_to_a" \in opt.fragile
  /\ clientConn[c] = "open" \/ (client[c] = "connecting" /\ clientConn[c] = "none")
  /\ clientConn' = [clientConn EXCEPT ![c] = "dead"]
  /\ InClient /\ UNCHANGED <<requestsLeft, client, claimed, held, requests, reqJoined>>

\* The same on the server's side.
ServerDies(c) ==
  /\ "a_to_b" \in opt.fragile /\ serverConn[c] = "open"
  /\ serverConn' = [serverConn EXCEPT ![c] = "dead"]
  /\ InServer /\ UNCHANGED <<server, streams, handles>>

-----------------------------------------------------------------------------

Init ==
  /\ opt \in Options /\ driver = "validate"
  /\ round = 0 /\ unrouted \in SUBSET opt.fragile /\ ended = {}
  /\ probes = [w \in Way |-> [wire |-> 0, inbound |-> 0, received |-> FALSE]]
  /\ connTasks = 0 /\ joined = 0 /\ handled = 0 /\ requestsLeft = opt.requests
  /\ client = [c \in Conn |-> "none"] /\ clientConn = [c \in Conn |-> "none"]
  /\ claimed = [c \in Conn |-> 0] /\ held = [c \in Conn |-> 0]
  /\ requests = [c \in Conn |-> <<>>] /\ reqJoined = [c \in Conn |-> 0]
  /\ server = [c \in Conn |-> "none"] /\ serverConn = [c \in Conn |-> "none"]
  /\ streams = [c \in Conn |-> [i \in Req |-> "none"]] /\ handles = <<>>

Check == Validate \/ Probe \/ ProbePanics \/ Probed \/ Verdict
           \/ \E w \in Way : ProbeArrives(w) \/ AwaitProbe(w)

Driver == TooMany \/ AllStarted \/ JoinConnection \/ AllJoined \/ DrainHandle
            \/ \E c \in Conn : Start(c)

\* Steps of run_connection that wait for other tasks of the program only.
ClientTask(c) == Claim(c) \/ Acquire(c) \/ IntervalEnds(c) \/ JoinRequest(c) \/ Close(c)

\* Steps that wait for quinn.
Client(c) ==
  \/ Connected(c) \/ ConnectFails(c) \/ ClientLoses(c)
  \/ \E i \in DOMAIN requests[c] : OpenStream(c, i) \/ RequestEnds(c, i)

Server(c) ==
  \/ Accept(c) \/ Handshaken(c) \/ HandshakeFails(c) \/ JoinStreams(c) \/ Closed(c)
  \/ CloseArrives(c) \/ ServerLoses(c)
  \/ \E i \in DOMAIN requests[c] :
       AcceptStream(c, i) \/ Answer(c, i) \/ Acknowledged(c, i) \/ StreamFails(c, i)

Next ==
  \/ Check \/ Driver
  \/ \E c \in Conn : ClientTask(c) \/ Client(c) \/ Server(c) \/ ClientDies(c) \/ ServerDies(c)

\* Every wait of these tasks is for another task, which the executor polls, for a
\* sleep or a timeout, or for quinn, whose idle timeout ends it as long as the
\* connection is not dead: then some step that is enabled is taken.  No particular
\* one is promised, least of all a delivery, and nothing of a dead connection.
Live ==
  \/ Check \/ Driver
  \/ \E c \in Conn :
       \/ ClientTask(c)
       \/ clientConn[c] # "dead" /\ Client(c)
       \/ serverConn[c] # "dead" /\ Server(c)

Spec == Init /\ [][Next]_vars /\ WF_vars(Live)

-----------------------------------------------------------------------------
(* Properties.                                                              *)

TaskState == {"running", "Ok", "Err"}

\* Types: the driver's counters never exceed the connections started, and no
\* connection holds more permits than --concurrent-streams.
TypeOK ==
  /\ opt \in Options
  /\ driver \in Final \cup Way \cup {"validate", "probing", "verdict", "starting", "joining", "draining"}
  /\ round \in 0..Rounds /\ unrouted \subseteq opt.fragile /\ ended \subseteq opt.fragile
  /\ probes \in [Way -> [wire: 0..Rounds, inbound: 0..Rounds, received: BOOLEAN]]
  /\ connTasks \in 0..MaxConnections /\ joined \in 0..connTasks /\ handled \in 0..connTasks
  /\ requestsLeft \in 0..opt.requests
  /\ client \in [Conn -> {"none", "connecting", "claiming", "acquiring", "sleeping", "joining", "Ok", "Err"}]
  /\ claimed \in [Conn -> 0..opt.requests] /\ held \in [Conn -> 0..opt.streams]
  /\ requests \in [Conn -> Seq(TaskState)] /\ reqJoined \in [Conn -> Nat]
  /\ \A c \in Conn : reqJoined[c] <= Len(requests[c])
  /\ clientConn \in [Conn -> {"none", "open", "closed", "lost", "dead"}]
  /\ server \in [Conn -> {"none", "handshaking", "accepting", "closing", "Ok", "Err", "panicked"}]
  /\ streams \in [Conn -> [Req -> {"none", "opened", "reading", "answered", "unacked", "Ok", "Err"}]]
  /\ serverConn \in [Conn -> {"none", "open", "closed", "overtaken", "lost", "dead"}]
  /\ handles \in Seq(Conn)

With(c, state) == Cardinality({i \in DOMAIN requests[c] : requests[c][i] = state})

\* The requests of all connections: those claimed, those that got their response,
\* and those whose response the server knows to have arrived.
Claims    == {x \in Conn \X Req : x[2] <= claimed[x[1]]}
Succeeded == {x \in Conn \X Req : x[2] \in DOMAIN requests[x[1]] /\ requests[x[1]][x[2]] = "Ok"}
Answered  == {x \in Conn \X Req : streams[x[1]][x[2]] = "Ok"}

\* The budget is conserved while the connections race for it: what is left and what
\* they have claimed add up to --requests, a claim is a request task or about to
\* become one, and a run that ends well has had every request answered once.
EveryRequestOnce ==
  /\ requestsLeft + Cardinality(Claims) = opt.requests
  /\ \A c \in Conn :
       claimed[c] = Len(requests[c]) + (IF client[c] \in {"acquiring", "sleeping"} THEN 1 ELSE 0)
  /\ driver = "Ok" => /\ Cardinality(Succeeded) = opt.requests
                      /\ Cardinality(Answered) = opt.requests

\* A connection never has more requests under way than streams allowed, so that
\* with an interval the sleep begins only after the last response (cli.rs:79-80);
\* and the permits are those of the requests under way and of the sleeper, so none
\* is lost with a request that failed.
StreamLimit ==
  \A c \in Conn :
    /\ With(c, "running") <= opt.streams
    /\ held[c] = With(c, "running") + (IF client[c] = "sleeping" THEN 1 ELSE 0)
    /\ client[c] = "sleeping" => With(c, "running") = 0

Fault(c) ==
  \/ client[c] = "Err" /\ clientConn[c] = "none"
  \/ clientConn[c] \in {"lost", "dead"}
  \/ serverConn[c] \in {"lost", "overtaken", "dead"}

\* The result of the run is the truth.  Connections are started only if probes got
\* through both ways.  Ok: every connection was opened, used, closed by the client and
\* seen closed by the server, and every server task was joined.  Err after that: some
\* connection failed to open, timed out or died, or its close was lost or came too early.
\* run itself panics in the check only.
ResultIsTrue ==
  /\ connTasks > 0 /\ opt.check => \A w \in Way : probes[w].received
  /\ driver = "Ok" =>
       /\ connTasks = opt.conns /\ handles = <<>>
       /\ \A c \in 1..opt.conns :
            /\ client[c] = "Ok" /\ clientConn[c] = "closed"
            /\ server[c] = "Ok" /\ serverConn[c] = "closed"
  /\ driver = "Err" /\ connTasks > 0 => \E c \in Conn : Fault(c)
  /\ driver = "panicked" => opt.check /\ connTasks = 0

\* cli.rs takes 0 for both numbers: without connections the driver waits for the
\* handle of a server task, without streams a connection waits for a permit.
Waits == opt.conns = 0 \/ (opt.streams = 0 /\ opt.requests > 0)

\* The driver waits for a task that waits for a dead connection: connect(), a request
\* under way, or the server's task for it.
Stuck ==
  \/ /\ driver = "joining" /\ joined < connTasks /\ clientConn[joined + 1] = "dead"
     /\ client[joined + 1] = "connecting" \/ With(joined + 1, "running") > 0
  \/ /\ driver = "draining" /\ handles # <<>> /\ serverConn[Head(handles)] = "dead"
     /\ server[Head(handles)] \in {"handshaking", "accepting", "closing"}

\* The command ends, whatever happens to its connections, unless its options leave
\* it waiting for what cannot come, or the task of a host's node ended and took
\* quinn's with it.
Terminates == <>[](driver \in Final \/ Waits \/ Stuck)
=============================================================================
