------------------------------- MODULE Server -------------------------------
(***************************************************************************)
(* The connections of a USMPServer: how a connection is admitted, runs its *)
(* handshake, becomes a session, and ends (_on_transport_connect), with    *)
(* the counters and registries it keeps on the way.  The server listens on *)
(* TCP or on UDP; for UDP this includes the listener's demultiplexing of   *)
(* datagrams by address.                                                   *)
(*                                                                         *)
(* Each connection is a task.  A task runs without interruption between    *)
(* the awaits that separate the values of its pc:                          *)
(*   new        the task is scheduled and has not run yet                  *)
(*   queued     it waits for _handshake_semaphore                          *)
(*   handshake  it is in server_handshake                                  *)
(*   agreed     server_handshake returned, to a wait_for that has not yet  *)
(*              resumed (Python 3.11; later versions resume at once)       *)
(*   session    the application's handler runs                             *)
(*   closing    the finally clause awaits the cancelled watchdog           *)
(*   flushing   it has closed a TCP transport and awaits wait_closed()     *)
(*   done       the task has ended                                         *)
(*   dropped    the task was cancelled before it ever ran                  *)
(* Lockouts are those of HandshakeLimiter.  serve() ends, once, by         *)
(* stop(): it stops the listener, which cancels the connections it knows   *)
(* of and waits for them, then does so itself for what is left.            *)
(***************************************************************************)
EXTENDS Integers, Sequences, FiniteSets, FiniteSetsExt

CONSTANTS
    Ips, Ports,          \* a peer's address is a pair of these
    Configs,             \* servers to consider, see config below
    MaxInProgress,       \* UDP handshakes in progress per IP, 3 in the code
    Permits,             \* _handshake_semaphore, 10 in the code
    HandlerTimeouts,     \* whether handlers call recv() with a timeout
    MaxConns,            \* bound on the connections of a behaviour
    Threshold, BackoffCap, IdleLimit, MaxEntries, MaxExponent, MaxTime

ASSUME ServerAssumption ==
    /\ IsFiniteSet(Ips) /\ IsFiniteSet(Ports)
    /\ Configs \subseteq [reliable : BOOLEAN, max_connections : Nat,
                          max_connections_per_ip : Nat, py312 : BOOLEAN]
    /\ HandlerTimeouts \in BOOLEAN
    /\ MaxInProgress \in Nat /\ Permits \in Nat \ {0} /\ MaxConns \in Nat

VARIABLES
    config,                      \* the transport's is_reliable (TCP or UDP), the
                                 \* limits, and whether Python is 3.12 or later
    now, failed_handshakes,      \* the limiter's
    conns,                       \* every connection so far: address, pc, and
                                 \* whether its transport is open, not close()d
    attached,                    \* TCP connections that asyncio has not lost yet: a
                                 \* closed one stays until its peer has taken or
                                 \* refused what was written to it
    tcp_connections,             \* _tcp_connections
    udp_sessions,                \* _udp_sessions: the stream at each address
    udp_handshakes,              \* _udp_handshakes, likewise
    udp_in_progress_handshakes,  \* _udp_in_progress_handshakes
    phase,                       \* of serve(): serving, stopping (the listener),
                                 \* cancelling (what is left), stopped
    gathered,                    \* the tasks that serve() now waits for
    cancelled                    \* tasks whose CancelledError is still to come

limiterVars == <<now, failed_handshakes>>

registryVars ==
    <<tcp_connections, udp_sessions, udp_handshakes, udp_in_progress_handshakes>>

serveVars == <<phase, gathered, cancelled>>

vars == <<config, limiterVars, conns, attached, registryVars, serveVars>>

Reliable == config.reliable

MaxConnections == config.max_connections

MaxPerIp == config.max_connections_per_ip

Addrs == Ips \X Ports

None == 0  \* no stream; the streams are the indices of conns

Ids == 1 .. Len(conns)

Ip(c) == conns[c].addr[1]

ConnsOf(ip, pcs) == { c \in Ids : Ip(c) = ip /\ conns[c].pc \in pcs }

(* The limiter sees a connection from its admission to its handshake's end. *)
Limiter == INSTANCE HandshakeLimiter
    WITH MaxAttempts <- MaxConns,
         waiting <- [ip \in Ips |-> Cardinality(ConnsOf(ip, {"queued"}))],
         running <- [ip \in Ips |-> Cardinality(ConnsOf(ip, {"handshake"}))]

Init ==
    /\ config \in Configs
    /\ Limiter!LimiterInit
    /\ conns = << >>
    /\ attached = {}
    /\ tcp_connections = [ip \in Ips |-> 0]
    /\ udp_sessions = [a \in Addrs |-> None]
    /\ udp_handshakes = [a \in Addrs |-> None]
    /\ udp_in_progress_handshakes = [ip \in Ips |-> 0]
    /\ phase = "serving"
    /\ gathered = {}
    /\ cancelled = {}

-----------------------------------------------------------------------------
(* Arrivals. *)

Connection(a) ==
    /\ phase = "serving"
    /\ Len(conns) < MaxConns
    /\ conns' = Append(conns, [addr |-> a, pc |-> "new", open |-> TRUE])

(* asyncio accepts a TCP connection and schedules its task. *)
TcpAccept(a) ==
    /\ Reliable
    /\ Connection(a)
    /\ attached' = attached \cup {Len(conns) + 1}
    /\ UNCHANGED <<limiterVars, registryVars>>

Occupied(registry) == { a \in Addrs : registry[a] # None }

(* A HELLO with a valid cookie, at an address where no handshake is going  *)
(* on: the client's own, or a duplicate of it that the network delivers    *)
(* late.  Where one is going on, the HELLO is fed to its stream, which     *)
(* discards it.                                                            *)
UdpHello(a) ==
    /\ ~Reliable
    /\ udp_handshakes[a] = None
    /\ ~Limiter!LockedOut(a[1])
    /\ udp_in_progress_handshakes[a[1]] < MaxInProgress
    /\ Cardinality(Occupied(udp_handshakes)) < 2 * MaxConnections
    /\ Connection(a)
    /\ udp_in_progress_handshakes' = [udp_in_progress_handshakes EXCEPT ![a[1]] = @ + 1]
    /\ udp_handshakes' = [udp_handshakes EXCEPT ![a] = Len(conns) + 1]
    /\ UNCHANGED <<limiterVars, attached, tcp_connections, udp_sessions>>

(* Where a datagram of the session phase goes. *)
Route(a) == IF udp_handshakes[a] # None THEN udp_handshakes[a] ELSE udp_sessions[a]

-----------------------------------------------------------------------------
(* The end of a connection: the finally clause. *)

(* A task takes a step of its own: no cancellation is due.                 *)
At(c, pcs) == conns[c].pc \in pcs /\ c \notin cancelled

(* Before Python 3.12 wait_for runs the handshake as a task of its own,    *)
(* which may take a step before the cancellation arrives.                  *)
HandshakeAt(c, pc) == conns[c].pc = pc /\ (config.py312 => c \notin cancelled)

Goto(c, pc) == conns' = [conns EXCEPT ![c].pc = pc]

(* transport.close() and wait_closed(), which over UDP returns at once.    *)
CloseAndWait(c) ==
    conns' = [conns EXCEPT ![c].pc = IF Reliable THEN "flushing" ELSE "done", ![c].open = FALSE]

(* Mutant: the finally clause removes whatever stream its address has. *)
Unregister_Unchecked(c) ==
    LET a == conns[c].addr IN
    /\ tcp_connections' =
          IF Reliable THEN [tcp_connections EXCEPT ![a[1]] = @ - 1] ELSE tcp_connections
    /\ udp_in_progress_handshakes' =
          IF ~Reliable /\ conns[c].pc \in {"queued", "handshake"}
          THEN [udp_in_progress_handshakes EXCEPT ![a[1]] = @ - 1]
          ELSE udp_in_progress_handshakes
    /\ udp_sessions' = [udp_sessions EXCEPT ![a] = None]
    /\ udp_handshakes' = [udp_handshakes EXCEPT ![a] = None]

(* Mutant: a handshake that did not complete is not taken off the count. *)
Unregister_Leaks(c) ==
    LET a == conns[c].addr
        Without(registry) == [registry EXCEPT ![a] = IF @ = c THEN None ELSE @]
    IN
    /\ tcp_connections' =
          IF Reliable /\ conns[c].pc = "session"
          THEN [tcp_connections EXCEPT ![a[1]] = @ - 1] ELSE tcp_connections
    /\ udp_in_progress_handshakes' = udp_in_progress_handshakes
    /\ udp_sessions' = Without(udp_sessions)
    /\ udp_handshakes' = Without(udp_handshakes)

(* A connection's counts, and its entries in the registries if they are    *)
(* still its own.                                                          *)
Unregister(c) ==
    LET a == conns[c].addr
        Without(registry) == [registry EXCEPT ![a] = IF @ = c THEN None ELSE @]
    IN
    /\ tcp_connections' =
          IF Reliable THEN [tcp_connections EXCEPT ![a[1]] = @ - 1] ELSE tcp_connections
    /\ udp_in_progress_handshakes' =
          IF ~Reliable /\ conns[c].pc \in {"queued", "handshake"}
          THEN [udp_in_progress_handshakes EXCEPT ![a[1]] = @ - 1]
          ELSE udp_in_progress_handshakes
    /\ udp_sessions' = Without(udp_sessions)
    /\ udp_handshakes' = Without(udp_handshakes)

(* Without a session there is no watchdog to await. *)
EndsBeforeSession(c) == Unregister(c) /\ CloseAndWait(c) /\ UNCHANGED attached

-----------------------------------------------------------------------------
(* _on_transport_connect *)

(* Mutant: one connection too many from an address. *)
AtLimit_OffByOne(ip) ==
    \/ MapThenSumSet(LAMBDA i : tcp_connections[i], Ips) >= MaxConnections
    \/ tcp_connections[ip] > MaxPerIp

AtLimit(ip) ==
    \/ MapThenSumSet(LAMBDA i : tcp_connections[i], Ips) >= MaxConnections
    \/ tcp_connections[ip] >= MaxPerIp

(* The task starts; over TCP the connection is counted, or closed, with    *)
(* nothing written to it that could hold it up.                            *)
Start(c) ==
    /\ At(c, {"new"})
    /\ IF Reliable /\ AtLimit(Ip(c))
       THEN /\ conns' = [conns EXCEPT ![c].pc = "done", ![c].open = FALSE]
            /\ attached' = attached \ {c}
            /\ UNCHANGED tcp_connections
       ELSE /\ Goto(c, "queued")
            /\ tcp_connections' =
                  IF Reliable THEN [tcp_connections EXCEPT ![Ip(c)] = @ + 1]
                  ELSE tcp_connections
            /\ UNCHANGED attached
    /\ UNCHANGED <<limiterVars, udp_sessions, udp_handshakes, udp_in_progress_handshakes>>

PermitFree == Cardinality({ c \in Ids : conns[c].pc = "handshake" }) < Permits

(* Mutant: the lockout is not checked again after the wait. *)
Begin_Unchecked(c) ==
    /\ HandshakeAt(c, "queued")
    /\ PermitFree
    /\ Goto(c, "handshake")
    /\ UNCHANGED <<limiterVars, attached, registryVars>>

Begin(c) ==
    /\ HandshakeAt(c, "queued")
    /\ PermitFree
    /\ ~Limiter!LockedOut(Ip(c))
    /\ Goto(c, "handshake")
    /\ UNCHANGED <<limiterVars, attached, registryVars>>

Refuse(c) ==
    /\ HandshakeAt(c, "queued")
    /\ PermitFree
    /\ Limiter!LockedOut(Ip(c))
    /\ EndsBeforeSession(c)
    /\ UNCHANGED limiterVars

(* A protocol or authentication error, which a connection that closes      *)
(* before HELLO or HELLO_ACK becomes too.                                  *)
HandshakeFails(c) ==
    /\ HandshakeAt(c, "handshake")
    /\ Limiter!RecordFailedHandshake(Ip(c))
    /\ EndsBeforeSession(c)

(* The transport fails in any other way: not counted. *)
HandshakeLost(c) ==
    /\ HandshakeAt(c, "handshake")
    /\ EndsBeforeSession(c)
    /\ UNCHANGED limiterVars

(* Mutant: the timeout starts with the handshake, not with the wait. *)
HandshakeTimesOut_NotQueued(c) ==
    /\ At(c, {"handshake"})
    /\ Limiter!RecordFailedHandshake(Ip(c))
    /\ EndsBeforeSession(c)

(* wait_for's timeout, which covers the wait for the semaphore. *)
HandshakeTimesOut(c) ==
    /\ At(c, {"queued", "handshake"})
    /\ Limiter!RecordFailedHandshake(Ip(c))
    /\ EndsBeforeSession(c)

(* server_handshake returns, to a wait_for that resumes later. *)
Agree(c) ==
    /\ ~config.py312
    /\ HandshakeAt(c, "handshake")
    /\ Limiter!ForgetFailures(Ip(c))
    /\ Goto(c, "agreed")
    /\ UNCHANGED <<attached, registryVars>>

(* wait_for returns; in Python 3.12 that is still the handshake's step.    *)
WaitForReturns(c) ==
    \/ /\ At(c, {"agreed"})
       /\ UNCHANGED limiterVars
    \/ /\ config.py312
       /\ At(c, {"handshake"})
       /\ Limiter!ForgetFailures(Ip(c))

SessionsFull(ip) ==
    \/ Cardinality(Occupied(udp_sessions)) >= MaxConnections
    \/ Cardinality({ a \in Occupied(udp_sessions) : a[1] = ip }) >= MaxPerIp

EstablishTcp(c) ==
    /\ Reliable
    /\ WaitForReturns(c)
    /\ Goto(c, "session")
    /\ UNCHANGED <<attached, registryVars>>

(* Mutant: the stream of the session that is replaced stays open. *)
EstablishUdp_KeepsOld(c) ==
    LET a == conns[c].addr IN
    /\ ~Reliable
    /\ WaitForReturns(c)
    /\ ~SessionsFull(a[1])
    /\ udp_in_progress_handshakes' = [udp_in_progress_handshakes EXCEPT ![a[1]] = @ - 1]
    /\ udp_sessions' = [udp_sessions EXCEPT ![a] = c]
    /\ udp_handshakes' = [udp_handshakes EXCEPT ![a] = None]
    /\ Goto(c, "session")
    /\ UNCHANGED <<attached, tcp_connections>>

(* The stream moves to the sessions; one that its address already has is   *)
(* closed and replaced.                                                    *)
EstablishUdp(c) ==
    LET a == conns[c].addr
        old == udp_sessions[a]
    IN
    /\ ~Reliable
    /\ WaitForReturns(c)
    /\ ~SessionsFull(a[1])
    /\ udp_in_progress_handshakes' = [udp_in_progress_handshakes EXCEPT ![a[1]] = @ - 1]
    /\ udp_sessions' = [udp_sessions EXCEPT ![a] = c]
    /\ udp_handshakes' = [udp_handshakes EXCEPT ![a] = None]
    /\ conns' = [i \in Ids |-> IF i = c THEN [conns[i] EXCEPT !.pc = "session"]
                               ELSE IF i = old THEN [conns[i] EXCEPT !.open = FALSE]
                               ELSE conns[i]]
    /\ UNCHANGED <<attached, tcp_connections>>

(* Too many sessions: the stream is closed, and the finally clause runs    *)
(* with the handshake already taken off the count.                         *)
TurnAwayUdp(c) ==
    LET a == conns[c].addr IN
    /\ ~Reliable
    /\ WaitForReturns(c)
    /\ SessionsFull(a[1])
    /\ udp_in_progress_handshakes' = [udp_in_progress_handshakes EXCEPT ![a[1]] = @ - 1]
    /\ udp_handshakes' = [udp_handshakes EXCEPT ![a] = None]
    /\ CloseAndWait(c)
    /\ UNCHANGED <<attached, tcp_connections, udp_sessions>>

(* The handler returns or raises.  A USMPTimeoutError of its recv() gets   *)
(* to the same except clause as the handshake's timeout.                   *)
HandlerEnds(c) ==
    /\ At(c, {"session"})
    /\ Unregister(c)
    /\ Goto(c, "closing")
    /\ UNCHANGED attached
    /\ \/ UNCHANGED limiterVars
       \/ HandlerTimeouts /\ Limiter!RecordFailedHandshake(Ip(c))

(* _watchdog: no frame within session_timeout.  It awaits on_timeout and   *)
(* then closes, whatever has arrived meanwhile.                            *)
Watchdog(c) ==
    /\ conns[c].pc = "session"
    /\ conns[c].open
    /\ conns' = [conns EXCEPT ![c].open = FALSE]
    /\ UNCHANGED <<limiterVars, attached, registryVars>>

(* The watchdog is gone, if there was one left to await. *)
Close(c) ==
    /\ At(c, {"closing"})
    /\ CloseAndWait(c)
    /\ UNCHANGED <<limiterVars, attached, registryVars>>

(* A TCP connection is lost: it was closed and its peer has taken what was *)
(* left to send, or it broke.  The break of an open one, whose task must   *)
(* have started for asyncio to read from it, is told apart only where the  *)
(* listener waits for it; otherwise it is the task's next read or write    *)
(* that fails (HandshakeLost, HandlerEnds).                                *)
ConnectionLost(c) ==
    /\ c \in attached
    /\ ~conns[c].open \/ (config.py312 /\ conns[c].pc # "new")
    /\ attached' = attached \ {c}
    /\ UNCHANGED <<limiterVars, conns, registryVars>>

(* wait_closed() returns.  A cancellation still due here was meant for the *)
(* handshake, whose failure wait_for has raised instead of it.             *)
Flushed(c) ==
    /\ conns[c].pc = "flushing"
    /\ c \notin attached
    /\ Goto(c, "done")
    /\ UNCHANGED <<limiterVars, attached, registryVars>>

-----------------------------------------------------------------------------
(* serve() after stop() *)

Ended(c) == conns[c].pc \in {"done", "dropped"}

(* _conn_tasks: a task is added at its start, and removed at the head of   *)
(* its finally clause.                                                     *)
ConnTasks == { c \in Ids : conns[c].pc \in {"queued", "handshake", "agreed", "session"} }

CancelAndGather(tasks) ==
    /\ cancelled' = cancelled \cup tasks
    /\ gathered' = tasks

(* Mutant: the tasks are waited for without being cancelled. *)
StopTcp_NoCancel ==
    /\ Reliable
    /\ phase = "serving"
    /\ phase' = "stopping"
    /\ gathered' = ConnTasks
    /\ UNCHANGED <<limiterVars, conns, attached, registryVars, cancelled>>

(* TCPListener.stop(): no more connections; the known tasks are cancelled. *)
StopTcp ==
    /\ Reliable
    /\ phase = "serving"
    /\ phase' = "stopping"
    /\ CancelAndGather(ConnTasks)
    /\ UNCHANGED <<limiterVars, conns, attached, registryVars>>

(* UDPListener.stop(): the registered streams are closed, the registries   *)
(* cleared, and all tasks cancelled, _background_tasks included.           *)
StopUdp ==
    LET Registered(c) == c \in { udp_sessions[conns[c].addr], udp_handshakes[conns[c].addr] } IN
    /\ ~Reliable
    /\ phase = "serving"
    /\ phase' = "stopping"
    /\ conns' = [c \in Ids |-> [conns[c] EXCEPT !.open = @ /\ ~Registered(c)]]
    /\ udp_sessions' = [a \in Addrs |-> None]
    /\ udp_handshakes' = [a \in Addrs |-> None]
    /\ CancelAndGather({ c \in Ids : ~Ended(c) })
    /\ UNCHANGED <<limiterVars, attached, tcp_connections, udp_in_progress_handshakes>>

(* Mutant: the TCP listener does not wait for its connections. *)
ListenerStopped_NoWait ==
    /\ phase = "stopping"
    /\ \A c \in gathered : Ended(c)
    /\ phase' = "cancelling"
    /\ CancelAndGather(ConnTasks)
    /\ UNCHANGED <<limiterVars, conns, attached, registryVars>>

(* The listener has stopped: the tasks that it cancelled have ended and,   *)
(* over TCP from Python 3.12 on, wait_closed() has seen every connection   *)
(* lost.  serve() cancels the tasks that have started since.               *)
ListenerStopped ==
    /\ phase = "stopping"
    /\ \A c \in gathered : Ended(c)
    /\ Reliable /\ config.py312 => attached = {}
    /\ phase' = "cancelling"
    /\ CancelAndGather(ConnTasks)
    /\ UNCHANGED <<limiterVars, conns, attached, registryVars>>

ServeReturns ==
    /\ phase = "cancelling"
    /\ \A c \in gathered : Ended(c)
    /\ phase' = "stopped"
    /\ gathered' = {}
    /\ UNCHANGED <<limiterVars, conns, attached, registryVars, cancelled>>

(* The CancelledError reaches a task.  A task that has not run does not    *)
(* get as far as its finally clause, and stays counted.                    *)
CancelledUnstarted(c) ==
    /\ conns[c].pc = "new"
    /\ Goto(c, "dropped")
    /\ UNCHANGED <<attached, registryVars>>

CancelledHandshake(c) ==
    /\ conns[c].pc \in {"queued", "handshake"}
    /\ EndsBeforeSession(c)

CancelledSession(c) ==
    /\ conns[c].pc = "session"
    /\ Unregister(c)
    /\ Goto(c, "closing")
    /\ UNCHANGED attached

(* wait_for before Python 3.12 returns the handshake's result instead; the *)
(* finally clause takes the error for that of the watchdog it awaits.      *)
CancelSwallowed(c) ==
    /\ conns[c].pc \in {"agreed", "closing"}
    /\ UNCHANGED <<conns, attached, registryVars>>

Cancelled(c) ==
    /\ c \in cancelled
    /\ cancelled' = cancelled \ {c}
    /\ \/ CancelledUnstarted(c) \/ CancelledHandshake(c)
       \/ CancelledSession(c) \/ CancelSwallowed(c)
    /\ UNCHANGED <<limiterVars, phase, gathered>>

-----------------------------------------------------------------------------
Arrival == \E a \in Addrs : TcpAccept(a) \/ UdpHello(a)

TaskStep(c) ==
    \/ Start(c) \/ Begin(c) \/ Refuse(c)
    \/ HandshakeFails(c) \/ HandshakeLost(c) \/ HandshakeTimesOut(c)
    \/ Agree(c) \/ EstablishTcp(c) \/ EstablishUdp(c) \/ TurnAwayUdp(c)
    \/ HandlerEnds(c) \/ Watchdog(c) \/ Close(c) \/ ConnectionLost(c) \/ Flushed(c)

Next ==
    /\ UNCHANGED config
    /\ \/ Limiter!Tick /\ UNCHANGED <<conns, attached, registryVars, serveVars>>
       \/ Arrival /\ UNCHANGED serveVars
       \/ \E c \in Ids : TaskStep(c) /\ UNCHANGED serveVars
       \/ \E c \in Ids : Cancelled(c)
       \/ StopTcp \/ StopUdp \/ ListenerStopped \/ ServeReturns

Spec == Init /\ [][Next]_vars

(* What becomes of a connection without the help of its peer or of the     *)
(* application: the event loop runs every task that is ready, and the      *)
(* handshake's timer fires.                                                *)
RunsOn(c) ==
    \/ Start(c) \/ HandshakeTimesOut(c) \/ Close(c) \/ Flushed(c)
    \/ conns[c].pc = "agreed" /\ (EstablishTcp(c) \/ EstablishUdp(c) \/ TurnAwayUdp(c))

(* Peers and handlers owe nothing: a peer need not read, and a handler     *)
(* ends for certain only if it is cancelled.  Nobody has to call stop().   *)
FairSpec ==
    /\ Spec
    /\ \A c \in 1 .. MaxConns :
          WF_vars(/\ UNCHANGED config
                  /\ c \in Ids
                  /\ (RunsOn(c) /\ UNCHANGED serveVars) \/ Cancelled(c))
    /\ WF_vars(UNCHANGED config /\ (ListenerStopped \/ ServeReturns))

-----------------------------------------------------------------------------
TypeOK ==
    /\ conns \in Seq([addr : Addrs, open : BOOLEAN,
                      pc : {"new", "queued", "handshake", "agreed", "session",
                            "closing", "flushing", "done", "dropped"}])
    /\ attached \subseteq Ids
    /\ config \in Configs
    /\ tcp_connections \in [Ips -> 0 .. MaxPerIp]
    /\ udp_sessions \in [Addrs -> Ids \cup {None}]
    /\ udp_handshakes \in [Addrs -> Ids \cup {None}]
    /\ udp_in_progress_handshakes \in [Ips -> 0 .. MaxInProgress]
    /\ phase \in {"serving", "stopping", "cancelling", "stopped"}
    /\ gathered \subseteq Ids /\ cancelled \subseteq Ids

(* The counters that admission decides by count what is really there, on   *)
(* every path a connection may end: a count that leaks would shut an       *)
(* address out for good, one that runs low would let too many in.  Only a  *)
(* shutdown leaves UDP handshakes counted, those cancelled before their    *)
(* first step.                                                             *)
CountsExact ==
    \A ip \in Ips :
        /\ tcp_connections[ip] =
              IF Reliable
              THEN Cardinality(ConnsOf(ip, {"queued", "handshake", "agreed", "session"}))
              ELSE 0
        /\ udp_in_progress_handshakes[ip] =
              IF Reliable THEN 0
              ELSE Cardinality(ConnsOf(ip, {"new", "queued", "handshake", "agreed", "dropped"}))

(* A stream is in the registry that its connection's state calls for, from *)
(* the first step to the finally clause, and no other stream is: neither   *)
(* the promotion nor the end of another connection of the same address     *)
(* takes it out or leaves its own behind.  (Being registered is not the    *)
(* same as getting datagrams, see Route and HandshakesEnd, and a stream    *)
(* that the watchdog closed stays registered while its handler runs.)      *)
RegistryExact ==
    ~Reliable =>
        /\ \A a \in Addrs :
              /\ udp_handshakes[a] # None =>
                    conns[udp_handshakes[a]].pc \in {"new", "queued", "handshake", "agreed"}
              /\ udp_sessions[a] # None => conns[udp_sessions[a]].pc = "session"
        /\ \A c \in Ids :
              /\ conns[c].pc \in {"new", "queued", "handshake", "agreed"} /\ conns[c].open =>
                    udp_handshakes[conns[c].addr] = c
              /\ conns[c].pc = "session" /\ conns[c].open =>
                    udp_sessions[conns[c].addr] = c

(* At most max_connections sessions are open, at most max_connections_per_ip *)
(* of one address, though admission and promotion are separate steps and   *)
(* handshakes overlap.                                                     *)
SessionsBounded ==
    LET Open == { c \in Ids : conns[c].pc = "session" /\ conns[c].open } IN
    /\ Cardinality(Open) <= MaxConnections
    /\ \A ip \in Ips : Cardinality({ c \in Open : Ip(c) = ip }) <= MaxPerIp

(* The server uses the table of failed handshakes as the limiter describes *)
(* it: a connection counts as a failure at most once, only by the end of   *)
(* its own handshake and not after that has completed, and no handshake    *)
(* begins under a lockout, though it may have waited for the semaphore     *)
(* while others failed.  (Which ends count is HandshakeFails: a peer that  *)
(* hangs up before HELLO or HELLO_ACK does, whatever the comment on clean  *)
(* disconnects says, see the README.)                                      *)
LimiterSpec == Limiter!Spec

(* No connection holds its handshake slot for ever: it becomes a session   *)
(* or gives the slot up, however many others are in its way and whatever   *)
(* its peer does.  So a handshake that a late duplicate of a client's      *)
(* HELLO opens beside the client's session, whose datagrams it takes over, *)
(* gives them back.  (A behaviour has finitely many connections, here and  *)
(* below: each handshake ends if in the end none is under way.)            *)
HandshakesEnd ==
    <>[](\A c \in Ids :
            /\ conns[c].pc \in {"session", "closing", "flushing", "done", "dropped"}
            /\ ~Reliable /\ conns[c].pc = "session" /\ conns[c].open => Route(conns[c].addr) = c)

(* When serve() has returned nothing runs on behind it: no handshake, no   *)
(* handler, and no stream in a registry, though connections arrive, start  *)
(* and lose their cancellation while it stops.  (With TCP before Python    *)
(* 3.12 wait_closed() does not wait, and a connection whose task had not   *)
(* run yet survives.)                                                      *)
NothingOutlivesServe ==
    phase = "stopped" /\ (Reliable => config.py312) =>
        /\ \A c \in Ids : conns[c].pc \in {"closing", "flushing", "done", "dropped"}
        /\ Occupied(udp_sessions) = {} /\ Occupied(udp_handshakes) = {}

(* serve() returns once stop() was called, except for two reasons beyond   *)
(* its control: a handler that missed its cancellation runs on (before     *)
(* Python 3.12 wait_for may swallow it; a TCP connection whose task had    *)
(* not run yet gets none), or a peer does not take what was written to a   *)
(* TCP connection that is closed, so that its wait_closed() does not       *)
(* return.                                                                 *)
ShutdownEnds ==
    <>[](\/ phase \in {"serving", "stopped"}
         \/ \E c \in Ids :
               /\ conns[c].pc = "session"
               /\ config.py312 => Reliable /\ c \notin gathered
         \/ \E c \in attached : ~conns[c].open)

=============================================================================
