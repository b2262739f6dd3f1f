-------------------------- MODULE HandshakeLimiter --------------------------
(***************************************************************************)
(* The table of failed handshakes, _failed_handshakes, that locks an IP    *)
(* address out for a while after repeated failures.  The table is global:  *)
(* every server and every connection of the process shares it, and         *)
(* handshakes of one address overlap, so a failure may be recorded while   *)
(* a lockout is already in force.                                          *)
(*                                                                         *)
(* Time is counted in whole seconds.  An address without an entry has the  *)
(* defaults that the code's .get() gives it: no failures, no lockout.      *)
(***************************************************************************)
EXTENDS Integers, FiniteSets

CONSTANTS
    Ips,          \* addresses
    Threshold,    \* failures that start a lockout, 5 in the code
    BackoffCap,   \* longest lockout in seconds, 60 in the code
    IdleLimit,    \* seconds an idle entry is kept, 600 in the code
    MaxEntries,   \* size of the table, 1000 in the code
    MaxExponent,  \* largest n for which 2.0 ** n is a float, 1023
    MaxAttempts,  \* bound on the overlapping handshakes of one address
    MaxTime       \* bound on the clock

ASSUME LimiterAssumption ==
    /\ IsFiniteSet(Ips)
    /\ Threshold \in Nat \ {0} /\ BackoffCap \in Nat \ {0} /\ IdleLimit \in Nat
    /\ MaxEntries \in Nat \ {0} /\ MaxExponent \in Nat
    /\ MaxAttempts \in Nat /\ MaxTime \in Nat

VARIABLES
    now,                \* time.monotonic()
    failed_handshakes,  \* the table
    waiting,            \* connections of each address that wait to begin
    running             \* handshakes in progress from each address

limiterVars == <<now, failed_handshakes>>

NoEntry == [fails |-> 0, lockout_until |-> 0, last_attempt |-> 0]

LimiterInit ==
    /\ now = 1
    /\ failed_handshakes = [ip \in Ips |-> NoEntry]

Entries == { ip \in Ips : failed_handshakes[ip].fails > 0 }

(* The check at the head of server_handshake, and in the UDP listener. *)
LockedOut(ip) == failed_handshakes[ip].lockout_until > now

-----------------------------------------------------------------------------
(* record_failed_handshake *)

(* Mutant: the backoff is not capped. *)
Backoff_Uncapped(fails) == 2 ^ (fails - Threshold)

(* min(60.0, 2.0 ** (fails - 5)): the power is computed first. *)
Backoff(fails) ==
    IF 2 ^ (fails - Threshold) < BackoffCap THEN 2 ^ (fails - Threshold) ELSE BackoffCap

(* 2.0 ** n raises OverflowError, and nothing is recorded. *)
BackoffOverflows(fails) == fails - Threshold > MaxExponent

Recorded(fails) ==
    [fails |-> fails,
     lockout_until |-> IF fails >= Threshold THEN now + Backoff(fails) ELSE 0,
     last_attempt |-> now]

(* Mutant: an address that is new to a full table evicts nothing. *)
Evicted_Nothing(ip) == {{}}

(* What makes room for a new address: the entry idle for longest. *)
Evicted(ip) ==
    IF Cardinality(Entries) >= MaxEntries /\ ip \notin Entries
    THEN { {k} : k \in { k \in Entries : \A j \in Entries :
              failed_handshakes[k].last_attempt <= failed_handshakes[j].last_attempt } }
    ELSE {{}}

(* Mutant: every entry that has a lockout is pruned, in force or not. *)
Pruned_AnyLockout(entry) ==
    \/ now - entry.last_attempt > IdleLimit
    \/ entry.lockout_until > 0 /\ entry.last_attempt < now

(* Idle for long, or its lockout is over. *)
Pruned(entry) ==
    \/ now - entry.last_attempt > IdleLimit
    \/ entry.lockout_until > 0 /\ entry.lockout_until < now

RecordFailedHandshake(ip) ==
    LET fails == failed_handshakes[ip].fails + 1 IN
    IF BackoffOverflows(fails)
    THEN UNCHANGED limiterVars
    ELSE /\ \E evicted \in Evicted(ip) :
              failed_handshakes' =
                 [k \in Ips |->
                    LET entry == IF k = ip THEN Recorded(fails)
                                 ELSE IF k \in evicted THEN NoEntry
                                 ELSE failed_handshakes[k]
                    IN  IF Pruned(entry) THEN NoEntry ELSE entry]
         /\ UNCHANGED now

(* A handshake that completes forgets the address. *)
ForgetFailures(ip) ==
    /\ failed_handshakes' = [failed_handshakes EXCEPT ![ip] = NoEntry]
    /\ UNCHANGED now

Tick ==
    /\ now < MaxTime
    /\ now' = now + 1
    /\ UNCHANGED failed_handshakes

-----------------------------------------------------------------------------
(* The limiter on its own.  A connection waits for _handshake_semaphore,   *)
(* then runs server_handshake; its timeout covers both.                    *)

vars == <<now, failed_handshakes, waiting, running>>

Init ==
    /\ LimiterInit
    /\ waiting = [ip \in Ips |-> 0]
    /\ running = [ip \in Ips |-> 0]

Arrive(ip) ==
    /\ waiting[ip] + running[ip] < MaxAttempts
    /\ waiting' = [waiting EXCEPT ![ip] = @ + 1]
    /\ UNCHANGED <<limiterVars, running>>

Waited(ip) ==
    /\ waiting[ip] > 0
    /\ waiting' = [waiting EXCEPT ![ip] = @ - 1]

(* server_handshake begins, unless the address is locked out; then the     *)
(* connection is refused, which does not count as a failure.               *)
Begin(ip) ==
    /\ ~LockedOut(ip)
    /\ Waited(ip)
    /\ running' = [running EXCEPT ![ip] = @ + 1]
    /\ UNCHANGED limiterVars

Refuse(ip) ==
    /\ LockedOut(ip)
    /\ Waited(ip)
    /\ UNCHANGED <<limiterVars, running>>

(* The server shuts down before the handshake has begun. *)
Withdraw(ip) ==
    /\ Waited(ip)
    /\ UNCHANGED <<limiterVars, running>>

(* The timeout, before the handshake has begun. *)
Expire(ip) ==
    /\ Waited(ip)
    /\ RecordFailedHandshake(ip)
    /\ UNCHANGED running

Ran(ip) ==
    /\ running[ip] > 0
    /\ running' = [running EXCEPT ![ip] = @ - 1]
    /\ UNCHANGED waiting

(* A protocol or authentication error, or the handshake's timeout. *)
Fail(ip) == Ran(ip) /\ RecordFailedHandshake(ip)

Succeed(ip) == Ran(ip) /\ ForgetFailures(ip)

(* The transport failed: not counted. *)
Lose(ip) == Ran(ip) /\ UNCHANGED limiterVars

Next ==
    \/ Tick /\ UNCHANGED <<waiting, running>>
    \/ \E ip \in Ips :
          \/ Arrive(ip) \/ Begin(ip) \/ Refuse(ip) \/ Withdraw(ip) \/ Expire(ip)
          \/ Fail(ip) \/ Succeed(ip) \/ Lose(ip)

Spec == Init /\ [][Next]_vars

-----------------------------------------------------------------------------
(* The table stays within its size, whatever the addresses. *)
TypeOK ==
    /\ now \in Nat \ {0}
    /\ failed_handshakes \in
          [Ips -> [fails : Nat, lockout_until : Nat, last_attempt : Nat]]
    /\ Cardinality(Entries) <= MaxEntries
    /\ waiting \in [Ips -> Nat] /\ running \in [Ips -> Nat]

(* No address is ever locked out for longer than the cap from now, however *)
(* many failures overlap, and an address has a lockout exactly from the    *)
(* Threshold-th failure on.                                                *)
LockoutBounded ==
    \A ip \in Ips :
        /\ failed_handshakes[ip].lockout_until <= now + BackoffCap
        /\ failed_handshakes[ip].lockout_until > 0
              <=> failed_handshakes[ip].fails >= Threshold

(* Lockouts outlive everybody else's failures: an address leaves the table *)
(* only by a handshake of its own that completes, when its lockout is over *)
(* or its entry idle, or when a full table needs the room and it is the    *)
(* one idle for longest.                                                   *)
ForgetsOnlyExpired ==
    [][ \A ip \in Entries :
          failed_handshakes'[ip].fails = 0 =>
             \/ running'[ip] < running[ip]
             \/ failed_handshakes[ip].lockout_until \in 1 .. now - 1
             \/ now - failed_handshakes[ip].last_attempt > IdleLimit
             \/ /\ Cardinality(Entries) >= MaxEntries
                /\ \A j \in Entries : failed_handshakes[ip].last_attempt
                                        <= failed_handshakes[j].last_attempt ]_vars

=============================================================================
