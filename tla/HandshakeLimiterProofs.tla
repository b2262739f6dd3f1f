----------------------- MODULE HandshakeLimiterProofs -----------------------
(***************************************************************************)
(* Proofs about the table of failed handshakes, for any finite set of      *)
(* addresses, any table size, threshold, backoff cap and idle limit, and   *)
(* any number of overlapping handshakes.                                   *)
(***************************************************************************)
EXTENDS HandshakeLimiter, FiniteSetTheorems, TLAPS

(* 2.0 ** n is a number: as many as the subsets of n things. *)
LEMMA PowerNat ==
    ASSUME NEW n \in Nat
    PROVE  2 ^ n \in Nat
<1>1. IsFiniteSet(1 .. n) /\ Cardinality(1 .. n) = n
  BY FS_Interval
<1>2. IsFiniteSet(SUBSET (1 .. n)) /\ Cardinality(SUBSET (1 .. n)) = 2 ^ Cardinality(1 .. n)
  BY <1>1, FS_SUBSET
<1>3. Cardinality(SUBSET (1 .. n)) \in Nat
  BY <1>2, FS_CardinalityType
<1> QED BY <1>1, <1>2, <1>3

(* Every lockout lasts between nothing and the cap. *)
LEMMA BackoffBounded ==
    ASSUME NEW fails \in Nat, fails >= Threshold
    PROVE  Backoff(fails) \in 0 .. BackoffCap
<1> DEFINE power == 2 ^ (fails - Threshold)
<1>1. power \in Nat
  <2>1. fails - Threshold \in Nat
    BY LimiterAssumption
  <2> QED BY <2>1, PowerNat
<1>2. Backoff(fails) = IF power < BackoffCap THEN power ELSE BackoffCap
  BY DEF Backoff
<1> HIDE DEF power
<1> QED BY <1>1, <1>2, LimiterAssumption

Records == [fails : Nat, lockout_until : Nat, last_attempt : Nat]

(* What holds of each entry on its own. *)
EntryOK(entry) ==
    /\ entry \in Records
    /\ entry.lockout_until <= now + BackoffCap
    /\ entry.lockout_until > 0 <=> entry.fails >= Threshold

LEMMA NoEntryOK ==
    ASSUME now \in Nat
    PROVE  EntryOK(NoEntry) /\ NoEntry.fails = 0
BY LimiterAssumption DEF EntryOK, Records, NoEntry

(* The entry of a failure that was just recorded is neither idle nor over: *)
(* it survives the pruning that ends the same call.                        *)
LEMMA RecordedKept ==
    ASSUME now \in Nat \ {0}, NEW fails \in Nat, fails > 0
    PROVE  /\ EntryOK(Recorded(fails))
           /\ Recorded(fails).fails = fails
           /\ ~Pruned(Recorded(fails))
<1>1. CASE fails >= Threshold
  <2>1. Backoff(fails) \in 0 .. BackoffCap
    BY <1>1, BackoffBounded
  <2>2. Recorded(fails) = [fails |-> fails, lockout_until |-> now + Backoff(fails),
                           last_attempt |-> now]
    BY <1>1 DEF Recorded
  <2> QED BY <1>1, <2>1, <2>2, LimiterAssumption DEF EntryOK, Records, Pruned
<1>2. CASE ~(fails >= Threshold)
  <2>1. Recorded(fails) = [fails |-> fails, lockout_until |-> 0, last_attempt |-> now]
    BY <1>2 DEF Recorded
  <2> QED BY <1>2, <2>1, LimiterAssumption DEF EntryOK, Records, Pruned
<1> QED BY <1>1, <1>2

TableOK ==
    /\ now \in Nat \ {0}
    /\ failed_handshakes \in [Ips -> Records]
    /\ \A ip \in Ips : EntryOK(failed_handshakes[ip])
    /\ Cardinality(Entries) <= MaxEntries

LEMMA EntriesFinite ==
    IsFiniteSet(Entries) /\ Cardinality(Entries) \in Nat
BY LimiterAssumption, FS_Subset, FS_CardinalityType DEF Entries

(* What recording a failure does to each address: nobody else is added,    *)
(* and whoever is dropped was idle, over, or evicted.                      *)
LEMMA RecordEffect ==
    ASSUME TableOK, NEW ip \in Ips, RecordFailedHandshake(ip),
           ~BackoffOverflows(failed_handshakes[ip].fails + 1)
    PROVE  \E evicted \in Evicted(ip) :
              /\ failed_handshakes' \in [Ips -> Records]
              /\ failed_handshakes'[ip] = Recorded(failed_handshakes[ip].fails + 1)
              /\ \A k \in Ips \ {ip} :
                    failed_handshakes'[k] =
                       IF k \in evicted \/ Pruned(failed_handshakes[k]) THEN NoEntry
                       ELSE failed_handshakes[k]
              /\ now' = now
<1> DEFINE fails == failed_handshakes[ip].fails + 1
           new(k, evicted) == IF k = ip THEN Recorded(fails)
                              ELSE IF k \in evicted THEN NoEntry
                              ELSE failed_handshakes[k]
<1>1. PICK evicted \in Evicted(ip) :
         /\ failed_handshakes' =
               [k \in Ips |-> IF Pruned(new(k, evicted)) THEN NoEntry ELSE new(k, evicted)]
         /\ now' = now
  BY DEF RecordFailedHandshake
<1>2. fails \in Nat /\ fails > 0
  BY DEF TableOK, Records
<1>3. EntryOK(Recorded(fails)) /\ ~Pruned(Recorded(fails))
  BY <1>2, RecordedKept DEF TableOK
<1>4. NoEntry \in Records
  BY DEF NoEntry, Records
<1>5. failed_handshakes'[ip] = Recorded(fails)
  BY <1>1, <1>3
<1>6. ASSUME NEW k \in Ips \ {ip}
      PROVE  failed_handshakes'[k] =
                IF k \in evicted \/ Pruned(failed_handshakes[k]) THEN NoEntry
                ELSE failed_handshakes[k]
  BY <1>1
<1>7. \A k \in Ips : failed_handshakes'[k] \in Records
  BY <1>3, <1>4, <1>5, <1>6 DEF TableOK, EntryOK
<1>8. failed_handshakes' \in [Ips -> Records]
  BY <1>1, <1>7
<1> QED BY <1>1, <1>5, <1>6, <1>8

(* The table after a step: each entry is well formed, and there is room. *)
LEMMA RecordTable ==
    ASSUME TableOK, NEW ip \in Ips, RecordFailedHandshake(ip)
    PROVE  TableOK'
<1>1. CASE BackoffOverflows(failed_handshakes[ip].fails + 1)
  BY <1>1 DEF RecordFailedHandshake, limiterVars, TableOK, EntryOK, Entries
<1>2. CASE ~BackoffOverflows(failed_handshakes[ip].fails + 1)
  <2>1. PICK evicted \in Evicted(ip) :
              /\ failed_handshakes' \in [Ips -> Records]
              /\ failed_handshakes'[ip] = Recorded(failed_handshakes[ip].fails + 1)
              /\ \A k \in Ips \ {ip} :
                    failed_handshakes'[k] =
                       IF k \in evicted \/ Pruned(failed_handshakes[k]) THEN NoEntry
                       ELSE failed_handshakes[k]
              /\ now' = now
    BY <1>2, RecordEffect
  <2>2. failed_handshakes[ip].fails + 1 \in Nat /\ failed_handshakes[ip].fails + 1 > 0
    BY DEF TableOK, Records
  <2>3. EntryOK(failed_handshakes'[ip])
    BY <2>1, <2>2, RecordedKept DEF TableOK
  <2>4. \A k \in Ips : EntryOK(failed_handshakes'[k])
    BY <2>1, <2>3, NoEntryOK DEF TableOK
  <2>5. \A k \in Ips : EntryOK(failed_handshakes[k])'
    BY <2>1, <2>4 DEF EntryOK
  <2>6. Entries' \subseteq (Entries \ evicted) \cup {ip}
    BY <2>1, NoEntryOK DEF Entries, TableOK
  <2>7. Cardinality((Entries \ evicted) \cup {ip}) <= MaxEntries
    <3>1. CASE Cardinality(Entries) >= MaxEntries /\ ip \notin Entries
      <4>1. PICK k \in Entries : evicted = {k}
        BY <3>1 DEF Evicted
      <4>2. /\ IsFiniteSet(Entries \ evicted)
            /\ Cardinality(Entries \ evicted) = Cardinality(Entries) - 1
        BY <4>1, EntriesFinite, FS_RemoveElement
      <4>3. Cardinality((Entries \ evicted) \cup {ip}) = Cardinality(Entries \ evicted) + 1
        BY <3>1, <4>2, FS_AddElement
      <4>4. Cardinality(Entries) <= MaxEntries
        BY DEF TableOK
      <4> QED BY <4>2, <4>3, <4>4, EntriesFinite, LimiterAssumption
    <3>2. CASE ip \in Entries
      <4>1. (Entries \ evicted) \cup {ip} \subseteq Entries
        BY <3>2
      <4>2. Cardinality((Entries \ evicted) \cup {ip}) <= Cardinality(Entries)
        BY <4>1, EntriesFinite, FS_Subset
      <4>3. Cardinality((Entries \ evicted) \cup {ip}) \in Nat
        BY <4>1, EntriesFinite, FS_Subset, FS_CardinalityType
      <4> QED BY <4>2, <4>3, EntriesFinite, LimiterAssumption DEF TableOK
    <3>3. CASE ~(Cardinality(Entries) >= MaxEntries) /\ ip \notin Entries
      <4>1. evicted = {}
        BY <3>3 DEF Evicted
      <4>2. (Entries \ evicted) \cup {ip} = Entries \cup {ip}
        BY <4>1
      <4>3. Cardinality(Entries \cup {ip}) = Cardinality(Entries) + 1
        BY <3>3, EntriesFinite, FS_AddElement
      <4> QED BY <3>3, <4>2, <4>3, EntriesFinite, LimiterAssumption
    <3> QED BY <3>1, <3>2, <3>3
  <2>8. /\ IsFiniteSet((Entries \ evicted) \cup {ip})
        /\ Cardinality((Entries \ evicted) \cup {ip}) \in Nat
    <3>1. IsFiniteSet(Entries \ evicted)
      BY EntriesFinite, FS_Difference
    <3> QED BY <3>1, FS_AddElement, FS_CardinalityType
  <2>9. Cardinality(Entries') <= MaxEntries
    <3>1. Cardinality(Entries') \in Nat /\ Cardinality(Entries') <= Cardinality((Entries \ evicted) \cup {ip})
      BY <2>6, <2>8, FS_Subset, FS_CardinalityType
    <3> QED BY <2>7, <2>8, <3>1, LimiterAssumption
  <2> QED BY <2>1, <2>5, <2>9 DEF TableOK
<1> QED BY <1>1, <1>2

LEMMA ForgetTable ==
    ASSUME TableOK, NEW ip \in Ips, ForgetFailures(ip)
    PROVE  TableOK'
<1>1. /\ failed_handshakes' = [failed_handshakes EXCEPT ![ip] = NoEntry]
      /\ now' = now
  BY DEF ForgetFailures
<1>2. EntryOK(NoEntry) /\ NoEntry.fails = 0
  BY NoEntryOK DEF TableOK
<1>3. failed_handshakes' \in [Ips -> Records]
  BY <1>1, <1>2 DEF TableOK, EntryOK
<1>4. \A k \in Ips : EntryOK(failed_handshakes'[k])
  BY <1>1, <1>2 DEF TableOK
<1>5. \A k \in Ips : EntryOK(failed_handshakes[k])'
  BY <1>1, <1>4 DEF EntryOK
<1>6. Entries' \subseteq Entries
  BY <1>1, <1>2 DEF Entries, TableOK
<1>7. Cardinality(Entries') <= Cardinality(Entries) /\ Cardinality(Entries') \in Nat
  BY <1>6, EntriesFinite, FS_Subset, FS_CardinalityType
<1> QED BY <1>1, <1>3, <1>5, <1>7, EntriesFinite, LimiterAssumption DEF TableOK

LEMMA TickTable ==
    ASSUME TableOK, Tick
    PROVE  TableOK'
<1>1. now' = now + 1 /\ failed_handshakes' = failed_handshakes
  BY DEF Tick
<1>2. \A k \in Ips : EntryOK(failed_handshakes[k])'
  BY <1>1, LimiterAssumption DEF TableOK, EntryOK, Records
<1> QED BY <1>1, <1>2 DEF TableOK, Entries

Counters == waiting \in [Ips -> Nat] /\ running \in [Ips -> Nat]

(* Each step changes the table in one of four ways. *)
LEMMA LimiterStep ==
    ASSUME Next
    PROVE  \/ Tick /\ UNCHANGED <<waiting, running>>
           \/ UNCHANGED limiterVars
           \/ \E ip \in Ips : RecordFailedHandshake(ip)
           \/ \E ip \in Ips : Ran(ip) /\ ForgetFailures(ip)
BY DEF Next, Arrive, Begin, Refuse, Withdraw, Expire, Fail, Succeed, Lose

(* The table is well formed and within its size, and the counts of         *)
(* handshakes are numbers, in every reachable state.                       *)
THEOREM TableCorrect == Spec => [](TableOK /\ Counters)
<1>1. Init => TableOK /\ Counters
  <2> SUFFICES ASSUME Init PROVE TableOK /\ Counters
    OBVIOUS
  <2>1. /\ now = 1 /\ failed_handshakes = [ip \in Ips |-> NoEntry]
        /\ EntryOK(NoEntry) /\ NoEntry.fails = 0
    BY NoEntryOK DEF Init, LimiterInit
  <2>2. Entries = {}
    BY <2>1 DEF Entries
  <2>3. Cardinality(Entries) = 0
    BY <2>2, FS_EmptySet
  <2> QED BY <2>1, <2>3, LimiterAssumption DEF Init, TableOK, EntryOK, Counters
<1>2. TableOK /\ Counters /\ [Next]_vars => TableOK' /\ Counters'
  <2> SUFFICES ASSUME TableOK, Counters, [Next]_vars PROVE TableOK' /\ Counters'
    OBVIOUS
  <2>1. CASE UNCHANGED vars
    BY <2>1 DEF vars, TableOK, EntryOK, Entries, Counters
  <2>2. CASE Next
    <3>1. TableOK'
      <4>1. CASE UNCHANGED limiterVars
        BY <4>1 DEF limiterVars, TableOK, EntryOK, Entries
      <4> QED BY <2>2, <4>1, LimiterStep, TickTable, RecordTable, ForgetTable
    <3>2. Counters'
      BY <2>2 DEF Counters, Next, Arrive, Waited, Ran, Begin, Refuse, Withdraw, Expire,
                  Fail, Succeed, Lose
    <3> QED BY <3>1, <3>2
  <2> QED BY <2>1, <2>2
<1> QED BY <1>1, <1>2, PTL DEF Spec

(* A flood of addresses cannot make the table grow past its size. *)
THEOREM LimiterTypeCorrect == Spec => []TypeOK
<1>1. TableOK /\ Counters => TypeOK
  BY DEF TableOK, Counters, TypeOK, Records
<1> QED BY <1>1, TableCorrect, PTL

(* No lockout reaches further than the cap from now, and an address has    *)
(* one exactly from the Threshold-th failure on.                           *)
THEOREM LockoutsBounded == Spec => []LockoutBounded
<1>1. TableOK => LockoutBounded
  BY DEF TableOK, EntryOK, LockoutBounded
<1> QED BY <1>1, TableCorrect, PTL

(* An address leaves the table only by its own success, when its lockout   *)
(* is over or its entry idle, or evicted as the one idle for longest.      *)
THEOREM OnlyExpiredForgotten == Spec => ForgetsOnlyExpired
<1> DEFINE Justified(ip) ==
             \/ running'[ip] < running[ip]
             \/ failed_handshakes[ip].lockout_until \in 1 .. now - 1
             \/ now - failed_handshakes[ip].last_attempt > IdleLimit
             \/ /\ Cardinality(Entries) >= MaxEntries
                /\ \A j \in Entries : failed_handshakes[ip].last_attempt
                                        <= failed_handshakes[j].last_attempt
           Forgets == \A ip \in Entries : failed_handshakes'[ip].fails = 0 => Justified(ip)
<1>1. TableOK /\ Counters /\ [Next]_vars => [Forgets]_vars
  <2> SUFFICES ASSUME TableOK, Counters, Next, NEW k \in Entries,
                      failed_handshakes'[k].fails = 0
               PROVE  Justified(k)
    OBVIOUS
  <2>0. k \in Ips /\ failed_handshakes[k].fails > 0 /\ EntryOK(failed_handshakes[k])
    BY DEF Entries, TableOK
  <2>1. CASE failed_handshakes'[k] = failed_handshakes[k]
    BY <2>0, <2>1
  <2>2. ASSUME NEW ip \in Ips, Ran(ip), ForgetFailures(ip) PROVE Justified(k)
    <3>1. CASE k = ip
      <4>1. running'[k] = running[k] - 1 /\ running[k] \in Nat
        BY <2>2, <2>0, <3>1 DEF Ran, Counters
      <4> QED BY <4>1
    <3>2. CASE k # ip
      BY <2>0, <2>1, <2>2, <3>2 DEF ForgetFailures, TableOK
    <3> QED BY <3>1, <3>2
  <2>3. ASSUME NEW ip \in Ips, RecordFailedHandshake(ip) PROVE Justified(k)
    <3>1. CASE BackoffOverflows(failed_handshakes[ip].fails + 1)
      BY <2>1, <2>3, <3>1 DEF RecordFailedHandshake, limiterVars
    <3>2. CASE ~BackoffOverflows(failed_handshakes[ip].fails + 1)
      <4>1. PICK evicted \in Evicted(ip) :
              /\ failed_handshakes'[ip] = Recorded(failed_handshakes[ip].fails + 1)
              /\ \A i \in Ips \ {ip} :
                    failed_handshakes'[i] =
                       IF i \in evicted \/ Pruned(failed_handshakes[i]) THEN NoEntry
                       ELSE failed_handshakes[i]
        BY <2>3, <3>2, RecordEffect
      <4>2. k # ip
        <5>1. failed_handshakes[ip].fails + 1 \in Nat /\ failed_handshakes[ip].fails + 1 > 0
          BY DEF TableOK, Records
        <5>2. failed_handshakes'[ip].fails > 0
          BY <4>1, <5>1, RecordedKept DEF TableOK
        <5> QED BY <5>2
      <4>3. k \in evicted \/ Pruned(failed_handshakes[k])
        BY <2>0, <4>1, <4>2
      <4>4. CASE k \in evicted
        BY <4>4 DEF Evicted
      <4>5. CASE Pruned(failed_handshakes[k])
        BY <2>0, <4>5 DEF Pruned, EntryOK, Records, TableOK
      <4> QED BY <4>3, <4>4, <4>5
    <3> QED BY <3>1, <3>2
  <2>4. CASE UNCHANGED limiterVars \/ Tick
    BY <2>1, <2>4 DEF limiterVars, Tick
  <2> QED BY <2>2, <2>3, <2>4, LimiterStep
<1> QED BY <1>1, TableCorrect, PTL DEF Spec, ForgetsOnlyExpired

=============================================================================
