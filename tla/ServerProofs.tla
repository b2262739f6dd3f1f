---------------------------- MODULE ServerProofs ----------------------------
(***************************************************************************)
(* Proofs about the connections of a server, over TCP and over UDP, for    *)
(* any finite sets of addresses and ports, any limits, any number of       *)
(* connections and of handshake permits, both variants of asyncio, and a   *)
(* shutdown at any step.                                                   *)
(*                                                                         *)
(* The steps of Next have a dozen effects on the state, named below; each  *)
(* part of the invariant is preserved by each effect.                      *)
(***************************************************************************)
EXTENDS Server, FiniteSetTheorems, SequenceTheorems, WellFoundedInduction, TLAPS

Early == {"new", "queued", "handshake", "agreed"}

Counted == {"queued", "handshake", "agreed", "session"}

InProgress == {"new", "queued", "handshake", "agreed", "dropped"}

Gone == {"closing", "flushing", "done", "dropped"}

Pcs == Early \cup {"session"} \cup Gone

(* Where close() and wait_closed() leave a connection. *)
Closed == IF Reliable THEN "flushing" ELSE "done"

ConnRecords == [addr : Addrs, open : BOOLEAN, pc : Pcs]

ConnsOK == conns \in Seq(ConnRecords) /\ Len(conns) <= MaxConns

(* Types; that the counts are within their limits follows below. *)
TypeInv ==
    /\ ConnsOK
    /\ attached \subseteq Ids
    /\ config \in Configs
    /\ tcp_connections \in [Ips -> Int]
    /\ udp_sessions \in [Addrs -> Ids \cup {None}]
    /\ udp_handshakes \in [Addrs -> Ids \cup {None}]
    /\ udp_in_progress_handshakes \in [Ips -> Int]
    /\ phase \in {"serving", "stopping", "cancelling", "stopped"}
    /\ gathered \subseteq Ids /\ cancelled \subseteq Ids

(* The connections after a step: c at pc, with its transport open or not,  *)
(* and the others as they were.                                            *)
Updated(c, pc, open) ==
    /\ conns' \in Seq(ConnRecords)
    /\ Len(conns') = Len(conns)
    /\ \A i \in Ids :
          conns'[i] = IF i = c THEN [addr |-> conns[c].addr, pc |-> pc, open |-> open]
                      ELSE conns[i]

(* Only c changes its pc, if any does. *)
Moved(c, pc) ==
    /\ conns' \in Seq(ConnRecords)
    /\ Len(conns') = Len(conns)
    /\ \A i \in Ids : /\ conns'[i].addr = conns[i].addr
                      /\ conns'[i].pc = IF i = c THEN pc ELSE conns[i].pc

LEMMA ConnFacts ==
    ASSUME ConnsOK
    PROVE  /\ Len(conns) \in Nat
           /\ DOMAIN conns = Ids
           /\ conns \in [Ids -> ConnRecords]
           /\ \A c \in Ids : conns[c] \in ConnRecords /\ Ip(c) \in Ips /\ conns[c].addr \in Addrs
           /\ IsFiniteSet(Ids)
<1>1. /\ Len(conns) \in Nat /\ DOMAIN conns = Ids /\ conns \in [Ids -> ConnRecords]
  BY LenProperties DEF ConnsOK, Ids
<1>2. \A c \in Ids : conns[c] \in ConnRecords
  BY <1>1
<1>3. \A c \in Ids : conns[c].addr \in Addrs /\ Ip(c) \in Ips
  BY <1>2 DEF ConnRecords, Addrs, Ip
<1>4. IsFiniteSet(Ids)
  BY <1>1, FS_Interval DEF Ids
<1> QED BY <1>1, <1>2, <1>3, <1>4

LEMMA FunctionIsSeq ==
    ASSUME ConnsOK, NEW f \in [Ids -> ConnRecords]
    PROVE  f \in Seq(ConnRecords) /\ Len(f) = Len(conns)
<1>1. Len(conns) \in Nat
  BY ConnFacts
<1>2. f \in Seq(ConnRecords)
  BY <1>1, SeqDef DEF Ids
<1> QED BY <1>1, <1>2, LenProperties DEF Ids

LEMMA UpdatedFacts ==
    ASSUME ConnsOK, NEW c \in Ids, NEW pc \in Pcs, NEW open \in BOOLEAN,
           conns' = [conns EXCEPT ![c] = [addr |-> conns[c].addr, pc |-> pc, open |-> open]]
    PROVE  Updated(c, pc, open)
<1> DEFINE r == [addr |-> conns[c].addr, pc |-> pc, open |-> open]
<1>1. r \in ConnRecords
  BY ConnFacts DEF ConnRecords
<1>2. conns \in [Ids -> ConnRecords]
  BY ConnFacts
<1> HIDE DEF r
<1>3. conns' \in [Ids -> ConnRecords] /\ \A i \in Ids : conns'[i] = IF i = c THEN r ELSE conns[i]
  BY <1>1, <1>2 DEF r
<1>4. conns' \in Seq(ConnRecords) /\ Len(conns') = Len(conns)
  BY <1>3, FunctionIsSeq
<1> QED BY <1>3, <1>4 DEF Updated, r

LEMMA GotoUpdates ==
    ASSUME ConnsOK, NEW c \in Ids, NEW pc \in Pcs, Goto(c, pc)
    PROVE  Updated(c, pc, conns[c].open)
<1>1. conns[c] \in ConnRecords /\ conns \in [Ids -> ConnRecords]
  BY ConnFacts
<1>2. [conns[c] EXCEPT !.pc = pc] = [addr |-> conns[c].addr, pc |-> pc, open |-> conns[c].open]
  BY <1>1 DEF ConnRecords
<1>3. conns' = [conns EXCEPT ![c] = [conns[c] EXCEPT !.pc = pc]]
  BY DEF Goto
<1>4. conns[c].open \in BOOLEAN
  BY <1>1 DEF ConnRecords
<1> QED BY <1>2, <1>3, <1>4, UpdatedFacts

(* (The provers compare records with a Boolean field by a variable only.)  *)
LEMMA ClosedRecord ==
    ASSUME NEW S, NEW T, NEW e \in [addr : S, open : BOOLEAN, pc : T],
           NEW f, f = FALSE
    PROVE  [e EXCEPT !.open = f] = [addr |-> e.addr, pc |-> e.pc, open |-> f]
OBVIOUS

LEMMA CloseUpdates ==
    ASSUME ConnsOK, NEW c \in Ids, NEW pc \in Pcs,
           conns' = [conns EXCEPT ![c].pc = pc, ![c].open = FALSE]
    PROVE  Updated(c, pc, FALSE)
<1>1. conns[c] \in ConnRecords /\ conns \in [Ids -> ConnRecords]
  BY ConnFacts
<1> DEFINE r == [addr |-> conns[c].addr, pc |-> pc, open |-> FALSE]
           e == [conns[c] EXCEPT !.pc = pc]
<1>2. e = [addr |-> conns[c].addr, pc |-> pc, open |-> conns[c].open]
  BY <1>1 DEF ConnRecords
<1>3. e \in [addr : Addrs, open : BOOLEAN, pc : {pc}] /\ e.addr = conns[c].addr /\ e.pc = pc
  BY <1>1, <1>2 DEF ConnRecords
<1>4. conns' = [conns EXCEPT ![c] = [e EXCEPT !.open = FALSE]]
  BY <1>1
<1> HIDE DEF e
<1>5. [e EXCEPT !.open = FALSE] = r
  <2>1. [e EXCEPT !.open = FALSE] = [addr |-> e.addr, pc |-> e.pc, open |-> FALSE]
    BY <1>3, ClosedRecord, Zenon
  <2> QED BY <1>3, <2>1, Zenon
<1> QED BY <1>4, <1>5, UpdatedFacts

LEMMA ClosedFacts ==
    Closed \in Pcs /\ Closed \in {"flushing", "done"} /\ Closed \notin {"queued", "handshake"}
BY DEF Closed, Pcs, Gone

LEMMA CloseAndWaitUpdates ==
    ASSUME ConnsOK, NEW c \in Ids, CloseAndWait(c)
    PROVE  Updated(c, Closed, FALSE)
<1>1. conns' = [conns EXCEPT ![c].pc = Closed, ![c].open = FALSE]
  BY DEF CloseAndWait, Closed
<1> HIDE DEF Closed
<1> QED BY <1>1, ClosedFacts, CloseUpdates

LEMMA UpdatedMoves ==
    ASSUME NEW c \in Ids, NEW pc, NEW open, Updated(c, pc, open)
    PROVE  Moved(c, pc)
BY DEF Updated, Moved

-----------------------------------------------------------------------------
(* Counting. *)

(* What a move adds to the count of the connections at X. *)
Delta(from, to, X) == (IF to \in X THEN 1 ELSE 0) - (IF from \in X THEN 1 ELSE 0)

Total(X) == Cardinality({ c \in Ids : conns[c].pc \in X })

LEMMA ConnsOfFinite ==
    ASSUME ConnsOK, NEW ip, NEW X
    PROVE  IsFiniteSet(ConnsOf(ip, X)) /\ Cardinality(ConnsOf(ip, X)) \in Nat
BY ConnFacts, FS_Subset, FS_CardinalityType DEF ConnsOf

(* When one connection moves, the count of an address goes up or down by   *)
(* one if the connection enters or leaves what is counted, and else stays. *)
LEMMA CountMoves ==
    ASSUME ConnsOK, NEW c \in Ids, NEW pc, Moved(c, pc), NEW ip, NEW X
    PROVE  Cardinality(ConnsOf(ip, X))' =
              Cardinality(ConnsOf(ip, X))
                 + IF ip = Ip(c) THEN Delta(conns[c].pc, pc, X) ELSE 0
<1> DEFINE S == ConnsOf(ip, X)
           n == Cardinality(S)
<1>1. IsFiniteSet(S) /\ n \in Nat
  BY ConnsOfFinite
<1>2. c \in S <=> ip = Ip(c) /\ conns[c].pc \in X
  BY DEF ConnsOf
<1>3. S' = IF ip = Ip(c) /\ pc \in X THEN S \cup {c} ELSE S \ {c}
  <2>1. Ids' = Ids
    BY DEF Moved, Ids
  <2>2. \A i \in Ids : Ip(i)' = Ip(i) /\ conns'[i].pc = IF i = c THEN pc ELSE conns[i].pc
    BY DEF Moved, Ip
  <2>3. S' = { i \in Ids : Ip(i) = ip /\ (IF i = c THEN pc ELSE conns[i].pc) \in X }
    BY <2>1, <2>2 DEF ConnsOf
  <2> QED BY <2>3 DEF ConnsOf
<1>4. /\ Cardinality(S \cup {c}) = IF c \in S THEN n ELSE n + 1
      /\ Cardinality(S \ {c}) = IF c \in S THEN n - 1 ELSE n
  BY <1>1, FS_AddElement, FS_RemoveElement
<1> HIDE DEF S
<1>5. Cardinality(S') = n + IF ip = Ip(c) THEN Delta(conns[c].pc, pc, X) ELSE 0
  BY <1>1, <1>2, <1>3, <1>4 DEF Delta
<1> QED BY <1>5 DEF S

(* Likewise for all addresses together. *)
LEMMA TotalMoves ==
    ASSUME ConnsOK, NEW c \in Ids, NEW pc, Moved(c, pc), NEW X
    PROVE  /\ Total(X) \in Nat
           /\ Total(X)' = Total(X) + Delta(conns[c].pc, pc, X)
<1> DEFINE S == { i \in Ids : conns[i].pc \in X }
           n == Cardinality(S)
<1>1. IsFiniteSet(S) /\ n \in Nat
  BY ConnFacts, FS_Subset, FS_CardinalityType
<1>2. c \in S <=> conns[c].pc \in X
  OBVIOUS
<1>3. S' = IF pc \in X THEN S \cup {c} ELSE S \ {c}
  <2>1. S' = { i \in Ids : (IF i = c THEN pc ELSE conns[i].pc) \in X }
    BY DEF Moved, Ids
  <2> QED BY <2>1
<1>4. /\ Cardinality(S \cup {c}) = IF c \in S THEN n ELSE n + 1
      /\ Cardinality(S \ {c}) = IF c \in S THEN n - 1 ELSE n
  BY <1>1, FS_AddElement, FS_RemoveElement
<1>5. Total(X) = n /\ Total(X)' = Cardinality(S')
  BY DEF Total
<1> HIDE DEF S
<1> QED BY <1>1, <1>2, <1>3, <1>4, <1>5 DEF Delta

(* A step that moves no connection changes no count. *)
LEMMA CountStays ==
    ASSUME ConnsOK, Len(conns') = Len(conns),
           \A i \in Ids : conns'[i].addr = conns[i].addr /\ conns'[i].pc = conns[i].pc,
           NEW ip, NEW X
    PROVE  ConnsOf(ip, X)' = ConnsOf(ip, X)
BY DEF ConnsOf, Ids, Ip

(* An arrival counts as new. *)
LEMMA CountArrives ==
    ASSUME ConnsOK, NEW a \in Addrs,
           conns' = Append(conns, [addr |-> a, pc |-> "new", open |-> TRUE]),
           NEW ip, NEW X
    PROVE  Cardinality(ConnsOf(ip, X))' =
              Cardinality(ConnsOf(ip, X)) + (IF ip = a[1] /\ "new" \in X THEN 1 ELSE 0)
<1> DEFINE S == ConnsOf(ip, X)
           k == Len(conns) + 1
           r == [addr |-> a, pc |-> "new", open |-> TRUE]
<1>1. IsFiniteSet(S) /\ Cardinality(S) \in Nat /\ Len(conns) \in Nat /\ k \notin S
  <2>1. Len(conns) \in Nat
    BY ConnFacts
  <2>2. k \notin Ids
    BY <2>1 DEF Ids
  <2> QED BY <2>1, <2>2, ConnsOfFinite DEF ConnsOf
<1>2. r \in ConnRecords
  BY DEF ConnRecords, Pcs, Early
<1>3. /\ Len(conns') = k /\ conns'[k] = r
      /\ \A i \in Ids : conns'[i] = conns[i]
  BY <1>2, AppendProperties DEF ConnsOK, Ids
<1>4. Ids' = Ids \cup {k}
  BY <1>1, <1>3 DEF Ids
<1>5. S' = { i \in Ids \cup {k} : conns'[i].addr[1] = ip /\ conns'[i].pc \in X }
  BY <1>4 DEF ConnsOf, Ip
<1>6. S' = IF ip = a[1] /\ "new" \in X THEN S \cup {k} ELSE S
  <2>1. k \notin Ids
    BY <1>1 DEF Ids
  <2>2. \A i \in Ids : conns'[i].addr[1] = conns[i].addr[1] /\ conns'[i].pc = conns[i].pc
    BY <1>3
  <2>3. conns'[k].addr[1] = a[1] /\ conns'[k].pc = "new"
    BY <1>3
  <2>4. S = { i \in Ids : conns[i].addr[1] = ip /\ conns[i].pc \in X }
    BY DEF ConnsOf, Ip
  <2> HIDE DEF S, k, r
  <2> QED BY <1>5, <2>1, <2>2, <2>3, <2>4
<1>7. Cardinality(S \cup {k}) = Cardinality(S) + 1
  BY <1>1, FS_AddElement
<1> HIDE DEF S
<1>8. Cardinality(S') = Cardinality(S) + (IF ip = a[1] /\ "new" \in X THEN 1 ELSE 0)
  BY <1>1, <1>6, <1>7
<1> QED BY <1>8 DEF S

(* The counts of all addresses add up to the count of all connections.     *)
(* The sum is defined by recursion over sets of addresses; counting the    *)
(* connections of a set of addresses satisfies the recursion, and there is *)
(* no smallest set for which anything else does.                           *)
LEMMA SumOfCounts ==
    ASSUME ConnsOK, \A ip \in Ips : tcp_connections[ip] = Cardinality(ConnsOf(ip, Counted))
    PROVE  MapThenSumSet(LAMBDA i : tcp_connections[i], Ips) = Total(Counted)
<1> DEFINE pick(s) == CHOOSE x \in s : TRUE
           Within(s) == { c \in Ids : Ip(c) \in s /\ conns[c].pc \in Counted }
           g == [s \in SUBSET Ips |-> Cardinality(Within(s))]
           Sums(h) == h = [s \in SUBSET Ips |->
                             IF s = {} THEN 0 ELSE tcp_connections[pick(s)] + h[s \ {pick(s)}]]
           iter == CHOOSE h : Sums(h)
<1>1. \A s \in SUBSET Ips : s # {} => pick(s) \in s /\ pick(s) \in Ips /\ s \ {pick(s)} \in SUBSET Ips
  OBVIOUS
<1> HIDE DEF pick
<1>2. \A s : IsFiniteSet(Within(s)) /\ Cardinality(Within(s)) \in Nat
  BY ConnFacts, FS_Subset, FS_CardinalityType
<1>3. ASSUME NEW s \in SUBSET Ips, s # {}
      PROVE  Cardinality(Within(s)) = tcp_connections[pick(s)] + Cardinality(Within(s \ {pick(s)}))
  <2> DEFINE A == ConnsOf(pick(s), Counted)
             B == Within(s \ {pick(s)})
  <2>1. Within(s) = A \cup B /\ A \cap B = {}
    BY <1>1, <1>3 DEF ConnsOf
  <2>2. IsFiniteSet(A) /\ IsFiniteSet(B) /\ Cardinality(A) \in Nat /\ Cardinality(B) \in Nat
    BY <1>2, ConnsOfFinite
  <2>3. tcp_connections[pick(s)] = Cardinality(A)
    BY <1>1, <1>3
  <2> HIDE DEF A, B, Within
  <2>4. Cardinality(A \cup B) = Cardinality(A) + Cardinality(B) - Cardinality(A \cap B)
    BY <2>2, FS_Union
  <2>5. Cardinality(A \cap B) = 0
    BY <2>1, FS_EmptySet
  <2>6. Cardinality(Within(s)) = tcp_connections[pick(s)] + Cardinality(B)
    BY <2>1, <2>2, <2>3, <2>4, <2>5
  <2> QED BY <2>6 DEF B
<1>4. Cardinality(Within({})) = 0
  <2>1. Within({}) = {}
    OBVIOUS
  <2> QED BY <2>1, FS_EmptySet
<1> HIDE DEF Within
<1>5. Sums(g)
  BY <1>1, <1>3, <1>4
<1>6. Sums(iter)
  BY <1>5
<1>7. MapThenSumSet(LAMBDA i : tcp_connections[i], Ips) = iter[Ips]
  BY DEF MapThenSumSet, MapThenFoldSet, pick
<1> HIDE DEF iter
<1>8. \A s \in SUBSET Ips : iter[s] = g[s]
  <2> DEFINE R == StrictSubsetOrdering(Ips)
             T == { s \in SUBSET Ips : iter[s] # g[s] }
  <2> SUFFICES ASSUME T # {} PROVE FALSE
    OBVIOUS
  <2>1. IsWellFoundedOn(R, SUBSET Ips)
    BY ServerAssumption, FS_StrictSubsetOrderingWellFounded, FS_FiniteSubsetsOfFinite
  <2>2. PICK s \in T : \A r \in T : ~(<<r, s>> \in R)
    <3> HIDE DEF R
    <3> QED BY <2>1, WFMin
  <2>3. CASE s = {}
    BY <1>4, <1>6, <2>3
  <2>4. CASE s # {}
    <3> DEFINE r == s \ {pick(s)}
    <3>1. r \in SUBSET Ips /\ pick(s) \in s /\ pick(s) \in Ips
      BY <1>1, <2>4
    <3>2. <<r, s>> \in R
      BY <3>1 DEF StrictSubsetOrdering
    <3>3. iter[r] = g[r]
      BY <2>2, <3>1, <3>2
    <3>4. iter[s] = tcp_connections[pick(s)] + iter[r]
      BY <1>6, <2>4
    <3>5. g[s] = tcp_connections[pick(s)] + g[r]
      BY <1>3, <2>4, <3>1
    <3> QED BY <3>3, <3>4, <3>5
  <2> QED BY <2>3, <2>4
<1>9. Within(Ips) = { c \in Ids : conns[c].pc \in Counted }
  BY ConnFacts DEF Within
<1> QED BY <1>7, <1>8, <1>9 DEF Total

-----------------------------------------------------------------------------
(* The invariant. *)

(* The counts, and their limits. *)
CountInv ==
    /\ CountsExact
    /\ \A ip \in Ips : /\ tcp_connections[ip] <= MaxPerIp
                       /\ udp_in_progress_handshakes[ip] <= MaxInProgress

(* The registries name connections of their own addresses.  A stream that  *)
(* is not yet a session is open exactly until stop(), which makes the      *)
(* handshake that an address has the only one it has.                      *)
RegInv ==
    /\ Reliable =>
          /\ \A a \in Addrs : udp_handshakes[a] = None /\ udp_sessions[a] = None
          /\ \A c \in Ids : conns[c].pc \in Early => conns[c].open
    /\ ~Reliable =>
          /\ \A a \in Addrs :
                /\ udp_handshakes[a] # None =>
                      /\ phase = "serving"
                      /\ conns[udp_handshakes[a]].pc \in Early
                      /\ conns[udp_handshakes[a]].addr = a
                /\ udp_sessions[a] # None =>
                      /\ conns[udp_sessions[a]].pc = "session"
                      /\ conns[udp_sessions[a]].addr = a
          /\ \A c \in Ids :
                /\ conns[c].pc \in Early => (conns[c].open <=> phase = "serving")
                /\ conns[c].pc \in Early /\ conns[c].open => udp_handshakes[conns[c].addr] = c
                /\ conns[c].pc = "session" /\ conns[c].open => udp_sessions[conns[c].addr] = c

OccupiedBy(ip) == { a \in Occupied(udp_sessions) : a[1] = ip }

(* Over TCP what is counted is within the limits, over UDP what is         *)
(* registered: a session that was replaced is neither, and is closed.      *)
BoundInv ==
    /\ Reliable => Total(Counted) <= MaxConnections
    /\ ~Reliable =>
          /\ Cardinality(Occupied(udp_sessions)) <= MaxConnections
          /\ \A ip \in Ips : Cardinality(OccupiedBy(ip)) <= MaxPerIp

(* What serve() waits for, as it stops, is all there is. *)
PhaseInv ==
    /\ phase = "serving" => cancelled = {}
    /\ ~Reliable =>
          /\ phase = "stopping" => \A c \in Ids : Ended(c) \/ c \in gathered
          /\ phase \in {"cancelling", "stopped"} => \A c \in Ids : Ended(c)
    /\ Reliable /\ config.py312 =>
          /\ phase = "cancelling" => \A c \in Ids : conns[c].pc \in Gone \/ c \in gathered
          /\ phase = "stopped" => \A c \in Ids : conns[c].pc \in Gone

(* A TCP connection whose task has not run yet is not lost: the listener   *)
(* that waits for all connections waits for this one too.                  *)
AttachInv == Reliable => \A c \in Ids : conns[c].pc = "new" => c \in attached

Inv == TypeInv /\ CountInv /\ RegInv /\ BoundInv /\ PhaseInv /\ AttachInv

-----------------------------------------------------------------------------
(* The effects of a task's steps. *)

(* c moves to pc, and the counts follow. *)
Recounted(c, pc) ==
    /\ tcp_connections' =
          IF Reliable
          THEN [tcp_connections EXCEPT ![Ip(c)] = @ + Delta(conns[c].pc, pc, Counted)]
          ELSE tcp_connections
    /\ udp_in_progress_handshakes' =
          IF Reliable THEN udp_in_progress_handshakes
          ELSE [udp_in_progress_handshakes EXCEPT ![Ip(c)] =
                    @ + Delta(conns[c].pc, pc, InProgress)]

Released(registry, c) == [a \in Addrs |-> IF registry[a] = c THEN None ELSE registry[a]]

(* c gets on with its handshake or, over TCP, has its session. *)
Proceeds(c, pc) ==
    /\ conns[c].pc \in Early
    /\ pc \in Early \ {"new"} \/ (Reliable /\ conns[c].pc # "new" /\ pc = "session")
    /\ Reliable /\ conns[c].pc = "new" => ~AtLimit(Ip(c))
    /\ Updated(c, pc, conns[c].open)
    /\ Recounted(c, pc)
    /\ UNCHANGED <<udp_sessions, udp_handshakes>>

(* c is on its way out, and no longer in any registry. *)
Leaves(c, pc, open) ==
    /\ conns[c].pc \in Early \cup {"session", "closing", "flushing"}
    /\ pc \in Gone
    /\ pc = "dropped" => conns[c].pc = "new"
    /\ Updated(c, pc, open)
    /\ Recounted(c, pc)
    /\ udp_sessions' = Released(udp_sessions, c)
    /\ udp_handshakes' = Released(udp_handshakes, c)

(* c gets its session over UDP, in place of one that its address has. *)
Promotes(c) ==
    /\ ~Reliable
    /\ conns[c].pc \in {"handshake", "agreed"}
    /\ ~SessionsFull(Ip(c))
    /\ Moved(c, "session")
    /\ \A i \in Ids : conns'[i].open =
          IF i # c /\ i = udp_sessions[conns[c].addr] THEN FALSE ELSE conns[i].open
    /\ Recounted(c, "session")
    /\ udp_sessions' = [udp_sessions EXCEPT ![conns[c].addr] = c]
    /\ udp_handshakes' = Released(udp_handshakes, c)

(* Nothing moves; sessions may be closed. *)
Rests ==
    /\ conns' \in Seq(ConnRecords)
    /\ Len(conns') = Len(conns)
    /\ \A i \in Ids : /\ conns'[i].addr = conns[i].addr
                      /\ conns'[i].pc = conns[i].pc
                      /\ conns'[i].open => conns[i].open
                      /\ conns[i].pc \in Early => conns'[i].open = conns[i].open
    /\ UNCHANGED registryVars

Effect(c) ==
    \/ \E pc \in Pcs : Proceeds(c, pc)
    \/ \E pc \in Pcs, open \in BOOLEAN : Leaves(c, pc, open)
    \/ Promotes(c)
    \/ Rests

(* A registry in which c is not found, or only at its own address. *)
LEMMA ReleasedFacts ==
    ASSUME TypeInv, RegInv, NEW c \in Ids
    PROVE  /\ c # None
           /\ conns[c].pc \notin Early \/ ~conns[c].open =>
                 Released(udp_handshakes, c) = udp_handshakes
           /\ conns[c].pc # "session" => Released(udp_sessions, c) = udp_sessions
           /\ [udp_handshakes EXCEPT ![conns[c].addr] = IF @ = c THEN None ELSE @] =
                 Released(udp_handshakes, c)
           /\ [udp_sessions EXCEPT ![conns[c].addr] = IF @ = c THEN None ELSE @] =
                 Released(udp_sessions, c)
<1>1. c \in Nat \ {0} /\ c # None /\ conns[c].addr \in Addrs
  BY ConnFacts DEF TypeInv, Ids, None
<1>2. \A a \in Addrs : /\ udp_handshakes[a] = c => /\ conns[c].pc \in Early
                                                   /\ conns[c].addr = a
                                                   /\ conns[c].open
                       /\ udp_sessions[a] = c => conns[c].pc = "session" /\ conns[c].addr = a
  BY <1>1 DEF RegInv
<1>3. udp_handshakes \in [Addrs -> Ids \cup {None}] /\ udp_sessions \in [Addrs -> Ids \cup {None}]
  BY DEF TypeInv
<1>4. conns[c].pc \notin Early \/ ~conns[c].open => Released(udp_handshakes, c) = udp_handshakes
  BY <1>2, <1>3 DEF Released
<1>5. conns[c].pc # "session" => Released(udp_sessions, c) = udp_sessions
  BY <1>2, <1>3 DEF Released
<1>6. [udp_handshakes EXCEPT ![conns[c].addr] = IF @ = c THEN None ELSE @] =
         Released(udp_handshakes, c)
  BY <1>1, <1>2, <1>3 DEF Released
<1>7. [udp_sessions EXCEPT ![conns[c].addr] = IF @ = c THEN None ELSE @] =
         Released(udp_sessions, c)
  BY <1>1, <1>2, <1>3 DEF Released
<1> QED BY <1>1, <1>4, <1>5, <1>6, <1>7

(* Counts that a step leaves alone are right when they should not change.  *)
LEMMA RecountedFacts ==
    ASSUME TypeInv, NEW c \in Ids, NEW pc
    PROVE  /\ (Reliable => Delta(conns[c].pc, pc, Counted) = 0) =>
                 tcp_connections = IF Reliable
                                   THEN [tcp_connections EXCEPT ![Ip(c)] =
                                            @ + Delta(conns[c].pc, pc, Counted)]
                                   ELSE tcp_connections
           /\ (~Reliable => Delta(conns[c].pc, pc, InProgress) = 0) =>
                 udp_in_progress_handshakes =
                    IF Reliable THEN udp_in_progress_handshakes
                    ELSE [udp_in_progress_handshakes EXCEPT ![Ip(c)] =
                             @ + Delta(conns[c].pc, pc, InProgress)]
<1>1. Ip(c) \in Ips
  BY ConnFacts DEF TypeInv
<1> QED BY <1>1 DEF TypeInv

LEMMA UnregisterEffect ==
    ASSUME TypeInv, RegInv, NEW c \in Ids, Unregister(c), NEW pc \in {"closing", "flushing", "done"},
           conns[c].pc \in {"queued", "handshake", "session"}
    PROVE  /\ Recounted(c, pc)
           /\ udp_sessions' = Released(udp_sessions, c)
           /\ udp_handshakes' = Released(udp_handshakes, c)
<1>1. udp_sessions' = Released(udp_sessions, c) /\ udp_handshakes' = Released(udp_handshakes, c)
  BY ReleasedFacts DEF Unregister
<1>2. Delta(conns[c].pc, pc, Counted) = -1
  BY DEF Delta, Counted
<1>3. Delta(conns[c].pc, pc, InProgress) = IF conns[c].pc = "session" THEN 0 ELSE -1
  BY DEF Delta, InProgress
<1>4. Ip(c) \in Ips /\ conns[c].addr[1] = Ip(c)
  BY ConnFacts DEF TypeInv, Ip
<1>5. tcp_connections' = IF Reliable
                         THEN [tcp_connections EXCEPT ![Ip(c)] = @ + Delta(conns[c].pc, pc, Counted)]
                         ELSE tcp_connections
  BY <1>2, <1>4 DEF Unregister, TypeInv
<1>6. udp_in_progress_handshakes' =
          IF Reliable THEN udp_in_progress_handshakes
          ELSE [udp_in_progress_handshakes EXCEPT ![Ip(c)] =
                    @ + Delta(conns[c].pc, pc, InProgress)]
  <2>1. CASE Reliable
    BY <2>1 DEF Unregister
  <2>2. CASE ~Reliable /\ conns[c].pc = "session"
    BY <1>3, <1>4, <2>2 DEF Unregister, TypeInv
  <2>3. CASE ~Reliable /\ conns[c].pc # "session"
    BY <1>3, <1>4, <2>3 DEF Unregister, TypeInv
  <2> QED BY <2>1, <2>2, <2>3
<1> QED BY <1>1, <1>5, <1>6 DEF Recounted

LEMMA EndsEarlyEffect ==
    ASSUME TypeInv, RegInv, NEW c \in Ids, EndsBeforeSession(c),
           conns[c].pc \in {"queued", "handshake"}
    PROVE  Leaves(c, Closed, FALSE)
<1>1. Updated(c, Closed, FALSE)
  BY CloseAndWaitUpdates DEF EndsBeforeSession, TypeInv
<1> HIDE DEF Closed
<1>2. /\ Recounted(c, Closed)
      /\ udp_sessions' = Released(udp_sessions, c)
      /\ udp_handshakes' = Released(udp_handshakes, c)
  BY ClosedFacts, UnregisterEffect DEF EndsBeforeSession
<1> QED BY <1>1, <1>2, ClosedFacts DEF Leaves, Early, Gone

LEMMA SessionEndsEffect ==
    ASSUME TypeInv, RegInv, NEW c \in Ids, Unregister(c), Goto(c, "closing"),
           conns[c].pc = "session"
    PROVE  Leaves(c, "closing", conns[c].open)
<1>1. Updated(c, "closing", conns[c].open)
  BY GotoUpdates DEF TypeInv, Pcs, Gone
<1>2. /\ Recounted(c, "closing")
      /\ udp_sessions' = Released(udp_sessions, c)
      /\ udp_handshakes' = Released(udp_handshakes, c)
  BY UnregisterEffect
<1> QED BY <1>1, <1>2 DEF Leaves, Gone

(* What moves a handshake on leaves the registries alone. *)
LEMMA ProceedsEffect ==
    ASSUME TypeInv, NEW c \in Ids, NEW pc \in Pcs, Goto(c, pc), UNCHANGED registryVars,
           \/ conns[c].pc = "queued" /\ pc = "handshake"
           \/ conns[c].pc = "handshake" /\ pc = "agreed"
           \/ Reliable /\ conns[c].pc \in {"handshake", "agreed"} /\ pc = "session"
    PROVE  Proceeds(c, pc)
<1>1. Updated(c, pc, conns[c].open)
  BY GotoUpdates DEF TypeInv
<1>2. /\ Delta(conns[c].pc, pc, Counted) = 0
      /\ ~Reliable => Delta(conns[c].pc, pc, InProgress) = 0
  BY DEF Delta, Counted, InProgress
<1>3. Recounted(c, pc)
  BY <1>2, RecountedFacts DEF Recounted, registryVars
<1> QED BY <1>1, <1>3 DEF Proceeds, Early, registryVars

LEMMA StartEffect ==
    ASSUME TypeInv, RegInv, NEW c \in Ids, Start(c)
    PROVE  Proceeds(c, "queued") \/ Leaves(c, "done", FALSE)
<1>1. conns[c].pc = "new" /\ Ip(c) \in Ips
  BY ConnFacts DEF Start, At, TypeInv
<1>2. CASE Reliable /\ AtLimit(Ip(c))
  <2>1. Updated(c, "done", FALSE)
    BY <1>2, CloseUpdates DEF Start, TypeInv, Pcs, Gone
  <2>2. Recounted(c, "done")
    <3>1. Delta(conns[c].pc, "done", Counted) = 0
      BY <1>1 DEF Delta, Counted
    <3> QED BY <1>2, <3>1, RecountedFacts DEF Start, Recounted
  <2>3. udp_sessions' = Released(udp_sessions, c) /\ udp_handshakes' = Released(udp_handshakes, c)
    <3>1. Reliable => Released(udp_handshakes, c) = udp_handshakes
      BY ReleasedFacts DEF RegInv, Released, TypeInv
    <3> QED BY <1>1, <1>2, <3>1, ReleasedFacts DEF Start
  <2> QED BY <1>1, <2>1, <2>2, <2>3 DEF Leaves, Early, Gone
<1>3. CASE ~(Reliable /\ AtLimit(Ip(c)))
  <2>1. Updated(c, "queued", conns[c].open)
    BY <1>3, GotoUpdates DEF Start, TypeInv, Pcs, Early
  <2>2. Recounted(c, "queued")
    <3>1. Delta(conns[c].pc, "queued", Counted) = 1 /\ Delta(conns[c].pc, "queued", InProgress) = 0
      BY <1>1 DEF Delta, Counted, InProgress
    <3> QED BY <1>3, <3>1, RecountedFacts DEF Start, Recounted
  <2> QED BY <1>1, <1>3, <2>1, <2>2 DEF Proceeds, Early, Start
<1> QED BY <1>2, <1>3

LEMMA ReleaseAll ==
    ASSUME TypeInv, RegInv, NEW c \in Ids, ~Reliable, conns[c].pc \in Early
    PROVE  [udp_handshakes EXCEPT ![conns[c].addr] = None] = Released(udp_handshakes, c)
<1>1. conns[c].addr \in Addrs /\ udp_handshakes \in [Addrs -> Ids \cup {None}]
  BY ConnFacts DEF TypeInv
<1>2. udp_handshakes[conns[c].addr] \in {c, None}
  BY <1>1 DEF RegInv
<1>3. [udp_handshakes EXCEPT ![conns[c].addr] = None] =
         [udp_handshakes EXCEPT ![conns[c].addr] = IF @ = c THEN None ELSE @]
  BY <1>1, <1>2
<1> QED BY <1>3, ReleasedFacts

LEMMA TurnAwayEffect ==
    ASSUME TypeInv, RegInv, NEW c \in Ids, TurnAwayUdp(c)
    PROVE  Leaves(c, "done", FALSE)
<1>1. ~Reliable /\ conns[c].pc \in {"handshake", "agreed"} /\ Ip(c) \in Ips /\ conns[c].addr[1] = Ip(c)
  BY ConnFacts DEF TurnAwayUdp, WaitForReturns, At, TypeInv, Ip
<1>2. Updated(c, "done", FALSE)
  BY <1>1, CloseAndWaitUpdates DEF TurnAwayUdp, TypeInv, Closed
<1>3. Recounted(c, "done")
  <2>1. Delta(conns[c].pc, "done", InProgress) = -1
    BY <1>1 DEF Delta, InProgress
  <2> QED BY <1>1, <2>1 DEF TurnAwayUdp, Recounted, TypeInv
<1>4. udp_handshakes' = Released(udp_handshakes, c)
  BY <1>1, ReleaseAll DEF TurnAwayUdp, Early
<1>5. udp_sessions' = Released(udp_sessions, c)
  BY <1>1, ReleasedFacts DEF TurnAwayUdp
<1> QED BY <1>1, <1>2, <1>3, <1>4, <1>5 DEF Leaves, Early, Gone

LEMMA EstablishUdpEffect ==
    ASSUME TypeInv, RegInv, NEW c \in Ids, EstablishUdp(c)
    PROVE  Promotes(c)
<1>1. ~Reliable /\ conns[c].pc \in {"handshake", "agreed"} /\ Ip(c) \in Ips /\ conns[c].addr[1] = Ip(c)
  BY ConnFacts DEF EstablishUdp, WaitForReturns, At, TypeInv, Ip
<1> DEFINE old == udp_sessions[conns[c].addr]
           New(i) == IF i = c THEN [conns[i] EXCEPT !.pc = "session"]
                     ELSE IF i = old THEN [conns[i] EXCEPT !.open = FALSE]
                     ELSE conns[i]
<1>2. conns' = [i \in Ids |-> New(i)]
  BY DEF EstablishUdp
<1>3. \A i \in Ids : conns[i] \in ConnRecords
  BY ConnFacts DEF TypeInv
<1>4. ASSUME NEW i \in Ids
      PROVE  /\ New(i) \in ConnRecords
             /\ New(i).addr = conns[i].addr
             /\ New(i).pc = IF i = c THEN "session" ELSE conns[i].pc
             /\ New(i).open = IF i # c /\ i = old THEN FALSE ELSE conns[i].open
  <2>1. CASE i = c
    BY <1>3, <2>1 DEF ConnRecords, Pcs
  <2>2. CASE i # c /\ i = old
    <3>1. [conns[i] EXCEPT !.open = FALSE] = [addr |-> conns[i].addr, pc |-> conns[i].pc, open |-> FALSE]
      BY <1>3, ClosedRecord, Zenon DEF ConnRecords
    <3>2. New(i) = [addr |-> conns[i].addr, pc |-> conns[i].pc, open |-> FALSE]
      BY <2>2, <3>1, Zenon
    <3>3. conns[i].addr \in Addrs /\ conns[i].pc \in Pcs
      BY <1>3 DEF ConnRecords
    <3> HIDE DEF New, old
    <3>4. New(i) \in ConnRecords
      BY <3>2, <3>3 DEF ConnRecords
    <3>5. New(i).addr = conns[i].addr /\ New(i).pc = conns[i].pc /\ New(i).open = FALSE
      BY <3>2
    <3> QED BY <2>2, <3>4, <3>5
  <2>3. CASE i # c /\ i # old
    BY <1>3, <2>3
  <2> QED BY <2>1, <2>2, <2>3
<1> HIDE DEF New, old
<1>5. conns' \in [Ids -> ConnRecords] /\ \A i \in Ids : conns'[i] = New(i)
  BY <1>2, <1>4
<1>6. conns' \in Seq(ConnRecords) /\ Len(conns') = Len(conns)
  BY <1>5, FunctionIsSeq DEF TypeInv
<1>7. Moved(c, "session")
  BY <1>4, <1>5, <1>6 DEF Moved
<1>8. Recounted(c, "session")
  <2>1. Delta(conns[c].pc, "session", InProgress) = -1
    BY <1>1 DEF Delta, InProgress
  <2> QED BY <1>1, <2>1 DEF EstablishUdp, Recounted, TypeInv
<1>9. udp_handshakes' = Released(udp_handshakes, c)
  BY <1>1, ReleaseAll DEF EstablishUdp, Early
<1>10. ~SessionsFull(Ip(c)) /\ udp_sessions' = [udp_sessions EXCEPT ![conns[c].addr] = c]
  BY <1>1 DEF EstablishUdp
<1>11. \A i \in Ids : conns'[i].open = IF i # c /\ i = udp_sessions[conns[c].addr]
                                       THEN FALSE ELSE conns[i].open
  BY <1>4, <1>5 DEF old
<1> QED BY <1>1, <1>7, <1>8, <1>9, <1>10, <1>11 DEF Promotes

LEMMA WatchdogRests ==
    ASSUME TypeInv, NEW c \in Ids, Watchdog(c)
    PROVE  Rests
<1>1. conns[c] \in ConnRecords /\ conns \in [Ids -> ConnRecords] /\ conns[c].pc = "session"
  BY ConnFacts DEF TypeInv, Watchdog
<1>2. [conns[c] EXCEPT !.open = FALSE] = [addr |-> conns[c].addr, pc |-> conns[c].pc, open |-> FALSE]
  BY <1>1, ClosedRecord, Zenon DEF ConnRecords
<1>3. conns' = [conns EXCEPT ![c] = [addr |-> conns[c].addr, pc |-> "session", open |-> FALSE]]
  <2>1. conns' = [conns EXCEPT ![c] = [conns[c] EXCEPT !.open = FALSE]]
    BY DEF Watchdog
  <2> QED BY <1>1, <1>2, <2>1, Zenon
<1>4. Updated(c, "session", FALSE)
  BY <1>3, UpdatedFacts DEF TypeInv, Pcs
<1> QED BY <1>1, <1>4 DEF Updated, Rests, Watchdog, registryVars, Early

LEMMA CloseEffect ==
    ASSUME TypeInv, RegInv, NEW c \in Ids, Close(c)
    PROVE  Leaves(c, Closed, FALSE)
<1>1. conns[c].pc = "closing"
  BY DEF Close, At
<1>2. Updated(c, Closed, FALSE)
  BY CloseAndWaitUpdates DEF Close, TypeInv
<1> HIDE DEF Closed
<1>3. Delta(conns[c].pc, Closed, Counted) = 0 /\ Delta(conns[c].pc, Closed, InProgress) = 0
  BY <1>1, ClosedFacts DEF Delta, Counted, InProgress
<1>4. Recounted(c, Closed)
  BY <1>3, RecountedFacts DEF Close, Recounted, registryVars
<1>5. udp_sessions' = Released(udp_sessions, c) /\ udp_handshakes' = Released(udp_handshakes, c)
  BY <1>1, ReleasedFacts DEF Close, registryVars, Early
<1> QED BY <1>1, <1>2, <1>4, <1>5, ClosedFacts DEF Leaves, Gone

LEMMA FlushedEffect ==
    ASSUME TypeInv, RegInv, NEW c \in Ids, Flushed(c)
    PROVE  Leaves(c, "done", conns[c].open)
<1>1. conns[c].pc = "flushing"
  BY DEF Flushed
<1>2. Updated(c, "done", conns[c].open)
  BY GotoUpdates DEF Flushed, TypeInv, Pcs, Gone
<1>3. Delta(conns[c].pc, "done", Counted) = 0 /\ Delta(conns[c].pc, "done", InProgress) = 0
  BY <1>1 DEF Delta, Counted, InProgress
<1>4. Recounted(c, "done")
  BY <1>3, RecountedFacts DEF Flushed, Recounted, registryVars
<1>5. udp_sessions' = Released(udp_sessions, c) /\ udp_handshakes' = Released(udp_handshakes, c)
  BY <1>1, ReleasedFacts DEF Flushed, registryVars, Early
<1> QED BY <1>1, <1>2, <1>4, <1>5 DEF Leaves, Gone

LEMMA DroppedEffect ==
    ASSUME Inv, NEW c \in cancelled, CancelledUnstarted(c)
    PROVE  Leaves(c, "dropped", conns[c].open)
<1>1. c \in Ids /\ conns[c].pc = "new" /\ phase # "serving" /\ TypeInv /\ RegInv
  BY DEF CancelledUnstarted, Inv, TypeInv, PhaseInv
<1>2. Updated(c, "dropped", conns[c].open)
  BY <1>1, GotoUpdates DEF CancelledUnstarted, TypeInv, Pcs, Gone
<1>3. Delta(conns[c].pc, "dropped", Counted) = 0 /\ Delta(conns[c].pc, "dropped", InProgress) = 0
  BY <1>1 DEF Delta, Counted, InProgress
<1>4. Recounted(c, "dropped")
  BY <1>1, <1>3, RecountedFacts DEF CancelledUnstarted, Recounted, registryVars
<1>5. udp_sessions' = Released(udp_sessions, c) /\ udp_handshakes' = Released(udp_handshakes, c)
  <2>1. \A a \in Addrs : udp_handshakes[a] = None
    BY <1>1 DEF RegInv
  <2>2. Released(udp_handshakes, c) = udp_handshakes
    BY <1>1, <2>1 DEF Released, TypeInv
  <2> QED BY <1>1, <2>2, ReleasedFacts DEF CancelledUnstarted, registryVars
<1> QED BY <1>1, <1>2, <1>4, <1>5 DEF Leaves, Early, Gone

LEMMA TaskStepEffect ==
    ASSUME Inv, NEW c \in Ids, TaskStep(c)
    PROVE  Effect(c)
<1> TypeInv /\ RegInv
  BY DEF Inv
<1>0. conns[c].open \in BOOLEAN
  BY ConnFacts DEF TypeInv, ConnRecords
<1> USE ClosedFacts DEF Effect, Pcs, Early, Gone
<1> HIDE DEF Closed
<1>1. CASE Start(c)
  BY <1>1, StartEffect
<1>2. CASE Begin(c)
  BY <1>2, ProceedsEffect DEF Begin, HandshakeAt
<1>3. CASE Refuse(c)
  BY <1>3, EndsEarlyEffect DEF Refuse, HandshakeAt
<1>4. CASE HandshakeFails(c)
  BY <1>4, EndsEarlyEffect DEF HandshakeFails, HandshakeAt
<1>5. CASE HandshakeLost(c)
  BY <1>5, EndsEarlyEffect DEF HandshakeLost, HandshakeAt
<1>6. CASE HandshakeTimesOut(c)
  BY <1>6, EndsEarlyEffect DEF HandshakeTimesOut, At
<1>7. CASE Agree(c)
  BY <1>7, ProceedsEffect DEF Agree, HandshakeAt
<1>8. CASE EstablishTcp(c)
  BY <1>8, ProceedsEffect DEF EstablishTcp, WaitForReturns, At
<1>9. CASE EstablishUdp(c)
  BY <1>9, EstablishUdpEffect
<1>10. CASE TurnAwayUdp(c)
  BY <1>10, TurnAwayEffect
<1>11. CASE HandlerEnds(c)
  BY <1>0, <1>11, SessionEndsEffect DEF HandlerEnds, At
<1>12. CASE Watchdog(c)
  BY <1>12, WatchdogRests
<1>13. CASE Close(c)
  BY <1>13, CloseEffect
<1>14. CASE ConnectionLost(c)
  BY <1>14 DEF ConnectionLost, Rests, TypeInv, ConnsOK
<1>15. CASE Flushed(c)
  BY <1>0, <1>15, FlushedEffect
<1> QED BY <1>1, <1>2, <1>3, <1>4, <1>5, <1>6, <1>7, <1>8, <1>9, <1>10, <1>11, <1>12, <1>13,
           <1>14, <1>15 DEF TaskStep

(* A connection is lost once its task has run. *)
Detaches ==
    /\ attached' \subseteq attached
    /\ Reliable => \A i \in attached : conns'[i].pc = "new" => i \in attached'

LEMMA TaskStepDetaches ==
    ASSUME Inv, NEW c \in Ids, TaskStep(c)
    PROVE  Detaches
<1> TypeInv /\ RegInv
  BY DEF Inv
<1>1. CASE UNCHANGED attached
  BY <1>1 DEF Detaches
<1>2. CASE Start(c)
  <2>1. CASE Reliable /\ AtLimit(Ip(c))
    <3>1. attached' = attached \ {c} /\ Updated(c, "done", FALSE)
      BY <1>2, <2>1, CloseUpdates DEF Start, TypeInv, Pcs, Gone
    <3>2. conns'[c].pc = "done"
      BY <3>1 DEF Updated
    <3> QED BY <3>1, <3>2 DEF Detaches
  <2>2. CASE ~(Reliable /\ AtLimit(Ip(c)))
    BY <1>1, <1>2, <2>2 DEF Start
  <2> QED BY <2>1, <2>2
<1>3. CASE ConnectionLost(c)
  <2>1. attached' = attached \ {c} /\ conns' = conns
        /\ (conns[c].open => conns[c].pc # "new")
    BY <1>3 DEF ConnectionLost
  <2>2. Reliable => conns[c].pc # "new"
    BY <2>1 DEF RegInv, Early
  <2> QED BY <2>1, <2>2 DEF Detaches
<1> QED BY <1>1, <1>2, <1>3 DEF TaskStep, Begin, Refuse, HandshakeFails, HandshakeLost,
        HandshakeTimesOut, EndsBeforeSession, Agree, EstablishTcp, EstablishUdp, TurnAwayUdp,
        HandlerEnds, Watchdog, Close, Flushed

LEMMA CancelledEffect ==
    ASSUME Inv, NEW c \in Ids, Cancelled(c)
    PROVE  Effect(c)
<1> TypeInv /\ RegInv
  BY DEF Inv
<1>0. conns[c].open \in BOOLEAN /\ c \in cancelled
  BY ConnFacts DEF TypeInv, ConnRecords, Cancelled
<1> USE ClosedFacts DEF Effect, Pcs, Early, Gone
<1> HIDE DEF Closed
<1>1. CASE CancelledUnstarted(c)
  BY <1>0, <1>1, DroppedEffect
<1>2. CASE CancelledHandshake(c)
  BY <1>2, EndsEarlyEffect DEF CancelledHandshake
<1>3. CASE CancelledSession(c)
  BY <1>0, <1>3, SessionEndsEffect DEF CancelledSession
<1>4. CASE CancelSwallowed(c)
  BY <1>4 DEF CancelSwallowed, Rests, TypeInv, ConnsOK
<1> QED BY <1>1, <1>2, <1>3, <1>4 DEF Cancelled

-----------------------------------------------------------------------------
(* Each effect preserves each part of the invariant. *)

(* What a task's step leaves alone, or only takes from. *)
ServeStays ==
    /\ config' = config /\ phase' = phase /\ gathered' = gathered
    /\ cancelled' \subseteq cancelled /\ Detaches

LEMMA ConfigFacts ==
    ASSUME config \in Configs
    PROVE  MaxConnections \in Nat /\ MaxPerIp \in Nat /\ Reliable \in BOOLEAN /\ MaxInProgress \in Nat
BY ServerAssumption DEF MaxConnections, MaxPerIp, Reliable

LEMMA ConfigStays ==
    ASSUME config' = config
    PROVE  Reliable' = Reliable /\ MaxConnections' = MaxConnections /\ MaxPerIp' = MaxPerIp
BY DEF Reliable, MaxConnections, MaxPerIp

LEMMA ReleasedType ==
    ASSUME TypeInv, NEW c \in Ids
    PROVE  /\ Released(udp_sessions, c) \in [Addrs -> Ids \cup {None}]
           /\ Released(udp_handshakes, c) \in [Addrs -> Ids \cup {None}]
BY DEF TypeInv, Released

LEMMA RecountedType ==
    ASSUME TypeInv, NEW c \in Ids, NEW pc, Recounted(c, pc)
    PROVE  /\ tcp_connections' \in [Ips -> Int]
           /\ udp_in_progress_handshakes' \in [Ips -> Int]
<1>1. Delta(conns[c].pc, pc, Counted) \in Int /\ Delta(conns[c].pc, pc, InProgress) \in Int
  BY DEF Delta
<1>2. \A f \in [Ips -> Int], ip \in Ips, d \in Int : [f EXCEPT ![ip] = @ + d] \in [Ips -> Int]
  OBVIOUS
<1>3. Ip(c) \in Ips /\ tcp_connections \in [Ips -> Int] /\ udp_in_progress_handshakes \in [Ips -> Int]
  BY ConnFacts DEF TypeInv
<1> QED BY <1>1, <1>2, <1>3 DEF Recounted

LEMMA TypeKept ==
    ASSUME TypeInv, NEW c \in Ids, Effect(c), ServeStays
    PROVE  TypeInv'
<1>1. ASSUME Len(conns') = Len(conns), conns' \in Seq(ConnRecords),
             tcp_connections' \in [Ips -> Int],
             udp_in_progress_handshakes' \in [Ips -> Int],
             udp_sessions' \in [Addrs -> Ids \cup {None}],
             udp_handshakes' \in [Addrs -> Ids \cup {None}]
      PROVE  TypeInv'
  BY <1>1 DEF TypeInv, ConnsOK, Ids, ServeStays, Detaches
<1>2. ASSUME NEW pc, Proceeds(c, pc) PROVE TypeInv'
  BY <1>1, <1>2, RecountedType DEF Proceeds, Updated, TypeInv
<1>3. ASSUME NEW pc, NEW open, Leaves(c, pc, open) PROVE TypeInv'
  BY <1>1, <1>3, RecountedType, ReleasedType DEF Leaves, Updated
<1>4. CASE Promotes(c)
  BY <1>1, <1>4, RecountedType, ReleasedType DEF Promotes, Moved, TypeInv
<1>5. CASE Rests
  BY <1>1, <1>5 DEF Rests, TypeInv, registryVars
<1> QED BY <1>2, <1>3, <1>4, <1>5 DEF Effect

(* The connections move as the counts do. *)
LEMMA CountsMove ==
    ASSUME TypeInv, CountInv, NEW c \in Ids, NEW pc, Moved(c, pc), Recounted(c, pc), ServeStays,
           Reliable /\ Delta(conns[c].pc, pc, Counted) > 0 => tcp_connections[Ip(c)] < MaxPerIp,
           ~Reliable => Delta(conns[c].pc, pc, InProgress) <= 0
    PROVE  CountInv'
<1> DEFINE dt == Delta(conns[c].pc, pc, Counted)
           du == Delta(conns[c].pc, pc, InProgress)
<1>1. dt \in {-1, 0, 1} /\ du \in {-1, 0, 1} /\ Ip(c) \in Ips
  BY ConnFacts DEF Delta, TypeInv
<1>2. MaxPerIp \in Nat /\ MaxInProgress \in Nat /\ Reliable \in BOOLEAN /\ Reliable' = Reliable
      /\ MaxPerIp' = MaxPerIp
  BY ConfigFacts, ConfigStays DEF TypeInv, ServeStays
<1> SUFFICES ASSUME NEW ip \in Ips
             PROVE  /\ tcp_connections'[ip] =
                          IF Reliable THEN Cardinality(ConnsOf(ip, Counted))' ELSE 0
                    /\ udp_in_progress_handshakes'[ip] =
                          IF Reliable THEN 0 ELSE Cardinality(ConnsOf(ip, InProgress))'
                    /\ tcp_connections'[ip] <= MaxPerIp
                    /\ udp_in_progress_handshakes'[ip] <= MaxInProgress
  BY <1>2 DEF CountInv, CountsExact, Counted, InProgress
<1> DEFINE nt == Cardinality(ConnsOf(ip, Counted))
           nu == Cardinality(ConnsOf(ip, InProgress))
<1>3. /\ tcp_connections[ip] = IF Reliable THEN nt ELSE 0
      /\ udp_in_progress_handshakes[ip] = IF Reliable THEN 0 ELSE nu
      /\ tcp_connections[ip] <= MaxPerIp
      /\ udp_in_progress_handshakes[ip] <= MaxInProgress
  BY DEF CountInv, CountsExact, Counted, InProgress
<1>4. nt \in Nat /\ nu \in Nat
  BY ConnsOfFinite DEF TypeInv
<1>5. Cardinality(ConnsOf(ip, Counted))' = nt + IF ip = Ip(c) THEN dt ELSE 0
  BY CountMoves DEF TypeInv
<1>6. Cardinality(ConnsOf(ip, InProgress))' = nu + IF ip = Ip(c) THEN du ELSE 0
  BY CountMoves DEF TypeInv
<1>7. tcp_connections'[ip] =
         IF Reliable THEN tcp_connections[ip] + (IF ip = Ip(c) THEN dt ELSE 0) ELSE tcp_connections[ip]
  BY <1>1, <1>3, <1>4 DEF Recounted, TypeInv
<1>8. udp_in_progress_handshakes'[ip] =
         IF Reliable THEN udp_in_progress_handshakes[ip]
         ELSE udp_in_progress_handshakes[ip] + (IF ip = Ip(c) THEN du ELSE 0)
  BY <1>1, <1>3, <1>4 DEF Recounted, TypeInv
<1>9. (Reliable /\ dt > 0 => tcp_connections[Ip(c)] < MaxPerIp) /\ (~Reliable => du <= 0)
  OBVIOUS
<1> HIDE DEF nt, nu, dt, du
<1> QED BY <1>1, <1>2, <1>3, <1>4, <1>5, <1>6, <1>7, <1>8, <1>9

LEMMA CountsRest ==
    ASSUME TypeInv, CountInv, config' = config,
           Len(conns') = Len(conns),
           \A i \in Ids : conns'[i].addr = conns[i].addr /\ conns'[i].pc = conns[i].pc,
           UNCHANGED <<tcp_connections, udp_in_progress_handshakes>>
    PROVE  CountInv'
<1>1. \A ip, X : ConnsOf(ip, X)' = ConnsOf(ip, X)
  BY CountStays DEF TypeInv
<1> QED BY <1>1, ConfigStays DEF CountInv, CountsExact

LEMMA CountKept ==
    ASSUME TypeInv, CountInv, NEW c \in Ids, Effect(c), ServeStays
    PROVE  CountInv'
<1>1. ASSUME NEW pc, Proceeds(c, pc) PROVE CountInv'
  <2>1. Moved(c, pc)
    BY <1>1, UpdatedMoves DEF Proceeds
  <2>2. Delta(conns[c].pc, pc, Counted) > 0 => conns[c].pc = "new"
    BY <1>1 DEF Proceeds, Delta, Early, Counted
  <2>3. ~Reliable => Delta(conns[c].pc, pc, InProgress) <= 0
    BY <1>1 DEF Proceeds, Delta, Early, InProgress
  <2>4. Reliable /\ Delta(conns[c].pc, pc, Counted) > 0 => tcp_connections[Ip(c)] < MaxPerIp
    <3>1. Ip(c) \in Ips /\ tcp_connections[Ip(c)] \in Int /\ MaxPerIp \in Nat
      BY ConnFacts, ConfigFacts DEF TypeInv
    <3> QED BY <1>1, <2>2, <3>1 DEF Proceeds, AtLimit
  <2> QED BY <1>1, <2>1, <2>3, <2>4, CountsMove DEF Proceeds
<1>2. ASSUME NEW pc, NEW open, Leaves(c, pc, open) PROVE CountInv'
  <2>1. Moved(c, pc)
    BY <1>2, UpdatedMoves DEF Leaves
  <2>2. Delta(conns[c].pc, pc, Counted) <= 0 /\ Delta(conns[c].pc, pc, InProgress) <= 0
    BY <1>2 DEF Leaves, Delta, Early, Gone, Counted, InProgress
  <2>3. ~(Delta(conns[c].pc, pc, Counted) > 0)
    <3>1. Delta(conns[c].pc, pc, Counted) \in Int
      BY DEF Delta
    <3> QED BY <2>2, <3>1
  <2> QED BY <1>2, <2>1, <2>2, <2>3, CountsMove DEF Leaves
<1>3. CASE Promotes(c)
  <2>1. Delta(conns[c].pc, "session", InProgress) <= 0
    BY <1>3 DEF Promotes, Delta, InProgress
  <2>2. ~Reliable /\ Moved(c, "session") /\ Recounted(c, "session")
    BY <1>3 DEF Promotes
  <2> HIDE <1>3
  <2> QED BY <2>1, <2>2, CountsMove
<1>4. CASE Rests
  BY <1>4, CountsRest DEF Rests, registryVars, ServeStays
<1> QED BY <1>1, <1>2, <1>3, <1>4 DEF Effect

(* Which connection a registry may have at an address, or none. *)
LEMMA RegistryFacts ==
    ASSUME TypeInv
    PROVE  /\ None \notin Ids
           /\ \A a \in Addrs : /\ udp_handshakes[a] # None => udp_handshakes[a] \in Ids
                               /\ udp_sessions[a] # None => udp_sessions[a] \in Ids
           /\ \A c \in Ids : conns[c].addr \in Addrs
<1>1. None \notin Ids
  BY ConnFacts DEF TypeInv, Ids, None
<1> QED BY <1>1, ConnFacts DEF TypeInv

LEMMA RegKept ==
    ASSUME TypeInv, RegInv, NEW c \in Ids, Effect(c), ServeStays
    PROVE  RegInv'
<1> USE RegistryFacts
<1>0. Reliable' = Reliable /\ phase' = phase /\ Reliable \in BOOLEAN
  BY ConfigStays, ConfigFacts DEF ServeStays, TypeInv
<1>1. ASSUME NEW pc, Proceeds(c, pc) PROVE RegInv'
  <2>1. /\ Ids' = Ids
        /\ \A i \in Ids : /\ conns'[i].addr = conns[i].addr
                          /\ conns'[i].open = conns[i].open
                          /\ conns'[i].pc = IF i = c THEN pc ELSE conns[i].pc
    BY <1>1 DEF Proceeds, Updated, Ids
  <2>2. /\ conns[c].pc \in Early /\ (~Reliable => pc \in Early) /\ (pc \in Early \/ pc = "session")
        /\ udp_sessions' = udp_sessions /\ udp_handshakes' = udp_handshakes
        /\ conns[c].pc # "session"
    BY <1>1 DEF Proceeds, Early
  <2>3. CASE Reliable
    BY <1>0, <2>1, <2>2, <2>3 DEF RegInv
  <2>4. CASE ~Reliable
    <3>1. "session" \notin Early
      BY DEF Early
    <3> QED BY <1>0, <2>1, <2>2, <2>4, <3>1 DEF RegInv
  <2> QED BY <2>3, <2>4
<1>2. ASSUME NEW pc, NEW open, Leaves(c, pc, open) PROVE RegInv'
  <2>1. /\ Ids' = Ids
        /\ \A i \in Ids : i # c => conns'[i] = conns[i]
        /\ conns'[c].pc \notin Early /\ conns'[c].pc # "session"
    BY <1>2 DEF Leaves, Updated, Ids, Early, Gone
  <2>2. \A a \in Addrs : /\ udp_sessions'[a] = IF udp_sessions[a] = c THEN None ELSE udp_sessions[a]
                         /\ udp_handshakes'[a] = IF udp_handshakes[a] = c THEN None ELSE udp_handshakes[a]
    BY <1>2 DEF Leaves, Released
  <2>3. CASE Reliable
    BY <1>0, <2>1, <2>2, <2>3 DEF RegInv
  <2>4. CASE ~Reliable
    BY <1>0, <2>1, <2>2, <2>4 DEF RegInv
  <2> QED BY <2>3, <2>4
<1>3. CASE Promotes(c)
  <2> DEFINE a0 == conns[c].addr
  <2>1. /\ Ids' = Ids
        /\ \A i \in Ids : /\ conns'[i].addr = conns[i].addr
                          /\ conns'[i].pc = IF i = c THEN "session" ELSE conns[i].pc
                          /\ conns'[i].open = IF i # c /\ i = udp_sessions[a0] THEN FALSE
                                              ELSE conns[i].open
    BY <1>3 DEF Promotes, Moved, Ids
  <2>2. /\ ~Reliable /\ conns[c].pc \in Early /\ conns[c].pc # "session"
        /\ "session" \notin Early
    BY <1>3 DEF Promotes, Early
  <2>3. \A a \in Addrs : /\ udp_sessions'[a] = IF a = a0 THEN c ELSE udp_sessions[a]
                         /\ udp_handshakes'[a] = IF udp_handshakes[a] = c THEN None ELSE udp_handshakes[a]
    BY <1>3 DEF Promotes, Released, TypeInv
  <2>4. a0 \in Addrs
    OBVIOUS
  <2> HIDE DEF a0
  <2>5. \A a \in Addrs :
           /\ udp_handshakes'[a] # None =>
                 /\ phase = "serving"
                 /\ conns'[udp_handshakes'[a]].pc \in Early
                 /\ conns'[udp_handshakes'[a]].addr = a
           /\ udp_sessions'[a] # None =>
                 /\ conns'[udp_sessions'[a]].pc = "session"
                 /\ conns'[udp_sessions'[a]].addr = a
    <3> SUFFICES ASSUME NEW a \in Addrs
                 PROVE  /\ udp_handshakes'[a] # None =>
                              /\ phase = "serving"
                              /\ conns'[udp_handshakes'[a]].pc \in Early
                              /\ conns'[udp_handshakes'[a]].addr = a
                        /\ udp_sessions'[a] # None =>
                              /\ conns'[udp_sessions'[a]].pc = "session"
                              /\ conns'[udp_sessions'[a]].addr = a
      OBVIOUS
    <3>1. ASSUME udp_handshakes'[a] # None
          PROVE  /\ phase = "serving"
                 /\ conns'[udp_handshakes'[a]].pc \in Early
                 /\ conns'[udp_handshakes'[a]].addr = a
      <4>1. udp_handshakes'[a] = udp_handshakes[a] /\ udp_handshakes[a] # c
        BY <2>3, <3>1
      <4>2. /\ phase = "serving"
            /\ conns[udp_handshakes[a]].pc \in Early
            /\ conns[udp_handshakes[a]].addr = a
        BY <2>2, <3>1, <4>1 DEF RegInv
      <4>3. udp_handshakes[a] \in Ids
        BY <3>1, <4>1
      <4> QED BY <2>1, <4>1, <4>2, <4>3
    <3>2. ASSUME udp_sessions'[a] # None
          PROVE  conns'[udp_sessions'[a]].pc = "session" /\ conns'[udp_sessions'[a]].addr = a
      <4>1. CASE a = a0
        BY <2>1, <2>3, <4>1 DEF a0
      <4>2. CASE a # a0
        <5>1. udp_sessions'[a] = udp_sessions[a] /\ udp_sessions[a] \in Ids
          BY <2>3, <3>2, <4>2
        <5>2. conns[udp_sessions[a]].pc = "session" /\ conns[udp_sessions[a]].addr = a
          BY <2>2, <3>2, <5>1 DEF RegInv
        <5> QED BY <2>1, <2>2, <5>1, <5>2
      <4> QED BY <4>1, <4>2
    <3> QED BY <3>1, <3>2
  <2>6. \A i \in Ids :
           /\ conns'[i].pc \in Early => (conns'[i].open <=> phase = "serving")
           /\ conns'[i].pc \in Early /\ conns'[i].open => udp_handshakes'[conns'[i].addr] = i
    <3> SUFFICES ASSUME NEW i \in Ids, conns'[i].pc \in Early
                 PROVE  /\ conns'[i].open <=> phase = "serving"
                        /\ conns'[i].open => udp_handshakes'[conns'[i].addr] = i
      OBVIOUS
    <3>1. i # c /\ conns[i].pc \in Early
      BY <2>1, <2>2
    <3>2. i # udp_sessions[a0]
      BY <2>2, <2>4, <3>1 DEF RegInv
    <3>3. conns'[i].open = conns[i].open /\ conns'[i].addr = conns[i].addr
      BY <2>1, <3>1, <3>2
    <3> QED BY <2>2, <2>3, <3>1, <3>3 DEF RegInv
  <2>7. \A i \in Ids : conns'[i].pc = "session" /\ conns'[i].open => udp_sessions'[conns'[i].addr] = i
    <3> SUFFICES ASSUME NEW i \in Ids, conns'[i].pc = "session", conns'[i].open
                 PROVE  udp_sessions'[conns'[i].addr] = i
      OBVIOUS
    <3>1. CASE i = c
      BY <2>1, <2>3, <2>4, <3>1 DEF a0
    <3>2. CASE i # c
      <4>1. conns[i].pc = "session" /\ conns[i].open /\ i # udp_sessions[a0]
        BY <2>1, <3>2
      <4>2. udp_sessions[conns[i].addr] = i /\ conns[i].addr # a0
        BY <2>2, <4>1 DEF RegInv
      <4>3. conns'[i].addr = conns[i].addr /\ conns[i].addr \in Addrs
        BY <2>1
      <4>4. udp_sessions'[conns[i].addr] = udp_sessions[conns[i].addr]
        BY <2>3, <4>2, <4>3
      <4> QED BY <4>2, <4>3, <4>4
    <3> QED BY <3>1, <3>2
  <2> QED BY <1>0, <2>1, <2>2, <2>5, <2>6, <2>7 DEF RegInv
<1>4. CASE Rests
  <2>1. Ids' = Ids /\ udp_sessions' = udp_sessions /\ udp_handshakes' = udp_handshakes
        /\ "session" \notin Early
    BY <1>4 DEF Rests, Ids, registryVars, Early
  <2>2. CASE Reliable
    BY <1>0, <1>4, <2>1, <2>2 DEF RegInv, Rests
  <2>3. CASE ~Reliable
    BY <1>0, <1>4, <2>1, <2>3 DEF RegInv, Rests
  <2> QED BY <2>2, <2>3
<1> QED BY <1>1, <1>2, <1>3, <1>4 DEF Effect

LEMMA OccupiedFinite ==
    ASSUME NEW r, NEW ip
    PROVE  /\ IsFiniteSet(Occupied(r)) /\ Cardinality(Occupied(r)) \in Nat
           /\ IsFiniteSet({ a \in Occupied(r) : a[1] = ip })
           /\ Cardinality({ a \in Occupied(r) : a[1] = ip }) \in Nat
<1>1. IsFiniteSet(Addrs)
  BY ServerAssumption, FS_Product DEF Addrs
<1> QED BY <1>1, FS_Subset, FS_CardinalityType DEF Occupied

(* A registry that only loses entries stays within the limits. *)
LEMMA BoundShrinks ==
    ASSUME TypeInv, BoundInv, ~Reliable, config' = config,
           \A a \in Addrs : udp_sessions'[a] # None => udp_sessions[a] # None
    PROVE  BoundInv'
<1>1. Occupied(udp_sessions') \subseteq Occupied(udp_sessions)
  BY DEF Occupied
<1>2. MaxConnections \in Nat /\ MaxPerIp \in Nat
  BY ConfigFacts DEF TypeInv
<1>3. /\ Cardinality(Occupied(udp_sessions')) <= Cardinality(Occupied(udp_sessions))
      /\ Cardinality(Occupied(udp_sessions')) \in Nat /\ Cardinality(Occupied(udp_sessions)) \in Nat
  BY <1>1, OccupiedFinite, FS_Subset
<1>4. ASSUME NEW ip \in Ips
      PROVE  Cardinality(OccupiedBy(ip)') <= MaxPerIp
  <2>1. OccupiedBy(ip)' \subseteq OccupiedBy(ip)
    BY <1>1 DEF OccupiedBy
  <2>2. IsFiniteSet(OccupiedBy(ip)) /\ Cardinality(OccupiedBy(ip)) \in Nat
    BY OccupiedFinite DEF OccupiedBy
  <2>3. Cardinality(OccupiedBy(ip)') \in Nat /\ Cardinality(OccupiedBy(ip)') <= Cardinality(OccupiedBy(ip))
    BY <2>1, <2>2, FS_Subset, FS_CardinalityType
  <2>4. Cardinality(OccupiedBy(ip)) <= MaxPerIp
    BY DEF BoundInv
  <2> QED BY <1>2, <2>2, <2>3, <2>4
<1>5. Cardinality(Occupied(udp_sessions')) <= MaxConnections
  BY <1>2, <1>3 DEF BoundInv
<1>6. Reliable' = Reliable /\ MaxConnections' = MaxConnections /\ MaxPerIp' = MaxPerIp
  BY ConfigStays
<1>7. Occupied(udp_sessions)' = Occupied(udp_sessions')
  BY DEF Occupied
<1> QED BY <1>4, <1>5, <1>6, <1>7 DEF BoundInv

LEMMA BoundKept ==
    ASSUME TypeInv, CountInv, RegInv, BoundInv, NEW c \in Ids, Effect(c), ServeStays
    PROVE  BoundInv'
<1>0. Reliable' = Reliable /\ MaxConnections' = MaxConnections /\ MaxPerIp' = MaxPerIp
      /\ config' = config
  BY ConfigStays DEF ServeStays
<1>1. MaxConnections \in Nat /\ MaxPerIp \in Nat
  BY ConfigFacts DEF TypeInv
<1>2. ASSUME Reliable, NEW pc, Moved(c, pc),
             Delta(conns[c].pc, pc, Counted) > 0 => ~AtLimit(Ip(c))
      PROVE  BoundInv'
  <2>1. Total(Counted) \in Nat /\ Total(Counted)' = Total(Counted) + Delta(conns[c].pc, pc, Counted)
    BY <1>2, TotalMoves DEF TypeInv
  <2>2. Delta(conns[c].pc, pc, Counted) \in {-1, 0, 1}
    BY DEF Delta
  <2>3. MapThenSumSet(LAMBDA i : tcp_connections[i], Ips) = Total(Counted)
    <3>1. \A ip \in Ips : tcp_connections[ip] = Cardinality(ConnsOf(ip, Counted))
      BY <1>2 DEF CountInv, CountsExact, Counted
    <3> QED BY <3>1, SumOfCounts DEF TypeInv
  <2>4. ~AtLimit(Ip(c)) => ~(Total(Counted) >= MaxConnections)
    BY <2>3 DEF AtLimit
  <2>5. Total(Counted) <= MaxConnections
    BY <1>2 DEF BoundInv
  <2>6. Total(Counted)' <= MaxConnections
    BY <1>1, <1>2, <2>1, <2>2, <2>4, <2>5
  <2> QED BY <1>0, <1>2, <2>6 DEF BoundInv
<1>3. ASSUME NEW pc, Proceeds(c, pc) PROVE BoundInv'
  <2>1. CASE Reliable
    <3>1. Delta(conns[c].pc, pc, Counted) > 0 => conns[c].pc = "new"
      BY <1>3 DEF Proceeds, Delta, Early, Counted
    <3>2. Moved(c, pc) /\ (conns[c].pc = "new" => ~AtLimit(Ip(c)))
      BY <1>3, <2>1, UpdatedMoves DEF Proceeds
    <3> QED BY <1>2, <2>1, <3>1, <3>2
  <2>2. CASE ~Reliable
    BY <1>0, <1>3, <2>2, BoundShrinks DEF Proceeds
  <2> QED BY <2>1, <2>2
<1>4. ASSUME NEW pc, NEW open, Leaves(c, pc, open) PROVE BoundInv'
  <2>1. CASE Reliable
    <3>1. ~(Delta(conns[c].pc, pc, Counted) > 0)
      BY <1>4 DEF Leaves, Delta, Counted, Gone
    <3>2. Moved(c, pc)
      BY <1>4, UpdatedMoves DEF Leaves
    <3> QED BY <1>2, <2>1, <3>1, <3>2
  <2>2. CASE ~Reliable
    <3>1. \A a \in Addrs : udp_sessions'[a] # None => udp_sessions[a] # None
      BY <1>4 DEF Leaves, Released
    <3> QED BY <1>0, <2>2, <3>1, BoundShrinks
  <2> QED BY <2>1, <2>2
<1>5. CASE Promotes(c)
  <2> DEFINE S == Occupied(udp_sessions)
             a0 == conns[c].addr
             ip0 == Ip(c)
  <2>1. a0 \in Addrs /\ a0[1] = ip0 /\ ~Reliable /\ c # None
    BY <1>5, RegistryFacts DEF Promotes, Ip
  <2>2. Occupied(udp_sessions)' = S \cup {a0}
    <3>1. \A a \in Addrs : udp_sessions'[a] = IF a = a0 THEN c ELSE udp_sessions[a]
      BY <1>5 DEF Promotes, TypeInv
    <3> HIDE DEF a0
    <3> QED BY <2>1, <3>1 DEF Occupied
  <2>3. ~(Cardinality(S) >= MaxConnections) /\ ~(Cardinality(OccupiedBy(ip0)) >= MaxPerIp)
    BY <1>5 DEF Promotes, SessionsFull, OccupiedBy
  <2> HIDE DEF S, a0, ip0
  <2>4. IsFiniteSet(S) /\ Cardinality(S) \in Nat
    BY OccupiedFinite DEF S
  <2>5. Cardinality(S \cup {a0}) <= Cardinality(S) + 1 /\ Cardinality(S \cup {a0}) \in Nat
    BY <2>4, FS_AddElement
  <2>6. Cardinality(S \cup {a0}) <= MaxConnections
    BY <1>1, <2>3, <2>4, <2>5
  <2>7. ASSUME NEW ip \in Ips PROVE Cardinality(OccupiedBy(ip)') <= MaxPerIp
    <3> DEFINE B == OccupiedBy(ip)
    <3>1. B' = IF ip = ip0 THEN B \cup {a0} ELSE B
      BY <2>1, <2>2 DEF OccupiedBy, S
    <3>2. IsFiniteSet(B) /\ Cardinality(B) \in Nat
      BY OccupiedFinite DEF OccupiedBy
    <3>3. Cardinality(B) <= MaxPerIp
      BY <2>1 DEF BoundInv
    <3>4. ip = ip0 => ~(Cardinality(B) >= MaxPerIp)
      BY <2>3
    <3> HIDE DEF B
    <3>5. Cardinality(B \cup {a0}) <= Cardinality(B) + 1 /\ Cardinality(B \cup {a0}) \in Nat
      BY <3>2, FS_AddElement
    <3>6. Cardinality(B') <= MaxPerIp
      BY <1>1, <3>1, <3>2, <3>3, <3>4, <3>5
    <3> QED BY <3>6 DEF B
  <2> QED BY <1>0, <2>1, <2>2, <2>6, <2>7 DEF BoundInv
<1>6. CASE Rests
  <2>1. CASE Reliable
    <3>1. Total(Counted)' = Total(Counted)
      BY <1>6 DEF Total, Rests, Ids
    <3> QED BY <1>0, <2>1, <3>1 DEF BoundInv
  <2>2. CASE ~Reliable
    BY <1>0, <1>6, <2>2, BoundShrinks DEF Rests, registryVars
  <2> QED BY <2>1, <2>2
<1> QED BY <1>3, <1>4, <1>5, <1>6 DEF Effect

LEMMA PhaseKept ==
    ASSUME TypeInv, PhaseInv, NEW c \in Ids, Effect(c), ServeStays
    PROVE  PhaseInv'
<1>0. Reliable' = Reliable /\ config' = config /\ phase' = phase /\ gathered' = gathered
      /\ (cancelled = {} => cancelled' = {})
  BY ConfigStays DEF ServeStays
<1>1. ASSUME NEW pc, Moved(c, pc), ~Ended(c),
             conns[c].pc \in Early \/ pc \in Gone
      PROVE  PhaseInv'
  <2>1. Ids' = Ids /\ \A i \in Ids : conns'[i].pc = IF i = c THEN pc ELSE conns[i].pc
    BY <1>1 DEF Moved, Ids
  <2>2. CASE Reliable
    BY <1>0, <1>1, <2>1, <2>2 DEF PhaseInv, Ended, Early, Gone
  <2>3. CASE ~Reliable
    BY <1>0, <1>1, <2>1, <2>3 DEF PhaseInv, Ended
  <2> QED BY <2>2, <2>3
<1>2. ASSUME NEW pc, Proceeds(c, pc) PROVE PhaseInv'
  BY <1>1, <1>2, UpdatedMoves DEF Proceeds, Ended, Early
<1>3. ASSUME NEW pc, NEW open, Leaves(c, pc, open) PROVE PhaseInv'
  BY <1>1, <1>3, UpdatedMoves DEF Leaves, Ended, Early
<1>4. CASE Promotes(c)
  BY <1>1, <1>4 DEF Promotes, Ended, Early
<1>5. CASE Rests
  <2>1. Ids' = Ids /\ \A i \in Ids : conns'[i].pc = conns[i].pc
    BY <1>5 DEF Rests, Ids
  <2> QED BY <1>0, <2>1 DEF PhaseInv, Ended
<1> QED BY <1>2, <1>3, <1>4, <1>5 DEF Effect

LEMMA AttachKept ==
    ASSUME AttachInv, NEW c \in Ids, Effect(c), ServeStays
    PROVE  AttachInv'
<1>1. Ids' = Ids /\ \A i \in Ids : conns'[i].pc = "new" => conns[i].pc = "new"
  <2>1. ASSUME NEW pc, Moved(c, pc), pc # "new"
        PROVE  Ids' = Ids /\ \A i \in Ids : conns'[i].pc = "new" => conns[i].pc = "new"
    BY <2>1 DEF Moved, Ids
  <2>2. ASSUME NEW pc, Proceeds(c, pc) PROVE Moved(c, pc) /\ pc # "new"
    BY <2>2, UpdatedMoves DEF Proceeds
  <2>3. ASSUME NEW pc, NEW open, Leaves(c, pc, open) PROVE Moved(c, pc) /\ pc # "new"
    BY <2>3, UpdatedMoves DEF Leaves, Gone
  <2>4. CASE Promotes(c)
    BY <2>1, <2>4 DEF Promotes
  <2>5. CASE Rests
    BY <2>5 DEF Rests, Ids
  <2> QED BY <2>1, <2>2, <2>3, <2>4, <2>5 DEF Effect
<1>2. Reliable' = Reliable
  BY ConfigStays DEF ServeStays
<1> QED BY <1>1, <1>2 DEF AttachInv, ServeStays, Detaches

LEMMA EffectKeeps ==
    ASSUME Inv, NEW c \in Ids, Effect(c), ServeStays
    PROVE  Inv'
BY TypeKept, CountKept, RegKept, BoundKept, PhaseKept, AttachKept DEF Inv

-----------------------------------------------------------------------------
(* Arrivals, and the steps of serve(). *)

LEMMA ArrivalFacts ==
    ASSUME TypeInv, NEW a \in Addrs, Connection(a), NEW k, k = Len(conns) + 1
    PROVE  /\ ConnsOK'
           /\ k \notin Ids /\ Ids' = Ids \cup {k} /\ k # None
           /\ \A i \in Ids : conns'[i] = conns[i]
           /\ conns'[k] = [addr |-> a, pc |-> "new", open |-> TRUE]
           /\ a[1] \in Ips
<1> DEFINE r == [addr |-> a, pc |-> "new", open |-> TRUE]
<1>1. Len(conns) \in Nat /\ conns \in Seq(ConnRecords) /\ Len(conns) < MaxConns
  BY ConnFacts DEF TypeInv, ConnsOK, Connection
<1>2. r \in ConnRecords
  BY DEF ConnRecords, Pcs, Early
<1>3. conns' = Append(conns, r)
  BY DEF Connection
<1> HIDE DEF r
<1>4. /\ conns' \in Seq(ConnRecords) /\ Len(conns') = k /\ conns'[k] = r
      /\ \A i \in Ids : conns'[i] = conns[i]
  BY <1>1, <1>2, <1>3, AppendProperties DEF Ids
<1>5. k \notin Ids /\ Ids' = Ids \cup {k} /\ k # None /\ k <= MaxConns
  BY <1>1, <1>4, ServerAssumption DEF Ids, None
<1>6. a[1] \in Ips
  BY DEF Addrs
<1> QED BY <1>4, <1>5, <1>6 DEF ConnsOK, r

LEMMA ArrivalKeeps ==
    ASSUME Inv, config' = config, UNCHANGED serveVars,
           NEW a \in Addrs, TcpAccept(a) \/ UdpHello(a)
    PROVE  Inv'
<1> DEFINE k == Len(conns) + 1
<1> USE DEF Inv
<1>0. /\ Connection(a) /\ phase = "serving"
      /\ phase' = phase /\ gathered' = gathered /\ cancelled' = cancelled
  BY DEF TcpAccept, UdpHello, Connection, serveVars
<1>1. /\ ConnsOK'
      /\ k \notin Ids /\ Ids' = Ids \cup {k} /\ k # None
      /\ \A i \in Ids : conns'[i] = conns[i]
      /\ conns'[k] = [addr |-> a, pc |-> "new", open |-> TRUE]
      /\ a[1] \in Ips
  BY <1>0, ArrivalFacts
<1>2. conns'[k].addr = a /\ conns'[k].pc = "new" /\ conns'[k].open = TRUE
  BY <1>1
<1>3. /\ Reliable' = Reliable /\ MaxConnections' = MaxConnections /\ MaxPerIp' = MaxPerIp
      /\ Reliable \in BOOLEAN /\ MaxInProgress \in Nat
  BY ConfigStays, ConfigFacts DEF TypeInv
<1>4. \/ Reliable /\ UNCHANGED registryVars /\ attached' = attached \cup {k}
      \/ /\ ~Reliable
         /\ udp_handshakes[a] = None
         /\ udp_in_progress_handshakes[a[1]] < MaxInProgress
         /\ udp_in_progress_handshakes' = [udp_in_progress_handshakes EXCEPT ![a[1]] = @ + 1]
         /\ udp_handshakes' = [udp_handshakes EXCEPT ![a] = k]
         /\ UNCHANGED <<attached, tcp_connections, udp_sessions>>
  BY DEF TcpAccept, UdpHello
<1> HIDE DEF k
<1>5. TypeInv'
  <2>1. CASE Reliable
    BY <1>0, <1>1, <1>4, <2>1 DEF TypeInv, registryVars
  <2>2. CASE ~Reliable
    <3>1. udp_handshakes' \in [Addrs -> (Ids \cup {k}) \cup {None}]
      BY <1>4, <2>2 DEF TypeInv
    <3>2. udp_in_progress_handshakes' \in [Ips -> Int]
      BY <1>4, <2>2 DEF TypeInv
    <3> QED BY <1>0, <1>1, <1>4, <2>2, <3>1, <3>2 DEF TypeInv
  <2> QED BY <2>1, <2>2
<1>6. CountInv'
  <2> SUFFICES ASSUME NEW ip \in Ips
               PROVE  /\ tcp_connections'[ip] =
                            IF Reliable THEN Cardinality(ConnsOf(ip, Counted))' ELSE 0
                      /\ udp_in_progress_handshakes'[ip] =
                            IF Reliable THEN 0 ELSE Cardinality(ConnsOf(ip, InProgress))'
                      /\ tcp_connections'[ip] <= MaxPerIp
                      /\ udp_in_progress_handshakes'[ip] <= MaxInProgress
    BY <1>3 DEF CountInv, CountsExact, Counted, InProgress
  <2> DEFINE nt == Cardinality(ConnsOf(ip, Counted))
             nu == Cardinality(ConnsOf(ip, InProgress))
  <2>1. /\ tcp_connections[ip] = IF Reliable THEN nt ELSE 0
        /\ udp_in_progress_handshakes[ip] = IF Reliable THEN 0 ELSE nu
        /\ tcp_connections[ip] <= MaxPerIp
        /\ udp_in_progress_handshakes[ip] <= MaxInProgress
    BY DEF CountInv, CountsExact, Counted, InProgress
  <2>2. nt \in Nat /\ nu \in Nat
    BY ConnsOfFinite DEF TypeInv
  <2>3. Cardinality(ConnsOf(ip, Counted))' = nt
    <3>1. "new" \notin Counted
      BY DEF Counted
    <3> QED BY <1>0, <2>2, <3>1, CountArrives DEF TypeInv, Connection
  <2>4. Cardinality(ConnsOf(ip, InProgress))' = nu + IF ip = a[1] THEN 1 ELSE 0
    <3>1. "new" \in InProgress
      BY DEF InProgress
    <3> QED BY <1>0, <3>1, CountArrives DEF TypeInv, Connection
  <2>5. tcp_connections' = tcp_connections
    BY <1>4 DEF registryVars
  <2>6. udp_in_progress_handshakes'[ip] =
           udp_in_progress_handshakes[ip] + IF ~Reliable /\ ip = a[1] THEN 1 ELSE 0
    <3>1. udp_in_progress_handshakes[ip] \in Int
      BY DEF TypeInv
    <3>2. CASE Reliable
      BY <1>4, <3>1, <3>2 DEF registryVars
    <3>3. CASE ~Reliable
      BY <1>4, <3>1, <3>3 DEF TypeInv
    <3> QED BY <3>2, <3>3
  <2>7. ~Reliable /\ ip = a[1] => udp_in_progress_handshakes[ip] < MaxInProgress
    BY <1>4
  <2> HIDE DEF nt, nu
  <2>8. CASE Reliable
    BY <1>3, <2>1, <2>2, <2>3, <2>5, <2>6, <2>8
  <2>9. CASE ~Reliable
    <3>1. udp_in_progress_handshakes'[ip] = nu + IF ip = a[1] THEN 1 ELSE 0
      BY <2>1, <2>6, <2>9
    <3>2. nu <= MaxInProgress /\ (ip = a[1] => nu < MaxInProgress)
      BY <2>1, <2>7, <2>9
    <3> QED BY <1>3, <2>1, <2>2, <2>4, <2>5, <2>9, <3>1, <3>2
  <2> QED BY <2>8, <2>9
<1>7. RegInv'
  <2>0. "new" \in Early /\ "session" # "new"
    BY DEF Early
  <2>1. CASE Reliable
    BY <1>0, <1>1, <1>2, <1>3, <1>4, <2>1 DEF RegInv, registryVars
  <2>2. CASE ~Reliable
    <3>1. \A b \in Addrs : udp_handshakes'[b] = (IF b = a THEN k ELSE udp_handshakes[b])
                           /\ udp_sessions'[b] = udp_sessions[b]
      BY <1>4, <2>2 DEF TypeInv
    <3>2. \A b \in Addrs :
             /\ udp_handshakes'[b] # None =>
                   /\ phase' = "serving"
                   /\ conns'[udp_handshakes'[b]].pc \in Early
                   /\ conns'[udp_handshakes'[b]].addr = b
             /\ udp_sessions'[b] # None =>
                   /\ conns'[udp_sessions'[b]].pc = "session"
                   /\ conns'[udp_sessions'[b]].addr = b
      BY <1>0, <1>1, <1>2, <2>0, <2>2, <3>1, RegistryFacts DEF RegInv
    <3>3. ASSUME NEW c \in Ids'
          PROVE  /\ conns'[c].pc \in Early => (conns'[c].open <=> phase' = "serving")
                 /\ conns'[c].pc \in Early /\ conns'[c].open => udp_handshakes'[conns'[c].addr] = c
                 /\ conns'[c].pc = "session" /\ conns'[c].open => udp_sessions'[conns'[c].addr] = c
      <4>1. CASE c = k
        BY <1>0, <1>2, <2>0, <3>1, <4>1
      <4>2. CASE c # k
        <5>1. c \in Ids /\ conns'[c] = conns[c] /\ conns[c].addr \in Addrs
          BY <1>1, <4>2, RegistryFacts
        <5>2. conns[c].pc \in Early /\ conns[c].open => conns[c].addr # a
          BY <1>1, <1>4, <2>2, <5>1, RegistryFacts DEF RegInv
        <5> QED BY <1>0, <2>2, <3>1, <5>1, <5>2 DEF RegInv
      <4> QED BY <4>1, <4>2
    <3> QED BY <1>3, <2>2, <3>2, <3>3 DEF RegInv
  <2> QED BY <2>1, <2>2
<1>8. BoundInv'
  <2>1. CASE Reliable
    <3>1. Total(Counted)' = Total(Counted)
      <4>1. "new" \notin Counted
        BY DEF Counted
      <4> QED BY <1>1, <1>2, <4>1 DEF Total
    <3> QED BY <1>3, <2>1, <3>1 DEF BoundInv
  <2>2. CASE ~Reliable
    BY <1>4, <2>2, BoundShrinks
  <2> QED BY <2>1, <2>2
<1>9. PhaseInv'
  BY <1>0, <1>3 DEF PhaseInv
<1>10. AttachInv'
  BY <1>1, <1>3, <1>4 DEF AttachInv
<1> QED BY <1>5, <1>6, <1>7, <1>8, <1>9, <1>10

(* stop() over UDP closes the streams that are registered. *)
LEMMA StopUdpEffect ==
    ASSUME TypeInv, StopUdp
    PROVE  /\ conns' \in Seq(ConnRecords) /\ Len(conns') = Len(conns)
           /\ \A c \in Ids :
                 /\ conns'[c].addr = conns[c].addr /\ conns'[c].pc = conns[c].pc
                 /\ conns'[c].open <=>
                       /\ conns[c].open
                       /\ c \notin {udp_sessions[conns[c].addr], udp_handshakes[conns[c].addr]}
<1> DEFINE Registered(c) == c \in { udp_sessions[conns[c].addr], udp_handshakes[conns[c].addr] }
           New(c) == [conns[c] EXCEPT !.open = @ /\ ~Registered(c)]
<1>1. conns' = [c \in Ids |-> New(c)]
  BY DEF StopUdp
<1>2. ASSUME NEW c \in Ids
      PROVE  /\ New(c) \in ConnRecords
             /\ New(c).addr = conns[c].addr /\ New(c).pc = conns[c].pc
             /\ New(c).open <=> conns[c].open /\ ~Registered(c)
  <2>1. conns[c] \in [addr : Addrs, open : BOOLEAN, pc : Pcs]
    BY ConnFacts DEF TypeInv, ConnRecords
  <2>2. PICK f : f = (conns[c].open /\ ~Registered(c))
    OBVIOUS
  <2>3. New(c) = [conns[c] EXCEPT !.open = f]
    BY <2>1, <2>2, Zenon
  <2>4. New(c) = [addr |-> conns[c].addr, pc |-> conns[c].pc, open |-> f] /\ f \in BOOLEAN
    <3>1. CASE f = FALSE
      BY <2>1, <2>3, <3>1, ClosedRecord
    <3>2. CASE f # FALSE
      BY <2>1, <2>2, <2>3, <3>2
    <3> QED BY <3>1, <3>2
  <2> HIDE DEF New, Registered
  <2>5. New(c) \in ConnRecords
    BY <2>1, <2>4 DEF ConnRecords
  <2>6. New(c).addr = conns[c].addr /\ New(c).pc = conns[c].pc /\ New(c).open = f
    BY <2>4
  <2> QED BY <2>2, <2>5, <2>6
<1> HIDE DEF New
<1>3. conns' \in [Ids -> ConnRecords] /\ \A c \in Ids : conns'[c] = New(c)
  BY <1>1, <1>2
<1>4. conns' \in Seq(ConnRecords) /\ Len(conns') = Len(conns)
  BY <1>3, FunctionIsSeq DEF TypeInv
<1>5. \A c \in Ids : /\ conns'[c].addr = conns[c].addr /\ conns'[c].pc = conns[c].pc
                     /\ conns'[c].open <=> conns[c].open /\ ~Registered(c)
  BY <1>2, <1>3
<1> QED BY <1>4, <1>5

(* These are all that are open and not on their way out. *)
LEMMA StopUdpKeeps ==
    ASSUME Inv, config' = config, StopUdp
    PROVE  Inv'
<1> USE DEF Inv
<1>1. /\ ~Reliable /\ phase = "serving" /\ phase' = "stopping"
      /\ udp_sessions' = [a \in Addrs |-> None]
      /\ udp_handshakes' = [a \in Addrs |-> None]
      /\ gathered' = { c \in Ids : ~Ended(c) }
      /\ cancelled' = cancelled \cup { c \in Ids : ~Ended(c) }
      /\ UNCHANGED <<attached, tcp_connections, udp_in_progress_handshakes>>
  BY DEF StopUdp, CancelAndGather
<1>4. conns' \in Seq(ConnRecords) /\ Len(conns') = Len(conns)
  BY StopUdpEffect
<1>5. Ids' = Ids /\ ConnsOK'
  BY <1>4 DEF Ids, ConnsOK, TypeInv
<1>6. \A c \in Ids :
         /\ conns'[c].addr = conns[c].addr /\ conns'[c].pc = conns[c].pc
         /\ conns'[c].open <=>
               /\ conns[c].open
               /\ c \notin {udp_sessions[conns[c].addr], udp_handshakes[conns[c].addr]}
  BY StopUdpEffect
<1>7. Reliable' = Reliable
  BY ConfigStays
<1>8. TypeInv'
  BY <1>1, <1>5 DEF TypeInv
<1>9. CountInv'
  BY <1>1, <1>4, <1>6, CountsRest
<1>10. RegInv'
  <2>1. \A c \in Ids : conns[c].pc \in Early \cup {"session"} => ~conns'[c].open
    BY <1>1, <1>6 DEF RegInv
  <2> QED BY <1>1, <1>5, <1>6, <1>7, <2>1 DEF RegInv
<1>11. BoundInv'
  BY <1>1, BoundShrinks
<1>12. PhaseInv'
  BY <1>1, <1>5, <1>6, <1>7 DEF PhaseInv, Ended
<1>13. AttachInv'
  BY <1>1, <1>7 DEF AttachInv
<1> QED BY <1>8, <1>9, <1>10, <1>11, <1>12, <1>13

(* The other steps of serve() only cancel and wait. *)
LEMMA ServeKeeps ==
    ASSUME Inv, config' = config, StopTcp \/ ListenerStopped \/ ServeReturns
    PROVE  Inv'
<1> USE DEF Inv
<1>0. UNCHANGED <<conns, attached, registryVars>>
  BY DEF StopTcp, ListenerStopped, ServeReturns
<1>1. /\ Reliable' = Reliable /\ MaxConnections' = MaxConnections /\ MaxPerIp' = MaxPerIp
      /\ Ids' = Ids /\ phase' # "serving"
      /\ (phase = "serving" => Reliable)
  BY <1>0, ConfigStays DEF Ids, StopTcp, ListenerStopped, ServeReturns
<1>2. TypeInv'
  <2>1. ConnTasks \subseteq Ids
    BY DEF ConnTasks
  <2>2. /\ gathered' \subseteq Ids /\ cancelled' \subseteq Ids
        /\ phase' \in {"serving", "stopping", "cancelling", "stopped"}
    BY <2>1 DEF StopTcp, ListenerStopped, ServeReturns, CancelAndGather, TypeInv
  <2> QED BY <1>0, <1>1, <2>2 DEF TypeInv, ConnsOK, registryVars
<1>3. CountInv'
  BY <1>0, CountsRest DEF registryVars
<1>4. RegInv'
  <2>1. CASE Reliable
    BY <1>0, <1>1, <2>1 DEF RegInv, registryVars
  <2>2. CASE ~Reliable
    BY <1>0, <1>1, <2>2 DEF RegInv, registryVars
  <2> QED BY <2>1, <2>2
<1>5. BoundInv'
  BY <1>0, <1>1 DEF BoundInv, Total, OccupiedBy, Occupied, registryVars
<1>6. PhaseInv'
  <2>1. CASE StopTcp
    BY <1>0, <1>1, <2>1 DEF StopTcp, PhaseInv
  <2>2. CASE ListenerStopped
    <3>1. /\ phase = "stopping" /\ phase' = "cancelling" /\ gathered' = ConnTasks
          /\ \A c \in gathered : Ended(c)
          /\ Reliable /\ config.py312 => attached = {}
      BY <2>2 DEF ListenerStopped, CancelAndGather
    <3>2. ~Reliable => \A c \in Ids : Ended(c)
      BY <3>1 DEF PhaseInv
    <3>3. Reliable /\ config.py312 =>
             \A c \in Ids : conns[c].pc \in Gone \/ c \in ConnTasks
      <4>1. \A c \in Ids : conns[c].pc \in Pcs
        BY ConnFacts DEF TypeInv, ConnRecords
      <4> QED BY <3>1, <4>1 DEF AttachInv, Pcs, Early, ConnTasks
    <3> QED BY <1>0, <1>1, <3>1, <3>2, <3>3 DEF PhaseInv, Ended
  <2>3. CASE ServeReturns
    BY <1>0, <1>1, <2>3 DEF ServeReturns, PhaseInv, Ended, Gone
  <2> QED BY <2>1, <2>2, <2>3
<1>7. AttachInv'
  BY <1>0, <1>1 DEF AttachInv
<1> QED BY <1>2, <1>3, <1>4, <1>5, <1>6, <1>7

(* Time passing, and stuttering, change nothing that the invariant is about. *)
LEMMA SameKeeps ==
    ASSUME Inv, config' = config, UNCHANGED <<conns, attached, registryVars, serveVars>>
    PROVE  Inv'
<1> USE DEF Inv, registryVars, serveVars
<1>0. /\ Reliable' = Reliable /\ MaxConnections' = MaxConnections /\ MaxPerIp' = MaxPerIp
      /\ Ids' = Ids /\ \A c : Ended(c)' = Ended(c)
  BY ConfigStays DEF Ids, Ended
<1>1. TypeInv'
  BY <1>0 DEF TypeInv, ConnsOK
<1>2. CountInv'
  BY CountsRest
<1>3. RegInv'
  BY <1>0 DEF RegInv
<1>4. BoundInv'
  BY <1>0 DEF BoundInv, Total, OccupiedBy, Occupied
<1>5. PhaseInv'
  BY <1>0 DEF PhaseInv
<1>6. AttachInv'
  BY <1>0 DEF AttachInv
<1> QED BY <1>1, <1>2, <1>3, <1>4, <1>5, <1>6

LEMMA InitInv ==
    ASSUME Init
    PROVE  Inv
<1>1. Ids = {} /\ conns = << >> /\ Len(conns) = 0
  BY DEF Init, Ids
<1>2. config \in Configs /\ MaxConnections \in Nat /\ MaxPerIp \in Nat /\ MaxInProgress \in Nat
      /\ MaxConns \in Nat
  BY ConfigFacts, ServerAssumption DEF Init
<1>3. TypeInv
  BY <1>1, <1>2 DEF Init, TypeInv, ConnsOK, None
<1>4. \A ip, X : ConnsOf(ip, X) = {}
  BY <1>1 DEF ConnsOf
<1>5. CountInv
  <2>1. \A ip, X : Cardinality(ConnsOf(ip, X)) = 0
    BY <1>4, FS_EmptySet
  <2>2. \A ip \in Ips : tcp_connections[ip] = 0 /\ udp_in_progress_handshakes[ip] = 0
    BY DEF Init
  <2>3. CountsExact
    BY <2>1, <2>2 DEF CountsExact
  <2> QED BY <1>2, <2>2, <2>3 DEF CountInv
<1>6. RegInv
  BY <1>1 DEF RegInv, Init
<1>7. BoundInv
  <2>1. Occupied(udp_sessions) = {} /\ \A ip : OccupiedBy(ip) = {}
    BY DEF Occupied, OccupiedBy, Init
  <2>2. Total(Counted) = 0
    BY <1>1, FS_EmptySet DEF Total
  <2> QED BY <1>2, <2>1, <2>2, FS_EmptySet DEF BoundInv
<1>8. PhaseInv
  BY DEF PhaseInv, Init
<1>9. AttachInv
  BY <1>1 DEF AttachInv
<1> QED BY <1>3, <1>5, <1>6, <1>7, <1>8, <1>9 DEF Inv

LEMMA StepInv ==
    ASSUME Inv, [Next]_vars
    PROVE  Inv'
<1>1. CASE Next
  <2>0. config' = config
    BY <1>1 DEF Next
  <2>1. CASE Limiter!Tick /\ UNCHANGED <<conns, attached, registryVars, serveVars>>
    BY <2>0, <2>1, SameKeeps
  <2>2. CASE Arrival /\ UNCHANGED serveVars
    BY <2>0, <2>2, ArrivalKeeps DEF Arrival
  <2>3. ASSUME NEW c \in Ids, TaskStep(c), UNCHANGED serveVars PROVE Inv'
    BY <2>0, <2>3, TaskStepEffect, TaskStepDetaches, EffectKeeps DEF ServeStays, serveVars
  <2>4. ASSUME NEW c \in Ids, Cancelled(c) PROVE Inv'
    <3>1. UNCHANGED <<attached, phase, gathered>> /\ cancelled' \subseteq cancelled
      BY <2>4 DEF Cancelled, CancelledUnstarted, CancelledHandshake, CancelledSession,
                  CancelSwallowed, EndsBeforeSession
    <3> QED BY <2>0, <2>4, <3>1, CancelledEffect, EffectKeeps DEF ServeStays, Detaches
  <2>5. CASE StopTcp \/ ListenerStopped \/ ServeReturns
    BY <2>0, <2>5, ServeKeeps
  <2>6. CASE StopUdp
    BY <2>0, <2>6, StopUdpKeeps
  <2> QED BY <1>1, <2>1, <2>2, <2>3, <2>4, <2>5, <2>6 DEF Next
<1>2. CASE UNCHANGED vars
  BY <1>2, SameKeeps DEF vars
<1> QED BY <1>1, <1>2

(* The invariant on which everything below rests. *)
THEOREM ServerInvariant == Spec => []Inv
<1>1. Init => Inv
  BY InitInv
<1>2. Inv /\ [Next]_vars => Inv'
  BY StepInv
<1> QED BY <1>1, <1>2, PTL DEF Spec

-----------------------------------------------------------------------------
(* What the server promises. *)

(* Types, and the limits of the counts: tcp_connections of an address is   *)
(* never negative nor beyond max_connections_per_ip, the UDP handshakes in *)
(* progress never beyond MAX_UDP_HANDSHAKES_PER_IP.                        *)
THEOREM ServerTypeCorrect == Spec => []TypeOK
<1>1. Inv => TypeOK
  <2> SUFFICES ASSUME Inv PROVE TypeOK
    OBVIOUS
  <2>1. MaxPerIp \in Nat /\ MaxInProgress \in Nat
    BY ConfigFacts DEF Inv, TypeInv
  <2>2. \A ip \in Ips : tcp_connections[ip] \in 0 .. MaxPerIp
                        /\ udp_in_progress_handshakes[ip] \in 0 .. MaxInProgress
    <3> TAKE ip \in Ips
    <3>1. \A X : Cardinality(ConnsOf(ip, X)) \in Nat
      BY ConnsOfFinite DEF Inv, TypeInv
    <3>2. tcp_connections[ip] \in Nat /\ udp_in_progress_handshakes[ip] \in Nat
      BY <3>1 DEF Inv, CountInv, CountsExact
    <3> QED BY <2>1, <3>2 DEF Inv, CountInv
  <2>3. /\ tcp_connections \in [Ips -> 0 .. MaxPerIp]
        /\ udp_in_progress_handshakes \in [Ips -> 0 .. MaxInProgress]
    BY <2>2 DEF Inv, TypeInv
  <2> QED BY <2>3 DEF TypeOK, Inv, TypeInv, ConnsOK, ConnRecords, Pcs, Early, Gone
<1> QED BY <1>1, ServerInvariant, PTL

(* The counters of _on_transport_connect and of the UDP listener count the *)
(* connections that are there, on every path by which one may end.         *)
THEOREM CountsAreExact == Spec => []CountsExact
<1>1. Inv => CountsExact
  BY DEF Inv, CountInv
<1> QED BY <1>1, ServerInvariant, PTL

(* In the UDP listener's registries a stream is where its connection's     *)
(* state puts it, and no other is, however connections of one address      *)
(* overlap.                                                                *)
THEOREM RegistriesAreExact == Spec => []RegistryExact
<1>1. Inv => RegistryExact
  BY DEF Inv, RegInv, RegistryExact, Early
<1> QED BY <1>1, ServerInvariant, PTL

(* At most max_connections open sessions, and max_connections_per_ip of an *)
(* address.  Over UDP an open session is registered at its address, and    *)
(* no two at one.                                                          *)
THEOREM SessionsAreBounded == Spec => []SessionsBounded
<1>1. Inv => SessionsBounded
  <2> SUFFICES ASSUME Inv PROVE SessionsBounded
    OBVIOUS
  <2> USE DEF Inv
  <2> DEFINE Open == { c \in Ids : conns[c].pc = "session" /\ conns[c].open }
             OpenOf(ip) == { c \in Open : Ip(c) = ip }
  <2>0. MaxConnections \in Nat /\ MaxPerIp \in Nat
    BY ConfigFacts DEF TypeInv
  <2>1. CASE Reliable
    <3> DEFINE All == { c \in Ids : conns[c].pc \in Counted }
    <3>1. IsFiniteSet(All) /\ Open \subseteq All
      BY ConnFacts, FS_Subset DEF TypeInv, Counted
    <3>2. Cardinality(All) <= MaxConnections
      BY <2>1 DEF BoundInv, Total
    <3>3. Cardinality(Open) <= MaxConnections
      <4> HIDE DEF Open, All
      <4>1. Cardinality(Open) <= Cardinality(All) /\ Cardinality(Open) \in Nat /\ Cardinality(All) \in Nat
        BY <3>1, FS_Subset, FS_CardinalityType
      <4> QED BY <2>0, <3>2, <4>1
    <3>4. ASSUME NEW ip \in Ips PROVE Cardinality(OpenOf(ip)) <= MaxPerIp
      <4> DEFINE S == ConnsOf(ip, Counted)
      <4>1. IsFiniteSet(S) /\ OpenOf(ip) \subseteq S
        BY ConnsOfFinite DEF TypeInv, ConnsOf, Counted
      <4>2. Cardinality(S) <= MaxPerIp
        <5>1. tcp_connections[ip] <= MaxPerIp
          BY DEF CountInv
        <5>2. tcp_connections[ip] = Cardinality(S)
          BY <2>1 DEF CountInv, CountsExact, Counted
        <5> QED BY <5>1, <5>2
      <4> HIDE DEF OpenOf, S
      <4>3. /\ Cardinality(OpenOf(ip)) <= Cardinality(S)
            /\ Cardinality(OpenOf(ip)) \in Nat /\ Cardinality(S) \in Nat
        BY <4>1, FS_Subset, FS_CardinalityType
      <4> QED BY <2>0, <4>2, <4>3
    <3> QED BY <3>3, <3>4 DEF SessionsBounded
  <2>2. CASE ~Reliable
    <3>0. \A c \in Open : /\ conns[c].addr \in Addrs /\ udp_sessions[conns[c].addr] = c
                          /\ c # None
      BY <2>2, RegistryFacts DEF RegInv
    <3>1. ASSUME NEW S, NEW T, IsFiniteSet(T), S \subseteq Open,
                 \A c \in S : conns[c].addr \in T
          PROVE  Cardinality(S) <= Cardinality(T) /\ Cardinality(S) \in Nat /\ Cardinality(T) \in Nat
      <4> DEFINE f == [c \in S |-> conns[c].addr]
      <4>1. f \in Injection(S, T)
        <5>1. f \in [S -> T]
          BY <3>1
        <5>2. \A c, d \in S : f[c] = f[d] => c = d
          BY <3>0, <3>1
        <5> QED BY <5>1, <5>2 DEF Injection, IsInjective
      <4>2. IsFiniteSet(S) /\ Cardinality(S) <= Cardinality(T)
        BY <3>1, <4>1, FS_Injection DEF ExistsInjection
      <4> QED BY <3>1, <4>2, FS_CardinalityType
    <3>2. Cardinality(Open) <= MaxConnections
      <4>1. IsFiniteSet(Occupied(udp_sessions)) /\ \A c \in Open : conns[c].addr \in Occupied(udp_sessions)
        BY <3>0, OccupiedFinite DEF Occupied
      <4>2. Cardinality(Occupied(udp_sessions)) <= MaxConnections
        BY <2>2 DEF BoundInv
      <4> HIDE DEF Open
      <4>3. /\ Cardinality(Open) <= Cardinality(Occupied(udp_sessions))
            /\ Cardinality(Open) \in Nat /\ Cardinality(Occupied(udp_sessions)) \in Nat
        BY <3>1, <4>1
      <4> QED BY <2>0, <4>2, <4>3
    <3>3. ASSUME NEW ip \in Ips PROVE Cardinality(OpenOf(ip)) <= MaxPerIp
      <4>1. IsFiniteSet(OccupiedBy(ip)) /\ \A c \in OpenOf(ip) : conns[c].addr \in OccupiedBy(ip)
        <5>1. IsFiniteSet(OccupiedBy(ip))
          BY OccupiedFinite DEF OccupiedBy
        <5> QED BY <3>0, <5>1 DEF Occupied, OccupiedBy, Ip
      <4>2. Cardinality(OccupiedBy(ip)) <= MaxPerIp /\ OpenOf(ip) \subseteq Open
        BY <2>2 DEF BoundInv
      <4> HIDE DEF Open, OpenOf
      <4>3. /\ Cardinality(OpenOf(ip)) <= Cardinality(OccupiedBy(ip))
            /\ Cardinality(OpenOf(ip)) \in Nat /\ Cardinality(OccupiedBy(ip)) \in Nat
        BY <3>1, <4>1, <4>2
      <4> QED BY <2>0, <4>2, <4>3
    <3> QED BY <3>2, <3>3 DEF SessionsBounded
  <2> QED BY <2>1, <2>2
<1> QED BY <1>1, ServerInvariant, PTL

(* When serve() has returned nothing runs on behind it: over UDP, and over *)
(* TCP from Python 3.12 on, wherever the cancellations found the tasks.    *)
THEOREM ShutdownIsComplete == Spec => []NothingOutlivesServe
<1>1. Inv => NothingOutlivesServe
  <2> SUFFICES ASSUME Inv PROVE NothingOutlivesServe
    OBVIOUS
  <2> USE DEF Inv
  <2> SUFFICES ASSUME phase = "stopped", Reliable => config.py312
               PROVE  /\ \A c \in Ids : conns[c].pc \in {"closing", "flushing", "done", "dropped"}
                      /\ Occupied(udp_sessions) = {} /\ Occupied(udp_handshakes) = {}
    BY DEF NothingOutlivesServe
  <2>1. \A c \in Ids : conns[c].pc \in {"closing", "flushing", "done", "dropped"}
    BY DEF PhaseInv, Ended, Gone
  <2>2. \A a \in Addrs : udp_sessions[a] = None /\ udp_handshakes[a] = None
    BY <2>1, RegistryFacts DEF RegInv
  <2> QED BY <2>1, <2>2 DEF Occupied
<1> QED BY <1>1, ServerInvariant, PTL

-----------------------------------------------------------------------------
(* The server uses the limiter as it is specified on its own. *)

Waiting == [ip \in Ips |-> Cardinality(ConnsOf(ip, {"queued"}))]

Running == [ip \in Ips |-> Cardinality(ConnsOf(ip, {"handshake"}))]

LEMMA CountUpDown ==
    ASSUME NEW f \in [Ips -> Nat], NEW ip \in Ips, NEW d
    PROVE  /\ d = -1 => [f EXCEPT ![ip] = @ + d] = [f EXCEPT ![ip] = @ - 1]
           /\ d = 0 => [f EXCEPT ![ip] = @ + d] = f
<1>1. ASSUME d = -1 PROVE [f EXCEPT ![ip] = @ + d] = [f EXCEPT ![ip] = @ - 1]
  <2>1. f[ip] + d = f[ip] - 1
    BY <1>1
  <2> QED BY <2>1, Zenon
<1>2. ASSUME d = 0 PROVE [f EXCEPT ![ip] = @ + d] = f
  <2>1. f[ip] + d = f[ip]
    BY <1>2
  <2> QED BY <2>1
<1> QED BY <1>1, <1>2

(* The limiter's view of a connection that moves. *)
LEMMA LimiterMoves ==
    ASSUME TypeInv, NEW c \in Ids, NEW pc, Moved(c, pc)
    PROVE  /\ Waiting \in [Ips -> Nat] /\ Running \in [Ips -> Nat] /\ Ip(c) \in Ips
           /\ Waiting' = [Waiting EXCEPT ![Ip(c)] = @ + Delta(conns[c].pc, pc, {"queued"})]
           /\ Running' = [Running EXCEPT ![Ip(c)] = @ + Delta(conns[c].pc, pc, {"handshake"})]
           /\ conns[c].pc = "queued" => Waiting[Ip(c)] > 0
           /\ conns[c].pc = "handshake" => Running[Ip(c)] > 0
<1>1. Ip(c) \in Ips /\ \A ip, X : Cardinality(ConnsOf(ip, X)) \in Nat
  BY ConnFacts, ConnsOfFinite DEF TypeInv
<1>2. \A ip, X : Cardinality(ConnsOf(ip, X))' =
                    Cardinality(ConnsOf(ip, X)) + IF ip = Ip(c) THEN Delta(conns[c].pc, pc, X) ELSE 0
  BY CountMoves DEF TypeInv
<1>3. \A X : Delta(conns[c].pc, pc, X) \in Int
  BY DEF Delta
<1>4. Waiting \in [Ips -> Nat] /\ Running \in [Ips -> Nat]
  BY <1>1 DEF Waiting, Running
<1>5. Waiting' = [Waiting EXCEPT ![Ip(c)] = @ + Delta(conns[c].pc, pc, {"queued"})]
  <2> DEFINE n(ip) == Cardinality(ConnsOf(ip, {"queued"}))
             d == Delta(conns[c].pc, pc, {"queued"})
  <2>1. Waiting' = [ip \in Ips |-> n(ip)'] /\ Waiting = [ip \in Ips |-> n(ip)]
    BY DEF Waiting
  <2>2. \A ip \in Ips : n(ip)' = n(ip) + (IF ip = Ip(c) THEN d ELSE 0) /\ n(ip) \in Nat
    BY <1>1, <1>2
  <2>3. d \in Int
    BY <1>3
  <2> HIDE DEF n, d
  <2>4. \A ip \in Ips : n(ip)' = IF ip = Ip(c) THEN n(ip) + d ELSE n(ip)
    BY <2>2, <2>3
  <2>5. Waiting' = [Waiting EXCEPT ![Ip(c)] = @ + d]
    BY <1>1, <2>1, <2>4
  <2> QED BY <2>5 DEF d
<1>6. Running' = [Running EXCEPT ![Ip(c)] = @ + Delta(conns[c].pc, pc, {"handshake"})]
  <2> DEFINE n(ip) == Cardinality(ConnsOf(ip, {"handshake"}))
             d == Delta(conns[c].pc, pc, {"handshake"})
  <2>1. Running' = [ip \in Ips |-> n(ip)'] /\ Running = [ip \in Ips |-> n(ip)]
    BY DEF Running
  <2>2. \A ip \in Ips : n(ip)' = n(ip) + (IF ip = Ip(c) THEN d ELSE 0) /\ n(ip) \in Nat
    BY <1>1, <1>2
  <2>3. d \in Int
    BY <1>3
  <2> HIDE DEF n, d
  <2>4. \A ip \in Ips : n(ip)' = IF ip = Ip(c) THEN n(ip) + d ELSE n(ip)
    BY <2>2, <2>3
  <2>5. Running' = [Running EXCEPT ![Ip(c)] = @ + d]
    BY <1>1, <2>1, <2>4
  <2> QED BY <2>5 DEF d
<1>7. ASSUME NEW X, conns[c].pc \in X PROVE Cardinality(ConnsOf(Ip(c), X)) > 0
  <2>1. c \in ConnsOf(Ip(c), X)
    BY <1>7 DEF ConnsOf
  <2>2. Cardinality(ConnsOf(Ip(c), X)) # 0
    BY <2>1, ConnsOfFinite, FS_EmptySet DEF TypeInv
  <2> QED BY <1>1, <2>2
<1>8. (conns[c].pc = "queued" => Waiting[Ip(c)] > 0) /\ (conns[c].pc = "handshake" => Running[Ip(c)] > 0)
  BY <1>1, <1>7 DEF Waiting, Running
<1> QED BY <1>1, <1>4, <1>5, <1>6, <1>8

(* A step that takes no connection into or out of a handshake, and leaves  *)
(* the table alone, is a stutter of the limiter's.                         *)
LEMMA LimiterStutters ==
    ASSUME Waiting' = Waiting, Running' = Running, UNCHANGED limiterVars
    PROVE  UNCHANGED Limiter!vars
BY DEF Limiter!vars, Waiting, Running, limiterVars

LEMMA LimiterIdles ==
    ASSUME TypeInv, NEW c \in Ids, NEW pc, Moved(c, pc), UNCHANGED limiterVars,
           conns[c].pc \notin {"queued", "handshake"}, pc \notin {"queued", "handshake"}
    PROVE  UNCHANGED Limiter!vars
<1>1. Delta(conns[c].pc, pc, {"queued"}) = 0 /\ Delta(conns[c].pc, pc, {"handshake"}) = 0
  BY DEF Delta
<1>2. Waiting' = Waiting /\ Running' = Running
  BY <1>1, LimiterMoves
<1> QED BY <1>2, LimiterStutters

LEMMA LimiterStill ==
    ASSUME TypeInv, Len(conns') = Len(conns),
           \A i \in Ids : conns'[i].addr = conns[i].addr /\ conns'[i].pc = conns[i].pc
    PROVE  Waiting' = Waiting /\ Running' = Running
<1>1. \A ip, X : ConnsOf(ip, X)' = ConnsOf(ip, X)
  BY CountStays DEF TypeInv
<1> QED BY <1>1 DEF Waiting, Running

(* One connection more may wait: those that do are fewer than all. *)
LEMMA RoomToWait ==
    ASSUME TypeInv, NEW c \in Ids, conns[c].pc = "new"
    PROVE  Waiting[Ip(c)] + Running[Ip(c)] < MaxConns
<1> DEFINE ip == Ip(c)
           A == ConnsOf(ip, {"queued"})
           B == ConnsOf(ip, {"handshake"})
           U == Ids \ {c}
<1>1. ip \in Ips /\ Len(conns) \in Nat /\ Len(conns) <= MaxConns /\ IsFiniteSet(Ids)
  BY ConnFacts DEF TypeInv, ConnsOK
<1>2. IsFiniteSet(A) /\ IsFiniteSet(B) /\ Cardinality(A) \in Nat /\ Cardinality(B) \in Nat
  BY ConnsOfFinite DEF TypeInv
<1>3. A \cap B = {} /\ A \cup B \subseteq U
  BY DEF ConnsOf
<1>4. Cardinality(Ids) = Len(conns)
  <2>1. Cardinality(1 .. Len(conns)) = IF 1 > Len(conns) THEN 0 ELSE Len(conns) - 1 + 1
    BY <1>1, FS_Interval
  <2> QED BY <1>1, <2>1 DEF Ids
<1>5. IsFiniteSet(U) /\ Cardinality(U) = Len(conns) - 1
  BY <1>1, <1>4, FS_RemoveElement
<1>6. Waiting[ip] = Cardinality(A) /\ Running[ip] = Cardinality(B)
  BY <1>1 DEF Waiting, Running
<1> HIDE DEF A, B, U, ip
<1>7. Cardinality(A \cup B) = Cardinality(A) + Cardinality(B)
  <2>1. Cardinality(A \cup B) = Cardinality(A) + Cardinality(B) - Cardinality(A \cap B)
    BY <1>2, FS_Union
  <2>2. Cardinality(A \cap B) = 0
    BY <1>3, FS_EmptySet
  <2> QED BY <1>2, <2>1, <2>2
<1>8. Cardinality(A \cup B) <= Cardinality(U)
  BY <1>3, <1>5, FS_Subset
<1>9. Waiting[ip] + Running[ip] < MaxConns
  BY <1>1, <1>2, <1>5, <1>6, <1>7, <1>8, ServerAssumption
<1> QED BY <1>9 DEF ip

(* The end of a wait, and of a handshake. *)
LEMMA LimiterWaited ==
    ASSUME TypeInv, NEW c \in Ids, NEW pc, Moved(c, pc), conns[c].pc = "queued", pc # "queued"
    PROVE  /\ Limiter!Waited(Ip(c))
           /\ Running' = IF pc = "handshake" THEN [Running EXCEPT ![Ip(c)] = @ + 1] ELSE Running
<1>1. /\ Delta(conns[c].pc, pc, {"queued"}) = -1
      /\ Delta(conns[c].pc, pc, {"handshake"}) = IF pc = "handshake" THEN 1 ELSE 0
  BY DEF Delta
<1>2. Waiting' = [Waiting EXCEPT ![Ip(c)] = @ - 1]
  BY <1>1, LimiterMoves, CountUpDown
<1>3. Running' = IF pc = "handshake" THEN [Running EXCEPT ![Ip(c)] = @ + 1] ELSE Running
  BY <1>1, LimiterMoves, CountUpDown
<1>4. Waiting[Ip(c)] > 0
  BY LimiterMoves
<1> QED BY <1>2, <1>3, <1>4 DEF Limiter!Waited, Waiting

LEMMA LimiterRan ==
    ASSUME TypeInv, NEW c \in Ids, NEW pc, Moved(c, pc), conns[c].pc = "handshake",
           pc \notin {"queued", "handshake"}
    PROVE  Limiter!Ran(Ip(c))
<1>1. Delta(conns[c].pc, pc, {"queued"}) = 0 /\ Delta(conns[c].pc, pc, {"handshake"}) = -1
  BY DEF Delta
<1>2. Running' = [Running EXCEPT ![Ip(c)] = @ - 1] /\ Waiting' = Waiting
  BY <1>1, LimiterMoves, CountUpDown
<1>3. Running[Ip(c)] > 0
  BY LimiterMoves
<1> QED BY <1>2, <1>3 DEF Limiter!Ran, Running, Waiting

(* How each of a task's steps looks to the limiter. *)
LEMMA LimiterTaskStep ==
    ASSUME Inv, ~HandlerTimeouts, NEW c \in Ids, TaskStep(c)
    PROVE  [Limiter!Next]_(Limiter!vars)
<1> USE DEF Inv
<1>0. Ip(c) \in Ips
  BY ConnFacts DEF TypeInv
<1>1. CASE Start(c)
  <2>0. conns[c].pc = "new" /\ UNCHANGED limiterVars
    BY <1>1 DEF Start, At
  <2>1. CASE Proceeds(c, "queued")
    <3>1. Moved(c, "queued")
      BY <2>1, UpdatedMoves DEF Proceeds
    <3>2. /\ Delta(conns[c].pc, "queued", {"queued"}) = 1
          /\ Delta(conns[c].pc, "queued", {"handshake"}) = 0
      BY <2>0 DEF Delta
    <3>3. Waiting' = [Waiting EXCEPT ![Ip(c)] = @ + 1] /\ Running' = Running
      BY <3>1, <3>2, LimiterMoves
    <3>4. Waiting[Ip(c)] + Running[Ip(c)] < MaxConns
      BY <2>0, RoomToWait
    <3>5. Limiter!Arrive(Ip(c))
      BY <2>0, <3>3, <3>4 DEF Limiter!Arrive, Waiting, Running, Limiter!limiterVars, limiterVars
    <3> QED BY <1>0, <3>5 DEF Limiter!Next
  <2>2. CASE Leaves(c, "done", FALSE)
    BY <2>0, <2>2, UpdatedMoves, LimiterIdles DEF Leaves
  <2> QED BY <1>1, <2>1, <2>2, StartEffect
<1>2. CASE Begin(c)
  <2>1. Moved(c, "handshake") /\ conns[c].pc = "queued" /\ ~Limiter!LockedOut(Ip(c)) /\ UNCHANGED limiterVars
    BY <1>2, GotoUpdates, UpdatedMoves DEF Begin, HandshakeAt, TypeInv, Pcs, Early
  <2>2. Limiter!Waited(Ip(c)) /\ Running' = [Running EXCEPT ![Ip(c)] = @ + 1]
    BY <2>1, LimiterWaited
  <2>3. Limiter!Begin(Ip(c))
    BY <2>1, <2>2 DEF Limiter!Begin, Running, Limiter!limiterVars, limiterVars
  <2> QED BY <1>0, <2>3 DEF Limiter!Next
<1> USE ClosedFacts
<1> HIDE DEF Closed
<1>3. ASSUME EndsBeforeSession(c) PROVE Moved(c, Closed)
  BY <1>3, CloseAndWaitUpdates, UpdatedMoves DEF EndsBeforeSession, TypeInv
<1>4. CASE Refuse(c)
  <2>1. Moved(c, Closed) /\ conns[c].pc = "queued" /\ Limiter!LockedOut(Ip(c)) /\ UNCHANGED limiterVars
    BY <1>3, <1>4 DEF Refuse, HandshakeAt
  <2>2. Limiter!Waited(Ip(c)) /\ Running' = Running
    BY <2>1, LimiterWaited
  <2>3. Limiter!Refuse(Ip(c))
    BY <2>1, <2>2 DEF Limiter!Refuse, Running, Limiter!limiterVars, limiterVars
  <2> QED BY <1>0, <2>3 DEF Limiter!Next
<1>5. CASE HandshakeFails(c)
  <2>1. Moved(c, Closed) /\ conns[c].pc = "handshake" /\ Limiter!RecordFailedHandshake(Ip(c))
    BY <1>3, <1>5 DEF HandshakeFails, HandshakeAt
  <2>2. Limiter!Fail(Ip(c))
    BY <2>1, LimiterRan DEF Limiter!Fail
  <2> QED BY <1>0, <2>2 DEF Limiter!Next
<1>6. CASE HandshakeLost(c)
  <2>1. Moved(c, Closed) /\ conns[c].pc = "handshake" /\ UNCHANGED limiterVars
    BY <1>3, <1>6 DEF HandshakeLost, HandshakeAt
  <2>2. Limiter!Lose(Ip(c))
    BY <2>1, LimiterRan DEF Limiter!Lose, Limiter!limiterVars, limiterVars
  <2> QED BY <1>0, <2>2 DEF Limiter!Next
<1>7. CASE HandshakeTimesOut(c)
  <2>1. /\ Moved(c, Closed) /\ conns[c].pc \in {"queued", "handshake"}
        /\ Limiter!RecordFailedHandshake(Ip(c))
    BY <1>3, <1>7 DEF HandshakeTimesOut, At
  <2>2. CASE conns[c].pc = "queued"
    <3>1. Limiter!Waited(Ip(c)) /\ Running' = Running
      BY <2>1, <2>2, LimiterWaited
    <3>2. Limiter!Expire(Ip(c))
      BY <2>1, <3>1 DEF Limiter!Expire, Running
    <3> QED BY <1>0, <3>2 DEF Limiter!Next
  <2>3. CASE conns[c].pc = "handshake"
    <3>1. Limiter!Fail(Ip(c))
      BY <2>1, <2>3, LimiterRan DEF Limiter!Fail
    <3> QED BY <1>0, <3>1 DEF Limiter!Next
  <2> QED BY <2>1, <2>2, <2>3
<1>8. CASE Agree(c)
  <2>1. Moved(c, "agreed") /\ conns[c].pc = "handshake" /\ Limiter!ForgetFailures(Ip(c))
    BY <1>8, GotoUpdates, UpdatedMoves DEF Agree, HandshakeAt, TypeInv, Pcs, Early
  <2>2. Limiter!Succeed(Ip(c))
    BY <2>1, LimiterRan DEF Limiter!Succeed
  <2> QED BY <1>0, <2>2 DEF Limiter!Next
<1>9. ASSUME WaitForReturns(c), NEW pc, Moved(c, pc), pc \in {"session", "flushing", "done"}
      PROVE  [Limiter!Next]_(Limiter!vars)
  <2>1. CASE conns[c].pc = "agreed" /\ UNCHANGED limiterVars
    BY <1>9, <2>1, LimiterIdles
  <2>2. CASE conns[c].pc = "handshake" /\ Limiter!ForgetFailures(Ip(c))
    <3>1. Limiter!Succeed(Ip(c))
      BY <1>9, <2>2, LimiterRan DEF Limiter!Succeed
    <3> QED BY <1>0, <3>1 DEF Limiter!Next
  <2> QED BY <1>9, <2>1, <2>2 DEF WaitForReturns, At
<1>10. CASE EstablishTcp(c)
  BY <1>9, <1>10, GotoUpdates, UpdatedMoves DEF EstablishTcp, TypeInv, Pcs
<1>11. CASE EstablishUdp(c)
  BY <1>9, <1>11, EstablishUdpEffect DEF EstablishUdp, Promotes
<1>12. CASE TurnAwayUdp(c)
  BY <1>9, <1>12, CloseAndWaitUpdates, UpdatedMoves DEF TurnAwayUdp, TypeInv
<1>13. CASE HandlerEnds(c)
  <2>1. Moved(c, "closing") /\ conns[c].pc = "session" /\ UNCHANGED limiterVars
    BY <1>13, GotoUpdates, UpdatedMoves DEF HandlerEnds, At, TypeInv, Pcs, Gone
  <2> QED BY <2>1, LimiterIdles
<1>14. CASE Watchdog(c)
  BY <1>14, WatchdogRests, LimiterStill, LimiterStutters DEF Rests, Watchdog
<1>15. CASE Close(c)
  <2>1. Moved(c, Closed) /\ conns[c].pc = "closing" /\ UNCHANGED limiterVars
    BY <1>15, CloseAndWaitUpdates, UpdatedMoves DEF Close, At, TypeInv
  <2> QED BY <2>1, LimiterIdles
<1>16. CASE ConnectionLost(c)
  BY <1>16, LimiterStill, LimiterStutters DEF ConnectionLost
<1>17. CASE Flushed(c)
  <2>1. Moved(c, "done") /\ conns[c].pc = "flushing" /\ UNCHANGED limiterVars
    BY <1>17, GotoUpdates, UpdatedMoves DEF Flushed, TypeInv, Pcs, Gone
  <2> QED BY <2>1, LimiterIdles
<1> QED BY <1>1, <1>2, <1>4, <1>5, <1>6, <1>7, <1>8, <1>10, <1>11, <1>12, <1>13, <1>14, <1>15,
           <1>16, <1>17 DEF TaskStep

LEMMA LimiterCancelled ==
    ASSUME Inv, NEW c \in Ids, Cancelled(c)
    PROVE  [Limiter!Next]_(Limiter!vars)
<1> USE DEF Inv
<1>0. Ip(c) \in Ips /\ UNCHANGED limiterVars
  BY ConnFacts DEF TypeInv, Cancelled
<1>1. CASE CancelledUnstarted(c)
  <2>1. Moved(c, "dropped") /\ conns[c].pc = "new"
    BY <1>1, GotoUpdates, UpdatedMoves DEF CancelledUnstarted, TypeInv, Pcs, Gone
  <2> QED BY <1>0, <2>1, LimiterIdles
<1>2. CASE CancelledHandshake(c)
  <2> USE ClosedFacts
  <2> HIDE DEF Closed
  <2>1. Moved(c, Closed) /\ conns[c].pc \in {"queued", "handshake"}
    BY <1>2, CloseAndWaitUpdates, UpdatedMoves DEF CancelledHandshake, EndsBeforeSession, TypeInv
  <2>2. CASE conns[c].pc = "queued"
    <3>1. Limiter!Waited(Ip(c)) /\ Running' = Running
      BY <2>1, <2>2, LimiterWaited
    <3>2. Limiter!Withdraw(Ip(c))
      BY <1>0, <3>1 DEF Limiter!Withdraw, Running, Limiter!limiterVars, limiterVars
    <3> QED BY <1>0, <3>2 DEF Limiter!Next
  <2>3. CASE conns[c].pc = "handshake"
    <3>1. Limiter!Lose(Ip(c))
      BY <1>0, <2>1, <2>3, LimiterRan DEF Limiter!Lose, Limiter!limiterVars, limiterVars
    <3> QED BY <1>0, <3>1 DEF Limiter!Next
  <2> QED BY <2>1, <2>2, <2>3
<1>3. CASE CancelledSession(c)
  <2>1. Moved(c, "closing") /\ conns[c].pc = "session"
    BY <1>3, GotoUpdates, UpdatedMoves DEF CancelledSession, TypeInv, Pcs, Gone
  <2> QED BY <1>0, <2>1, LimiterIdles
<1>4. CASE CancelSwallowed(c)
  BY <1>0, <1>4, LimiterStill, LimiterStutters DEF CancelSwallowed
<1> QED BY <1>1, <1>2, <1>3, <1>4 DEF Cancelled

LEMMA LimiterArrival ==
    ASSUME Inv, NEW a \in Addrs, TcpAccept(a) \/ UdpHello(a)
    PROVE  UNCHANGED Limiter!vars
<1>1. Connection(a) /\ UNCHANGED limiterVars
  BY DEF TcpAccept, UdpHello
<1>2. \A ip, X : "new" \notin X => Cardinality(ConnsOf(ip, X))' = Cardinality(ConnsOf(ip, X))
  <2>1. \A ip, X : Cardinality(ConnsOf(ip, X)) \in Nat
    BY ConnsOfFinite DEF Inv, TypeInv
  <2>2. \A ip, X : Cardinality(ConnsOf(ip, X))' =
                      Cardinality(ConnsOf(ip, X)) + IF ip = a[1] /\ "new" \in X THEN 1 ELSE 0
    BY <1>1, CountArrives DEF Inv, TypeInv, Connection
  <2> QED BY <2>1, <2>2
<1>3. Waiting' = Waiting /\ Running' = Running
  BY <1>2 DEF Waiting, Running
<1> QED BY <1>1, <1>3, LimiterStutters

LEMMA LimiterStep ==
    ASSUME Inv, ~HandlerTimeouts, [Next]_vars
    PROVE  [Limiter!Next]_(Limiter!vars)
<1> USE DEF Inv
<1>1. ASSUME UNCHANGED conns PROVE Waiting' = Waiting /\ Running' = Running
  BY <1>1, LimiterStill
<1>2. CASE Limiter!Tick /\ UNCHANGED <<conns, attached, registryVars, serveVars>>
  <2>1. UNCHANGED <<Waiting, Running>>
    BY <1>1, <1>2
  <2> QED BY <1>2, <2>1 DEF Limiter!Next, Waiting, Running
<1>3. CASE Arrival
  BY <1>3, LimiterArrival DEF Arrival
<1>4. ASSUME NEW c \in Ids, TaskStep(c) PROVE [Limiter!Next]_(Limiter!vars)
  BY <1>4, LimiterTaskStep
<1>5. ASSUME NEW c \in Ids, Cancelled(c) PROVE [Limiter!Next]_(Limiter!vars)
  BY <1>5, LimiterCancelled
<1>6. CASE StopTcp \/ ListenerStopped \/ ServeReturns \/ UNCHANGED vars
  <2>1. UNCHANGED conns /\ UNCHANGED limiterVars
    BY <1>6 DEF StopTcp, ListenerStopped, ServeReturns, vars
  <2> QED BY <1>1, <2>1, LimiterStutters
<1>7. CASE StopUdp
  <2>1. UNCHANGED limiterVars
    BY <1>7 DEF StopUdp
  <2>2. Waiting' = Waiting /\ Running' = Running
    BY <1>7, StopUdpEffect, LimiterStill
  <2> QED BY <2>1, <2>2, LimiterStutters
<1> QED BY <1>2, <1>3, <1>4, <1>5, <1>6, <1>7 DEF Next

(* As long as handlers call recv() without a timeout, the server records   *)
(* a failure only for a handshake, only once, and never for one that has   *)
(* completed: it implements the limiter's own specification, and so has    *)
(* its bounds on lockouts and on the table.                                *)
THEOREM LimiterImplemented ==
    ASSUME ~HandlerTimeouts
    PROVE  Spec => LimiterSpec
<1>1. Init => Limiter!Init
  <2> SUFFICES ASSUME Init PROVE Limiter!Init
    OBVIOUS
  <2>1. \A ip, X : ConnsOf(ip, X) = {}
    BY DEF ConnsOf, Ids, Init
  <2>2. \A ip, X : Cardinality(ConnsOf(ip, X)) = 0
    BY <2>1, FS_EmptySet
  <2> QED BY <2>2 DEF Init, Limiter!Init
<1>2. Inv /\ [Next]_vars => [Limiter!Next]_(Limiter!vars)
  BY LimiterStep
<1> QED BY <1>1, <1>2, ServerInvariant, PTL DEF Spec, LimiterSpec, Limiter!Spec

=============================================================================
