--------------------------- MODULE SessionProofs ---------------------------
(***************************************************************************)
(* Proofs about the sending half of a session, for any set of tasks,       *)
(* messages and salts, any chunk length and any range of sequence numbers. *)
(*                                                                         *)
(* The steps of Next have six effects on the state: a call joins the       *)
(* queue of the lock, a frame is written, a call leaves, a call leaves and *)
(* rotates the keys, recv() rotates the keys, and (with a transport under  *)
(* the session) nothing of the sending half moves.  Each invariant is      *)
(* preserved by each effect, so the proofs about the modules that extend   *)
(* Session only have to show which effect each of their steps has.         *)
(***************************************************************************)
EXTENDS Session, SequenceTheorems, TLAPS

(* What SessionInfo holds, its keys taken from K. *)
Infos(K) ==
    [tx_key : K, rx_key : K, tx_seq : 0 .. MaxSeq, rx_seq : Nat,
     rx_window_bitmap : SUBSET Nat]

TypeInv ==
    /\ \E K : info \in [Peers -> Infos(K)]
    /\ \E F : wire \in [Peers -> Seq(F)]
    /\ send_lock \in [Peers -> Seq(Callers)]
    /\ task \in [Peers -> [Callers -> CallRecords]]
    /\ closed \in [Peers -> BOOLEAN]
    /\ transport_closed \in [Peers -> BOOLEAN]
    /\ salts \in [Peers -> SUBSET Salts]

(* The queue of the lock: no task twice, exactly the tasks that are not    *)
(* idle, and its head is the only one that may have written.               *)
InQueue(p, t) == \E i \in 1 .. Len(send_lock[p]) : send_lock[p][i] = t

QueueInv ==
    \A p \in Peers :
        /\ \A i, j \in 1 .. Len(send_lock[p]) :
              send_lock[p][i] = send_lock[p][j] => i = j
        /\ \A t \in Callers : task[p][t].pc # "idle" <=> InQueue(p, t)
        /\ \A t \in Callers : task[p][t].pc = "drain" => HasLock(p, t)

(* What recv() keeps of its own place may move; keys and tx_seq do not. *)
SameKeys ==
    /\ \E K : info' \in [Peers -> Infos(K)]
    /\ \A q \in Peers : /\ info'[q].tx_key = info[q].tx_key
                        /\ info'[q].rx_key = info[q].rx_key
                        /\ info'[q].tx_seq = info[q].tx_seq

(* The six effects. *)
Joins(p, t, op, data) ==
    /\ Enqueue(p, t, op, data)
    /\ SameKeys
    /\ op \in {"DATA", "PING", "PONG", "REKEY", "BYE"}
    /\ data \in Seq(Bytes \cup Salts)
    /\ IF op = "REKEY"
       THEN /\ data[1] \in Salts \ salts[p]
            /\ salts' = [salts EXCEPT ![p] = @ \cup {data[1]}]
       ELSE UNCHANGED salts
    /\ IF op = "BYE"
       THEN ~closed[p] /\ closed' = [closed EXCEPT ![p] = TRUE]
       ELSE UNCHANGED closed

Writes(p, t, c) ==
    /\ WriteFrame(p, t, c)
    /\ c \in CallRecords
    /\ c.op = task[p][t].op
    /\ c.data = task[p][t].data
    /\ task[p][t].pc = "lock" \/ (task[p][t].pc = "drain" /\ c.op = "DATA")
    /\ \/ task[p][t].pc = "lock" /\ c = task[p][t]
       \/ /\ task[p][t].pc = "drain" /\ MoreFragments(task[p][t])
          /\ c = Advanced(task[p][t])
    /\ HasLock(p, t)

Leaves(p, t) == task[p][t].pc # "idle" /\ Leave(p, t) /\ SameKeys

Stands ==
    /\ UNCHANGED <<send_lock, task, wire, closed, salts>>
    /\ SameKeys
    /\ transport_closed' \in [Peers -> BOOLEAN]
    /\ \A q \in Peers : transport_closed[q] => transport_closed'[q]

Effect(p) ==
    \/ \E t \in Callers : \E op, data : Joins(p, t, op, data)
    \/ \E t \in Callers : \E c : Writes(p, t, c)
    \/ \E t \in Callers : Leaves(p, t)
    \/ \E t \in Callers : RekeyDone(p, t)
    \/ \E s \in Salts : s \notin salts[p] /\ AcceptRekey(p, s)
    \/ Stands

LEMMA UnchangedKeys == TypeInv /\ UNCHANGED info => SameKeys
BY DEF TypeInv, SameKeys

(* What send() was given, if the call is a send(). *)
Submits(p, op, data) ==
    IF op = "DATA"
    THEN \E m \in Msgs : /\ data = Payload(m)
                         /\ MsgLen[m] <= ChunkLen * MaxFrames
                         /\ \A i \in 1 .. Len(sent[p]) : sent[p][i] # m
                         /\ sent' = [sent EXCEPT ![p] = Append(@, m)]
    ELSE UNCHANGED sent

(* A call of the application joins the queue; the salt of a rekey() is new *)
(* to both peers.                                                          *)
LEMMA CallEffect ==
    ASSUME TypeInv, NEW p \in Peers, CallStep(p)
    PROVE  \E t \in Tasks : \E op, data :
              /\ Joins(p, t, op, data)
              /\ UNCHANGED info
              /\ op # "PONG"
              /\ op = "REKEY" => \A q \in Peers : data[1] \notin salts[q]
              /\ Submits(p, op, data)
<1> USE LengthAssumption
<1> DEFINE Goal(t, op, data) ==
              /\ Joins(p, t, op, data)
              /\ UNCHANGED info
              /\ op # "PONG"
              /\ op = "REKEY" => \A q \in Peers : data[1] \notin salts[q]
              /\ Submits(p, op, data)
<1>0. UNCHANGED info => SameKeys
  BY UnchangedKeys
<1>1. ASSUME NEW t \in Tasks, NEW m \in Msgs, Send(p, t, m) PROVE Goal(t, "DATA", Payload(m))
  <2>1. \A i \in 1 .. MsgLen[m] : <<m, i>> \in Bytes
    BY DEF Bytes
  <2>2. MsgLen[m] \in Nat
    OBVIOUS
  <2>3. Payload(m) \in [1 .. MsgLen[m] -> Bytes \cup Salts]
    BY <2>1 DEF Payload
  <2>4. Payload(m) \in Seq(Bytes \cup Salts)
    BY <2>2, <2>3, SeqDef
  <2> QED BY <1>0, <1>1, <2>4 DEF Send, Joins, Submits
<1>2. ASSUME NEW t \in Tasks, Ping(p, t) PROVE Goal(t, "PING", << >>)
  BY <1>0, <1>2 DEF Ping, Joins, Submits
<1>3. ASSUME NEW t \in Tasks, NEW s \in Salts, StartRekey(p, t, s) PROVE Goal(t, "REKEY", <<s>>)
  BY <1>0, <1>3 DEF StartRekey, Joins, Submits
<1>4. ASSUME NEW t \in Tasks, Bye(p, t) PROVE Goal(t, "BYE", << >>)
  BY <1>0, <1>4 DEF Bye, Joins, Submits
<1> HIDE DEF Goal
<1>5. \E t \in Tasks : \E op, data : Goal(t, op, data)
  BY <1>1, <1>2, <1>3, <1>4 DEF CallStep
<1> QED BY <1>5 DEF Goal

(* The lock is taken, or the next fragment follows: a frame is written. *)
LEMMA WriteEffect ==
    ASSUME TypeInv, QueueInv, NEW p \in Peers, NEW t \in Callers,
           Acquire(p, t) \/ NextFragment(p, t)
    PROVE  \E c : Writes(p, t, c)
<1> USE LengthAssumption
<1>1. CASE Acquire(p, t)
  <2>1. Writes(p, t, task[p][t])
    BY <1>1 DEF Acquire, Writes, TypeInv
  <2> QED BY <2>1
<1>2. CASE NextFragment(p, t)
  <2> DEFINE c == Advanced(task[p][t])
  <2>1. task[p][t] \in CallRecords
    BY DEF TypeInv
  <2>2. ChunkEnd(task[p][t].data, task[p][t].offset) \in Nat
    BY <2>1 DEF CallRecords, ChunkEnd
  <2>3. c \in CallRecords /\ c.op = task[p][t].op /\ c.data = task[p][t].data
    BY <2>1, <2>2 DEF CallRecords, Advanced
  <2>4. Writes(p, t, c)
    BY <1>2, <2>3 DEF NextFragment, MoreFragments, Writes, QueueInv
  <2> QED BY <2>4
<1> QED BY <1>1, <1>2

(* A call ends without a rotation. *)
LEMMA LeaveEffect ==
    ASSUME TypeInv, NEW p \in Peers, NEW t \in Callers,
           SendOverflow(p, t) \/ SendDone(p, t) \/ DrainFails(p, t) \/ CancelWait(p, t)
    PROVE  Leaves(p, t) /\ UNCHANGED info
<1>1. UNCHANGED info => SameKeys
  BY UnchangedKeys
<1> QED BY <1>1 DEF SendOverflow, SendDone, DrainFails, CancelWait, Leaves

(* Every step of the sending half has one of the effects. *)
LEMMA StepEffects ==
    ASSUME TypeInv, QueueInv, Next
    PROVE  \E p \in Peers : Effect(p)
<1> SUFFICES ASSUME NEW p \in Peers,
                    \/ CallStep(p)
                    \/ PeerPing(p)
                    \/ \E t \in Callers :
                          \/ Acquire(p, t) \/ NextFragment(p, t) \/ SendOverflow(p, t)
                          \/ SendDone(p, t) \/ RekeyDone(p, t)
                          \/ DrainFails(p, t) \/ CancelWait(p, t)
                    \/ \E s \in Salts : PeerRekey(p, s)
             PROVE  Effect(p)
  BY DEF Next
<1>1. CASE CallStep(p)
  BY <1>1, CallEffect DEF Effect, Callers
<1>2. CASE PeerPing(p)
  <2>1. SameKeys
    BY <1>2, UnchangedKeys DEF PeerPing
  <2>2. Joins(p, RecvTask, "PONG", << >>)
    BY <1>2, <2>1 DEF PeerPing, Joins
  <2> QED BY <2>2 DEF Effect, Callers
<1>3. ASSUME NEW t \in Callers, Acquire(p, t) \/ NextFragment(p, t) PROVE Effect(p)
  BY <1>3, WriteEffect DEF Effect
<1>4. ASSUME NEW t \in Callers,
             SendOverflow(p, t) \/ SendDone(p, t) \/ DrainFails(p, t) \/ CancelWait(p, t)
      PROVE  Effect(p)
  BY <1>4, LeaveEffect DEF Effect
<1>5. ASSUME NEW t \in Callers, RekeyDone(p, t) PROVE Effect(p)
  BY <1>5 DEF Effect
<1>6. ASSUME NEW s \in Salts, PeerRekey(p, s) PROVE Effect(p)
  BY <1>6 DEF PeerRekey, Effect
<1> QED BY <1>1, <1>2, <1>3, <1>4, <1>5, <1>6

-----------------------------------------------------------------------------
(* Removing a task from a queue that holds it once keeps the others, in    *)
(* their order, and brings the second to the head if the head is removed.  *)
LEMMA DequeueProperties ==
    ASSUME NEW S, NEW q \in Seq(S), NEW k \in 1 .. Len(q),
           \A i, j \in 1 .. Len(q) : q[i] = q[j] => i = j
    PROVE  LET r == Dequeue(q, q[k])
           IN  /\ r \in Seq(S)
               /\ Len(r) = Len(q) - 1
               /\ \A i \in 1 .. Len(r) : r[i] = IF i < k THEN q[i] ELSE q[i + 1]
<1> DEFINE r == Dequeue(q, q[k])
<1>1. Len(q) \in Nat /\ Len(q) - 1 \in Nat
  OBVIOUS
<1>2. (CHOOSE j \in 1 .. Len(q) : q[j] = q[k]) = k
  OBVIOUS
<1>3. r = [i \in 1 .. Len(q) - 1 |-> IF i < k THEN q[i] ELSE q[i + 1]]
  BY <1>2 DEF Dequeue
<1>4. \A i \in 1 .. Len(q) - 1 : i \in 1 .. Len(q) /\ i + 1 \in 1 .. Len(q)
  BY <1>1
<1>5. \A i \in 1 .. Len(q) - 1 : (IF i < k THEN q[i] ELSE q[i + 1]) \in S
  BY <1>4, ElementOfSeq
<1>6. r \in [1 .. Len(q) - 1 -> S]
  BY <1>3, <1>5
<1>7. r \in Seq(S)
  BY <1>1, <1>6, SeqDef
<1>8. Len(r) = Len(q) - 1
  BY <1>1, <1>6, <1>7, LenProperties
<1> QED BY <1>3, <1>7, <1>8

(* A call joins: the others keep their places. *)
LEMMA JoinQueue ==
    ASSUME TypeInv, QueueInv, NEW p \in Peers, NEW t \in Callers, NEW op, NEW data,
           Joins(p, t, op, data)
    PROVE  TypeInv' /\ QueueInv'
<1> DEFINE q == send_lock[p]
           r == Append(q, t)
           c == [op |-> op, data |-> data, offset |-> 0, pc |-> "lock"]
<1>1. c \in CallRecords
  BY DEF Joins, CallRecords
<1>2. /\ task[p][t].pc = "idle"
      /\ task' = [task EXCEPT ![p][t] = c]
      /\ send_lock' = [send_lock EXCEPT ![p] = r]
      /\ UNCHANGED <<wire, transport_closed>>
      /\ \E K : info' \in [Peers -> Infos(K)]
  BY DEF Joins, Enqueue, SameKeys
<1>3. /\ q \in Seq(Callers) /\ r \in Seq(Callers) /\ Len(q) \in Nat
      /\ Len(r) = Len(q) + 1 /\ r[Len(q) + 1] = t
      /\ \A i \in 1 .. Len(q) : r[i] = q[i]
  BY AppendProperties DEF TypeInv
<1>4. salts' \in [Peers -> SUBSET Salts] /\ closed' \in [Peers -> BOOLEAN]
  <2>1. CASE op = "REKEY"
    <3>1. data[1] \in Salts /\ salts' = [salts EXCEPT ![p] = @ \cup {data[1]}] /\ closed' = closed
      BY <2>1 DEF Joins
    <3> QED BY <3>1 DEF TypeInv
  <2>2. CASE op # "REKEY"
    <3>1. salts' = salts /\ (closed' = closed \/ closed' = [closed EXCEPT ![p] = TRUE])
      BY <2>2 DEF Joins
    <3> QED BY <3>1 DEF TypeInv
  <2> QED BY <2>1, <2>2
<1>5. task' \in [Peers -> [Callers -> CallRecords]] /\ send_lock' \in [Peers -> Seq(Callers)]
  BY <1>1, <1>2, <1>3 DEF TypeInv
<1>6. TypeInv'
  BY <1>2, <1>4, <1>5 DEF TypeInv
<1>7. send_lock'[p] = r /\ \A u \in Callers : task'[p][u] = IF u = t THEN c ELSE task[p][u]
  BY <1>2 DEF TypeInv
<1>8. ~InQueue(p, t)
  BY <1>2 DEF QueueInv
<1>9. \A i, j \in 1 .. Len(r) : r[i] = r[j] => i = j
  <2> SUFFICES ASSUME NEW i \in 1 .. Len(r), NEW j \in 1 .. Len(r), r[i] = r[j]
               PROVE  i = j
    OBVIOUS
  <2>1. i \in 1 .. Len(q) \/ i = Len(q) + 1
    BY <1>3
  <2>2. j \in 1 .. Len(q) \/ j = Len(q) + 1
    BY <1>3
  <2>3. \A k \in 1 .. Len(q) : q[k] # t
    BY <1>8 DEF InQueue
  <2>4. \A k, l \in 1 .. Len(q) : q[k] = q[l] => k = l
    BY DEF QueueInv
  <2> QED BY <1>3, <2>1, <2>2, <2>3, <2>4
<1>10. ASSUME NEW u \in Callers
       PROVE  (\E i \in 1 .. Len(r) : r[i] = u) <=> (u = t \/ InQueue(p, u))
  <2>1. \A i \in 1 .. Len(r) : i \in 1 .. Len(q) \/ i = Len(q) + 1
    BY <1>3
  <2>2. Len(q) + 1 \in 1 .. Len(r) /\ \A i \in 1 .. Len(q) : i \in 1 .. Len(r)
    BY <1>3
  <2> QED BY <1>3, <2>1, <2>2 DEF InQueue
<1>11. \A u \in Callers : task'[p][u].pc # "idle" <=> InQueue(p, u)'
  BY <1>2, <1>7, <1>10 DEF InQueue, QueueInv
<1>12. ASSUME NEW u \in Callers, task'[p][u].pc = "drain" PROVE HasLock(p, u)'
  <2>1. u # t /\ task[p][u].pc = "drain"
    BY <1>7, <1>12
  <2>2. q # << >> /\ Head(q) = u
    BY <2>1 DEF QueueInv, HasLock
  <2>3. q[1] = u /\ Len(q) >= 1
    BY <1>3, <2>2
  <2>4. r[1] = u /\ r # << >> /\ Head(r) = r[1]
    BY <1>3, <2>3
  <2> QED BY <1>7, <2>4 DEF HasLock
<1>13. ASSUME NEW o \in Peers, o # p
       PROVE  send_lock'[o] = send_lock[o] /\ task'[o] = task[o]
  BY <1>2, <1>13 DEF TypeInv
<1>14. QueueInv'
  <2> SUFFICES ASSUME NEW o \in Peers
        PROVE  /\ \A i, j \in 1 .. Len(send_lock'[o]) :
                     send_lock'[o][i] = send_lock'[o][j] => i = j
               /\ \A u \in Callers : task'[o][u].pc # "idle" <=> InQueue(o, u)'
               /\ \A u \in Callers : task'[o][u].pc = "drain" => HasLock(o, u)'
    BY DEF QueueInv
  <2>1. CASE o = p
    BY <1>7, <1>9, <1>11, <1>12, <2>1
  <2>2. CASE o # p
    BY <1>13, <2>2 DEF QueueInv, InQueue, HasLock
  <2> QED BY <2>1, <2>2
<1> QED BY <1>6, <1>14

(* A frame is written: the writer keeps the lock. *)
LEMMA WriteQueue ==
    ASSUME TypeInv, QueueInv, NEW p \in Peers, NEW t \in Callers, NEW c,
           Writes(p, t, c)
    PROVE  TypeInv' /\ QueueInv'
<1> DEFINE d == [c EXCEPT !.pc = "drain"]
<1>1. d \in CallRecords /\ d.pc = "drain"
  BY DEF Writes, CallRecords
<1>2. /\ task' = [task EXCEPT ![p][t] = d]
      /\ info' = [info EXCEPT ![p].tx_seq = BurnSeq(@)]
      /\ UNCHANGED <<send_lock, closed, transport_closed, salts>>
      /\ HasLock(p, t) /\ task[p][t].pc # "idle"
  BY DEF Writes, WriteFrame
<1>3. \E K : info' \in [Peers -> Infos(K)]
  <2>1. PICK K : info \in [Peers -> Infos(K)]
    BY DEF TypeInv
  <2>2. BurnSeq(info[p].tx_seq) \in 0 .. MaxSeq
    BY <2>1, SeqAssumption DEF BurnSeq, Infos
  <2>3. info' \in [Peers -> Infos(K)]
    BY <1>2, <2>1, <2>2 DEF Infos
  <2> QED BY <2>3
<1>4. \E F : wire' \in [Peers -> Seq(F)]
  <2>1. PICK F : wire \in [Peers -> Seq(F)]
    BY DEF TypeInv
  <2> DEFINE f == SealedFrame(p, c)
             G == F \cup {f}
  <2>2. \A o \in Peers : wire[o] \in Seq(G)
    BY <2>1, SeqMonotonic
  <2>3. Append(wire[p], f) \in Seq(G)
    BY <2>2, AppendProperties
  <2>4. wire' = wire \/ wire' = [wire EXCEPT ![p] = Append(@, f)]
    BY DEF Writes, WriteFrame
  <2> HIDE DEF f, G
  <2>5. wire' \in [Peers -> Seq(G)]
    BY <2>1, <2>2, <2>3, <2>4
  <2> QED BY <2>5
<1>5. task' \in [Peers -> [Callers -> CallRecords]]
  BY <1>1, <1>2 DEF TypeInv
<1>6. TypeInv'
  BY <1>2, <1>3, <1>4, <1>5 DEF TypeInv
<1>7. \A o \in Peers : \A u \in Callers :
         task'[o][u] = IF o = p /\ u = t THEN d ELSE task[o][u]
  BY <1>2 DEF TypeInv
<1>8. QueueInv'
  BY <1>1, <1>2, <1>7 DEF QueueInv, InQueue, HasLock
<1> QED BY <1>6, <1>8

(* A call leaves: whoever holds the lock among the others still does. *)
LEMMA LeaveQueue ==
    ASSUME TypeInv, QueueInv, NEW p \in Peers, NEW t \in Callers,
           task[p][t].pc # "idle", Leave(p, t)
    PROVE  /\ QueueInv'
           /\ task' \in [Peers -> [Callers -> CallRecords]]
           /\ send_lock' \in [Peers -> Seq(Callers)]
           /\ transport_closed' \in [Peers -> BOOLEAN]
<1> DEFINE q == send_lock[p]
           r == Dequeue(q, t)
<1>1. Idle \in CallRecords /\ Idle.pc = "idle"
  BY DEF Idle, CallRecords
<1>2. /\ task' = [task EXCEPT ![p][t] = Idle]
      /\ send_lock' = [send_lock EXCEPT ![p] = r]
      /\ transport_closed' = [transport_closed EXCEPT ![p] = @ \/ task[p][t].op = "BYE"]
  BY DEF Leave
<1>3. q \in Seq(Callers) /\ Len(q) \in Nat /\ \A i, j \in 1 .. Len(q) : q[i] = q[j] => i = j
  BY DEF TypeInv, QueueInv
<1>4. PICK k \in 1 .. Len(q) : q[k] = t
  BY DEF QueueInv, InQueue
<1>5. /\ r \in Seq(Callers) /\ Len(r) = Len(q) - 1
      /\ \A i \in 1 .. Len(r) : r[i] = IF i < k THEN q[i] ELSE q[i + 1]
  BY <1>3, <1>4, DequeueProperties
<1> HIDE DEF r
<1>6. /\ task' \in [Peers -> [Callers -> CallRecords]]
      /\ send_lock' \in [Peers -> Seq(Callers)]
      /\ transport_closed' \in [Peers -> BOOLEAN]
  BY <1>1, <1>2, <1>5 DEF TypeInv
<1>7. send_lock'[p] = r /\ \A u \in Callers : task'[p][u] = IF u = t THEN Idle ELSE task[p][u]
  BY <1>2 DEF TypeInv
<1>8. \A i \in 1 .. Len(r) : i \in 1 .. Len(q) /\ i + 1 \in 1 .. Len(q)
  BY <1>3, <1>5
<1>9. \A i, j \in 1 .. Len(r) : r[i] = r[j] => i = j
  <2> SUFFICES ASSUME NEW i \in 1 .. Len(r), NEW j \in 1 .. Len(r), r[i] = r[j]
               PROVE  i = j
    OBVIOUS
  <2>1. PICK a \in 1 .. Len(q) : a = (IF i < k THEN i ELSE i + 1) /\ r[i] = q[a]
    BY <1>5, <1>8
  <2>2. PICK b \in 1 .. Len(q) : b = (IF j < k THEN j ELSE j + 1) /\ r[j] = q[b]
    BY <1>5, <1>8
  <2>3. a = b
    BY <1>3, <2>1, <2>2
  <2> QED BY <2>1, <2>2, <2>3
<1>10. ASSUME NEW u \in Callers
       PROVE  (\E i \in 1 .. Len(r) : r[i] = u) <=> (u # t /\ InQueue(p, u))
  <2>1. ASSUME NEW i \in 1 .. Len(r), r[i] = u PROVE u # t /\ InQueue(p, u)
    <3>1. PICK a \in 1 .. Len(q) : a = (IF i < k THEN i ELSE i + 1) /\ r[i] = q[a]
      BY <1>5, <1>8
    <3>2. a # k
      BY <3>1
    <3> QED BY <1>3, <1>4, <2>1, <3>1, <3>2 DEF InQueue
  <2>2. ASSUME u # t, NEW a \in 1 .. Len(q), q[a] = u PROVE \E i \in 1 .. Len(r) : r[i] = u
    <3>1. a # k
      BY <1>4, <2>2
    <3>2. CASE a < k
      <4>1. a \in 1 .. Len(r)
        BY <1>3, <1>5, <3>2
      <4> QED BY <1>5, <2>2, <3>2, <4>1
    <3>3. CASE a > k
      <4>1. a - 1 \in 1 .. Len(r) /\ ~(a - 1 < k) /\ (a - 1) + 1 = a
        BY <1>3, <1>5, <3>3
      <4>2. r[a - 1] = q[(a - 1) + 1]
        BY <1>5, <4>1
      <4> QED BY <2>2, <4>1, <4>2
    <3> QED BY <3>1, <3>2, <3>3
  <2> QED BY <2>1, <2>2 DEF InQueue
<1>11. \A u \in Callers : task'[p][u].pc # "idle" <=> InQueue(p, u)'
  BY <1>1, <1>7, <1>10 DEF InQueue, QueueInv
<1>12. ASSUME NEW u \in Callers, task'[p][u].pc = "drain" PROVE HasLock(p, u)'
  <2>1. u # t /\ task[p][u].pc = "drain"
    BY <1>1, <1>7, <1>12
  <2>2. q # << >> /\ Head(q) = u
    BY <2>1 DEF QueueInv, HasLock
  <2>3. q[1] = u
    BY <1>3, <2>2
  <2>4. k # 1
    BY <1>4, <2>1, <2>3
  <2>5. 1 < k /\ 1 \in 1 .. Len(r)
    BY <1>3, <1>5, <2>4
  <2>6. r[1] = u
    BY <1>5, <2>3, <2>5
  <2>7. r # << >> /\ Head(r) = r[1]
    BY <1>5, <2>5
  <2> QED BY <1>7, <2>6, <2>7 DEF HasLock
<1>13. ASSUME NEW o \in Peers, o # p
       PROVE  send_lock'[o] = send_lock[o] /\ task'[o] = task[o]
  BY <1>2, <1>13 DEF TypeInv
<1>14. QueueInv'
  <2> SUFFICES ASSUME NEW o \in Peers
        PROVE  /\ \A i, j \in 1 .. Len(send_lock'[o]) :
                     send_lock'[o][i] = send_lock'[o][j] => i = j
               /\ \A u \in Callers : task'[o][u].pc # "idle" <=> InQueue(o, u)'
               /\ \A u \in Callers : task'[o][u].pc = "drain" => HasLock(o, u)'
    BY DEF QueueInv
  <2>1. CASE o = p
    BY <1>7, <1>9, <1>11, <1>12, <2>1
  <2>2. CASE o # p
    BY <1>13, <2>2 DEF QueueInv, InQueue, HasLock
  <2> QED BY <2>1, <2>2
<1> QED BY <1>6, <1>14

(* A rotation leaves a well-formed SessionInfo. *)
LEMMA RotateType ==
    ASSUME TypeInv, NEW p \in Peers, NEW b \in BOOLEAN, NEW s,
           info' = [info EXCEPT ![p] = Rotated(@, b, s)]
    PROVE  \E K : info' \in [Peers -> Infos(K)]
<1>1. PICK K : info \in [Peers -> Infos(K)]
  BY DEF TypeInv
<1> DEFINE n == Rotated(info[p], b, s)
           L == K \cup {n.tx_key, n.rx_key}
<1>2. n.tx_seq = 0 /\ n.rx_seq = 0 /\ n.rx_window_bitmap = {}
      /\ n = [tx_key |-> n.tx_key, rx_key |-> n.rx_key, tx_seq |-> 0, rx_seq |-> 0,
              rx_window_bitmap |-> {}]
  BY DEF Rotated
<1>3. info'[p] = n /\ info' = [info EXCEPT ![p] = n]
  BY <1>1
<1> HIDE DEF n
<1>4. n \in Infos(L)
  BY <1>2, SeqAssumption DEF Infos
<1>5. \A o \in Peers : info[o] \in Infos(L)
  BY <1>1 DEF Infos
<1>6. info' \in [Peers -> Infos(L)]
  BY <1>1, <1>3, <1>4, <1>5
<1> QED BY <1>6

(* Types and queues survive every effect. *)
LEMMA QueueEffect ==
    ASSUME TypeInv, QueueInv, NEW p \in Peers, Effect(p)
    PROVE  TypeInv' /\ QueueInv'
<1>1. ASSUME NEW t \in Callers, NEW op, NEW data, Joins(p, t, op, data)
      PROVE  TypeInv' /\ QueueInv'
  BY <1>1, JoinQueue
<1>2. ASSUME NEW t \in Callers, NEW c, Writes(p, t, c)
      PROVE  TypeInv' /\ QueueInv'
  BY <1>2, WriteQueue
<1>3. ASSUME NEW t \in Callers, Leaves(p, t)
      PROVE  TypeInv' /\ QueueInv'
  BY <1>3, LeaveQueue DEF Leaves, Leave, SameKeys, TypeInv
<1>4. ASSUME NEW t \in Callers, RekeyDone(p, t)
      PROVE  TypeInv' /\ QueueInv'
  <2>1. Leave(p, t) /\ task[p][t].pc # "idle"
    BY <1>4 DEF RekeyDone
  <2>2. \E K : info' \in [Peers -> Infos(K)]
    BY <1>4, RotateType DEF RekeyDone
  <2> QED BY <2>1, <2>2, LeaveQueue DEF Leave, TypeInv
<1>5. ASSUME NEW s \in Salts, AcceptRekey(p, s)
      PROVE  TypeInv' /\ QueueInv'
  <2>1. \E K : info' \in [Peers -> Infos(K)]
    BY <1>5, RotateType DEF AcceptRekey
  <2>2. salts' \in [Peers -> SUBSET Salts]
    BY <1>5 DEF AcceptRekey, TypeInv
  <2>3. TypeInv'
    BY <1>5, <2>1, <2>2 DEF AcceptRekey, TypeInv
  <2>4. QueueInv'
    BY <1>5 DEF AcceptRekey, QueueInv, InQueue, HasLock
  <2> QED BY <2>3, <2>4
<1>6. CASE Stands
  BY <1>6 DEF Stands, SameKeys, TypeInv, QueueInv, InQueue, HasLock
<1> QED BY <1>1, <1>2, <1>3, <1>4, <1>5, <1>6 DEF Effect

LEMMA QueueInit == Init => TypeInv /\ QueueInv
<1> SUFFICES ASSUME Init PROVE TypeInv /\ QueueInv
  OBVIOUS
<1>1. info \in [Peers -> Infos({HandshakeKey(p) : p \in Peers})]
  BY SeqAssumption DEF Init, Infos, Other, Peers
<1>2. wire \in [Peers -> Seq({})]
  BY DEF Init
<1>3. Idle \in CallRecords /\ Idle.pc = "idle"
  BY DEF Idle, CallRecords
<1>4. TypeInv
  <2>1. task \in [Peers -> [Callers -> CallRecords]] /\ send_lock \in [Peers -> Seq(Callers)]
    BY <1>3 DEF Init
  <2>2. /\ closed \in [Peers -> BOOLEAN] /\ transport_closed \in [Peers -> BOOLEAN]
        /\ salts \in [Peers -> SUBSET Salts]
    BY DEF Init
  <2>3. (\E K : info \in [Peers -> Infos(K)]) /\ (\E F : wire \in [Peers -> Seq(F)])
    BY <1>1, <1>2
  <2> QED BY <2>1, <2>2, <2>3 DEF TypeInv
<1>5. QueueInv
  BY <1>3 DEF Init, QueueInv, InQueue
<1> QED BY <1>4, <1>5

(* Types and queues hold in every reachable state. *)
THEOREM QueueCorrect == Spec => [](TypeInv /\ QueueInv)
<1>1. Init => TypeInv /\ QueueInv
  BY QueueInit
<1>2. TypeInv /\ QueueInv /\ [Next]_sessionVars => TypeInv' /\ QueueInv'
  <2> SUFFICES ASSUME TypeInv, QueueInv, [Next]_sessionVars PROVE TypeInv' /\ QueueInv'
    OBVIOUS
  <2>1. CASE UNCHANGED sessionVars
    BY <2>1 DEF sessionVars, TypeInv, QueueInv, InQueue, HasLock
  <2>2. CASE Next
    BY <2>2, StepEffects, QueueEffect
  <2> QED BY <2>1, <2>2
<1> QED BY <1>1, <1>2, PTL DEF Spec

(* A task between its write and the end of its drain holds the lock. *)
THEOREM SingleWriter == Spec => []OneWriter
<1>1. QueueInv => OneWriter
  BY DEF QueueInv, OneWriter
<1> QED BY <1>1, QueueCorrect, PTL

-----------------------------------------------------------------------------
(* Why no nonce repeats.  Under the current key every frame on the wire    *)
(* has a number below tx_seq, except a BYE when the numbers are spent, and *)
(* there is one BYE at most; a rotation installs a key whose salt no frame *)
(* on the wire was sealed under, because a pending rekey() keeps its salt  *)
(* to itself until it completes.                                           *)
KnownSalts(p) == salts[p] \cup {HandshakeSalt}

SaltsKnown(p) ==
    /\ info[p].tx_key.salt \in KnownSalts(p)
    /\ \A i \in 1 .. Len(wire[p]) : wire[p][i].key.salt \in KnownSalts(p)

PendingFresh(p) ==
    \A t \in Callers : task[p][t].op = "REKEY" =>
        /\ task[p][t].data[1] \in salts[p]
        /\ task[p][t].data[1] # info[p].tx_key.salt
        /\ \A i \in 1 .. Len(wire[p]) : task[p][t].data[1] # wire[p][i].key.salt
        /\ \A u \in Callers :
              u # t /\ task[p][u].op = "REKEY" => task[p][t].data[1] # task[p][u].data[1]

Burned(p) ==
    \A i \in 1 .. Len(wire[p]) :
        wire[p][i].key = info[p].tx_key =>
            /\ wire[p][i].seq \in Nat
            /\ \/ wire[p][i].seq < info[p].tx_seq
               \/ wire[p][i].type = "BYE" /\ info[p].tx_seq = MaxSeq

ByeOnce(p) ==
    /\ \A i \in 1 .. Len(wire[p]) : wire[p][i].type = "BYE" =>
          closed[p] /\ \A t \in Callers : task[p][t].op = "BYE" => task[p][t].pc = "drain"
    /\ \A t \in Callers : task[p][t].op = "BYE" => closed[p]
    /\ \A t, u \in Callers : task[p][t].op = "BYE" /\ task[p][u].op = "BYE" => t = u

Distinct(p) ==
    \A i, j \in 1 .. Len(wire[p]) :
        i # j => \/ wire[p][i].key # wire[p][j].key
                 \/ wire[p][i].seq # wire[p][j].seq

PeerNonces(p) ==
    SaltsKnown(p) /\ PendingFresh(p) /\ Burned(p) /\ ByeOnce(p) /\ Distinct(p)

AllNonces == \A p \in Peers : PeerNonces(p)

NonceInv == TypeInv /\ QueueInv /\ AllNonces

(* The peer that does not move keeps its part of the invariant. *)
LEMMA Untouched ==
    ASSUME NEW o \in Peers, PeerNonces(o), info'[o].tx_key = info[o].tx_key,
           info'[o].tx_seq = info[o].tx_seq, wire'[o] = wire[o],
           task'[o] = task[o], salts'[o] = salts[o], closed'[o] = closed[o]
    PROVE  PeerNonces(o)'
BY DEF PeerNonces, SaltsKnown, KnownSalts, PendingFresh, Burned, ByeOnce, Distinct

(* A call joins: a rekey() brings a salt nothing was sealed under, and a   *)
(* bye() finds the session not closed, so it is the only one.              *)
LEMMA JoinNonces ==
    ASSUME NonceInv, NEW p \in Peers, NEW t \in Callers, NEW op, NEW data,
           Joins(p, t, op, data)
    PROVE  \A o \in Peers : PeerNonces(o)'
<1> DEFINE c == [op |-> op, data |-> data, offset |-> 0, pc |-> "lock"]
<1>1. /\ task' = [task EXCEPT ![p][t] = c] /\ wire' = wire
      /\ \A o \in Peers : info'[o].tx_key = info[o].tx_key /\ info'[o].tx_seq = info[o].tx_seq
      /\ op \in {"DATA", "PING", "PONG", "REKEY", "BYE"}
  BY DEF Joins, Enqueue, SameKeys
<1>2. \A o \in Peers : \A u \in Callers :
         task'[o][u] = IF o = p /\ u = t THEN c ELSE task[o][u]
  BY <1>1 DEF NonceInv, TypeInv
<1>3. \A o \in Peers : o # p => task'[o] = task[o] /\ salts'[o] = salts[o] /\ closed'[o] = closed[o]
  BY <1>1 DEF Joins, NonceInv, TypeInv
<1>4. IF op = "REKEY" THEN data[1] \in Salts /\ data[1] \notin salts[p]
                           /\ salts'[p] = salts[p] \cup {data[1]}
                      ELSE salts'[p] = salts[p]
  BY DEF Joins, NonceInv, TypeInv
<1>5. IF op = "BYE" THEN ~closed[p] /\ closed'[p] = TRUE ELSE closed'[p] = closed[p]
  BY DEF Joins, NonceInv, TypeInv
<1>6. PeerNonces(p)
  BY DEF NonceInv, AllNonces
<1>7. SaltsKnown(p)'
  BY <1>1, <1>4, <1>6 DEF PeerNonces, SaltsKnown, KnownSalts
<1>8. PendingFresh(p)'
  <2>1. CASE op # "REKEY"
    BY <1>1, <1>2, <1>4, <1>6, <2>1 DEF PeerNonces, PendingFresh
  <2>2. CASE op = "REKEY"
    <3>1. data[1] \notin KnownSalts(p)
      BY <1>4, <2>2, SaltAssumption DEF KnownSalts
    <3>2. ASSUME NEW u \in Callers, u # t, task[p][u].op = "REKEY"
          PROVE  task[p][u].data[1] # data[1]
      BY <1>4, <1>6, <2>2, <3>2 DEF PeerNonces, PendingFresh
    <3> QED BY <1>1, <1>2, <1>4, <1>6, <2>2, <3>1, <3>2 DEF PeerNonces, PendingFresh, SaltsKnown
  <2> QED BY <2>1, <2>2
<1>9. Burned(p)' /\ Distinct(p)'
  BY <1>1, <1>6 DEF PeerNonces, Burned, Distinct
<1>10. ByeOnce(p)'
  BY <1>1, <1>2, <1>5, <1>6 DEF PeerNonces, ByeOnce
<1>11. PeerNonces(p)'
  BY <1>7, <1>8, <1>9, <1>10 DEF PeerNonces
<1>12. ASSUME NEW o \in Peers, o # p PROVE PeerNonces(o)'
  BY <1>1, <1>3, <1>12, Untouched DEF NonceInv, AllNonces
<1> QED BY <1>11, <1>12

(* A frame is written: its number is tx_seq, above all those of its key.   *)
LEMMA WriteNonces ==
    ASSUME NonceInv, NEW p \in Peers, NEW t \in Callers, NEW c, Writes(p, t, c)
    PROVE  \A o \in Peers : PeerNonces(o)'
<1> DEFINE d == [c EXCEPT !.pc = "drain"]
           f == SealedFrame(p, c)
           w == wire[p]
<1>1. PICK K, F : info \in [Peers -> Infos(K)] /\ wire \in [Peers -> Seq(F)]
  BY DEF NonceInv, TypeInv
<1>2. /\ task' = [task EXCEPT ![p][t] = d]
      /\ info' = [info EXCEPT ![p].tx_seq = BurnSeq(@)]
      /\ salts' = salts /\ closed' = closed
      /\ ~Overflows(p, c)
  BY DEF Writes, WriteFrame
<1>3. /\ d.op = task[p][t].op /\ d.data = task[p][t].data /\ d.pc = "drain"
      /\ c.op = task[p][t].op /\ c.op \in {"none", "DATA", "PING", "PONG", "REKEY", "BYE"}
  BY DEF Writes, CallRecords
<1>4. \A o \in Peers : \A u \in Callers :
         task'[o][u] = IF o = p /\ u = t THEN d ELSE task[o][u]
  BY <1>2 DEF NonceInv, TypeInv
<1>5. /\ info'[p].tx_key = info[p].tx_key
      /\ info'[p].tx_seq = BurnSeq(info[p].tx_seq)
      /\ info[p].tx_seq \in 0 .. MaxSeq
  BY <1>1, <1>2 DEF Infos
<1>6. ASSUME NEW o \in Peers, o # p
      PROVE  info'[o] = info[o] /\ task'[o] = task[o] /\ wire'[o] = wire[o]
  BY <1>1, <1>2, <1>6 DEF Writes, WriteFrame, NonceInv, TypeInv
<1>7. PeerNonces(p)
  BY DEF NonceInv, AllNonces
<1>8. /\ f.key = info[p].tx_key /\ f.seq = info[p].tx_seq
      /\ f.type = "BYE" <=> c.op = "BYE"
  BY <1>3 DEF SealedFrame, PacketType
<1>9. w \in Seq(F \cup {f}) /\ Len(w) \in Nat
  BY <1>1, SeqMonotonic
<1> HIDE DEF f
<1>10. \/ wire'[p] = w
       \/ wire'[p] = Append(w, f)
  BY <1>1 DEF Writes, WriteFrame, f
<1>11. \A i \in 1 .. Len(wire'[p]) :
          \/ i \in 1 .. Len(w) /\ wire'[p][i] = w[i]
          \/ i = Len(w) + 1 /\ wire'[p][i] = f
  BY <1>9, <1>10, AppendProperties
<1>12. ASSUME c.op = "BYE", NEW i \in 1 .. Len(w) PROVE w[i].type # "BYE"
  <2>1. task[p][t].pc = "lock" /\ task[p][t].op = "BYE"
    BY <1>12 DEF Writes
  <2> QED BY <1>7, <2>1 DEF PeerNonces, ByeOnce
<1>13. ASSUME NEW i \in 1 .. Len(w), w[i].key = f.key
       PROVE  w[i].seq \in Nat /\ w[i].seq < f.seq
  <2>1. CASE c.op = "BYE"
    BY <1>7, <1>8, <1>12, <1>13, <2>1 DEF PeerNonces, Burned
  <2>2. CASE c.op # "BYE"
    <3>1. ~(info[p].tx_seq >= MaxSeq)
      BY <1>2, <2>2 DEF Overflows
    <3>2. info[p].tx_seq # MaxSeq
      BY <1>5, <3>1, SeqAssumption
    <3> QED BY <1>7, <1>8, <1>13, <3>2 DEF PeerNonces, Burned
  <2> QED BY <2>1, <2>2
<1>14. /\ f.seq \in Nat
       /\ \/ info[p].tx_seq < BurnSeq(info[p].tx_seq)
          \/ c.op = "BYE" /\ BurnSeq(info[p].tx_seq) = MaxSeq
  <2>1. c.op = "BYE" \/ info[p].tx_seq < MaxSeq
    BY <1>2, <1>5, SeqAssumption DEF Overflows
  <2> QED BY <1>5, <1>8, <2>1, SeqAssumption DEF BurnSeq
<1>15. info[p].tx_seq <= BurnSeq(info[p].tx_seq) /\ BurnSeq(info[p].tx_seq) \in Nat
  BY <1>5, SeqAssumption DEF BurnSeq
<1>16. SaltsKnown(p)'
  BY <1>2, <1>5, <1>7, <1>8, <1>11 DEF PeerNonces, SaltsKnown, KnownSalts
<1>17. PendingFresh(p)'
  <2>1. \A u \in Callers : task'[p][u].op = task[p][u].op /\ task'[p][u].data = task[p][u].data
    BY <1>3, <1>4
  <2> QED BY <1>2, <1>5, <1>7, <1>8, <1>11, <2>1 DEF PeerNonces, PendingFresh
<1>18. Burned(p)'
  <2> SUFFICES ASSUME NEW i \in 1 .. Len(wire'[p]), wire'[p][i].key = info'[p].tx_key
               PROVE  /\ wire'[p][i].seq \in Nat
                      /\ \/ wire'[p][i].seq < info'[p].tx_seq
                         \/ wire'[p][i].type = "BYE" /\ info'[p].tx_seq = MaxSeq
    BY DEF Burned
  <2>1. CASE i \in 1 .. Len(w) /\ wire'[p][i] = w[i]
    <3>1. w[i].seq \in Nat /\ w[i].seq < f.seq
      BY <1>5, <1>8, <1>13, <2>1
    <3> QED BY <1>5, <1>8, <1>14, <1>15, <2>1, <3>1
  <2>2. CASE wire'[p][i] = f
    BY <1>5, <1>8, <1>14, <2>2
  <2> QED BY <1>11, <2>1, <2>2
<1>19. ByeOnce(p)'
  <2>1. \A i \in 1 .. Len(wire'[p]) : wire'[p][i].type = "BYE" =>
          closed'[p] /\ \A u \in Callers : task'[p][u].op = "BYE" => task'[p][u].pc = "drain"
    <3> SUFFICES ASSUME NEW i \in 1 .. Len(wire'[p]), wire'[p][i].type = "BYE"
                 PROVE  closed[p] /\ \A u \in Callers :
                          task'[p][u].op = "BYE" => task'[p][u].pc = "drain"
      BY <1>2
    <3>1. CASE i \in 1 .. Len(w) /\ wire'[p][i] = w[i]
      BY <1>3, <1>4, <1>7, <3>1 DEF PeerNonces, ByeOnce
    <3>2. CASE wire'[p][i] = f
      <4>1. task[p][t].op = "BYE"
        BY <1>3, <1>8, <3>2
      <4> QED BY <1>3, <1>4, <1>7, <4>1 DEF PeerNonces, ByeOnce
    <3> QED BY <1>11, <3>1, <3>2
  <2>2. \A u \in Callers : task'[p][u].op = task[p][u].op
    BY <1>3, <1>4
  <2> QED BY <1>2, <1>7, <2>1, <2>2 DEF PeerNonces, ByeOnce
<1>20. Distinct(p)'
  <2> SUFFICES ASSUME NEW i \in 1 .. Len(wire'[p]), NEW j \in 1 .. Len(wire'[p]), i # j,
                      wire'[p][i].key = wire'[p][j].key
               PROVE  wire'[p][i].seq # wire'[p][j].seq
    BY DEF Distinct
  <2>1. \A n \in 1 .. Len(w) : w[n].key = f.key => w[n].seq # f.seq
    BY <1>13, <1>14
  <2> QED BY <1>7, <1>11, <2>1 DEF PeerNonces, Distinct
<1>21. PeerNonces(p)'
  BY <1>16, <1>17, <1>18, <1>19, <1>20 DEF PeerNonces
<1>22. ASSUME NEW o \in Peers, o # p PROVE PeerNonces(o)'
  BY <1>2, <1>6, <1>22, Untouched DEF NonceInv, AllNonces
<1> QED BY <1>21, <1>22

(* A call leaves: there is one pending call less. *)
LEMMA LeaveNonces ==
    ASSUME NonceInv, NEW p \in Peers, NEW t \in Callers, Leaves(p, t)
    PROVE  \A o \in Peers : PeerNonces(o)'
<1>1. /\ task' = [task EXCEPT ![p][t] = Idle]
      /\ wire' = wire /\ salts' = salts /\ closed' = closed
      /\ \A o \in Peers : info'[o].tx_key = info[o].tx_key /\ info'[o].tx_seq = info[o].tx_seq
  BY DEF Leaves, Leave, SameKeys
<1>2. /\ \A u \in Callers : task'[p][u] = IF u = t THEN Idle ELSE task[p][u]
      /\ \A o \in Peers : o # p => task'[o] = task[o]
  BY <1>1 DEF NonceInv, TypeInv
<1>3. Idle.op = "none"
  BY DEF Idle
<1>4. PeerNonces(p)'
  BY <1>1, <1>2, <1>3
     DEF NonceInv, AllNonces, PeerNonces, SaltsKnown, KnownSalts, PendingFresh, Burned, ByeOnce, Distinct
<1>5. ASSUME NEW o \in Peers, o # p PROVE PeerNonces(o)'
  BY <1>1, <1>2, <1>5, Untouched DEF NonceInv, AllNonces
<1> QED BY <1>4, <1>5

(* rekey() completes: nothing on the wire is sealed under its key. *)
LEMMA RekeyNonces ==
    ASSUME NonceInv, NEW p \in Peers, NEW t \in Callers, RekeyDone(p, t)
    PROVE  \A o \in Peers : PeerNonces(o)'
<1> DEFINE s == task[p][t].data[1]
<1>1. /\ task' = [task EXCEPT ![p][t] = Idle]
      /\ info' = [info EXCEPT ![p] = Rotated(@, TRUE, s)]
      /\ wire' = wire /\ salts' = salts /\ closed' = closed
      /\ task[p][t].op = "REKEY"
  BY DEF RekeyDone, Leave
<1>2. /\ \A u \in Callers : task'[p][u] = IF u = t THEN Idle ELSE task[p][u]
      /\ \A o \in Peers : o # p => task'[o] = task[o] /\ info'[o] = info[o]
      /\ info'[p] = Rotated(info[p], TRUE, s)
  BY <1>1 DEF NonceInv, TypeInv
<1>3. info'[p].tx_key.salt = s
  BY <1>2 DEF Rotated, DeriveRekeyKeys, Hkdf
<1>4. Idle.op = "none"
  BY DEF Idle
<1>5. PeerNonces(p)
  BY DEF NonceInv, AllNonces
<1>6. s \in salts[p] /\ \A i \in 1 .. Len(wire[p]) : wire[p][i].key.salt # s
  BY <1>1, <1>5 DEF PeerNonces, PendingFresh
<1>7. \A i \in 1 .. Len(wire[p]) : wire[p][i].key # info'[p].tx_key
  BY <1>3, <1>6
<1>8. SaltsKnown(p)'
  BY <1>1, <1>3, <1>5, <1>6 DEF PeerNonces, SaltsKnown, KnownSalts
<1>9. PendingFresh(p)'
  <2>1. ASSUME NEW u \in Callers, task'[p][u].op = "REKEY"
        PROVE  u # t /\ task'[p][u] = task[p][u] /\ task[p][u].data[1] # s
    <3>1. u # t
      BY <1>2, <1>4, <2>1
    <3> QED BY <1>1, <1>2, <1>5, <2>1, <3>1 DEF PeerNonces, PendingFresh
  <2>2. ASSUME NEW u \in Callers, task'[p][u].op = "REKEY"
        PROVE  /\ task'[p][u].data[1] \in salts'[p]
               /\ task'[p][u].data[1] # info'[p].tx_key.salt
               /\ \A i \in 1 .. Len(wire'[p]) : task'[p][u].data[1] # wire'[p][i].key.salt
               /\ \A v \in Callers : v # u /\ task'[p][v].op = "REKEY"
                     => task'[p][u].data[1] # task'[p][v].data[1]
    <3>1. u # t /\ task'[p][u] = task[p][u] /\ task[p][u].data[1] # s /\ task[p][u].op = "REKEY"
      BY <2>1, <2>2
    <3>2. \A v \in Callers : task'[p][v].op = "REKEY" => task'[p][v] = task[p][v]
      BY <2>1
    <3>3. /\ task[p][u].data[1] \in salts[p]
          /\ \A i \in 1 .. Len(wire[p]) : task[p][u].data[1] # wire[p][i].key.salt
          /\ \A v \in Callers : v # u /\ task[p][v].op = "REKEY"
                => task[p][u].data[1] # task[p][v].data[1]
      BY <1>5, <3>1 DEF PeerNonces, PendingFresh
    <3>4. ASSUME NEW v \in Callers, v # u, task'[p][v].op = "REKEY"
          PROVE  task'[p][u].data[1] # task'[p][v].data[1]
      BY <3>1, <3>2, <3>3, <3>4
    <3> HIDE DEF s
    <3>5. task'[p][u].data[1] # info'[p].tx_key.salt
      BY <1>3, <3>1
    <3> QED BY <1>1, <3>1, <3>3, <3>4, <3>5
  <2> QED BY <2>2 DEF PendingFresh
<1>10. Burned(p)'
  BY <1>1, <1>7 DEF Burned
<1>11. ByeOnce(p)' /\ Distinct(p)'
  BY <1>1, <1>2, <1>4, <1>5 DEF PeerNonces, ByeOnce, Distinct
<1>12. PeerNonces(p)'
  BY <1>8, <1>9, <1>10, <1>11 DEF PeerNonces
<1>13. ASSUME NEW o \in Peers, o # p PROVE PeerNonces(o)'
  BY <1>1, <1>2, <1>13, Untouched DEF NonceInv, AllNonces
<1> QED BY <1>12, <1>13

(* recv() rotates: the peer's salt was never used here. *)
LEMMA AcceptNonces ==
    ASSUME NonceInv, NEW p \in Peers, NEW s \in Salts, s \notin salts[p],
           AcceptRekey(p, s)
    PROVE  \A o \in Peers : PeerNonces(o)'
<1>1. /\ info' = [info EXCEPT ![p] = Rotated(@, FALSE, s)]
      /\ salts' = [salts EXCEPT ![p] = @ \cup {s}]
      /\ task' = task /\ wire' = wire /\ closed' = closed
  BY DEF AcceptRekey
<1>2. /\ \A o \in Peers : o # p => info'[o] = info[o] /\ salts'[o] = salts[o]
      /\ info'[p] = Rotated(info[p], FALSE, s)
      /\ salts'[p] = salts[p] \cup {s}
  BY <1>1 DEF NonceInv, TypeInv
<1>3. info'[p].tx_key.salt = s
  BY <1>2 DEF Rotated, DeriveRekeyKeys, Hkdf
<1>4. PeerNonces(p)
  BY DEF NonceInv, AllNonces
<1>5. s \notin KnownSalts(p)
  BY SaltAssumption DEF KnownSalts
<1>6. \A i \in 1 .. Len(wire[p]) : wire[p][i].key.salt # s
  BY <1>4, <1>5 DEF PeerNonces, SaltsKnown
<1>7. SaltsKnown(p)'
  BY <1>1, <1>2, <1>3, <1>4 DEF PeerNonces, SaltsKnown, KnownSalts
<1>8. PendingFresh(p)'
  <2>1. \A u \in Callers : task[p][u].op = "REKEY" => task[p][u].data[1] # s
    BY <1>4 DEF PeerNonces, PendingFresh
  <2> QED BY <1>1, <1>2, <1>3, <1>4, <2>1 DEF PeerNonces, PendingFresh
<1>9. Burned(p)'
  <2>1. \A i \in 1 .. Len(wire[p]) : wire[p][i].key # info'[p].tx_key
    BY <1>3, <1>6
  <2> QED BY <1>1, <2>1 DEF Burned
<1>10. ByeOnce(p)' /\ Distinct(p)'
  BY <1>1, <1>4 DEF PeerNonces, ByeOnce, Distinct
<1>11. PeerNonces(p)'
  BY <1>7, <1>8, <1>9, <1>10 DEF PeerNonces
<1>12. ASSUME NEW o \in Peers, o # p PROVE PeerNonces(o)'
  BY <1>1, <1>2, <1>12, Untouched DEF NonceInv, AllNonces
<1> QED BY <1>11, <1>12

(* No effect makes a nonce repeat. *)
LEMMA NonceEffect ==
    ASSUME NonceInv, NEW p \in Peers, Effect(p)
    PROVE  NonceInv'
<1>1. TypeInv' /\ QueueInv'
  BY QueueEffect DEF NonceInv
<1>2. CASE Stands
  <2>1. /\ UNCHANGED <<task, wire, closed, salts>>
        /\ \A o \in Peers : info'[o].tx_key = info[o].tx_key /\ info'[o].tx_seq = info[o].tx_seq
    BY <1>2 DEF Stands, SameKeys
  <2>2. \A o \in Peers : PeerNonces(o)'
    BY <2>1, Untouched DEF NonceInv, AllNonces
  <2> QED BY <1>1, <2>2 DEF NonceInv, AllNonces
<1>3. CASE ~Stands
  <2>1. \A o \in Peers : PeerNonces(o)'
    BY <1>3, JoinNonces, WriteNonces, LeaveNonces, RekeyNonces, AcceptNonces DEF Effect
  <2> QED BY <1>1, <2>1 DEF NonceInv, AllNonces
<1> QED BY <1>2, <1>3

LEMMA NonceInit == Init => AllNonces
<1> SUFFICES ASSUME Init, NEW p \in Peers PROVE PeerNonces(p)
  BY DEF AllNonces
<1>1. wire[p] = << >> /\ Len(wire[p]) = 0 /\ info[p].tx_key = HandshakeKey(p)
  BY DEF Init
<1>2. \A t \in Callers : task[p][t].op = "none"
  BY DEF Init, Idle
<1>3. info[p].tx_key.salt \in KnownSalts(p)
  BY <1>1 DEF HandshakeKey, KnownSalts
<1> QED BY <1>1, <1>2, <1>3
    DEF PeerNonces, SaltsKnown, PendingFresh, Burned, ByeOnce, Distinct

(* The inductive invariant holds in every reachable state. *)
THEOREM NonceInvariant == Spec => []NonceInv
<1>1. NonceInv /\ [Next]_sessionVars => NonceInv'
  <2> SUFFICES ASSUME NonceInv, [Next]_sessionVars PROVE NonceInv'
    OBVIOUS
  <2>1. CASE UNCHANGED sessionVars
    <3>1. TypeInv' /\ QueueInv'
      BY <2>1 DEF sessionVars, NonceInv, TypeInv, QueueInv, InQueue, HasLock
    <3>2. \A o \in Peers : PeerNonces(o)'
      BY <2>1, Untouched DEF sessionVars, NonceInv, AllNonces
    <3> QED BY <3>1, <3>2 DEF NonceInv, AllNonces
  <2>2. CASE Next
    BY <2>2, StepEffects, NonceEffect DEF NonceInv
  <2> QED BY <2>1, <2>2
<1>2. Init => NonceInv
  BY NonceInit, QueueInit DEF NonceInv
<1> QED BY <1>1, <1>2, PTL DEF Spec

(* No AEAD nonce is ever used twice under the same key. *)
THEOREM NonceNeverReused == Spec => []NonceUnique
<1>1. NonceInv => NonceUnique
  BY DEF NonceInv, AllNonces, PeerNonces, Distinct, NonceUnique
<1> QED BY <1>1, NonceInvariant, PTL

(* The variables have their types in every reachable state. *)
THEOREM SessionTypeCorrect == Spec => []TypeOK
<1>1. NonceInv => TypeOK
  <2> SUFFICES ASSUME NonceInv PROVE TypeOK
    OBVIOUS
  <2>1. \A p \in Peers : info[p].tx_seq \in 0 .. MaxSeq
    BY DEF NonceInv, TypeInv, Infos
  <2>2. \A p \in Peers : info[p].tx_key.salt \in Salts \cup {HandshakeSalt}
    BY DEF NonceInv, AllNonces, TypeInv, PeerNonces, SaltsKnown, KnownSalts
  <2> QED BY <2>1, <2>2 DEF NonceInv, TypeInv, TypeOK
<1> QED BY <1>1, NonceInvariant, PTL

-----------------------------------------------------------------------------
(* The fragments that call c has written end the wire w. *)
Unbroken(w, c) ==
    \A k \in 0 .. c.offset \div ChunkLen :
        /\ Len(w) > k
        /\ w[Len(w) - k].body = Plaintext([c EXCEPT !.offset = @ - k * ChunkLen])

UnbrokenInv ==
    \A p \in Peers : \A t \in Callers :
        /\ task[p][t].pc = "lock" => task[p][t].offset = 0
        /\ task[p][t].pc = "drain" /\ ~transport_closed[p] => Unbroken(wire[p], task[p][t])

LEMMA ChunkArithmetic ==
    ASSUME NEW o \in Nat
    PROVE  /\ 0 \div ChunkLen = 0
           /\ o \div ChunkLen \in Nat
           /\ (o + ChunkLen) \div ChunkLen = o \div ChunkLen + 1
           /\ \A k \in Int : (k + 1) * ChunkLen = k * ChunkLen + ChunkLen
           /\ o - 0 * ChunkLen = o
BY LengthAssumption, SMTT(30)

LEMMA SamePlaintext ==
    ASSUME NEW a, NEW b, a.op = b.op, a.data = b.data, a.offset = b.offset
    PROVE  Plaintext(a) = Plaintext(b)
BY DEF Plaintext

LEMMA AtOffset ==
    ASSUME NEW c \in CallRecords, NEW o \in Int
    PROVE  /\ [c EXCEPT !.offset = o].op = c.op
           /\ [c EXCEPT !.offset = o].data = c.data
           /\ [c EXCEPT !.offset = o].offset = o
BY DEF CallRecords

(* The next fragment follows those written before it. *)
LEMMA FragmentFollows ==
    ASSUME NEW F, NEW w \in Seq(F), NEW f, NEW c \in CallRecords, NEW d \in CallRecords,
           f.body = Plaintext(d), d.op = c.op, d.data = c.data,
           \/ d.offset = 0
           \/ d.offset = c.offset + ChunkLen /\ Unbroken(w, c)
    PROVE  Unbroken(Append(w, f), d)
<1> DEFINE v == Append(w, f)
<1>1. /\ Len(w) \in Nat /\ Len(v) = Len(w) + 1 /\ v[Len(w) + 1] = f
      /\ \A i \in 1 .. Len(w) : v[i] = w[i]
  <2>1. w \in Seq(F \cup {f})
    BY SeqMonotonic
  <2> QED BY <2>1, AppendProperties, LenProperties
<1> HIDE DEF v
<1>2. c.offset \in Nat /\ d.offset \in Nat /\ ChunkLen \in Nat \ {0}
  BY LengthAssumption DEF CallRecords
<1> SUFFICES ASSUME NEW k \in 0 .. d.offset \div ChunkLen
             PROVE  /\ Len(v) > k
                    /\ v[Len(v) - k].body = Plaintext([d EXCEPT !.offset = @ - k * ChunkLen])
  BY DEF Unbroken, v
<1>3. k \in Nat
  BY <1>2, ChunkArithmetic
<1>4. CASE k = 0
  <2>1. d.offset - k * ChunkLen = d.offset
    BY <1>2, <1>4, ChunkArithmetic
  <2>2. Plaintext([d EXCEPT !.offset = d.offset - k * ChunkLen]) = Plaintext(d)
    <3>1. [d EXCEPT !.offset = d.offset] = d
      BY DEF CallRecords
    <3> QED BY <2>1, <3>1
  <2> QED BY <1>1, <1>4, <2>2
<1>5. CASE k # 0
  <2>1. d.offset # 0
    <3>1. 0 \div ChunkLen = 0
      BY ChunkArithmetic
    <3>2. d.offset = 0 => k \in 0 .. 0
      BY <3>1
    <3> QED BY <1>5, <3>2
  <2>2. d.offset = c.offset + ChunkLen /\ Unbroken(w, c)
    BY <2>1
  <2> DEFINE j == k - 1
  <2>3. j \in 0 .. c.offset \div ChunkLen
    <3>1. /\ c.offset \div ChunkLen \in Nat
          /\ (c.offset + ChunkLen) \div ChunkLen = c.offset \div ChunkLen + 1
      BY <1>2, ChunkArithmetic
    <3>2. PICK q \in Nat : q = c.offset \div ChunkLen
      BY <3>1
    <3>3. k \in 0 .. q + 1
      BY <2>2, <3>1, <3>2
    <3> QED BY <1>3, <1>5, <3>2, <3>3
  <2>4. /\ Len(w) > j
        /\ w[Len(w) - j].body = Plaintext([c EXCEPT !.offset = c.offset - j * ChunkLen])
    BY <2>2, <2>3 DEF Unbroken
  <2>5. j \in Nat /\ k = j + 1
    BY <1>3, <1>5
  <2>6. j * ChunkLen \in Int /\ k * ChunkLen = j * ChunkLen + ChunkLen
    BY <1>2, <2>5, ChunkArithmetic
  <2>7. d.offset - k * ChunkLen = c.offset - j * ChunkLen
    BY <1>2, <2>2, <2>6
  <2>8. Len(v) > k /\ v[Len(v) - k] = w[Len(w) - j]
    <3>1. Len(v) - k = Len(w) - j /\ Len(w) - j \in 1 .. Len(w) /\ Len(v) > k
      <4> HIDE DEF j
      <4> QED BY <1>1, <2>4, <2>5
    <3> QED BY <1>1, <3>1
  <2> DEFINE o == c.offset - j * ChunkLen
  <2>9. o \in Int
    BY <1>2, <2>6
  <2>10. d.offset - k * ChunkLen = o
    BY <2>7
  <2> HIDE DEF o, j
  <2>11. Plaintext([d EXCEPT !.offset = o]) = Plaintext([c EXCEPT !.offset = o])
    BY <2>9, AtOffset DEF Plaintext
  <2> QED BY <2>4, <2>8, <2>10, <2>11 DEF o
<1> QED BY <1>4, <1>5

LEMMA WriteUnbroken ==
    ASSUME TypeInv, QueueInv, UnbrokenInv, NEW p \in Peers, NEW t \in Callers, NEW c,
           Writes(p, t, c)
    PROVE  UnbrokenInv'
<1> DEFINE d == [c EXCEPT !.pc = "drain"]
<1>1. /\ c \in CallRecords /\ task[p][t] \in CallRecords
      /\ d \in CallRecords /\ d.pc = "drain" /\ d.op = c.op /\ d.data = c.data /\ d.offset = c.offset
  <2>1. c \in CallRecords /\ task[p][t] \in CallRecords
    BY DEF Writes, TypeInv
  <2> QED BY <2>1 DEF CallRecords
<1>2. /\ task' = [task EXCEPT ![p][t] = d]
      /\ UNCHANGED transport_closed
      /\ HasLock(p, t)
      /\ \/ wire' = [wire EXCEPT ![p] = Append(@, SealedFrame(p, c))]
         \/ transport_closed[p] /\ UNCHANGED wire
  BY DEF Writes, WriteFrame
<1>3. \A o \in Peers : \A u \in Callers :
         task'[o][u] = IF o = p /\ u = t THEN d ELSE task[o][u]
  BY <1>2 DEF TypeInv
<1>4. PICK F : wire \in [Peers -> Seq(F)]
  BY DEF TypeInv
<1>5. \A o \in Peers : o # p => wire'[o] = wire[o]
  BY <1>2, <1>4
<1>6. \A u \in Callers : u # t => task[p][u].pc # "drain"
  BY <1>2 DEF QueueInv, HasLock
<1>7. ASSUME ~transport_closed[p]
      PROVE  Unbroken(wire'[p], d)
  <2>1. wire'[p] = Append(wire[p], SealedFrame(p, c))
    BY <1>2, <1>4, <1>7
  <2>2. SealedFrame(p, c).body = Plaintext(d)
    BY <1>1, SamePlaintext DEF SealedFrame
  <2>3. \/ c.offset = 0
        \/ /\ c.offset = task[p][t].offset + ChunkLen /\ Unbroken(wire[p], task[p][t])
           /\ c.op = task[p][t].op /\ c.data = task[p][t].data
    <3>1. CASE task[p][t].pc = "lock" /\ c = task[p][t]
      BY <3>1 DEF UnbrokenInv
    <3>2. CASE /\ task[p][t].pc = "drain" /\ MoreFragments(task[p][t])
               /\ c = Advanced(task[p][t])
      <4>1. c.offset = ChunkEnd(task[p][t].data, task[p][t].offset)
        BY <1>1, <3>2 DEF Advanced, CallRecords
      <4>2. ChunkEnd(task[p][t].data, task[p][t].offset) = task[p][t].offset + ChunkLen
        BY <3>2 DEF MoreFragments, ChunkEnd
      <4> QED BY <1>7, <3>2, <4>1, <4>2 DEF UnbrokenInv, Writes
    <3> QED BY <3>1, <3>2 DEF Writes
  <2>4. d.op = task[p][t].op /\ d.data = task[p][t].data
    BY <1>1 DEF Writes
  <2>5. wire[p] \in Seq(F)
    BY <1>4
  <2> DEFINE f == SealedFrame(p, c)
  <2> HIDE DEF d, f
  <2>6. Unbroken(Append(wire[p], f), d)
    BY <1>1, <2>2, <2>3, <2>4, <2>5, FragmentFollows DEF f
  <2> QED BY <2>1, <2>6 DEF f
<1> HIDE DEF d
<1> SUFFICES ASSUME NEW o \in Peers, NEW u \in Callers
             PROVE  /\ task'[o][u].pc = "lock" => task'[o][u].offset = 0
                    /\ task'[o][u].pc = "drain" /\ ~transport_closed'[o] =>
                          Unbroken(wire'[o], task'[o][u])
  BY DEF UnbrokenInv, Unbroken, Plaintext, ChunkEnd
<1>8. CASE o = p /\ u = t
  BY <1>1, <1>2, <1>3, <1>7, <1>8
<1>9. CASE o = p /\ u # t
  BY <1>3, <1>6, <1>9 DEF UnbrokenInv
<1>10. CASE o # p
  BY <1>2, <1>3, <1>5, <1>10 DEF UnbrokenInv
<1> QED BY <1>8, <1>9, <1>10

(* The other effects write nothing, and no call gets to a drain by them. *)
LEMMA OthersUnbroken ==
    ASSUME TypeInv, UnbrokenInv, NEW p \in Peers, NEW t \in Callers, UNCHANGED wire,
           \E r : task' = [task EXCEPT ![p][t] = r] /\ r.pc # "drain" /\ r.offset = 0,
           \A o \in Peers : transport_closed[o] => transport_closed'[o]
    PROVE  UnbrokenInv'
<1>1. PICK r : task' = [task EXCEPT ![p][t] = r] /\ r.pc # "drain" /\ r.offset = 0
  OBVIOUS
<1>2. \A o \in Peers : \A u \in Callers :
         task'[o][u] = IF o = p /\ u = t THEN r ELSE task[o][u]
  BY <1>1 DEF TypeInv
<1> QED BY <1>1, <1>2 DEF UnbrokenInv, Unbroken, Plaintext, ChunkEnd

LEMMA UnbrokenEffect ==
    ASSUME TypeInv, QueueInv, UnbrokenInv, NEW p \in Peers, Effect(p)
    PROVE  UnbrokenInv'
<1>2. ASSUME NEW t \in Callers, NEW op, NEW data, Joins(p, t, op, data)
      PROVE  UnbrokenInv'
  <2> DEFINE r == [op |-> op, data |-> data, offset |-> 0, pc |-> "lock"]
  <2>1. task' = [task EXCEPT ![p][t] = r] /\ UNCHANGED <<wire, transport_closed>>
    BY <1>2 DEF Joins, Enqueue
  <2>2. r.pc # "drain" /\ r.offset = 0
    OBVIOUS
  <2> HIDE DEF r
  <2> QED BY <2>1, <2>2, OthersUnbroken
<1>3. ASSUME NEW t \in Callers, Leave(p, t)
      PROVE  UnbrokenInv'
  <2>1. /\ task' = [task EXCEPT ![p][t] = Idle] /\ UNCHANGED wire
        /\ transport_closed' = [transport_closed EXCEPT ![p] = @ \/ task[p][t].op = "BYE"]
    BY <1>3 DEF Leave
  <2>2. Idle.pc # "drain" /\ Idle.offset = 0
    BY DEF Idle
  <2>3. \A o \in Peers : transport_closed[o] => transport_closed'[o]
    BY <2>1 DEF TypeInv
  <2> QED BY <2>1, <2>2, <2>3, OthersUnbroken
<1>4. ASSUME NEW s \in Salts, AcceptRekey(p, s)
      PROVE  UnbrokenInv'
  <2>1. UNCHANGED <<task, wire, transport_closed>>
    BY <1>4 DEF AcceptRekey
  <2> QED BY <2>1 DEF UnbrokenInv, Unbroken, Plaintext, ChunkEnd
<1>5. ASSUME NEW t \in Callers, Leaves(p, t) \/ RekeyDone(p, t)
      PROVE  Leave(p, t)
  BY <1>5 DEF Leaves, RekeyDone
<1>6. CASE Stands
  BY <1>6 DEF Stands, UnbrokenInv, Unbroken, Plaintext, ChunkEnd
<1> QED BY <1>2, <1>3, <1>4, <1>5, <1>6, WriteUnbroken DEF Effect

(* The fragments of a message follow one another on the wire, whatever     *)
(* other calls, PONGs, failures and cancellations there are, for every     *)
(* length of message and of chunk.                                         *)
THEOREM MessagesUnbroken == Spec => []MessageUnbroken
<1>1. Init => UnbrokenInv
  BY DEF Init, Idle, UnbrokenInv
<1>2. UnbrokenInv => MessageUnbroken
  BY DEF UnbrokenInv, Unbroken, MessageUnbroken
<1>3. TypeInv /\ QueueInv /\ UnbrokenInv /\ [Next]_sessionVars => UnbrokenInv'
  <2> SUFFICES ASSUME TypeInv, QueueInv, UnbrokenInv, [Next]_sessionVars PROVE UnbrokenInv'
    OBVIOUS
  <2>1. CASE UNCHANGED sessionVars
    BY <2>1 DEF sessionVars, UnbrokenInv, Unbroken, Plaintext, ChunkEnd
  <2>2. CASE Next
    BY <2>2, StepEffects, UnbrokenEffect
  <2> QED BY <2>1, <2>2
<1> QED BY <1>1, <1>2, <1>3, QueueCorrect, PTL DEF Spec

-----------------------------------------------------------------------------
(* What the proofs about the transports share.  Two sessions are two peers *)
(* whose REKEYs carry a salt from one to the other.                        *)
LEMMA PeerFacts ==
    \A p \in Peers : Other(p) \in Peers /\ Other(p) # p /\ Other(Other(p)) = p
                     /\ \A q \in Peers : q = p \/ q = Other(p)
BY PeersAssumption DEF Peers, Other

LEMMA StandStill ==
    ASSUME TypeInv, UNCHANGED sessionVars
    PROVE  Stands
<1>1. SameKeys
  BY UnchangedKeys DEF sessionVars
<1> QED BY <1>1 DEF sessionVars, Stands, TypeInv

(* What the effects of the sending half do to the tasks and to the wire. *)
LEMMA JoinFacts ==
    ASSUME TypeInv, NEW p \in Peers, NEW t \in Callers, NEW op, NEW data, Joins(p, t, op, data)
    PROVE  /\ UNCHANGED wire
           /\ task[p][t].pc = "idle"
           /\ task'[p][t].pc = "lock" /\ task'[p][t].op = op /\ task'[p][t].data = data
           /\ task'[p][t].offset = 0
           /\ \A q \in Peers : \A u \in Callers : q # p \/ u # t => task'[q][u] = task[q][u]
<1> DEFINE c == [op |-> op, data |-> data, offset |-> 0, pc |-> "lock"]
<1>1. /\ UNCHANGED wire /\ task[p][t].pc = "idle" /\ task' = [task EXCEPT ![p][t] = c]
  BY DEF Joins, Enqueue
<1>2. c.pc = "lock" /\ c.op = op /\ c.data = data /\ c.offset = 0
  OBVIOUS
<1> HIDE DEF c
<1>3. \A q \in Peers : \A u \in Callers :
         task'[q][u] = IF q = p /\ u = t THEN c ELSE task[q][u]
  BY <1>1 DEF TypeInv
<1> QED BY <1>1, <1>2, <1>3

LEMMA LeaveFacts ==
    ASSUME TypeInv, NEW p \in Peers, NEW t \in Callers, Leave(p, t)
    PROVE  /\ UNCHANGED <<wire, salts>>
           /\ task'[p][t].pc = "idle" /\ task'[p][t].op = "none"
           /\ \A q \in Peers : \A u \in Callers : q # p \/ u # t => task'[q][u] = task[q][u]
<1>1. UNCHANGED <<wire, salts>> /\ task' = [task EXCEPT ![p][t] = Idle]
  BY DEF Leave
<1>2. \A q \in Peers : \A u \in Callers :
         task'[q][u] = IF q = p /\ u = t THEN Idle ELSE task[q][u]
  BY <1>1 DEF TypeInv
<1> QED BY <1>1, <1>2 DEF Idle

Text == Seq(Bytes \cup Salts)

(* What is on the wire. *)
FrameOK(f) ==
    /\ f.type \in {"none", "DATA", "DATA_FRAG", "PING", "PONG", "REKEY", "BYE"}
    /\ f.seq \in 0 .. MaxSeq
    /\ f.body \in Text
    /\ f.type = "DATA_FRAG" => Len(f.body) > 0

(* A frame put on the wire is well formed, and a fragment is not empty. *)
LEMMA SealedOK ==
    ASSUME TypeInv, NEW p \in Peers, NEW c \in CallRecords
    PROVE  FrameOK(SealedFrame(p, c))
<1> DEFINE f == SealedFrame(p, c)
           e == ChunkEnd(c.data, c.offset)
<1>1. /\ c.op \in {"none", "DATA", "PING", "PONG", "REKEY", "BYE"}
      /\ c.data \in Seq(Bytes \cup Salts) /\ c.offset \in Nat
  BY DEF CallRecords
<1>2. ChunkLen \in Nat \ {0} /\ Len(c.data) \in Nat
  BY <1>1, LengthAssumption, LenProperties
<1>3. e \in Nat /\ e <= Len(c.data) /\ (e < Len(c.data) => e = c.offset + ChunkLen)
  BY <1>1, <1>2 DEF ChunkEnd
<1> HIDE DEF e
<1>4. /\ SubSeq(c.data, c.offset + 1, e) \in Text
      /\ Len(SubSeq(c.data, c.offset + 1, e)) =
            IF c.offset + 1 <= e THEN e - (c.offset + 1) + 1 ELSE 0
  <2>1. \A i \in c.offset + 1 .. e : c.data[i] \in Bytes \cup Salts
    <3> SUFFICES ASSUME NEW i \in c.offset + 1 .. e PROVE c.data[i] \in Bytes \cup Salts
      OBVIOUS
    <3>1. i \in 1 .. Len(c.data)
      BY <1>1, <1>2, <1>3
    <3> QED BY <1>1, <3>1, ElementOfSeq
  <2>2. c.offset + 1 \in Int /\ e \in Int
    BY <1>1, <1>3
  <2> QED BY <2>1, <2>2, SubSeqProperties DEF Text
<1>5. f.type \in {"none", "DATA", "DATA_FRAG", "PING", "PONG", "REKEY", "BYE"}
  BY <1>1 DEF SealedFrame, PacketType
<1>6. f.seq \in 0 .. MaxSeq
  BY DEF SealedFrame, TypeInv, Infos
<1>7. f.body \in Text
  BY <1>1, <1>4 DEF SealedFrame, Plaintext, Text, e
<1>8. ASSUME f.type = "DATA_FRAG" PROVE Len(f.body) > 0
  <2>1. c.op = "DATA" /\ e < Len(c.data)
    BY <1>1, <1>8 DEF SealedFrame, PacketType, e
  <2>2. f.body = SubSeq(c.data, c.offset + 1, e)
    BY <2>1 DEF SealedFrame, Plaintext, e
  <2>3. c.offset + 1 <= e
    BY <1>1, <1>2, <1>3, <2>1
  <2>4. e - (c.offset + 1) + 1 > 0
    BY <1>1, <1>3, <2>3
  <2> QED BY <1>4, <2>2, <2>3, <2>4
<1> QED BY <1>5, <1>6, <1>7, <1>8 DEF FrameOK

(* The wire of the writer is the same, or longer by the frame f. *)
Longer(w, v, f) ==
    /\ Len(w) \in Nat /\ Len(v) \in Nat /\ Len(w) <= Len(v)
    /\ \A i \in 1 .. Len(w) : i \in 1 .. Len(v) /\ v[i] = w[i]
    /\ \A i \in 1 .. Len(v) : i \in 1 .. Len(w) \/ (i = Len(w) + 1 /\ v[i] = f)

LEMMA WriteFacts ==
    ASSUME TypeInv, NEW p \in Peers, NEW t \in Callers, NEW c, Writes(p, t, c)
    PROVE  /\ UNCHANGED salts
           /\ task[p][t].pc # "idle" /\ task'[p][t].pc = "drain"
           /\ task'[p][t].op = task[p][t].op /\ task'[p][t].data = task[p][t].data
           /\ task'[p][t].offset = c.offset
           /\ \A q \in Peers : \A u \in Callers : q # p \/ u # t => task'[q][u] = task[q][u]
           /\ \A q \in Peers : q # p => wire'[q] = wire[q] /\ info'[q] = info[q]
           /\ info'[p].tx_key = info[p].tx_key /\ info'[p].rx_key = info[p].rx_key
           /\ info'[p].rx_seq = info[p].rx_seq
           /\ info'[p].rx_window_bitmap = info[p].rx_window_bitmap
           /\ info'[p].tx_seq = BurnSeq(info[p].tx_seq)
           /\ Longer(wire[p], wire'[p], SealedFrame(p, c))
           /\ FrameOK(SealedFrame(p, c))
<1> DEFINE d == [c EXCEPT !.pc = "drain"]
           f == SealedFrame(p, c)
           w == wire[p]
<1>1. PICK K, F : info \in [Peers -> Infos(K)] /\ wire \in [Peers -> Seq(F)]
  BY DEF TypeInv
<1>2. /\ task' = [task EXCEPT ![p][t] = d]
      /\ info' = [info EXCEPT ![p].tx_seq = BurnSeq(@)]
      /\ salts' = salts
  BY DEF Writes, WriteFrame
<1>3. /\ d.op = task[p][t].op /\ d.data = task[p][t].data /\ d.pc = "drain"
      /\ d.offset = c.offset
      /\ task[p][t].pc # "idle" /\ c \in CallRecords
  BY DEF Writes, CallRecords
<1> HIDE DEF d
<1>4. \A q \in Peers : \A u \in Callers :
         task'[q][u] = IF q = p /\ u = t THEN d ELSE task[q][u]
  BY <1>2 DEF TypeInv
<1>5. /\ info'[p].tx_key = info[p].tx_key /\ info'[p].rx_key = info[p].rx_key
      /\ info'[p].rx_seq = info[p].rx_seq
      /\ info'[p].rx_window_bitmap = info[p].rx_window_bitmap
      /\ info'[p].tx_seq = BurnSeq(info[p].tx_seq)
  BY <1>1, <1>2 DEF Infos
<1>6. ASSUME NEW q \in Peers, q # p
      PROVE  info'[q] = info[q] /\ wire'[q] = wire[q]
  BY <1>1, <1>2, <1>6 DEF Writes, WriteFrame
<1>7. FrameOK(f)
  BY <1>3, SealedOK
<1>8. w \in Seq(F \cup {f}) /\ Len(w) \in Nat
  BY <1>1, SeqMonotonic
<1> HIDE DEF f
<1>9. wire'[p] = w \/ wire'[p] = Append(w, f)
  BY <1>1 DEF Writes, WriteFrame, f
<1>10. Longer(w, wire'[p], f)
  BY <1>8, <1>9, AppendProperties DEF Longer
<1> QED BY <1>2, <1>3, <1>4, <1>5, <1>6, <1>7, <1>10 DEF f

(* A REKEY frame carries the salt of the call that wrote it. *)
LEMMA SealedRekey ==
    ASSUME NEW p \in Peers, NEW t \in Callers, NEW c, Writes(p, t, c),
           SealedFrame(p, c).type = "REKEY"
    PROVE  /\ task[p][t].op = "REKEY" /\ task[p][t].pc = "lock"
           /\ SealedFrame(p, c).body = task[p][t].data
<1>1. c.op = "REKEY"
  BY DEF SealedFrame, PacketType
<1>2. c.op = task[p][t].op /\ c.data = task[p][t].data
      /\ (task[p][t].pc = "lock" \/ (task[p][t].pc = "drain" /\ c.op = "DATA"))
  BY DEF Writes
<1> QED BY <1>1, <1>2 DEF SealedFrame, Plaintext

(* The salts.  D says which peer drew each.  The side that draws a salt    *)
(* seals with the first half of what is derived from it, the other side    *)
(* with the second.                                                        *)
Proper(D, p, k) ==
    \/ k.salt = HandshakeSalt /\ k.half = (IF p = Client THEN 1 ELSE 2)
    \/ k.salt \in D[p] /\ k.half = 1
    \/ k.salt \in D[Other(p)] /\ k.half = 2

Drawn(D) ==
    /\ D \in [Peers -> SUBSET Salts]
    /\ \A p \in Peers :
          /\ D[p] \subseteq salts[p]
          /\ D[p] \cap D[Other(p)] = {}
          /\ Proper(D, p, info[p].tx_key)
          /\ \A i \in 1 .. Len(wire[p]) :
                /\ Proper(D, p, wire[p][i].key)
                /\ wire[p][i].type = "REKEY" => wire[p][i].body[1] \in D[p]
          /\ \A t \in Callers : task[p][t].op = "REKEY" => task[p][t].data[1] \in D[p]

DrawnInv == \E D : Drawn(D)

LEMMA ProperGrows ==
    ASSUME NEW D, NEW E, \A q \in Peers : D[q] \subseteq E[q],
           NEW p \in Peers, NEW k, Proper(D, p, k)
    PROVE  Proper(E, p, k)
BY PeerFacts DEF Proper

(* No salt travels twice, and one that has not left is unknown to the      *)
(* other peer.                                                             *)
Travels(p) ==
    /\ info[p].rx_key.salt = info[p].tx_key.salt
    /\ \A i, j \in 1 .. Len(wire[p]) :
          i # j /\ wire[p][i].type = "REKEY" /\ wire[p][j].type = "REKEY" =>
              wire[p][i].body[1] # wire[p][j].body[1]
    /\ \A t \in Callers : task[p][t].op = "REKEY" /\ task[p][t].pc = "lock" =>
          /\ task[p][t].data[1] \notin salts[Other(p)]
          /\ \A i \in 1 .. Len(wire[p]) :
                wire[p][i].type = "REKEY" => wire[p][i].body[1] # task[p][t].data[1]

SaltInv == DrawnInv /\ \A p \in Peers : Travels(p)

PairInv == NonceInv /\ SaltInv

(* The effects in a pair: rekey() draws a salt new to both peers, and the  *)
(* salt that recv() takes from a REKEY of the other peer is new here.      *)
Draws(p, t, op, data) ==
    /\ Joins(p, t, op, data)
    /\ op = "REKEY" => \A q \in Peers : data[1] \notin salts[q]

TakesSalt(p, i) ==
    /\ wire[Other(p)][i].type = "REKEY"
    /\ wire[Other(p)][i].body[1] \notin salts[p]
    /\ AcceptRekey(p, wire[Other(p)][i].body[1])

PairEffect(p) ==
    \/ \E t \in Callers : \E op, data : Draws(p, t, op, data)
    \/ \E t \in Callers : \E c : Writes(p, t, c)
    \/ \E t \in Callers : Leaves(p, t)
    \/ \E t \in Callers : RekeyDone(p, t)
    \/ \E i \in 1 .. Len(wire[Other(p)]) : TakesSalt(p, i)
    \/ Stands

LEMMA EffectOfPair ==
    ASSUME SaltInv, NEW p \in Peers, PairEffect(p)
    PROVE  Effect(p)
<1>1. ASSUME NEW i \in 1 .. Len(wire[Other(p)]), TakesSalt(p, i) PROVE Effect(p)
  <2>1. wire[Other(p)][i].body[1] \in Salts
    BY <1>1, PeerFacts DEF TakesSalt, SaltInv, DrawnInv, Drawn
  <2> QED BY <1>1, <2>1 DEF TakesSalt, Effect
<1> QED BY <1>1 DEF PairEffect, Draws, Effect

(* What a rotation installs. *)
LEMMA RotatedFacts ==
    ASSUME TypeInv, NEW p \in Peers, NEW b \in BOOLEAN, NEW s,
           info' = [info EXCEPT ![p] = Rotated(@, b, s)]
    PROVE  /\ info'[p].tx_key.salt = s /\ info'[p].rx_key.salt = s
           /\ info'[p].tx_key.half = (IF b THEN 1 ELSE 2)
           /\ info'[p].rx_seq = 0 /\ info'[p].rx_window_bitmap = {}
           /\ \A q \in Peers : q # p => info'[q] = info[q]
<1>1. info'[p] = Rotated(info[p], b, s) /\ \A q \in Peers : q # p => info'[q] = info[q]
  BY DEF TypeInv
<1> QED BY <1>1 DEF Rotated, DeriveRekeyKeys, Hkdf

(* Who drew a salt stays known: the caller of rekey() draws, and everyone  *)
(* else takes the salt from the caller's task or from its frame.           *)
LEMMA DrawnNext ==
    ASSUME TypeInv, NEW p \in Peers, DrawnInv, PairEffect(p)
    PROVE  DrawnInv'
<1>1. PICK D : Drawn(D)
  BY DEF DrawnInv
<1>2. ASSUME NEW t \in Callers, NEW op, NEW data, Draws(p, t, op, data)
      PROVE  DrawnInv'
  <2>1. Joins(p, t, op, data) /\ (op = "REKEY" => \A q \in Peers : data[1] \notin salts[q])
    BY <1>2 DEF Draws
  <2>3. /\ UNCHANGED wire
        /\ task'[p][t].op = op /\ task'[p][t].data = data
        /\ \A q \in Peers : \A u \in Callers : q # p \/ u # t => task'[q][u] = task[q][u]
    BY <2>1, JoinFacts
  <2>4. \A q \in Peers : info'[q].tx_key = info[q].tx_key
    BY <2>1 DEF Joins, SameKeys
  <2>5. CASE op # "REKEY"
    <3>1. UNCHANGED salts
      BY <2>1, <2>5 DEF Joins
    <3>2. Drawn(D)'
      BY <1>1, <2>3, <2>4, <2>5, <3>1 DEF Drawn, Proper
    <3> QED BY <3>2 DEF DrawnInv
  <2>6. CASE op = "REKEY"
    <3>1. PICK s : s = data[1]
      OBVIOUS
    <3>2. s \in Salts /\ salts' = [salts EXCEPT ![p] = @ \cup {s}]
          /\ \A q \in Peers : s \notin salts[q]
      BY <2>1, <2>6, <3>1 DEF Joins
    <3>3. PICK E : E = [D EXCEPT ![p] = @ \cup {s}]
      OBVIOUS
    <3>4. E \in [Peers -> SUBSET Salts] /\ E[p] = D[p] \cup {s}
          /\ \A q \in Peers : q # p => E[q] = D[q]
      BY <1>1, <3>2, <3>3 DEF Drawn
    <3>5. salts'[p] = salts[p] \cup {s} /\ \A q \in Peers : q # p => salts'[q] = salts[q]
      BY <3>2 DEF TypeInv
    <3>6. \A q \in Peers : D[q] \subseteq E[q]
      BY <3>4
    <3>7. ASSUME NEW q \in Peers
          PROVE  E[q] \subseteq salts'[q] /\ E[q] \cap E[Other(q)] = {}
      <4>1. \A o \in Peers : D[o] \subseteq salts[o] /\ D[o] \cap D[Other(o)] = {}
        BY <1>1 DEF Drawn
      <4> QED BY <3>2, <3>4, <3>5, <4>1, PeerFacts
    <3>8. ASSUME NEW q \in Peers
          PROVE  /\ Proper(E, q, info'[q].tx_key)
                 /\ \A i \in 1 .. Len(wire'[q]) :
                       /\ Proper(E, q, wire'[q][i].key)
                       /\ wire'[q][i].type = "REKEY" => wire'[q][i].body[1] \in E[q]
      BY <1>1, <2>3, <2>4, <3>6, ProperGrows DEF Drawn
    <3>9. ASSUME NEW q \in Peers, NEW u \in Callers, task'[q][u].op = "REKEY"
          PROVE  task'[q][u].data[1] \in E[q]
      <4>1. CASE q = p /\ u = t
        BY <2>3, <3>1, <3>4, <4>1
      <4>2. CASE ~(q = p /\ u = t)
        BY <1>1, <2>3, <3>6, <3>9, <4>2 DEF Drawn
      <4> QED BY <4>1, <4>2
    <3>10. Drawn(E)'
      BY <3>4, <3>7, <3>8, <3>9 DEF Drawn, Proper
    <3> QED BY <3>10 DEF DrawnInv
  <2> QED BY <2>5, <2>6
<1>3. ASSUME NEW t \in Callers, NEW c, Writes(p, t, c)
      PROVE  DrawnInv'
  <2> DEFINE f == SealedFrame(p, c)
  <2>2. /\ task'[p][t].op = task[p][t].op /\ task'[p][t].data = task[p][t].data
        /\ \A q \in Peers : \A u \in Callers : q # p \/ u # t => task'[q][u] = task[q][u]
        /\ \A q \in Peers : q # p => wire'[q] = wire[q] /\ info'[q] = info[q]
        /\ info'[p].tx_key = info[p].tx_key
        /\ Longer(wire[p], wire'[p], f)
        /\ UNCHANGED salts
    BY <1>3, WriteFacts
  <2>3. f.key = info[p].tx_key
    BY DEF SealedFrame
  <2>4. f.type = "REKEY" => f.body[1] \in D[p]
    BY <1>1, <1>3, SealedRekey DEF Drawn
  <2> HIDE DEF f
  <2>5. \A q \in Peers : info'[q].tx_key = info[q].tx_key
    BY <2>2
  <2>6. ASSUME NEW q \in Peers, NEW i \in 1 .. Len(wire'[q])
        PROVE  /\ Proper(D, q, wire'[q][i].key)
               /\ wire'[q][i].type = "REKEY" => wire'[q][i].body[1] \in D[q]
    <3>1. CASE q # p
      BY <1>1, <2>2, <3>1 DEF Drawn
    <3>2. CASE q = p /\ i \in 1 .. Len(wire[p])
      BY <1>1, <2>2, <3>2 DEF Drawn, Longer
    <3>3. CASE q = p /\ wire'[q][i] = f
      BY <1>1, <2>3, <2>4, <3>3 DEF Drawn
    <3> QED BY <2>2, <3>1, <3>2, <3>3 DEF Longer
  <2>7. \A q \in Peers : \A u \in Callers :
            task'[q][u].op = "REKEY" => task'[q][u].data[1] \in D[q]
    BY <1>1, <2>2 DEF Drawn
  <2>8. Drawn(D)'
    BY <1>1, <2>2, <2>5, <2>6, <2>7 DEF Drawn, Proper
  <2> QED BY <2>8 DEF DrawnInv
<1>4. ASSUME UNCHANGED wire,
             \A q \in Peers : salts[q] \subseteq salts'[q] /\ Proper(D, q, info'[q].tx_key),
             \A q \in Peers : \A t \in Callers :
                 task'[q][t].op = "REKEY" => task'[q][t] = task[q][t]
      PROVE  DrawnInv'
  <2>1. Drawn(D)'
    BY <1>1, <1>4 DEF Drawn, Proper
  <2> QED BY <2>1 DEF DrawnInv
<1>5. ASSUME NEW b \in BOOLEAN, NEW s, info' = [info EXCEPT ![p] = Rotated(@, b, s)],
             s \in D[IF b THEN p ELSE Other(p)]
      PROVE  \A q \in Peers : Proper(D, q, info'[q].tx_key)
  <2>0. info'[p].tx_key.salt = s /\ info'[p].tx_key.half = (IF b THEN 1 ELSE 2)
    BY <1>5, RotatedFacts
  <2>1. Proper(D, p, info'[p].tx_key)
    BY <1>5, <2>0 DEF Proper
  <2>2. \A q \in Peers : q # p => info'[q] = info[q]
    BY <1>5, RotatedFacts
  <2> QED BY <1>1, <2>1, <2>2 DEF Drawn
<1>6. ASSUME NEW t \in Callers, Leaves(p, t) PROVE DrawnInv'
  <2>1. \A q \in Peers : info'[q].tx_key = info[q].tx_key
    BY <1>6 DEF Leaves, SameKeys
  <2>2. UNCHANGED <<wire, salts>> /\ \A q \in Peers : \A u \in Callers :
            task'[q][u].op = "REKEY" => task'[q][u] = task[q][u]
    BY <1>6, LeaveFacts DEF Leaves
  <2> QED BY <1>1, <1>4, <2>1, <2>2 DEF Drawn
<1>7. ASSUME NEW t \in Callers, RekeyDone(p, t) PROVE DrawnInv'
  <2>1. task[p][t].data[1] \in D[p]
    BY <1>1, <1>7 DEF RekeyDone, Drawn
  <2>2. \A q \in Peers : Proper(D, q, info'[q].tx_key)
    BY <1>5, <1>7, <2>1 DEF RekeyDone
  <2>3. UNCHANGED <<wire, salts>> /\ \A q \in Peers : \A u \in Callers :
            task'[q][u].op = "REKEY" => task'[q][u] = task[q][u]
    BY <1>7, LeaveFacts DEF RekeyDone
  <2> QED BY <1>4, <2>2, <2>3
<1>8. ASSUME NEW i \in 1 .. Len(wire[Other(p)]), TakesSalt(p, i) PROVE DrawnInv'
  <2>1. PICK s : s = wire[Other(p)][i].body[1]
    OBVIOUS
  <2>2. s \in D[Other(p)] /\ AcceptRekey(p, s)
    BY <1>1, <1>8, <2>1, PeerFacts DEF TakesSalt, Drawn
  <2>3. \A q \in Peers : Proper(D, q, info'[q].tx_key)
    BY <1>5, <2>2 DEF AcceptRekey
  <2>4. UNCHANGED <<wire, task>> /\ \A q \in Peers : salts[q] \subseteq salts'[q]
    BY <2>2 DEF AcceptRekey, TypeInv
  <2> QED BY <1>4, <2>3, <2>4
<1>9. CASE Stands
  BY <1>1, <1>4, <1>9 DEF Stands, SameKeys, Drawn
<1> QED BY <1>2, <1>3, <1>6, <1>7, <1>8, <1>9 DEF PairEffect

(* What two steps of a pair have in common that neither join nor write:    *)
(* no task begins a rekey, and no frame is added.                          *)
LEMMA TravelsKept ==
    ASSUME NEW p \in Peers, Travels(p), wire'[p] = wire[p],
           info'[p].rx_key.salt = info'[p].tx_key.salt,
           \A t \in Callers : task'[p][t].op = "REKEY" => task'[p][t] = task[p][t],
           \A t \in Callers : task[p][t].op = "REKEY" /\ task[p][t].pc = "lock" =>
               task[p][t].data[1] \notin salts'[Other(p)]
    PROVE  Travels(p)'
BY DEF Travels

LEMMA TravelsNext ==
    ASSUME NonceInv, SaltInv, NEW p \in Peers, PairEffect(p), NEW q \in Peers
    PROVE  Travels(q)'
<1> USE PeerFacts
<1>0. TypeInv /\ AllNonces /\ Travels(q) /\ Travels(p)
  BY DEF NonceInv, SaltInv
<1>1. PICK D : Drawn(D)
  BY DEF SaltInv, DrawnInv
<1>2. ASSUME NEW t \in Callers, NEW op, NEW data, Draws(p, t, op, data)
      PROVE  Travels(q)'
  <2>1. Joins(p, t, op, data) /\ (op = "REKEY" => \A o \in Peers : data[1] \notin salts[o])
    BY <1>2 DEF Draws
  <2>2. /\ UNCHANGED wire
        /\ task'[p][t].op = op /\ task'[p][t].data = data
        /\ \A o \in Peers : \A u \in Callers : o # p \/ u # t => task'[o][u] = task[o][u]
    BY <1>0, <2>1, JoinFacts
  <2>3. \A o \in Peers : info'[o].rx_key.salt = info'[o].tx_key.salt
    BY <2>1 DEF Joins, SameKeys, SaltInv, Travels
  <2>4. CASE op # "REKEY"
    <3>1. UNCHANGED salts
      BY <2>1, <2>4 DEF Joins
    <3>2. \A u \in Callers : task'[q][u].op = "REKEY" => task'[q][u] = task[q][u]
      BY <2>2, <2>4
    <3>3. \A u \in Callers : task[q][u].op = "REKEY" /\ task[q][u].pc = "lock" =>
               task[q][u].data[1] \notin salts'[Other(q)]
      BY <1>0, <3>1 DEF Travels
    <3> QED BY <1>0, <2>2, <2>3, <3>2, <3>3, TravelsKept
  <2>5. CASE op = "REKEY"
    <3>1. PICK s : s = data[1]
      OBVIOUS
    <3>2. salts' = [salts EXCEPT ![p] = @ \cup {s}] /\ \A o \in Peers : s \notin salts[o]
      BY <2>1, <2>5, <3>1 DEF Joins
    <3>3. \A o \in Peers : salts'[o] = IF o = p THEN salts[o] \cup {s} ELSE salts[o]
      BY <1>0, <3>2 DEF TypeInv
    <3>4. /\ \A i \in 1 .. Len(wire[q]) : wire[q][i].type = "REKEY" => wire[q][i].body[1] # s
          /\ \A u \in Callers : task[q][u].op = "REKEY" => task[q][u].data[1] # s
      BY <1>1, <3>2 DEF Drawn
    <3>5. Other(q) \in Peers /\ salts'[Other(q)] \subseteq salts[Other(q)] \cup {s}
      BY <3>3
    <3>6. ASSUME NEW u \in Callers, task'[q][u].op = "REKEY", task'[q][u].pc = "lock"
          PROVE  /\ task'[q][u].data[1] \notin salts'[Other(q)]
                 /\ \A i \in 1 .. Len(wire[q]) :
                       wire[q][i].type = "REKEY" => wire[q][i].body[1] # task'[q][u].data[1]
      <4>1. CASE q = p /\ u = t
        BY <2>2, <3>1, <3>2, <3>3, <3>4, <4>1
      <4>2. CASE ~(q = p /\ u = t)
        <5>1. task'[q][u] = task[q][u]
          BY <2>2, <4>2
        <5> QED BY <1>0, <3>4, <3>5, <3>6, <5>1 DEF Travels
      <4> QED BY <4>1, <4>2
    <3> QED BY <1>0, <2>2, <2>3, <3>6 DEF Travels
  <2> QED BY <2>4, <2>5
<1>3. ASSUME NEW t \in Callers, NEW c, Writes(p, t, c)
      PROVE  Travels(q)'
  <2> DEFINE f == SealedFrame(p, c)
  <2>1. /\ UNCHANGED salts
        /\ task'[p][t].pc = "drain"
        /\ \A o \in Peers : \A u \in Callers : o # p \/ u # t => task'[o][u] = task[o][u]
        /\ \A o \in Peers : o # p => wire'[o] = wire[o] /\ info'[o] = info[o]
        /\ info'[p].tx_key = info[p].tx_key /\ info'[p].rx_key = info[p].rx_key
        /\ Longer(wire[p], wire'[p], f)
    BY <1>0, <1>3, WriteFacts
  <2>2. ASSUME f.type = "REKEY"
        PROVE  /\ task[p][t].op = "REKEY" /\ task[p][t].pc = "lock"
               /\ f.body[1] = task[p][t].data[1]
    BY <1>3, <2>2, SealedRekey
  <2> HIDE DEF f
  <2>3. CASE q # p
    BY <1>0, <2>1, <2>3 DEF Travels
  <2>4. f.type = "REKEY" =>
            \A i \in 1 .. Len(wire[p]) : wire[p][i].type = "REKEY" => wire[p][i].body[1] # f.body[1]
    BY <1>0, <2>2 DEF Travels
  <2>5. f.type = "REKEY" =>
            \A u \in Callers : u # t /\ task[p][u].op = "REKEY" => task[p][u].data[1] # f.body[1]
    BY <1>0, <2>2 DEF AllNonces, PeerNonces, PendingFresh
  <2>6. \A i \in 1 .. Len(wire'[p]) :
            (i \in 1 .. Len(wire[p]) /\ wire'[p][i] = wire[p][i]) \/ (i = Len(wire[p]) + 1 /\ wire'[p][i] = f)
    BY <2>1 DEF Longer
  <2>7. \A i, j \in 1 .. Len(wire'[p]) :
            i # j /\ wire'[p][i].type = "REKEY" /\ wire'[p][j].type = "REKEY" =>
                wire'[p][i].body[1] # wire'[p][j].body[1]
    <3> SUFFICES ASSUME NEW i \in 1 .. Len(wire'[p]), NEW j \in 1 .. Len(wire'[p]), i # j,
                        wire'[p][i].type = "REKEY", wire'[p][j].type = "REKEY"
                 PROVE  wire'[p][i].body[1] # wire'[p][j].body[1]
      OBVIOUS
    <3>1. CASE i \in 1 .. Len(wire[p]) /\ j \in 1 .. Len(wire[p])
      <4>1. wire'[p][i] = wire[p][i] /\ wire'[p][j] = wire[p][j]
        BY <2>6, <3>1
      <4> QED BY <1>0, <3>1, <4>1 DEF Travels
    <3>2. CASE i \in 1 .. Len(wire[p]) /\ j \notin 1 .. Len(wire[p])
      <4>1. wire'[p][i] = wire[p][i] /\ wire'[p][j] = f
        BY <2>6, <3>2
      <4> QED BY <2>4, <3>2, <4>1
    <3>3. CASE i \notin 1 .. Len(wire[p]) /\ j \in 1 .. Len(wire[p])
      <4>1. wire'[p][j] = wire[p][j] /\ wire'[p][i] = f
        BY <2>6, <3>3
      <4> QED BY <2>4, <3>3, <4>1
    <3>4. CASE i \notin 1 .. Len(wire[p]) /\ j \notin 1 .. Len(wire[p])
      <4>1. i = Len(wire[p]) + 1 /\ j = Len(wire[p]) + 1
        BY <2>6, <3>4
      <4> QED BY <4>1
    <3> QED BY <3>1, <3>2, <3>3, <3>4
  <2>8. ASSUME NEW u \in Callers, task'[p][u].op = "REKEY", task'[p][u].pc = "lock"
        PROVE  /\ task'[p][u].data[1] \notin salts[Other(p)]
               /\ \A i \in 1 .. Len(wire'[p]) :
                     wire'[p][i].type = "REKEY" => wire'[p][i].body[1] # task'[p][u].data[1]
    <3>1. u # t /\ task'[p][u] = task[p][u]
      BY <2>1, <2>8
    <3> QED BY <1>0, <2>5, <2>6, <2>8, <3>1 DEF Travels
  <2>9. Travels(p)'
    BY <1>0, <2>1, <2>7, <2>8 DEF Travels
  <2> QED BY <2>3, <2>9
<1>4. ASSUME NEW t \in Callers, Leave(p, t), info'[q].rx_key.salt = info'[q].tx_key.salt
      PROVE  Travels(q)'
  <2>1. UNCHANGED <<wire, salts>> /\ \A u \in Callers :
            task'[q][u].op = "REKEY" => task'[q][u] = task[q][u]
    BY <1>0, <1>4, LeaveFacts
  <2>2. \A u \in Callers : task[q][u].op = "REKEY" /\ task[q][u].pc = "lock" =>
             task[q][u].data[1] \notin salts'[Other(q)]
    BY <1>0, <2>1 DEF Travels
  <2> QED BY <1>0, <1>4, <2>1, <2>2, TravelsKept
<1>5. ASSUME NEW t \in Callers, Leaves(p, t) PROVE Travels(q)'
  <2>1. Leave(p, t) /\ info'[q].rx_key.salt = info'[q].tx_key.salt
    BY <1>0, <1>5 DEF Leaves, SameKeys, Travels
  <2> QED BY <1>4, <2>1
<1>6. ASSUME NEW b \in BOOLEAN, NEW s, info' = [info EXCEPT ![p] = Rotated(@, b, s)]
      PROVE  info'[q].rx_key.salt = info'[q].tx_key.salt
  <2>0. info'[p].tx_key.salt = s /\ info'[p].rx_key.salt = s
    BY <1>0, <1>6, RotatedFacts
  <2>1. CASE q = p
    BY <2>0, <2>1
  <2>2. CASE q # p
    <3>1. info'[q] = info[q]
      BY <1>0, <1>6, <2>2, RotatedFacts
    <3> QED BY <1>0, <3>1 DEF Travels
  <2> QED BY <2>1, <2>2
<1>7. ASSUME NEW t \in Callers, RekeyDone(p, t) PROVE Travels(q)'
  BY <1>4, <1>6, <1>7 DEF RekeyDone
<1>8. ASSUME NEW i \in 1 .. Len(wire[Other(p)]), TakesSalt(p, i) PROVE Travels(q)'
  <2>1. PICK s : s = wire[Other(p)][i].body[1]
    OBVIOUS
  <2>2. AcceptRekey(p, s) /\ wire[Other(p)][i].type = "REKEY"
    BY <1>8, <2>1 DEF TakesSalt
  <2>3. info'[q].rx_key.salt = info'[q].tx_key.salt /\ UNCHANGED <<wire, task>>
    BY <1>6, <2>2 DEF AcceptRekey
  <2>4. salts'[p] = salts[p] \cup {s} /\ \A o \in Peers : o # p => salts'[o] = salts[o]
    BY <1>0, <2>2 DEF AcceptRekey, TypeInv
  <2>5. \A u \in Callers : task[q][u].op = "REKEY" /\ task[q][u].pc = "lock" =>
             task[q][u].data[1] \notin salts'[Other(q)]
    BY <1>0, <2>1, <2>2, <2>4 DEF Travels
  <2> QED BY <1>0, <2>3, <2>5, TravelsKept
<1>9. CASE Stands
  <2>1. UNCHANGED <<wire, task, salts>> /\ info'[q].rx_key.salt = info'[q].tx_key.salt
    BY <1>0, <1>9 DEF Stands, SameKeys, Travels
  <2> QED BY <1>0, <2>1, TravelsKept DEF Travels
<1> QED BY <1>2, <1>3, <1>5, <1>7, <1>8, <1>9 DEF PairEffect

(* Each effect keeps what is known of the nonces and of the salts. *)
LEMMA PairNext ==
    ASSUME PairInv, NEW p \in Peers, PairEffect(p)
    PROVE  PairInv'
<1>1. NonceInv /\ SaltInv /\ Effect(p) /\ TypeInv /\ DrawnInv
  BY EffectOfPair DEF PairInv, SaltInv, NonceInv
<1> QED BY <1>1, NonceEffect, DrawnNext, TravelsNext DEF PairInv, SaltInv

LEMMA PairInit == Init => PairInv
<1> SUFFICES ASSUME Init PROVE PairInv
  OBVIOUS
<1>1. NonceInv
  BY NonceInit, QueueInit DEF NonceInv
<1>2. /\ \A p \in Peers : wire[p] = << >> /\ Len(wire[p]) = 0 /\ salts[p] = {}
      /\ \A p \in Peers : \A t \in Callers : task[p][t].op = "none"
      /\ \A p \in Peers : info[p].tx_key = HandshakeKey(p) /\ info[p].rx_key = HandshakeKey(Other(p))
  BY DEF Init, Idle
<1>3. DrawnInv
  <2> DEFINE D == [p \in Peers |-> {}]
  <2>1. D \in [Peers -> SUBSET Salts] /\ \A p \in Peers : D[p] = {}
    OBVIOUS
  <2> HIDE DEF D
  <2>2. ASSUME NEW p \in Peers PROVE Proper(D, p, info[p].tx_key)
    <3>1. /\ HandshakeKey(p).salt = HandshakeSalt
          /\ HandshakeKey(p).half = IF p = Client THEN 1 ELSE 2
      BY DEF HandshakeKey
    <3> QED BY <1>2, <3>1 DEF Proper
  <2>3. Drawn(D)
    BY <1>2, <2>1, <2>2 DEF Drawn
  <2> QED BY <2>3 DEF DrawnInv
<1>4. ASSUME NEW p \in Peers PROVE Travels(p)
  <2>0. \A q : HandshakeKey(q).salt = HandshakeSalt
    BY DEF HandshakeKey
  <2>1. info[p].rx_key.salt = info[p].tx_key.salt
    BY <1>2, <2>0
  <2> QED BY <1>2, <2>1 DEF Travels
<1> QED BY <1>1, <1>3, <1>4 DEF PairInv, SaltInv

=============================================================================
