------------------------------ MODULE Session ------------------------------
(***************************************************************************)
(* The sending half of USMPSession, for the two peers of one session: the  *)
(* SessionInfo each keeps, the calls send(), ping(), rekey() and bye(),    *)
(* the PONG that recv() answers with, the lock they share, and the key     *)
(* rotation.                                                               *)
(*                                                                         *)
(* Every call runs in a task of its own; tasks interleave only at an       *)
(* await.  A call waits for _send_lock (a FIFO asyncio.Lock, kept as the   *)
(* queue of its holder and its waiters), seals and writes a frame in one   *)
(* step, and awaits the transport's drain, where it may also fail (the     *)
(* transport raises OSError) or be cancelled.  The transports, and the     *)
(* receiving half, are added by the modules that extend this one.          *)
(*                                                                         *)
(* AEAD and HKDF are ideal: a key is the record of what it was derived     *)
(* from, and a frame carries the key that sealed it.                       *)
(***************************************************************************)
EXTENDS Integers, Sequences, FiniteSets

CONSTANTS
    Client, Server,   \* the two peers
    Tasks,            \* concurrent callers at each peer
    RecvTask,         \* the task that runs recv(), which sends PONGs
    Msgs,             \* messages an application may send
    MsgLen,           \* their lengths
    Salts,            \* values os.urandom(32) may return in rekey()
    HandshakeSalt,    \* the handshake nonce that salts the first keys
    ChunkLen,         \* USMP_MAX_DATA_LEN, 452 in the code
    MaxFrames,        \* USMP_MAX_FRAMES, 4 in the code
    MaxSeq,           \* 0xFFFFFFFF in the code
    Workload,         \* the kinds of call each application makes
    MaxCalls          \* bound on the calls of each application

Peers == {Client, Server}

Other(p) == IF p = Client THEN Server ELSE Client

Callers == Tasks \cup {RecvTask}

ASSUME PeersAssumption == Client # Server
ASSUME RecvTaskAssumption == RecvTask \notin Tasks
ASSUME SaltAssumption == HandshakeSalt \notin Salts
ASSUME LengthAssumption ==
    /\ ChunkLen \in Nat \ {0}
    /\ MaxFrames \in Nat \ {0}
    /\ MsgLen \in [Msgs -> Nat]
ASSUME SeqAssumption == MaxSeq \in Nat /\ MaxCalls \in [Peers -> Nat]
ASSUME WorkloadAssumption ==
    Workload \in [Peers -> SUBSET {"DATA", "PING", "PONG", "REKEY", "BYE"}]

VARIABLES
    info,              \* SessionInfo: keys, sequence numbers, replay window
    send_lock,         \* _send_lock: its holder, then the tasks waiting
    task,              \* what each task is doing
    wire,              \* every frame each peer has put on the wire, in order
    closed,            \* USMPSession._closed
    transport_closed,  \* the transport's close() was called
    salts,             \* history: salts each peer drew or was sent
    sent,              \* history: messages handed to send(), in order
    calls              \* calls made so far (bounded by MaxCalls)

sessionVars ==
    <<info, send_lock, task, wire, closed, transport_closed, salts, sent, calls>>

-----------------------------------------------------------------------------
(* Keys. *)

(* derive_session_keys: k_c2s and k_s2c, the two halves of one derivation. *)
HandshakeKey(p) ==
    [ikm |-> << >>, salt |-> HandshakeSalt, half |-> IF p = Client THEN 1 ELSE 2]

Hkdf(ikm, salt, half) == [ikm |-> ikm, salt |-> salt, half |-> half]

(* Mutant: the responder takes the halves in the initiator's order. *)
DeriveRekeyKeys_NoSwap(is_initiator, tx_key, rx_key, salt) ==
    LET ikm == IF is_initiator THEN <<tx_key, rx_key>> ELSE <<rx_key, tx_key>>
    IN  [tx |-> Hkdf(ikm, salt, 1), rx |-> Hkdf(ikm, salt, 2)]

(* derive_rekey_keys *)
DeriveRekeyKeys(is_initiator, tx_key, rx_key, salt) ==
    IF is_initiator
    THEN LET ikm == <<tx_key, rx_key>>
         IN  [tx |-> Hkdf(ikm, salt, 1), rx |-> Hkdf(ikm, salt, 2)]
    ELSE LET ikm == <<rx_key, tx_key>>
         IN  [tx |-> Hkdf(ikm, salt, 2), rx |-> Hkdf(ikm, salt, 1)]

(* Mutant: the receive counter is not restarted. *)
Rotated_KeepsRxSeq(i, is_initiator, salt) ==
    LET k == DeriveRekeyKeys(is_initiator, i.tx_key, i.rx_key, salt)
    IN  [tx_key |-> k.tx, rx_key |-> k.rx,
         tx_seq |-> 0, rx_seq |-> i.rx_seq, rx_window_bitmap |-> {}]

(* SessionInfo after a rotation. *)
Rotated(i, is_initiator, salt) ==
    LET k == DeriveRekeyKeys(is_initiator, i.tx_key, i.rx_key, salt)
    IN  [tx_key |-> k.tx, rx_key |-> k.rx,
         tx_seq |-> 0, rx_seq |-> 0, rx_window_bitmap |-> {}]

-----------------------------------------------------------------------------
(* Messages, their fragments, and tasks. *)

Payload(m) == [i \in 1 .. MsgLen[m] |-> <<m, i>>]

(* The end of the chunk of data that starts at offset. *)
ChunkEnd(data, offset) ==
    IF offset + ChunkLen < Len(data) THEN offset + ChunkLen ELSE Len(data)

Idle == [op |-> "none", data |-> << >>, offset |-> 0, pc |-> "idle"]

PacketType(c) ==
    IF c.op = "DATA" /\ ChunkEnd(c.data, c.offset) < Len(c.data)
    THEN "DATA_FRAG" ELSE c.op

Plaintext(c) ==
    IF c.op = "DATA"
    THEN SubSeq(c.data, c.offset + 1, ChunkEnd(c.data, c.offset))
    ELSE c.data

Init ==
    /\ info = [p \in Peers |->
                 [tx_key |-> HandshakeKey(p), rx_key |-> HandshakeKey(Other(p)),
                  tx_seq |-> 0, rx_seq |-> 0, rx_window_bitmap |-> {}]]
    /\ send_lock = [p \in Peers |-> << >>]
    /\ task = [p \in Peers |-> [t \in Callers |-> Idle]]
    /\ wire = [p \in Peers |-> << >>]
    /\ closed = [p \in Peers |-> FALSE]
    /\ transport_closed = [p \in Peers |-> FALSE]
    /\ salts = [p \in Peers |-> {}]
    /\ sent = [p \in Peers |-> << >>]
    /\ calls = [p \in Peers |-> 0]

-----------------------------------------------------------------------------
(* Calls: each one joins the queue of _send_lock. *)

Enqueue(p, t, op, data) ==
    /\ task[p][t].pc = "idle"
    /\ task' = [task EXCEPT ![p][t] =
                  [op |-> op, data |-> data, offset |-> 0, pc |-> "lock"]]
    /\ send_lock' = [send_lock EXCEPT ![p] = Append(@, t)]
    /\ UNCHANGED <<wire, transport_closed>>

Call(p, op) ==
    /\ op \in Workload[p]
    /\ calls[p] < MaxCalls[p]
    /\ calls' = [calls EXCEPT ![p] = @ + 1]

(* send(): an oversized message is refused with PayloadError. *)
Send(p, t, m) ==
    /\ Call(p, "DATA")
    /\ MsgLen[m] <= ChunkLen * MaxFrames
    /\ \A i \in 1 .. Len(sent[p]) : sent[p][i] # m
    /\ Enqueue(p, t, "DATA", Payload(m))
    /\ sent' = [sent EXCEPT ![p] = Append(@, m)]
    /\ UNCHANGED <<info, closed, salts>>

Ping(p, t) ==
    /\ Call(p, "PING")
    /\ Enqueue(p, t, "PING", << >>)
    /\ UNCHANGED <<info, closed, salts, sent>>

(* rekey(): the salt is drawn before the lock is taken; it is random and   *)
(* large, so it differs from every salt used before at either peer.        *)
StartRekey(p, t, s) ==
    /\ Call(p, "REKEY")
    /\ \A q \in Peers : s \notin salts[q]
    /\ salts' = [salts EXCEPT ![p] = @ \cup {s}]
    /\ Enqueue(p, t, "REKEY", <<s>>)
    /\ UNCHANGED <<info, closed, sent>>

(* bye(): does nothing on a session that is already closed. *)
Bye(p, t) ==
    /\ Call(p, "BYE")
    /\ ~closed[p]
    /\ closed' = [closed EXCEPT ![p] = TRUE]
    /\ Enqueue(p, t, "BYE", << >>)
    /\ UNCHANGED <<info, salts, sent>>

(* _send_pong(), awaited by recv() before it counts the control frame. *)
SendPong(p) ==
    /\ Enqueue(p, RecvTask, "PONG", << >>)
    /\ UNCHANGED <<closed, salts, sent, calls>>

-----------------------------------------------------------------------------
(* _send_encrypted_locked, and what the callers do around it. *)

Overflows(p, c) == info[p].tx_seq >= MaxSeq /\ c.op # "BYE"

(* Mutant: the terminal BYE pushes the number past the 4-byte field. *)
BurnSeq_Unclamped(seq) == seq + 1

(* min(seq + 1, 0xFFFFFFFF) *)
BurnSeq(seq) == IF seq < MaxSeq THEN seq + 1 ELSE MaxSeq

SealedFrame(p, c) ==
    [type |-> PacketType(c), seq |-> info[p].tx_seq, key |-> info[p].tx_key,
     body |-> Plaintext(c)]

(* Seal a frame, burn its sequence number, hand it to the transport, and   *)
(* wait for the drain.  A transport that is closed may or may not still    *)
(* put the frame on the wire.                                              *)
WriteFrame(p, t, c) ==
    /\ ~Overflows(p, c)
    /\ task' = [task EXCEPT ![p][t] = [c EXCEPT !.pc = "drain"]]
    /\ info' = [info EXCEPT ![p].tx_seq = BurnSeq(@)]
    /\ \/ wire' = [wire EXCEPT ![p] = Append(@, SealedFrame(p, c))]
       \/ transport_closed[p] /\ UNCHANGED wire
    /\ UNCHANGED <<send_lock, closed, transport_closed, salts, sent, calls>>

(* The queue of a lock without task t. *)
Dequeue(queue, t) ==
    LET k == CHOOSE k \in 1 .. Len(queue) : queue[k] = t
    IN  [i \in 1 .. Len(queue) - 1 |-> IF i < k THEN queue[i] ELSE queue[i + 1]]

(* Mutant: the lock is not released. *)
Leave_KeepsLock(p, t) ==
    /\ task' = [task EXCEPT ![p][t] = Idle]
    /\ transport_closed' =
          [transport_closed EXCEPT ![p] = @ \/ task[p][t].op = "BYE"]
    /\ UNCHANGED <<send_lock, wire, closed, salts, sent, calls>>

(* Mutant: bye() closes the transport only if its frame was written. *)
Leave_ByeMayNotClose(p, t) ==
    /\ task' = [task EXCEPT ![p][t] = Idle]
    /\ send_lock' = [send_lock EXCEPT ![p] = Dequeue(@, t)]
    /\ transport_closed' =
          [transport_closed EXCEPT ![p] =
              @ \/ (task[p][t].op = "BYE" /\ task[p][t].pc = "drain")]
    /\ UNCHANGED <<wire, closed, salts, sent, calls>>

(* The call returns or raises: it leaves the lock's queue, and bye()'s     *)
(* finally clause closes the transport.                                    *)
Leave(p, t) ==
    /\ task' = [task EXCEPT ![p][t] = Idle]
    /\ send_lock' = [send_lock EXCEPT ![p] = Dequeue(@, t)]
    /\ transport_closed' =
          [transport_closed EXCEPT ![p] = @ \/ task[p][t].op = "BYE"]
    /\ UNCHANGED <<wire, closed, salts, sent, calls>>

HasLock(p, t) == send_lock[p] # << >> /\ Head(send_lock[p]) = t

(* Mutant: ping, pong, rekey and bye frames are sent without the lock. *)
Acquire_NoLock(p, t) ==
    /\ task[p][t].pc = "lock"
    /\ HasLock(p, t) \/ task[p][t].op # "DATA"
    /\ WriteFrame(p, t, task[p][t])

(* The lock is ours: the first frame goes out. *)
Acquire(p, t) ==
    /\ task[p][t].pc = "lock"
    /\ HasLock(p, t)
    /\ WriteFrame(p, t, task[p][t])

(* The task as it will be for its next fragment. *)
Advanced(c) == [c EXCEPT !.offset = ChunkEnd(c.data, c.offset)]

MoreFragments(c) == c.op = "DATA" /\ ChunkEnd(c.data, c.offset) < Len(c.data)

(* Mutant: the lock is taken for each fragment, not for the message. *)
NextFragment_Relock(p, t) ==
    /\ task[p][t].pc = "drain"
    /\ MoreFragments(task[p][t])
    /\ task' = [task EXCEPT ![p][t] = [Advanced(@) EXCEPT !.pc = "lock"]]
    /\ send_lock' = [send_lock EXCEPT ![p] = Append(Dequeue(@, t), t)]
    /\ UNCHANGED <<info, wire, closed, transport_closed, salts, sent, calls>>

(* The drain returned inside a message: the loop of send() goes on with    *)
(* the next fragment, still under the lock.                                *)
NextFragment(p, t) ==
    /\ task[p][t].pc = "drain"
    /\ MoreFragments(task[p][t])
    /\ WriteFrame(p, t, Advanced(task[p][t]))

(* "TX sequence overflowed": SequenceError, at the first frame or inside a *)
(* message.                                                                *)
SendOverflow(p, t) ==
    LET c == task[p][t] IN
    /\ \/ c.pc = "lock" /\ HasLock(p, t)
       \/ c.pc = "drain" /\ MoreFragments(c)
    /\ Overflows(p, c)
    /\ Leave(p, t)
    /\ UNCHANGED info

(* The drain of the last frame returned. *)
SendDone(p, t) ==
    /\ task[p][t].pc = "drain"
    /\ ~MoreFragments(task[p][t])
    /\ task[p][t].op # "REKEY"
    /\ Leave(p, t)
    /\ UNCHANGED info

(* The drain of a REKEY frame returned: rekey() rotates, from the keys of  *)
(* this moment, before it releases the lock.                               *)
RekeyDone(p, t) ==
    /\ task[p][t].pc = "drain"
    /\ task[p][t].op = "REKEY"
    /\ info' = [info EXCEPT ![p] = Rotated(@, TRUE, task[p][t].data[1])]
    /\ Leave(p, t)

(* Mutant: the number counts as used only if the write returned. *)
DrainFails_Refunds(p, t) ==
    /\ task[p][t].pc = "drain"
    /\ Leave(p, t)
    /\ info' = [info EXCEPT ![p].tx_seq = IF @ > 0 THEN @ - 1 ELSE 0]

(* The drain raised OSError, or the caller was cancelled in it. *)
DrainFails(p, t) ==
    /\ task[p][t].pc = "drain"
    /\ Leave(p, t)
    /\ UNCHANGED info

(* The caller was cancelled while it waited for the lock. *)
CancelWait(p, t) ==
    /\ task[p][t].pc = "lock"
    /\ Leave(p, t)
    /\ UNCHANGED info

(* recv() accepted a REKEY frame: it rotates at once, without the lock. *)
AcceptRekey(p, s) ==
    /\ info' = [info EXCEPT ![p] = Rotated(@, FALSE, s)]
    /\ salts' = [salts EXCEPT ![p] = @ \cup {s}]
    /\ UNCHANGED <<send_lock, task, wire, closed, transport_closed, sent, calls>>

-----------------------------------------------------------------------------
(* The sending half on its own: PINGs and REKEYs of a peer that is not     *)
(* modelled arrive at any time.  A REKEY carries a salt of the other peer, *)
(* which is fresh here.                                                    *)

PeerPing(p) ==
    /\ Call(p, "PONG")
    /\ Enqueue(p, RecvTask, "PONG", << >>)
    /\ UNCHANGED <<info, closed, salts, sent>>

PeerRekey(p, s) ==
    /\ "REKEY" \in Workload[Other(p)]
    /\ s \notin salts[p]
    /\ task[p][RecvTask].pc = "idle"  \* recv() is reading, not answering
    /\ AcceptRekey(p, s)

CallStep(p) ==
    \/ \E t \in Tasks, m \in Msgs : Send(p, t, m)
    \/ \E t \in Tasks : Ping(p, t)
    \/ \E t \in Tasks, s \in Salts : StartRekey(p, t, s)
    \/ \E t \in Tasks : Bye(p, t)

Next ==
    \E p \in Peers :
        \/ CallStep(p)
        \/ PeerPing(p)
        \/ \E t \in Callers :
              \/ Acquire(p, t) \/ NextFragment(p, t) \/ SendOverflow(p, t)
              \/ SendDone(p, t) \/ RekeyDone(p, t)
              \/ DrainFails(p, t) \/ CancelWait(p, t)
        \/ \E s \in Salts : PeerRekey(p, s)

Spec == Init /\ [][Next]_sessionVars

-----------------------------------------------------------------------------
Bytes == UNION { {<<m, i>> : i \in 1 .. MsgLen[m]} : m \in Msgs }

CallRecords ==
    [op : {"none", "DATA", "PING", "PONG", "REKEY", "BYE"},
     data : Seq(Bytes \cup Salts), offset : Nat, pc : {"idle", "lock", "drain"}]

TypeOK ==
    /\ \A p \in Peers :
          /\ info[p].tx_seq \in 0 .. MaxSeq
          /\ info[p].tx_key.salt \in Salts \cup {HandshakeSalt}
    /\ send_lock \in [Peers -> Seq(Callers)]
    /\ task \in [Peers -> [Callers -> CallRecords]]
    /\ closed \in [Peers -> BOOLEAN]
    /\ transport_closed \in [Peers -> BOOLEAN]
    /\ salts \in [Peers -> SUBSET Salts]

(* No (key, sequence number) pair seals two frames, so no AEAD nonce       *)
(* repeats under a key: across failed and cancelled writes, retries, a     *)
(* spent sequence space and its terminal BYE, and rekeys by either side    *)
(* that race each other.                                                   *)
NonceUnique ==
    \A p \in Peers : \A i, j \in 1 .. Len(wire[p]) :
        i # j => \/ wire[p][i].key # wire[p][j].key
                 \/ wire[p][i].seq # wire[p][j].seq

(* A task between its write and the end of its drain holds the lock, so    *)
(* there is at most one: UDPStream keeps a single pending frame, and a     *)
(* second writer would replace what the first one waits for.               *)
OneWriter ==
    \A p \in Peers : \A t \in Callers :
        task[p][t].pc = "drain" => HasLock(p, t)

(* While send() waits for the drain of a fragment, the fragments it has    *)
(* written so far are the last frames on the wire, in order: no other      *)
(* call, and no PONG, slips in between, whoever else is sending, failing   *)
(* or being cancelled.                                                     *)
MessageUnbroken ==
    \A p \in Peers : \A t \in Callers :
        LET c == task[p][t] IN
        c.pc = "drain" /\ ~transport_closed[p] =>
            \A k \in 0 .. c.offset \div ChunkLen :
                /\ Len(wire[p]) > k
                /\ wire[p][Len(wire[p]) - k].body =
                      Plaintext([c EXCEPT !.offset = @ - k * ChunkLen])

=============================================================================
