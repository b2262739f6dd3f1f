---------------------------- MODULE SessionRecv ----------------------------
(***************************************************************************)
(* The receiving half of USMPSession: what the loop of recv() does with a  *)
(* frame once the transport has delivered it and it is authentic and in    *)
(* order.  The transports differ in how a frame gets that far, and in what *)
(* a protocol violation does: on a reliable transport it is raised to the  *)
(* caller, on the other it drops the partial message and reading goes on.  *)
(*                                                                         *)
(* The local variables of _recv_internal live in the record recv[p]; they  *)
(* are lost when the call returns, raises or is cancelled.                 *)
(***************************************************************************)
EXTENDS Session

SeqExt == INSTANCE SequencesExt

CONSTANTS
    Reliable,   \* the transport's is_reliable
    CtrlLimit   \* control frames allowed per second in one recv(), 8 in the code

ASSUME RecvAssumption == Reliable \in BOOLEAN /\ CtrlLimit \in Nat

VARIABLES
    recv,       \* the recv() call in progress at each peer, if any
    delivered,  \* payloads that recv() has returned, in order
    error       \* what recv() raised, "none" before that

recvVars == <<recv, delivered, error>>

NotReceiving ==
    [pc |-> "idle", payload |-> << >>, frame_count |-> 0,
     expected_frag_seq |-> 0, ctrl_count |-> 0]

Receiving == [NotReceiving EXCEPT !.pc = "reading"]

RecvInit ==
    /\ recv = [p \in Peers |-> NotReceiving]
    /\ delivered = [p \in Peers |-> << >>]
    /\ error = [p \in Peers |-> "none"]

(* The application calls recv(). *)
StartRecv(p) ==
    /\ recv[p].pc = "idle"
    /\ error[p] = "none"
    /\ recv' = [recv EXCEPT ![p] = Receiving]
    /\ UNCHANGED <<delivered, error>>
    /\ UNCHANGED sessionVars

Returns(p, payload) ==
    /\ recv' = [recv EXCEPT ![p] = NotReceiving]
    /\ delivered' = [delivered EXCEPT ![p] = Append(@, payload)]
    /\ UNCHANGED error

Raises(p, e) ==
    /\ recv' = [recv EXCEPT ![p] = NotReceiving]
    /\ error' = [error EXCEPT ![p] = e]
    /\ UNCHANGED delivered

Continues(p, r) ==
    /\ recv' = [recv EXCEPT ![p] = r]
    /\ UNCHANGED <<delivered, error>>

(* The except clause around the dispatch of a frame. *)
Violates(p, e) ==
    IF Reliable
    THEN Raises(p, e)
    ELSE Continues(p, [recv[p] EXCEPT !.payload = << >>, !.frame_count = 0,
                                      !.expected_frag_seq = 0])

-----------------------------------------------------------------------------
(* One action per kind of frame.  i is SessionInfo as the sequence check   *)
(* has left it; f is the frame.                                            *)

OnBye(p, f, i) ==
    /\ f.type = "BYE"
    /\ Raises(p, "closed")
    /\ info' = [info EXCEPT ![p] = i]
    /\ UNCHANGED <<send_lock, task, wire, closed, transport_closed, salts, sent, calls>>

MidMessage(p) == Len(recv[p].payload) > 0

(* "... received during fragmentation" *)
OnIntruder(p, f, i) ==
    /\ f.type \in {"PING", "PONG", "REKEY"}
    /\ MidMessage(p)
    /\ Violates(p, "sequence")
    /\ info' = [info EXCEPT ![p] = i]
    /\ UNCHANGED <<send_lock, task, wire, closed, transport_closed, salts, sent, calls>>

(* The control frame is counted, in a window that starts again after a     *)
(* second: "Too many consecutive control frames" closes the session.       *)
CountControl(p) ==
    \E n \in {recv[p].ctrl_count + 1, 1} :
        IF n > CtrlLimit
        THEN Raises(p, "closed")
        ELSE Continues(p, [recv[p] EXCEPT !.pc = "reading", !.ctrl_count = n])

OnPong(p, f, i) ==
    /\ f.type = "PONG"
    /\ ~MidMessage(p)
    /\ CountControl(p)
    /\ info' = [info EXCEPT ![p] = i]
    /\ UNCHANGED <<send_lock, task, wire, closed, transport_closed, salts, sent, calls>>

(* Mutant: the PONG is sent in the background. *)
OnPing_NoWait(p, f, i) ==
    /\ f.type = "PING"
    /\ ~MidMessage(p)
    /\ SendPong(p)
    /\ info' = [info EXCEPT ![p] = i]
    /\ CountControl(p)

(* A PING is answered before it is counted, and recv() reads nothing more  *)
(* until the PONG is out.                                                  *)
OnPing(p, f, i) ==
    /\ f.type = "PING"
    /\ ~MidMessage(p)
    /\ SendPong(p)
    /\ info' = [info EXCEPT ![p] = i]
    /\ Continues(p, [recv[p] EXCEPT !.pc = "pong"])

(* Mutant: the sequence numbers restart under the old keys. *)
OnRekey_KeepsKeys(p, f, i) ==
    /\ f.type = "REKEY"
    /\ ~MidMessage(p)
    /\ info' = [info EXCEPT ![p] = [i EXCEPT !.tx_seq = 0, !.rx_seq = 0]]
    /\ salts' = [salts EXCEPT ![p] = @ \cup {f.body[1]}]
    /\ UNCHANGED <<send_lock, task, wire, closed, transport_closed, sent, calls>>
    /\ UNCHANGED recvVars

OnRekey(p, f, i) ==
    /\ f.type = "REKEY"
    /\ ~MidMessage(p)
    /\ info' = [info EXCEPT ![p] = Rotated(i, FALSE, f.body[1])]
    /\ salts' = [salts EXCEPT ![p] = @ \cup {f.body[1]}]
    /\ UNCHANGED <<send_lock, task, wire, closed, transport_closed, sent, calls>>
    /\ UNCHANGED recvVars

(* Mutant: fragments are not checked to be consecutive. *)
OnData_AnyFragment(p, f, i) ==
    LET r == recv[p]
        payload == r.payload \o f.body
        count == r.frame_count + 1
    IN
    /\ f.type \in {"DATA", "DATA_FRAG"}
    /\ info' = [info EXCEPT ![p] = i]
    /\ UNCHANGED <<send_lock, task, wire, closed, transport_closed, salts, sent, calls>>
    /\ \/ f.type = "DATA" /\ Returns(p, payload)
       \/ /\ f.type = "DATA_FRAG"
          /\ Continues(p, [r EXCEPT !.payload = payload, !.frame_count = count])

OnData(p, f, i) ==
    LET r == recv[p]
        payload == r.payload \o f.body
        count == r.frame_count + 1
    IN
    /\ f.type \in {"DATA", "DATA_FRAG"}
    /\ info' = [info EXCEPT ![p] = i]
    /\ UNCHANGED <<send_lock, task, wire, closed, transport_closed, salts, sent, calls>>
    /\ \/ /\ r.frame_count > 0 /\ f.seq # r.expected_frag_seq
          /\ Violates(p, "sequence")  \* out-of-order fragment
       \/ /\ r.frame_count = 0 \/ f.seq = r.expected_frag_seq
          /\ \/ f.type = "DATA" /\ Returns(p, payload)
             \/ /\ f.type = "DATA_FRAG" /\ count >= MaxFrames
                /\ Violates(p, "payload")  \* exceeded max fragments limit
             \/ /\ f.type = "DATA_FRAG" /\ count < MaxFrames
                /\ Continues(p, [r EXCEPT !.payload = payload, !.frame_count = count,
                                          !.expected_frag_seq = f.seq + 1])

Dispatch(p, f, i) ==
    \/ OnBye(p, f, i)
    \/ OnIntruder(p, f, i)
    \/ OnPong(p, f, i)
    \/ OnPing(p, f, i)
    \/ OnRekey(p, f, i)
    \/ OnData(p, f, i)

-----------------------------------------------------------------------------
(* The PONG that recv() awaits: it is sent, the numbers are spent (a       *)
(* SequenceError, inside the except clause), or its drain fails (an        *)
(* OSError, which leaves recv() on every transport).                       *)

PongSent(p) ==
    /\ recv[p].pc = "pong"
    /\ SendDone(p, RecvTask)
    /\ CountControl(p)

PongOverflow(p) ==
    /\ recv[p].pc = "pong"
    /\ SendOverflow(p, RecvTask)
    /\ IF Reliable THEN Raises(p, "sequence")
       ELSE Continues(p, [recv[p] EXCEPT !.pc = "reading", !.payload = << >>,
                                         !.frame_count = 0, !.expected_frag_seq = 0])

PongFails(p) ==
    /\ recv[p].pc = "pong"
    /\ DrainFails(p, RecvTask)
    /\ Raises(p, "os_error")

(* wait_for cancels the call, and with it a PONG it is waiting for: the    *)
(* partial message is gone.                                                *)
RecvTimeout(p) ==
    /\ recv' = [recv EXCEPT ![p] = NotReceiving]
    /\ UNCHANGED <<delivered, error>>
    /\ \/ recv[p].pc = "reading" /\ UNCHANGED sessionVars
       \/ recv[p].pc = "pong" /\ (CancelWait(p, RecvTask) \/ DrainFails(p, RecvTask))

-----------------------------------------------------------------------------
(* The payload sequence at p, and what its peer handed to send(). *)
Submitted(p) == [n \in 1 .. Len(sent[p]) |-> Payload(sent[p][n])]

(* Every payload that recv() returns is a message handed to the peer's     *)
(* send(), whole: no truncated message, and no two messages spliced.       *)
DeliveredIntact ==
    \A p \in Peers : \A n \in 1 .. Len(delivered[p]) :
        \E k \in 1 .. Len(sent[Other(p)]) :
            delivered[p][n] = Submitted(Other(p))[k]

(* Even when calls fail, are cancelled or time out, recv() never makes up  *)
(* a payload: each one it returns is the concatenation of consecutive      *)
(* frames of the peer, sealed under one key, that end in a DATA frame,     *)
(* with nothing left out or put in between.                                *)
DeliveredFromWire ==
    \A p \in Peers : \A n \in 1 .. Len(delivered[p]) :
        LET w == wire[Other(p)] IN
        \E b \in 1 .. Len(w) : \E a \in 1 .. b :
            /\ w[b].type = "DATA"
            /\ \A k \in a .. b - 1 :
                  /\ w[k].type = "DATA_FRAG"
                  /\ w[k].key = w[b].key
                  /\ w[k].seq = w[b].seq - (b - k)
            /\ delivered[p][n] =
                  SeqExt!FlattenSeq([k \in 1 .. b - a + 1 |-> w[a + k - 1].body])

=============================================================================
