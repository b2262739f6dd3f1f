----------------------------- MODULE UdpSession -----------------------------
(***************************************************************************)
(* Two USMPSessions over UDPStream, the stop-and-wait ARQ that carries     *)
(* frames in datagrams and acknowledges each one with a UTACK.             *)
(*                                                                         *)
(* The network may lose, delay, reorder and duplicate: wire[p] holds every *)
(* frame p has sent and utacks[p] every UTACK, and any of them may arrive  *)
(* at any time, any number of times or never.  So a retransmission changes *)
(* nothing but the count of attempts.                                      *)
(*                                                                         *)
(* set_session_keys() follows every rotation without an await, so the keys *)
(* of the stream are those of SessionInfo.                                 *)
(***************************************************************************)
EXTENDS SessionRecv

CONSTANTS
    WindowSize,   \* 64 in the code
    BufferCap,    \* frames that MAX_READ_BUFFER has room for
    MaxAttempts,  \* transmissions of one frame, 5 in the code
    MaxFaults     \* bound on cancelled calls, timeouts of recv(), ICMP errors

ASSUME UdpAssumption ==
    /\ ~Reliable
    /\ WindowSize \in Nat \ {0} /\ MaxSeq \in Nat \ {0}
    /\ BufferCap \in Nat \ {0} /\ MaxAttempts \in Nat \ {0}
    /\ MaxFaults \in Nat

INSTANCE SlidingWindow

VARIABLES
    read_buffer,  \* _read_buffer: the frames that wait for recv()
    last_rx_seq,  \* _last_rx_seq: the highest number confirmed so far
    attempt,      \* the iteration of drain()'s loop, 0 if write() raised
    acked,        \* _ack_received_event
    utacks,       \* every UTACK each peer has sent
    faults,       \* cancellations, timeouts and errors so far
    faulted       \* history: a call has failed, or was cancelled or timed out

streamVars == <<read_buffer, last_rx_seq, attempt, acked, utacks>>

faultVars == <<faults, faulted>>

vars == <<sessionVars, recvVars, streamVars, faultVars>>

UdpInit ==
    /\ Init
    /\ RecvInit
    /\ read_buffer = [p \in Peers |-> << >>]
    /\ last_rx_seq = [p \in Peers |-> -1]
    /\ attempt = [p \in Peers |-> 0]
    /\ acked = [p \in Peers |-> FALSE]
    /\ utacks = [p \in Peers |-> {}]
    /\ faults = 0
    /\ faulted = FALSE

-----------------------------------------------------------------------------
(* feed_packet: the datagrams that arrive. *)

(* _build_utack.  The code's UTACK has the frame's type and number only;   *)
(* frame says which transmission it answers, for the properties.           *)
Utack(p, f) == [type |-> f.type, seq |-> f.seq, key |-> info[p].rx_key, frame |-> f]

SendUtack(p, f) == utacks' = [utacks EXCEPT ![p] = @ \cup {Utack(p, f)}]

(* "Duplicate/Too-old packet": it is acknowledged and goes no further. *)
FilterDiscards(p, f) == last_rx_seq[p] # -1 /\ f.seq <= last_rx_seq[p] - WindowSize

(* Mutant: the UTACK is sent before the limit of the buffer is checked. *)
FeedPacket_AcksFirst(p, f) ==
    /\ ~transport_closed[p]
    /\ SendUtack(p, f)
    /\ read_buffer' =
          IF FilterDiscards(p, f) \/ Len(read_buffer[p]) >= BufferCap THEN read_buffer
          ELSE [read_buffer EXCEPT ![p] = Append(@, f)]
    /\ UNCHANGED <<last_rx_seq, attempt, acked>>

(* A frame that finds the buffer full is dropped without a UTACK. *)
FeedPacket(p, f) ==
    /\ ~transport_closed[p]
    /\ \/ /\ FilterDiscards(p, f)
          /\ UNCHANGED read_buffer
       \/ /\ ~FilterDiscards(p, f)
          /\ Len(read_buffer[p]) < BufferCap
          /\ read_buffer' = [read_buffer EXCEPT ![p] = Append(@, f)]
    /\ SendUtack(p, f)
    /\ UNCHANGED <<last_rx_seq, attempt, acked>>

Draining(p) == \E t \in Callers : task[p][t].pc = "drain"

(* _pending_send_type and _pending_send_seq: those of the last frame sent. *)
Pending(p) == wire[p][Len(wire[p])]

(* A UTACK wakes drain() if its MAC verifies under our tx_key and it names *)
(* the pending frame.  (The event is cleared when a drain starts, so one   *)
(* that arrives outside a drain is without effect.)                        *)
FeedUtack(p, u) ==
    /\ ~transport_closed[p]
    /\ Draining(p) /\ attempt[p] > 0
    /\ u.key = info[p].tx_key
    /\ u.type = Pending(p).type /\ u.seq = Pending(p).seq
    /\ acked' = [acked EXCEPT ![p] = TRUE]
    /\ UNCHANGED <<read_buffer, last_rx_seq, attempt, utacks>>

Network(p) ==
    /\ \/ \E i \in 1 .. Len(wire[Other(p)]) : FeedPacket(p, wire[Other(p)][i])
       \/ \E u \in utacks[Other(p)] : FeedUtack(p, u)
    /\ UNCHANGED <<sessionVars, recvVars, faultVars>>

-----------------------------------------------------------------------------
(* write() and drain(). *)

(* The first sendto of a frame, or the OSError of a stream that is closed. *)
Transmit(p) ==
    /\ transport_closed[p] => wire' = wire
    /\ attempt' = [attempt EXCEPT ![p] = IF transport_closed[p] THEN 0 ELSE 1]
    /\ acked' = [acked EXCEPT ![p] = FALSE]
    /\ UNCHANGED <<read_buffer, last_rx_seq, utacks>>

(* Mutant: the loop of drain() does not count its attempts. *)
Retransmit_Forever(p) ==
    /\ Draining(p) /\ attempt[p] \in 1 .. MaxAttempts
    /\ attempt' = [attempt EXCEPT ![p] = IF @ < MaxAttempts THEN @ + 1 ELSE 1]
    /\ UNCHANGED <<read_buffer, last_rx_seq, acked, utacks, sessionVars, recvVars, faultVars>>

(* wait_for timed out: the frame is sent again.  A UTACK may have arrived  *)
(* in the very turn of the event loop in which the timer fired.            *)
Retransmit(p) ==
    /\ Draining(p) /\ attempt[p] \in 1 .. MaxAttempts - 1
    /\ attempt' = [attempt EXCEPT ![p] = @ + 1]
    /\ UNCHANGED <<read_buffer, last_rx_seq, acked, utacks, sessionVars, recvVars, faultVars>>

(* The write raised, or the last attempt has timed out: OSError. *)
GivesUp(p) == attempt[p] \in {0, MaxAttempts}

SendStep(p) ==
    /\ \E t \in Tasks :
          \/ Acquire(p, t) /\ Transmit(p)
          \/ acked[p] /\ NextFragment(p, t) /\ Transmit(p)
          \/ acked[p] /\ (SendDone(p, t) \/ RekeyDone(p, t)) /\ UNCHANGED streamVars
    /\ UNCHANGED <<recvVars, faultVars>>

(* The call fails: it gives up, or its sequence numbers are spent. *)
SendFails(p) ==
    /\ \E t \in Tasks :
          \/ GivesUp(p) /\ DrainFails(p, t)
          \/ (task[p][t].pc = "drain" => acked[p]) /\ SendOverflow(p, t)
    /\ faulted' = TRUE
    /\ UNCHANGED <<recvVars, streamVars, faults>>

Fault ==
    /\ faults < MaxFaults
    /\ faults' = faults + 1
    /\ faulted' = TRUE

CancelCall(p) ==
    /\ Fault
    /\ \E t \in Tasks : CancelWait(p, t) \/ DrainFails(p, t)
    /\ UNCHANGED <<recvVars, streamVars>>

(* The PONG that recv() awaits. *)
PongStep(p) ==
    \/ /\ Acquire(p, RecvTask)
       /\ Transmit(p)
       /\ UNCHANGED <<recvVars, faultVars>>
    \/ /\ acked[p]
       /\ PongSent(p)
       /\ UNCHANGED <<streamVars, faultVars>>
    \/ /\ PongOverflow(p) \/ (GivesUp(p) /\ PongFails(p))
       /\ faulted' = TRUE
       /\ UNCHANGED <<streamVars, faults>>

-----------------------------------------------------------------------------
(* recv() *)

CanRead(p) == recv[p].pc = "reading" /\ read_buffer[p] # << >>

NextFrame(p) == Head(read_buffer[p])

Consume(p) == read_buffer' = [read_buffer EXCEPT ![p] = Tail(@)]

(* Mutant: only numbers that have left the window are refused. *)
Drops_OnlyOld(p, f) == TooOld(info[p].rx_seq, f.seq) \/ f.key # info[p].rx_key

(* Too old, a duplicate, or not authentic: "drop silently", CryptoError. *)
Drops(p, f) ==
    \/ TooOld(info[p].rx_seq, f.seq)
    \/ Replayed(info[p].rx_seq, info[p].rx_window_bitmap, f.seq)
    \/ f.key # info[p].rx_key

RecvDrop(p) ==
    /\ CanRead(p)
    /\ Drops(p, NextFrame(p))
    /\ Consume(p)
    /\ UNCHANGED <<last_rx_seq, attempt, acked, utacks, sessionVars, recvVars, faultVars>>

(* "RX sequence overflowed" is raised on every transport. *)
RecvOverflow(p) ==
    /\ CanRead(p)
    /\ ~Drops(p, NextFrame(p))
    /\ NextFrame(p).seq >= MaxSeq
    /\ Consume(p)
    /\ Raises(p, "sequence")
    /\ UNCHANGED <<last_rx_seq, attempt, acked, utacks, sessionVars, faultVars>>

(* SessionInfo after the window has moved to an authentic frame. *)
Slid(i, f) ==
    [i EXCEPT !.rx_seq = NextRxSeq(i.rx_seq, f.seq),
              !.rx_window_bitmap = NextBitmap(i.rx_seq, i.rx_window_bitmap, f.seq)]

RecvFrame(p) ==
    LET f == NextFrame(p) IN
    /\ CanRead(p)
    /\ ~Drops(p, f) /\ f.seq < MaxSeq
    /\ Consume(p)
    /\ last_rx_seq' = [last_rx_seq EXCEPT ![p] = IF f.seq > @ THEN f.seq ELSE @]
    /\ Dispatch(p, f, Slid(info[p], f))
    /\ UNCHANGED <<attempt, acked, utacks, faultVars>>

(* readexactly raises IncompleteReadError once the stream is closed and    *)
(* its buffer empty.                                                       *)
RecvEof(p) ==
    /\ recv[p].pc = "reading"
    /\ transport_closed[p] /\ read_buffer[p] = << >>
    /\ Raises(p, "eof")
    /\ UNCHANGED <<sessionVars, streamVars, faultVars>>

(* A frame is in the buffer whole, so a timeout never tears one. *)
RecvTimesOut(p) ==
    /\ Fault
    /\ RecvTimeout(p)
    /\ UNCHANGED streamVars

CloseTransport(p) ==
    /\ ~transport_closed[p]
    /\ transport_closed' = [transport_closed EXCEPT ![p] = TRUE]
    /\ UNCHANGED <<info, send_lock, task, wire, closed, salts, sent, calls>>
    /\ UNCHANGED <<recvVars, streamVars>>

(* The finally clause of a server connection, or a client that gives up,   *)
(* once recv() has raised.                                                 *)
Teardown(p) ==
    /\ error[p] # "none"
    /\ CloseTransport(p)
    /\ UNCHANGED faultVars

(* ClientUDPProtocol.error_received: an ICMP error closes the stream. *)
ErrorReceived(p) ==
    /\ p = Client
    /\ CloseTransport(p)
    /\ Fault

-----------------------------------------------------------------------------
UdpNext ==
    \E p \in Peers :
        \/ CallStep(p) /\ UNCHANGED <<recvVars, streamVars, faultVars>>
        \/ Network(p)
        \/ SendStep(p)
        \/ SendFails(p)
        \/ Retransmit(p)
        \/ CancelCall(p)
        \/ PongStep(p)
        \/ StartRecv(p) /\ UNCHANGED <<streamVars, faultVars>>
        \/ RecvDrop(p)
        \/ RecvOverflow(p)
        \/ RecvFrame(p)
        \/ RecvEof(p)
        \/ RecvTimesOut(p)
        \/ Teardown(p)
        \/ ErrorReceived(p)

(* The event loop runs the task that is sending, and its timer fires.      *)
(* Nothing is assumed of the network, or of the application.               *)
Fairness ==
    \A p \in Peers : WF_vars(SendStep(p) \/ SendFails(p) \/ PongStep(p) \/ Retransmit(p))

UdpSpec == UdpInit /\ [][UdpNext]_vars

FairUdpSpec == UdpSpec /\ Fairness

-----------------------------------------------------------------------------
UdpTypeOK ==
    /\ TypeOK
    /\ \A p \in Peers :
          /\ info[p].rx_seq \in 0 .. MaxSeq - 1
          /\ info[p].rx_window_bitmap \subseteq Offsets
          /\ last_rx_seq[p] \in -1 .. MaxSeq - 1
          /\ Len(read_buffer[p]) <= BufferCap
          /\ attempt[p] \in 0 .. MaxAttempts
          /\ acked[p] \in BOOLEAN
          /\ recv[p].frame_count \in 0 .. MaxFrames - 1
          /\ recv[p].pc = "pong" <=> task[p][RecvTask].pc # "idle"

(* No part of a message is delivered twice, however often the network      *)
(* repeats its frames, across rekeys, retries and failed calls: every byte *)
(* that recv() returns is one it has not returned before.                  *)
DeliveredOnce ==
    \A p \in Peers : \A n, k \in 1 .. Len(delivered[p]) :
        \A i \in 1 .. Len(delivered[p][n]), j \in 1 .. Len(delivered[p][k]) :
            delivered[p][n][i] = delivered[p][k][j] => n = k /\ i = j

(* Until a call fails or a rekey is started, stop-and-wait makes the lossy *)
(* network a channel: the payloads recv() has returned are the first       *)
(* messages handed to the peer's send(), whole and in order, though frames *)
(* are dropped at a full buffer and arrive again after their successors.   *)
InOrder ==
    ~faulted /\ (\A q \in Peers : salts[q] = {}) =>
        \A p \in Peers :
            /\ Len(delivered[p]) <= Len(sent[Other(p)])
            /\ delivered[p] = SubSeq(Submitted(Other(p)), 1, Len(delivered[p]))

(* Every send(), ping(), rekey() and bye(), and every PONG, ends: the call *)
(* returns or raises, even if the network delivers nothing.                *)
CallsEnd ==
    \A p \in Peers : \A t \in Callers :
        task[p][t].pc # "idle" ~> task[p][t].pc = "idle"

(* set_session_keys: the peer signs a UTACK "with its rx_key, which equals *)
(* our tx_key".  So a UTACK for the frame a drain() still waits for is one *)
(* that its sender can verify.                                             *)
UtackVerifiable ==
    \A p \in Peers :
        Draining(p) /\ attempt[p] > 0 =>
            \A u \in utacks[Other(p)] :
                u.frame = Pending(p) => u.key = info[p].tx_key

=============================================================================
