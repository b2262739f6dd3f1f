----------------------------- MODULE TcpSession -----------------------------
(***************************************************************************)
(* Two USMPSessions over one TCP connection.  Each direction of the        *)
(* connection is an ordered stream of frames: wire[p] is what p has        *)
(* written, and frames_read[q] how many of those frames its peer q has      *)
(* read.  Closing the transport ends the stream.                           *)
(***************************************************************************)
EXTENDS SessionRecv

CONSTANTS
    HighWater,    \* unread frames at which the writer's drain() blocks
    MaxFaults     \* bound on cancelled calls and timeouts of recv()

ASSUME TcpAssumption ==
    /\ Reliable
    /\ HighWater \in Nat /\ MaxFaults \in Nat

VARIABLES
    frames_read,  \* frames each peer has taken from the other's stream
    misaligned,   \* a cancelled read took the header and left the payload
    faults        \* cancellations and timeouts so far

tcpVars == <<frames_read, misaligned, faults>>

vars == <<sessionVars, recvVars, tcpVars>>

TcpInit ==
    /\ Init
    /\ RecvInit
    /\ frames_read = [p \in Peers |-> 0]
    /\ misaligned = [p \in Peers |-> FALSE]
    /\ faults = 0

-----------------------------------------------------------------------------
(* Sending: StreamWriter.write() always takes the frame; drain() waits     *)
(* while too much is unread.                                               *)

Unread(p) == Len(wire[p]) - frames_read[Other(p)]

ConnectionOver(p) == transport_closed[p] \/ transport_closed[Other(p)]

DrainReturns(p) == Unread(p) <= HighWater \/ ConnectionOver(p)

SendStep(p) ==
    /\ \E t \in Tasks :
          \/ Acquire(p, t)
          \/ SendOverflow(p, t)
          \/ DrainReturns(p) /\ (NextFragment(p, t) \/ SendDone(p, t) \/ RekeyDone(p, t))
    /\ UNCHANGED recvVars

(* drain() raises once the connection is gone. *)
ConnectionLost(p) ==
    /\ ConnectionOver(p)
    /\ \E t \in Tasks : DrainFails(p, t)
    /\ UNCHANGED recvVars

Fault == faults < MaxFaults /\ faults' = faults + 1

(* The task of a call is cancelled at one of its two awaits. *)
CancelCall(p) ==
    /\ Fault
    /\ \E t \in Tasks : CancelWait(p, t) \/ DrainFails(p, t)
    /\ UNCHANGED <<recvVars, frames_read, misaligned>>

-----------------------------------------------------------------------------
(* Receiving. *)

CanRead(p) ==
    /\ recv[p].pc = "reading"
    /\ frames_read[p] < Len(wire[Other(p)])

NextFrame(p) == wire[Other(p)][frames_read[p] + 1]

Consume(p) ==
    /\ frames_read' = [frames_read EXCEPT ![p] = @ + 1]
    /\ UNCHANGED <<misaligned, faults>>

(* What read_frame takes for a header is the middle of a frame: MagicError. *)
Garbled(p) == misaligned[p]

(* A frame recv() cannot take: the stream is not at a header, the tag does *)
(* not verify (CryptoError), the number is the last one or not the         *)
(* expected one (SequenceError).                                           *)
RejectReason(p) ==
    LET f == NextFrame(p) IN
    CASE Garbled(p) -> "frame"
      [] ~Garbled(p) /\ f.key # info[p].rx_key -> "crypto"
      [] ~Garbled(p) /\ f.key = info[p].rx_key
            /\ (f.seq >= MaxSeq \/ f.seq # info[p].rx_seq) -> "sequence"
      [] OTHER -> "none"

RecvRejects(p) ==
    /\ CanRead(p)
    /\ RejectReason(p) # "none"
    /\ Raises(p, RejectReason(p))
    /\ Consume(p)
    /\ UNCHANGED sessionVars

RecvFrame(p) ==
    /\ CanRead(p)
    /\ RejectReason(p) = "none"
    /\ Dispatch(p, NextFrame(p), [info[p] EXCEPT !.rx_seq = @ + 1])
    /\ Consume(p)

(* The stream has ended: everything was read, or the connection was reset  *)
(* because the peer closed without reading what we sent.                   *)
RecvEof(p) ==
    /\ recv[p].pc = "reading"
    /\ \/ transport_closed[p]
       \/ /\ transport_closed[Other(p)]
          /\ frames_read[p] = Len(wire[Other(p)]) \/ Unread(p) > 0
    /\ Raises(p, "eof")
    /\ UNCHANGED <<sessionVars, tcpVars>>

(* recv(timeout): cancelled between frames, in the middle of one (the      *)
(* header is consumed, the payload is not), or in its PONG.                *)
RecvTimesOut(p) ==
    /\ Fault
    /\ RecvTimeout(p)
    /\ \/ UNCHANGED misaligned
       \/ CanRead(p) /\ misaligned' = [misaligned EXCEPT ![p] = TRUE]
    /\ UNCHANGED frames_read

PongStep(p) ==
    \/ Acquire(p, RecvTask) /\ UNCHANGED recvVars
    \/ DrainReturns(p) /\ PongSent(p)
    \/ PongOverflow(p)
    \/ ConnectionOver(p) /\ PongFails(p)

(* The error leaves the server's session handler, and the finally clause   *)
(* of the connection closes the transport.  A client that gives up closes  *)
(* its own; one that still calls disconnect() does it by way of bye().     *)
Teardown(p) ==
    /\ error[p] # "none"
    /\ ~transport_closed[p]
    /\ transport_closed' = [transport_closed EXCEPT ![p] = TRUE]
    /\ UNCHANGED <<info, send_lock, task, wire, closed, salts, sent, calls>>
    /\ UNCHANGED recvVars

-----------------------------------------------------------------------------
TcpNext ==
    \E p \in Peers :
        \/ CallStep(p) /\ UNCHANGED <<recvVars, tcpVars>>
        \/ SendStep(p) /\ UNCHANGED tcpVars
        \/ ConnectionLost(p) /\ UNCHANGED tcpVars
        \/ CancelCall(p)
        \/ StartRecv(p) /\ UNCHANGED tcpVars
        \/ RecvFrame(p)
        \/ RecvRejects(p)
        \/ RecvEof(p)
        \/ RecvTimesOut(p)
        \/ PongStep(p) /\ UNCHANGED tcpVars
        \/ Teardown(p) /\ UNCHANGED tcpVars

(* The event loop runs the task that sends and the task that receives      *)
(* whenever they can run, and TCP delivers what was written.  Whether an   *)
(* application makes a call is its own choice; that it keeps calling       *)
(* recv() is assumed where something is to be received.                    *)
Fairness ==
    \A p \in Peers :
        /\ WF_vars((SendStep(p) \/ PongStep(p)) /\ UNCHANGED tcpVars)
        /\ WF_vars(\/ StartRecv(p) /\ UNCHANGED tcpVars
                   \/ RecvFrame(p) \/ RecvRejects(p) \/ RecvEof(p))
        /\ WF_vars(Teardown(p) /\ UNCHANGED tcpVars)

TcpSpec == TcpInit /\ [][TcpNext]_vars

FairTcpSpec == TcpSpec /\ Fairness

(* A rekey is under way from the call until the peer has read the REKEY.   *)
Rekeying(p) ==
    \/ \E t \in Tasks : task[p][t].op = "REKEY"
    \/ \E i \in frames_read[Other(p)] + 1 .. Len(wire[p]) : wire[p][i].type = "REKEY"

(* The peer of p writes nothing, has written nothing that p has yet to     *)
(* read, and owes no PONG.                                                 *)
QuietFor(p) ==
    /\ Unread(Other(p)) = 0 /\ send_lock[Other(p)] = << >>
    /\ \A t \in Tasks : task[p][t].op # "PING"
    /\ \A i \in frames_read[Other(p)] + 1 .. Len(wire[p]) : wire[p][i].type # "PING"

(* A frame that crosses a REKEY does not open, and ends the session (see   *)
(* the README).  These are the applications that keep theirs: each calls   *)
(* rekey() when the other is quiet, and the other stays quiet until then.  *)
QuietRekeys == \A p \in Peers : Rekeying(p) => QuietFor(p)

CarefulTcpSpec == TcpInit /\ [][TcpNext /\ QuietRekeys']_vars /\ Fairness

-----------------------------------------------------------------------------
TcpTypeOK ==
    /\ TypeOK
    /\ \A p \in Peers :
          /\ info[p].rx_seq \in 0 .. MaxSeq
          /\ frames_read[p] \in 0 .. Len(wire[Other(p)])
          /\ recv[p].pc \in {"idle", "reading", "pong"}
          /\ recv[p].frame_count \in 0 .. MaxFrames - 1
          /\ recv[p].pc = "pong" <=> task[p][RecvTask].pc # "idle"
    /\ faults \in 0 .. MaxFaults

(* While no call fails or is cancelled, and rekeys meet no traffic of the  *)
(* peer, a session is a reliable message channel: every message handed to  *)
(* send() comes out of the peer's recv() whole, once and in order, with    *)
(* PINGs and PONGs interleaved, and the keys rotated in between.           *)
Channel ==
    INSTANCE MessageChannel
    WITH Ends <- Peers, Far <- Other, Messages <- Msgs, Contents <- Payload,
         submitted <- sent, received <- delivered

ChannelSpec == Channel!Spec

(* If each side rekeys only while the other is quiet, and no call fails,   *)
(* the two sides never lose each other: recv() raises nothing where nobody *)
(* said BYE and, once everything sent has been read and no call is in      *)
(* progress, each peer opens with the key the other seals with, and        *)
(* expects the number the other will use next, though either may have      *)
(* rotated the keys, several times and in turn, between messages both      *)
(* ways.  (rekey() promises to rotate keys "without disconnecting"         *)
(* unconditionally; without the condition this is false.)                  *)
StaysInStep ==
    /\ \A p \in Peers : error[p] = "none"
    /\ (\A p \in Peers : Unread(p) = 0 /\ send_lock[p] = << >>) =>
          \A p \in Peers :
              /\ info[p].rx_key = info[Other(p)].tx_key
              /\ info[p].rx_seq = info[Other(p)].tx_seq

(* The two directions never share a key, so that equal sequence numbers of *)
(* the two peers are never the same nonce under the same key.              *)
DirectionsApart ==
    \A i \in 1 .. Len(wire[Client]), j \in 1 .. Len(wire[Server]) :
        wire[Client][i].key # wire[Server][j].key

(* A bye() ends the session at both ends, whatever calls are in progress   *)
(* on either side and whatever fails, as long as the two write buffers are *)
(* not both full: the caller's transport closes, and the peer's recv()     *)
(* raises.                                                                 *)
ByeEndsSession ==
    \A p \in Peers :
        closed[p] ~> (transport_closed[p] /\ error[Other(p)] # "none")

=============================================================================
