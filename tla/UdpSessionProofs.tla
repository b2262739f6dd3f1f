-------------------------- MODULE UdpSessionProofs --------------------------
(***************************************************************************)
(* Proofs about two sessions over UDPStream, whatever the network loses,   *)
(* repeats or reorders and whatever calls fail, are cancelled or time out, *)
(* for any sets of tasks, messages and salts, and any limits.              *)
(*                                                                         *)
(* The steps of UdpNext have fourteen effects, named below.  On the        *)
(* sending half each is an effect of SessionProofs.  What is new is that   *)
(* the network repeats frames: a frame that recv() has taken is spent, for *)
(* the window of its key has seen it, or its key is gone for good.         *)
(***************************************************************************)
EXTENDS UdpSession, SessionProofs

Pcs == {"idle", "reading", "pong"}

RecvCalls ==
    [pc : Pcs, payload : Text, frame_count : 0 .. MaxFrames - 1,
     expected_frag_seq : Nat, ctrl_count : Nat]

(* The parts of the state that the transport and recv() add. *)
WireOK == \A p \in Peers : \A i \in 1 .. Len(wire[p]) : FrameOK(wire[p][i])

(* What waits in the buffer was sent by the other peer. *)
Among(w, f) == \E i \in 1 .. Len(w) : w[i] = f

BufferOK ==
    /\ \E F : read_buffer \in [Peers -> Seq(F)]
    /\ \A p \in Peers :
          /\ Len(read_buffer[p]) <= BufferCap
          /\ \A k \in 1 .. Len(read_buffer[p]) : Among(wire[Other(p)], read_buffer[p][k])

CallsOK ==
    /\ recv \in [Peers -> RecvCalls]
    /\ delivered \in [Peers -> Seq(Text)]
    /\ \E E : error \in [Peers -> E]
    /\ \A p \in Peers : recv[p].pc = "pong" <=> task[p][RecvTask].pc # "idle"

StreamOK ==
    /\ last_rx_seq \in [Peers -> -1 .. MaxSeq - 1]
    /\ attempt \in [Peers -> 0 .. MaxAttempts]
    /\ acked \in [Peers -> BOOLEAN]
    /\ \E U : utacks \in [Peers -> U]

WindowOK ==
    \A p \in Peers : /\ info[p].rx_seq \in 0 .. MaxSeq - 1
                     /\ info[p].rx_window_bitmap \subseteq Offsets

SentOK == sent \in [Peers -> Seq(Msgs)]

LinkInv == WireOK /\ BufferOK /\ CallsOK /\ StreamOK /\ WindowOK /\ SentOK

-----------------------------------------------------------------------------
(* The effects.  First those of the calls that send. *)
Calls(p) ==
    /\ \E t \in Tasks : \E op, data :
          Draws(p, t, op, data) /\ op # "PONG" /\ Submits(p, op, data)
    /\ UNCHANGED <<info, recvVars, streamVars, faulted>>

WritesOut(p) ==
    /\ \E t \in Callers : \E c :
          Writes(p, t, c) /\ (task[p][t].pc = "drain" => acked[p])
    /\ Transmit(p)
    /\ UNCHANGED <<sent, recvVars, faulted>>

(* A call ends: it has failed, or its last frame is acknowledged. *)
Ends(p, t) ==
    /\ Leaves(p, t)
    /\ UNCHANGED <<info, sent, streamVars>>
    /\ \/ faulted' = TRUE
       \/ /\ UNCHANGED faulted
          /\ task[p][t].pc = "drain" /\ acked[p] /\ ~MoreFragments(task[p][t])

CallEnds(p) == (\E t \in Tasks : Ends(p, t)) /\ UNCHANGED recvVars

Rekeys(p) ==
    /\ \E t \in Tasks : RekeyDone(p, t)
    /\ UNCHANGED <<recvVars, streamVars, faulted>>

Counted(p, n) == [recv[p] EXCEPT !.pc = "reading", !.ctrl_count = n]

Restarted(p) ==
    [recv[p] EXCEPT !.pc = "reading", !.payload = << >>, !.frame_count = 0,
                    !.expected_frag_seq = 0]

Fails(p) == \E e : e # "none" /\ Raises(p, e)

(* The PONG is out, or has failed. *)
PongEnds(p) ==
    /\ recv[p].pc = "pong"
    /\ Ends(p, RecvTask)
    /\ \/ Fails(p)
       \/ \E n \in Nat : Continues(p, Counted(p, n))
       \/ faulted' = TRUE /\ Continues(p, Restarted(p))
       \/ faulted' = TRUE /\ Continues(p, NotReceiving)

(* The network: a datagram arrives, or its timer sends it again. *)
Feeds(p) ==
    /\ \E i \in 1 .. Len(wire[Other(p)]) : FeedPacket(p, wire[Other(p)][i])
    /\ UNCHANGED <<sessionVars, recvVars, faulted>>

Acks(p) ==
    /\ \E u \in utacks[Other(p)] : FeedUtack(p, u)
    /\ UNCHANGED <<sessionVars, recvVars, faulted>>

(* recv() starts, or ends without a message; or a transport closes. *)
Restarts(p) ==
    /\ Stands
    /\ UNCHANGED <<info, sent, streamVars>>
    /\ \/ faulted' = TRUE
       \/ /\ UNCHANGED faulted
          /\ \/ UNCHANGED transport_closed
             \/ /\ error[p] # "none"
                /\ \A q \in Peers : q # p => transport_closed'[q] = transport_closed[q]
    /\ \/ UNCHANGED recvVars
       \/ recv[p].pc = "idle" /\ error[p] = "none" /\ Continues(p, Receiving)
       \/ recv[p].pc = "reading" /\ Fails(p)
       \/ recv[p].pc = "reading" /\ faulted' = TRUE /\ Continues(p, NotReceiving)

(* recv() takes a frame from the buffer and drops it, or gives up on it. *)
Skips(p) ==
    /\ recv[p].pc = "reading" /\ read_buffer[p] # << >>
    /\ Consume(p)
    /\ UNCHANGED <<sessionVars, last_rx_seq, attempt, acked, utacks, faulted>>
    /\ \/ Drops(p, NextFrame(p)) /\ UNCHANGED recvVars
       \/ Fails(p)

(* recv() takes a frame that is new, authentic and in range. *)
Takes(p) ==
    /\ recv[p].pc = "reading" /\ read_buffer[p] # << >>
    /\ ~Drops(p, NextFrame(p)) /\ NextFrame(p).seq < MaxSeq
    /\ Consume(p)
    /\ last_rx_seq' =
          [last_rx_seq EXCEPT ![p] = IF NextFrame(p).seq > @ THEN NextFrame(p).seq ELSE @]
    /\ UNCHANGED <<attempt, acked, utacks, faulted, sent>>

Moved(p) == info' = [info EXCEPT ![p] = Slid(info[p], NextFrame(p))]

(* The frame does not fit what recv() holds. *)
Breaks(p, f) ==
    \/ f.type \in {"PING", "PONG", "REKEY"} /\ MidMessage(p)
    \/ /\ f.type \in {"DATA", "DATA_FRAG"}
       /\ recv[p].frame_count > 0 /\ f.seq # recv[p].expected_frag_seq
    \/ f.type = "DATA_FRAG" /\ recv[p].frame_count + 1 >= MaxFrames

InSequence(p, f) == recv[p].frame_count = 0 \/ f.seq = recv[p].expected_frag_seq

Grown(p, f) ==
    [recv[p] EXCEPT !.payload = recv[p].payload \o f.body,
                    !.frame_count = recv[p].frame_count + 1,
                    !.expected_frag_seq = f.seq + 1]

Proceeds(p, f) ==
    \/ f.type \in {"BYE", "PONG"} /\ Fails(p)
    \/ f.type = "PONG" /\ ~MidMessage(p) /\ \E n \in Nat : Continues(p, Counted(p, n))
    \/ Breaks(p, f) /\ Continues(p, Restarted(p))
    \/ /\ f.type = "DATA_FRAG" /\ recv[p].frame_count + 1 < MaxFrames /\ InSequence(p, f)
       /\ Continues(p, Grown(p, f))

Reads(p) ==
    /\ Takes(p) /\ Moved(p) /\ Stands
    /\ UNCHANGED transport_closed
    /\ Proceeds(p, NextFrame(p))

Delivers(p) ==
    /\ Takes(p) /\ Moved(p) /\ Stands
    /\ UNCHANGED transport_closed
    /\ NextFrame(p).type = "DATA" /\ InSequence(p, NextFrame(p))
    /\ Returns(p, recv[p].payload \o NextFrame(p).body)

Answers(p) ==
    /\ Takes(p) /\ Moved(p)
    /\ NextFrame(p).type = "PING" /\ ~MidMessage(p)
    /\ Joins(p, RecvTask, "PONG", << >>)
    /\ Continues(p, [recv[p] EXCEPT !.pc = "pong"])

Accepts(p) ==
    /\ Takes(p)
    /\ NextFrame(p).type = "REKEY" /\ ~MidMessage(p)
    /\ AcceptRekey(p, NextFrame(p).body[1])
    /\ UNCHANGED recvVars

UdpEffect(p) ==
    \/ Calls(p) \/ WritesOut(p) \/ CallEnds(p) \/ Rekeys(p) \/ PongEnds(p)
    \/ Feeds(p) \/ Acks(p) \/ (Retransmit(p) /\ UNCHANGED faulted)
    \/ Restarts(p) \/ Skips(p)
    \/ Reads(p) \/ Delivers(p) \/ Answers(p) \/ Accepts(p)

LEMMA CountEffect ==
    ASSUME CallsOK, NEW p \in Peers, CountControl(p)
    PROVE  Fails(p) \/ \E n \in Nat : Continues(p, Counted(p, n))
<1>1. recv[p].ctrl_count \in Nat
  BY DEF CallsOK, RecvCalls
<1>2. PICK n \in {recv[p].ctrl_count + 1, 1} :
          IF n > CtrlLimit
          THEN Raises(p, "closed")
          ELSE Continues(p, [recv[p] EXCEPT !.pc = "reading", !.ctrl_count = n])
  BY DEF CountControl
<1>3. n \in Nat
  BY <1>1, <1>2
<1> QED BY <1>2, <1>3 DEF Fails, Counted

(* A step by a call that sends. *)
LEMMA SendEffects ==
    ASSUME TypeInv, QueueInv, LinkInv, NEW p \in Peers,
           \/ CallStep(p) /\ UNCHANGED <<recvVars, streamVars, faultVars>>
           \/ SendStep(p)
           \/ SendFails(p)
           \/ CancelCall(p)
    PROVE  UdpEffect(p)
<1>1. CASE CallStep(p) /\ UNCHANGED <<recvVars, streamVars, faultVars>>
  <2>1. PICK t, op, data :
            /\ t \in Tasks /\ Joins(p, t, op, data) /\ UNCHANGED info /\ op # "PONG"
            /\ op = "REKEY" => \A q \in Peers : data[1] \notin salts[q]
            /\ Submits(p, op, data)
    BY <1>1, CallEffect
  <2>2. Draws(p, t, op, data)
    BY <2>1 DEF Draws
  <2>3. Calls(p)
    BY <1>1, <2>1, <2>2 DEF Calls, faultVars
  <2> QED BY <2>3 DEF UdpEffect
<1>2. CASE SendStep(p)
  <2>1. UNCHANGED <<recvVars, faulted>>
    BY <1>2 DEF SendStep, faultVars
  <2>2. PICK t \in Tasks :
            \/ Acquire(p, t) /\ Transmit(p)
            \/ acked[p] /\ NextFragment(p, t) /\ Transmit(p)
            \/ acked[p] /\ (SendDone(p, t) \/ RekeyDone(p, t)) /\ UNCHANGED streamVars
    BY <1>2 DEF SendStep
  <2>3. t \in Callers
    BY DEF Callers
  <2>4. CASE \/ Acquire(p, t) /\ Transmit(p)
             \/ acked[p] /\ NextFragment(p, t) /\ Transmit(p)
    <3>1. PICK c : Writes(p, t, c)
      BY <2>3, <2>4, WriteEffect
    <3>2. task[p][t].pc = "drain" => acked[p]
      BY <2>4 DEF Acquire
    <3>3. UNCHANGED sent
      BY <3>1 DEF Writes, WriteFrame
    <3>4. WritesOut(p)
      BY <2>1, <2>3, <2>4, <3>1, <3>2, <3>3 DEF WritesOut
    <3> QED BY <3>4 DEF UdpEffect
  <2>5. CASE acked[p] /\ SendDone(p, t) /\ UNCHANGED streamVars
    <3>1. Leaves(p, t) /\ UNCHANGED info
      BY <2>3, <2>5, LeaveEffect
    <3>2. Ends(p, t)
      BY <2>1, <2>5, <3>1 DEF Ends, SendDone, Leave
    <3>3. CallEnds(p)
      BY <2>1, <3>2 DEF CallEnds
    <3> QED BY <3>3 DEF UdpEffect
  <2>6. CASE RekeyDone(p, t) /\ UNCHANGED streamVars
    BY <2>1, <2>6 DEF Rekeys, UdpEffect
  <2> QED BY <2>2, <2>4, <2>5, <2>6
<1>3. CASE SendFails(p) \/ CancelCall(p)
  <2>1. /\ UNCHANGED <<recvVars, streamVars>>
        /\ faulted' = TRUE
    BY <1>3 DEF SendFails, CancelCall, Fault
  <2>2. PICK t \in Tasks : DrainFails(p, t) \/ SendOverflow(p, t) \/ CancelWait(p, t)
    BY <1>3 DEF SendFails, CancelCall
  <2>3. t \in Callers
    BY DEF Callers
  <2>4. Leaves(p, t) /\ UNCHANGED info
    BY <2>2, <2>3, LeaveEffect
  <2>5. Ends(p, t)
    BY <2>1, <2>4 DEF Ends, Leaves, Leave
  <2> QED BY <2>1, <2>5 DEF CallEnds, UdpEffect
<1> QED BY <1>1, <1>2, <1>3

(* recv() answers a PING. *)
LEMMA PongEffects ==
    ASSUME TypeInv, QueueInv, LinkInv, NEW p \in Peers, PongStep(p)
    PROVE  UdpEffect(p)
<1> USE DEF Callers
<1>1. CASE Acquire(p, RecvTask) /\ Transmit(p) /\ UNCHANGED <<recvVars, faultVars>>
  <2>1. PICK c : Writes(p, RecvTask, c)
    BY <1>1, WriteEffect
  <2>2. task[p][RecvTask].pc = "drain" => acked[p]
    BY <1>1 DEF Acquire
  <2>3. WritesOut(p)
    BY <1>1, <2>1, <2>2 DEF WritesOut, Writes, WriteFrame, faultVars
  <2> QED BY <2>3 DEF UdpEffect
<1>2. CASE acked[p] /\ PongSent(p) /\ UNCHANGED <<streamVars, faultVars>>
  <2>1. recv[p].pc = "pong" /\ SendDone(p, RecvTask) /\ CountControl(p)
    BY <1>2 DEF PongSent
  <2>2. Leaves(p, RecvTask) /\ UNCHANGED info
    BY <2>1, LeaveEffect
  <2>3. Ends(p, RecvTask)
    BY <1>2, <2>1, <2>2 DEF Ends, SendDone, Leave, faultVars
  <2>4. Fails(p) \/ \E n \in Nat : Continues(p, Counted(p, n))
    BY <2>1, CountEffect DEF LinkInv
  <2>5. PongEnds(p)
    BY <2>1, <2>3, <2>4 DEF PongEnds
  <2> QED BY <2>5 DEF UdpEffect
<1>3. CASE /\ PongOverflow(p) \/ (GivesUp(p) /\ PongFails(p))
           /\ faulted' = TRUE
           /\ UNCHANGED <<streamVars, faults>>
  <2>1. recv[p].pc = "pong" /\ (SendOverflow(p, RecvTask) \/ DrainFails(p, RecvTask))
    BY <1>3 DEF PongOverflow, PongFails
  <2>2. Leaves(p, RecvTask) /\ UNCHANGED info
    BY <2>1, LeaveEffect
  <2>3. Ends(p, RecvTask)
    BY <1>3, <2>2 DEF Ends, Leaves, Leave
  <2>4. Fails(p) \/ Continues(p, Restarted(p))
    BY <1>3, UdpAssumption DEF PongOverflow, PongFails, Fails, Restarted
  <2>5. PongEnds(p)
    BY <1>3, <2>1, <2>3, <2>4 DEF PongEnds
  <2> QED BY <2>5 DEF UdpEffect
<1> QED BY <1>1, <1>2, <1>3 DEF PongStep

(* The network, and a recv() that starts, stops or drops a frame. *)
LEMMA OtherEffects ==
    ASSUME TypeInv, QueueInv, LinkInv, NEW p \in Peers,
           \/ Network(p)
           \/ Retransmit(p)
           \/ StartRecv(p) /\ UNCHANGED <<streamVars, faultVars>>
           \/ RecvDrop(p)
           \/ RecvOverflow(p)
           \/ RecvEof(p)
           \/ RecvTimesOut(p)
           \/ Teardown(p)
           \/ ErrorReceived(p)
    PROVE  UdpEffect(p)
<1>1. CASE Network(p)
  BY <1>1 DEF Network, Feeds, Acks, UdpEffect, faultVars
<1>2. CASE Retransmit(p)
  BY <1>2 DEF Retransmit, UdpEffect, faultVars
<1>3. CASE RecvDrop(p)
  BY <1>3 DEF RecvDrop, CanRead, Skips, UdpEffect, faultVars
<1>4. CASE RecvOverflow(p)
  <2>1. Fails(p)
    BY <1>4 DEF RecvOverflow, Fails
  <2> QED BY <1>4, <2>1 DEF RecvOverflow, CanRead, Skips, UdpEffect, faultVars
<1>5. UNCHANGED sessionVars => Stands /\ UNCHANGED <<info, sent, transport_closed>>
  BY StandStill DEF sessionVars
<1>6. CASE StartRecv(p) /\ UNCHANGED <<streamVars, faultVars>>
  <2>1. Continues(p, Receiving)
    BY <1>6 DEF StartRecv, Continues
  <2> QED BY <1>5, <1>6, <2>1 DEF StartRecv, Restarts, UdpEffect, faultVars
<1>7. CASE RecvEof(p)
  <2>1. Fails(p)
    BY <1>7 DEF RecvEof, Fails
  <2> QED BY <1>5, <1>7, <2>1 DEF RecvEof, Restarts, UdpEffect, faultVars
<1>8. CASE RecvTimesOut(p)
  <2>1. /\ faulted' = TRUE /\ UNCHANGED streamVars /\ Continues(p, NotReceiving)
        /\ \/ recv[p].pc = "reading" /\ UNCHANGED sessionVars
           \/ recv[p].pc = "pong" /\ (CancelWait(p, RecvTask) \/ DrainFails(p, RecvTask))
    BY <1>8 DEF RecvTimesOut, RecvTimeout, Fault, Continues
  <2>2. CASE recv[p].pc = "reading" /\ UNCHANGED sessionVars
    BY <1>5, <2>1, <2>2 DEF Restarts, UdpEffect
  <2>3. CASE recv[p].pc = "pong" /\ (CancelWait(p, RecvTask) \/ DrainFails(p, RecvTask))
    <3>1. Leaves(p, RecvTask) /\ UNCHANGED info
      BY <2>3, LeaveEffect DEF Callers
    <3>2. Ends(p, RecvTask)
      BY <2>1, <3>1 DEF Ends, Leaves, Leave
    <3>3. PongEnds(p)
      BY <2>1, <2>3, <3>2 DEF PongEnds
    <3> QED BY <3>3 DEF UdpEffect
  <2> QED BY <2>1, <2>2, <2>3
<1>9. CASE Teardown(p) \/ ErrorReceived(p)
  <2>1. /\ UNCHANGED <<info, send_lock, task, wire, closed, salts, sent>>
        /\ UNCHANGED <<recvVars, streamVars>>
        /\ transport_closed' = [transport_closed EXCEPT ![p] = TRUE]
        /\ faulted' = TRUE \/ (UNCHANGED faulted /\ error[p] # "none")
    BY <1>9 DEF Teardown, ErrorReceived, CloseTransport, Fault, faultVars
  <2>2. SameKeys
    BY <2>1, UnchangedKeys
  <2>3. Stands /\ \A q \in Peers : q # p => transport_closed'[q] = transport_closed[q]
    BY <2>1, <2>2 DEF Stands, TypeInv
  <2>4. Restarts(p)
    BY <2>1, <2>3 DEF Restarts
  <2> QED BY <2>4 DEF UdpEffect
<1> QED BY <1>1, <1>2, <1>3, <1>4, <1>6, <1>7, <1>8, <1>9

(* The window after an authentic frame that it does not refuse. *)
LEMMA SlideFacts ==
    ASSUME TypeInv, WindowOK, NEW p \in Peers, NEW f, FrameOK(f), f.seq < MaxSeq,
           ~TooOld(info[p].rx_seq, f.seq),
           info' = [info EXCEPT ![p] = Slid(info[p], f)]
    PROVE  /\ SameKeys
           /\ info'[p].rx_seq = NextRxSeq(info[p].rx_seq, f.seq)
           /\ info'[p].rx_window_bitmap =
                 NextBitmap(info[p].rx_seq, info[p].rx_window_bitmap, f.seq)
           /\ info'[p].rx_seq \in 0 .. MaxSeq - 1
           /\ info'[p].rx_window_bitmap \subseteq Offsets
           /\ \A q \in Peers : q # p => info'[q] = info[q]
<1> USE UdpAssumption
<1>1. PICK K : info \in [Peers -> Infos(K)]
  BY DEF TypeInv
<1> DEFINE r == NextRxSeq(info[p].rx_seq, f.seq)
           b == NextBitmap(info[p].rx_seq, info[p].rx_window_bitmap, f.seq)
           i == [info[p] EXCEPT !.rx_seq = r, !.rx_window_bitmap = b]
<1>2. f.seq \in 0 .. MaxSeq - 1 /\ info[p].rx_seq \in 0 .. MaxSeq - 1
      /\ info[p].rx_window_bitmap \subseteq Offsets
  BY DEF FrameOK, WindowOK
<1>3. r \in 0 .. MaxSeq - 1
  BY <1>2 DEF NextRxSeq
<1>4. b \subseteq Offsets
  <2>1. CASE f.seq > info[p].rx_seq
    <3>1. 0 \in Offsets
      BY DEF Offsets
    <3> QED BY <2>1, <3>1 DEF NextBitmap, ShiftLeft
  <2>2. CASE ~(f.seq > info[p].rx_seq)
    <3>1. info[p].rx_seq - f.seq \in Offsets
      BY <1>2, <2>2 DEF TooOld, Offsets
    <3> QED BY <1>2, <2>2, <3>1 DEF NextBitmap
  <2> QED BY <2>1, <2>2
<1>5. info' = [info EXCEPT ![p] = i]
  BY DEF Slid
<1>6. r \in Nat /\ b \in SUBSET Nat
  BY <1>3, <1>4 DEF Offsets
<1> HIDE DEF r, b
<1>7. /\ i \in Infos(K) /\ i.rx_seq = r /\ i.rx_window_bitmap = b
      /\ i.tx_key = info[p].tx_key /\ i.rx_key = info[p].rx_key /\ i.tx_seq = info[p].tx_seq
  <2>1. info[p] \in Infos(K)
    BY <1>1
  <2> QED BY <1>6, <2>1 DEF Infos
<1> HIDE DEF i
<1>8. info' \in [Peers -> Infos(K)] /\ info'[p] = i /\ \A q \in Peers : q # p => info'[q] = info[q]
  BY <1>1, <1>5, <1>7
<1>9. SameKeys
  BY <1>7, <1>8 DEF SameKeys
<1> QED BY <1>3, <1>4, <1>7, <1>8, <1>9 DEF r, b

(* The frame at the head of the buffer is one of the peer's. *)
LEMMA HeadFacts ==
    ASSUME BufferOK, WireOK, NEW p \in Peers, read_buffer[p] # << >>
    PROVE  /\ Among(wire[Other(p)], NextFrame(p))
           /\ FrameOK(NextFrame(p))
           /\ NextFrame(p) = read_buffer[p][1]
           /\ Len(read_buffer[p]) \in Nat \ {0}
<1>1. PICK F : read_buffer \in [Peers -> Seq(F)]
  BY DEF BufferOK
<1>2. read_buffer[p] \in Seq(F)
  BY <1>1
<1>3. Len(read_buffer[p]) \in Nat \ {0} /\ Head(read_buffer[p]) = read_buffer[p][1]
  BY <1>2, EmptySeq, LenProperties
<1>4. Among(wire[Other(p)], NextFrame(p))
  BY <1>3 DEF BufferOK, NextFrame
<1>5. FrameOK(NextFrame(p))
  BY <1>4, PeerFacts DEF Among, WireOK
<1> QED BY <1>3, <1>4, <1>5 DEF NextFrame

(* recv() takes a frame. *)
LEMMA FrameEffects ==
    ASSUME TypeInv, QueueInv, LinkInv, NEW p \in Peers, RecvFrame(p)
    PROVE  UdpEffect(p)
<1> USE UdpAssumption
<1> DEFINE f == NextFrame(p)
           i == Slid(info[p], f)
<1>1. /\ recv[p].pc = "reading" /\ read_buffer[p] # << >>
      /\ ~Drops(p, f) /\ f.seq < MaxSeq
      /\ Consume(p)
      /\ last_rx_seq' = [last_rx_seq EXCEPT ![p] = IF f.seq > @ THEN f.seq ELSE @]
      /\ Dispatch(p, f, i)
      /\ UNCHANGED <<attempt, acked, utacks, faulted>>
  BY DEF RecvFrame, CanRead, faultVars
<1>2. FrameOK(f)
  BY <1>1, HeadFacts DEF LinkInv
<1>3. UNCHANGED sent
  BY <1>1 DEF Dispatch, OnBye, OnIntruder, OnPong, OnPing, OnRekey, OnData, SendPong
<1>4. Takes(p)
  BY <1>1, <1>3 DEF Takes
<1>5. ASSUME info' = [info EXCEPT ![p] = i]
      PROVE  Moved(p) /\ SameKeys
  <2>1. ~TooOld(info[p].rx_seq, f.seq)
    BY <1>1 DEF Drops
  <2> QED BY <1>1, <1>2, <1>5, <2>1, SlideFacts DEF Moved, LinkInv
<1>6. ASSUME info' = [info EXCEPT ![p] = i],
             UNCHANGED <<send_lock, task, wire, closed, transport_closed, salts, sent, calls>>
      PROVE  Moved(p) /\ Stands /\ UNCHANGED transport_closed
  BY <1>5, <1>6 DEF Stands, TypeInv
<1> HIDE DEF i
<1>7. ASSUME Moved(p), Stands, UNCHANGED transport_closed, Proceeds(p, f)
      PROVE  UdpEffect(p)
  BY <1>4, <1>7 DEF Reads, UdpEffect
<1>8. CASE OnBye(p, f, i)
  <2>1. Proceeds(p, f)
    BY <1>8 DEF OnBye, Proceeds, Fails
  <2> QED BY <1>6, <1>7, <1>8, <2>1 DEF OnBye
<1>9. \A e : Violates(p, e) => Continues(p, Restarted(p))
  <2>1. Restarted(p) = [recv[p] EXCEPT !.payload = << >>, !.frame_count = 0,
                                       !.expected_frag_seq = 0]
    <3>1. recv[p] \in RecvCalls
      BY DEF LinkInv, CallsOK
    <3> QED BY <1>1, <3>1 DEF RecvCalls, Restarted
  <2> QED BY <2>1 DEF Violates
<1>10. CASE OnIntruder(p, f, i)
  <2>1. Proceeds(p, f)
    BY <1>9, <1>10 DEF OnIntruder, Proceeds, Breaks
  <2> QED BY <1>6, <1>7, <1>10, <2>1 DEF OnIntruder
<1>11. CASE OnPong(p, f, i)
  <2>1. Proceeds(p, f)
    BY <1>11, CountEffect DEF OnPong, Proceeds, LinkInv
  <2> QED BY <1>6, <1>7, <1>11, <2>1 DEF OnPong
<1>12. CASE OnPing(p, f, i)
  <2>1. /\ f.type = "PING" /\ ~MidMessage(p) /\ SendPong(p) /\ info' = [info EXCEPT ![p] = i]
        /\ Continues(p, [recv[p] EXCEPT !.pc = "pong"])
    BY <1>12 DEF OnPing
  <2>2. Moved(p) /\ SameKeys
    BY <1>5, <2>1
  <2>3. Joins(p, RecvTask, "PONG", << >>)
    BY <2>1, <2>2 DEF SendPong, Joins
  <2> QED BY <1>4, <2>1, <2>2, <2>3 DEF Answers, UdpEffect
<1>13. CASE OnRekey(p, f, i)
  <2>1. Rotated(i, FALSE, f.body[1]) = Rotated(info[p], FALSE, f.body[1])
    <3>1. PICK K : info \in [Peers -> Infos(K)]
      BY DEF TypeInv
    <3>2. i.tx_key = info[p].tx_key /\ i.rx_key = info[p].rx_key
      BY <3>1 DEF Infos, i, Slid
    <3> QED BY <3>2 DEF Rotated
  <2>2. info' = [info EXCEPT ![p] = Rotated(@, FALSE, f.body[1])]
    BY <1>13, <2>1 DEF OnRekey
  <2>3. AcceptRekey(p, f.body[1])
    BY <1>13, <2>2 DEF OnRekey, AcceptRekey
  <2>4. Accepts(p)
    BY <1>4, <1>13, <2>3 DEF OnRekey, Accepts
  <2> QED BY <2>4 DEF UdpEffect
<1>14. CASE OnData(p, f, i)
  <2> DEFINE payload == recv[p].payload \o f.body
             count == recv[p].frame_count + 1
  <2>1. Moved(p) /\ Stands /\ UNCHANGED transport_closed
    BY <1>6, <1>14 DEF OnData
  <2>2. \/ /\ f.type \in {"DATA", "DATA_FRAG"}
           /\ recv[p].frame_count > 0 /\ f.seq # recv[p].expected_frag_seq
           /\ Violates(p, "sequence")
        \/ InSequence(p, f) /\ f.type = "DATA" /\ Returns(p, payload)
        \/ f.type = "DATA_FRAG" /\ count >= MaxFrames /\ Violates(p, "payload")
        \/ /\ InSequence(p, f) /\ f.type = "DATA_FRAG" /\ count < MaxFrames
           /\ Continues(p, Grown(p, f))
    BY <1>14 DEF OnData, InSequence, Grown
  <2>3. CASE InSequence(p, f) /\ f.type = "DATA" /\ Returns(p, payload)
    BY <1>4, <2>1, <2>3 DEF Delivers, UdpEffect
  <2>4. CASE ~(InSequence(p, f) /\ f.type = "DATA" /\ Returns(p, payload))
    <3>1. Proceeds(p, f)
      BY <1>9, <2>2, <2>4 DEF Proceeds, Breaks
    <3> QED BY <1>7, <2>1, <3>1
  <2> QED BY <2>3, <2>4
<1> QED BY <1>1, <1>8, <1>10, <1>11, <1>12, <1>13, <1>14 DEF Dispatch

(* Every step, and every stutter, has one of the effects. *)
LEMMA UdpEffects ==
    ASSUME TypeInv, QueueInv, LinkInv, [UdpNext]_vars
    PROVE  \E p \in Peers : UdpEffect(p)
<1>1. CASE UdpNext
  BY <1>1, SendEffects, PongEffects, OtherEffects, FrameEffects DEF UdpNext
<1>2. CASE UNCHANGED vars
  <2>1. UNCHANGED <<sessionVars, recvVars, streamVars, faulted>>
    BY <1>2 DEF vars, faultVars
  <2>2. Stands /\ UNCHANGED <<info, sent, transport_closed>>
    BY <2>1, StandStill DEF sessionVars
  <2>3. Restarts(Client)
    BY <2>1, <2>2 DEF Restarts
  <2> QED BY <2>3 DEF UdpEffect, Peers
<1> QED BY <1>1, <1>2

-----------------------------------------------------------------------------
(* What the effects leave alone. *)
LEMMA SameWire ==
    ASSUME TypeInv, NEW p \in Peers, UdpEffect(p), ~WritesOut(p)
    PROVE  UNCHANGED wire
<1>1. CASE Calls(p) \/ Answers(p)
  BY <1>1 DEF Calls, Answers, Draws, Joins, Enqueue
<1>2. CASE CallEnds(p) \/ Rekeys(p) \/ PongEnds(p)
  BY <1>2 DEF CallEnds, Rekeys, PongEnds, Ends, Leaves, RekeyDone, Leave
<1>3. CASE Restarts(p) \/ Reads(p) \/ Delivers(p)
  BY <1>3 DEF Restarts, Reads, Delivers, Stands
<1>4. CASE Accepts(p)
  BY <1>4 DEF Accepts, AcceptRekey
<1>5. CASE Feeds(p) \/ Acks(p) \/ Retransmit(p) \/ Skips(p)
  BY <1>5 DEF Feeds, Acks, Retransmit, Skips, sessionVars
<1> QED BY <1>1, <1>2, <1>3, <1>4, <1>5 DEF UdpEffect

(* Whatever was sent stays on the wire. *)
LEMMA OnWireGrows ==
    ASSUME TypeInv, NEW p \in Peers, UdpEffect(p), NEW q \in Peers, NEW f, Among(wire[q], f)
    PROVE  Among(wire'[q], f)
<1>1. CASE WritesOut(p)
  <2>1. PICK t, c : t \in Callers /\ Writes(p, t, c)
    BY <1>1 DEF WritesOut
  <2>2. CASE q = p
    <3>1. Longer(wire[p], wire'[p], SealedFrame(p, c))
      BY <2>1, WriteFacts
    <3> QED BY <2>2, <3>1 DEF Among, Longer
  <2>3. CASE q # p
    <3>1. wire'[q] = wire[q]
      BY <2>1, <2>3, WriteFacts
    <3> QED BY <3>1 DEF Among
  <2> QED BY <2>2, <2>3
<1>2. CASE ~WritesOut(p)
  BY <1>2, SameWire DEF Among
<1> QED BY <1>1, <1>2

LEMMA WireNext ==
    ASSUME TypeInv, WireOK, NEW p \in Peers, UdpEffect(p)
    PROVE  WireOK'
<1>1. CASE WritesOut(p)
  <2>1. PICK t, c : t \in Callers /\ Writes(p, t, c)
    BY <1>1 DEF WritesOut
  <2>2. /\ \A q \in Peers : q # p => wire'[q] = wire[q]
        /\ Longer(wire[p], wire'[p], SealedFrame(p, c))
        /\ FrameOK(SealedFrame(p, c))
    BY <2>1, WriteFacts
  <2>3. \A q \in Peers : \A i \in 1 .. Len(wire'[q]) : FrameOK(wire'[q][i])
    <3> SUFFICES ASSUME NEW q \in Peers, NEW i \in 1 .. Len(wire'[q]) PROVE FrameOK(wire'[q][i])
      OBVIOUS
    <3>1. CASE q = p
      BY <2>2, <3>1 DEF WireOK, Longer
    <3>2. CASE q # p
      BY <2>2, <3>2 DEF WireOK
    <3> QED BY <3>1, <3>2
  <2> QED BY <2>3 DEF WireOK, FrameOK
<1>2. CASE ~WritesOut(p)
  BY <1>2, SameWire DEF WireOK, FrameOK
<1> QED BY <1>1, <1>2

(* A frame that arrives goes to the end of the buffer, and recv() takes    *)
(* them from its head.                                                     *)
LEMMA TailFacts ==
    ASSUME NEW F, NEW s \in Seq(F), s # << >>
    PROVE  /\ Tail(s) \in Seq(F)
           /\ Len(s) \in Nat /\ Len(Tail(s)) = Len(s) - 1
           /\ \A k \in 1 .. Len(Tail(s)) : k + 1 \in 1 .. Len(s) /\ Tail(s)[k] = s[k + 1]
<1>1. Len(s) \in Nat \ {0}
  BY EmptySeq, LenProperties
<1>2. Tail(s) \in Seq(F) /\ Len(Tail(s)) = Len(s) - 1
      /\ \A k \in 1 .. Len(Tail(s)) : Tail(s)[k] = s[k + 1]
  BY HeadTailProperties
<1> QED BY <1>1, <1>2

LEMMA BufferNext ==
    ASSUME TypeInv, BufferOK, NEW p \in Peers, UdpEffect(p)
    PROVE  BufferOK'
<1>0. \A q \in Peers : \A f : Among(wire[Other(q)], f) => Among(wire'[Other(q)], f)
  BY OnWireGrows, PeerFacts
<1>1. PICK F : read_buffer \in [Peers -> Seq(F)]
  BY DEF BufferOK
<1>2. ASSUME NEW b, NEW G, read_buffer' = [read_buffer EXCEPT ![p] = b], F \subseteq G, b \in Seq(G),
             Len(b) <= BufferCap, \A k \in 1 .. Len(b) : Among(wire[Other(p)], b[k])
      PROVE  BufferOK'
  <2>1. \A q \in Peers : read_buffer[q] \in Seq(G)
    BY <1>1, <1>2, SeqMonotonic
  <2>2. read_buffer' \in [Peers -> Seq(G)]
        /\ \A q \in Peers : read_buffer'[q] = IF q = p THEN b ELSE read_buffer[q]
    BY <1>1, <1>2, <2>1
  <2>3. \A q \in Peers : \A k \in 1 .. Len(read_buffer'[q]) : Among(wire[Other(q)], read_buffer'[q][k])
    BY <1>2, <2>2 DEF BufferOK
  <2>4. \A q \in Peers : \A k \in 1 .. Len(read_buffer'[q]) : Among(wire'[Other(q)], read_buffer'[q][k])
    BY <1>0, <2>3
  <2>5. \A q \in Peers : Len(read_buffer'[q]) <= BufferCap
    BY <1>2, <2>2 DEF BufferOK
  <2> QED BY <2>2, <2>4, <2>5 DEF BufferOK, Among
<1>3. CASE UNCHANGED read_buffer
  <2>1. \A q \in Peers : \A k \in 1 .. Len(read_buffer'[q]) : Among(wire'[Other(q)], read_buffer'[q][k])
    BY <1>0, <1>3 DEF BufferOK
  <2> QED BY <1>1, <1>3, <2>1 DEF BufferOK, Among
<1>4. CASE Feeds(p)
  <2>1. PICK i \in 1 .. Len(wire[Other(p)]) : FeedPacket(p, wire[Other(p)][i])
    BY <1>4 DEF Feeds
  <2> DEFINE f == wire[Other(p)][i]
             G == F \cup {f}
             b == Append(read_buffer[p], f)
  <2>2. CASE UNCHANGED read_buffer
    BY <1>3, <2>2
  <2>3. CASE Len(read_buffer[p]) < BufferCap /\ read_buffer' = [read_buffer EXCEPT ![p] = b]
    <3>1. read_buffer[p] \in Seq(G)
      BY <1>1, SeqMonotonic
    <3>2. /\ b \in Seq(G) /\ Len(read_buffer[p]) \in Nat /\ Len(b) = Len(read_buffer[p]) + 1
          /\ b[Len(read_buffer[p]) + 1] = f
          /\ \A k \in 1 .. Len(read_buffer[p]) : b[k] = read_buffer[p][k]
      BY <3>1, AppendProperties, LenProperties
    <3>3. Len(b) <= BufferCap
      BY <2>3, <3>2, UdpAssumption
    <3>4. Among(wire[Other(p)], f)
      BY DEF Among
    <3> HIDE DEF b, f
    <3>5. \A k \in 1 .. Len(b) : k \in 1 .. Len(read_buffer[p]) \/ k = Len(read_buffer[p]) + 1
      BY <3>2
    <3>6. \A k \in 1 .. Len(b) : Among(wire[Other(p)], b[k])
      BY <3>2, <3>4, <3>5 DEF BufferOK
    <3> QED BY <1>2, <2>3, <3>2, <3>3, <3>6
  <2> QED BY <2>1, <2>2, <2>3 DEF FeedPacket
<1>5. CASE Consume(p) /\ read_buffer[p] # << >>
  <2> DEFINE b == Tail(read_buffer[p])
  <2>1. read_buffer' = [read_buffer EXCEPT ![p] = b]
    BY <1>5 DEF Consume
  <2>2. /\ b \in Seq(F) /\ Len(b) = Len(read_buffer[p]) - 1 /\ Len(read_buffer[p]) \in Nat
        /\ \A k \in 1 .. Len(b) : k + 1 \in 1 .. Len(read_buffer[p]) /\ b[k] = read_buffer[p][k + 1]
    BY <1>1, <1>5, TailFacts
  <2> HIDE DEF b
  <2>3. Len(b) <= BufferCap /\ \A k \in 1 .. Len(b) : Among(wire[Other(p)], b[k])
    BY <2>2, UdpAssumption DEF BufferOK
  <2> QED BY <1>2, <2>1, <2>2, <2>3
<1> QED BY <1>3, <1>4, <1>5
    DEF UdpEffect, Calls, WritesOut, Transmit, CallEnds, Rekeys, PongEnds, Ends, Acks, FeedUtack,
        Retransmit, Restarts, Skips, Reads, Delivers, Answers, Accepts, Takes, streamVars

LEMMA StreamNext ==
    ASSUME WireOK, BufferOK, StreamOK, NEW p \in Peers, UdpEffect(p)
    PROVE  StreamOK'
<1> USE UdpAssumption
<1>0. PICK U : utacks \in [Peers -> U]
  BY DEF StreamOK
<1>1. CASE UNCHANGED streamVars
  BY <1>1 DEF streamVars, StreamOK
<1>2. CASE WritesOut(p)
  <2>1. /\ UNCHANGED <<last_rx_seq, utacks>>
        /\ acked' = [acked EXCEPT ![p] = FALSE]
        /\ attempt' = [attempt EXCEPT ![p] = IF transport_closed[p] THEN 0 ELSE 1]
    BY <1>2 DEF WritesOut, Transmit
  <2>2. (IF transport_closed[p] THEN 0 ELSE 1) \in 0 .. MaxAttempts
    OBVIOUS
  <2> QED BY <2>1, <2>2 DEF StreamOK
<1>3. CASE Feeds(p)
  <2>1. PICK i \in 1 .. Len(wire[Other(p)]) : FeedPacket(p, wire[Other(p)][i])
    BY <1>3 DEF Feeds
  <2>2. PICK V : utacks' = [utacks EXCEPT ![p] = V]
    BY <2>1 DEF FeedPacket, SendUtack
  <2>3. utacks' \in [Peers -> U \cup {V}]
    BY <1>0, <2>2
  <2>4. UNCHANGED <<last_rx_seq, attempt, acked>>
    BY <2>1 DEF FeedPacket
  <2> QED BY <2>3, <2>4 DEF StreamOK
<1>4. CASE Acks(p)
  <2>1. UNCHANGED <<last_rx_seq, attempt, utacks>> /\ acked' = [acked EXCEPT ![p] = TRUE]
    BY <1>4 DEF Acks, FeedUtack
  <2> QED BY <2>1 DEF StreamOK
<1>5. CASE Retransmit(p)
  <2>1. /\ UNCHANGED <<last_rx_seq, acked, utacks>> /\ attempt[p] + 1 \in 0 .. MaxAttempts
        /\ attempt' = [attempt EXCEPT ![p] = @ + 1]
    BY <1>5 DEF Retransmit
  <2> QED BY <2>1 DEF StreamOK
<1>6. CASE Takes(p)
  <2>1. /\ UNCHANGED <<attempt, acked, utacks>> /\ NextFrame(p).seq < MaxSeq
        /\ read_buffer[p] # << >>
        /\ last_rx_seq' =
              [last_rx_seq EXCEPT ![p] = IF NextFrame(p).seq > @ THEN NextFrame(p).seq ELSE @]
    BY <1>6 DEF Takes
  <2>2. NextFrame(p).seq \in 0 .. MaxSeq
    BY <2>1, HeadFacts DEF FrameOK
  <2>3. (IF NextFrame(p).seq > last_rx_seq[p] THEN NextFrame(p).seq ELSE last_rx_seq[p])
            \in -1 .. MaxSeq - 1
    BY <2>1, <2>2 DEF StreamOK
  <2> QED BY <2>1, <2>3 DEF StreamOK
<1>7. CASE Skips(p)
  BY <1>7 DEF Skips, StreamOK
<1> QED BY <1>1, <1>2, <1>3, <1>4, <1>5, <1>6, <1>7
    DEF UdpEffect, Calls, CallEnds, Rekeys, PongEnds, Ends, Restarts, Reads, Delivers, Answers, Accepts

(* The window, and what was handed to send(). *)
LEMMA WindowNext ==
    ASSUME TypeInv, WireOK, BufferOK, WindowOK, NEW p \in Peers, UdpEffect(p)
    PROVE  WindowOK'
<1>1. CASE UNCHANGED info
  BY <1>1 DEF WindowOK
<1>2. CASE WritesOut(p)
  <2>1. \A q \in Peers : info'[q].rx_seq = info[q].rx_seq
                         /\ info'[q].rx_window_bitmap = info[q].rx_window_bitmap
    BY <1>2, WriteFacts DEF WritesOut
  <2> QED BY <2>1 DEF WindowOK
<1>3. CASE Rekeys(p) \/ Accepts(p)
  <2>1. \/ \E s : info' = [info EXCEPT ![p] = Rotated(@, TRUE, s)]
        \/ \E s : info' = [info EXCEPT ![p] = Rotated(@, FALSE, s)]
    BY <1>3 DEF Rekeys, RekeyDone, Accepts, AcceptRekey
  <2>2. /\ info'[p].rx_seq = 0 /\ info'[p].rx_window_bitmap = {}
        /\ \A q \in Peers : q # p => info'[q] = info[q]
    <3>1. PICK b \in BOOLEAN : \E s : info' = [info EXCEPT ![p] = Rotated(@, b, s)]
      BY <2>1
    <3>2. PICK s : info' = [info EXCEPT ![p] = Rotated(@, b, s)]
      BY <3>1
    <3> QED BY <3>2, RotatedFacts
  <2>3. 0 \in 0 .. MaxSeq - 1
    BY UdpAssumption
  <2> QED BY <2>2, <2>3 DEF WindowOK
<1>4. CASE Takes(p) /\ Moved(p)
  <2>1. /\ read_buffer[p] # << >> /\ NextFrame(p).seq < MaxSeq
        /\ ~TooOld(info[p].rx_seq, NextFrame(p).seq)
        /\ info' = [info EXCEPT ![p] = Slid(info[p], NextFrame(p))]
    BY <1>4 DEF Takes, Moved, Drops
  <2>2. FrameOK(NextFrame(p))
    BY <2>1, HeadFacts
  <2>3. /\ info'[p].rx_seq \in 0 .. MaxSeq - 1
        /\ info'[p].rx_window_bitmap \subseteq Offsets
        /\ \A q \in Peers : q # p => info'[q] = info[q]
    BY <2>1, <2>2, SlideFacts
  <2> QED BY <2>3 DEF WindowOK
<1> QED BY <1>1, <1>2, <1>3, <1>4
    DEF UdpEffect, Calls, CallEnds, PongEnds, Ends, Feeds, Acks, Retransmit, Restarts, Skips,
        Reads, Delivers, Answers, sessionVars

LEMMA SameSent ==
    ASSUME NEW p \in Peers, UdpEffect(p), ~Calls(p)
    PROVE  UNCHANGED sent
<1>1. CASE Rekeys(p) \/ Accepts(p)
  BY <1>1 DEF Rekeys, RekeyDone, Leave, Accepts, AcceptRekey
<1> QED BY <1>1
    DEF UdpEffect, WritesOut, CallEnds, PongEnds, Ends, Feeds, Acks, Retransmit, Restarts, Skips,
        Reads, Delivers, Answers, Takes, sessionVars

LEMMA SentNext ==
    ASSUME SentOK, NEW p \in Peers, UdpEffect(p)
    PROVE  SentOK'
<1>1. CASE ~Calls(p)
  BY <1>1, SameSent DEF SentOK
<1>2. CASE Calls(p)
  <2>1. UNCHANGED sent \/ \E m \in Msgs : sent' = [sent EXCEPT ![p] = Append(@, m)]
    BY <1>2 DEF Calls, Submits
  <2>2. ASSUME NEW m \in Msgs, sent' = [sent EXCEPT ![p] = Append(@, m)]
        PROVE  SentOK'
    <3>1. Append(sent[p], m) \in Seq(Msgs)
      BY AppendProperties DEF SentOK
    <3> QED BY <2>2, <3>1 DEF SentOK
  <2> QED BY <2>1, <2>2 DEF SentOK
<1> QED BY <1>1, <1>2

(* The state of a recv() stays well formed. *)
LEMMA RecvTypes ==
    ASSUME CallsOK, NEW p \in Peers
    PROVE  /\ NotReceiving \in RecvCalls /\ NotReceiving.pc = "idle"
           /\ Receiving \in RecvCalls /\ Receiving.pc = "reading"
           /\ Restarted(p) \in RecvCalls /\ Restarted(p).pc = "reading"
           /\ \A n \in Nat : Counted(p, n) \in RecvCalls /\ Counted(p, n).pc = "reading"
           /\ LET r == [recv[p] EXCEPT !.pc = "pong"] IN r \in RecvCalls /\ r.pc = "pong"
<1>1. recv[p] \in RecvCalls
  BY DEF CallsOK
<1>2. 0 \in 0 .. MaxFrames - 1
  BY LengthAssumption
<1>3. << >> \in Text
  BY EmptySeq DEF Text
<1>4. NotReceiving \in RecvCalls /\ NotReceiving.pc = "idle"
  BY <1>2, <1>3 DEF NotReceiving, RecvCalls, Pcs
<1>5. Receiving \in RecvCalls /\ Receiving.pc = "reading"
  <2>1. Receiving = [pc |-> "reading", payload |-> << >>, frame_count |-> 0,
                     expected_frag_seq |-> 0, ctrl_count |-> 0]
    BY DEF Receiving, NotReceiving
  <2> QED BY <1>2, <1>3, <2>1 DEF RecvCalls, Pcs
<1>6. ASSUME NEW n \in Nat PROVE Counted(p, n) \in RecvCalls /\ Counted(p, n).pc = "reading"
  BY <1>1 DEF RecvCalls, Pcs, Counted
<1>7. Restarted(p) \in RecvCalls /\ Restarted(p).pc = "reading"
  BY <1>1, <1>2, <1>3 DEF RecvCalls, Pcs, Restarted
<1>8. LET r == [recv[p] EXCEPT !.pc = "pong"] IN r \in RecvCalls /\ r.pc = "pong"
  BY <1>1 DEF RecvCalls, Pcs
<1> QED BY <1>4, <1>5, <1>6, <1>7, <1>8

LEMMA GrownType ==
    ASSUME CallsOK, NEW p \in Peers, NEW f, FrameOK(f), recv[p].frame_count + 1 < MaxFrames
    PROVE  /\ recv[p].payload \o f.body \in Text
           /\ Grown(p, f) \in RecvCalls /\ Grown(p, f).pc = recv[p].pc
           /\ Grown(p, f).payload = recv[p].payload \o f.body
           /\ Grown(p, f).frame_count = recv[p].frame_count + 1
           /\ Grown(p, f).expected_frag_seq = f.seq + 1
<1>1. recv[p] \in RecvCalls
  BY DEF CallsOK
<1>2. recv[p].payload \o f.body \in Text
  <2>1. recv[p].payload \in Text /\ f.body \in Text
    BY <1>1 DEF RecvCalls, FrameOK
  <2> QED BY <2>1, ConcatProperties DEF Text
<1>3. recv[p].frame_count + 1 \in 0 .. MaxFrames - 1
  BY <1>1, LengthAssumption DEF RecvCalls
<1>4. f.seq + 1 \in Nat
  BY SeqAssumption DEF FrameOK
<1>5. PICK x, y, z : x = recv[p].payload \o f.body /\ y = recv[p].frame_count + 1 /\ z = f.seq + 1
  OBVIOUS
<1>6. Grown(p, f) = [recv[p] EXCEPT !.payload = x, !.frame_count = y, !.expected_frag_seq = z]
  BY <1>5 DEF Grown
<1>7. x \in Text /\ y \in 0 .. MaxFrames - 1 /\ z \in Nat
  BY <1>2, <1>3, <1>4, <1>5
<1>8. Grown(p, f) \in RecvCalls /\ Grown(p, f).pc = recv[p].pc
      /\ Grown(p, f).payload = x /\ Grown(p, f).frame_count = y /\ Grown(p, f).expected_frag_seq = z
  BY <1>1, <1>6, <1>7 DEF RecvCalls
<1> QED BY <1>2, <1>5, <1>8

(* What becomes of a recv(): it keeps its state, or fails, or goes on in   *)
(* one of the states below, or returns a message.                          *)
LEMMA RecvCases ==
    ASSUME WireOK, BufferOK, CallsOK, NEW p \in Peers, UdpEffect(p)
    PROVE  \/ UNCHANGED recvVars
           \/ Fails(p)
           \/ \E r \in {NotReceiving, Receiving, Restarted(p)} : Continues(p, r)
           \/ \E n \in Nat : Continues(p, Counted(p, n))
           \/ Answers(p)
           \/ /\ Takes(p) /\ Moved(p) /\ Stands /\ UNCHANGED transport_closed
              /\ NextFrame(p).type = "DATA_FRAG" /\ InSequence(p, NextFrame(p))
              /\ recv[p].frame_count + 1 < MaxFrames
              /\ Continues(p, Grown(p, NextFrame(p)))
           \/ Delivers(p)
BY DEF UdpEffect, Calls, WritesOut, CallEnds, Rekeys, PongEnds, Feeds, Acks, Retransmit, Restarts,
       Skips, Reads, Accepts, Proceeds

(* recv() waits for its PONG exactly while the PONG is being sent. *)
LEMMA PongTask ==
    ASSUME TypeInv, CallsOK, NEW p \in Peers, UdpEffect(p)
    PROVE  /\ \A q \in Peers : q # p =>
                 (task'[q][RecvTask].pc # "idle" <=> task[q][RecvTask].pc # "idle")
           /\ \/ Answers(p) /\ task'[p][RecvTask].pc # "idle"
              \/ PongEnds(p) /\ task'[p][RecvTask].pc = "idle"
              \/ /\ ~Answers(p) /\ ~PongEnds(p)
                 /\ task'[p][RecvTask].pc # "idle" <=> task[p][RecvTask].pc # "idle"
<1>1. RecvTask \in Callers /\ \A t \in Tasks : t \in Callers /\ t # RecvTask
  BY RecvTaskAssumption DEF Callers
<1>2. CASE Answers(p)
  BY <1>1, <1>2, JoinFacts DEF Answers
<1>3. CASE PongEnds(p)
  <2>1. Leave(p, RecvTask)
    BY <1>3 DEF PongEnds, Ends, Leaves
  <2>2. \A q \in Peers : \A u \in Callers : q # p \/ u # RecvTask => task'[q][u] = task[q][u]
    BY <1>1, <2>1, LeaveFacts
  <2> QED BY <1>1, <1>3, <2>1, <2>2, LeaveFacts
<1>4. CASE Calls(p)
  <2>1. PICK t, op, data : t \in Tasks /\ Joins(p, t, op, data)
    BY <1>4 DEF Calls, Draws
  <2>2. \A q \in Peers : task'[q][RecvTask] = task[q][RecvTask]
    BY <1>1, <2>1, JoinFacts
  <2> QED BY <1>2, <1>3, <2>2
<1>5. CASE WritesOut(p)
  <2>1. PICK t, c : t \in Callers /\ Writes(p, t, c)
    BY <1>5 DEF WritesOut
  <2>2. /\ task[p][t].pc # "idle" /\ task'[p][t].pc = "drain"
        /\ \A q \in Peers : \A u \in Callers : q # p \/ u # t => task'[q][u] = task[q][u]
    BY <2>1, WriteFacts
  <2>3. \A q \in Peers : task'[q][RecvTask].pc # "idle" <=> task[q][RecvTask].pc # "idle"
    BY <1>1, <2>2
  <2> QED BY <1>2, <1>3, <2>3
<1>6. CASE CallEnds(p) \/ Rekeys(p)
  <2>1. PICK t \in Tasks : Leave(p, t)
    BY <1>6 DEF CallEnds, Ends, Rekeys, Leaves, RekeyDone
  <2>2. \A q \in Peers : task'[q][RecvTask] = task[q][RecvTask]
    BY <1>1, <2>1, LeaveFacts
  <2> QED BY <1>2, <1>3, <2>2
<1>7. CASE UNCHANGED task
  BY <1>2, <1>3, <1>7
<1> QED BY <1>2, <1>3, <1>4, <1>5, <1>6, <1>7
    DEF UdpEffect, Feeds, Acks, Retransmit, Restarts, Skips, Reads, Delivers, Accepts, AcceptRekey,
        Stands, sessionVars

LEMMA CallsNext ==
    ASSUME TypeInv, WireOK, BufferOK, CallsOK, NEW p \in Peers, UdpEffect(p)
    PROVE  CallsOK'
<1>0. PICK E : error \in [Peers -> E]
  BY DEF CallsOK
<1>1. recv \in [Peers -> RecvCalls] /\ recv[p] \in RecvCalls /\ delivered \in [Peers -> Seq(Text)]
  BY DEF CallsOK
<1>2. ASSUME NEW r \in RecvCalls, recv' = [recv EXCEPT ![p] = r],
             r.pc = "pong" <=> task'[p][RecvTask].pc # "idle",
             delivered' \in [Peers -> Seq(Text)], \E G : error' \in [Peers -> G]
      PROVE  CallsOK'
  <2>1. recv' \in [Peers -> RecvCalls]
        /\ \A q \in Peers : recv'[q] = IF q = p THEN r ELSE recv[q]
    BY <1>1, <1>2
  <2>2. \A q \in Peers : recv'[q].pc = "pong" <=> task'[q][RecvTask].pc # "idle"
    BY <1>2, <2>1, PongTask DEF CallsOK
  <2> QED BY <1>2, <2>1, <2>2 DEF CallsOK, RecvCalls, Text
<1>3. \A r : Continues(p, r) => delivered' \in [Peers -> Seq(Text)] /\ \E G : error' \in [Peers -> G]
  BY <1>0, <1>1 DEF Continues
<1>4. ASSUME Answers(p) PROVE CallsOK'
  <2> DEFINE r == [recv[p] EXCEPT !.pc = "pong"]
  <2>1. r \in RecvCalls /\ r.pc = "pong"
    BY RecvTypes
  <2>2. Continues(p, r) /\ recv' = [recv EXCEPT ![p] = r]
    BY <1>4 DEF Answers, Continues
  <2>3. recv[p].pc = "reading"
    BY <1>4 DEF Answers, Takes
  <2>4. ~PongEnds(p)
    BY <2>3 DEF PongEnds
  <2>5. task'[p][RecvTask].pc # "idle"
    BY <1>4, <2>4, PongTask
  <2> HIDE DEF r
  <2> QED BY <1>2, <1>3, <2>1, <2>2, <2>5
<1>5. ASSUME UNCHANGED recvVars PROVE CallsOK'
  <2>1. ~PongEnds(p) /\ ~Answers(p)
    <3>1. UNCHANGED recv /\ recv \in [Peers -> RecvCalls]
      BY <1>1, <1>5 DEF recvVars
    <3>2. ASSUME PongEnds(p) PROVE FALSE
      <4>1. recv[p].pc = "pong"
        BY <3>2 DEF PongEnds
      <4>2. recv'[p].pc # "pong"
        BY <1>1, <3>2, RecvTypes DEF PongEnds, Fails, Raises, Continues
      <4> QED BY <3>1, <4>1, <4>2
    <3>3. ASSUME Answers(p) PROVE FALSE
      <4>1. recv[p].pc = "reading"
        BY <3>3 DEF Answers, Takes
      <4>2. recv'[p].pc = "pong"
        BY <1>1, <3>3, RecvTypes DEF Answers, Continues
      <4> QED BY <3>1, <4>1, <4>2
    <3> QED BY <3>2, <3>3
  <2>2. \A q \in Peers : task'[q][RecvTask].pc # "idle" <=> task[q][RecvTask].pc # "idle"
    BY <2>1, PongTask
  <2> QED BY <1>5, <2>2 DEF CallsOK, recvVars, RecvCalls, Text
<1>6. ASSUME ~Answers(p), ~UNCHANGED recvVars PROVE task'[p][RecvTask].pc = "idle"
  <2>1. PongEnds(p) \/ recv[p].pc # "pong"
    BY <1>6 DEF UdpEffect, Calls, WritesOut, CallEnds, Rekeys, Feeds, Acks, Retransmit, Restarts,
                Skips, Reads, Delivers, Accepts, Takes
  <2>2. ASSUME ~PongEnds(p) PROVE task'[p][RecvTask].pc = "idle"
    BY <1>6, <2>1, <2>2, PongTask DEF CallsOK
  <2>3. ASSUME PongEnds(p) PROVE task'[p][RecvTask].pc = "idle"
    BY <1>6, <2>3, PongTask
  <2> QED BY <2>2, <2>3
<1>7. ASSUME ~Answers(p), ~UNCHANGED recvVars, NEW r \in RecvCalls, r.pc # "pong", Continues(p, r)
      PROVE  CallsOK'
  BY <1>2, <1>3, <1>6, <1>7 DEF Continues
<1>8. ASSUME ~Answers(p), ~UNCHANGED recvVars, Fails(p) PROVE CallsOK'
  <2>1. PICK e : Raises(p, e)
    BY <1>8 DEF Fails
  <2>2. error' \in [Peers -> E \cup {e}]
    BY <1>0, <2>1 DEF Raises
  <2>3. delivered' \in [Peers -> Seq(Text)] /\ recv' = [recv EXCEPT ![p] = NotReceiving]
    BY <1>1, <2>1 DEF Raises
  <2> QED BY <1>2, <1>6, <1>8, <2>2, <2>3, RecvTypes
<1>9. ASSUME ~Answers(p), ~UNCHANGED recvVars, Delivers(p) PROVE CallsOK'
  <2>1. FrameOK(NextFrame(p))
    BY <1>9, HeadFacts DEF Delivers, Takes
  <2> DEFINE x == recv[p].payload \o NextFrame(p).body
  <2>2. x \in Text
    <3>1. recv[p].payload \in Text /\ NextFrame(p).body \in Text
      BY <1>1, <2>1 DEF RecvCalls, FrameOK
    <3> QED BY <3>1, ConcatProperties DEF Text
  <2>3. delivered' = [delivered EXCEPT ![p] = Append(@, x)] /\ UNCHANGED error
        /\ recv' = [recv EXCEPT ![p] = NotReceiving]
    BY <1>9 DEF Delivers, Returns
  <2> HIDE DEF x
  <2>4. Append(delivered[p], x) \in Seq(Text)
    BY <1>1, <2>2, AppendProperties
  <2>5. delivered' \in [Peers -> Seq(Text)]
    BY <1>1, <2>3, <2>4
  <2> QED BY <1>0, <1>2, <1>6, <1>9, <2>3, <2>5, RecvTypes
<1>10. ASSUME ~Answers(p), ~UNCHANGED recvVars, Takes(p), recv[p].frame_count + 1 < MaxFrames,
              Continues(p, Grown(p, NextFrame(p)))
       PROVE  CallsOK'
  <2>1. FrameOK(NextFrame(p)) /\ recv[p].pc = "reading"
    BY <1>10, HeadFacts DEF Takes
  <2>2. Grown(p, NextFrame(p)) \in RecvCalls /\ Grown(p, NextFrame(p)).pc # "pong"
    BY <1>10, <2>1, GrownType
  <2> QED BY <1>7, <1>10, <2>2
<1>11. ASSUME ~Answers(p), ~UNCHANGED recvVars,
              \/ \E r \in {NotReceiving, Receiving, Restarted(p)} : Continues(p, r)
              \/ \E n \in Nat : Continues(p, Counted(p, n))
       PROVE  CallsOK'
  <2>1. PICK r \in RecvCalls : r.pc # "pong" /\ Continues(p, r)
    BY <1>11, RecvTypes
  <2> QED BY <1>7, <1>11, <2>1
<1> QED BY <1>4, <1>5, <1>8, <1>9, <1>10, <1>11, RecvCases

LEMMA LinkNext ==
    ASSUME TypeInv, LinkInv, NEW p \in Peers, UdpEffect(p)
    PROVE  LinkInv'
<1>1. WireOK /\ BufferOK /\ CallsOK /\ StreamOK /\ WindowOK /\ SentOK
  BY DEF LinkInv
<1>2. WireOK' /\ BufferOK' /\ CallsOK' /\ StreamOK' /\ WindowOK' /\ SentOK'
  BY <1>1, WireNext, BufferNext, CallsNext, StreamNext, WindowNext, SentNext
<1> QED BY <1>2 DEF LinkInv

-----------------------------------------------------------------------------
(* Spent frames.  The replay window refuses what it has seen, but it is    *)
(* restarted by every rotation; a frame of an earlier key is refused       *)
(* because no later key has the salt of that key.  A salt is past once it  *)
(* is known and no rekey() still holds it back.                            *)
Seen(p, s) ==
    \/ TooOld(info[p].rx_seq, s)
    \/ Replayed(info[p].rx_seq, info[p].rx_window_bitmap, s)

Past(p, k) ==
    /\ k.salt \in KnownSalts(p)
    /\ \A t \in Callers : task[p][t].op = "REKEY" => task[p][t].data[1] # k.salt

Spent(p, f) == Past(p, f.key) /\ (f.key = info[p].rx_key => Seen(p, f.seq))

(* A REKEY whose salt is known here is spent. *)
SaltSpent(p) ==
    \A i \in 1 .. Len(wire[Other(p)]) :
        /\ wire[Other(p)][i].type = "REKEY"
        /\ wire[Other(p)][i].body[1] \in salts[p]
        => Spent(p, wire[Other(p)][i])

UdpInv == PairInv /\ LinkInv /\ \A p \in Peers : SaltSpent(p)

(* recv() takes only frames that are not spent, under a key that is past. *)
LEMMA TakenFacts ==
    ASSUME PairInv, LinkInv, NEW p \in Peers, Takes(p)
    PROVE  /\ Past(p, NextFrame(p).key) /\ ~Spent(p, NextFrame(p))
           /\ NextFrame(p).key = info[p].rx_key
           /\ Among(wire[Other(p)], NextFrame(p)) /\ FrameOK(NextFrame(p))
<1>1. PeerNonces(p) /\ Travels(p) /\ WireOK /\ BufferOK
  BY DEF PairInv, NonceInv, AllNonces, SaltInv, LinkInv
<1>2. ~Drops(p, NextFrame(p)) /\ read_buffer[p] # << >>
  BY DEF Takes
<1>3. NextFrame(p).key = info[p].rx_key /\ ~Seen(p, NextFrame(p).seq)
  BY <1>2 DEF Drops, Seen
<1>4. Past(p, NextFrame(p).key)
  BY <1>1, <1>3 DEF Travels, PeerNonces, SaltsKnown, PendingFresh, Past
<1> QED BY <1>1, <1>2, <1>3, <1>4, HeadFacts DEF Spent

(* The salt of a REKEY that recv() takes is new. *)
LEMMA TakenSalt ==
    ASSUME UdpInv, NEW p \in Peers, Takes(p), NextFrame(p).type = "REKEY"
    PROVE  /\ NextFrame(p).body[1] \in Salts \ salts[p]
           /\ \E i \in 1 .. Len(wire[Other(p)]) : wire[Other(p)][i] = NextFrame(p)
<1>1. PICK i \in 1 .. Len(wire[Other(p)]) : wire[Other(p)][i] = NextFrame(p)
  BY TakenFacts DEF UdpInv, Among
<1>2. ~Spent(p, NextFrame(p))
  BY TakenFacts DEF UdpInv
<1>3. NextFrame(p).body[1] \notin salts[p]
  BY <1>1, <1>2 DEF UdpInv, SaltSpent
<1>4. NextFrame(p).body[1] \in Salts
  BY <1>1, PeerFacts DEF UdpInv, PairInv, SaltInv, DrawnInv, Drawn
<1> QED BY <1>1, <1>3, <1>4

LEMMA PairOfUdp ==
    ASSUME UdpInv, NEW p \in Peers, UdpEffect(p)
    PROVE  PairEffect(p)
<1>0. TypeInv /\ RecvTask \in Callers /\ Tasks \subseteq Callers
  BY DEF UdpInv, PairInv, NonceInv, Callers
<1>1. CASE Calls(p)
  BY <1>0, <1>1 DEF Calls, PairEffect
<1>2. CASE WritesOut(p)
  BY <1>2 DEF WritesOut, PairEffect
<1>3. CASE CallEnds(p) \/ PongEnds(p)
  BY <1>0, <1>3 DEF CallEnds, PongEnds, Ends, PairEffect
<1>4. CASE Rekeys(p)
  BY <1>0, <1>4 DEF Rekeys, PairEffect
<1>5. CASE Feeds(p) \/ Acks(p) \/ Retransmit(p) \/ Skips(p)
  <2>1. UNCHANGED sessionVars
    BY <1>5 DEF Feeds, Acks, Retransmit, Skips
  <2> QED BY <1>0, <2>1, StandStill DEF PairEffect
<1>6. CASE Restarts(p) \/ Reads(p) \/ Delivers(p)
  BY <1>6 DEF Restarts, Reads, Delivers, PairEffect
<1>7. CASE Answers(p)
  <2>1. Draws(p, RecvTask, "PONG", << >>)
    BY <1>7 DEF Answers, Draws
  <2> QED BY <1>0, <2>1 DEF PairEffect
<1>8. CASE Accepts(p)
  <2>1. Takes(p) /\ NextFrame(p).type = "REKEY" /\ AcceptRekey(p, NextFrame(p).body[1])
    BY <1>8 DEF Accepts
  <2>2. PICK i \in 1 .. Len(wire[Other(p)]) : wire[Other(p)][i] = NextFrame(p)
    BY <2>1, TakenSalt
  <2>3. TakesSalt(p, i)
    BY <2>1, <2>2, TakenSalt DEF TakesSalt
  <2> QED BY <2>3 DEF PairEffect
<1> QED BY <1>1, <1>2, <1>3, <1>4, <1>5, <1>6, <1>7, <1>8 DEF UdpEffect

(* The window forgets nothing, and sees the frame that moves it. *)
LEMMA SeenGrows ==
    ASSUME TypeInv, LinkInv, NEW p \in Peers, Takes(p), Moved(p)
    PROVE  \A s \in 0 .. MaxSeq : s = NextFrame(p).seq \/ Seen(p, s) => Seen(p, s)'
<1> USE UdpAssumption
<1>0. WireOK /\ BufferOK /\ WindowOK
  BY DEF LinkInv
<1> DEFINE n == NextFrame(p).seq
           r == info[p].rx_seq
           b == info[p].rx_window_bitmap
<1>1. /\ n \in 0 .. MaxSeq /\ r \in 0 .. MaxSeq - 1 /\ b \subseteq Offsets
      /\ ~TooOld(r, n)
  BY <1>0, HeadFacts DEF Takes, Drops, FrameOK, WindowOK
<1>2. info'[p].rx_seq = NextRxSeq(r, n) /\ info'[p].rx_window_bitmap = NextBitmap(r, b, n)
  BY DEF Moved, Slid, TypeInv, Infos
<1> HIDE DEF n, r, b
<1>3. ASSUME NEW s \in 0 .. MaxSeq, s = n \/ TooOld(r, s) \/ Replayed(r, b, s)
      PROVE  TooOld(NextRxSeq(r, n), s) \/ Replayed(NextRxSeq(r, n), NextBitmap(r, b, n), s)
  <2>1. CASE n <= r
    <3>1. NextRxSeq(r, n) = r /\ NextBitmap(r, b, n) = b \cup {r - n}
      BY <1>1, <2>1 DEF NextRxSeq, NextBitmap
    <3> QED BY <1>1, <1>3, <2>1, <3>1 DEF TooOld, Replayed
  <2>2. CASE n > r
    <3>1. NextRxSeq(r, n) = n
      BY <2>2 DEF NextRxSeq
    <3>2. CASE s = n
      <4>1. 0 \in NextBitmap(r, b, n)
        BY <2>2 DEF NextBitmap
      <4> QED BY <1>1, <3>1, <3>2, <4>1 DEF Replayed
    <3>3. CASE s <= n - WindowSize
      BY <3>1, <3>3 DEF TooOld
    <3>4. CASE s # n /\ s > n - WindowSize
      <4>1. s <= r /\ r - s \in b
        BY <1>1, <1>3, <2>2, <3>4 DEF TooOld, Replayed
      <4>2. n - r < WindowSize /\ n - s \in Offsets /\ (n - s) - (n - r) = r - s
        BY <1>1, <2>2, <3>4, <4>1 DEF Offsets
      <4>3. n - s \in ShiftLeft(b, n - r)
        BY <4>1, <4>2 DEF ShiftLeft
      <4>4. n - s \in NextBitmap(r, b, n)
        BY <2>2, <4>2, <4>3 DEF NextBitmap
      <4> QED BY <1>1, <2>2, <3>1, <4>1, <4>4 DEF Replayed
    <3> QED BY <1>1, <3>2, <3>3, <3>4
  <2> QED BY <1>1, <2>1, <2>2
<1> QED BY <1>2, <1>3 DEF Seen, n, r, b

(* A step of p leaves the session and the recv() of the other peer alone.  *)
LEMMA OtherStill ==
    ASSUME TypeInv, LinkInv, NEW p \in Peers, UdpEffect(p), NEW q \in Peers, q # p
    PROVE  /\ info'[q] = info[q] /\ salts'[q] = salts[q]
           /\ \A t \in Callers : task'[q][t] = task[q][t]
           /\ recv'[q] = recv[q] /\ delivered'[q] = delivered[q]
<1>0. RecvTask \in Callers /\ Tasks \subseteq Callers
  BY DEF Callers
<1>1. recv'[q] = recv[q] /\ delivered'[q] = delivered[q]
  <2>1. WireOK /\ BufferOK /\ CallsOK
    BY DEF LinkInv
  <2>2. \A r : Continues(p, r) => recv'[q] = recv[q] /\ delivered'[q] = delivered[q]
    BY <2>1 DEF Continues, CallsOK
  <2>3. Fails(p) => recv'[q] = recv[q] /\ delivered'[q] = delivered[q]
    BY <2>1 DEF Fails, Raises, CallsOK
  <2>4. Delivers(p) => recv'[q] = recv[q] /\ delivered'[q] = delivered[q]
    BY <2>1 DEF Delivers, Returns, CallsOK
  <2>5. Answers(p) => recv'[q] = recv[q] /\ delivered'[q] = delivered[q]
    BY <2>2 DEF Answers
  <2>6. UNCHANGED recvVars => recv'[q] = recv[q] /\ delivered'[q] = delivered[q]
    BY DEF recvVars
  <2> QED BY <2>1, <2>2, <2>3, <2>4, <2>5, <2>6, RecvCases
<1> SUFFICES /\ info'[q] = info[q] /\ salts'[q] = salts[q]
             /\ \A t \in Callers : task'[q][t] = task[q][t]
  BY <1>1
<1>2. ASSUME NEW t \in Callers, NEW op, NEW data, Joins(p, t, op, data)
      PROVE  /\ salts'[q] = salts[q]
             /\ \A u \in Callers : task'[q][u] = task[q][u]
  <2>1. salts'[q] = salts[q]
    BY <1>2 DEF Joins, TypeInv
  <2> QED BY <1>2, <2>1, JoinFacts
<1>3. Moved(p) => info'[q] = info[q]
  BY DEF Moved, TypeInv
<1>4. CASE Calls(p)
  BY <1>0, <1>2, <1>4 DEF Calls, Draws
<1>5. CASE Answers(p)
  BY <1>0, <1>2, <1>3, <1>5 DEF Answers
<1>6. CASE WritesOut(p)
  <2>1. PICK t, c : t \in Callers /\ Writes(p, t, c)
    BY <1>6 DEF WritesOut
  <2> QED BY <2>1, WriteFacts
<1>7. CASE CallEnds(p) \/ PongEnds(p)
  <2>1. PICK t \in Callers : Leave(p, t) /\ UNCHANGED info
    BY <1>0, <1>7 DEF CallEnds, PongEnds, Ends, Leaves
  <2> QED BY <2>1, LeaveFacts
<1>8. CASE Rekeys(p)
  <2>1. PICK t \in Callers : Leave(p, t) /\ \E s : info' = [info EXCEPT ![p] = Rotated(@, TRUE, s)]
    BY <1>0, <1>8 DEF Rekeys, RekeyDone
  <2> QED BY <2>1, LeaveFacts, RotatedFacts
<1>9. CASE Accepts(p)
  BY <1>9 DEF Accepts, AcceptRekey, TypeInv
<1>10. CASE Feeds(p) \/ Acks(p) \/ Retransmit(p) \/ Skips(p)
  BY <1>10 DEF Feeds, Acks, Retransmit, Skips, sessionVars
<1>11. CASE Restarts(p) \/ Reads(p) \/ Delivers(p)
  BY <1>3, <1>11 DEF Restarts, Reads, Delivers, Stands
<1> QED BY <1>1, <1>4, <1>5, <1>6, <1>7, <1>8, <1>9, <1>10, <1>11 DEF UdpEffect

(* The peer that moves: what was past stays past, and a key it installs is *)
(* not past.                                                               *)
LEMMA PastKept ==
    ASSUME UdpInv, NEW p \in Peers, UdpEffect(p)
    PROVE  \A k : Past(p, k) => Past(p, k)' /\ (k = info'[p].rx_key => k = info[p].rx_key)
<1>0. TypeInv /\ RecvTask \in Callers /\ Tasks \subseteq Callers
  BY DEF UdpInv, PairInv, NonceInv, Callers
<1>1. ASSUME NEW t \in Callers, NEW op, NEW data, Draws(p, t, op, data)
      PROVE  \A k : Past(p, k) => Past(p, k)' /\ (k = info'[p].rx_key => k = info[p].rx_key)
  <2>1. Joins(p, t, op, data) /\ info'[p].rx_key = info[p].rx_key
    BY <1>1 DEF Draws, Joins, SameKeys
  <2>2. /\ task'[p][t].op = op /\ task'[p][t].data = data
        /\ \A u \in Callers : u # t => task'[p][u] = task[p][u]
    BY <1>0, <2>1, JoinFacts
  <2>3. salts[p] \subseteq salts'[p]
    BY <1>0, <2>1 DEF Joins, TypeInv
  <2>4. op = "REKEY" => data[1] \notin KnownSalts(p)
    BY <1>1, SaltAssumption DEF Draws, Joins, KnownSalts
  <2> QED BY <2>1, <2>2, <2>3, <2>4 DEF Past, KnownSalts
<1>2. CASE Calls(p)
  BY <1>0, <1>1, <1>2 DEF Calls
<1>3. CASE Answers(p)
  <2>1. Draws(p, RecvTask, "PONG", << >>)
    BY <1>3 DEF Answers, Draws
  <2> QED BY <1>0, <1>1, <2>1
<1>4. CASE WritesOut(p)
  <2>1. PICK t, c : t \in Callers /\ Writes(p, t, c)
    BY <1>4 DEF WritesOut
  <2>2. /\ UNCHANGED salts /\ info'[p].rx_key = info[p].rx_key
        /\ task'[p][t].op = task[p][t].op /\ task'[p][t].data = task[p][t].data
        /\ \A u \in Callers : u # t => task'[p][u] = task[p][u]
    BY <1>0, <2>1, WriteFacts
  <2> QED BY <2>2 DEF Past, KnownSalts
<1>5. CASE CallEnds(p) \/ PongEnds(p)
  <2>1. PICK t \in Callers : Leave(p, t) /\ UNCHANGED info
    BY <1>0, <1>5 DEF CallEnds, PongEnds, Ends, Leaves
  <2>2. /\ UNCHANGED salts /\ task'[p][t].op = "none"
        /\ \A u \in Callers : u # t => task'[p][u] = task[p][u]
    BY <1>0, <2>1, LeaveFacts
  <2> QED BY <2>1, <2>2 DEF Past, KnownSalts
<1>6. CASE Rekeys(p)
  <2>1. PICK t \in Callers :
            /\ task[p][t].op = "REKEY" /\ Leave(p, t)
            /\ info' = [info EXCEPT ![p] = Rotated(@, TRUE, task[p][t].data[1])]
    BY <1>0, <1>6 DEF Rekeys, RekeyDone
  <2>2. /\ UNCHANGED salts /\ task'[p][t].op = "none"
        /\ \A u \in Callers : u # t => task'[p][u] = task[p][u]
    BY <1>0, <2>1, LeaveFacts
  <2>3. info'[p].rx_key.salt = task[p][t].data[1]
    <3>1. PICK b \in BOOLEAN :
              info' = [info EXCEPT ![p] = Rotated(@, b, task[p][t].data[1])]
      BY <2>1
    <3>2. PICK s : s = task[p][t].data[1] /\ info' = [info EXCEPT ![p] = Rotated(@, b, s)]
      BY <3>1
    <3>3. TypeInv /\ info' = [info EXCEPT ![p] = Rotated(@, b, s)]
      BY <1>0, <3>2
    <3>4. info'[p].rx_key.salt = s
      BY <3>3, RotatedFacts
    <3> QED BY <3>2, <3>4
  <2>4. \A k : Past(p, k) => Past(p, k)'
    BY <2>1, <2>2 DEF Past, KnownSalts
  <2>5. \A k : Past(p, k) => k.salt # task[p][t].data[1]
    BY <2>1 DEF Past
  <2> QED BY <2>3, <2>4, <2>5
<1>7. CASE Accepts(p)
  <2>1. Takes(p) /\ NextFrame(p).type = "REKEY" /\ AcceptRekey(p, NextFrame(p).body[1])
    BY <1>7 DEF Accepts
  <2>2. NextFrame(p).body[1] \notin KnownSalts(p)
    BY <2>1, TakenSalt, SaltAssumption DEF KnownSalts
  <2>3. UNCHANGED task /\ salts[p] \subseteq salts'[p]
    BY <1>0, <2>1 DEF AcceptRekey, TypeInv
  <2>4. info'[p].rx_key.salt = NextFrame(p).body[1]
    BY <1>0, <2>1, RotatedFacts DEF AcceptRekey
  <2> QED BY <2>2, <2>3, <2>4 DEF Past, KnownSalts
<1>8. CASE Feeds(p) \/ Acks(p) \/ Retransmit(p) \/ Skips(p)
  BY <1>8 DEF Feeds, Acks, Retransmit, Skips, sessionVars, Past, KnownSalts
<1>9. CASE Restarts(p) \/ Reads(p) \/ Delivers(p)
  BY <1>9 DEF Restarts, Reads, Delivers, Stands, SameKeys, Past, KnownSalts
<1> QED BY <1>2, <1>3, <1>4, <1>5, <1>6, <1>7, <1>8, <1>9 DEF UdpEffect

(* While the key stays, what the window has seen it has seen. *)
LEMMA SeenKept ==
    ASSUME TypeInv, LinkInv, NEW p \in Peers, UdpEffect(p)
    PROVE  \/ Rekeys(p) \/ Accepts(p)
           \/ \A s \in 0 .. MaxSeq : Seen(p, s) => Seen(p, s)'
<1>1. CASE Calls(p) \/ CallEnds(p) \/ PongEnds(p) \/ Restarts(p)
  BY <1>1 DEF Calls, CallEnds, PongEnds, Ends, Restarts, Seen
<1>2. CASE WritesOut(p)
  <2>1. PICK t, c : t \in Callers /\ Writes(p, t, c)
    BY <1>2 DEF WritesOut
  <2>2. /\ info'[p].rx_seq = info[p].rx_seq
        /\ info'[p].rx_window_bitmap = info[p].rx_window_bitmap
    BY <2>1, WriteFacts
  <2> QED BY <2>2 DEF Seen
<1>3. CASE Feeds(p) \/ Acks(p) \/ Retransmit(p) \/ Skips(p)
  BY <1>3 DEF Feeds, Acks, Retransmit, Skips, sessionVars, Seen
<1>4. CASE Takes(p) /\ Moved(p)
  BY <1>4, SeenGrows
<1> QED BY <1>1, <1>2, <1>3, <1>4 DEF UdpEffect, Reads, Delivers, Answers

(* A spent frame stays spent, and one that recv() takes becomes spent. *)
LEMMA SpentKept ==
    ASSUME UdpInv, NEW p \in Peers, UdpEffect(p), NEW q \in Peers
    PROVE  /\ \A f : FrameOK(f) /\ Spent(q, f) => Spent(q, f)'
           /\ Takes(p) /\ (Accepts(p) \/ Moved(p)) => \A f : f = NextFrame(p) => Spent(p, f)'
<1>0. TypeInv /\ LinkInv /\ PairInv
  BY DEF UdpInv, PairInv, NonceInv
<1>1. ASSUME q # p PROVE \A f : FrameOK(f) /\ Spent(q, f) => Spent(q, f)'
  <2>1. /\ info'[q] = info[q] /\ salts'[q] = salts[q]
        /\ \A t \in Callers : task'[q][t] = task[q][t]
    BY <1>0, <1>1, OtherStill
  <2> QED BY <2>1 DEF Spent, Past, Seen, KnownSalts
<1>2. ASSUME NEW f, FrameOK(f), Spent(p, f) PROVE Spent(p, f)'
  <2>1. Past(p, f.key)' /\ (f.key = info'[p].rx_key => f.key = info[p].rx_key)
    BY <1>2, PastKept DEF Spent
  <2>2. CASE Rekeys(p)
    <3>1. PICK t \in Tasks : /\ task[p][t].op = "REKEY"
                             /\ info' = [info EXCEPT ![p] = Rotated(@, TRUE, task[p][t].data[1])]
      BY <2>2 DEF Rekeys, RekeyDone
    <3>2. info'[p].rx_key.salt = task[p][t].data[1] /\ t \in Callers
      BY <1>0, <3>1, RotatedFacts DEF Callers
    <3>3. f.key # info'[p].rx_key
      BY <1>2, <3>1, <3>2 DEF Spent, Past
    <3> QED BY <2>1, <3>3 DEF Spent
  <2>3. CASE Accepts(p)
    <3>1. Takes(p) /\ NextFrame(p).type = "REKEY" /\ AcceptRekey(p, NextFrame(p).body[1])
      BY <2>3 DEF Accepts
    <3>2. info'[p].rx_key.salt = NextFrame(p).body[1]
      BY <1>0, <3>1, RotatedFacts DEF AcceptRekey
    <3>3. NextFrame(p).body[1] \notin KnownSalts(p)
      BY <3>1, TakenSalt, SaltAssumption DEF KnownSalts
    <3>4. f.key # info'[p].rx_key
      BY <1>2, <3>2, <3>3 DEF Spent, Past
    <3> QED BY <2>1, <3>4 DEF Spent
  <2>4. CASE \A s \in 0 .. MaxSeq : Seen(p, s) => Seen(p, s)'
    BY <1>2, <2>1, <2>4 DEF Spent, FrameOK
  <2> QED BY <1>0, <2>2, <2>3, <2>4, SeenKept
<1>3. ASSUME Takes(p), Accepts(p) \/ Moved(p), NEW f, f = NextFrame(p) PROVE Spent(p, f)'
  <2>1. Past(p, f.key) /\ f.key = info[p].rx_key /\ FrameOK(f)
    BY <1>0, <1>3, TakenFacts
  <2>2. Past(p, f.key)'
    BY <2>1, PastKept
  <2>3. CASE Accepts(p)
    <3>1. NextFrame(p).type = "REKEY" /\ AcceptRekey(p, NextFrame(p).body[1])
      BY <2>3 DEF Accepts
    <3>2. info'[p].rx_key.salt = NextFrame(p).body[1]
      BY <1>0, <3>1, RotatedFacts DEF AcceptRekey
    <3>3. NextFrame(p).body[1] \notin KnownSalts(p)
      BY <1>3, <3>1, TakenSalt, SaltAssumption DEF KnownSalts
    <3>4. f.key # info'[p].rx_key
      BY <2>1, <3>2, <3>3 DEF Past
    <3> QED BY <2>2, <3>4 DEF Spent
  <2>4. CASE Moved(p)
    <3>1. Seen(p, f.seq)'
      BY <1>0, <1>3, <2>1, <2>4, SeenGrows DEF FrameOK
    <3> QED BY <2>2, <3>1 DEF Spent
  <2> QED BY <1>3, <2>3, <2>4
<1> QED BY <1>1, <1>2, <1>3

(* A salt becomes known by rekey(), which draws a new one, or by a REKEY. *)
LEMMA SaltsFrom ==
    ASSUME TypeInv, NEW p \in Peers, UdpEffect(p), NEW q \in Peers, NEW s \in salts'[q]
    PROVE  \/ s \in salts[q]
           \/ q = p /\ \A o \in Peers : s \notin salts[o]
           \/ q = p /\ Accepts(p) /\ s = NextFrame(p).body[1]
<1>1. CASE Calls(p)
  <2>1. PICK t, op, data : t \in Tasks /\ Draws(p, t, op, data)
    BY <1>1 DEF Calls
  <2>2. CASE op # "REKEY"
    BY <2>1, <2>2 DEF Draws, Joins
  <2>3. CASE op = "REKEY"
    <3>1. /\ salts' = [salts EXCEPT ![p] = @ \cup {data[1]}]
          /\ \A o \in Peers : data[1] \notin salts[o]
      BY <2>1, <2>3 DEF Draws, Joins
    <3> QED BY <3>1 DEF TypeInv
  <2> QED BY <2>2, <2>3
<1>2. CASE Answers(p)
  BY <1>2 DEF Answers, Joins
<1>3. CASE Accepts(p)
  BY <1>3 DEF Accepts, AcceptRekey, TypeInv
<1>4. CASE WritesOut(p)
  BY <1>4 DEF WritesOut, Writes, WriteFrame
<1>5. CASE CallEnds(p) \/ PongEnds(p) \/ Rekeys(p)
  BY <1>5 DEF CallEnds, PongEnds, Ends, Leaves, Leave, Rekeys, RekeyDone
<1>6. CASE Feeds(p) \/ Acks(p) \/ Retransmit(p) \/ Skips(p)
  BY <1>6 DEF Feeds, Acks, Retransmit, Skips, sessionVars
<1>7. CASE Restarts(p) \/ Reads(p) \/ Delivers(p)
  BY <1>7 DEF Restarts, Reads, Delivers, Stands
<1> QED BY <1>1, <1>2, <1>3, <1>4, <1>5, <1>6, <1>7 DEF UdpEffect

(* Every frame on a wire was there, or has just been written. *)
LEMMA WireFrom ==
    ASSUME TypeInv, LinkInv, NEW p \in Peers, UdpEffect(p), NEW q \in Peers
    PROVE  /\ Len(wire[q]) \in Nat /\ Len(wire'[q]) \in Nat
           /\ \A i \in 1 .. Len(wire[q]) : i \in 1 .. Len(wire'[q]) /\ wire'[q][i] = wire[q][i]
           /\ \A i \in 1 .. Len(wire'[q]) :
                 \/ i \in 1 .. Len(wire[q])
                 \/ /\ q = p /\ WritesOut(p) /\ i = Len(wire[q]) + 1
                    /\ \E t \in Callers : \E c :
                          Writes(p, t, c) /\ (task[p][t].pc = "drain" => acked[p])
                          /\ wire'[q][i] = SealedFrame(p, c)
<1>0. PICK F : wire \in [Peers -> Seq(F)]
  BY DEF TypeInv
<1>1. Len(wire[q]) \in Nat
  BY <1>0, LenProperties
<1>2. CASE UNCHANGED wire
  BY <1>1, <1>2
<1>3. CASE WritesOut(p)
  <2>1. PICK t, c : t \in Callers /\ Writes(p, t, c) /\ (task[p][t].pc = "drain" => acked[p])
    BY <1>3 DEF WritesOut
  <2>2. /\ \A o \in Peers : o # p => wire'[o] = wire[o]
        /\ Longer(wire[p], wire'[p], SealedFrame(p, c))
    BY <2>1, WriteFacts
  <2>3. CASE q # p
    BY <1>1, <2>2, <2>3
  <2>4. CASE q = p
    BY <1>3, <2>1, <2>2, <2>4 DEF Longer
  <2> QED BY <2>3, <2>4
<1> QED BY <1>2, <1>3, SameWire

LEMMA SaltSpentNext ==
    ASSUME UdpInv, NEW p \in Peers, UdpEffect(p), NEW q \in Peers
    PROVE  SaltSpent(q)'
<1> USE PeerFacts
<1>0. TypeInv /\ LinkInv /\ WireOK
  BY DEF UdpInv, PairInv, NonceInv, LinkInv
<1> DEFINE o == Other(q)
<1> SUFFICES ASSUME NEW i \in 1 .. Len(wire'[o]), wire'[o][i].type = "REKEY",
                    wire'[o][i].body[1] \in salts'[q]
             PROVE  Spent(q, wire[o][i])'
  BY DEF SaltSpent
<1>1. o \in Peers /\ SaltSpent(q)
  BY DEF UdpInv
<1>2. CASE i \in 1 .. Len(wire[o])
  <2>1. wire'[o][i] = wire[o][i] /\ FrameOK(wire[o][i])
    BY <1>0, <1>1, <1>2, WireFrom DEF WireOK
  <2>2. CASE wire[o][i].body[1] \in salts[q]
    <3>1. Spent(q, wire[o][i])
      BY <1>1, <1>2, <2>1, <2>2 DEF SaltSpent
    <3>2. \A f : FrameOK(f) /\ Spent(q, f) => Spent(q, f)'
      BY SpentKept
    <3> QED BY <2>1, <3>1, <3>2
  <2>3. CASE q = p /\ Accepts(p) /\ wire[o][i].body[1] = NextFrame(p).body[1]
    <3>1. Takes(p) /\ NextFrame(p).type = "REKEY"
      BY <2>3 DEF Accepts
    <3>2. PICK j \in 1 .. Len(wire[o]) : wire[o][j] = NextFrame(p)
      BY <2>3, <3>1, TakenSalt
    <3>3. j = i
      BY <1>1, <1>2, <2>1, <2>3, <3>1, <3>2 DEF UdpInv, PairInv, SaltInv, Travels
    <3>4. \A f : f = NextFrame(p) => Spent(p, f)'
      BY <2>3, <3>1, SpentKept
    <3> QED BY <2>1, <2>3, <3>2, <3>3, <3>4
  <2>4. CASE \A r \in Peers : wire[o][i].body[1] \notin salts[r]
    <3>1. wire[o][i].body[1] \in salts[o]
      BY <1>1, <1>2, <2>1 DEF UdpInv, PairInv, SaltInv, DrawnInv, Drawn
    <3> QED BY <1>1, <2>4, <3>1
  <2> QED BY <1>0, <2>1, <2>2, <2>3, <2>4, SaltsFrom
<1>3. CASE i \notin 1 .. Len(wire[o])
  <2>1. o = p
    BY <1>0, <1>1, <1>3, WireFrom
  <2>2. PICK t, c : t \in Callers /\ Writes(p, t, c) /\ wire'[o][i] = SealedFrame(p, c)
    BY <1>0, <1>1, <1>3, WireFrom
  <2>3. /\ task[p][t].op = "REKEY" /\ task[p][t].pc = "lock"
        /\ wire'[o][i].body = task[p][t].data
    BY <2>2, SealedRekey
  <2>4. task[p][t].data[1] \notin salts[q]
    BY <2>1, <2>2, <2>3 DEF UdpInv, PairInv, SaltInv, Travels
  <2>5. q # p /\ salts'[q] = salts[q]
    BY <1>0, <2>1, OtherStill
  <2> QED BY <2>3, <2>4, <2>5
<1> QED BY <1>2, <1>3

LEMMA UdpInvNext ==
    ASSUME UdpInv, NEW p \in Peers, UdpEffect(p)
    PROVE  UdpInv'
<1>1. PairInv /\ LinkInv /\ TypeInv
  BY DEF UdpInv, PairInv, NonceInv
<1>2. PairInv'
  BY <1>1, PairOfUdp, PairNext
<1>3. LinkInv'
  BY <1>1, LinkNext
<1> QED BY <1>2, <1>3, SaltSpentNext DEF UdpInv

LEMMA UdpInitially == UdpInit => UdpInv
<1> SUFFICES ASSUME UdpInit PROVE UdpInv
  OBVIOUS
<1>1. PairInv
  BY PairInit DEF UdpInit
<1>2. /\ \A p \in Peers : wire[p] = << >> /\ Len(wire[p]) = 0 /\ read_buffer[p] = << >>
      /\ \A p \in Peers : Len(read_buffer[p]) = 0
      /\ \A p \in Peers : info[p].rx_seq = 0 /\ info[p].rx_window_bitmap = {}
      /\ \A p \in Peers : task[p][RecvTask].pc = "idle"
  BY DEF UdpInit, Init, Idle, Callers
<1>3. WireOK /\ \A p \in Peers : SaltSpent(p)
  BY <1>2, PeerFacts DEF WireOK, SaltSpent
<1>4. BufferOK
  <2>1. read_buffer \in [Peers -> Seq({})]
    BY EmptySeq DEF UdpInit
  <2> QED BY <1>2, <2>1, UdpAssumption DEF BufferOK
<1>5. CallsOK
  <2>1. recv = [p \in Peers |-> NotReceiving] /\ delivered = [p \in Peers |-> << >>]
        /\ error \in [Peers -> {"none"}]
    BY DEF UdpInit, RecvInit
  <2>2. NotReceiving \in RecvCalls /\ NotReceiving.pc = "idle"
    <3>1. << >> \in Text /\ 0 \in 0 .. MaxFrames - 1
      BY EmptySeq, LengthAssumption DEF Text
    <3> QED BY <3>1 DEF NotReceiving, RecvCalls, Pcs
  <2>3. recv \in [Peers -> RecvCalls] /\ \A p \in Peers : recv[p].pc = "idle"
    BY <2>1, <2>2
  <2>4. delivered \in [Peers -> Seq(Text)]
    BY <2>1, EmptySeq
  <2> QED BY <1>2, <2>1, <2>3, <2>4 DEF CallsOK
<1>6. StreamOK
  <2>1. -1 \in -1 .. MaxSeq - 1 /\ 0 \in 0 .. MaxAttempts
    BY UdpAssumption
  <2>2. utacks \in [Peers -> {{}}]
    BY DEF UdpInit
  <2>3. /\ last_rx_seq \in [Peers -> -1 .. MaxSeq - 1]
        /\ attempt \in [Peers -> 0 .. MaxAttempts]
        /\ acked \in [Peers -> BOOLEAN]
    BY <2>1 DEF UdpInit
  <2> QED BY <2>2, <2>3 DEF StreamOK
<1>7. WindowOK
  BY <1>2, UdpAssumption DEF WindowOK
<1>8. SentOK
  BY EmptySeq DEF UdpInit, Init, SentOK
<1> QED BY <1>1, <1>3, <1>4, <1>5, <1>6, <1>7, <1>8 DEF UdpInv, LinkInv

(* A step of the specification, or a stutter, is one of the effects. *)
LEMMA UdpStep ==
    ASSUME UdpInv, [UdpNext]_vars
    PROVE  \E p \in Peers : UdpEffect(p)
BY UdpEffects DEF UdpInv, PairInv, NonceInv

THEOREM UdpInvariant == UdpSpec => []UdpInv
<1>1. UdpInv /\ [UdpNext]_vars => UdpInv'
  BY UdpStep, UdpInvNext
<1> QED BY <1>1, UdpInitially, PTL DEF UdpSpec

(* Types, and what they say of the stream: the window stays a mask of its  *)
(* width, the counters within the four bytes, the buffer within its limit, *)
(* a drain within its attempts, and recv() waits for a PONG exactly while  *)
(* that PONG is being sent.                                                *)
THEOREM UdpTypeCorrect == UdpSpec => []UdpTypeOK
<1>1. UdpInv => UdpTypeOK
  <2> SUFFICES ASSUME UdpInv PROVE UdpTypeOK
    OBVIOUS
  <2>1. TypeOK
    <3>1. \A p \in Peers : info[p].tx_seq \in 0 .. MaxSeq
      BY DEF UdpInv, PairInv, NonceInv, TypeInv, Infos
    <3>2. \A p \in Peers : info[p].tx_key.salt \in Salts \cup {HandshakeSalt}
      BY DEF UdpInv, PairInv, NonceInv, AllNonces, TypeInv, PeerNonces, SaltsKnown, KnownSalts
    <3> QED BY <3>1, <3>2 DEF UdpInv, PairInv, NonceInv, TypeInv, TypeOK
  <2>2. ASSUME NEW p \in Peers
        PROVE  /\ info[p].rx_seq \in 0 .. MaxSeq - 1
               /\ info[p].rx_window_bitmap \subseteq Offsets
               /\ Len(read_buffer[p]) <= BufferCap
               /\ recv[p].pc = "pong" <=> task[p][RecvTask].pc # "idle"
    BY DEF UdpInv, LinkInv, WindowOK, BufferOK, CallsOK
  <2>3. ASSUME NEW p \in Peers
        PROVE  /\ last_rx_seq[p] \in -1 .. MaxSeq - 1
               /\ attempt[p] \in 0 .. MaxAttempts
               /\ acked[p] \in BOOLEAN
               /\ recv[p].frame_count \in 0 .. MaxFrames - 1
    BY DEF UdpInv, LinkInv, StreamOK, CallsOK, RecvCalls
  <2> QED BY <2>1, <2>2, <2>3 DEF UdpTypeOK
<1> QED BY <1>1, UdpInvariant, PTL

(* No (key, number) pair of a peer seals two frames, though the network    *)
(* may bring the REKEY that recv() has accepted back at any later time: a  *)
(* REKEY that rotated the keys is spent, so no salt is installed twice and *)
(* no number is used again under a key that returns.                       *)
THEOREM UdpNonceNeverReused == UdpSpec => []NonceUnique
<1>1. UdpInv => NonceUnique
  BY DEF UdpInv, PairInv, NonceInv, AllNonces, PeerNonces, Distinct, NonceUnique
<1> QED BY <1>1, UdpInvariant, PTL

-----------------------------------------------------------------------------
(* Bytes.  A byte of a message is put on the wire once: the fragments of a *)
(* message do not overlap, no message is handed to send() twice, and a     *)
(* call that failed is not resumed.                                        *)
IsData(f) == f.type \in {"DATA", "DATA_FRAG"}

InSent(p, m) == \E n \in 1 .. Len(sent[p]) : sent[p][n] = m

Carries(f, b) == IsData(f) /\ \E k \in 1 .. Len(f.body) : f.body[k] = b

OnWire(p, b) == \E i \in 1 .. Len(wire[p]) : Carries(wire[p][i], b)

(* Where a call of send() is: its bytes are numbered, are its own, and are *)
(* on the wire only as far as it has come.                                 *)
CallBytes(p, t) ==
    /\ task[p][t].pc = "lock" => task[p][t].offset = 0
    /\ \A k \in 1 .. Len(task[p][t].data) :
          LET b == task[p][t].data[k] IN
          /\ b[2] = k /\ InSent(p, b[1])
          /\ OnWire(p, b) =>
                /\ task[p][t].pc = "drain"
                /\ k <= ChunkEnd(task[p][t].data, task[p][t].offset)
          /\ \A u \in Callers : task[p][u].op = "DATA" /\ u # t =>
                \A l \in 1 .. Len(task[p][u].data) : task[p][u].data[l] # b

SentOnce(p) ==
    \A i, j \in 1 .. Len(wire[p]) :
        IsData(wire[p][i]) /\ IsData(wire[p][j]) =>
            \A k \in 1 .. Len(wire[p][i].body), l \in 1 .. Len(wire[p][j].body) :
                wire[p][i].body[k] = wire[p][j].body[l] => i = j /\ k = l

BytesInv(p) ==
    /\ \A t \in Callers : task[p][t].op = "DATA" => CallBytes(p, t)
    /\ \A b : OnWire(p, b) => InSent(p, b[1])
    /\ SentOnce(p)

LEMMA DataLength ==
    ASSUME TypeInv, NEW p \in Peers, NEW t \in Callers
    PROVE  /\ task[p][t].data \in Text /\ Len(task[p][t].data) \in Nat
           /\ task[p][t].offset \in Nat
<1>1. task[p][t] \in CallRecords
  BY DEF TypeInv
<1>2. task[p][t].data \in Text /\ task[p][t].offset \in Nat
  BY <1>1 DEF CallRecords, Text
<1> QED BY <1>2, LenProperties DEF Text

(* The frame of a call carries the bytes from its offset to the end of the *)
(* chunk, if the call is a send(), and none otherwise.                     *)
LEMMA SealedBytes ==
    ASSUME TypeInv, NEW p \in Peers, NEW t \in Callers, NEW c, Writes(p, t, c)
    PROVE  LET d == task[p][t].data
               f == SealedFrame(p, c)
           IN  /\ c.op = task[p][t].op /\ c.data = d /\ c.offset \in Nat
               /\ IsData(f) <=> c.op = "DATA"
               /\ c.op = "DATA" =>
                     /\ Len(f.body) = IF c.offset < ChunkEnd(d, c.offset)
                                      THEN ChunkEnd(d, c.offset) - c.offset ELSE 0
                     /\ \A k \in 1 .. Len(f.body) :
                           c.offset + k \in 1 .. Len(d) /\ f.body[k] = d[c.offset + k]
<1> DEFINE d == task[p][t].data
           f == SealedFrame(p, c)
           e == ChunkEnd(d, c.offset)
<1>1. c.op = task[p][t].op /\ c.data = d /\ c.offset \in Nat /\ d \in Seq(Bytes \cup Salts)
      /\ c.op \in {"none", "DATA", "PING", "PONG", "REKEY", "BYE"}
  BY DEF Writes, CallRecords
<1>2. f.type = PacketType(c) /\ f.body = Plaintext(c)
  BY DEF SealedFrame
<1>3. IsData(f) <=> c.op = "DATA"
  BY <1>1, <1>2 DEF IsData, PacketType
<1>4. ASSUME c.op = "DATA"
      PROVE  /\ Len(f.body) = IF c.offset < e THEN e - c.offset ELSE 0
             /\ \A k \in 1 .. Len(f.body) : c.offset + k \in 1 .. Len(d) /\ f.body[k] = d[c.offset + k]
  <2>1. f.body = SubSeq(d, c.offset + 1, e)
    BY <1>1, <1>2, <1>4 DEF Plaintext
  <2>2. Len(d) \in Nat /\ e \in Nat /\ e <= Len(d)
    BY <1>1, LenProperties, LengthAssumption DEF ChunkEnd
  <2> HIDE DEF e, f, d
  <2>3. \A i \in c.offset + 1 .. e : d[i] \in Bytes \cup Salts
    BY <1>1, <2>2, ElementOfSeq
  <2>4. /\ Len(f.body) = IF c.offset + 1 <= e THEN e - (c.offset + 1) + 1 ELSE 0
        /\ \A k \in 1 .. e - (c.offset + 1) + 1 : f.body[k] = d[c.offset + 1 + k - 1]
    <3>1. c.offset + 1 \in Int /\ e \in Int
      BY <1>1, <2>2
    <3> QED BY <2>1, <2>3, <3>1, SubSeqProperties
  <2>5. Len(f.body) = IF c.offset < e THEN e - c.offset ELSE 0
    BY <1>1, <2>2, <2>4
  <2>6. ASSUME NEW k \in 1 .. Len(f.body)
        PROVE  c.offset + k \in 1 .. Len(d) /\ f.body[k] = d[c.offset + k]
    <3>1. k \in 1 .. e - (c.offset + 1) + 1 /\ c.offset + 1 + k - 1 = c.offset + k
          /\ c.offset + k \in 1 .. Len(d)
      BY <1>1, <2>2, <2>5
    <3> QED BY <2>4, <3>1
  <2> QED BY <2>5, <2>6
<1> HIDE DEF e
<1> QED BY <1>1, <1>3, <1>4 DEF e

(* A step that writes nothing and begins no send() of q. *)
LEMMA BytesKept ==
    ASSUME NEW q \in Peers, BytesInv(q), wire'[q] = wire[q],
           \A t \in Callers : task'[q][t].op = "DATA" => task'[q][t] = task[q][t],
           \A m : InSent(q, m) => InSent(q, m)'
    PROVE  BytesInv(q)'
<1>1. \A b : OnWire(q, b)' <=> OnWire(q, b)
  BY DEF OnWire
<1>2. ASSUME NEW t \in Callers, task'[q][t].op = "DATA" PROVE CallBytes(q, t)'
  <2>1. CallBytes(q, t) /\ task'[q][t] = task[q][t]
    BY <1>2 DEF BytesInv
  <2> QED BY <1>1, <2>1 DEF CallBytes
<1>3. \A b : OnWire(q, b)' => InSent(q, b[1])'
  BY <1>1 DEF BytesInv
<1>4. SentOnce(q)'
  BY DEF BytesInv, SentOnce
<1> QED BY <1>2, <1>3, <1>4 DEF BytesInv

(* send() is called with a message not sent before: none of its bytes is   *)
(* on the wire, or in another call.                                        *)
LEMMA BytesJoin ==
    ASSUME TypeInv, SentOK, NEW p \in Peers, BytesInv(p), Calls(p)
    PROVE  BytesInv(p)'
<1>1. PICK t, op, data : t \in Tasks /\ Joins(p, t, op, data) /\ Submits(p, op, data)
  BY DEF Calls, Draws
<1>2. /\ t \in Callers /\ wire' = wire /\ task[p][t].pc = "idle"
      /\ task'[p][t].pc = "lock" /\ task'[p][t].op = op /\ task'[p][t].data = data
      /\ task'[p][t].offset = 0
      /\ \A u \in Callers : u # t => task'[p][u] = task[p][u]
  BY <1>1, JoinFacts DEF Callers
<1>3. CASE op # "DATA"
  <2>1. UNCHANGED sent
    BY <1>1, <1>3 DEF Submits
  <2> QED BY <1>2, <1>3, <2>1, BytesKept DEF InSent
<1>4. CASE op = "DATA"
  <2>1. PICK m \in Msgs : /\ data = Payload(m) /\ ~InSent(p, m)
                          /\ sent' = [sent EXCEPT ![p] = Append(@, m)]
    BY <1>1, <1>4 DEF Submits, InSent
  <2>2. \A n : InSent(p, n)' <=> InSent(p, n) \/ n = m
    <3>1. sent'[p] = Append(sent[p], m) /\ sent[p] \in Seq(Msgs)
      BY <2>1 DEF SentOK
    <3>2. /\ Len(sent'[p]) = Len(sent[p]) + 1 /\ Len(sent[p]) \in Nat
          /\ sent'[p][Len(sent[p]) + 1] = m
          /\ \A n \in 1 .. Len(sent[p]) : sent'[p][n] = sent[p][n]
      BY <3>1, AppendProperties, LenProperties
    <3>3. \A i : i \in 1 .. Len(sent'[p]) <=> i \in 1 .. Len(sent[p]) \/ i = Len(sent[p]) + 1
      BY <3>2
    <3> QED BY <3>2, <3>3 DEF InSent
  <2>3. \A k \in 1 .. Len(data) : data[k] = <<m, k>>
    <3>1. MsgLen[m] \in Nat
      BY LengthAssumption
    <3> QED BY <2>1, <3>1 DEF Payload
  <2>4. \A b : OnWire(p, b)' <=> OnWire(p, b)
    BY <1>2 DEF OnWire
  <2>5. ASSUME NEW k \in 1 .. Len(data)
        PROVE  /\ data[k][1] = m /\ data[k][2] = k /\ ~OnWire(p, data[k])
               /\ \A u \in Callers : task[p][u].op = "DATA" =>
                     \A l \in 1 .. Len(task[p][u].data) : task[p][u].data[l] # data[k]
    <3>1. data[k][1] = m /\ data[k][2] = k
      BY <2>3
    <3>2. ~OnWire(p, data[k])
      BY <2>1, <3>1 DEF BytesInv
    <3>3. ASSUME NEW u \in Callers, task[p][u].op = "DATA", NEW l \in 1 .. Len(task[p][u].data)
          PROVE  task[p][u].data[l] # data[k]
      <4>1. InSent(p, task[p][u].data[l][1])
        BY <3>3 DEF BytesInv, CallBytes
      <4> QED BY <2>1, <3>1, <4>1
    <3> QED BY <3>1, <3>2, <3>3
  <2>6. CallBytes(p, t)'
    BY <1>2, <2>2, <2>4, <2>5 DEF CallBytes
  <2>7. ASSUME NEW u \in Callers, u # t, task'[p][u].op = "DATA" PROVE CallBytes(p, u)'
    <3>1. task'[p][u] = task[p][u] /\ CallBytes(p, u)
      BY <1>2, <2>7 DEF BytesInv
    <3> SUFFICES ASSUME NEW k \in 1 .. Len(task[p][u].data), NEW b, b = task[p][u].data[k]
                 PROVE  /\ b[2] = k /\ InSent(p, b[1])'
                        /\ OnWire(p, b)' => /\ task[p][u].pc = "drain"
                                            /\ k <= ChunkEnd(task[p][u].data, task[p][u].offset)
                        /\ \A v \in Callers : task'[p][v].op = "DATA" /\ v # u =>
                              \A l \in 1 .. Len(task'[p][v].data) : task'[p][v].data[l] # b
      BY <3>1 DEF CallBytes
    <3>2. /\ b[2] = k /\ InSent(p, b[1])
          /\ OnWire(p, b) => /\ task[p][u].pc = "drain"
                             /\ k <= ChunkEnd(task[p][u].data, task[p][u].offset)
          /\ \A v \in Callers : task[p][v].op = "DATA" /\ v # u =>
                \A l \in 1 .. Len(task[p][v].data) : task[p][v].data[l] # b
      BY <3>1 DEF CallBytes
    <3>3. \A l \in 1 .. Len(data) : data[l] # b
      BY <2>5, <2>7, <1>2
    <3> QED BY <1>2, <2>2, <2>4, <3>2, <3>3
  <2>8. \A b : OnWire(p, b)' => InSent(p, b[1])'
    BY <2>2, <2>4 DEF BytesInv
  <2>9. \A u \in Callers : task'[p][u].op = "DATA" => CallBytes(p, u)'
    BY <2>6, <2>7
  <2>10. SentOnce(p)'
    <3>1. SentOnce(p) /\ wire' = wire
      BY <1>2 DEF BytesInv
    <3> QED BY <3>1 DEF SentOnce
  <2> QED BY <2>8, <2>9, <2>10 DEF BytesInv
<1> QED BY <1>3, <1>4

(* A frame is written: it carries bytes the call had not put on the wire. *)
LEMMA BytesWrite ==
    ASSUME TypeInv, LinkInv, NEW p \in Peers, BytesInv(p), WritesOut(p)
    PROVE  BytesInv(p)'
<1>1. PICK t, c : t \in Callers /\ Writes(p, t, c)
  BY DEF WritesOut
<1> DEFINE d == task[p][t].data
           f == SealedFrame(p, c)
           w == wire[p]
           v == wire'[p]
<1>2. /\ task'[p][t].pc = "drain" /\ task'[p][t].op = task[p][t].op /\ task'[p][t].data = d
      /\ task'[p][t].offset = c.offset
      /\ \A u \in Callers : u # t => task'[p][u] = task[p][u]
      /\ Longer(w, v, f) /\ FrameOK(f)
  BY <1>1, WriteFacts
<1>3. /\ c.op = task[p][t].op /\ c.offset \in Nat
      /\ IsData(f) <=> c.op = "DATA"
      /\ c.op = "DATA" =>
            /\ Len(f.body) = IF c.offset < ChunkEnd(d, c.offset)
                             THEN ChunkEnd(d, c.offset) - c.offset ELSE 0
            /\ \A k \in 1 .. Len(f.body) : c.offset + k \in 1 .. Len(d) /\ f.body[k] = d[c.offset + k]
  BY <1>1, SealedBytes
<1>4. \A m : InSent(p, m)' <=> InSent(p, m)
  BY DEF WritesOut, InSent
<1>5. Len(d) \in Nat /\ task[p][t].offset \in Nat /\ ChunkLen \in Nat \ {0}
  BY <1>1, DataLength, LengthAssumption
<1>6. /\ ChunkEnd(d, c.offset) \in Nat /\ ChunkEnd(d, c.offset) <= Len(d)
      /\ c.offset <= Len(d) => c.offset <= ChunkEnd(d, c.offset)
      /\ ChunkEnd(d, task[p][t].offset) \in Nat /\ ChunkEnd(d, task[p][t].offset) <= Len(d)
  <2>1. ASSUME NEW o \in Nat
        PROVE  /\ ChunkEnd(d, o) \in Nat /\ ChunkEnd(d, o) <= Len(d)
               /\ o <= Len(d) => o <= ChunkEnd(d, o)
    <3> HIDE DEF d
    <3> QED BY <1>5 DEF ChunkEnd
  <2> HIDE DEF d, f
  <2> QED BY <1>3, <1>5, <2>1
<1>7. \/ task[p][t].pc = "lock" /\ c.offset = task[p][t].offset
      \/ task[p][t].pc = "drain" /\ c.offset = ChunkEnd(d, task[p][t].offset)
  <2>1. task[p][t] \in CallRecords
    BY <1>1 DEF TypeInv
  <2> QED BY <1>1, <2>1 DEF Writes, Advanced, CallRecords
<1> HIDE DEF d, f, w, v
<1>8. \A b : OnWire(p, b)' <=> OnWire(p, b) \/ (Len(v) > Len(w) /\ Carries(f, b))
  BY <1>2 DEF Longer, OnWire, w, v
<1>9. ASSUME c.op = "DATA", NEW k \in 1 .. Len(f.body)
      PROVE  /\ c.offset + k \in 1 .. Len(d) /\ f.body[k] = d[c.offset + k]
             /\ f.body[k][2] = c.offset + k /\ InSent(p, f.body[k][1])
             /\ c.offset + k <= ChunkEnd(d, c.offset)
             /\ ~OnWire(p, f.body[k])
             /\ \A u \in Callers : task[p][u].op = "DATA" /\ u # t =>
                   \A l \in 1 .. Len(task[p][u].data) : task[p][u].data[l] # f.body[k]
  <2>1. c.offset + k \in 1 .. Len(d) /\ f.body[k] = d[c.offset + k]
    BY <1>3, <1>9
  <2>2. CallBytes(p, t)
    BY <1>1, <1>3, <1>9 DEF BytesInv
  <2>3. /\ d[c.offset + k][2] = c.offset + k /\ InSent(p, d[c.offset + k][1])
        /\ OnWire(p, d[c.offset + k]) =>
              task[p][t].pc = "drain" /\ c.offset + k <= ChunkEnd(d, task[p][t].offset)
        /\ \A u \in Callers : task[p][u].op = "DATA" /\ u # t =>
              \A l \in 1 .. Len(task[p][u].data) : task[p][u].data[l] # d[c.offset + k]
    BY <2>1, <2>2 DEF CallBytes, d
  <2>4. ~OnWire(p, d[c.offset + k])
    BY <1>3, <1>6, <1>7, <2>3
  <2>5. c.offset + k <= ChunkEnd(d, c.offset)
    BY <1>3, <1>6, <1>9
  <2> QED BY <2>1, <2>3, <2>4, <2>5
<1>10. ASSUME NEW b, Carries(f, b)
       PROVE  c.op = "DATA" /\ \E k \in 1 .. Len(f.body) : b = f.body[k]
  BY <1>3, <1>10 DEF Carries
<1>11. ASSUME task[p][t].op = "DATA" PROVE CallBytes(p, t)'
  <2>1. CallBytes(p, t)
    BY <1>1, <1>11 DEF BytesInv
  <2> SUFFICES ASSUME NEW k \in 1 .. Len(d), NEW b, b = d[k]
               PROVE  /\ b[2] = k /\ InSent(p, b[1])'
                      /\ OnWire(p, b)' => k <= ChunkEnd(d, c.offset)
                      /\ \A u \in Callers : task'[p][u].op = "DATA" /\ u # t =>
                            \A l \in 1 .. Len(task'[p][u].data) : task'[p][u].data[l] # b
    BY <1>2 DEF CallBytes, d
  <2>2. /\ b[2] = k /\ InSent(p, b[1])
        /\ OnWire(p, b) => task[p][t].pc = "drain" /\ k <= ChunkEnd(d, task[p][t].offset)
        /\ \A u \in Callers : task[p][u].op = "DATA" /\ u # t =>
              \A l \in 1 .. Len(task[p][u].data) : task[p][u].data[l] # b
    BY <2>1 DEF CallBytes, d
  <2>3. ASSUME OnWire(p, b) PROVE k <= ChunkEnd(d, c.offset)
    BY <1>3, <1>6, <1>7, <2>2, <2>3
  <2>4. ASSUME Carries(f, b) PROVE k <= ChunkEnd(d, c.offset)
    <3>1. PICK l \in 1 .. Len(f.body) : c.op = "DATA" /\ b = f.body[l]
      BY <1>10, <2>4
    <3>2. f.body[l][2] = c.offset + l /\ c.offset + l <= ChunkEnd(d, c.offset)
      BY <1>9, <3>1
    <3> QED BY <2>2, <3>1, <3>2
  <2> QED BY <1>2, <1>4, <1>8, <2>2, <2>3, <2>4
<1>12. ASSUME NEW u \in Callers, u # t, task'[p][u].op = "DATA" PROVE CallBytes(p, u)'
  <2>1. task'[p][u] = task[p][u] /\ CallBytes(p, u) /\ task[p][u].op = "DATA"
    BY <1>2, <1>12 DEF BytesInv
  <2> SUFFICES ASSUME NEW k \in 1 .. Len(task[p][u].data), NEW b, b = task[p][u].data[k]
               PROVE  /\ b[2] = k /\ InSent(p, b[1])'
                      /\ OnWire(p, b)' => /\ task[p][u].pc = "drain"
                                          /\ k <= ChunkEnd(task[p][u].data, task[p][u].offset)
                      /\ \A x \in Callers : task'[p][x].op = "DATA" /\ x # u =>
                            \A l \in 1 .. Len(task'[p][x].data) : task'[p][x].data[l] # b
    BY <2>1 DEF CallBytes
  <2>2. /\ b[2] = k /\ InSent(p, b[1])
        /\ OnWire(p, b) => /\ task[p][u].pc = "drain"
                           /\ k <= ChunkEnd(task[p][u].data, task[p][u].offset)
        /\ \A x \in Callers : task[p][x].op = "DATA" /\ x # u =>
              \A l \in 1 .. Len(task[p][x].data) : task[p][x].data[l] # b
    BY <2>1 DEF CallBytes
  <2>3. ~Carries(f, b)
    BY <1>9, <1>10, <1>12, <2>1
  <2>4. \A x \in Callers : task'[p][x].op = task[p][x].op /\ task'[p][x].data = task[p][x].data
    BY <1>2 DEF d
  <2> QED BY <1>4, <1>8, <2>2, <2>3, <2>4
<1>13. \A b : OnWire(p, b)' => InSent(p, b[1])'
  BY <1>4, <1>8, <1>9, <1>10 DEF BytesInv
<1>14. SentOnce(p)'
  <2> SUFFICES ASSUME NEW i \in 1 .. Len(v), NEW j \in 1 .. Len(v), IsData(v[i]), IsData(v[j]),
                      NEW k \in 1 .. Len(v[i].body), NEW l \in 1 .. Len(v[j].body),
                      v[i].body[k] = v[j].body[l]
               PROVE  i = j /\ k = l
    BY DEF SentOnce, v
  <2>1. CASE i \in 1 .. Len(w) /\ j \in 1 .. Len(w)
    <3>1. v[i] = w[i] /\ v[j] = w[j]
      BY <1>2, <2>1 DEF Longer
    <3>2. SentOnce(p)
      BY DEF BytesInv
    <3>3. k \in 1 .. Len(w[i].body) /\ l \in 1 .. Len(w[j].body) /\ w[i].body[k] = w[j].body[l]
          /\ IsData(w[i]) /\ IsData(w[j])
      BY <3>1
    <3>4. \A x \in 1 .. Len(w[i].body), y \in 1 .. Len(w[j].body) :
              w[i].body[x] = w[j].body[y] => i = j /\ x = y
      BY <2>1, <3>2, <3>3, Zenon DEF SentOnce, w
    <3> QED BY <3>3, <3>4, Zenon
  <2>2. ASSUME NEW a \in 1 .. Len(v), NEW b \in 1 .. Len(v), a \in 1 .. Len(w), b \notin 1 .. Len(w),
               NEW x \in 1 .. Len(v[a].body), NEW y \in 1 .. Len(v[b].body), IsData(v[a]),
               IsData(v[b]), v[a].body[x] = v[b].body[y]
        PROVE  FALSE
    <3>1. v[b] = f /\ v[a] = w[a]
      BY <1>2, <2>2 DEF Longer
    <3>2. c.op = "DATA" /\ ~OnWire(p, f.body[y])
      BY <1>3, <1>9, <2>2, <3>1
    <3>3. OnWire(p, w[a].body[x])
      BY <2>2, <3>1 DEF OnWire, Carries, w
    <3> QED BY <2>2, <3>1, <3>2, <3>3
  <2>3. CASE i \notin 1 .. Len(w) /\ j \notin 1 .. Len(w)
    <3>1. i = j /\ v[i] = f /\ v[j] = f
      BY <1>2, <2>3 DEF Longer
    <3>2. f.body[k][2] = c.offset + k /\ f.body[l][2] = c.offset + l
      BY <1>3, <1>9, <3>1
    <3>3. k \in Int /\ l \in Int
      OBVIOUS
    <3>4. c.offset \in Int
      BY <1>3
    <3>5. f.body[k] = f.body[l]
      BY <3>1
    <3>6. c.offset + k = c.offset + l
      BY <3>2, <3>5
    <3>7. k = l
      BY <3>3, <3>4, <3>6
    <3> QED BY <3>1, <3>7
  <2> QED BY <2>1, <2>2, <2>3
<1> QED BY <1>11, <1>12, <1>13, <1>14, <1>2 DEF BytesInv

LEMMA BytesNext ==
    ASSUME TypeInv, LinkInv, \A q \in Peers : BytesInv(q), NEW p \in Peers, UdpEffect(p)
    PROVE  \A q \in Peers : BytesInv(q)'
<1>0. RecvTask \in Callers /\ Tasks \subseteq Callers
  BY DEF Callers
<1>1. ASSUME NEW q \in Peers, q # p PROVE BytesInv(q)'
  <2>1. \A t \in Callers : task'[q][t] = task[q][t]
    BY <1>1, OtherStill
  <2>2. wire'[q] = wire[q]
    <3>1. CASE WritesOut(p)
      <4>1. PICK t, c : t \in Callers /\ Writes(p, t, c)
        BY <3>1 DEF WritesOut
      <4> QED BY <1>1, <4>1, WriteFacts
    <3> QED BY <3>1, SameWire
  <2>3. \A m : InSent(q, m) => InSent(q, m)'
    <3>1. sent'[q] = sent[q]
      <4>1. CASE Calls(p)
        BY <1>1, <4>1 DEF Calls, Submits, LinkInv, SentOK
      <4> QED BY <4>1, SameSent
    <3> QED BY <3>1 DEF InSent
  <2> QED BY <2>1, <2>2, <2>3, BytesKept
<1>2. CASE Calls(p)
  BY <1>1, <1>2, BytesJoin DEF LinkInv
<1>3. CASE WritesOut(p)
  BY <1>1, <1>3, BytesWrite
<1>4. ASSUME ~Calls(p), ~WritesOut(p) PROVE BytesInv(p)'
  <2>1. wire' = wire /\ \A m : InSent(p, m) => InSent(p, m)'
    BY <1>4, SameWire, SameSent DEF InSent
  <2>2. \A t \in Callers : task'[p][t].op = "DATA" => task'[p][t] = task[p][t]
    <3>1. CASE Answers(p)
      BY <1>0, <3>1, JoinFacts DEF Answers
    <3>2. CASE CallEnds(p) \/ PongEnds(p) \/ Rekeys(p)
      <4>1. PICK t \in Callers : Leave(p, t)
        BY <1>0, <3>2 DEF CallEnds, PongEnds, Ends, Leaves, Rekeys, RekeyDone
      <4> QED BY <4>1, LeaveFacts
    <3>3. CASE UNCHANGED task
      BY <3>3
    <3> QED BY <1>4, <3>1, <3>2, <3>3
        DEF UdpEffect, Feeds, Acks, Retransmit, Restarts, Skips, Reads, Delivers, Accepts,
            AcceptRekey, Stands, sessionVars
  <2> QED BY <2>1, <2>2, BytesKept
<1> QED BY <1>1, <1>2, <1>3, <1>4

-----------------------------------------------------------------------------
(* What recv() holds and what it has returned are bytes of spent frames,   *)
(* each of them once.                                                      *)
Sourced(p, b) ==
    \E i \in 1 .. Len(wire[Other(p)]) :
        Carries(wire[Other(p)][i], b) /\ Spent(p, wire[Other(p)][i])

NoByteTwice(x) == \A k, l \in 1 .. Len(x) : x[k] = x[l] => k = l

Returned(p, b) == \E n \in 1 .. Len(delivered[p]) : \E i \in 1 .. Len(delivered[p][n]) :
                      delivered[p][n][i] = b

ReturnedOnce(p) ==
    \A n, k \in 1 .. Len(delivered[p]) :
        \A i \in 1 .. Len(delivered[p][n]), j \in 1 .. Len(delivered[p][k]) :
            delivered[p][n][i] = delivered[p][k][j] => n = k /\ i = j

(* A text that recv() may hold next to what it has returned. *)
New(p, x) ==
    NoByteTwice(x) /\ \A k \in 1 .. Len(x) : ~Returned(p, x[k]) /\ Sourced(p, x[k])

OnceInv(p) ==
    New(p, recv[p].payload) /\ (\A b : Returned(p, b) => Sourced(p, b)) /\ ReturnedOnce(p)

LEMMA SourcedKept ==
    ASSUME UdpInv, NEW p \in Peers, UdpEffect(p), NEW q \in Peers
    PROVE  /\ \A b : Sourced(q, b) => Sourced(q, b)'
           /\ Takes(p) /\ Moved(p) => \A b : Carries(NextFrame(p), b) => Sourced(p, b)'
<1> USE PeerFacts
<1>0. TypeInv /\ LinkInv /\ PairInv /\ WireOK
  BY DEF UdpInv, PairInv, NonceInv, LinkInv
<1>1. ASSUME NEW b, Sourced(q, b) PROVE Sourced(q, b)'
  <2>1. PICK i \in 1 .. Len(wire[Other(q)]) :
            Carries(wire[Other(q)][i], b) /\ Spent(q, wire[Other(q)][i])
    BY <1>1 DEF Sourced
  <2>2. PICK f : f = wire[Other(q)][i]
    OBVIOUS
  <2>3. FrameOK(f)
    BY <1>0, <2>2 DEF WireOK
  <2>4. Spent(q, f)'
    BY <2>1, <2>2, <2>3, SpentKept
  <2>5. i \in 1 .. Len(wire'[Other(q)]) /\ wire'[Other(q)][i] = f
    BY <1>0, <2>2, WireFrom
  <2> QED BY <2>1, <2>2, <2>4, <2>5 DEF Sourced
<1>2. ASSUME Takes(p), Moved(p), NEW b, Carries(NextFrame(p), b) PROVE Sourced(p, b)'
  <2>1. PICK f : f = NextFrame(p)
    OBVIOUS
  <2>2. PICK i \in 1 .. Len(wire[Other(p)]) : wire[Other(p)][i] = f
    BY <1>0, <1>2, <2>1, TakenFacts DEF Among
  <2>3. Spent(p, f)'
    BY <1>2, <2>1, SpentKept
  <2>4. i \in 1 .. Len(wire'[Other(p)]) /\ wire'[Other(p)][i] = f
    BY <1>0, <2>2, WireFrom
  <2> QED BY <1>2, <2>1, <2>3, <2>4 DEF Sourced
<1> QED BY <1>1, <1>2

LEMMA TwoTexts ==
    ASSUME NEW y \in Text, NEW z \in Text
    PROVE  /\ Len(y) \in Nat /\ Len(z) \in Nat
           /\ \A k \in 1 .. Len(y \o z) :
                 \/ k \in 1 .. Len(y) /\ (y \o z)[k] = y[k]
                 \/ k - Len(y) \in 1 .. Len(z) /\ (y \o z)[k] = z[k - Len(y)]
<1> DEFINE x == y \o z
           a == Len(y)
           b == Len(z)
<1>1. y \in Seq(Bytes \cup Salts) /\ z \in Seq(Bytes \cup Salts)
  BY DEF Text
<1>2. Len(x) = a + b /\ \A k \in 1 .. a + b : x[k] = IF k <= a THEN y[k] ELSE z[k - a]
  BY <1>1, ConcatProperties
<1>3. a \in Nat /\ b \in Nat
  BY <1>1, LenProperties
<1> HIDE DEF x, a, b
<1>4. \A k \in 1 .. a + b : k \in 1 .. a \/ (~(k <= a) /\ k - a \in 1 .. b)
  BY <1>3
<1>5. \A k \in 1 .. a : k <= a
  BY <1>3
<1>6. \A k \in 1 .. Len(x) :
         \/ k \in 1 .. a /\ x[k] = y[k]
         \/ k - a \in 1 .. b /\ x[k] = z[k - a]
  BY <1>2, <1>4, <1>5
<1> QED BY <1>3, <1>6 DEF x, a, b

(* A frame that recv() takes brings no byte that it holds or has returned. *)
LEMMA TakenNew ==
    ASSUME UdpInv, NEW p \in Peers, BytesInv(Other(p)), OnceInv(p), Takes(p), IsData(NextFrame(p)),
           NEW x, x = recv[p].payload \o NextFrame(p).body
    PROVE  /\ NoByteTwice(x)
           /\ \A k \in 1 .. Len(x) :
                 /\ ~Returned(p, x[k])
                 /\ Sourced(p, x[k]) \/ Carries(NextFrame(p), x[k])
<1>0. PairInv /\ LinkInv /\ CallsOK
  BY DEF UdpInv, LinkInv
<1> DEFINE y == recv[p].payload
           o == Other(p)
<1>1. PICK f : f = NextFrame(p)
  OBVIOUS
<1>2. FrameOK(f) /\ ~Spent(p, f) /\ Among(wire[o], f)
  BY <1>0, <1>1, TakenFacts
<1>3. PICK j \in 1 .. Len(wire[o]) : wire[o][j] = f
  BY <1>2 DEF Among
<1>4. y \in Text /\ f.body \in Text
  BY <1>0, <1>2 DEF CallsOK, RecvCalls, FrameOK
<1>5. SentOnce(o)
  BY DEF BytesInv
<1>6. New(p, y) /\ \A b : Returned(p, b) => Sourced(p, b)
  BY DEF OnceInv
<1>7. x = y \o f.body
  BY <1>1
<1> HIDE DEF y, o
<1>8. ASSUME NEW k \in 1 .. Len(f.body) PROVE ~Sourced(p, f.body[k])
  <2> SUFFICES ASSUME Sourced(p, f.body[k]) PROVE FALSE
    OBVIOUS
  <2>1. PICK i \in 1 .. Len(wire[o]) : Carries(wire[o][i], f.body[k]) /\ Spent(p, wire[o][i])
    BY DEF Sourced, o
  <2>2. PICK l \in 1 .. Len(wire[o][i].body) : wire[o][i].body[l] = f.body[k] /\ IsData(wire[o][i])
    BY <2>1 DEF Carries
  <2>3. IsData(wire[o][j]) /\ k \in 1 .. Len(wire[o][j].body) /\ wire[o][i].body[l] = wire[o][j].body[k]
    BY <1>1, <1>3, <2>2
  <2>4. i = j
    BY <1>3, <1>5, <2>1, <2>2, <2>3, Zenon DEF SentOnce
  <2> QED BY <1>2, <1>3, <2>1, <2>4
<1>9. \A k, l \in 1 .. Len(f.body) : f.body[k] = f.body[l] => k = l
  <2> SUFFICES ASSUME NEW k \in 1 .. Len(f.body), NEW l \in 1 .. Len(f.body), f.body[k] = f.body[l]
               PROVE  k = l
    OBVIOUS
  <2>1. IsData(wire[o][j])
    BY <1>1, <1>3
  <2> QED BY <1>3, <1>5, <2>1, Zenon DEF SentOnce
<1>10. ASSUME NEW k \in 1 .. Len(y) PROVE ~Returned(p, y[k]) /\ Sourced(p, y[k])
  BY <1>6 DEF New
<1>11. \A k, l \in 1 .. Len(y) : y[k] = y[l] => k = l
  BY <1>6 DEF New, NoByteTwice
<1>12. ASSUME NEW k \in 1 .. Len(x)
       PROVE  \/ k \in 1 .. Len(y) /\ x[k] = y[k]
              \/ k - Len(y) \in 1 .. Len(f.body) /\ x[k] = f.body[k - Len(y)]
  BY <1>4, <1>7, <1>12, TwoTexts
<1>13. NoByteTwice(x)
  <2> SUFFICES ASSUME NEW k \in 1 .. Len(x), NEW l \in 1 .. Len(x), x[k] = x[l] PROVE k = l
    BY DEF NoByteTwice
  <2>1. CASE k \in 1 .. Len(y) /\ x[k] = y[k]
    <3>1. Sourced(p, x[l])
      BY <1>10, <2>1
    <3>2. l \in 1 .. Len(y) /\ x[l] = y[l]
      BY <1>8, <1>12, <3>1
    <3> QED BY <1>11, <2>1, <3>2
  <2>2. CASE k - Len(y) \in 1 .. Len(f.body) /\ x[k] = f.body[k - Len(y)]
    <3>1. ~Sourced(p, x[l])
      BY <1>8, <2>2
    <3>2. l - Len(y) \in 1 .. Len(f.body) /\ x[l] = f.body[l - Len(y)]
      BY <1>10, <1>12, <3>1
    <3>3. k - Len(y) = l - Len(y)
      BY <1>9, <2>2, <3>2
    <3>4. Len(y) \in Nat
      BY <1>4, TwoTexts
    <3> QED BY <3>3, <3>4
  <2> QED BY <1>12, <2>1, <2>2
<1>14. ASSUME NEW k \in 1 .. Len(x)
       PROVE  ~Returned(p, x[k]) /\ (Sourced(p, x[k]) \/ Carries(NextFrame(p), x[k]))
  <2>1. CASE k \in 1 .. Len(y) /\ x[k] = y[k]
    BY <1>10, <2>1
  <2>2. CASE k - Len(y) \in 1 .. Len(f.body) /\ x[k] = f.body[k - Len(y)]
    <3>1. ~Sourced(p, x[k])
      BY <1>8, <2>2
    <3>2. Carries(NextFrame(p), x[k])
      BY <1>1, <2>2 DEF Carries
    <3> QED BY <1>6, <3>1, <3>2
  <2> QED BY <1>12, <2>1, <2>2
<1> QED BY <1>13, <1>14

(* What recv() returned and holds stays once each. *)
LEMMA OnceKept ==
    ASSUME UdpInv, NEW p \in Peers, UdpEffect(p), NEW q \in Peers, OnceInv(q),
           delivered'[q] = delivered[q],
           \/ recv'[q].payload = recv[q].payload
           \/ recv'[q].payload = << >>
    PROVE  OnceInv(q)'
<1>1. \A b : Sourced(q, b) => Sourced(q, b)'
  BY SourcedKept
<1>2. \A b : Returned(q, b)' <=> Returned(q, b)
  BY DEF Returned
<1>3. \A b : Returned(q, b)' => Sourced(q, b)'
  BY <1>1, <1>2 DEF OnceInv
<1>4. ReturnedOnce(q)'
  <2>1. ReturnedOnce(q)
    BY DEF OnceInv
  <2> QED BY <2>1 DEF ReturnedOnce
<1>5. New(q, recv[q].payload)'
  <2>1. CASE recv'[q].payload = << >>
    BY <2>1 DEF New, NoByteTwice
  <2>2. CASE recv'[q].payload = recv[q].payload
    <3>1. New(q, recv[q].payload)
      BY DEF OnceInv
    <3>2. PICK x : x = recv[q].payload
      OBVIOUS
    <3>3. NoByteTwice(x) /\ \A k \in 1 .. Len(x) : ~Returned(q, x[k]) /\ Sourced(q, x[k])
      BY <3>1, <3>2 DEF New
    <3>4. \A k \in 1 .. Len(x) : ~Returned(q, x[k])' /\ Sourced(q, x[k])'
      BY <1>1, <1>2, <3>3
    <3>5. New(q, x)'
      BY <3>3, <3>4 DEF New
    <3> QED BY <2>2, <3>2, <3>5
  <2> QED BY <2>1, <2>2
<1> QED BY <1>3, <1>4, <1>5 DEF OnceInv

LEMMA OnceGrown ==
    ASSUME UdpInv, NEW p \in Peers, UdpEffect(p), BytesInv(Other(p)), OnceInv(p),
           Takes(p), Moved(p), NextFrame(p).type = "DATA_FRAG",
           recv[p].frame_count + 1 < MaxFrames, Continues(p, Grown(p, NextFrame(p)))
    PROVE  OnceInv(p)'
<1>0. PairInv /\ LinkInv /\ CallsOK
  BY DEF UdpInv, LinkInv
<1>1. PICK x : x = recv[p].payload \o NextFrame(p).body
  OBVIOUS
<1>2. IsData(NextFrame(p)) /\ FrameOK(NextFrame(p))
  BY <1>0, TakenFacts DEF IsData
<1>3. recv'[p].payload = x /\ UNCHANGED delivered
  BY <1>0, <1>1, <1>2, GrownType DEF Continues, CallsOK
<1>4. /\ NoByteTwice(x)
      /\ \A k \in 1 .. Len(x) :
            ~Returned(p, x[k]) /\ (Sourced(p, x[k]) \/ Carries(NextFrame(p), x[k]))
  BY <1>1, <1>2, TakenNew
<1>5. \A b : Returned(p, b)' <=> Returned(p, b)
  BY <1>3 DEF Returned
<1>6. /\ \A b : Sourced(p, b) => Sourced(p, b)'
      /\ \A b : Carries(NextFrame(p), b) => Sourced(p, b)'
  BY SourcedKept
<1>7. New(p, x)'
  BY <1>4, <1>5, <1>6 DEF New
<1>8. ReturnedOnce(p)'
  <2>1. ReturnedOnce(p) /\ UNCHANGED delivered
    BY <1>3 DEF OnceInv
  <2> QED BY <2>1 DEF ReturnedOnce
<1>9. \A b : Returned(p, b)' => Sourced(p, b)'
  BY <1>5, <1>6 DEF OnceInv
<1> QED BY <1>3, <1>7, <1>8, <1>9 DEF OnceInv

LEMMA OnceDelivered ==
    ASSUME UdpInv, NEW p \in Peers, UdpEffect(p), BytesInv(Other(p)), OnceInv(p), Delivers(p)
    PROVE  OnceInv(p)'
<1>0. PairInv /\ LinkInv /\ CallsOK /\ Takes(p) /\ Moved(p)
  BY DEF UdpInv, LinkInv, Delivers
<1>1. PICK x : x = recv[p].payload \o NextFrame(p).body
  OBVIOUS
<1>2. IsData(NextFrame(p)) /\ FrameOK(NextFrame(p))
  BY <1>0, TakenFacts DEF IsData, Delivers
<1> DEFINE d == delivered[p]
           e == delivered'[p]
<1>3. recv' = [recv EXCEPT ![p] = NotReceiving] /\ delivered' = [delivered EXCEPT ![p] = Append(@, x)]
  BY <1>1 DEF Delivers, Returns
<1>4. recv'[p].payload = << >> /\ e = Append(d, x) /\ d \in Seq(Text)
  BY <1>0, <1>3 DEF CallsOK, NotReceiving
<1>5. x \in Text
  <2>1. recv[p].payload \in Text /\ NextFrame(p).body \in Text
    BY <1>0, <1>2 DEF CallsOK, RecvCalls, FrameOK
  <2> QED BY <1>1, <2>1, ConcatProperties DEF Text
<1>6. /\ Len(d) \in Nat /\ Len(e) = Len(d) + 1 /\ e[Len(d) + 1] = x
      /\ \A n \in 1 .. Len(d) : e[n] = d[n]
  BY <1>4, <1>5, AppendProperties, LenProperties
<1>7. \A n : n \in 1 .. Len(e) <=> n \in 1 .. Len(d) \/ n = Len(d) + 1
  BY <1>6
<1>8. /\ NoByteTwice(x)
      /\ \A k \in 1 .. Len(x) :
            ~Returned(p, x[k]) /\ (Sourced(p, x[k]) \/ Carries(NextFrame(p), x[k]))
  BY <1>0, <1>1, <1>2, TakenNew
<1>9. /\ \A b : Sourced(p, b) => Sourced(p, b)'
      /\ \A b : Carries(NextFrame(p), b) => Sourced(p, b)'
  BY <1>0, SourcedKept
<1> HIDE DEF d, e
<1>10. \A b : Returned(p, b)' => Returned(p, b) \/ \E k \in 1 .. Len(x) : x[k] = b
  BY <1>6, <1>7, Zenon DEF Returned, d, e
<1>11. \A b : Returned(p, b)' => Sourced(p, b)'
  BY <1>8, <1>9, <1>10 DEF OnceInv
<1>12. ReturnedOnce(p)'
  <2> SUFFICES ASSUME NEW n \in 1 .. Len(e), NEW k \in 1 .. Len(e),
                      NEW i \in 1 .. Len(e[n]), NEW j \in 1 .. Len(e[k]), e[n][i] = e[k][j]
               PROVE  n = k /\ i = j
    BY DEF ReturnedOnce, e
  <2>1. ASSUME NEW a \in 1 .. Len(d), NEW b \in 1 .. Len(e[a]), NEW y \in 1 .. Len(x), e[a][b] = x[y]
        PROVE  FALSE
    <3>1. Returned(p, x[y])
      BY <1>6, <2>1 DEF Returned, d
    <3> QED BY <1>8, <3>1
  <2>2. CASE n \in 1 .. Len(d) /\ k \in 1 .. Len(d)
    <3>1. e[n] = d[n] /\ e[k] = d[k]
      BY <1>6, <2>2
    <3>2. ReturnedOnce(p)
      BY DEF OnceInv
    <3> QED BY <2>2, <3>1, <3>2 DEF ReturnedOnce, d
  <2>3. CASE n \in 1 .. Len(d) /\ k = Len(d) + 1
    BY <1>6, <2>1, <2>3
  <2>4. CASE k \in 1 .. Len(d) /\ n = Len(d) + 1
    BY <1>6, <2>1, <2>4
  <2>5. CASE n = Len(d) + 1 /\ k = Len(d) + 1
    BY <1>6, <1>8, <2>5 DEF NoByteTwice
  <2> QED BY <1>7, <2>2, <2>3, <2>4, <2>5
<1>13. New(p, recv[p].payload)'
  BY <1>4 DEF New, NoByteTwice
<1> QED BY <1>11, <1>12, <1>13 DEF OnceInv

LEMMA OnceNext ==
    ASSUME UdpInv, NEW p \in Peers, UdpEffect(p), NEW q \in Peers, BytesInv(Other(q)), OnceInv(q)
    PROVE  OnceInv(q)'
<1>0. TypeInv /\ LinkInv /\ WireOK /\ BufferOK /\ CallsOK /\ recv \in [Peers -> RecvCalls]
  BY DEF UdpInv, PairInv, NonceInv, LinkInv, CallsOK
<1>1. CASE q # p
  BY <1>0, <1>1, OtherStill, OnceKept
<1>2. CASE q = p
  <2>1. ASSUME NEW r, Continues(p, r) PROVE recv'[p] = r /\ UNCHANGED delivered
    BY <1>0, <2>1 DEF Continues
  <2>2. CASE UNCHANGED recvVars
    BY <1>2, <2>2, OnceKept DEF recvVars
  <2>3. CASE Fails(p)
    <3>1. recv'[p].payload = << >> /\ UNCHANGED delivered
      BY <1>0, <2>3 DEF Fails, Raises, NotReceiving
    <3> QED BY <1>2, <3>1, OnceKept
  <2>4. CASE \E r \in {NotReceiving, Receiving, Restarted(p)} : Continues(p, r)
    <3>1. /\ NotReceiving.payload = << >> /\ Receiving.payload = << >>
          /\ Restarted(p).payload = << >>
      BY <1>0 DEF NotReceiving, Receiving, Restarted, RecvCalls
    <3>2. recv'[p].payload = << >> /\ UNCHANGED delivered
      BY <2>1, <2>4, <3>1
    <3> QED BY <1>2, <3>2, OnceKept
  <2>5. CASE \E n \in Nat : Continues(p, Counted(p, n))
    <3>1. \A n \in Nat : Counted(p, n).payload = recv[p].payload
      BY <1>0 DEF Counted, RecvCalls
    <3>2. recv'[p].payload = recv[p].payload /\ UNCHANGED delivered
      BY <2>1, <2>5, <3>1
    <3> QED BY <1>2, <3>2, OnceKept
  <2>6. CASE Answers(p)
    <3>1. [recv[p] EXCEPT !.pc = "pong"].payload = recv[p].payload
      BY <1>0 DEF RecvCalls
    <3>2. recv'[p].payload = recv[p].payload /\ UNCHANGED delivered
      BY <2>1, <2>6, <3>1 DEF Answers
    <3> QED BY <1>2, <3>2, OnceKept
  <2>7. CASE /\ Takes(p) /\ Moved(p) /\ NextFrame(p).type = "DATA_FRAG"
             /\ recv[p].frame_count + 1 < MaxFrames /\ Continues(p, Grown(p, NextFrame(p)))
    BY <1>2, <2>7, OnceGrown
  <2>8. CASE Delivers(p)
    BY <1>2, <2>8, OnceDelivered
  <2> QED BY <1>0, <2>2, <2>3, <2>4, <2>5, <2>6, <2>7, <2>8, RecvCases
<1> QED BY <1>1, <1>2

ByteInv == \A p \in Peers : BytesInv(p) /\ OnceInv(p)

LEMMA ByteInit == UdpInit => ByteInv
<1> SUFFICES ASSUME UdpInit, NEW p \in Peers PROVE BytesInv(p) /\ OnceInv(p)
  BY DEF ByteInv
<1>1. Len(wire[p]) = 0 /\ Len(delivered[p]) = 0 /\ recv[p].payload = << >>
      /\ \A t \in Callers : task[p][t].op = "none"
  BY DEF UdpInit, Init, Idle, RecvInit, NotReceiving
<1>2. BytesInv(p)
  BY <1>1 DEF BytesInv, OnWire, SentOnce
<1>3. OnceInv(p)
  BY <1>1 DEF OnceInv, New, NoByteTwice, Returned, ReturnedOnce
<1> QED BY <1>2, <1>3

LEMMA ByteNext ==
    ASSUME UdpInv, ByteInv, [UdpNext]_vars
    PROVE  ByteInv'
<1> SUFFICES ASSUME NEW q \in Peers PROVE BytesInv(q)' /\ OnceInv(q)'
  BY DEF ByteInv
<1>1. PICK p \in Peers : UdpEffect(p)
  BY UdpStep
<1>2. /\ TypeInv /\ LinkInv /\ Other(q) \in Peers
      /\ \A o \in Peers : BytesInv(o) /\ OnceInv(o)
  BY PeerFacts DEF UdpInv, PairInv, NonceInv, ByteInv
<1>3. BytesInv(q)'
  BY <1>1, <1>2, BytesNext
<1>4. OnceInv(q)'
  BY <1>1, <1>2, OnceNext
<1> QED BY <1>3, <1>4

(* Every byte is returned by recv() at most once, however often and however *)
(* late the network repeats its frames, through rotations of the keys by   *)
(* either side, failed, cancelled and repeated calls.  A frame that recv() *)
(* took is spent, and the bytes of different frames are different.         *)
THEOREM BytesDeliveredOnce == UdpSpec => []DeliveredOnce
<1>1. UdpInv /\ ByteInv /\ [UdpNext]_vars => ByteInv'
  BY ByteNext
<1>2. ByteInv => DeliveredOnce
  BY DEF ByteInv, OnceInv, ReturnedOnce, DeliveredOnce
<1> QED BY <1>1, <1>2, ByteInit, UdpInvariant, PTL DEF UdpSpec

-----------------------------------------------------------------------------
(* Stop-and-wait.  Until a call fails or a rekey is started, frame number  *)
(* n follows the arrival of frame n - 1, so recv() takes the frames in the *)
(* order of their numbers and leaves none out.                             *)
Undisturbed == ~faulted /\ \A q \in Peers : salts[q] = {}

(* How many frames recv() has taken. *)
Accepted(p) == last_rx_seq[p] + 1

(* Frame n was taken, or waits in the buffer. *)
Arrived(p, n) ==
    n < Accepted(p) \/ \E k \in 1 .. Len(read_buffer[p]) : read_buffer[p][k].seq = n

FirstKeys(p) == info[p].tx_key = HandshakeKey(p) /\ info[p].rx_key = HandshakeKey(Other(p))

Numbered(p) ==
    \A i \in 1 .. Len(wire[p]) : wire[p][i].seq = i - 1 /\ wire[p][i].key = HandshakeKey(p)

(* The next number is the length of the wire, until a BYE used the last. *)
NextNumber(p) ==
    \/ transport_closed[p]
    \/ info[p].tx_seq = Len(wire[p])
    \/ info[p].tx_seq = MaxSeq /\ \E i \in 1 .. Len(wire[p]) : wire[p][i].type = "BYE"

(* The window has seen the numbers below Accepted, and no other. *)
Contiguous(p) ==
    /\ Accepted(p) <= Len(wire[Other(p)])
    /\ info[p].rx_seq = IF Accepted(p) = 0 THEN 0 ELSE Accepted(p) - 1
    /\ info[p].rx_window_bitmap = { k \in Offsets : k < Accepted(p) }

(* Nothing in the buffer is ahead of its turn. *)
NoGap(p) ==
    error[p] = "none" =>
        \A k \in 1 .. Len(read_buffer[p]) : \A n \in 0 .. read_buffer[p][k].seq - 1 :
            n < Accepted(p) \/ \E j \in 1 .. k - 1 : read_buffer[p][j].seq = n

(* What has been acknowledged has arrived: every frame but the last, and   *)
(* the last as well unless a drain() still waits for it.                   *)
Landed(p) ==
    error[Other(p)] = "none" =>
        /\ \A n \in 0 .. Len(wire[p]) - 2 : Arrived(Other(p), n)
        /\ (\A t \in Callers : task[p][t].pc # "drain") \/ acked[p] =>
              Len(wire[p]) = 0 \/ Arrived(Other(p), Len(wire[p]) - 1)
        /\ \A u \in utacks[Other(p)] :
              u.seq \in 0 .. Len(wire[p]) - 1 /\ Arrived(Other(p), u.seq)

(* A recv() that raised is not called again. *)
Quit(p) == error[p] # "none" => recv[p].pc = "idle"

ChannelInv ==
    \A p \in Peers :
        /\ FirstKeys(p) /\ Numbered(p) /\ NextNumber(p) /\ Contiguous(p)
        /\ NoGap(p) /\ Landed(p) /\ Quit(p)

(* An undisturbed step: no rotation, and no call that fails. *)
LEMMA Quiet ==
    ASSUME UdpInv, NEW p \in Peers, UdpEffect(p), Undisturbed'
    PROVE  /\ Undisturbed /\ ~faulted' /\ UNCHANGED salts
           /\ ~Rekeys(p) /\ ~Accepts(p)
           /\ \A q \in Peers : \A t \in Callers : task[q][t].op # "REKEY"
           /\ \A q \in Peers : \A i \in 1 .. Len(wire[q]) : wire[q][i].type # "REKEY"
<1>0. TypeInv /\ AllNonces /\ SaltInv
  BY DEF UdpInv, PairInv, NonceInv
<1>1. ~faulted' /\ ~faulted
  <2>1. faulted' = TRUE \/ UNCHANGED faulted
    BY DEF UdpEffect, Calls, WritesOut, CallEnds, Ends, Rekeys, PongEnds, Feeds, Acks, Restarts,
           Skips, Reads, Delivers, Answers, Accepts, Takes
  <2> QED BY <2>1 DEF Undisturbed
<1>2. \A q \in Peers : salts[q] \subseteq salts'[q]
  <2>1. CASE Calls(p)
    <3>1. PICK t, op, data : t \in Tasks /\ Joins(p, t, op, data)
      BY <2>1 DEF Calls, Draws
    <3> QED BY <1>0, <3>1 DEF Joins, TypeInv
  <2>2. CASE Accepts(p)
    BY <1>0, <2>2 DEF Accepts, AcceptRekey, TypeInv
  <2>3. CASE WritesOut(p) \/ Answers(p)
    BY <2>3 DEF WritesOut, Writes, WriteFrame, Answers, Joins
  <2>4. CASE CallEnds(p) \/ PongEnds(p) \/ Rekeys(p)
    BY <2>4 DEF CallEnds, PongEnds, Ends, Leaves, Leave, Rekeys, RekeyDone
  <2>5. CASE Feeds(p) \/ Acks(p) \/ Retransmit(p) \/ Skips(p)
    BY <2>5 DEF Feeds, Acks, Retransmit, Skips, sessionVars
  <2>6. CASE Restarts(p) \/ Reads(p) \/ Delivers(p)
    BY <2>6 DEF Restarts, Reads, Delivers, Stands
  <2> QED BY <2>1, <2>2, <2>3, <2>4, <2>5, <2>6 DEF UdpEffect
<1>3. Undisturbed
  BY <1>1, <1>2 DEF Undisturbed
<1>4. \A q \in Peers : \A t \in Callers : task[q][t].op # "REKEY"
  BY <1>0, <1>3 DEF AllNonces, PeerNonces, PendingFresh, Undisturbed
<1>5. \A q \in Peers : \A i \in 1 .. Len(wire[q]) : wire[q][i].type # "REKEY"
  BY <1>0, <1>3 DEF SaltInv, DrawnInv, Drawn, Undisturbed
<1>6. ~Rekeys(p)
  BY <1>4 DEF Rekeys, RekeyDone, Callers
<1>7. ~Accepts(p)
  <2>1. SUFFICES ASSUME Accepts(p) PROVE FALSE
    OBVIOUS
  <2>2. salts' = [salts EXCEPT ![p] = @ \cup {NextFrame(p).body[1]}]
    BY <2>1 DEF Accepts, AcceptRekey
  <2>3. NextFrame(p).body[1] \in salts'[p]
    BY <1>0, <2>2 DEF TypeInv
  <2> QED BY <2>3 DEF Undisturbed
<1>8. UNCHANGED salts
  <2>1. CASE Calls(p)
    <3>1. PICK t, op, data : t \in Tasks /\ Joins(p, t, op, data)
      BY <2>1 DEF Calls, Draws
    <3>2. op # "REKEY"
      <4>1. SUFFICES ASSUME op = "REKEY" PROVE FALSE
        OBVIOUS
      <4>2. salts' = [salts EXCEPT ![p] = @ \cup {data[1]}]
        BY <3>1, <4>1 DEF Joins
      <4>3. data[1] \in salts'[p]
        BY <1>0, <4>2 DEF TypeInv
      <4> QED BY <4>3 DEF Undisturbed
    <3> QED BY <3>1, <3>2 DEF Joins
  <2>2. CASE WritesOut(p) \/ Answers(p)
    BY <2>2 DEF WritesOut, Writes, WriteFrame, Answers, Joins
  <2>3. CASE CallEnds(p) \/ PongEnds(p)
    BY <2>3 DEF CallEnds, PongEnds, Ends, Leaves, Leave
  <2>4. CASE Feeds(p) \/ Acks(p) \/ Retransmit(p) \/ Skips(p)
    BY <2>4 DEF Feeds, Acks, Retransmit, Skips, sessionVars
  <2>5. CASE Restarts(p) \/ Reads(p) \/ Delivers(p)
    BY <2>5 DEF Restarts, Reads, Delivers, Stands
  <2> QED BY <1>6, <1>7, <2>1, <2>2, <2>3, <2>4, <2>5 DEF UdpEffect
<1> QED BY <1>1, <1>3, <1>4, <1>5, <1>6, <1>7, <1>8

(* Nor does it touch the stream of the other peer. *)
LEMMA OtherStream ==
    ASSUME TypeInv, LinkInv, NEW p \in Peers, UdpEffect(p), ~faulted', NEW q \in Peers, q # p
    PROVE  /\ wire'[q] = wire[q] /\ error'[q] = error[q] /\ sent'[q] = sent[q]
           /\ transport_closed'[q] = transport_closed[q] /\ send_lock'[q] = send_lock[q]
           /\ read_buffer'[q] = read_buffer[q] /\ last_rx_seq'[q] = last_rx_seq[q]
           /\ acked'[q] = acked[q] /\ utacks'[q] = utacks[q]
<1>0. /\ WireOK /\ BufferOK /\ CallsOK /\ StreamOK /\ SentOK
      /\ \E E : error \in [Peers -> E]
      /\ \E F : read_buffer \in [Peers -> Seq(F)]
      /\ \E U : utacks \in [Peers -> U]
  BY DEF LinkInv, CallsOK, BufferOK, StreamOK
<1>1. wire'[q] = wire[q]
  <2>1. CASE WritesOut(p)
    <3>1. PICK t, c : t \in Callers /\ Writes(p, t, c)
      BY <2>1 DEF WritesOut
    <3> QED BY <3>1, WriteFacts
  <2> QED BY <2>1, SameWire
<1>2. error'[q] = error[q]
  <2>1. CASE Fails(p)
    BY <1>0, <2>1 DEF Fails, Raises
  <2>2. CASE UNCHANGED error
    BY <2>2
  <2> QED BY <1>0, <2>1, <2>2, RecvCases DEF recvVars, Continues, Answers, Delivers, Returns
<1>3. sent'[q] = sent[q]
  <2>1. CASE Calls(p)
    BY <1>0, <2>1 DEF Calls, Submits, SentOK
  <2> QED BY <2>1, SameSent
<1>4. transport_closed'[q] = transport_closed[q] /\ send_lock'[q] = send_lock[q]
  <2>1. CASE Calls(p) \/ Answers(p)
    BY <2>1 DEF Calls, Draws, Answers, Joins, Enqueue, TypeInv
  <2>2. CASE WritesOut(p)
    BY <2>2 DEF WritesOut, Writes, WriteFrame
  <2>3. CASE CallEnds(p) \/ PongEnds(p) \/ Rekeys(p)
    <3>1. PICK t : Leave(p, t)
      BY <2>3 DEF CallEnds, PongEnds, Ends, Leaves, Rekeys, RekeyDone
    <3>2. /\ send_lock' = [send_lock EXCEPT ![p] = Dequeue(@, t)]
          /\ transport_closed' = [transport_closed EXCEPT ![p] = @ \/ task[p][t].op = "BYE"]
      BY <3>1 DEF Leave
    <3> QED BY <3>2 DEF TypeInv
  <2>4. CASE Feeds(p) \/ Acks(p) \/ Retransmit(p) \/ Skips(p)
    BY <2>4 DEF Feeds, Acks, Retransmit, Skips, sessionVars
  <2>5. CASE Restarts(p) \/ Reads(p) \/ Delivers(p) \/ Accepts(p)
    BY <2>5 DEF Restarts, Reads, Delivers, Stands, Accepts, AcceptRekey
  <2> QED BY <2>1, <2>2, <2>3, <2>4, <2>5 DEF UdpEffect
<1>5. UNCHANGED streamVars \/ Transmit(p) \/ Feeds(p) \/ Acks(p) \/ Retransmit(p) \/ Skips(p) \/ Takes(p)
  BY DEF UdpEffect, Calls, WritesOut, CallEnds, PongEnds, Ends, Rekeys, Restarts, Reads, Delivers,
         Answers, Accepts
<1>6. read_buffer'[q] = read_buffer[q] /\ last_rx_seq'[q] = last_rx_seq[q]
  BY <1>0, <1>5 DEF streamVars, Transmit, Feeds, FeedPacket, Acks, FeedUtack, Retransmit, Skips,
                    Takes, Consume, StreamOK
<1>7. acked'[q] = acked[q] /\ utacks'[q] = utacks[q]
  BY <1>0, <1>5 DEF streamVars, Transmit, Feeds, FeedPacket, SendUtack, Acks, FeedUtack, Retransmit,
                    Skips, Takes, StreamOK
<1> QED BY <1>1, <1>2, <1>3, <1>4, <1>6, <1>7

(* The frame at the head of the buffer: recv() drops it only if it was     *)
(* taken before, and otherwise it is the next one.                         *)
LEMMA HeadInTurn ==
    ASSUME TypeInv, LinkInv, ChannelInv, NEW p \in Peers,
           recv[p].pc = "reading", read_buffer[p] # << >>
    PROVE  /\ error[p] = "none"
           /\ Accepted(p) \in Nat /\ NextFrame(p).seq \in Nat
           /\ Drops(p, NextFrame(p)) => NextFrame(p).seq < Accepted(p)
           /\ ~Drops(p, NextFrame(p)) => NextFrame(p).seq = Accepted(p)
           /\ NextFrame(p).seq < Len(wire[Other(p)])
<1> USE PeerFacts, UdpAssumption
<1> DEFINE f == NextFrame(p)
           s == f.seq
           a == Accepted(p)
           o == Other(p)
<1>1. /\ FirstKeys(p) /\ Contiguous(p) /\ NoGap(p) /\ Quit(p) /\ Numbered(o)
  BY DEF ChannelInv
<1>2. error[p] = "none"
  BY <1>1 DEF Quit
<1>3. Among(wire[o], f) /\ FrameOK(f) /\ f = read_buffer[p][1] /\ Len(read_buffer[p]) \in Nat \ {0}
  <2>1. PICK F : read_buffer \in [Peers -> Seq(F)]
    BY DEF LinkInv, BufferOK
  <2>2. Len(read_buffer[p]) \in Nat \ {0} /\ f = read_buffer[p][1]
    BY <2>1, HeadTailProperties, EmptySeq DEF NextFrame
  <2> QED BY <2>2, HeadFacts DEF LinkInv
<1>4. PICK i \in 1 .. Len(wire[o]) : wire[o][i] = f
  BY <1>3 DEF Among
<1>5. s \in Nat /\ f.key = info[p].rx_key /\ s = i - 1
  BY <1>1, <1>3, <1>4 DEF Numbered, FirstKeys, FrameOK
<1>6. a \in Nat
  BY DEF Accepted, LinkInv, StreamOK
<1>7. Len(wire[o]) \in Nat
  BY LenProperties DEF TypeInv
<1>8. s < Len(wire[o])
  BY <1>4, <1>5, <1>7
<1>9. s <= a
  <2>1. \A n \in 0 .. s - 1 : n < a
    BY <1>1, <1>2, <1>3 DEF NoGap
  <2>2. CASE s = 0
    BY <1>6, <2>2
  <2>3. CASE s > 0
    <3>1. s - 1 \in 0 .. s - 1
      BY <1>5, <2>3
    <3> QED BY <1>5, <1>6, <2>1, <3>1
  <2> QED BY <1>5, <2>2, <2>3
<1>10. /\ info[p].rx_seq = IF a = 0 THEN 0 ELSE a - 1
       /\ info[p].rx_window_bitmap = { k \in Offsets : k < a }
  BY <1>1 DEF Contiguous
<1> HIDE DEF s, a, f
<1>11. ASSUME Drops(p, f) PROVE s < a
  <2>1. \/ s <= info[p].rx_seq - WindowSize
        \/ s <= info[p].rx_seq /\ info[p].rx_seq - s \in info[p].rx_window_bitmap
    BY <1>5, <1>11 DEF Drops, TooOld, Replayed, s
  <2> QED BY <1>5, <1>6, <1>10, <2>1
<1>12. ASSUME s < a PROVE Drops(p, f)
  <2>1. info[p].rx_seq = a - 1
    BY <1>5, <1>6, <1>10, <1>12
  <2>2. CASE s <= a - 1 - WindowSize
    BY <2>1, <2>2 DEF Drops, TooOld, s
  <2>3. CASE ~(s <= a - 1 - WindowSize)
    <3>1. a - 1 - s \in Offsets /\ a - 1 - s < a /\ s <= a - 1
      BY <1>5, <1>6, <1>12, <2>3 DEF Offsets
    <3> QED BY <1>10, <2>1, <3>1 DEF Drops, Replayed, s
  <2> QED BY <2>2, <2>3
<1> QED BY <1>2, <1>5, <1>6, <1>8, <1>9, <1>11, <1>12 DEF s, a, f

(* The numbers of the frames, and the keys. *)
LEMMA KeysNext ==
    ASSUME UdpInv, NEW p \in Peers, UdpEffect(p), Undisturbed', NEW q \in Peers, FirstKeys(q)
    PROVE  FirstKeys(q)'
<1>0. TypeInv /\ LinkInv /\ ~Rekeys(p) /\ ~Accepts(p) /\ ~faulted'
  BY Quiet DEF UdpInv, PairInv, NonceInv
<1>1. CASE UNCHANGED info
  BY <1>1 DEF FirstKeys
<1>2. CASE WritesOut(p)
  <2>1. PICK t, c : t \in Callers /\ Writes(p, t, c)
    BY <1>2 DEF WritesOut
  <2>2. info'[q].tx_key = info[q].tx_key /\ info'[q].rx_key = info[q].rx_key
    BY <1>0, <2>1, WriteFacts
  <2> QED BY <2>2 DEF FirstKeys
<1>3. CASE SameKeys
  BY <1>3 DEF SameKeys, FirstKeys
<1> QED BY <1>0, <1>1, <1>2, <1>3
    DEF UdpEffect, Calls, CallEnds, PongEnds, Ends, Feeds, Acks, Retransmit, Restarts, Skips, Reads,
        Delivers, Answers, Stands, Joins, sessionVars

(* A frame that is written gets the number that is next. *)
LEMMA SealedNumber ==
    ASSUME UdpInv, ChannelInv, NEW p \in Peers, NEW t \in Callers, NEW c, Writes(p, t, c),
           ~transport_closed[p]
    PROVE  /\ SealedFrame(p, c).seq = Len(wire[p]) /\ SealedFrame(p, c).key = HandshakeKey(p)
           /\ wire' = [wire EXCEPT ![p] = Append(@, SealedFrame(p, c))]
           /\ Len(wire[p]) \in 0 .. MaxSeq
           /\ Len(wire[p]) = MaxSeq => SealedFrame(p, c).type = "BYE"
<1>1. /\ FirstKeys(p) /\ NextNumber(p) /\ PeerNonces(p) /\ info[p].tx_seq \in 0 .. MaxSeq
  BY DEF ChannelInv, UdpInv, PairInv, NonceInv, AllNonces, TypeInv, Infos
<1>2. SealedFrame(p, c).seq = info[p].tx_seq /\ SealedFrame(p, c).key = info[p].tx_key
      /\ SealedFrame(p, c).type = PacketType(c)
  BY DEF SealedFrame
<1>3. /\ WriteFrame(p, t, c) /\ c.op = task[p][t].op
      /\ task[p][t].pc = "lock" \/ (task[p][t].pc = "drain" /\ c.op = "DATA")
  BY DEF Writes
<1>4. info[p].tx_seq = MaxSeq => c.op = "BYE"
  BY <1>1, <1>3, SeqAssumption DEF WriteFrame, Overflows
<1>5. info[p].tx_seq = Len(wire[p])
  <2>1. SUFFICES ASSUME info[p].tx_seq = MaxSeq, \E i \in 1 .. Len(wire[p]) : wire[p][i].type = "BYE"
                 PROVE  FALSE
    BY <1>1 DEF NextNumber
  <2>2. task[p][t].op = "BYE" /\ task[p][t].pc = "lock"
    BY <1>3, <1>4, <2>1
  <2>3. ByeOnce(p)
    BY <1>1 DEF PeerNonces
  <2> QED BY <2>1, <2>2, <2>3 DEF ByeOnce
<1>6. wire' = [wire EXCEPT ![p] = Append(@, SealedFrame(p, c))]
  BY <1>3 DEF WriteFrame
<1> QED BY <1>1, <1>2, <1>4, <1>5, <1>6 DEF FirstKeys, PacketType

LEMMA NumbersNext ==
    ASSUME UdpInv, ChannelInv, NEW p \in Peers, UdpEffect(p), Undisturbed', NEW q \in Peers
    PROVE  Numbered(q)' /\ NextNumber(q)'
<1>0. TypeInv /\ LinkInv /\ ~Rekeys(p) /\ ~Accepts(p) /\ ~faulted'
  BY Quiet DEF UdpInv, PairInv, NonceInv
<1>1. Numbered(q) /\ NextNumber(q)
  BY DEF ChannelInv
<1>2. CASE q # p
  <2>1. wire'[q] = wire[q] /\ transport_closed'[q] = transport_closed[q] /\ info'[q] = info[q]
    BY <1>0, <1>2, OtherStream, OtherStill
  <2> QED BY <1>1, <2>1 DEF Numbered, NextNumber
<1>3. CASE q = p /\ ~WritesOut(p)
  <2>1. wire' = wire
    BY <1>0, <1>3, SameWire
  <2>2. info'[p].tx_seq = info[p].tx_seq
    <3>1. CASE UNCHANGED info
      BY <3>1
    <3>2. CASE SameKeys
      BY <3>2 DEF SameKeys
    <3> QED BY <1>0, <1>3, <3>1, <3>2
        DEF UdpEffect, Calls, CallEnds, PongEnds, Ends, Feeds, Acks, Retransmit, Restarts, Skips,
            Reads, Delivers, Answers, Stands, Joins, sessionVars
  <2>3. transport_closed[p] => transport_closed'[p]
    <3>1. CASE CallEnds(p) \/ PongEnds(p)
      <4>1. PICK t : Leave(p, t)
        BY <3>1 DEF CallEnds, PongEnds, Ends, Leaves
      <4> QED BY <1>0, <4>1 DEF Leave, TypeInv
    <3>2. CASE Calls(p) \/ Answers(p)
      BY <3>2 DEF Calls, Draws, Answers, Joins, Enqueue
    <3>3. CASE Feeds(p) \/ Acks(p) \/ Retransmit(p) \/ Skips(p)
      BY <3>3 DEF Feeds, Acks, Retransmit, Skips, sessionVars
    <3>4. CASE Restarts(p) \/ Reads(p) \/ Delivers(p)
      BY <3>4 DEF Restarts, Reads, Delivers, Stands
    <3> QED BY <1>0, <1>3, <3>1, <3>2, <3>3, <3>4 DEF UdpEffect
  <2>4. Numbered(p)'
    BY <1>1, <1>3, <2>1 DEF Numbered
  <2> QED BY <1>1, <1>3, <2>1, <2>2, <2>3, <2>4 DEF NextNumber
<1>4. CASE q = p /\ WritesOut(p)
  <2>1. PICK t, c : t \in Callers /\ Writes(p, t, c)
    BY <1>4 DEF WritesOut
  <2>2. transport_closed' = transport_closed /\ info'[p].tx_seq = BurnSeq(info[p].tx_seq)
    BY <1>0, <2>1, WriteFacts DEF Writes, WriteFrame
  <2>3. CASE transport_closed[p]
    <3>1. wire' = wire
      BY <1>4, <2>3 DEF WritesOut, Transmit
    <3> QED BY <1>1, <1>4, <2>2, <2>3, <3>1 DEF Numbered, NextNumber
  <2>4. CASE ~transport_closed[p]
    <3> DEFINE f == SealedFrame(p, c)
               w == wire[p]
    <3>1. /\ f.seq = Len(w) /\ f.key = HandshakeKey(p)
          /\ wire' = [wire EXCEPT ![p] = Append(@, f)]
          /\ Len(w) \in 0 .. MaxSeq /\ (Len(w) = MaxSeq => f.type = "BYE")
      BY <2>1, <2>4, SealedNumber
    <3>2. info[p].tx_seq = Len(w)
      BY <3>1 DEF SealedFrame
    <3> HIDE DEF f
    <3>3. PICK F : wire \in [Peers -> Seq(F)]
      BY <1>0 DEF TypeInv
    <3>4. wire'[p] = Append(w, f) /\ w \in Seq(F \cup {f})
      BY <3>1, <3>3, SeqMonotonic
    <3>5. /\ Len(wire'[p]) = Len(w) + 1 /\ Len(w) \in Nat /\ wire'[p][Len(w) + 1] = f
          /\ \A i \in 1 .. Len(w) : wire'[p][i] = w[i]
      BY <3>4, AppendProperties, LenProperties
    <3>6. Numbered(p)'
      <4> SUFFICES ASSUME NEW i \in 1 .. Len(wire'[p])
                   PROVE  wire'[p][i].seq = i - 1 /\ wire'[p][i].key = HandshakeKey(p)
        BY DEF Numbered, HandshakeKey
      <4>1. CASE i \in 1 .. Len(w)
        BY <1>1, <1>4, <3>5, <4>1 DEF Numbered
      <4>2. CASE i = Len(w) + 1
        BY <3>1, <3>5, <4>2
      <4> QED BY <3>5, <4>1, <4>2
    <3>7. NextNumber(p)'
      <4>1. CASE Len(w) < MaxSeq
        BY <2>2, <3>2, <3>5, <4>1 DEF NextNumber, BurnSeq
      <4>2. CASE Len(w) = MaxSeq
        <5>1. Len(w) + 1 \in 1 .. Len(wire'[p])
          BY <3>5
        <5>2. wire'[p][Len(w) + 1].type = "BYE"
          BY <3>1, <3>5, <4>2
        <5>3. info'[p].tx_seq = MaxSeq
          BY <2>2, <3>2, <4>2, SeqAssumption DEF BurnSeq
        <5>4. \E i \in 1 .. Len(wire'[p]) : wire'[p][i].type = "BYE"
          BY <5>1, <5>2, Zenon
        <5> QED BY <5>3, <5>4 DEF NextNumber
      <4> QED BY <3>1, <3>5, SeqAssumption, <4>1, <4>2
    <3> QED BY <1>4, <3>6, <3>7
  <2> QED BY <2>3, <2>4
<1> QED BY <1>2, <1>3, <1>4

(* The wire only grows. *)
LEMMA WireGrows ==
    ASSUME TypeInv, NEW p \in Peers, UdpEffect(p), NEW q \in Peers
    PROVE  /\ Len(wire[q]) \in Nat /\ Len(wire'[q]) \in Nat
           /\ Len(wire[q]) <= Len(wire'[q])
           /\ \A i \in 1 .. Len(wire[q]) : wire'[q][i] = wire[q][i]
<1>1. Len(wire[q]) \in Nat
  BY LenProperties DEF TypeInv
<1>2. CASE WritesOut(p)
  <2>1. PICK t, c : t \in Callers /\ Writes(p, t, c)
    BY <1>2 DEF WritesOut
  <2>2. CASE q = p
    <3>1. Longer(wire[p], wire'[p], SealedFrame(p, c))
      BY <2>1, WriteFacts
    <3> QED BY <1>1, <2>2, <3>1 DEF Longer
  <2>3. CASE q # p
    <3>1. wire'[q] = wire[q]
      BY <2>1, <2>3, WriteFacts
    <3> QED BY <1>1, <3>1
  <2> QED BY <2>2, <2>3
<1>3. CASE ~WritesOut(p)
  <2>1. wire' = wire
    BY <1>3, SameWire
  <2> QED BY <1>1, <2>1
<1> QED BY <1>2, <1>3

(* What a step does to the stream that recv() reads. *)
SameStream(p) ==
    /\ last_rx_seq'[p] = last_rx_seq[p]
    /\ info'[p].rx_seq = info[p].rx_seq
    /\ info'[p].rx_window_bitmap = info[p].rx_window_bitmap

TakesNext(p) ==
    /\ Takes(p) /\ Moved(p) /\ error[p] = "none"
    /\ NextFrame(p).seq = Accepted(p) /\ Accepted(p) < Len(wire[Other(p)])
    /\ last_rx_seq'[p] = last_rx_seq[p] + 1
    /\ read_buffer[p] # << >> /\ read_buffer'[p] = Tail(read_buffer[p])

DropsOld(p) ==
    /\ SameStream(p)
    /\ read_buffer[p] # << >> /\ read_buffer'[p] = Tail(read_buffer[p])
    /\ error'[p] = "none" => NextFrame(p).seq < Accepted(p)

LEMMA TakenInTurn ==
    ASSUME UdpInv, ChannelInv, NEW p \in Peers, Takes(p), Moved(p)
    PROVE  TakesNext(p)
<1>0. TypeInv /\ LinkInv /\ StreamOK /\ \E F : read_buffer \in [Peers -> Seq(F)]
  BY DEF UdpInv, PairInv, NonceInv, LinkInv, BufferOK
<1>1. /\ recv[p].pc = "reading" /\ read_buffer[p] # << >> /\ Consume(p) /\ ~Drops(p, NextFrame(p))
      /\ last_rx_seq' =
           [last_rx_seq EXCEPT ![p] = IF NextFrame(p).seq > @ THEN NextFrame(p).seq ELSE @]
  BY DEF Takes
<1>2. read_buffer'[p] = Tail(read_buffer[p])
  BY <1>0, <1>1 DEF Consume
<1>3. /\ error[p] = "none" /\ NextFrame(p).seq = Accepted(p)
      /\ NextFrame(p).seq < Len(wire[Other(p)])
  BY <1>0, <1>1, HeadInTurn
<1>4. last_rx_seq'[p] = last_rx_seq[p] + 1
  BY <1>0, <1>1, <1>3 DEF Accepted, StreamOK
<1> QED BY <1>1, <1>2, <1>3, <1>4 DEF TakesNext

LEMMA StreamSteps ==
    ASSUME UdpInv, ChannelInv, NEW p \in Peers, UdpEffect(p), Undisturbed'
    PROVE  \/ SameStream(p) /\ read_buffer' = read_buffer
           \/ SameStream(p) /\ Feeds(p)
           \/ DropsOld(p)
           \/ TakesNext(p)
<1>0. TypeInv /\ LinkInv /\ ~Rekeys(p) /\ ~Accepts(p) /\ ~faulted'
  BY Quiet DEF UdpInv, PairInv, NonceInv
<1>1. StreamOK /\ \E F : read_buffer \in [Peers -> Seq(F)]
  BY <1>0 DEF LinkInv, BufferOK
<1>2. ASSUME UNCHANGED info, UNCHANGED last_rx_seq
      PROVE  SameStream(p)
  BY <1>2 DEF SameStream
<1>3. CASE Calls(p) \/ CallEnds(p) \/ PongEnds(p) \/ Restarts(p)
  BY <1>2, <1>3 DEF Calls, CallEnds, PongEnds, Ends, Restarts, streamVars
<1>4. CASE WritesOut(p)
  <2>1. PICK t, c : t \in Callers /\ Writes(p, t, c)
    BY <1>4 DEF WritesOut
  <2>2. UNCHANGED <<read_buffer, last_rx_seq>>
    BY <1>4 DEF WritesOut, Transmit
  <2> QED BY <1>0, <2>1, <2>2, WriteFacts DEF SameStream
<1>5. CASE Acks(p) \/ Retransmit(p) \/ Feeds(p)
  BY <1>2, <1>5 DEF Acks, FeedUtack, Retransmit, Feeds, FeedPacket, sessionVars
<1>6. CASE Skips(p)
  <2>1. /\ recv[p].pc = "reading" /\ read_buffer[p] # << >> /\ Consume(p)
        /\ UNCHANGED <<info, last_rx_seq>>
        /\ Drops(p, NextFrame(p)) \/ Fails(p)
    BY <1>6 DEF Skips, sessionVars
  <2>2. read_buffer'[p] = Tail(read_buffer[p])
    BY <1>1, <2>1 DEF Consume
  <2>3. Fails(p) => error'[p] # "none"
    <3>1. \E X : error \in [Peers -> X]
      BY <1>0 DEF LinkInv, CallsOK
    <3> QED BY <3>1 DEF Fails, Raises
  <2>4. Drops(p, NextFrame(p)) => NextFrame(p).seq < Accepted(p)
    BY <1>0, <2>1, HeadInTurn
  <2> QED BY <1>2, <2>1, <2>2, <2>3, <2>4 DEF DropsOld
<1>7. CASE Reads(p) \/ Delivers(p) \/ Answers(p)
  BY <1>7, TakenInTurn DEF Reads, Delivers, Answers
<1> QED BY <1>0, <1>3, <1>4, <1>5, <1>6, <1>7 DEF UdpEffect

(* The window stays an initial segment of the numbers. *)
LEMMA ContiguousNext ==
    ASSUME UdpInv, ChannelInv, NEW p \in Peers, UdpEffect(p), Undisturbed', NEW q \in Peers
    PROVE  Contiguous(q)'
<1> USE PeerFacts, UdpAssumption
<1>0. TypeInv /\ LinkInv /\ ~faulted' /\ Contiguous(q)
  BY Quiet DEF UdpInv, PairInv, NonceInv, ChannelInv
<1>1. /\ Len(wire[Other(q)]) \in Nat /\ Len(wire'[Other(q)]) \in Nat
      /\ Len(wire[Other(q)]) <= Len(wire'[Other(q)])
  BY <1>0, WireGrows
<1>2. Accepted(q) \in Nat
  BY <1>0 DEF Accepted, LinkInv, StreamOK
<1>3. CASE SameStream(q)
  BY <1>0, <1>1, <1>2, <1>3 DEF SameStream, Contiguous, Accepted
<1>4. CASE q # p
  <2>1. SameStream(q)
    BY <1>0, <1>4, OtherStill, OtherStream DEF SameStream
  <2> QED BY <1>3, <2>1
<1>5. CASE q = p /\ TakesNext(p)
  <2> DEFINE a == Accepted(p)
             b == info[p].rx_window_bitmap
             r == info[p].rx_seq
  <2>1. /\ Moved(p) /\ NextFrame(p).seq = a /\ a < Len(wire[Other(p)])
        /\ Accepted(p)' = a + 1
    BY <1>2, <1>5 DEF TakesNext, Accepted, LinkInv, StreamOK
  <2>2. info'[p].rx_seq = NextRxSeq(r, a) /\ info'[p].rx_window_bitmap = NextBitmap(r, b, a)
    <3>1. PICK K : info \in [Peers -> Infos(K)]
      BY <1>0 DEF TypeInv
    <3>2. info' = [info EXCEPT ![p] = Slid(info[p], NextFrame(p))]
      BY <2>1 DEF Moved
    <3>3. info'[p] = Slid(info[p], NextFrame(p)) /\ info[p] \in Infos(K)
      BY <3>1, <3>2
    <3> QED BY <2>1, <3>3 DEF Slid, Infos
  <2>3. r = (IF a = 0 THEN 0 ELSE a - 1) /\ b = { k \in Offsets : k < a }
    BY <1>0, <1>5 DEF Contiguous
  <2> HIDE DEF a, b, r
  <2>4. a \in Nat
    BY <1>2, <1>5 DEF a
  <2>5. NextRxSeq(r, a) = a
    BY <2>3, <2>4 DEF NextRxSeq
  <2>6. NextBitmap(r, b, a) = { k \in Offsets : k < a + 1 }
    <3>1. CASE a = 0
      BY <2>3, <3>1 DEF NextBitmap, Offsets
    <3>2. CASE a > 0
      <4>1. r = a - 1 /\ a > r /\ a - r = 1
        BY <2>3, <2>4, <3>2
      <4>2. CASE 1 < WindowSize
        <5>1. NextBitmap(r, b, a) = { k \in Offsets : k - 1 \in b } \cup {0}
          BY <4>1, <4>2 DEF NextBitmap, ShiftLeft
        <5>2. \A k \in Offsets : k - 1 \in b <=> k > 0 /\ k < a + 1
          BY <2>3, <2>4, <4>2 DEF Offsets
        <5>3. 0 \in Offsets /\ \A k \in Offsets : k > 0 \/ k = 0
          BY <4>2 DEF Offsets
        <5> QED BY <2>4, <5>1, <5>2, <5>3
      <4>3. CASE ~(1 < WindowSize)
        <5>1. WindowSize = 1
          BY <4>3
        <5>2. \A k : k \in Offsets <=> k = 0
          BY <5>1 DEF Offsets
        <5>3. NextBitmap(r, b, a) = {0}
          BY <4>1, <4>3 DEF NextBitmap
        <5> QED BY <2>4, <5>2, <5>3
      <4> QED BY <4>2, <4>3
    <3> QED BY <2>4, <3>1, <3>2
  <2>7. /\ Accepted(p)' <= Len(wire'[Other(p)])
        /\ info'[p].rx_seq = IF Accepted(p)' = 0 THEN 0 ELSE Accepted(p)' - 1
        /\ info'[p].rx_window_bitmap = { k \in Offsets : k < Accepted(p)' }
    BY <1>1, <1>5, <2>1, <2>2, <2>4, <2>5, <2>6 DEF a, b, r
  <2> QED BY <1>5, <2>7 DEF Contiguous
<1> QED BY <1>3, <1>4, <1>5, StreamSteps DEF DropsOld

(* A datagram arrives: the frame is old, or joins the buffer. *)
LEMMA FeedFacts ==
    ASSUME TypeInv, LinkInv, NEW p \in Peers, Feeds(p)
    PROVE  \E i \in 1 .. Len(wire[Other(p)]) : \E f :
              /\ f = wire[Other(p)][i]
              /\ utacks'[p] = utacks[p] \cup {Utack(p, f)}
              /\ \/ read_buffer' = read_buffer /\ f.seq <= last_rx_seq[p] - WindowSize
                 \/ /\ Len(read_buffer'[p]) = Len(read_buffer[p]) + 1
                    /\ Len(read_buffer[p]) \in Nat
                    /\ read_buffer'[p][Len(read_buffer[p]) + 1] = f
                    /\ \A k \in 1 .. Len(read_buffer[p]) : read_buffer'[p][k] = read_buffer[p][k]
<1>1. PICK i \in 1 .. Len(wire[Other(p)]) : FeedPacket(p, wire[Other(p)][i])
  BY DEF Feeds
<1> DEFINE f == wire[Other(p)][i]
<1>2. utacks'[p] = utacks[p] \cup {Utack(p, f)}
  BY <1>1 DEF FeedPacket, SendUtack, LinkInv, StreamOK
<1>3. CASE read_buffer' = read_buffer /\ FilterDiscards(p, f)
  BY <1>1, <1>2, <1>3 DEF FilterDiscards
<1>4. CASE read_buffer' = [read_buffer EXCEPT ![p] = Append(@, f)]
  <2>1. PICK F : read_buffer \in [Peers -> Seq(F)]
    BY DEF LinkInv, BufferOK
  <2> HIDE DEF f
  <2>2. read_buffer'[p] = Append(read_buffer[p], f) /\ read_buffer[p] \in Seq(F \cup {f})
    BY <1>4, <2>1, SeqMonotonic
  <2>3. /\ Len(read_buffer'[p]) = Len(read_buffer[p]) + 1
        /\ Len(read_buffer[p]) \in Nat
        /\ read_buffer'[p][Len(read_buffer[p]) + 1] = f
        /\ \A k \in 1 .. Len(read_buffer[p]) : read_buffer'[p][k] = read_buffer[p][k]
    BY <2>2, AppendProperties, LenProperties
  <2> QED BY <1>2, <2>3 DEF f
<1> QED BY <1>1, <1>3, <1>4 DEF FeedPacket

(* The buffer after its head was consumed. *)
LEMMA ShiftFacts ==
    ASSUME LinkInv, NEW p \in Peers, read_buffer[p] # << >>,
           read_buffer'[p] = Tail(read_buffer[p])
    PROVE  /\ Len(read_buffer[p]) \in Nat \ {0}
           /\ Len(read_buffer'[p]) = Len(read_buffer[p]) - 1
           /\ NextFrame(p) = read_buffer[p][1]
           /\ \A k \in 1 .. Len(read_buffer'[p]) : read_buffer'[p][k] = read_buffer[p][k + 1]
<1>1. PICK F : read_buffer \in [Peers -> Seq(F)]
  BY DEF LinkInv, BufferOK
<1>2. read_buffer[p] \in Seq(F)
  BY <1>1
<1>3. /\ Len(Tail(read_buffer[p])) = Len(read_buffer[p]) - 1
      /\ \A k \in 1 .. Len(Tail(read_buffer[p])) : Tail(read_buffer[p])[k] = read_buffer[p][k + 1]
  BY <1>2, TailFacts
<1>4. NextFrame(p) = read_buffer[p][1] /\ Len(read_buffer[p]) \in Nat \ {0}
  BY HeadFacts DEF LinkInv
<1> QED BY <1>3, <1>4

(* A frame that has arrived stays so: it leaves the buffer only when it is *)
(* taken, or was taken before, unless recv() raises.                       *)
LEMMA ArrivedKept ==
    ASSUME UdpInv, ChannelInv, NEW p \in Peers, UdpEffect(p), Undisturbed', NEW q \in Peers,
           error'[q] = "none", NEW n \in Nat, Arrived(q, n)
    PROVE  Arrived(q, n)'
<1>0. TypeInv /\ LinkInv /\ ~faulted'
  BY Quiet DEF UdpInv, PairInv, NonceInv
<1>1. Accepted(q) \in Nat
  BY <1>0 DEF Accepted, LinkInv, StreamOK
<1>2. CASE read_buffer'[q] = read_buffer[q] /\ last_rx_seq'[q] = last_rx_seq[q]
  BY <1>2 DEF Arrived, Accepted
<1>3. CASE q # p
  BY <1>0, <1>2, <1>3, OtherStream
<1>4. CASE q = p /\ Feeds(p) /\ SameStream(p)
  <2>1. PICK i \in 1 .. Len(wire[Other(p)]) : \E f :
              \/ read_buffer' = read_buffer /\ f.seq <= last_rx_seq[p] - WindowSize
              \/ /\ Len(read_buffer'[p]) = Len(read_buffer[p]) + 1
                 /\ Len(read_buffer[p]) \in Nat
                 /\ \A k \in 1 .. Len(read_buffer[p]) : read_buffer'[p][k] = read_buffer[p][k]
    BY <1>0, <1>4, FeedFacts
  <2>2. last_rx_seq'[p] = last_rx_seq[p]
    BY <1>4 DEF SameStream
  <2>3. CASE read_buffer' = read_buffer
    BY <1>2, <1>4, <2>2, <2>3
  <2>4. CASE /\ Len(read_buffer'[p]) = Len(read_buffer[p]) + 1
             /\ Len(read_buffer[p]) \in Nat
             /\ \A k \in 1 .. Len(read_buffer[p]) : read_buffer'[p][k] = read_buffer[p][k]
    <3>1. CASE n < Accepted(p)
      BY <1>4, <2>2, <3>1 DEF Arrived, Accepted
    <3>2. CASE ~(n < Accepted(p))
      <4>1. PICK k \in 1 .. Len(read_buffer[p]) : read_buffer[p][k].seq = n
        BY <1>4, <3>2 DEF Arrived
      <4>2. k \in 1 .. Len(read_buffer'[p]) /\ read_buffer'[p][k].seq = n
        BY <2>4, <4>1
      <4> QED BY <1>4, <4>2 DEF Arrived
    <3> QED BY <3>1, <3>2
  <2> QED BY <2>1, <2>3, <2>4
<1>5. CASE q = p /\ (DropsOld(p) \/ TakesNext(p))
  <2>1. /\ Len(read_buffer[p]) \in Nat \ {0}
        /\ Len(read_buffer'[p]) = Len(read_buffer[p]) - 1
        /\ NextFrame(p) = read_buffer[p][1]
        /\ \A k \in 1 .. Len(read_buffer'[p]) : read_buffer'[p][k] = read_buffer[p][k + 1]
    BY <1>0, <1>5, ShiftFacts DEF DropsOld, TakesNext
  <2>2. /\ Accepted(p)' >= Accepted(p) /\ NextFrame(p).seq < Accepted(p)'
        /\ Accepted(p)' \in Nat /\ NextFrame(p).seq \in Int
    <3>1. NextFrame(p).seq \in Int /\ last_rx_seq[p] \in Int
      BY <1>0, <1>5, HeadFacts DEF DropsOld, TakesNext, LinkInv, FrameOK, StreamOK
    <3> QED BY <1>1, <1>5, <3>1 DEF DropsOld, TakesNext, SameStream, Accepted
  <2>3. CASE n < Accepted(p)
    <3>1. n < Accepted(p)'
      BY <1>1, <1>5, <2>2, <2>3
    <3> QED BY <1>5, <3>1 DEF Arrived
  <2>4. CASE ~(n < Accepted(p))
    <3>1. PICK k \in 1 .. Len(read_buffer[p]) : read_buffer[p][k].seq = n
      BY <1>5, <2>4 DEF Arrived
    <3>2. CASE k = 1
      <4>1. n < Accepted(p)'
        BY <2>1, <2>2, <3>1, <3>2
      <4> QED BY <1>5, <4>1 DEF Arrived
    <3>3. CASE k # 1
      <4>1. k - 1 \in 1 .. Len(read_buffer'[p]) /\ k - 1 + 1 = k
        BY <2>1, <3>1, <3>3
      <4>2. read_buffer'[p][k - 1].seq = n
        BY <2>1, <3>1, <4>1
      <4> QED BY <1>5, <4>1, <4>2 DEF Arrived
    <3> QED BY <3>2, <3>3
  <2> QED BY <2>3, <2>4
<1>6. CASE q = p /\ SameStream(p) /\ read_buffer' = read_buffer
  BY <1>2, <1>6 DEF SameStream
<1> QED BY <1>3, <1>4, <1>5, <1>6, StreamSteps

(* A recv() that has raised has raised for good. *)
LEMMA QuitNext ==
    ASSUME UdpInv, ChannelInv, NEW p \in Peers, UdpEffect(p), Undisturbed', NEW q \in Peers
    PROVE  Quit(q)' /\ (error'[q] = "none" => error[q] = "none")
<1>0. TypeInv /\ LinkInv /\ ~faulted' /\ Quit(q)
  BY Quiet DEF UdpInv, PairInv, NonceInv, ChannelInv
<1>1. CASE q # p
  <2>1. recv'[q] = recv[q] /\ error'[q] = error[q]
    BY <1>0, <1>1, OtherStill, OtherStream
  <2> QED BY <1>0, <2>1 DEF Quit
<1>2. CASE q = p
  <2>1. /\ WireOK /\ BufferOK /\ CallsOK
        /\ recv \in [Peers -> RecvCalls] /\ \E X : error \in [Peers -> X]
    BY <1>0 DEF LinkInv, CallsOK
  <2>2. CASE UNCHANGED recvVars
    BY <1>0, <2>2 DEF recvVars, Quit
  <2>3. CASE Fails(p)
    <3>1. recv'[p] = NotReceiving /\ error'[p] # "none"
      BY <2>1, <2>3 DEF Fails, Raises
    <3> QED BY <1>2, <3>1 DEF Quit, NotReceiving
  <2>4. CASE UNCHANGED error /\ error[p] = "none"
    BY <1>2, <2>4 DEF Quit
  <2>5. ASSUME NEW r, Continues(p, r), recv[p].pc # "idle" \/ error[p] = "none"
        PROVE  Quit(q)' /\ (error'[q] = "none" => error[q] = "none")
    BY <1>0, <1>2, <2>5 DEF Continues, Quit
  <2>6. CASE Calls(p) \/ WritesOut(p) \/ CallEnds(p) \/ Feeds(p) \/ Acks(p) \/ Retransmit(p)
    BY <2>2, <2>6 DEF Calls, WritesOut, CallEnds, Feeds, Acks, Retransmit
  <2>7. CASE PongEnds(p)
    <3>1. recv[p].pc # "idle"
      BY <2>7 DEF PongEnds
    <3> QED BY <2>3, <2>5, <2>7, <3>1 DEF PongEnds
  <2>8. CASE Restarts(p)
    BY <2>2, <2>3, <2>5, <2>8 DEF Restarts
  <2>9. CASE Skips(p)
    BY <2>2, <2>3, <2>9 DEF Skips
  <2>10. CASE Reads(p) \/ Delivers(p) \/ Answers(p)
    <3>1. recv[p].pc = "reading" /\ error[p] = "none"
      BY <1>0, <1>2, <2>10 DEF Reads, Delivers, Answers, Takes, Quit
    <3>2. Fails(p) \/ UNCHANGED error
      BY <2>10 DEF Reads, Proceeds, Delivers, Returns, Answers, Continues
    <3> QED BY <2>3, <2>4, <3>1, <3>2
  <2> QED BY <2>6, <2>7, <2>8, <2>9, <2>10, Quiet DEF UdpEffect
<1> QED BY <1>1, <1>2

LEMMA NoGapNext ==
    ASSUME UdpInv, ChannelInv, NEW p \in Peers, UdpEffect(p), Undisturbed', NEW q \in Peers
    PROVE  NoGap(q)'
<1> USE PeerFacts
<1>0. TypeInv /\ LinkInv /\ ~faulted' /\ NoGap(q) /\ Landed(Other(q)) /\ Numbered(Other(q))
  BY Quiet DEF UdpInv, PairInv, NonceInv, ChannelInv
<1>1. Accepted(q) \in Nat
  BY <1>0 DEF Accepted, LinkInv, StreamOK
<1> SUFFICES ASSUME error'[q] = "none", NEW k \in 1 .. Len(read_buffer'[q]),
                    NEW n \in 0 .. read_buffer'[q][k].seq - 1
             PROVE  n < Accepted(q)' \/ \E j \in 1 .. k - 1 : read_buffer'[q][j].seq = n
  BY DEF NoGap
<1>2. error[q] = "none"
  BY QuitNext
<1>3. \A l \in 1 .. Len(read_buffer[q]) : \A m \in 0 .. read_buffer[q][l].seq - 1 :
            m < Accepted(q) \/ \E j \in 1 .. l - 1 : read_buffer[q][j].seq = m
  BY <1>0, <1>2 DEF NoGap
<1>4. CASE read_buffer'[q] = read_buffer[q] /\ last_rx_seq'[q] = last_rx_seq[q]
  BY <1>3, <1>4 DEF Accepted
<1>5. CASE q # p
  BY <1>0, <1>4, <1>5, OtherStream
<1>6. CASE q = p /\ SameStream(p) /\ read_buffer' = read_buffer
  BY <1>4, <1>6 DEF SameStream
<1>7. CASE q = p /\ SameStream(p) /\ Feeds(p)
  <2>0. last_rx_seq'[p] = last_rx_seq[p]
    BY <1>7 DEF SameStream
  <2>1. PICK i \in 1 .. Len(wire[Other(p)]) : \E f :
            /\ f = wire[Other(p)][i]
            /\ \/ read_buffer' = read_buffer
               \/ /\ Len(read_buffer'[p]) = Len(read_buffer[p]) + 1
                  /\ Len(read_buffer[p]) \in Nat
                  /\ read_buffer'[p][Len(read_buffer[p]) + 1] = f
                  /\ \A l \in 1 .. Len(read_buffer[p]) : read_buffer'[p][l] = read_buffer[p][l]
    BY <1>0, <1>7, FeedFacts
  <2>2. CASE read_buffer' = read_buffer
    BY <1>4, <1>7, <2>0, <2>2
  <2>3. CASE /\ Len(read_buffer'[p]) = Len(read_buffer[p]) + 1
             /\ Len(read_buffer[p]) \in Nat
             /\ read_buffer'[p][Len(read_buffer[p]) + 1] = wire[Other(p)][i]
             /\ \A l \in 1 .. Len(read_buffer[p]) : read_buffer'[p][l] = read_buffer[p][l]
    <3>1. n < Accepted(p) \/ \E j \in 1 .. k - 1 : j \in 1 .. Len(read_buffer[p]) /\ read_buffer[p][j].seq = n
      <4>1. CASE k \in 1 .. Len(read_buffer[p])
        <5>1. read_buffer'[p][k] = read_buffer[p][k]
          BY <2>3, <4>1
        <5>2. n \in 0 .. read_buffer[p][k].seq - 1
          BY <1>7, <5>1
        <5>3. \A j \in 1 .. k - 1 : j \in 1 .. Len(read_buffer[p])
          BY <2>3, <4>1
        <5>4. n < Accepted(p) \/ \E j \in 1 .. k - 1 : read_buffer[p][j].seq = n
          BY <1>3, <1>7, <4>1, <5>2
        <5> QED BY <5>3, <5>4, Zenon
      <4>2. CASE k = Len(read_buffer[p]) + 1
        <5>1. read_buffer'[p][k].seq = i - 1
          BY <1>0, <1>7, <2>3, <4>2 DEF Numbered
        <5>2. Len(wire[Other(p)]) \in Nat
          BY <1>0, LenProperties DEF TypeInv
        <5>3. n \in 0 .. Len(wire[Other(p)]) - 2
          BY <1>7, <5>1, <5>2
        <5>4. Arrived(p, n)
          BY <1>0, <1>2, <1>7, <5>3 DEF Landed
        <5>5. 1 .. k - 1 = 1 .. Len(read_buffer[p])
          BY <2>3, <4>2
        <5> QED BY <5>4, <5>5 DEF Arrived
      <4> QED BY <1>7, <2>3, <4>1, <4>2
    <3>2. CASE n < Accepted(p)
      BY <1>7, <2>0, <3>2 DEF Accepted
    <3>3. CASE ~(n < Accepted(p))
      <4>1. PICK j \in 1 .. k - 1 : j \in 1 .. Len(read_buffer[p]) /\ read_buffer[p][j].seq = n
        BY <3>1, <3>3
      <4>2. read_buffer'[q][j].seq = n
        BY <1>7, <2>3, <4>1
      <4> QED BY <4>1, <4>2
    <3> QED BY <3>2, <3>3
  <2> QED BY <2>1, <2>2, <2>3
<1>8. CASE q = p /\ (DropsOld(p) \/ TakesNext(p))
  <2>1. /\ Len(read_buffer[p]) \in Nat \ {0}
        /\ Len(read_buffer'[p]) = Len(read_buffer[p]) - 1
        /\ NextFrame(p) = read_buffer[p][1]
        /\ \A l \in 1 .. Len(read_buffer'[p]) : read_buffer'[p][l] = read_buffer[p][l + 1]
    BY <1>0, <1>8, ShiftFacts DEF DropsOld, TakesNext
  <2>2. /\ Accepted(p)' >= Accepted(p) /\ NextFrame(p).seq < Accepted(p)'
        /\ Accepted(p)' \in Nat /\ NextFrame(p).seq \in Int
    <3>1. NextFrame(p).seq \in Int /\ last_rx_seq[p] \in Int
      BY <1>0, <1>8, HeadFacts DEF DropsOld, TakesNext, LinkInv, FrameOK, StreamOK
    <3> QED BY <1>1, <1>8, <3>1 DEF DropsOld, TakesNext, SameStream, Accepted
  <2>3. k + 1 \in 1 .. Len(read_buffer[p]) /\ n \in 0 .. read_buffer[p][k + 1].seq - 1
    BY <1>8, <2>1
  <2>4. n < Accepted(p) \/ \E j \in 1 .. k + 1 - 1 : read_buffer[p][j].seq = n
    BY <1>3, <1>8, <2>3
  <2>5. CASE n < Accepted(p)
    BY <1>1, <1>8, <2>2, <2>5
  <2>6. CASE ~(n < Accepted(p))
    <3>1. PICK j \in 1 .. k + 1 - 1 : read_buffer[p][j].seq = n
      BY <2>4, <2>6
    <3>2. CASE j = 1
      BY <1>8, <2>1, <2>2, <3>1, <3>2
    <3>3. CASE j # 1
      <4>1. j - 1 \in 1 .. k - 1 /\ j - 1 + 1 = j
        BY <3>1, <3>3
      <4>3. j - 1 \in 1 .. Len(read_buffer'[p])
        BY <1>8, <2>1, <4>1
      <4>2. read_buffer'[q][j - 1].seq = n
        BY <1>8, <2>1, <3>1, <4>1, <4>3
      <4> QED BY <4>1, <4>2
    <3> QED BY <3>2, <3>3
  <2> QED BY <2>5, <2>6
<1> QED BY <1>5, <1>6, <1>7, <1>8, StreamSteps

(* A frame is written only once the one before it has arrived. *)
LEMMA BeforeWrite ==
    ASSUME UdpInv, ChannelInv, NEW p \in Peers, WritesOut(p), error[Other(p)] = "none",
           Len(wire[p]) # 0
    PROVE  Arrived(Other(p), Len(wire[p]) - 1)
<1>1. PICK t \in Callers : \E c : Writes(p, t, c) /\ (task[p][t].pc = "drain" => acked[p])
  BY DEF WritesOut
<1>2. Landed(p) /\ QueueInv
  BY DEF ChannelInv, UdpInv, PairInv, NonceInv
<1>3. HasLock(p, t) /\ (task[p][t].pc = "lock" \/ acked[p])
  BY <1>1 DEF Writes
<1>4. task[p][t].pc = "lock" => \A u \in Callers : task[p][u].pc # "drain"
  BY <1>2, <1>3 DEF QueueInv, HasLock
<1> QED BY <1>2, <1>3, <1>4 DEF Landed

(* A drain ends with an acknowledgement. *)
LEMMA AfterDrain ==
    ASSUME UdpInv, ChannelInv, NEW p \in Peers, UdpEffect(p), ~WritesOut(p), Undisturbed',
           error[Other(p)] = "none", Len(wire[p]) # 0,
           (\A t \in Callers : task'[p][t].pc # "drain") \/ acked'[p]
    PROVE  Arrived(Other(p), Len(wire[p]) - 1)
<1>0. TypeInv /\ LinkInv /\ ~faulted' /\ ~Rekeys(p) /\ ~Accepts(p) /\ Landed(p) /\ Numbered(p)
  BY Quiet DEF UdpInv, PairInv, NonceInv, ChannelInv
<1>1. RecvTask \in Callers /\ \A t \in Tasks : t \in Callers
  BY DEF Callers
<1>2. Len(wire[p]) \in Nat /\ acked \in [Peers -> BOOLEAN]
  BY <1>0, LenProperties DEF TypeInv, LinkInv, StreamOK
<1>3. CASE \/ \A t \in Callers : task[p][t].pc # "drain"
           \/ acked[p]
  BY <1>0, <1>3 DEF Landed
<1>4. CASE Acks(p)
  <2>1. PICK u \in utacks[Other(p)] : FeedUtack(p, u)
    BY <1>4 DEF Acks
  <2>2. u.seq = wire[p][Len(wire[p])].seq
    BY <2>1 DEF FeedUtack, Pending
  <2>3. u.seq = Len(wire[p]) - 1
    BY <1>0, <1>2, <2>2 DEF Numbered
  <2> QED BY <1>0, <2>1, <2>3 DEF Landed
<1>5. CASE CallEnds(p) \/ PongEnds(p)
  <2>1. PICK t \in Callers : Ends(p, t)
    BY <1>1, <1>5 DEF CallEnds, PongEnds
  <2>2. acked[p]
    BY <1>0, <2>1 DEF Ends
  <2> QED BY <1>3, <2>2
<1>6. CASE Calls(p) \/ Answers(p)
  <2>1. PICK t, op, data : t \in Callers /\ Joins(p, t, op, data)
    BY <1>1, <1>6 DEF Calls, Draws, Answers
  <2>2. \A u \in Callers : task[p][u].pc = "drain" => task'[p][u].pc = "drain"
    <3>1. task[p][t].pc = "idle" /\ \A u \in Callers : u # t => task'[p][u] = task[p][u]
      BY <1>0, <2>1, JoinFacts
    <3> QED BY <3>1
  <2>3. acked' = acked
    BY <1>6 DEF Calls, streamVars, Answers, Takes
  <2> QED BY <1>3, <2>2, <2>3
<1>7. CASE Feeds(p) \/ Retransmit(p) \/ Skips(p)
  BY <1>3, <1>7 DEF Feeds, FeedPacket, Retransmit, Skips, sessionVars
<1>8. CASE Restarts(p) \/ Reads(p) \/ Delivers(p)
  BY <1>3, <1>8 DEF Restarts, Reads, Delivers, Takes, Stands, streamVars
<1> QED BY <1>0, <1>4, <1>5, <1>6, <1>7, <1>8 DEF UdpEffect

LEMMA LandedNext ==
    ASSUME UdpInv, ChannelInv, NEW p \in Peers, UdpEffect(p), Undisturbed', NEW q \in Peers
    PROVE  Landed(q)'
<1> USE PeerFacts
<1> DEFINE o == Other(q)
           L == Len(wire[q])
<1>0. TypeInv /\ LinkInv /\ ~faulted' /\ Landed(q) /\ Numbered(q)
  BY Quiet DEF UdpInv, PairInv, NonceInv, ChannelInv
<1> SUFFICES ASSUME error'[o] = "none"
             PROVE  /\ \A n \in 0 .. Len(wire'[q]) - 2 : Arrived(o, n)'
                    /\ (\A t \in Callers : task'[q][t].pc # "drain") \/ acked'[q] =>
                          Len(wire'[q]) = 0 \/ \A n : n = Len(wire'[q]) - 1 => Arrived(o, n)'
                    /\ \A u \in utacks'[o] : \A n : n = u.seq => n \in 0 .. Len(wire'[q]) - 1 /\ Arrived(o, n)'
  BY DEF Landed
<1>1. error[o] = "none" /\ o \in Peers
  BY QuitNext
<1>2. /\ \A n \in 0 .. L - 2 : Arrived(o, n)
      /\ (\A t \in Callers : task[q][t].pc # "drain") \/ acked[q] => L = 0 \/ Arrived(o, L - 1)
      /\ \A u \in utacks[o] : u.seq \in 0 .. L - 1 /\ Arrived(o, u.seq)
  BY <1>0, <1>1 DEF Landed
<1>3. \A n \in Nat : Arrived(o, n) => Arrived(o, n)'
  BY <1>1, ArrivedKept
<1>4. L \in Nat
  BY <1>0, LenProperties DEF TypeInv
<1>5. CASE q = p /\ WritesOut(p)
  <2>1. PICK t, c : t \in Callers /\ Writes(p, t, c)
    BY <1>5 DEF WritesOut
  <2>2. task'[p][t].pc = "drain" /\ Longer(wire[p], wire'[p], SealedFrame(p, c))
    BY <1>0, <2>1, WriteFacts
  <2>3. acked'[q] = FALSE /\ utacks' = utacks
    BY <1>0, <1>5 DEF WritesOut, Transmit, LinkInv, StreamOK
  <2>4. Len(wire'[q]) \in Nat /\ Len(wire'[q]) <= L + 1 /\ L <= Len(wire'[q])
    <3>1. Len(wire'[p]) \in Nat /\ Len(wire[p]) \in Nat /\ Len(wire[p]) <= Len(wire'[p])
          /\ \A i \in 1 .. Len(wire'[p]) : i \in 1 .. Len(wire[p]) \/ i = Len(wire[p]) + 1
      BY <2>2 DEF Longer
    <3>2. Len(wire'[p]) = 0 \/ Len(wire'[p]) \in 1 .. Len(wire'[p])
      BY <3>1
    <3> QED BY <1>5, <3>1, <3>2
  <2>5. ASSUME NEW n \in 0 .. Len(wire'[q]) - 2 PROVE Arrived(o, n)'
    <3>1. n \in 0 .. L - 2 \/ (n = L - 1 /\ L # 0)
      BY <1>4, <2>4
    <3>2. L # 0 => Arrived(o, L - 1)
      BY <1>1, <1>5, BeforeWrite
    <3>3. Arrived(o, n) /\ n \in Nat
      BY <1>2, <1>4, <3>1, <3>2
    <3> QED BY <1>3, <3>3
  <2>6. ASSUME NEW u \in utacks'[o], NEW n, n = u.seq
        PROVE  n \in 0 .. Len(wire'[q]) - 1 /\ Arrived(o, n)'
    <3>1. n \in 0 .. L - 1 /\ Arrived(o, n)
      BY <1>2, <2>3, <2>6
    <3> QED BY <1>3, <1>4, <2>4, <3>1
  <2> QED BY <1>5, <2>1, <2>2, <2>3, <2>5, <2>6
<1>6. CASE q = p /\ ~WritesOut(p)
  <2>1. wire' = wire
    BY <1>0, <1>6, SameWire
  <2>2. utacks'[o] = utacks[o]
    BY <1>0, <1>6, OtherStream
  <2>3. (\A t \in Callers : task'[q][t].pc # "drain") \/ acked'[q] => L = 0 \/ Arrived(o, L - 1)
    BY <1>1, <1>6, AfterDrain
  <2>4. \A n \in 0 .. L - 2 : Arrived(o, n)'
    BY <1>2, <1>3, <1>4
  <2>5. L # 0 /\ Arrived(o, L - 1) => \A n : n = L - 1 => Arrived(o, n)'
    <3>1. L # 0 => L - 1 \in Nat
      BY <1>4
    <3> QED BY <1>3, <3>1
  <2>6. \A u \in utacks[o] : \A n : n = u.seq => n \in 0 .. L - 1 /\ Arrived(o, n)'
    BY <1>2, <1>3, <1>4
  <2> QED BY <2>1, <2>2, <2>3, <2>4, <2>5, <2>6
<1>7. CASE q # p
  <2>1. o = p
    BY <1>7 DEF Peers, Other
  <2>2. wire'[q] = wire[q] /\ acked'[q] = acked[q] /\ \A t \in Callers : task'[q][t] = task[q][t]
    BY <1>0, <1>7, OtherStream, OtherStill
  <2>4. \A n \in 0 .. L - 2 : Arrived(o, n)'
    BY <1>2, <1>3, <1>4
  <2>5. L # 0 /\ Arrived(o, L - 1) => \A n : n = L - 1 => Arrived(o, n)'
    <3>1. L # 0 => L - 1 \in Nat
      BY <1>4
    <3> QED BY <1>3, <3>1
  <2>6. ASSUME NEW u \in utacks'[o], NEW n, n = u.seq
        PROVE  n \in 0 .. L - 1 /\ Arrived(o, n)'
    <3>1. CASE u \in utacks[o]
      <4>1. n \in 0 .. L - 1 /\ Arrived(o, n)
        BY <1>2, <2>6, <3>1
      <4> QED BY <1>3, <1>4, <4>1
    <3>2. CASE u \notin utacks[o]
      <4>1. Feeds(p)
        <5>1. UNCHANGED utacks \/ Feeds(p)
          BY Quiet DEF UdpEffect, Calls, WritesOut, Transmit, CallEnds, PongEnds, Ends, Acks, FeedUtack,
             Retransmit, Restarts, Skips, Reads, Delivers, Answers, Takes, streamVars
        <5> QED BY <2>6, <3>2, <5>1
      <4>2. PICK i \in 1 .. Len(wire[q]) : \E f :
                /\ f = wire[q][i]
                /\ utacks'[p] = utacks[p] \cup {Utack(p, f)}
                /\ \/ read_buffer' = read_buffer /\ f.seq <= last_rx_seq[p] - WindowSize
                   \/ /\ Len(read_buffer'[p]) = Len(read_buffer[p]) + 1
                      /\ Len(read_buffer[p]) \in Nat
                      /\ read_buffer'[p][Len(read_buffer[p]) + 1] = f
        <5>1. Other(p) = q
          BY <2>1
        <5> QED BY <1>0, <4>1, <5>1, FeedFacts
      <4>3. n = i - 1
        <5>1. u = Utack(p, wire[q][i])
          BY <2>1, <2>6, <3>2, <4>2
        <5> QED BY <1>0, <2>6, <5>1 DEF Utack, Numbered
      <4>4. n \in 0 .. L - 1
        BY <1>4, <4>3
      <4>5. Arrived(p, n)'
        <5>1. wire[q][i].seq = n /\ last_rx_seq[p] \in Int
          BY <1>0, <4>3 DEF Numbered, LinkInv, StreamOK
        <5>2. CASE wire[q][i].seq <= last_rx_seq[p] - WindowSize
          <6>1. n < Accepted(p)
            BY <5>1, <5>2, UdpAssumption, <4>4 DEF Accepted
          <6>2. Arrived(p, n) /\ n \in Nat
            BY <4>4, <6>1 DEF Arrived
          <6> QED BY <1>3, <2>1, <6>2
        <5>3. CASE /\ Len(read_buffer'[p]) = Len(read_buffer[p]) + 1
                   /\ Len(read_buffer[p]) \in Nat
                   /\ read_buffer'[p][Len(read_buffer[p]) + 1] = wire[q][i]
          <6>1. Len(read_buffer[p]) + 1 \in 1 .. Len(read_buffer'[p])
            BY <5>3
          <6>2. \E k \in 1 .. Len(read_buffer'[p]) : read_buffer'[p][k].seq = n
            BY <5>1, <5>3, <6>1
          <6> QED BY <6>2 DEF Arrived
        <5> QED BY <4>2, <5>2, <5>3
      <4> QED BY <2>1, <4>4, <4>5
    <3> QED BY <3>1, <3>2
  <2>7. (\A t \in Callers : task'[q][t].pc # "drain") \/ acked'[q] => L = 0 \/ Arrived(o, L - 1)
    BY <1>2, <2>2
  <2> QED BY <2>2, <2>4, <2>5, <2>6, <2>7
<1> QED BY <1>5, <1>6, <1>7

LEMMA ChannelNext ==
    ASSUME UdpInv, ChannelInv, [UdpNext]_vars, Undisturbed'
    PROVE  ChannelInv'
<1>1. PICK p \in Peers : UdpEffect(p)
  BY UdpStep
<1> SUFFICES ASSUME NEW q \in Peers
             PROVE  /\ FirstKeys(q)' /\ Numbered(q)' /\ NextNumber(q)' /\ Contiguous(q)'
                    /\ NoGap(q)' /\ Landed(q)' /\ Quit(q)'
  BY DEF ChannelInv
<1>2. FirstKeys(q)
  BY DEF ChannelInv
<1> QED BY <1>1, <1>2, KeysNext, NumbersNext, ContiguousNext, NoGapNext, LandedNext, QuitNext

-----------------------------------------------------------------------------
(* Messages.  Number the frames of a peer: after frame i, N[i] messages    *)
(* are on the wire whole, and K[i] chunks of the next one.                 *)
Counts(N) == N \in [Nat -> Nat]

Marks(X) == X \in [Callers -> Nat]

At(k) == k * ChunkLen

MaxLen == ChunkLen * MaxFrames

(* Frame f carries bytes of message n, from the end of its first k chunks. *)
Piece(o, f, n, k) ==
    /\ n \in 1 .. Len(sent[o])
    /\ \A x \in 1 .. Len(f.body) : f.body[x] = <<sent[o][n], At(k) + x>>

FrameAt(o, N, K, i) ==
    \/ /\ wire[o][i].type = "DATA_FRAG"
       /\ Piece(o, wire[o][i], N[i - 1] + 1, K[i - 1])
       /\ Len(wire[o][i].body) = ChunkLen /\ K[i - 1] + 1 < MaxFrames
       /\ N[i] = N[i - 1] /\ K[i] = K[i - 1] + 1
    \/ /\ wire[o][i].type = "DATA"
       /\ Piece(o, wire[o][i], N[i - 1] + 1, K[i - 1])
       /\ At(K[i - 1]) + Len(wire[o][i].body) = MsgLen[sent[o][N[i - 1] + 1]]
       /\ N[i] = N[i - 1] + 1 /\ K[i] = 0
    \/ /\ ~IsData(wire[o][i])
       /\ N[i] = N[i - 1] /\ K[i - 1] = 0 /\ K[i] = 0

Frames(o, N, K) ==
    /\ N[0] = 0 /\ K[0] = 0
    /\ \A i \in 1 .. Len(wire[o]) : FrameAt(o, N, K, i)

(* A send() between two of its frames, and one that is not all written. *)
Mid(o, t) == task[o][t].pc = "drain" /\ MoreFragments(task[o][t])

Unsent(o, t) == Mid(o, t) \/ (task[o][t].op = "DATA" /\ task[o][t].pc = "lock")

(* The calls of send() that are not all written hold the messages that are *)
(* not all on the wire, in the order of the lock's queue; X says which     *)
(* call holds which.                                                       *)
Holds(o, N, X, t) ==
    /\ X[t] \in N[Len(wire[o])] + 1 .. Len(sent[o])
    /\ task[o][t].data = Payload(sent[o][X[t]])
    /\ MsgLen[sent[o][X[t]]] <= MaxLen

Before(o, a, b) ==
    \E i, j \in 1 .. Len(send_lock[o]) : i < j /\ send_lock[o][i] = a /\ send_lock[o][j] = b

Ordered(o, X) ==
    \A a, b \in Callers : Before(o, a, b) /\ Unsent(o, a) /\ Unsent(o, b) => X[a] < X[b]

HeldBy(o, X, n) == \E t \in Callers : Unsent(o, t) /\ X[t] = n

(* How far the message is that is half on the wire. *)
Half(o, K) ==
    /\ \A t \in Callers : Mid(o, t) =>
          ChunkEnd(task[o][t].data, task[o][t].offset) = At(K[Len(wire[o])])
    /\ K[Len(wire[o])] = 0 \/ \E t \in Callers : Mid(o, t)

Sender(o, N, K, X) ==
    ~transport_closed[o] =>
        /\ N[Len(wire[o])] <= Len(sent[o])
        /\ \A t \in Callers : Unsent(o, t) => Holds(o, N, X, t)
        /\ Ordered(o, X)
        /\ \A n \in N[Len(wire[o])] + 1 .. Len(sent[o]) : HeldBy(o, X, n)
        /\ Half(o, K)

(* recv() has returned the messages that were whole when the last frame it *)
(* took was written, and holds the chunks of the next one.                 *)
Partial(p, N, K) ==
    LET j == Accepted(p)
        o == Other(p)
    IN  /\ Len(delivered[p]) = N[j]
        /\ recv[p].frame_count = K[j]
        /\ K[j] > 0 => recv[p].expected_frag_seq = j /\ recv[p].pc # "idle"
        /\ Len(recv[p].payload) = At(K[j])
        /\ \A x \in 1 .. Len(recv[p].payload) :
              /\ N[j] + 1 \in 1 .. Len(sent[o])
              /\ recv[p].payload[x] = <<sent[o][N[j] + 1], x>>

Whole(p) ==
    /\ Len(delivered[p]) <= Len(sent[Other(p)])
    /\ \A n \in 1 .. Len(delivered[p]) : delivered[p][n] = Payload(sent[Other(p)][n])

Receiver(p, N, K) == Whole(p) /\ (error[p] = "none" => Partial(p, N, K))

Carried(o) ==
    \E N, K, X :
        /\ Counts(N) /\ Counts(K) /\ Marks(X)
        /\ Frames(o, N, K) /\ Sender(o, N, K, X) /\ Receiver(Other(o), N, K)

OrderInv == \A o \in Peers : Carried(o)

LEMMA NewMark ==
    ASSUME NEW X, Marks(X), NEW t \in Callers, NEW i \in Nat
    PROVE  \E Y : Marks(Y) /\ Y[t] = i /\ \A u \in Callers : u # t => Y[u] = X[u]
<1> DEFINE Y == [X EXCEPT ![t] = i]
<1>1. Marks(Y) /\ Y[t] = i /\ \A u \in Callers : u # t => Y[u] = X[u]
  BY DEF Marks
<1> QED BY <1>1

LEMMA NewCount ==
    ASSUME NEW N, Counts(N), NEW l \in Nat, NEW i \in Nat
    PROVE  \E M : Counts(M) /\ M[l] = i /\ \A j \in Nat : j # l => M[j] = N[j]
<1> DEFINE M == [N EXCEPT ![l] = i]
<1>1. Counts(M) /\ M[l] = i /\ \A j \in Nat : j # l => M[j] = N[j]
  BY DEF Counts
<1> QED BY <1>1

LEMMA CountAt ==
    ASSUME NEW N, Counts(N), NEW i \in Nat
    PROVE  N[i] \in Nat
BY DEF Counts

LEMMA AtFacts ==
    ASSUME NEW k \in Nat
    PROVE  /\ At(0) = 0 /\ At(k) \in Nat /\ At(k + 1) = At(k) + ChunkLen
           /\ At(k + 1) < MaxLen => k + 1 < MaxFrames
           /\ k > 0 => At(k) > 0
<1>1. ChunkLen \in Nat \ {0} /\ MaxFrames \in Nat \ {0}
  BY LengthAssumption
<1>2. At(0) = 0 /\ At(k) \in Nat /\ At(k + 1) = At(k) + ChunkLen
  BY <1>1 DEF At
<1>3. ASSUME At(k + 1) < MaxLen PROVE k + 1 < MaxFrames
  <2>1. SUFFICES ASSUME MaxFrames <= k + 1 PROVE FALSE
    BY <1>1
  <2>2. PICK d \in Nat : k + 1 = MaxFrames + d
    <3>1. k + 1 - MaxFrames \in Nat /\ k + 1 = MaxFrames + (k + 1 - MaxFrames)
      BY <1>1, <2>1
    <3> QED BY <3>1
  <2>3. (MaxFrames + d) * ChunkLen = ChunkLen * MaxFrames + d * ChunkLen
    BY <1>1
  <2>4. d * ChunkLen >= 0
    BY <1>1
  <2>5. d * ChunkLen \in Int /\ ChunkLen * MaxFrames \in Int
    BY <1>1
  <2> QED BY <1>3, <2>2, <2>3, <2>4, <2>5 DEF At, MaxLen
<1>4. ASSUME k > 0 PROVE At(k) > 0
  BY <1>1, <1>4 DEF At
<1> QED BY <1>2, <1>3, <1>4

(* What is said of sent stays true when it grows. *)
Begins(s, v) == /\ Len(s) \in Nat /\ Len(v) \in Nat /\ Len(s) <= Len(v)
                /\ \A n \in 1 .. Len(s) : v[n] = s[n]

LEMMA BeginsFacts ==
    ASSUME NEW s, NEW v, Begins(s, v)
    PROVE  /\ Len(s) \in Nat /\ Len(v) \in Nat /\ Len(s) <= Len(v)
           /\ \A n \in 1 .. Len(s) : n \in 1 .. Len(v) /\ v[n] = s[n]
BY DEF Begins

LEMMA BeginsAt ==
    ASSUME NEW s, NEW v, Begins(s, v), NEW n \in 1 .. Len(s)
    PROVE  n \in 1 .. Len(v) /\ v[n] = s[n]
BY DEF Begins

LEMMA SentGrows ==
    ASSUME SentOK, NEW p \in Peers, UdpEffect(p), NEW q \in Peers
    PROVE  Begins(sent[q], sent'[q])
<1>1. sent[q] \in Seq(Msgs) /\ Len(sent[q]) \in Nat
  BY LenProperties DEF SentOK
<1>2. CASE sent'[q] = sent[q]
  BY <1>1, <1>2 DEF Begins
<1>3. CASE Calls(p)
  <2>1. PICK op, data : Submits(p, op, data)
    BY <1>3 DEF Calls
  <2>2. CASE UNCHANGED sent
    BY <1>2, <2>2
  <2>3. CASE \E m \in Msgs : sent' = [sent EXCEPT ![p] = Append(@, m)]
    <3>1. PICK m \in Msgs : sent' = [sent EXCEPT ![p] = Append(@, m)]
      BY <2>3
    <3>2. CASE q # p
      BY <1>2, <3>1, <3>2 DEF SentOK
    <3>3. CASE q = p
      <4>1. sent'[q] = Append(sent[q], m)
        BY <3>1, <3>3 DEF SentOK
      <4>2. Len(sent'[q]) = Len(sent[q]) + 1 /\ \A n \in 1 .. Len(sent[q]) : sent'[q][n] = sent[q][n]
        BY <1>1, <4>1, AppendProperties
      <4> QED BY <1>1, <4>2 DEF Begins
    <3> QED BY <3>2, <3>3
  <2> QED BY <2>1, <2>2, <2>3 DEF Submits
<1> QED BY <1>2, <1>3, SameSent

LEMMA FramesKept ==
    ASSUME NEW o \in Peers, NEW N, Counts(N), NEW K, Counts(K), NEW i \in Nat \ {0},
           NEW M, Counts(M), NEW J, Counts(J),
           FrameAt(o, N, K, i), wire'[o][i] = wire[o][i], Begins(sent[o], sent'[o]),
           M[i] = N[i], M[i - 1] = N[i - 1], J[i] = K[i], J[i - 1] = K[i - 1]
    PROVE  FrameAt(o, M, J, i)'
<1>1. ASSUME NEW n, NEW k, Piece(o, wire[o][i], n, k) PROVE Piece(o, wire[o][i], n, k)'
  <2>1. n \in 1 .. Len(sent[o])
    BY <1>1 DEF Piece
  <2>2. n \in 1 .. Len(sent'[o]) /\ sent'[o][n] = sent[o][n]
    BY <2>1, BeginsAt
  <2> QED BY <1>1, <2>2 DEF Piece
<1>2. CASE wire[o][i].type = "DATA_FRAG"
  <2>1. /\ Piece(o, wire[o][i], N[i - 1] + 1, K[i - 1])
        /\ Len(wire[o][i].body) = ChunkLen /\ K[i - 1] + 1 < MaxFrames
        /\ N[i] = N[i - 1] /\ K[i] = K[i - 1] + 1
    BY <1>2 DEF FrameAt, IsData
  <2> QED BY <1>1, <1>2, <2>1 DEF FrameAt
<1>3. CASE wire[o][i].type = "DATA"
  <2>1. /\ Piece(o, wire[o][i], N[i - 1] + 1, K[i - 1])
        /\ At(K[i - 1]) + Len(wire[o][i].body) = MsgLen[sent[o][N[i - 1] + 1]]
        /\ N[i] = N[i - 1] + 1 /\ K[i] = 0
    BY <1>3 DEF FrameAt, IsData
  <2>2. sent'[o][N[i - 1] + 1] = sent[o][N[i - 1] + 1]
    <3>1. N[i - 1] + 1 \in 1 .. Len(sent[o])
      BY <2>1 DEF Piece
    <3>2. ASSUME NEW n \in 1 .. Len(sent[o])
          PROVE  n \in 1 .. Len(sent'[o]) /\ sent'[o][n] = sent[o][n]
      BY <3>2, BeginsAt
    <3> QED BY <3>1, <3>2, Zenon
  <2> QED BY <1>1, <1>3, <2>1, <2>2 DEF FrameAt
<1>4. CASE ~IsData(wire[o][i])
  BY <1>4 DEF FrameAt, IsData
<1> QED BY <1>2, <1>3, <1>4 DEF IsData

(* The order of the lock's queue. *)
LEMMA HeadFirst ==
    ASSUME TypeInv, QueueInv, NEW p \in Peers, NEW t \in Callers, HasLock(p, t),
           NEW u \in Callers, u # t, task[p][u].pc # "idle"
    PROVE  Before(p, t, u)
<1>1. PICK j \in 1 .. Len(send_lock[p]) : send_lock[p][j] = u
  BY DEF QueueInv, InQueue
<1>2. send_lock[p] \in Seq(Callers) /\ send_lock[p] # << >> /\ Head(send_lock[p]) = t
  BY DEF TypeInv, HasLock
<1>3. send_lock[p][1] = t /\ Len(send_lock[p]) \in Nat
  BY <1>2, HeadTailProperties, LenProperties
<1>4. j # 1 /\ 1 \in 1 .. Len(send_lock[p]) /\ 1 < j
  BY <1>1, <1>3
<1> QED BY <1>1, <1>3, <1>4 DEF Before

LEMMA JoinOrder ==
    ASSUME TypeInv, QueueInv, NEW p \in Peers, NEW t \in Callers, NEW op, NEW data,
           Joins(p, t, op, data), NEW a \in Callers, NEW b \in Callers, Before(p, a, b)'
    PROVE  a # t /\ (Before(p, a, b) \/ b = t)
<1>1. send_lock' = [send_lock EXCEPT ![p] = Append(@, t)] /\ task[p][t].pc = "idle"
  BY DEF Joins, Enqueue
<1>2. send_lock'[p] = Append(send_lock[p], t) /\ send_lock[p] \in Seq(Callers)
  BY <1>1 DEF TypeInv
<1>3. /\ Len(send_lock[p]) \in Nat /\ Len(send_lock'[p]) = Len(send_lock[p]) + 1
      /\ send_lock'[p][Len(send_lock[p]) + 1] = t
      /\ \A i \in 1 .. Len(send_lock[p]) : send_lock'[p][i] = send_lock[p][i]
  BY <1>2, AppendProperties, LenProperties
<1>4. PICK i, j \in 1 .. Len(send_lock'[p]) : i < j /\ send_lock'[p][i] = a /\ send_lock'[p][j] = b
  BY DEF Before
<1>5. i \in 1 .. Len(send_lock[p]) /\ send_lock[p][i] = a
  BY <1>3, <1>4
<1>6. a # t
  BY <1>1, <1>5 DEF QueueInv, InQueue
<1>7. j = Len(send_lock[p]) + 1 \/ (j \in 1 .. Len(send_lock[p]) /\ send_lock[p][j] = b)
  BY <1>3, <1>4
<1> QED BY <1>3, <1>4, <1>5, <1>6, <1>7 DEF Before

LEMMA LeaveOrder ==
    ASSUME TypeInv, QueueInv, NEW p \in Peers, NEW t \in Callers, Leaves(p, t),
           NEW a, NEW b, Before(p, a, b)'
    PROVE  Before(p, a, b)
<1> DEFINE s == send_lock[p]
<1>1. s \in Seq(Callers) /\ Len(s) \in Nat /\ \A i, j \in 1 .. Len(s) : s[i] = s[j] => i = j
  BY LenProperties DEF TypeInv, QueueInv
<1>2. PICK k \in 1 .. Len(s) : s[k] = t
  BY DEF Leaves, QueueInv, InQueue
<1>3. send_lock'[p] = Dequeue(s, s[k])
  BY <1>2 DEF Leaves, Leave, TypeInv
<1> DEFINE r == Dequeue(s, s[k])
<1> HIDE DEF s
<1>9. Len(r) = Len(s) - 1 /\ \A i \in 1 .. Len(r) : r[i] = IF i < k THEN s[i] ELSE s[i + 1]
  BY <1>1, DequeueProperties
<1> HIDE DEF r
<1>4. /\ Len(send_lock'[p]) = Len(s) - 1
      /\ \A i \in 1 .. Len(send_lock'[p]) : send_lock'[p][i] = IF i < k THEN s[i] ELSE s[i + 1]
  BY <1>3, <1>9 DEF r
<1>5. PICK i, j \in 1 .. Len(send_lock'[p]) : i < j /\ send_lock'[p][i] = a /\ send_lock'[p][j] = b
  BY DEF Before
<1>6. PICK l \in {i, i + 1} : l \in 1 .. Len(s) /\ s[l] = a /\ (l = i \/ ~(i < k))
  BY <1>1, <1>4, <1>5
<1>7. PICK m \in {j, j + 1} : m \in 1 .. Len(s) /\ s[m] = b /\ (m = j + 1 \/ j < k)
  BY <1>1, <1>4, <1>5
<1>8. l < m
  BY <1>5, <1>6, <1>7
<1> QED BY <1>6, <1>7, <1>8 DEF Before, s

(* A step that leaves the messages of the sender where they are. *)
LEMMA SenderKept ==
    ASSUME NEW o \in Peers, NEW N, Counts(N), NEW K, Counts(K), NEW X, Marks(X),
           Sender(o, N, K, X), transport_closed[o] => transport_closed'[o],
           wire'[o] = wire[o], sent'[o] = sent[o],
           \A t \in Callers : Unsent(o, t) \/ Unsent(o, t)' => task'[o][t] = task[o][t],
           \A a, b \in Callers : Unsent(o, a) /\ Unsent(o, b) /\ Before(o, a, b)' => Before(o, a, b)
    PROVE  Sender(o, N, K, X)'
<1> SUFFICES ASSUME ~transport_closed'[o]
             PROVE  /\ N[Len(wire'[o])] <= Len(sent'[o])
                    /\ \A t \in Callers : Unsent(o, t)' => Holds(o, N, X, t)'
                    /\ Ordered(o, X)'
                    /\ \A n \in N[Len(wire'[o])] + 1 .. Len(sent'[o]) : HeldBy(o, X, n)'
                    /\ Half(o, K)'
  BY DEF Sender
<1>1. /\ N[Len(wire[o])] <= Len(sent[o])
      /\ \A t \in Callers : Unsent(o, t) => Holds(o, N, X, t)
      /\ Ordered(o, X)
      /\ \A n \in N[Len(wire[o])] + 1 .. Len(sent[o]) : HeldBy(o, X, n)
      /\ Half(o, K)
  BY DEF Sender
<1>2. ASSUME NEW t \in Callers, Unsent(o, t) \/ Unsent(o, t)'
      PROVE  Unsent(o, t) /\ Unsent(o, t)' /\ (Mid(o, t)' <=> Mid(o, t)) /\ task'[o][t] = task[o][t]
  BY <1>2 DEF Unsent, Mid
<1>3. ASSUME NEW t \in Callers, Unsent(o, t)' PROVE Holds(o, N, X, t)'
  BY <1>1, <1>2, <1>3 DEF Holds
<1>4. Ordered(o, X)'
  BY <1>1, <1>2 DEF Ordered
<1>5. ASSUME NEW n \in N[Len(wire'[o])] + 1 .. Len(sent'[o]) PROVE HeldBy(o, X, n)'
  <2>1. HeldBy(o, X, n)
    BY <1>1
  <2> QED BY <1>2, <2>1 DEF HeldBy
<1>6. \A t \in Callers : Mid(o, t) \/ Mid(o, t)' => Mid(o, t) /\ Mid(o, t)' /\ task'[o][t] = task[o][t]
  BY <1>2 DEF Unsent
<1>7. Half(o, K)'
  BY <1>1, <1>6 DEF Half
<1> QED BY <1>1, <1>3, <1>4, <1>5, <1>7

(* The receiver is not the one that moves. *)
LEMMA ReceiverKept ==
    ASSUME NEW p \in Peers, NEW N, Counts(N), NEW K, Counts(K),
           NEW M, Counts(M), NEW J, Counts(J), Receiver(p, N, K),
           recv'[p] = recv[p], delivered'[p] = delivered[p], error'[p] = error[p],
           last_rx_seq'[p] = last_rx_seq[p], Begins(sent[Other(p)], sent'[Other(p)]),
           M[Accepted(p)] = N[Accepted(p)], J[Accepted(p)] = K[Accepted(p)],
           Len(delivered[p]) \in Nat
    PROVE  Receiver(p, M, J)'
<1> DEFINE s == sent[Other(p)]
           v == sent'[Other(p)]
<1>0. /\ Len(s) \in Nat /\ Len(v) \in Nat /\ Len(s) <= Len(v)
      /\ \A n \in 1 .. Len(s) : n \in 1 .. Len(v) /\ v[n] = s[n]
  BY BeginsFacts
<1> HIDE DEF s, v
<1>1. Whole(p)'
  <2>1. Len(delivered[p]) <= Len(s) /\ \A n \in 1 .. Len(delivered[p]) : delivered[p][n] = Payload(s[n])
    BY DEF Receiver, Whole, s
  <2> DEFINE d == Len(delivered[p])
  <2>4. d \in Nat /\ Len(s) \in Nat /\ d <= Len(s)
    BY <1>0, <2>1
  <2> HIDE DEF d
  <2>2. \A n \in 1 .. d : n \in 1 .. Len(s)
    BY <2>4
  <2>3. Len(delivered[p]) <= Len(v) /\ \A n \in 1 .. Len(delivered[p]) : delivered[p][n] = Payload(v[n])
    <3>1. d <= Len(v)
      BY <1>0, <2>4
    <3>2. \A n \in 1 .. d : v[n] = s[n] /\ delivered[p][n] = Payload(s[n])
      BY <1>0, <2>1, <2>2, Zenon DEF d
    <3> QED BY <3>1, <3>2, Zenon DEF d
  <2> QED BY <2>3 DEF Whole, v
<1>2. ASSUME error'[p] = "none" PROVE Partial(p, M, J)'
  <2>1. Accepted(p)' = Accepted(p)
    BY DEF Accepted
  <2>2. Partial(p, N, K)
    BY <1>2 DEF Receiver
  <2> DEFINE j == Accepted(p)
  <2> HIDE DEF j
  <2>3. /\ Len(delivered[p]) = N[j]
        /\ recv[p].frame_count = K[j]
        /\ K[j] > 0 => recv[p].expected_frag_seq = j /\ recv[p].pc # "idle"
        /\ Len(recv[p].payload) = At(K[j])
        /\ \A x \in 1 .. Len(recv[p].payload) :
              N[j] + 1 \in 1 .. Len(s) /\ recv[p].payload[x] = <<s[N[j] + 1], x>>
    BY <2>2 DEF Partial, j, s
  <2>4. \A x \in 1 .. Len(recv[p].payload) :
              N[j] + 1 \in 1 .. Len(v) /\ recv[p].payload[x] = <<v[N[j] + 1], x>>
    BY <1>0, <2>3
  <2>5. M[j] = N[j] /\ J[j] = K[j] /\ Accepted(p)' = j
    BY <2>1 DEF j
  <2> QED BY <2>3, <2>4, <2>5 DEF Partial, v
<1> QED BY <1>1, <1>2 DEF Receiver

(* send() is called: the new message is the last, and so is its call. *)
LEMMA SendJoins ==
    ASSUME TypeInv, QueueInv, SentOK, NEW o \in Peers, NEW t \in Callers, NEW m \in Msgs,
           Joins(o, t, "DATA", Payload(m)), MsgLen[m] <= MaxLen,
           sent' = [sent EXCEPT ![o] = Append(@, m)],
           NEW N, Counts(N), NEW K, Counts(K), NEW X, Marks(X),
           Sender(o, N, K, X)
    PROVE  \E Y : Marks(Y) /\ Sender(o, N, K, Y)'
<1>1. /\ wire' = wire /\ task[o][t].pc = "idle"
      /\ task'[o][t].pc = "lock" /\ task'[o][t].op = "DATA" /\ task'[o][t].data = Payload(m)
      /\ \A u \in Callers : u # t => task'[o][u] = task[o][u]
  BY JoinFacts
<1>2. transport_closed' = transport_closed
  BY DEF Joins, Enqueue
<1>3. CASE transport_closed[o]
  BY <1>2, <1>3 DEF Sender
<1>4. CASE ~transport_closed[o]
  <2> DEFINE S == Len(sent[o])
             n == N[Len(wire[o])]
  <2>1. /\ S \in Nat /\ Len(sent'[o]) = S + 1 /\ sent'[o][S + 1] = m
        /\ \A i \in 1 .. S : sent'[o][i] = sent[o][i]
    <3>1. sent'[o] = Append(sent[o], m) /\ sent[o] \in Seq(Msgs)
      BY DEF SentOK
    <3>2. Len(sent[o]) \in Nat
      BY <3>1, LenProperties
    <3> QED BY <3>1, <3>2, AppendProperties
  <2>2. n \in Nat
    <3>1. Len(wire[o]) \in Nat
      BY LenProperties DEF TypeInv
    <3> QED BY <3>1, CountAt
  <2>3. /\ n <= S
        /\ \A u \in Callers : Unsent(o, u) => Holds(o, N, X, u)
        /\ Ordered(o, X)
        /\ \A i \in n + 1 .. S : HeldBy(o, X, i)
        /\ Half(o, K)
    BY <1>4 DEF Sender
  <2> HIDE DEF S, n
  <2>4. PICK Y : Marks(Y) /\ Y[t] = S + 1 /\ \A u \in Callers : u # t => Y[u] = X[u]
    <3>1. S + 1 \in Nat
      BY <2>1
    <3> QED BY <3>1, NewMark
  <2>5. Y[t] = S + 1 /\ \A u \in Callers : u # t => Y[u] = X[u]
    BY <2>4
  <2>6. /\ ~Unsent(o, t) /\ Unsent(o, t)' /\ ~Mid(o, t) /\ ~Mid(o, t)'
        /\ \A u \in Callers : u # t => (Unsent(o, u)' <=> Unsent(o, u)) /\ (Mid(o, u)' <=> Mid(o, u))
    BY <1>1 DEF Unsent, Mid
  <2>7. ASSUME NEW u \in Callers, Unsent(o, u)' PROVE Holds(o, N, Y, u)'
    <3>1. CASE u = t
      <4>1. Y[t] \in n + 1 .. S + 1
        BY <2>1, <2>2, <2>3, <2>5
      <4> QED BY <1>1, <2>1, <2>5, <3>1, <4>1 DEF Holds, n
    <3>2. CASE u # t
      <4>1. Holds(o, N, X, u)
        BY <2>3, <2>6, <2>7, <3>2
      <4>2. /\ X[u] \in n + 1 .. S /\ task[o][u].data = Payload(sent[o][X[u]])
            /\ MsgLen[sent[o][X[u]]] <= MaxLen
        BY <4>1 DEF Holds, n, S
      <4>3. X[u] \in 1 .. S /\ X[u] \in n + 1 .. S + 1
        BY <2>1, <2>2, <4>2
      <4>4. sent'[o][X[u]] = sent[o][X[u]]
        BY <2>1, <4>3
      <4> QED BY <1>1, <2>1, <2>5, <3>2, <4>2, <4>3, <4>4 DEF Holds, n
    <3> QED BY <3>1, <3>2
  <2>8. Ordered(o, Y)'
    <3> SUFFICES ASSUME NEW a \in Callers, NEW b \in Callers,
                        Before(o, a, b)', Unsent(o, a)', Unsent(o, b)'
                 PROVE  Y[a] < Y[b]
      BY DEF Ordered
    <3>1. a # t /\ (Before(o, a, b) \/ b = t)
      BY JoinOrder
    <3>2. Unsent(o, a) /\ Y[a] = X[a]
      BY <2>5, <2>6, <3>1
    <3>3. X[a] \in n + 1 .. S
      BY <2>3, <3>2 DEF Holds, n, S
    <3>4. CASE b = t
      BY <2>1, <2>2, <2>5, <3>2, <3>3, <3>4
    <3>5. CASE b # t
      BY <2>3, <2>5, <2>6, <3>1, <3>2, <3>5 DEF Ordered
    <3> QED BY <3>4, <3>5
  <2>9. ASSUME NEW i \in n + 1 .. S + 1 PROVE HeldBy(o, Y, i)'
    <3>1. CASE i = S + 1
      BY <2>5, <2>6, <3>1 DEF HeldBy
    <3>2. CASE i # S + 1
      <4>1. i \in n + 1 .. S
        BY <2>1, <2>2, <3>2
      <4>2. PICK u \in Callers : Unsent(o, u) /\ X[u] = i
        BY <2>3, <4>1 DEF HeldBy
      <4>3. Unsent(o, u)' /\ Y[u] = i
        BY <2>5, <2>6, <4>2
      <4> QED BY <4>3 DEF HeldBy
    <3> QED BY <3>1, <3>2
  <2>10. Half(o, K)'
    BY <1>1, <2>3, <2>6 DEF Half
  <2>11. n <= S + 1
    BY <2>1, <2>2, <2>3
  <2> QED BY <1>1, <2>1, <2>4, <2>7, <2>8, <2>9, <2>10, <2>11 DEF Sender, n
<1> QED BY <1>3, <1>4

(* The call that writes holds the next message, and is as far with it as   *)
(* the wire.                                                               *)
LEMMA InTurn ==
    ASSUME TypeInv, QueueInv, SentOK, NEW o \in Peers, NEW t \in Callers, NEW c, Writes(o, t, c),
           BytesInv(o), ~transport_closed[o],
           NEW N, Counts(N), NEW K, Counts(K), NEW X, Marks(X),
           Sender(o, N, K, X)
    PROVE  LET n == N[Len(wire[o])]
               k == K[Len(wire[o])]
               m == sent[o][n + 1]
           IN  /\ c.op # "DATA" => k = 0
               /\ \A u \in Callers : Mid(o, u) => u = t
               /\ c.op = "DATA" =>
                     /\ Unsent(o, t) /\ X[t] = n + 1 /\ n + 1 \in 1 .. Len(sent[o])
                     /\ c.offset = At(k) /\ c.offset <= Len(c.data)
                     /\ Len(c.data) = MsgLen[m] /\ MsgLen[m] <= MaxLen
                     /\ \A x \in 1 .. Len(c.data) : c.data[x] = <<m, x>>
<1> DEFINE n == N[Len(wire[o])]
           k == K[Len(wire[o])]
           m == sent[o][n + 1]
<1>0. Len(wire[o]) \in Nat /\ n \in Nat /\ k \in Nat /\ Len(sent[o]) \in Nat
  <2>1. Len(wire[o]) \in Nat /\ Len(sent[o]) \in Nat
    BY LenProperties DEF TypeInv, SentOK
  <2> QED BY <2>1, CountAt
<1>1. /\ \A u \in Callers : Unsent(o, u) => Holds(o, N, X, u)
      /\ Ordered(o, X)
      /\ \A i \in n + 1 .. Len(sent[o]) : HeldBy(o, X, i)
      /\ Half(o, K)
  BY DEF Sender
<1> HIDE DEF n, k, m
<1>2. /\ c.op = task[o][t].op /\ c.data = task[o][t].data /\ HasLock(o, t)
      /\ task[o][t].pc = "lock" \/ (task[o][t].pc = "drain" /\ c.op = "DATA")
      /\ \/ task[o][t].pc = "lock" /\ c = task[o][t]
         \/ /\ task[o][t].pc = "drain" /\ MoreFragments(task[o][t])
            /\ c = Advanced(task[o][t])
  BY DEF Writes
<1>3. \A u \in Callers : Mid(o, u) => u = t
  BY <1>2 DEF Mid, QueueInv, HasLock
<1>4. task[o][t].pc = "lock" => k = 0
  <2>1. task[o][t].pc = "lock" => ~Mid(o, t)
    BY DEF Mid
  <2> QED BY <1>1, <1>3, <2>1 DEF Half, k
<1>5. ASSUME c.op = "DATA"
      PROVE  /\ Unsent(o, t) /\ X[t] = n + 1 /\ n + 1 \in 1 .. Len(sent[o])
             /\ c.offset = At(k) /\ c.offset <= Len(c.data)
             /\ Len(c.data) = MsgLen[m] /\ MsgLen[m] <= MaxLen
             /\ \A x \in 1 .. Len(c.data) : c.data[x] = <<m, x>>
  <2>1. Unsent(o, t)
    BY <1>2, <1>5 DEF Unsent, Mid
  <2>2. X[t] \in n + 1 .. Len(sent[o])
    BY <1>1, <2>1 DEF Holds, n
  <2>3. n + 1 \in 1 .. Len(sent[o]) /\ n + 1 \in n + 1 .. Len(sent[o])
    BY <1>0, <2>2
  <2>4. PICK u \in Callers : Unsent(o, u) /\ X[u] = n + 1
    BY <1>1, <2>3 DEF HeldBy
  <2>5. u = t
    <3>1. SUFFICES ASSUME u # t PROVE FALSE
      OBVIOUS
    <3>2. task[o][u].pc # "idle"
      BY <2>4 DEF Unsent, Mid
    <3>3. X[t] < X[u]
      BY <1>1, <1>2, <2>1, <2>4, <3>1, <3>2, HeadFirst DEF Ordered
    <3> QED BY <1>0, <2>2, <2>4, <3>3
  <2>6. c.data = Payload(m) /\ MsgLen[m] <= MaxLen
    BY <1>1, <1>2, <2>1, <2>4, <2>5 DEF Holds, m
  <2>7. MsgLen[m] \in Nat
    <3>1. m \in Msgs
      <4>1. sent[o] \in Seq(Msgs)
        BY DEF SentOK
      <4> QED BY <2>3, <4>1, ElementOfSeq DEF m
    <3> QED BY <3>1, LengthAssumption
  <2>8. Len(c.data) = MsgLen[m] /\ \A x \in 1 .. Len(c.data) : c.data[x] = <<m, x>>
    BY <2>6, <2>7 DEF Payload
  <2>9. c.offset = At(k) /\ c.offset <= Len(c.data)
    <3>1. CASE task[o][t].pc = "lock" /\ c = task[o][t]
      <4>1. c.offset = 0
        BY <1>2, <1>5, <3>1 DEF BytesInv, CallBytes
      <4>2. At(0) = 0
        BY AtFacts
      <4> QED BY <1>4, <2>7, <2>8, <3>1, <4>1, <4>2
    <3>2. CASE /\ task[o][t].pc = "drain" /\ MoreFragments(task[o][t])
               /\ c = Advanced(task[o][t])
      <4>1. task[o][t] \in CallRecords
        BY DEF TypeInv
      <4>2. c.offset = ChunkEnd(task[o][t].data, task[o][t].offset)
        BY <3>2, <4>1 DEF Advanced, CallRecords
      <4>3. c.offset = At(k)
        BY <1>1, <3>2, <4>2 DEF Half, Mid, k
      <4>4. c.offset < Len(c.data)
        BY <1>2, <3>2, <4>2 DEF MoreFragments
      <4>5. At(k) \in Nat
        BY <1>0, AtFacts
      <4> QED BY <2>7, <2>8, <4>3, <4>4, <4>5
    <3> QED BY <1>2, <3>1, <3>2
  <2> QED BY <2>1, <2>3, <2>4, <2>5, <2>6, <2>8, <2>9
<1> QED BY <1>2, <1>3, <1>4, <1>5 DEF n, k, m

(* So the frame continues the wire where the wire stopped. *)
LEMMA FrameInTurn ==
    ASSUME TypeInv, QueueInv, SentOK, NEW o \in Peers, NEW t \in Callers, NEW c, Writes(o, t, c),
           BytesInv(o), ~transport_closed[o],
           NEW N, Counts(N), NEW K, Counts(K), NEW X, Marks(X), Sender(o, N, K, X)
    PROVE  LET n == N[Len(wire[o])]
               k == K[Len(wire[o])]
               f == SealedFrame(o, c)
           IN  /\ IsData(f) <=> c.op = "DATA"
               /\ IsData(f) => Piece(o, f, n + 1, k)
               /\ f.type = "DATA_FRAG" <=> MoreFragments(c)
               /\ f.type = "DATA_FRAG" =>
                     /\ Len(f.body) = ChunkLen /\ k + 1 < MaxFrames
                     /\ ChunkEnd(c.data, c.offset) = At(k + 1)
               /\ f.type = "DATA" => At(k) + Len(f.body) = MsgLen[sent[o][n + 1]]
<1> DEFINE n == N[Len(wire[o])]
           k == K[Len(wire[o])]
           f == SealedFrame(o, c)
           d == c.data
           m == sent[o][n + 1]
           e == ChunkEnd(d, c.offset)
<1>0. k \in Nat
  <2>1. Len(wire[o]) \in Nat
    BY LenProperties DEF TypeInv
  <2> QED BY <2>1, CountAt
<1>1. c.op = "DATA" =>
         /\ n + 1 \in 1 .. Len(sent[o])
         /\ c.offset = At(k) /\ c.offset <= Len(d)
         /\ Len(d) = MsgLen[m] /\ MsgLen[m] <= MaxLen
         /\ \A x \in 1 .. Len(d) : d[x] = <<m, x>>
  BY InTurn
<1>2. /\ IsData(f) <=> c.op = "DATA"
      /\ c.op = "DATA" =>
            /\ Len(f.body) = IF c.offset < e THEN e - c.offset ELSE 0
            /\ \A x \in 1 .. Len(f.body) : c.offset + x \in 1 .. Len(d) /\ f.body[x] = d[c.offset + x]
  <2>1. c.data = task[o][t].data
    BY DEF Writes
  <2> QED BY <2>1, SealedBytes
<1>3. f.type = IF c.op = "DATA" /\ e < Len(d) THEN "DATA_FRAG" ELSE c.op
  BY DEF SealedFrame, PacketType
<1>4. MoreFragments(c) <=> c.op = "DATA" /\ e < Len(d)
  BY DEF MoreFragments
<1>5. c.offset \in Nat /\ Len(d) \in Nat /\ c.op \in {"none", "DATA", "PING", "PONG", "REKEY", "BYE"}
  <2>1. c \in CallRecords
    BY DEF Writes
  <2>2. d \in Text
    BY <2>1 DEF CallRecords, Text
  <2> QED BY <2>1, <2>2, LenProperties DEF CallRecords, Text
<1>6. e = IF c.offset + ChunkLen < Len(d) THEN c.offset + ChunkLen ELSE Len(d)
  BY DEF ChunkEnd
<1>7. /\ At(k) \in Nat /\ At(k + 1) = At(k) + ChunkLen /\ ChunkLen \in Nat \ {0}
      /\ At(k + 1) < MaxLen => k + 1 < MaxFrames
  BY <1>0, AtFacts, LengthAssumption
<1>8. MaxLen \in Nat
  BY LengthAssumption DEF MaxLen
<1> HIDE DEF n, k, f, d, m, e
<1>9. ASSUME c.op = "DATA" PROVE Piece(o, f, n + 1, k)
  <2>1. \A x \in 1 .. Len(f.body) : f.body[x] = <<m, At(k) + x>>
    BY <1>1, <1>2, <1>9
  <2> QED BY <1>1, <1>9, <2>1 DEF Piece, m
<1>10. ASSUME f.type = "DATA_FRAG"
       PROVE  Len(f.body) = ChunkLen /\ k + 1 < MaxFrames /\ e = At(k + 1)
  <2>1. c.op = "DATA" /\ e < Len(d)
    BY <1>3, <1>5, <1>10
  <2>2. e = c.offset + ChunkLen
    BY <1>5, <1>6, <1>7, <2>1
  <2>3. e = At(k + 1) /\ Len(f.body) = ChunkLen
    BY <1>1, <1>2, <1>5, <1>7, <2>1, <2>2
  <2>4. At(k + 1) < MaxLen
    BY <1>1, <1>5, <1>7, <1>8, <2>1, <2>3
  <2> QED BY <1>7, <2>3, <2>4
<1>11. ASSUME f.type = "DATA" PROVE At(k) + Len(f.body) = MsgLen[m]
  <2>1. c.op = "DATA" /\ ~(e < Len(d))
    BY <1>3, <1>5, <1>11
  <2>2. e = Len(d)
    BY <1>5, <1>6, <1>7, <2>1
  <2> QED BY <1>1, <1>2, <1>5, <1>7, <2>1, <2>2
<1> QED BY <1>2, <1>3, <1>4, <1>5, <1>9, <1>10, <1>11 DEF n, k, f, d, m, e

LEMMA WriteMessages ==
    ASSUME TypeInv, QueueInv, SentOK, NEW o \in Peers, NEW t \in Callers, NEW c, Writes(o, t, c),
           BytesInv(o), ~transport_closed[o],
           NEW N, Counts(N), NEW K, Counts(K), NEW X, Marks(X), Frames(o, N, K), Sender(o, N, K, X)
    PROVE  \E M, J : /\ Counts(M) /\ Counts(J)
                     /\ Frames(o, M, J)' /\ Sender(o, M, J, X)'
                     /\ \A i \in 0 .. Len(wire[o]) : M[i] = N[i] /\ J[i] = K[i]
<1> DEFINE L == Len(wire[o])
           S == Len(sent[o])
           n == N[L]
           k == K[L]
           f == SealedFrame(o, c)
<1>0. L \in Nat /\ S \in Nat /\ n \in Nat /\ k \in Nat
  <2>1. L \in Nat /\ S \in Nat
    BY LenProperties DEF TypeInv, SentOK
  <2> QED BY <2>1, CountAt
<1>1. /\ Len(wire'[o]) = L + 1 /\ wire'[o][L + 1] = f
      /\ \A i \in 1 .. L : wire'[o][i] = wire[o][i]
  <2>1. PICK F : wire \in [Peers -> Seq(F)]
    BY DEF TypeInv
  <2>2. wire' = [wire EXCEPT ![o] = Append(@, f)]
    BY DEF Writes, WriteFrame
  <2> HIDE DEF f
  <2>3. wire'[o] = Append(wire[o], f) /\ wire[o] \in Seq(F \cup {f})
    BY <2>1, <2>2, SeqMonotonic
  <2> QED BY <2>3, AppendProperties
<1>2. UNCHANGED <<sent, send_lock, transport_closed>>
  BY DEF Writes, WriteFrame
<1>3. /\ \A u \in Callers : u # t => task'[o][u] = task[o][u]
      /\ task'[o][t].pc = "drain" /\ task'[o][t].op = c.op /\ task'[o][t].data = c.data
      /\ task'[o][t].offset = c.offset
  BY WriteFacts DEF Writes
<1>4. /\ n <= S
      /\ \A u \in Callers : Unsent(o, u) => Holds(o, N, X, u)
      /\ Ordered(o, X)
      /\ \A i \in n + 1 .. S : HeldBy(o, X, i)
      /\ Half(o, K)
  BY DEF Sender
<1>5. /\ c.op # "DATA" => k = 0
      /\ \A u \in Callers : Mid(o, u) => u = t
      /\ c.op = "DATA" => Unsent(o, t) /\ X[t] = n + 1 /\ n + 1 \in 1 .. S
  BY InTurn
<1>6. /\ IsData(f) <=> c.op = "DATA"
      /\ IsData(f) => Piece(o, f, n + 1, k)
      /\ f.type = "DATA_FRAG" <=> MoreFragments(c)
      /\ f.type = "DATA_FRAG" =>
            /\ Len(f.body) = ChunkLen /\ k + 1 < MaxFrames
            /\ ChunkEnd(c.data, c.offset) = At(k + 1)
      /\ f.type = "DATA" => At(k) + Len(f.body) = MsgLen[sent[o][n + 1]]
  BY FrameInTurn
<1>7. /\ Mid(o, t)' <=> MoreFragments(c)
      /\ Unsent(o, t)' <=> MoreFragments(c)
      /\ \A u \in Callers : u # t => (Unsent(o, u)' <=> Unsent(o, u)) /\ ~Mid(o, u)'
  BY <1>3, <1>5 DEF Mid, Unsent, MoreFragments
<1>8. c.op # "DATA" => ~Unsent(o, t) /\ task[o][t].op # "DATA"
  BY DEF Writes, Unsent, Mid, MoreFragments
<1>9. HasLock(o, t)
  BY DEF Writes
<1>10. Frames(o, N, K)
  OBVIOUS
<1> HIDE DEF L, S, n, k, f
<1>11. PICK M : Counts(M) /\ M[L + 1] = (IF f.type = "DATA" THEN n + 1 ELSE n)
                /\ \A j \in Nat : j # L + 1 => M[j] = N[j]
  <2>1. L + 1 \in Nat
    BY <1>0
  <2>2. PICK z \in Nat : z = IF f.type = "DATA" THEN n + 1 ELSE n
    BY <1>0
  <2>3. PICK y \in Nat : y = L + 1
    BY <2>1
  <2>4. \E M : Counts(M) /\ M[y] = z /\ \A j \in Nat : j # y => M[j] = N[j]
    BY NewCount
  <2> QED BY <2>2, <2>3, <2>4
<1>12. PICK J : Counts(J) /\ J[L + 1] = (IF f.type = "DATA_FRAG" THEN k + 1 ELSE 0)
                /\ \A j \in Nat : j # L + 1 => J[j] = K[j]
  <2>1. L + 1 \in Nat
    BY <1>0
  <2>2. PICK z \in Nat : z = IF f.type = "DATA_FRAG" THEN k + 1 ELSE 0
    BY <1>0
  <2>3. PICK y \in Nat : y = L + 1
    BY <2>1
  <2>4. \E J : Counts(J) /\ J[y] = z /\ \A j \in Nat : j # y => J[j] = K[j]
    BY NewCount
  <2> QED BY <2>2, <2>3, <2>4
<1>13. /\ \A i \in 0 .. L : M[i] = N[i] /\ J[i] = K[i]
       /\ M[L] = n /\ J[L] = k /\ L + 1 - 1 = L
  <2>1. \A i \in 0 .. L : i \in Nat /\ i # L + 1
    BY <1>0
  <2>2. \A i \in 0 .. L : M[i] = N[i] /\ J[i] = K[i]
    BY <1>11, <1>12, <2>1
  <2>3. L \in 0 .. L /\ L + 1 - 1 = L
    BY <1>0
  <2> QED BY <2>2, <2>3 DEF n, k
<1>14. Frames(o, M, J)'
  <2>1. M[0] = 0 /\ J[0] = 0
    <3>1. 0 \in 0 .. L
      BY <1>0
    <3> QED BY <1>10, <1>13, <3>1 DEF Frames
  <2>2. ASSUME NEW i \in 1 .. L + 1 PROVE FrameAt(o, M, J, i)'
    <3>1. CASE i \in 1 .. L
      <4>1. i \in Nat \ {0} /\ i \in 0 .. L /\ i - 1 \in 0 .. L
        BY <1>0, <3>1
      <4>2. M[i] = N[i] /\ M[i - 1] = N[i - 1] /\ J[i] = K[i] /\ J[i - 1] = K[i - 1]
        BY <1>13, <4>1
      <4>3. FrameAt(o, N, K, i) /\ wire'[o][i] = wire[o][i]
        BY <1>1, <1>10, <3>1 DEF Frames, L
      <4>4. Begins(sent[o], sent'[o])
        BY <1>0, <1>2 DEF Begins, S
      <4> QED BY <1>11, <1>12, <4>1, <4>2, <4>3, <4>4, FramesKept
    <3>2. CASE i = L + 1
      <4>0. i - 1 = L
        BY <1>0, <3>2
      <4>1. /\ wire'[o][i] = f /\ M[i - 1] = n /\ J[i - 1] = k
            /\ M[i] = (IF f.type = "DATA" THEN n + 1 ELSE n)
            /\ J[i] = (IF f.type = "DATA_FRAG" THEN k + 1 ELSE 0)
        BY <1>1, <1>11, <1>12, <1>13, <3>2, <4>0
      <4>2. IsData(f) => Piece(o, wire[o][i], M[i - 1] + 1, J[i - 1])'
        BY <1>2, <1>6, <4>1 DEF Piece
      <4>3. f.type \in {"DATA", "DATA_FRAG"} \/ ~IsData(f)
        BY DEF IsData
      <4>4. CASE f.type = "DATA_FRAG"
        <5>1. IsData(f)
          BY <4>4 DEF IsData
        <5> QED BY <1>6, <4>1, <4>2, <4>4, <5>1 DEF FrameAt
      <4>5. CASE f.type = "DATA"
        <5>1. IsData(f)
          BY <4>5 DEF IsData
        <5>2. sent'[o][M[i - 1] + 1] = sent[o][n + 1]
          BY <1>2, <4>1
        <5> QED BY <1>6, <4>1, <4>2, <4>5, <5>1, <5>2 DEF FrameAt
      <4>6. CASE ~IsData(f)
        <5>1. f.type # "DATA" /\ f.type # "DATA_FRAG" /\ k = 0
          BY <1>5, <1>6, <4>6 DEF IsData
        <5>2. M[i] = M[i - 1] /\ J[i - 1] = 0 /\ J[i] = 0 /\ ~IsData(wire'[o][i])
          BY <4>1, <4>6, <5>1
        <5> QED BY <5>2 DEF FrameAt
      <4> QED BY <4>3, <4>4, <4>5, <4>6
    <3> QED BY <1>0, <3>1, <3>2
  <2> QED BY <1>1, <2>1, <2>2 DEF Frames
<1>15. ASSUME NEW u \in Callers, u # t, Unsent(o, u) PROVE X[u] \in n + 1 .. S /\ (c.op = "DATA" => n + 1 < X[u])
  <2>1. X[u] \in n + 1 .. S
    BY <1>4, <1>15 DEF Holds, n, L, S
  <2>2. Before(o, t, u)
    <3>1. task[o][u].pc # "idle"
      BY <1>15 DEF Unsent, Mid
    <3> QED BY <1>9, <1>15, <3>1, HeadFirst
  <2>3. c.op = "DATA" => X[t] < X[u]
    BY <1>4, <1>5, <1>15, <2>2 DEF Ordered
  <2> QED BY <1>5, <2>1, <2>3
<1>16. \A u \in Callers : Unsent(o, u)' => Unsent(o, u)
  BY <1>5, <1>7 DEF MoreFragments
<1>17. M[Len(wire'[o])] = (IF f.type = "DATA" THEN n + 1 ELSE n)
       /\ J[Len(wire'[o])] = (IF f.type = "DATA_FRAG" THEN k + 1 ELSE 0)
  BY <1>1, <1>11, <1>12
<1>18. ASSUME NEW u \in Callers, Unsent(o, u)' PROVE Holds(o, M, X, u)'
  <2>1. Holds(o, N, X, u)
    BY <1>4, <1>16, <1>18
  <2>2. task'[o][u].data = task[o][u].data
    BY <1>3 DEF Writes
  <2>3. X[u] \in M[Len(wire'[o])] + 1 .. S
    <3>1. X[u] \in n + 1 .. S
      BY <2>1 DEF Holds, n, L, S
    <3>2. CASE f.type = "DATA"
      <4>1. u # t /\ c.op = "DATA"
        BY <1>6, <1>7, <1>18, <3>2 DEF IsData
      <4>2. n + 1 < X[u]
        BY <1>15, <1>16, <1>18, <4>1
      <4> QED BY <1>0, <1>17, <3>1, <3>2, <4>2
    <3>3. CASE f.type # "DATA"
      BY <1>17, <3>1, <3>3
    <3> QED BY <3>2, <3>3
  <2> QED BY <1>2, <2>1, <2>2, <2>3 DEF Holds, S
<1>19. Ordered(o, X)'
  <2>1. \A a, b : Before(o, a, b)' <=> Before(o, a, b)
    BY <1>2 DEF Before
  <2> QED BY <1>4, <1>16, <2>1 DEF Ordered
<1>20. ASSUME NEW i \in M[Len(wire'[o])] + 1 .. S PROVE HeldBy(o, X, i)'
  <2>1. i \in n + 1 .. S /\ (f.type = "DATA" => i # n + 1)
    BY <1>0, <1>17, <1>20
  <2>2. PICK u \in Callers : Unsent(o, u) /\ X[u] = i
    BY <1>4, <2>1 DEF HeldBy
  <2>3. Unsent(o, u)'
    <3>1. CASE u # t
      BY <1>7, <2>2, <3>1
    <3>2. CASE u = t
      <4>1. c.op = "DATA"
        BY <1>8, <2>2, <3>2
      <4>2. f.type # "DATA"
        BY <1>5, <2>1, <2>2, <3>2, <4>1
      <4>3. f.type = "DATA_FRAG"
        BY <1>6, <4>1, <4>2 DEF IsData
      <4> QED BY <1>6, <1>7, <3>2, <4>3
    <3> QED BY <3>1, <3>2
  <2> QED BY <2>2, <2>3 DEF HeldBy
<1>21. Half(o, J)'
  <2>1. ASSUME NEW u \in Callers, Mid(o, u)'
        PROVE  ChunkEnd(task'[o][u].data, task'[o][u].offset) = At(J[Len(wire'[o])])
    <3>1. u = t /\ MoreFragments(c)
      BY <1>7, <2>1
    <3>2. f.type = "DATA_FRAG" /\ ChunkEnd(c.data, c.offset) = At(k + 1)
      BY <1>6, <3>1
    <3> QED BY <1>3, <1>17, <3>1, <3>2
  <2>2. J[Len(wire'[o])] = 0 \/ \E u \in Callers : Mid(o, u)'
    <3>1. CASE f.type = "DATA_FRAG"
      BY <1>6, <1>7, <3>1
    <3>2. CASE f.type # "DATA_FRAG"
      BY <1>17, <3>2
    <3> QED BY <3>1, <3>2
  <2> QED BY <2>1, <2>2 DEF Half
<1>22. M[Len(wire'[o])] <= S
  <2>1. f.type = "DATA" => n + 1 \in 1 .. S
    BY <1>5, <1>6 DEF IsData
  <2> QED BY <1>0, <1>4, <1>17, <2>1
<1>23. Sender(o, M, J, X)'
  BY <1>2, <1>18, <1>19, <1>20, <1>21, <1>22 DEF Sender, S
<1> QED BY <1>11, <1>12, <1>13, <1>14, <1>23 DEF L

LEMMA AllFramesKept ==
    ASSUME TypeInv, NEW o \in Peers, NEW N, Counts(N), NEW K, Counts(K), Frames(o, N, K),
           wire'[o] = wire[o], Begins(sent[o], sent'[o])
    PROVE  Frames(o, N, K)'
<1>1. Len(wire[o]) \in Nat
  BY LenProperties DEF TypeInv
<1>2. ASSUME NEW i \in 1 .. Len(wire[o]) PROVE FrameAt(o, N, K, i)'
  <2>1. i \in Nat \ {0}
    BY <1>1
  <2>2. FrameAt(o, N, K, i)
    BY DEF Frames
  <2> QED BY <2>1, <2>2, FramesKept
<1> QED BY <1>2 DEF Frames

(* The steps of the sender that write nothing and begin no send(). *)
LEMMA SenderStill ==
    ASSUME UdpInv, NEW o \in Peers, UdpEffect(o), Undisturbed', ~WritesOut(o), UNCHANGED sent,
           Calls(o) => \E t \in Tasks : \E op, data : Joins(o, t, op, data) /\ op # "DATA",
           NEW N, Counts(N), NEW K, Counts(K), NEW X, Marks(X), Sender(o, N, K, X)
    PROVE  Sender(o, N, K, X)'
<1>0. TypeInv /\ QueueInv /\ ~faulted' /\ ~Rekeys(o) /\ ~Accepts(o)
  BY Quiet DEF UdpInv, PairInv, NonceInv
<1>1. RecvTask \in Callers /\ \A t \in Tasks : t \in Callers
  BY DEF Callers
<1>2. wire' = wire
  BY <1>0, SameWire
<1>3. CASE UNCHANGED <<task, send_lock>> /\ (transport_closed[o] => transport_closed'[o])
  <2>1. \A a, b : Before(o, a, b)' => Before(o, a, b)
    BY <1>3 DEF Before
  <2> QED BY <1>2, <1>3, <2>1, SenderKept
<1>4. CASE Feeds(o) \/ Acks(o) \/ Retransmit(o) \/ Skips(o)
  BY <1>3, <1>4 DEF Feeds, Acks, Retransmit, Skips, sessionVars
<1>5. CASE Restarts(o) \/ Reads(o) \/ Delivers(o)
  BY <1>3, <1>5 DEF Restarts, Reads, Delivers, Stands
<1>6. CASE CallEnds(o) \/ PongEnds(o)
  <2>1. PICK t \in Callers : Ends(o, t)
    BY <1>1, <1>6 DEF CallEnds, PongEnds
  <2>2. Leaves(o, t) /\ Leave(o, t) /\ task[o][t].pc = "drain" /\ ~MoreFragments(task[o][t])
    BY <1>0, <2>1 DEF Ends, Leaves
  <2>3. /\ task'[o][t].pc = "idle"
        /\ \A u \in Callers : u # t => task'[o][u] = task[o][u]
    BY <1>0, <2>2, LeaveFacts
  <2>4. ~Unsent(o, t) /\ ~Unsent(o, t)'
    BY <2>2, <2>3 DEF Unsent, Mid
  <2>5. transport_closed[o] => transport_closed'[o]
    BY <1>0, <2>2 DEF Leave, TypeInv
  <2>6. \A a, b \in Callers : Before(o, a, b)' => Before(o, a, b)
    BY <1>0, <2>2, LeaveOrder
  <2> QED BY <1>2, <2>3, <2>4, <2>5, <2>6, SenderKept
<1>7. CASE Calls(o) \/ Answers(o)
  <2>1. PICK t, op, data : t \in Callers /\ Joins(o, t, op, data) /\ op # "DATA"
    BY <1>1, <1>7 DEF Answers
  <2>2. /\ task[o][t].pc = "idle" /\ task'[o][t].pc = "lock" /\ task'[o][t].op = op
        /\ \A u \in Callers : u # t => task'[o][u] = task[o][u]
    BY <1>0, <2>1, JoinFacts
  <2>3. ~Unsent(o, t) /\ ~Unsent(o, t)'
    BY <2>1, <2>2 DEF Unsent, Mid
  <2>4. transport_closed' = transport_closed
    BY <2>1 DEF Joins, Enqueue
  <2>5. \A a, b \in Callers : Before(o, a, b)' => a # t /\ (Before(o, a, b) \/ b = t)
    BY <1>0, <2>1, JoinOrder
  <2>6. \A a, b \in Callers : Unsent(o, a) /\ Unsent(o, b) /\ Before(o, a, b)' => Before(o, a, b)
    BY <2>3, <2>5
  <2> QED BY <1>2, <2>2, <2>3, <2>4, <2>6, SenderKept
<1> QED BY <1>0, <1>4, <1>5, <1>6, <1>7 DEF UdpEffect

(* A step of the sender. *)
LEMMA CarriedBySender ==
    ASSUME UdpInv, ChannelInv, ByteInv, NEW o \in Peers, UdpEffect(o), Undisturbed', Carried(o)
    PROVE  Carried(o)'
<1> DEFINE q == Other(o)
<1>0. /\ TypeInv /\ QueueInv /\ LinkInv /\ SentOK /\ ~faulted' /\ BytesInv(o) /\ Contiguous(q)
      /\ q \in Peers /\ q # o /\ Other(q) = o
  BY Quiet, PeerFacts DEF UdpInv, PairInv, NonceInv, LinkInv, ByteInv, ChannelInv
<1>1. PICK N, K, X :
          /\ Counts(N) /\ Counts(K) /\ Marks(X)
          /\ Frames(o, N, K) /\ Sender(o, N, K, X) /\ Receiver(q, N, K)
  BY DEF Carried
<1>2. /\ recv'[q] = recv[q] /\ delivered'[q] = delivered[q] /\ error'[q] = error[q]
      /\ last_rx_seq'[q] = last_rx_seq[q]
  BY <1>0, OtherStill, OtherStream
<1>3. Begins(sent[o], sent'[o])
  BY <1>0, SentGrows
<1>4. Accepted(q) \in 0 .. Len(wire[o])
  <2>1. Accepted(q) <= Len(wire[o])
    BY <1>0 DEF Contiguous
  <2>2. Accepted(q) \in Nat
    BY <1>0 DEF Accepted, LinkInv, StreamOK
  <2>3. Len(wire[o]) \in Nat
    BY <1>0, LenProperties DEF TypeInv
  <2> QED BY <2>1, <2>2, <2>3
<1>5. Len(delivered[q]) \in Nat
  <2>1. delivered[q] \in Seq(Text)
    BY <1>0 DEF LinkInv, CallsOK
  <2> QED BY <2>1, LenProperties
<1>6. ASSUME NEW M, NEW J, Counts(M), Counts(J), \A i \in 0 .. Len(wire[o]) : M[i] = N[i] /\ J[i] = K[i]
      PROVE  Receiver(q, M, J)'
  <2>1. M[Accepted(q)] = N[Accepted(q)] /\ J[Accepted(q)] = K[Accepted(q)]
    BY <1>4, <1>6
  <2>2. Begins(sent[Other(q)], sent'[Other(q)])
    BY <1>0, <1>3
  <2> QED BY <1>0, <1>1, <1>2, <1>5, <1>6, <2>1, <2>2, ReceiverKept
<1>7. Receiver(q, N, K)'
  BY <1>1, <1>6
<1> HIDE DEF q
<1>8. ASSUME NEW Y, Marks(Y), Sender(o, N, K, Y)', wire'[o] = wire[o] PROVE Carried(o)'
  <2>1. Frames(o, N, K)'
    BY <1>0, <1>1, <1>3, <1>8, AllFramesKept
  <2> QED BY <1>1, <1>7, <1>8, <2>1 DEF Carried, q
<1>9. CASE WritesOut(o) /\ ~transport_closed[o]
  <2>1. PICK t, c : t \in Callers /\ Writes(o, t, c)
    BY <1>9 DEF WritesOut
  <2>2. PICK M, J : /\ Counts(M) /\ Counts(J)
                    /\ Frames(o, M, J)' /\ Sender(o, M, J, X)'
                    /\ \A i \in 0 .. Len(wire[o]) : M[i] = N[i] /\ J[i] = K[i]
    BY <1>0, <1>1, <1>9, <2>1, WriteMessages
  <2>3. Receiver(q, M, J)'
    BY <1>6, <2>2
  <2> QED BY <1>1, <2>2, <2>3 DEF Carried, q
<1>10. CASE WritesOut(o) /\ transport_closed[o]
  <2>1. wire' = wire
    BY <1>10 DEF WritesOut, Transmit
  <2>2. transport_closed' = transport_closed
    BY <1>10 DEF WritesOut, Writes, WriteFrame
  <2>3. Sender(o, N, K, X)'
    BY <1>10, <2>2 DEF Sender
  <2> QED BY <1>1, <1>8, <2>1, <2>3
<1>11. CASE ~WritesOut(o) /\ sent' = sent /\
            (Calls(o) => \E t \in Tasks : \E op, data : Joins(o, t, op, data) /\ op # "DATA")
  <2>1. Sender(o, N, K, X)'
    BY <1>1, <1>11, SenderStill
  <2>2. wire' = wire
    BY <1>0, <1>11, SameWire
  <2> QED BY <1>1, <1>8, <2>1, <2>2
<1>12. CASE Calls(o)
  <2>1. PICK t, op, data : t \in Tasks /\ Joins(o, t, op, data) /\ Submits(o, op, data)
    BY <1>12 DEF Calls, Draws
  <2>2. wire' = wire /\ t \in Callers
    BY <1>0, <2>1, JoinFacts DEF Callers
  <2>3. CASE op = "DATA"
    <3>1. PICK m \in Msgs : /\ data = Payload(m) /\ MsgLen[m] <= MaxLen
                            /\ sent' = [sent EXCEPT ![o] = Append(@, m)]
      BY <2>1, <2>3 DEF Submits, MaxLen
    <3>2. \E Y : Marks(Y) /\ Sender(o, N, K, Y)'
      BY <1>0, <1>1, <2>1, <2>2, <2>3, <3>1, SendJoins
    <3> QED BY <1>8, <2>2, <3>2
  <2>4. CASE op # "DATA" /\ ~WritesOut(o)
    <3>1. sent' = sent
      BY <2>1, <2>4 DEF Submits
    <3> QED BY <1>11, <2>1, <2>4, <3>1
  <2> QED BY <1>9, <1>10, <2>3, <2>4
<1>13. CASE ~WritesOut(o) /\ ~Calls(o)
  <2>1. sent' = sent
    BY <1>13, SameSent
  <2> QED BY <1>11, <1>13, <2>1
<1> QED BY <1>9, <1>10, <1>12, <1>13

-----------------------------------------------------------------------------
(* What recv() puts together: the bytes of message m, in their order. *)
SpellsFirst(s, m) == \A x \in 1 .. Len(s) : s[x] = <<m, x>>

SpellsNext(s, m, z) == \A x \in 1 .. Len(s) : s[x] = <<m, z + x>>

LEMMA Joined ==
    ASSUME NEW a \in Text, NEW b \in Text, NEW z \in Nat, NEW m, Len(a) = z,
           SpellsFirst(a, m), SpellsNext(b, m, z)
    PROVE  a \o b \in Text /\ Len(a \o b) = z + Len(b) /\ SpellsFirst(a \o b, m)
<1>1. /\ a \o b \in Text /\ Len(a \o b) = Len(a) + Len(b)
      /\ \A i \in 1 .. Len(a) + Len(b) : (a \o b)[i] = IF i <= Len(a) THEN a[i] ELSE b[i - Len(a)]
  BY ConcatProperties DEF Text
<1>2. Len(b) \in Nat
  BY LenProperties DEF Text
<1> DEFINE c == a \o b
           k == Len(b)
<1>3. /\ Len(c) = z + k /\ k \in Nat
      /\ \A i \in 1 .. z + k : c[i] = IF i <= z THEN a[i] ELSE b[i - z]
      /\ \A x \in 1 .. z : a[x] = <<m, x>>
      /\ \A x \in 1 .. k : b[x] = <<m, z + x>>
  BY <1>1, <1>2 DEF SpellsFirst, SpellsNext
<1> HIDE DEF c, k
<1>4. ASSUME NEW x \in 1 .. z + k PROVE c[x] = <<m, x>>
  <2>1. CASE x <= z
    <3>1. x \in 1 .. z
      BY <1>3, <2>1
    <3> QED BY <1>3, <2>1, <3>1
  <2>2. CASE ~(x <= z)
    <3>1. x - z \in 1 .. k /\ z + (x - z) = x
      BY <1>3, <2>2
    <3>2. b[x - z] = <<m, z + (x - z)>>
      BY <1>3, <3>1
    <3> QED BY <1>3, <2>2, <3>1, <3>2
  <2> QED BY <2>1, <2>2
<1> QED BY <1>1, <1>2, <1>3, <1>4 DEF c, k, SpellsFirst

LEMMA IsPayload ==
    ASSUME NEW s \in Text, NEW m \in Msgs, Len(s) = MsgLen[m], SpellsFirst(s, m)
    PROVE  s = Payload(m)
<1>1. s = [x \in 1 .. Len(s) |-> s[x]]
  BY DEF Text
<1> QED BY <1>1 DEF Payload, SpellsFirst

(* recv() raises. *)
LEMMA ReceiverFails ==
    ASSUME CallsOK, NEW p \in Peers, NEW N, NEW K, Receiver(p, N, K), Fails(p),
           sent'[Other(p)] = sent[Other(p)]
    PROVE  Receiver(p, N, K)'
<1>1. error'[p] # "none" /\ delivered' = delivered
  BY DEF Fails, Raises, CallsOK
<1>2. Whole(p)'
  BY <1>1 DEF Receiver, Whole
<1> QED BY <1>1, <1>2 DEF Receiver

(* recv() goes on with the chunks it has, or begins with none. *)
LEMMA ReceiverHolds ==
    ASSUME NEW p \in Peers, NEW N, NEW K, Receiver(p, N, K), error[p] = "none",
           sent'[Other(p)] = sent[Other(p)], delivered'[p] = delivered[p],
           recv'[p].payload = recv[p].payload, recv'[p].frame_count = recv[p].frame_count,
           recv'[p].expected_frag_seq = recv[p].expected_frag_seq,
           K[Accepted(p)] > 0 => Accepted(p)' = Accepted(p) /\ recv'[p].pc # "idle",
           N[Accepted(p)'] = N[Accepted(p)], K[Accepted(p)'] = K[Accepted(p)]
    PROVE  Receiver(p, N, K)'
<1>1. Whole(p)'
  BY DEF Receiver, Whole
<1>2. Partial(p, N, K)
  BY DEF Receiver
<1> DEFINE j == Accepted(p)
           l == Accepted(p)'
<1>3. /\ K[j] > 0 => l = j /\ recv'[p].pc # "idle"
      /\ N[l] = N[j] /\ K[l] = K[j]
  OBVIOUS
<1> HIDE DEF j, l
<1>4. /\ Len(delivered[p]) = N[j]
      /\ recv[p].frame_count = K[j]
      /\ K[j] > 0 => recv[p].expected_frag_seq = j
      /\ Len(recv[p].payload) = At(K[j])
      /\ \A x \in 1 .. Len(recv[p].payload) :
            /\ N[j] + 1 \in 1 .. Len(sent[Other(p)])
            /\ recv[p].payload[x] = <<sent[Other(p)][N[j] + 1], x>>
  BY <1>2 DEF Partial, j
<1>5. /\ Len(delivered'[p]) = N[l]
      /\ recv'[p].frame_count = K[l]
      /\ K[l] > 0 => recv'[p].expected_frag_seq = l /\ recv'[p].pc # "idle"
      /\ Len(recv'[p].payload) = At(K[l])
      /\ \A x \in 1 .. Len(recv'[p].payload) :
            /\ N[l] + 1 \in 1 .. Len(sent'[Other(p)])
            /\ recv'[p].payload[x] = <<sent'[Other(p)][N[l] + 1], x>>
  BY <1>3, <1>4
<1>6. Partial(p, N, K)'
  BY <1>5 DEF Partial, l
<1> QED BY <1>1, <1>6 DEF Receiver

LEMMA ReceiverFresh ==
    ASSUME NEW p \in Peers, NEW N, NEW K, Whole(p)',
           recv'[p].payload = << >>, recv'[p].frame_count = 0,
           K[Accepted(p)'] = 0, N[Accepted(p)'] = Len(delivered'[p])
    PROVE  Receiver(p, N, K)'
<1>1. At(0) = 0
  BY AtFacts
<1>2. Partial(p, N, K)'
  BY <1>1 DEF Partial
<1> QED BY <1>2 DEF Receiver

(* The frame that recv() takes is the next one on the wire. *)
LEMMA TakenFrame ==
    ASSUME UdpInv, ChannelInv, NEW p \in Peers, TakesNext(p),
           NEW N, NEW K, Counts(N), Counts(K), Frames(Other(p), N, K)
    PROVE  /\ Accepted(p) \in Nat /\ Accepted(p)' = Accepted(p) + 1
           /\ FrameOK(NextFrame(p)) /\ NextFrame(p) = wire[Other(p)][Accepted(p) + 1]
           /\ FrameAt(Other(p), N, K, Accepted(p) + 1)
<1> DEFINE o == Other(p)
           j == Accepted(p)
<1>0. LinkInv /\ TypeInv /\ BufferOK /\ WireOK /\ StreamOK /\ o \in Peers
  BY PeerFacts DEF UdpInv, PairInv, NonceInv, LinkInv
<1>1. j \in Nat /\ Accepted(p)' = j + 1
  BY <1>0 DEF Accepted, StreamOK, TakesNext
<1>2. Among(wire[o], NextFrame(p)) /\ FrameOK(NextFrame(p))
  BY <1>0, HeadFacts DEF TakesNext
<1>3. PICK i \in 1 .. Len(wire[o]) : wire[o][i] = NextFrame(p)
  BY <1>2 DEF Among
<1>4. Len(wire[o]) \in Nat
  BY <1>0, LenProperties DEF TypeInv
<1>5. wire[o][i].seq = i - 1
  BY <1>0 DEF ChannelInv, Numbered
<1>6. NextFrame(p).seq = j
  BY DEF TakesNext
<1> HIDE DEF j
<1>7. i = j + 1
  BY <1>1, <1>3, <1>4, <1>5, <1>6
<1>8. FrameAt(o, N, K, i)
  BY DEF Frames
<1> QED BY <1>1, <1>2, <1>3, <1>7, <1>8 DEF j

(* What FrameAt says of the frame after the first j. *)
Comes(o, N, K, j, f) ==
    /\ f.type = "DATA_FRAG" =>
          /\ Piece(o, f, N[j] + 1, K[j])
          /\ Len(f.body) = ChunkLen /\ K[j] + 1 < MaxFrames
          /\ N[j + 1] = N[j] /\ K[j + 1] = K[j] + 1
    /\ f.type = "DATA" =>
          /\ Piece(o, f, N[j] + 1, K[j])
          /\ At(K[j]) + Len(f.body) = MsgLen[sent[o][N[j] + 1]]
          /\ N[j + 1] = N[j] + 1 /\ K[j + 1] = 0
    /\ ~IsData(f) => N[j + 1] = N[j] /\ K[j] = 0 /\ K[j + 1] = 0

LEMMA FrameAfter ==
    ASSUME NEW o \in Peers, NEW N, NEW K, NEW j \in Nat, FrameAt(o, N, K, j + 1),
           NEW f, f = wire[o][j + 1]
    PROVE  Comes(o, N, K, j, f)
<1>1. PICK i : i = j + 1
  OBVIOUS
<1>2. i - 1 = j
  BY <1>1
<1>3. FrameAt(o, N, K, i) /\ f = wire[o][i]
  BY <1>1
<1>4. CASE f.type = "DATA_FRAG"
  BY <1>1, <1>2, <1>3, <1>4 DEF FrameAt, IsData, Comes
<1>5. CASE f.type = "DATA"
  BY <1>1, <1>2, <1>3, <1>5 DEF FrameAt, IsData, Comes
<1>6. CASE ~IsData(f)
  BY <1>1, <1>2, <1>3, <1>6 DEF FrameAt, IsData, Comes
<1> QED BY <1>4, <1>5, <1>6 DEF IsData, Comes

(* The chunk in a frame follows the chunks that recv() holds. *)
LEMMA ChunkFollows ==
    ASSUME CallsOK, NEW p \in Peers, NEW N, Counts(N), NEW K, Counts(K), Partial(p, N, K),
           Accepted(p) \in Nat, NEW f, FrameOK(f),
           Piece(Other(p), f, N[Accepted(p)] + 1, K[Accepted(p)])
    PROVE  LET s == recv[p].payload \o f.body
               m == sent[Other(p)][N[Accepted(p)] + 1]
           IN  s \in Text /\ Len(s) = At(K[Accepted(p)]) + Len(f.body) /\ SpellsFirst(s, m)
<1> DEFINE j == Accepted(p)
           m == sent[Other(p)][N[j] + 1]
<1>1. recv[p].payload \in Text /\ f.body \in Text
  BY DEF CallsOK, RecvCalls, FrameOK
<1>2. /\ Len(recv[p].payload) = At(K[j])
      /\ SpellsFirst(recv[p].payload, m)
  BY DEF Partial, SpellsFirst
<1>3. SpellsNext(f.body, m, At(K[j]))
  BY DEF Piece, SpellsNext
<1>4. At(K[j]) \in Nat
  BY CountAt, AtFacts
<1> HIDE DEF j, m
<1> QED BY <1>1, <1>2, <1>3, <1>4, Joined DEF j, m

LEMMA ReceiverGrows ==
    ASSUME UdpInv, ChannelInv, NEW p \in Peers, TakesNext(p),
           NEW N, Counts(N), NEW K, Counts(K), Frames(Other(p), N, K), Receiver(p, N, K),
           NextFrame(p).type = "DATA_FRAG", Continues(p, Grown(p, NextFrame(p)))
    PROVE  Receiver(p, N, K)'
<1> DEFINE o == Other(p)
           j == Accepted(p)
           f == NextFrame(p)
           s == recv[p].payload \o f.body
           m == sent[o][N[j] + 1]
<1>0. /\ CallsOK /\ recv \in [Peers -> RecvCalls] /\ o \in Peers /\ sent' = sent
      /\ recv[p].pc = "reading" /\ error[p] = "none" /\ f.seq = j
  BY PeerFacts DEF UdpInv, LinkInv, CallsOK, TakesNext, Takes
<1>1. j \in Nat /\ Accepted(p)' = j + 1 /\ FrameOK(f) /\ f = wire[o][j + 1] /\ FrameAt(o, N, K, j + 1)
  BY TakenFrame
<1>2. /\ Piece(o, f, N[j] + 1, K[j])
      /\ Len(f.body) = ChunkLen /\ N[j + 1] = N[j] /\ K[j + 1] = K[j] + 1
  <2>1. f.type = "DATA_FRAG"
    OBVIOUS
  <2> HIDE DEF o, j, f
  <2>2. Comes(o, N, K, j, f)
    BY <1>0, <1>1, FrameAfter
  <2> QED BY <2>1, <2>2 DEF Comes
<1>3. Partial(p, N, K) /\ Whole(p)
  BY <1>0 DEF Receiver
<1>4. Len(s) = At(K[j]) + Len(f.body) /\ SpellsFirst(s, m)
  <2>1. CallsOK /\ Partial(p, N, K) /\ j \in Nat /\ FrameOK(f) /\ Piece(o, f, N[j] + 1, K[j])
    BY <1>0, <1>1, <1>2, <1>3
  <2> HIDE DEF f
  <2> QED BY <2>1, ChunkFollows
<1>5. /\ recv'[p].payload = s /\ recv'[p].frame_count = recv[p].frame_count + 1
      /\ recv'[p].expected_frag_seq = j + 1 /\ recv'[p].pc = "reading"
      /\ delivered' = delivered
  <2>1. recv'[p] = Grown(p, f) /\ delivered' = delivered
    BY <1>0 DEF Continues
  <2>2. recv[p] \in RecvCalls
    BY <1>0
  <2> QED BY <1>0, <2>1, <2>2 DEF Grown, RecvCalls
<1>6. Len(delivered[p]) = N[j] /\ recv[p].frame_count = K[j]
  BY <1>3 DEF Partial
<1>7. N[j] + 1 \in 1 .. Len(sent[o])
  BY <1>2 DEF Piece
<1>8. K[j] \in Nat /\ At(K[j] + 1) = At(K[j]) + ChunkLen
  BY <1>1, CountAt, AtFacts
<1>9. Whole(p)'
  BY <1>0, <1>3, <1>5 DEF Whole
<1>10. /\ Len(delivered'[p]) = N[j + 1] /\ recv'[p].frame_count = K[j + 1]
       /\ recv'[p].expected_frag_seq = j + 1 /\ recv'[p].pc # "idle"
       /\ Len(recv'[p].payload) = At(K[j + 1])
       /\ \A x \in 1 .. Len(recv'[p].payload) :
             /\ N[j + 1] + 1 \in 1 .. Len(sent'[o])
             /\ recv'[p].payload[x] = <<sent'[o][N[j + 1] + 1], x>>
  <2>1. Len(recv'[p].payload) = At(K[j + 1])
    BY <1>2, <1>4, <1>5, <1>8
  <2>2. \A x \in 1 .. Len(recv'[p].payload) : recv'[p].payload[x] = <<sent'[o][N[j + 1] + 1], x>>
    BY <1>0, <1>2, <1>4, <1>5 DEF SpellsFirst
  <2> HIDE DEF j, o
  <2> QED BY <1>0, <1>2, <1>5, <1>6, <1>7, <2>1, <2>2
<1>11. Partial(p, N, K)'
  BY <1>1, <1>10 DEF Partial
<1> QED BY <1>9, <1>11 DEF Receiver

LEMMA ReceiverDelivers ==
    ASSUME UdpInv, ChannelInv, NEW p \in Peers, TakesNext(p), Delivers(p),
           NEW N, Counts(N), NEW K, Counts(K), Frames(Other(p), N, K), Receiver(p, N, K)
    PROVE  Receiver(p, N, K)'
<1> DEFINE o == Other(p)
           j == Accepted(p)
           f == NextFrame(p)
           s == recv[p].payload \o f.body
           n == N[j]
           m == sent[o][n + 1]
           d == delivered[p]
           e == delivered'[p]
<1>0. /\ CallsOK /\ SentOK /\ o \in Peers /\ sent' = sent
      /\ error[p] = "none" /\ f.type = "DATA" /\ Returns(p, s)
  BY PeerFacts DEF UdpInv, LinkInv, TakesNext, Takes, Delivers
<1>1. j \in Nat /\ Accepted(p)' = j + 1 /\ FrameOK(f) /\ f = wire[o][j + 1] /\ FrameAt(o, N, K, j + 1)
  BY TakenFrame
<1>2. /\ Piece(o, f, n + 1, K[j])
      /\ At(K[j]) + Len(f.body) = MsgLen[m]
      /\ N[j + 1] = n + 1 /\ K[j + 1] = 0
  <2> HIDE DEF o, j, f
  <2>1. Comes(o, N, K, j, f)
    BY <1>0, <1>1, FrameAfter
  <2> QED BY <1>0, <2>1 DEF Comes
<1>3. Partial(p, N, K) /\ Whole(p)
  BY <1>0 DEF Receiver
<1>4. s \in Text /\ Len(s) = MsgLen[m] /\ SpellsFirst(s, m)
  <2>1. s \in Text /\ Len(s) = At(K[j]) + Len(f.body) /\ SpellsFirst(s, m)
    <3>1. CallsOK /\ Partial(p, N, K) /\ j \in Nat /\ FrameOK(f) /\ Piece(o, f, n + 1, K[j])
      BY <1>0, <1>1, <1>2, <1>3
    <3> HIDE DEF f
    <3> QED BY <3>1, ChunkFollows
  <2> QED BY <1>2, <2>1
<1>5. n + 1 \in 1 .. Len(sent[o])
  BY <1>2 DEF Piece
<1>6. m \in Msgs
  <2>1. sent[o] \in Seq(Msgs)
    BY <1>0 DEF SentOK
  <2> HIDE DEF n
  <2> QED BY <1>5, <2>1, ElementOfSeq
<1>7. s = Payload(m)
  BY <1>4, <1>6, IsPayload
<1>8. e = Append(d, s) /\ d \in Seq(Text) /\ recv'[p] = NotReceiving
  BY <1>0 DEF Returns, CallsOK
<1>9. /\ Len(d) \in Nat /\ Len(e) = Len(d) + 1 /\ e[Len(d) + 1] = s
      /\ \A k \in 1 .. Len(d) : e[k] = d[k]
  <2> HIDE DEF d, e, s
  <2> QED BY <1>4, <1>8, AppendProperties, LenProperties
<1>10. Len(d) = n
  BY <1>3 DEF Partial
<1>11. Whole(p)'
  <2>1. \A k \in 1 .. Len(d) : d[k] = Payload(sent[o][k])
    BY <1>3 DEF Whole
  <2>2. e[n + 1] = Payload(sent[o][n + 1])
    BY <1>7, <1>9, <1>10
  <2>3. n \in Nat /\ Len(e) = n + 1
    BY <1>9, <1>10
  <2> HIDE DEF n, d, e, o
  <2>4. \A k \in 1 .. n : e[k] = Payload(sent[o][k])
    BY <1>9, <1>10, <2>1
  <2>5. \A k \in 1 .. n + 1 : k \in 1 .. n \/ k = n + 1
    BY <2>3
  <2>6. \A k \in 1 .. Len(e) : e[k] = Payload(sent[o][k])
    BY <2>2, <2>3, <2>4, <2>5
  <2>7. Len(e) <= Len(sent[o])
    BY <1>5, <2>3
  <2> QED BY <1>0, <2>6, <2>7 DEF Whole, e, o
<1>12. N[Accepted(p)'] = Len(delivered'[p]) /\ K[Accepted(p)'] = 0
  BY <1>1, <1>2, <1>9, <1>10
<1> QED BY <1>8, <1>11, <1>12, ReceiverFresh DEF NotReceiving

(* The frame fits: recv() is never made to drop what it holds. *)
LEMMA NothingBreaks ==
    ASSUME UdpInv, ChannelInv, NEW p \in Peers, TakesNext(p),
           NEW N, Counts(N), NEW K, Counts(K), Frames(Other(p), N, K), Receiver(p, N, K)
    PROVE  ~Breaks(p, NextFrame(p))
<1> DEFINE o == Other(p)
           j == Accepted(p)
           f == NextFrame(p)
<1>0. o \in Peers /\ error[p] = "none" /\ f.seq = j
  BY PeerFacts DEF TakesNext
<1>1. j \in Nat /\ Accepted(p)' = j + 1 /\ FrameOK(f) /\ f = wire[o][j + 1] /\ FrameAt(o, N, K, j + 1)
  BY TakenFrame
<1>2. Partial(p, N, K)
  BY <1>0 DEF Receiver
<1>3. /\ recv[p].frame_count = K[j]
      /\ K[j] > 0 => recv[p].expected_frag_seq = j
      /\ Len(recv[p].payload) = At(K[j])
  BY <1>2 DEF Partial
<1>4. K[j] \in Nat /\ At(0) = 0 /\ MaxFrames \in Nat
  BY <1>1, CountAt, AtFacts, LengthAssumption
<1> HIDE DEF o, j, f
<1>5. Comes(o, N, K, j, f)
  BY <1>0, <1>1, FrameAfter
<1>6. f.type \in {"PING", "PONG", "REKEY"} => ~MidMessage(p)
  <2>1. ASSUME f.type \in {"PING", "PONG", "REKEY"} PROVE K[j] = 0
    BY <1>5, <2>1 DEF Comes, IsData
  <2> QED BY <1>3, <1>4, <2>1 DEF MidMessage
<1>7. ~(recv[p].frame_count > 0 /\ f.seq # recv[p].expected_frag_seq)
  BY <1>0, <1>3
<1>8. f.type = "DATA_FRAG" => ~(recv[p].frame_count + 1 >= MaxFrames)
  BY <1>3, <1>4, <1>5 DEF Comes
<1> QED BY <1>6, <1>7, <1>8 DEF Breaks, f

LEMMA ReceiverControl ==
    ASSUME UdpInv, ChannelInv, NEW p \in Peers, TakesNext(p), sent'[Other(p)] = sent[Other(p)],
           NEW N, Counts(N), NEW K, Counts(K), Frames(Other(p), N, K), Receiver(p, N, K),
           ~IsData(NextFrame(p)), NEW r, Continues(p, r),
           r.payload = recv[p].payload, r.frame_count = recv[p].frame_count,
           r.expected_frag_seq = recv[p].expected_frag_seq
    PROVE  Receiver(p, N, K)'
<1> DEFINE o == Other(p)
           j == Accepted(p)
           f == NextFrame(p)
<1>0. o \in Peers /\ error[p] = "none" /\ CallsOK
  BY PeerFacts DEF TakesNext, UdpInv, LinkInv
<1>1. j \in Nat /\ Accepted(p)' = j + 1 /\ FrameOK(f) /\ f = wire[o][j + 1] /\ FrameAt(o, N, K, j + 1)
  BY TakenFrame
<1>2. N[j + 1] = N[j] /\ K[j] = 0 /\ K[j + 1] = 0
  <2>1. ~IsData(f)
    OBVIOUS
  <2> HIDE DEF o, j, f
  <2>2. Comes(o, N, K, j, f)
    BY <1>0, <1>1, FrameAfter
  <2> QED BY <2>1, <2>2 DEF Comes
<1>3. recv'[p] = r /\ delivered' = delivered
  BY <1>0 DEF Continues, CallsOK
<1>4. /\ N[Accepted(p)'] = N[Accepted(p)] /\ K[Accepted(p)'] = K[Accepted(p)]
      /\ ~(K[Accepted(p)] > 0)
  BY <1>1, <1>2
<1> QED BY <1>0, <1>3, <1>4, ReceiverHolds

(* A step of the receiver. *)
LEMMA ReceiverNext ==
    ASSUME UdpInv, ChannelInv, NEW p \in Peers, UdpEffect(p), Undisturbed',
           NEW N, Counts(N), NEW K, Counts(K), Frames(Other(p), N, K), Receiver(p, N, K)
    PROVE  Receiver(p, N, K)'
<1>0. /\ TypeInv /\ LinkInv /\ CallsOK /\ SentOK /\ StreamOK /\ Quit(p)
      /\ ~faulted' /\ ~Rekeys(p) /\ ~Accepts(p)
  BY Quiet DEF UdpInv, PairInv, NonceInv, LinkInv, ChannelInv
<1>1. /\ sent'[Other(p)] = sent[Other(p)] /\ Begins(sent[Other(p)], sent'[Other(p)])
  BY <1>0, PeerFacts, OtherStream, SentGrows
<1>2. recv[p] \in RecvCalls /\ recv \in [Peers -> RecvCalls] /\ Len(delivered[p]) \in Nat
  <2>1. delivered[p] \in Seq(Text)
    BY <1>0 DEF CallsOK
  <2> QED BY <1>0, <2>1, LenProperties DEF CallsOK
<1>3. CASE UNCHANGED recvVars /\ last_rx_seq' = last_rx_seq
  BY <1>1, <1>2, <1>3, ReceiverKept DEF recvVars
<1>4. CASE Fails(p)
  BY <1>0, <1>1, <1>4, ReceiverFails
<1>5. CASE Calls(p) \/ WritesOut(p) \/ CallEnds(p) \/ Feeds(p) \/ Acks(p) \/ Retransmit(p)
  <2>1. UNCHANGED recvVars
    BY <1>5 DEF Calls, WritesOut, CallEnds, Feeds, Acks, Retransmit
  <2>2. last_rx_seq' = last_rx_seq
    BY <1>5 DEF Calls, WritesOut, CallEnds, Ends, Feeds, FeedPacket, Acks, FeedUtack, Retransmit,
                Transmit, streamVars
  <2> QED BY <1>3, <2>1, <2>2
<1>6. CASE PongEnds(p)
  <2>1. recv[p].pc = "pong" /\ last_rx_seq' = last_rx_seq
    BY <1>6 DEF PongEnds, Ends, streamVars
  <2>2. error[p] = "none" /\ Accepted(p)' = Accepted(p)
    BY <1>0, <2>1 DEF Quit, Accepted
  <2>3. CASE \E n \in Nat : Continues(p, Counted(p, n))
    <3>1. PICK n \in Nat : Continues(p, Counted(p, n))
      BY <2>3
    <3>2. recv'[p] = Counted(p, n) /\ delivered' = delivered
      BY <1>2, <3>1 DEF Continues
    <3>3. /\ recv'[p].payload = recv[p].payload /\ recv'[p].frame_count = recv[p].frame_count
          /\ recv'[p].expected_frag_seq = recv[p].expected_frag_seq /\ recv'[p].pc = "reading"
      BY <1>2, <3>2 DEF Counted, RecvCalls
    <3> QED BY <1>1, <2>2, <3>2, <3>3, ReceiverHolds
  <2> QED BY <1>0, <1>4, <1>6, <2>3 DEF PongEnds
<1>7. CASE Restarts(p)
  <2>1. last_rx_seq' = last_rx_seq
    BY <1>7 DEF Restarts, streamVars
  <2>2. CASE recv[p].pc = "idle" /\ error[p] = "none" /\ Continues(p, Receiving)
    <3>1. Partial(p, N, K) /\ Whole(p)
      BY <2>2 DEF Receiver
    <3>2. recv'[p] = Receiving /\ delivered' = delivered
      BY <1>2, <2>2 DEF Continues
    <3>3. Accepted(p)' = Accepted(p) /\ Accepted(p) \in Nat
      BY <1>0, <2>1 DEF Accepted, StreamOK
    <3>4. K[Accepted(p)] = 0
      <4>1. K[Accepted(p)] \in Nat
        BY <3>3, CountAt
      <4>2. ~(K[Accepted(p)] > 0)
        BY <2>2, <3>1 DEF Partial
      <4> QED BY <4>1, <4>2
    <3>5. N[Accepted(p)] = Len(delivered[p])
      BY <3>1 DEF Partial
    <3>6. Whole(p)'
      BY <1>1, <3>1, <3>2 DEF Whole
    <3>7. recv'[p].payload = << >> /\ recv'[p].frame_count = 0
      BY <3>2 DEF Receiving, NotReceiving
    <3> QED BY <3>2, <3>3, <3>4, <3>5, <3>6, <3>7, ReceiverFresh
  <2> QED BY <1>0, <1>3, <1>4, <1>7, <2>1, <2>2 DEF Restarts
<1>8. CASE Skips(p)
  BY <1>3, <1>4, <1>8 DEF Skips
<1>9. CASE Reads(p)
  <2>1. TakesNext(p) /\ Proceeds(p, NextFrame(p))
    BY <1>9, TakenInTurn DEF Reads
  <2>2. ~Breaks(p, NextFrame(p))
    BY <2>1, NothingBreaks
  <2>3. CASE NextFrame(p).type = "PONG" /\ \E n \in Nat : Continues(p, Counted(p, n))
    <3>1. PICK n \in Nat : Continues(p, Counted(p, n))
      BY <2>3
    <3>2. /\ Counted(p, n).payload = recv[p].payload
          /\ Counted(p, n).frame_count = recv[p].frame_count
          /\ Counted(p, n).expected_frag_seq = recv[p].expected_frag_seq
      BY <1>2 DEF Counted, RecvCalls
    <3>3. ~IsData(NextFrame(p))
      BY <2>3 DEF IsData
    <3> QED BY <1>1, <2>1, <3>1, <3>2, <3>3, ReceiverControl
  <2>4. CASE NextFrame(p).type = "DATA_FRAG" /\ Continues(p, Grown(p, NextFrame(p)))
    BY <2>1, <2>4, ReceiverGrows
  <2> QED BY <1>4, <2>1, <2>2, <2>3, <2>4 DEF Proceeds
<1>10. CASE Delivers(p)
  <2>1. TakesNext(p)
    BY <1>10, TakenInTurn DEF Delivers
  <2> QED BY <1>10, <2>1, ReceiverDelivers
<1>11. CASE Answers(p)
  <2>1. TakesNext(p) /\ ~IsData(NextFrame(p))
    BY <1>11, TakenInTurn DEF Answers, IsData
  <2>2. PICK r : r = [recv[p] EXCEPT !.pc = "pong"]
    OBVIOUS
  <2>3. /\ Continues(p, r) /\ r.payload = recv[p].payload /\ r.frame_count = recv[p].frame_count
        /\ r.expected_frag_seq = recv[p].expected_frag_seq
    BY <1>2, <1>11, <2>2 DEF Answers, RecvCalls
  <2> QED BY <1>1, <2>1, <2>3, ReceiverControl
<1> QED BY <1>0, <1>5, <1>6, <1>7, <1>8, <1>9, <1>10, <1>11 DEF UdpEffect

LEMMA CarriedByReceiver ==
    ASSUME UdpInv, ChannelInv, NEW p \in Peers, UdpEffect(p), Undisturbed', Carried(Other(p))
    PROVE  Carried(Other(p))'
<1> DEFINE o == Other(p)
<1>0. /\ TypeInv /\ LinkInv /\ SentOK /\ ~faulted' /\ o \in Peers /\ o # p /\ Other(o) = p
  BY Quiet, PeerFacts DEF UdpInv, PairInv, NonceInv, LinkInv
<1>1. PICK N, K, X :
          /\ Counts(N) /\ Counts(K) /\ Marks(X)
          /\ Frames(o, N, K) /\ Sender(o, N, K, X) /\ Receiver(Other(o), N, K)
  BY DEF Carried
<1>2. /\ wire'[o] = wire[o] /\ sent'[o] = sent[o] /\ transport_closed'[o] = transport_closed[o]
      /\ send_lock'[o] = send_lock[o]
  BY <1>0, OtherStream
<1>3. \A t \in Callers : task'[o][t] = task[o][t]
  BY <1>0, OtherStill
<1>4. Begins(sent[o], sent'[o])
  BY <1>0, SentGrows
<1>5. Receiver(p, N, K)'
  BY <1>0, <1>1, ReceiverNext
<1> HIDE DEF o
<1>6. Frames(o, N, K)'
  BY <1>0, <1>1, <1>2, <1>4, AllFramesKept
<1>7. \A a, b \in Callers : Before(o, a, b)' => Before(o, a, b)
  BY <1>2 DEF Before
<1>8. Sender(o, N, K, X)'
  BY <1>0, <1>1, <1>2, <1>3, <1>7, SenderKept
<1> QED BY <1>0, <1>1, <1>5, <1>6, <1>8 DEF Carried, o

LEMMA OrderNext ==
    ASSUME UdpInv, ChannelInv, ByteInv, OrderInv, [UdpNext]_vars, Undisturbed'
    PROVE  OrderInv'
<1> SUFFICES ASSUME NEW o \in Peers PROVE Carried(o)'
  BY DEF OrderInv
<1>1. PICK p \in Peers : UdpEffect(p)
  BY UdpStep
<1>2. Carried(o)
  BY DEF OrderInv
<1>3. CASE p = o
  BY <1>1, <1>2, <1>3, CarriedBySender
<1>4. CASE Other(p) = o
  BY <1>1, <1>2, <1>4, CarriedByReceiver
<1> QED BY <1>3, <1>4, PeerFacts

LEMMA ChannelInit == UdpInit => ChannelInv
<1> USE PeerFacts, UdpAssumption
<1> SUFFICES ASSUME UdpInit, NEW p \in Peers
             PROVE  /\ FirstKeys(p) /\ Numbered(p) /\ NextNumber(p) /\ Contiguous(p)
                    /\ NoGap(p) /\ Landed(p) /\ Quit(p)
  BY DEF ChannelInv
<1>1. \A q \in Peers : /\ wire[q] = << >> /\ read_buffer[q] = << >> /\ last_rx_seq[q] = -1
                       /\ acked[q] = FALSE /\ utacks[q] = {} /\ error[q] = "none"
                       /\ info[q].tx_key = HandshakeKey(q) /\ info[q].rx_key = HandshakeKey(Other(q))
                       /\ info[q].tx_seq = 0 /\ info[q].rx_seq = 0 /\ info[q].rx_window_bitmap = {}
  BY DEF UdpInit, Init, RecvInit
<1>2. \A q \in Peers : Len(wire[q]) = 0 /\ Len(read_buffer[q]) = 0 /\ Accepted(q) = 0
  BY <1>1 DEF Accepted
<1>3. { k \in Offsets : k < 0 } = {}
  BY DEF Offsets
<1>4. FirstKeys(p) /\ Numbered(p) /\ NextNumber(p) /\ NoGap(p) /\ Quit(p)
  BY <1>1, <1>2 DEF FirstKeys, Numbered, NextNumber, NoGap, Quit
<1>5. Contiguous(p)
  BY <1>1, <1>2, <1>3 DEF Contiguous
<1>6. Landed(p)
  BY <1>1, <1>2 DEF Landed
<1> QED BY <1>4, <1>5, <1>6

LEMMA OrderInit == UdpInit => OrderInv
<1> SUFFICES ASSUME UdpInit, NEW o \in Peers PROVE Carried(o)
  BY DEF OrderInv
<1> DEFINE N == [i \in Nat |-> 0]
           X == [t \in Callers |-> 0]
           p == Other(o)
<1>0. p \in Peers /\ Other(p) = o
  BY PeerFacts
<1>1. Counts(N) /\ Marks(X) /\ N[0] = 0
  BY DEF Counts, Marks
<1>2. /\ wire[o] = << >> /\ Len(wire[o]) = 0 /\ Len(sent[o]) = 0
      /\ \A t \in Callers : task[o][t].pc = "idle"
  BY DEF UdpInit, Init, Idle
<1>3. /\ Len(delivered[p]) = 0 /\ last_rx_seq[p] = -1 /\ recv[p].payload = << >>
      /\ Len(recv[p].payload) = 0 /\ recv[p].frame_count = 0
  BY <1>0 DEF UdpInit, RecvInit, NotReceiving
<1>4. Accepted(p) = 0 /\ At(0) = 0
  <2>1. Accepted(p) = 0
    BY <1>3 DEF Accepted
  <2>2. At(0) = 0
    BY AtFacts
  <2> QED BY <2>1, <2>2
<1> HIDE DEF N, X, p
<1>5. Frames(o, N, N)
  BY <1>1, <1>2 DEF Frames
<1>6. \A t \in Callers : ~Mid(o, t) /\ ~Unsent(o, t)
  BY <1>2 DEF Mid, Unsent
<1>7. Sender(o, N, N, X)
  BY <1>1, <1>2, <1>6 DEF Sender, Ordered, Half
<1>8. Receiver(p, N, N)
  BY <1>0, <1>1, <1>2, <1>3, <1>4 DEF Receiver, Whole, Partial
<1> QED BY <1>1, <1>5, <1>7, <1>8 DEF Carried, p

(* What recv() has returned is then the beginning of what was sent. *)
LEMMA WholeInOrder ==
    ASSUME LinkInv, OrderInv, NEW p \in Peers
    PROVE  /\ Len(delivered[p]) <= Len(sent[Other(p)])
           /\ delivered[p] = SubSeq(Submitted(Other(p)), 1, Len(delivered[p]))
<1> DEFINE d == delivered[p]
           s == sent[Other(p)]
           v == Submitted(Other(p))
<1>0. Other(p) \in Peers /\ Other(Other(p)) = p
  BY PeerFacts
<1>1. Whole(p)
  BY <1>0 DEF OrderInv, Carried, Receiver
<1>2. d \in Seq(Text) /\ Len(d) \in Nat /\ s \in Seq(Msgs) /\ Len(s) \in Nat
  BY <1>0, LenProperties DEF LinkInv, CallsOK, SentOK
<1>3. Len(d) <= Len(s) /\ \A n \in 1 .. Len(d) : d[n] = Payload(s[n])
  BY <1>1 DEF Whole
<1>4. v = [n \in 1 .. Len(s) |-> Payload(s[n])]
  BY DEF Submitted
<1>5. SubSeq(v, 1, Len(d)) = [i \in 1 .. Len(d) |-> v[1 + i - 1]]
  BY <1>2
<1> HIDE DEF s, v
<1>6. ASSUME NEW i \in 1 .. Len(d) PROVE v[1 + i - 1] = d[i]
  <2>1. 1 + i - 1 = i /\ i \in 1 .. Len(s)
    BY <1>2, <1>3
  <2> QED BY <1>3, <1>4, <2>1
<1>7. d = [i \in 1 .. Len(d) |-> d[i]]
  BY <1>2
<1>8. SubSeq(v, 1, Len(d)) = d
  <2> HIDE DEF d
  <2> QED BY <1>5, <1>6, <1>7
<1> QED BY <1>3, <1>8 DEF d, s, v

(* Until a call fails or a rekey is started, UDPStream is a channel: what  *)
(* recv() has returned are the first messages handed to the peer's send(), *)
(* whole and in order, though the network loses, repeats and reorders the  *)
(* frames and a full buffer drops them.                                    *)
THEOREM StopAndWait == UdpSpec => []InOrder
<1> DEFINE Inv == ByteInv /\ (Undisturbed => ChannelInv /\ OrderInv)
<1>1. UdpInit => Inv
  BY ByteInit, ChannelInit, OrderInit
<1>2. UdpInv /\ Inv /\ [UdpNext]_vars => Inv'
  <2> SUFFICES ASSUME UdpInv, Inv, [UdpNext]_vars PROVE Inv'
    OBVIOUS
  <2>1. ByteInv'
    BY ByteNext
  <2>2. ASSUME Undisturbed' PROVE ChannelInv' /\ OrderInv'
    <3>1. Undisturbed
      BY <2>2, UdpStep, Quiet
    <3> QED BY <2>2, <3>1, ChannelNext, OrderNext
  <2> QED BY <2>1, <2>2
<1>3. UdpInv /\ Inv => InOrder
  <2> SUFFICES ASSUME UdpInv, Inv, Undisturbed, NEW p \in Peers
               PROVE  /\ Len(delivered[p]) <= Len(sent[Other(p)])
                      /\ delivered[p] = SubSeq(Submitted(Other(p)), 1, Len(delivered[p]))
    BY DEF InOrder, Undisturbed
  <2> QED BY WholeInOrder DEF UdpInv
<1> HIDE DEF Inv
<1> QED BY <1>1, <1>2, <1>3, UdpInvariant, PTL DEF UdpSpec

=============================================================================
