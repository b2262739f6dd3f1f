-------------------------- MODULE TcpSessionProofs --------------------------
(***************************************************************************)
(* Proofs about two sessions over a TCP connection, whatever calls fail,   *)
(* are cancelled or time out, for any sets of tasks, messages and salts,   *)
(* and any limits.                                                         *)
(*                                                                         *)
(* The steps of TcpNext have ten effects, named below.  On the sending half*)
(* each is an effect of SessionProofs; what is new is that the salt of a   *)
(* REKEY that recv() takes from the wire is one its peer drew, and that the*)
(* receiver has not seen before.  The last part follows a message through  *)
(* recv(): what it holds is the end of what it has read.                   *)
(***************************************************************************)
EXTENDS TcpSession, SessionProofs, WellFoundedInduction, NaturalsInduction

Pcs == {"idle", "reading", "pong"}

RecvCalls ==
    [pc : Pcs, payload : Text, frame_count : 0 .. MaxFrames - 1,
     expected_frag_seq : Nat, ctrl_count : Nat]

LinkInv ==
    /\ frames_read \in [Peers -> Nat]
    /\ recv \in [Peers -> RecvCalls]
    /\ \A p \in Peers :
          /\ \A i \in 1 .. Len(wire[p]) : FrameOK(wire[p][i])
          /\ frames_read[p] <= Len(wire[Other(p)])
          /\ info[p].rx_seq <= MaxSeq
          /\ recv[p].pc = "pong" <=> task[p][RecvTask].pc # "idle"

-----------------------------------------------------------------------------
(* The effects.  First those of the calls that send. *)
Still == UNCHANGED <<recv, delivered, frames_read>>

Calls(p) ==
    /\ \E t \in Tasks : \E op, data :
          /\ Joins(p, t, op, data)
          /\ op # "PONG"
          /\ op = "REKEY" => \A q \in Peers : data[1] \notin salts[q]
    /\ UNCHANGED info
    /\ Still

WritesOut(p) == (\E t \in Callers : \E c : Writes(p, t, c)) /\ Still

CallEnds(p) == (\E t \in Tasks : Leaves(p, t)) /\ UNCHANGED info /\ Still

Rekeys(p) == (\E t \in Tasks : RekeyDone(p, t)) /\ Still

(* The PONG is out, or has failed. *)
PongEnds(p) ==
    /\ recv[p].pc = "pong"
    /\ Leaves(p, RecvTask)
    /\ UNCHANGED <<info, delivered, frames_read>>
    /\ \/ recv' = [recv EXCEPT ![p] = NotReceiving]
       \/ \E n \in Nat : recv' = [recv EXCEPT ![p] = [recv[p] EXCEPT !.pc = "reading", !.ctrl_count = n]]

(* recv() starts, or ends without a message; or a transport closes. *)
Restarts(p) ==
    /\ UNCHANGED <<info, delivered>>
    /\ Stands
    /\ \/ UNCHANGED <<recv, frames_read>>
       \/ /\ recv[p].pc # "pong"
          /\ \/ recv' = [recv EXCEPT ![p] = Receiving] /\ UNCHANGED frames_read
             \/ /\ recv' = [recv EXCEPT ![p] = NotReceiving]
                /\ \/ UNCHANGED frames_read
                   \/ /\ frames_read[p] < Len(wire[Other(p)])
                      /\ frames_read' = [frames_read EXCEPT ![p] = @ + 1]

(* recv() takes the next frame, which is in order and authentic. *)
Takes(p) ==
    /\ recv[p].pc = "reading"
    /\ frames_read[p] < Len(wire[Other(p)])
    /\ frames_read' = [frames_read EXCEPT ![p] = @ + 1]
    /\ NextFrame(p).key = info[p].rx_key
    /\ NextFrame(p).seq = info[p].rx_seq
    /\ NextFrame(p).seq < MaxSeq

Moved(p) == info' = [info EXCEPT ![p] = [info[p] EXCEPT !.rx_seq = @ + 1]]

(* The new state of the call after a frame that is no REKEY, no PING, and  *)
(* no message in itself.                                                   *)
Follows(p, f, r) ==
    \/ r = NotReceiving
    \/ \E n \in Nat : r = [recv[p] EXCEPT !.pc = "reading", !.ctrl_count = n]
                      /\ ~MidMessage(p)
    \/ /\ f.type = "DATA_FRAG"
       /\ recv[p].frame_count + 1 < MaxFrames
       /\ recv[p].frame_count = 0 \/ f.seq = recv[p].expected_frag_seq
       /\ r = [recv[p] EXCEPT !.payload = recv[p].payload \o f.body,
                              !.frame_count = recv[p].frame_count + 1,
                              !.expected_frag_seq = f.seq + 1]

Reads(p) ==
    /\ Takes(p)
    /\ Moved(p)
    /\ Stands
    /\ UNCHANGED delivered
    /\ \E r : recv' = [recv EXCEPT ![p] = r] /\ Follows(p, NextFrame(p), r)

Delivers(p) ==
    /\ Takes(p)
    /\ Moved(p)
    /\ Stands
    /\ NextFrame(p).type = "DATA"
    /\ recv[p].frame_count = 0 \/ NextFrame(p).seq = recv[p].expected_frag_seq
    /\ Returns(p, recv[p].payload \o NextFrame(p).body)

Answers(p) ==
    /\ Takes(p)
    /\ Moved(p)
    /\ ~MidMessage(p)
    /\ Joins(p, RecvTask, "PONG", << >>)
    /\ recv' = [recv EXCEPT ![p] = [recv[p] EXCEPT !.pc = "pong"]]
    /\ UNCHANGED delivered

Accepts(p) ==
    /\ Takes(p)
    /\ ~MidMessage(p)
    /\ NextFrame(p).type = "REKEY"
    /\ AcceptRekey(p, NextFrame(p).body[1])
    /\ UNCHANGED <<recv, delivered>>

TcpEffect(p) ==
    \/ Calls(p) \/ WritesOut(p) \/ CallEnds(p) \/ Rekeys(p)
    \/ PongEnds(p) \/ Restarts(p)
    \/ Reads(p) \/ Delivers(p) \/ Answers(p) \/ Accepts(p)

LEMMA CountEffect ==
    ASSUME LinkInv, NEW p \in Peers, CountControl(p)
    PROVE  /\ UNCHANGED delivered
           /\ \/ recv' = [recv EXCEPT ![p] = NotReceiving]
              \/ \E n \in Nat : recv' = [recv EXCEPT ![p] = [recv[p] EXCEPT !.pc = "reading", !.ctrl_count = n]]
<1>1. recv[p].ctrl_count \in Nat
  BY DEF LinkInv, RecvCalls
<1>2. PICK n \in {recv[p].ctrl_count + 1, 1} :
          IF n > CtrlLimit
          THEN Raises(p, "closed")
          ELSE Continues(p, [recv[p] EXCEPT !.pc = "reading", !.ctrl_count = n])
  BY DEF CountControl
<1>3. n \in Nat
  BY <1>1, <1>2
<1> QED BY <1>2, <1>3 DEF Raises, Continues

(* A step by a call that sends. *)
LEMMA SendEffects ==
    ASSUME TypeInv, QueueInv, LinkInv, NEW p \in Peers,
           \/ CallStep(p) /\ UNCHANGED <<recvVars, tcpVars>>
           \/ SendStep(p) /\ UNCHANGED tcpVars
           \/ ConnectionLost(p) /\ UNCHANGED tcpVars
           \/ CancelCall(p)
    PROVE  TcpEffect(p)
<1>1. CASE CallStep(p) /\ UNCHANGED <<recvVars, tcpVars>>
  <2>1. Still
    BY <1>1 DEF Still, recvVars, tcpVars
  <2>2. Calls(p)
    BY <1>1, <2>1, CallEffect DEF Calls
  <2> QED BY <2>2 DEF TcpEffect
<1>2. CASE SendStep(p) /\ UNCHANGED tcpVars
  <2>1. Still
    BY <1>2 DEF SendStep, Still, recvVars, tcpVars
  <2>2. PICK t \in Tasks :
            \/ Acquire(p, t)
            \/ SendOverflow(p, t)
            \/ DrainReturns(p) /\ (NextFragment(p, t) \/ SendDone(p, t) \/ RekeyDone(p, t))
    BY <1>2 DEF SendStep
  <2>3. t \in Callers
    BY DEF Callers
  <2>4. CASE Acquire(p, t) \/ NextFragment(p, t)
    BY <2>1, <2>3, <2>4, WriteEffect DEF WritesOut, TcpEffect
  <2>5. CASE SendOverflow(p, t) \/ SendDone(p, t)
    BY <2>1, <2>3, <2>5, LeaveEffect DEF CallEnds, TcpEffect
  <2>6. CASE RekeyDone(p, t)
    BY <2>1, <2>6 DEF Rekeys, TcpEffect
  <2> QED BY <2>2, <2>4, <2>5, <2>6
<1>3. CASE (ConnectionLost(p) /\ UNCHANGED tcpVars) \/ CancelCall(p)
  <2>1. Still
    BY <1>3 DEF ConnectionLost, CancelCall, Still, recvVars, tcpVars
  <2>2. PICK t \in Tasks : CancelWait(p, t) \/ DrainFails(p, t)
    BY <1>3 DEF ConnectionLost, CancelCall
  <2>3. t \in Callers
    BY DEF Callers
  <2> QED BY <2>1, <2>2, <2>3, LeaveEffect DEF CallEnds, TcpEffect
<1> QED BY <1>1, <1>2, <1>3

(* recv() answers a PING. *)
LEMMA PongEffects ==
    ASSUME TypeInv, QueueInv, LinkInv, NEW p \in Peers,
           PongStep(p) /\ UNCHANGED tcpVars
    PROVE  TcpEffect(p)
<1> USE DEF Callers
<1>1. UNCHANGED frames_read
  BY DEF tcpVars
<1>2. CASE Acquire(p, RecvTask) /\ UNCHANGED recvVars
  <2>1. Still
    BY <1>1, <1>2 DEF Still, recvVars
  <2> QED BY <1>2, <2>1, WriteEffect DEF WritesOut, TcpEffect
<1>3. CASE PongSent(p)
  <2>1. recv[p].pc = "pong" /\ SendDone(p, RecvTask) /\ CountControl(p)
    BY <1>3 DEF PongSent
  <2>2. Leaves(p, RecvTask) /\ UNCHANGED info
    BY <2>1, LeaveEffect
  <2>3. PongEnds(p)
    BY <1>1, <2>1, <2>2, CountEffect DEF PongEnds
  <2> QED BY <2>3 DEF TcpEffect
<1>4. CASE PongOverflow(p) \/ PongFails(p)
  <2>1. recv[p].pc = "pong" /\ (SendOverflow(p, RecvTask) \/ DrainFails(p, RecvTask))
    BY <1>4 DEF PongOverflow, PongFails
  <2>2. Leaves(p, RecvTask) /\ UNCHANGED info
    BY <2>1, LeaveEffect
  <2>3. UNCHANGED delivered /\ recv' = [recv EXCEPT ![p] = NotReceiving]
    BY <1>4, TcpAssumption DEF PongOverflow, PongFails, Raises
  <2>4. PongEnds(p)
    BY <1>1, <2>1, <2>2, <2>3 DEF PongEnds
  <2> QED BY <2>4 DEF TcpEffect
<1> QED BY <1>2, <1>3, <1>4 DEF PongStep

(* recv() starts or stops without taking a frame, or a transport closes. *)
LEMMA RestartEffects ==
    ASSUME TypeInv, QueueInv, LinkInv, NEW p \in Peers,
           \/ StartRecv(p) /\ UNCHANGED tcpVars
           \/ RecvRejects(p)
           \/ RecvEof(p)
           \/ RecvTimesOut(p)
           \/ Teardown(p) /\ UNCHANGED tcpVars
    PROVE  TcpEffect(p)
<1>1. CASE StartRecv(p) /\ UNCHANGED tcpVars
  <2>1. /\ UNCHANGED sessionVars /\ UNCHANGED <<delivered, frames_read>>
        /\ recv[p].pc = "idle" /\ recv' = [recv EXCEPT ![p] = Receiving]
    BY <1>1 DEF StartRecv, tcpVars
  <2>2. Stands /\ UNCHANGED info
    BY <2>1, StandStill DEF sessionVars
  <2>3. Restarts(p)
    BY <2>1, <2>2 DEF Restarts
  <2> QED BY <2>3 DEF TcpEffect
<1>2. CASE RecvRejects(p)
  <2>1. /\ UNCHANGED sessionVars /\ UNCHANGED delivered
        /\ recv[p].pc = "reading" /\ recv' = [recv EXCEPT ![p] = NotReceiving]
        /\ frames_read[p] < Len(wire[Other(p)])
        /\ frames_read' = [frames_read EXCEPT ![p] = @ + 1]
    BY <1>2 DEF RecvRejects, CanRead, Raises, Consume
  <2>2. Stands /\ UNCHANGED info
    BY <2>1, StandStill DEF sessionVars
  <2>3. Restarts(p)
    BY <2>1, <2>2 DEF Restarts
  <2> QED BY <2>3 DEF TcpEffect
<1>3. CASE RecvEof(p)
  <2>1. /\ UNCHANGED sessionVars /\ UNCHANGED <<delivered, frames_read>>
        /\ recv[p].pc = "reading" /\ recv' = [recv EXCEPT ![p] = NotReceiving]
    BY <1>3 DEF RecvEof, Raises, tcpVars
  <2>2. Stands /\ UNCHANGED info
    BY <2>1, StandStill DEF sessionVars
  <2>3. Restarts(p)
    BY <2>1, <2>2 DEF Restarts
  <2> QED BY <2>3 DEF TcpEffect
<1>4. CASE RecvTimesOut(p)
  <2>1. /\ UNCHANGED <<delivered, frames_read>>
        /\ recv' = [recv EXCEPT ![p] = NotReceiving]
        /\ \/ recv[p].pc = "reading" /\ UNCHANGED sessionVars
           \/ recv[p].pc = "pong" /\ (CancelWait(p, RecvTask) \/ DrainFails(p, RecvTask))
    BY <1>4 DEF RecvTimesOut, RecvTimeout
  <2>2. CASE recv[p].pc = "reading" /\ UNCHANGED sessionVars
    <3>1. Stands /\ UNCHANGED info
      BY <2>2, StandStill DEF sessionVars
    <3>2. Restarts(p)
      BY <2>1, <2>2, <3>1 DEF Restarts
    <3> QED BY <3>2 DEF TcpEffect
  <2>3. CASE recv[p].pc = "pong" /\ (CancelWait(p, RecvTask) \/ DrainFails(p, RecvTask))
    <3>1. Leaves(p, RecvTask) /\ UNCHANGED info
      BY <2>3, LeaveEffect DEF Callers
    <3>2. PongEnds(p)
      BY <2>1, <2>3, <3>1 DEF PongEnds
    <3> QED BY <3>2 DEF TcpEffect
  <2> QED BY <2>1, <2>2, <2>3
<1>5. CASE Teardown(p) /\ UNCHANGED tcpVars
  <2>1. /\ UNCHANGED <<info, send_lock, task, wire, closed, salts, recv, delivered, frames_read>>
        /\ transport_closed' = [transport_closed EXCEPT ![p] = TRUE]
    BY <1>5 DEF Teardown, tcpVars, recvVars
  <2>2. SameKeys
    BY <2>1, UnchangedKeys
  <2>3. Stands
    BY <2>1, <2>2 DEF Stands, TypeInv
  <2>4. Restarts(p)
    BY <2>1, <2>3 DEF Restarts
  <2> QED BY <2>4 DEF TcpEffect
<1> QED BY <1>1, <1>2, <1>3, <1>4, <1>5

LEMMA MovedKeys ==
    ASSUME TypeInv, NEW p \in Peers, Moved(p)
    PROVE  /\ SameKeys
           /\ info'[p].rx_seq = info[p].rx_seq + 1
           /\ \A q \in Peers : q # p => info'[q] = info[q]
<1>1. PICK K : info \in [Peers -> Infos(K)]
  BY DEF TypeInv
<1> DEFINE i == [info[p] EXCEPT !.rx_seq = @ + 1]
<1>2. /\ i \in Infos(K) /\ i.rx_seq = info[p].rx_seq + 1
      /\ i.tx_key = info[p].tx_key /\ i.rx_key = info[p].rx_key /\ i.tx_seq = info[p].tx_seq
  BY <1>1 DEF Infos
<1>3. info' = [info EXCEPT ![p] = i]
  BY DEF Moved
<1> HIDE DEF i
<1>4. info' \in [Peers -> Infos(K)] /\ info'[p] = i /\ \A q \in Peers : q # p => info'[q] = info[q]
  BY <1>1, <1>2, <1>3
<1>5. \A q \in Peers : /\ info'[q].tx_key = info[q].tx_key
                       /\ info'[q].rx_key = info[q].rx_key
                       /\ info'[q].tx_seq = info[q].tx_seq
  BY <1>2, <1>4
<1>6. SameKeys
  BY <1>4, <1>5 DEF SameKeys
<1> QED BY <1>2, <1>4, <1>6

(* The frame that recv() reads next is one of the peer's. *)
LEMMA NextFrameOK ==
    ASSUME LinkInv, NEW p \in Peers, frames_read[p] < Len(wire[Other(p)]), TypeInv
    PROVE  /\ frames_read[p] + 1 \in 1 .. Len(wire[Other(p)])
           /\ NextFrame(p) = wire[Other(p)][frames_read[p] + 1]
           /\ FrameOK(NextFrame(p))
<1>1. Other(p) \in Peers
  BY PeerFacts
<1>2. Len(wire[Other(p)]) \in Nat
  BY <1>1, LenProperties DEF TypeInv
<1>3. frames_read[p] \in Nat
  BY DEF LinkInv
<1>4. frames_read[p] + 1 \in 1 .. Len(wire[Other(p)])
  BY <1>2, <1>3
<1> QED BY <1>1, <1>4 DEF LinkInv, NextFrame

(* recv() takes a frame. *)
LEMMA FrameEffects ==
    ASSUME TypeInv, QueueInv, LinkInv, NEW p \in Peers, RecvFrame(p)
    PROVE  TcpEffect(p)
<1> DEFINE f == NextFrame(p)
           i == [info[p] EXCEPT !.rx_seq = @ + 1]
<1>1. /\ recv[p].pc = "reading" /\ frames_read[p] < Len(wire[Other(p)])
      /\ frames_read' = [frames_read EXCEPT ![p] = @ + 1]
      /\ RejectReason(p) = "none"
      /\ Dispatch(p, f, i)
  BY DEF RecvFrame, CanRead, Consume
<1>2. FrameOK(f)
  BY <1>1, NextFrameOK
<1>3. Takes(p)
  <2>1. f.key = info[p].rx_key /\ ~(f.seq >= MaxSeq) /\ f.seq = info[p].rx_seq
    BY <1>1 DEF RejectReason
  <2>2. f.seq < MaxSeq
    BY <1>2, <2>1, SeqAssumption DEF FrameOK
  <2> QED BY <1>1, <2>1, <2>2 DEF Takes
<1>4. info' = [info EXCEPT ![p] = i] => Moved(p)
  BY DEF Moved
<1>5. ASSUME info' = [info EXCEPT ![p] = i],
             UNCHANGED <<send_lock, task, wire, closed, transport_closed, salts, sent, calls>>
      PROVE  Moved(p) /\ Stands
  <2>1. Moved(p)
    BY <1>5 DEF Moved
  <2>2. SameKeys
    BY <2>1, MovedKeys
  <2> QED BY <1>5, <2>1, <2>2 DEF Stands, TypeInv
<1> HIDE DEF i
<1>6. ASSUME Moved(p), Stands, UNCHANGED delivered, NEW r, recv' = [recv EXCEPT ![p] = r],
             Follows(p, f, r)
      PROVE  TcpEffect(p)
  BY <1>3, <1>6 DEF Reads, TcpEffect
<1>7. Follows(p, f, NotReceiving)
  BY DEF Follows
<1>8. CASE OnBye(p, f, i) \/ OnIntruder(p, f, i)
  <2>1. recv' = [recv EXCEPT ![p] = NotReceiving] /\ UNCHANGED delivered
    BY <1>8, TcpAssumption DEF OnBye, OnIntruder, Violates, Raises
  <2>2. Moved(p) /\ Stands
    BY <1>5, <1>8 DEF OnBye, OnIntruder
  <2> QED BY <1>6, <1>7, <2>1, <2>2
<1>9. CASE OnPong(p, f, i)
  <2>1. Moved(p) /\ Stands /\ ~MidMessage(p)
    BY <1>5, <1>9 DEF OnPong
  <2>2. UNCHANGED delivered
        /\ \/ recv' = [recv EXCEPT ![p] = NotReceiving]
           \/ \E n \in Nat : recv' = [recv EXCEPT ![p] = [recv[p] EXCEPT !.pc = "reading", !.ctrl_count = n]]
    BY <1>9, CountEffect DEF OnPong
  <2>3. CASE recv' = [recv EXCEPT ![p] = NotReceiving]
    BY <1>6, <1>7, <2>1, <2>2, <2>3
  <2>4. ASSUME NEW n \in Nat,
               recv' = [recv EXCEPT ![p] = [recv[p] EXCEPT !.pc = "reading", !.ctrl_count = n]]
        PROVE  TcpEffect(p)
    <3> DEFINE r == [recv[p] EXCEPT !.pc = "reading", !.ctrl_count = n]
    <3>1. Follows(p, f, r)
      BY <2>1 DEF Follows
    <3> QED BY <1>6, <2>1, <2>2, <2>4, <3>1
  <2> QED BY <2>2, <2>3, <2>4
<1>10. CASE OnPing(p, f, i)
  <2>1. /\ ~MidMessage(p) /\ SendPong(p) /\ info' = [info EXCEPT ![p] = i]
        /\ recv' = [recv EXCEPT ![p] = [recv[p] EXCEPT !.pc = "pong"]]
        /\ UNCHANGED delivered
    BY <1>10 DEF OnPing, Continues
  <2>2. Moved(p) /\ SameKeys
    BY <1>4, <2>1, MovedKeys
  <2>3. Joins(p, RecvTask, "PONG", << >>)
    BY <2>1, <2>2 DEF SendPong, Joins
  <2> QED BY <1>3, <2>1, <2>2, <2>3 DEF Answers, TcpEffect
<1>11. CASE OnRekey(p, f, i)
  <2>1. Rotated(i, FALSE, f.body[1]) = Rotated(info[p], FALSE, f.body[1])
    <3>1. PICK K : info \in [Peers -> Infos(K)]
      BY DEF TypeInv
    <3>2. i.tx_key = info[p].tx_key /\ i.rx_key = info[p].rx_key
      BY <3>1 DEF Infos, i
    <3> QED BY <3>2 DEF Rotated
  <2>2. info' = [info EXCEPT ![p] = Rotated(@, FALSE, f.body[1])]
    BY <1>11, <2>1 DEF OnRekey
  <2>3. AcceptRekey(p, f.body[1])
    BY <1>11, <2>2 DEF OnRekey, AcceptRekey
  <2>4. Accepts(p)
    BY <1>3, <1>11, <2>3 DEF OnRekey, Accepts, recvVars
  <2> QED BY <2>4 DEF TcpEffect
<1>12. CASE OnData(p, f, i)
  <2> DEFINE payload == recv[p].payload \o f.body
             count == recv[p].frame_count + 1
             r == [recv[p] EXCEPT !.payload = payload, !.frame_count = count,
                                  !.expected_frag_seq = f.seq + 1]
  <2>1. Moved(p) /\ Stands
    BY <1>5, <1>12 DEF OnData
  <2>2. \/ Raises(p, "sequence") \/ Raises(p, "payload")
        \/ /\ recv[p].frame_count = 0 \/ f.seq = recv[p].expected_frag_seq
           /\ f.type = "DATA" /\ Returns(p, payload)
        \/ /\ recv[p].frame_count = 0 \/ f.seq = recv[p].expected_frag_seq
           /\ f.type = "DATA_FRAG" /\ count < MaxFrames /\ Continues(p, r)
    BY <1>12, TcpAssumption DEF OnData, Violates
  <2>3. CASE Raises(p, "sequence") \/ Raises(p, "payload")
    BY <1>6, <1>7, <2>1, <2>3 DEF Raises
  <2>4. CASE /\ recv[p].frame_count = 0 \/ f.seq = recv[p].expected_frag_seq
             /\ f.type = "DATA" /\ Returns(p, payload)
    BY <1>3, <2>1, <2>4 DEF Delivers, TcpEffect
  <2>5. CASE /\ recv[p].frame_count = 0 \/ f.seq = recv[p].expected_frag_seq
             /\ f.type = "DATA_FRAG" /\ count < MaxFrames /\ Continues(p, r)
    <3>1. Follows(p, f, r)
      BY <2>5 DEF Follows
    <3>2. recv' = [recv EXCEPT ![p] = r] /\ UNCHANGED delivered
      BY <2>5 DEF Continues
    <3> HIDE DEF r
    <3> QED BY <1>6, <2>1, <3>1, <3>2
  <2> QED BY <2>2, <2>3, <2>4, <2>5
<1> QED BY <1>1, <1>8, <1>9, <1>10, <1>11, <1>12 DEF Dispatch

(* Every step has one of the effects. *)
LEMMA TcpEffects ==
    ASSUME TypeInv, QueueInv, LinkInv, TcpNext
    PROVE  \E p \in Peers : TcpEffect(p)
BY SendEffects, PongEffects, RestartEffects, FrameEffects DEF TcpNext

-----------------------------------------------------------------------------
-----------------------------------------------------------------------------
(* The state of a recv() stays well formed. *)
LEMMA RecvTypes ==
    ASSUME LinkInv, NEW p \in Peers
    PROVE  /\ NotReceiving \in RecvCalls /\ NotReceiving.pc = "idle"
           /\ Receiving \in RecvCalls /\ Receiving.pc = "reading"
           /\ \A n \in Nat : LET r == [recv[p] EXCEPT !.pc = "reading", !.ctrl_count = n]
                             IN  r \in RecvCalls /\ r.pc = "reading"
           /\ LET r == [recv[p] EXCEPT !.pc = "pong"] IN r \in RecvCalls /\ r.pc = "pong"
<1>1. recv[p] \in RecvCalls
  BY DEF LinkInv
<1>2. 0 \in 0 .. MaxFrames - 1
  BY LengthAssumption
<1>3. << >> \in Text
  BY EmptySeq DEF Text
<1>4. NotReceiving \in RecvCalls /\ NotReceiving.pc = "idle"
  BY <1>2, <1>3 DEF NotReceiving, RecvCalls, Pcs
<1>5. Receiving \in RecvCalls /\ Receiving.pc = "reading"
  <2>1. Receiving = [pc |-> "reading", payload |-> << >>, frame_count |-> 0,
                     expected_frag_seq |-> 0, ctrl_count |-> 0]
    BY DEF Receiving, NotReceiving
  <2> QED BY <1>2, <1>3, <2>1 DEF RecvCalls, Pcs
<1>6. ASSUME NEW n \in Nat
      PROVE  LET r == [recv[p] EXCEPT !.pc = "reading", !.ctrl_count = n]
             IN  r \in RecvCalls /\ r.pc = "reading"
  BY <1>1 DEF RecvCalls, Pcs
<1>7. LET r == [recv[p] EXCEPT !.pc = "pong"] IN r \in RecvCalls /\ r.pc = "pong"
  BY <1>1 DEF RecvCalls, Pcs
<1> QED BY <1>4, <1>5, <1>6, <1>7

LEMMA FollowType ==
    ASSUME LinkInv, NEW p \in Peers, NEW f, FrameOK(f), NEW r, Follows(p, f, r),
           recv[p].pc = "reading"
    PROVE  r \in RecvCalls /\ r.pc # "pong"
<1>1. recv[p] \in RecvCalls
  BY DEF LinkInv
<1>2. CASE r = NotReceiving
  BY <1>2, RecvTypes
<1>3. CASE \E n \in Nat : r = [recv[p] EXCEPT !.pc = "reading", !.ctrl_count = n]
  <2>1. PICK n \in Nat : r = [recv[p] EXCEPT !.pc = "reading", !.ctrl_count = n]
    BY <1>3
  <2> QED BY <1>1, <2>1 DEF RecvCalls, Pcs
<1>4. CASE /\ recv[p].frame_count + 1 < MaxFrames
           /\ r = [recv[p] EXCEPT !.payload = recv[p].payload \o f.body,
                                  !.frame_count = recv[p].frame_count + 1,
                                  !.expected_frag_seq = f.seq + 1]
  <2>1. recv[p].payload \o f.body \in Text
    <3>1. recv[p].payload \in Text /\ f.body \in Text
      BY <1>1 DEF RecvCalls, FrameOK
    <3> QED BY <3>1, ConcatProperties DEF Text
  <2>2. recv[p].frame_count + 1 \in 0 .. MaxFrames - 1
    BY <1>1, <1>4, LengthAssumption DEF RecvCalls
  <2>3. f.seq + 1 \in Nat
    BY SeqAssumption DEF FrameOK
  <2>4. PICK x, y, z : x = recv[p].payload \o f.body /\ y = recv[p].frame_count + 1 /\ z = f.seq + 1
    OBVIOUS
  <2>5. r = [recv[p] EXCEPT !.payload = x, !.frame_count = y, !.expected_frag_seq = z]
    BY <1>4, <2>4
  <2>6. x \in Text /\ y \in 0 .. MaxFrames - 1 /\ z \in Nat
    BY <2>1, <2>2, <2>3, <2>4
  <2>7. r \in RecvCalls /\ r.pc = recv[p].pc
    BY <1>1, <2>5, <2>6 DEF RecvCalls
  <2> QED BY <2>7
<1> QED BY <1>2, <1>3, <1>4 DEF Follows

(* The parts of LinkInv that a step touches. *)
ReadsOK ==
    /\ frames_read \in [Peers -> Nat]
    /\ \A q \in Peers : frames_read[q] <= Len(wire[Other(q)])
    /\ \A q \in Peers : \A i \in 1 .. Len(wire[q]) : FrameOK(wire[q][i])

CallsOK ==
    /\ recv \in [Peers -> RecvCalls]
    /\ \A q \in Peers : recv[q].pc = "pong" <=> task[q][RecvTask].pc # "idle"

NumbersOK == \A q \in Peers : info[q].rx_seq <= MaxSeq

LEMMA LinkParts == LinkInv <=> ReadsOK /\ CallsOK /\ NumbersOK
BY DEF LinkInv, ReadsOK, CallsOK, NumbersOK

(* The wire is only ever longer, by well-formed frames. *)
LEMMA ReadsNext ==
    ASSUME TypeInv, LinkInv, NEW p \in Peers, TcpEffect(p)
    PROVE  ReadsOK'
<1>1. ReadsOK
  BY LinkParts
<1>2. CASE WritesOut(p)
  <2>1. PICK t, c : t \in Callers /\ Writes(p, t, c)
    BY <1>2 DEF WritesOut
  <2>2. /\ \A q \in Peers : q # p => wire'[q] = wire[q]
        /\ Longer(wire[p], wire'[p], SealedFrame(p, c))
        /\ FrameOK(SealedFrame(p, c))
    BY <2>1, WriteFacts
  <2>3. UNCHANGED frames_read
    BY <1>2 DEF WritesOut, Still
  <2>4. \A q \in Peers : frames_read[q] <= Len(wire'[Other(q)])
    <3> SUFFICES ASSUME NEW q \in Peers PROVE frames_read[q] <= Len(wire'[Other(q)])
      OBVIOUS
    <3>1. Other(q) \in Peers /\ frames_read[q] \in Nat /\ frames_read[q] <= Len(wire[Other(q)])
      BY <1>1, PeerFacts DEF ReadsOK
    <3>2. CASE Other(q) = p
      BY <2>2, <3>1, <3>2 DEF Longer
    <3>3. CASE Other(q) # p
      BY <2>2, <3>1, <3>3
    <3> QED BY <3>2, <3>3
  <2>5. \A q \in Peers : \A i \in 1 .. Len(wire'[q]) : FrameOK(wire'[q][i])
    <3> SUFFICES ASSUME NEW q \in Peers, NEW i \in 1 .. Len(wire'[q]) PROVE FrameOK(wire'[q][i])
      OBVIOUS
    <3>1. CASE q = p
      BY <1>1, <2>2, <3>1 DEF ReadsOK, Longer
    <3>2. CASE q # p
      BY <1>1, <2>2, <3>2 DEF ReadsOK
    <3> QED BY <3>1, <3>2
  <2> QED BY <1>1, <2>3, <2>4, <2>5 DEF ReadsOK, FrameOK
<1>3. CASE ~WritesOut(p)
  <2>1. UNCHANGED wire
    <3>1. CASE Calls(p) \/ Answers(p)
      BY <3>1, JoinFacts DEF Calls, Answers, Callers
    <3>2. CASE CallEnds(p) \/ Rekeys(p) \/ PongEnds(p)
      BY <3>2 DEF CallEnds, Rekeys, PongEnds, Leaves, RekeyDone, Leave
    <3>3. CASE Restarts(p) \/ Reads(p) \/ Delivers(p)
      BY <3>3 DEF Restarts, Reads, Delivers, Stands
    <3>4. CASE Accepts(p)
      BY <3>4 DEF Accepts, AcceptRekey
    <3> QED BY <1>3, <3>1, <3>2, <3>3, <3>4 DEF TcpEffect
  <2>2. \/ UNCHANGED frames_read
        \/ /\ frames_read[p] < Len(wire[Other(p)])
           /\ frames_read' = [frames_read EXCEPT ![p] = @ + 1]
    BY <1>3 DEF TcpEffect, Calls, CallEnds, Rekeys, PongEnds, Restarts, Reads, Delivers,
                Answers, Accepts, Takes, Still
  <2>3. CASE UNCHANGED frames_read
    BY <1>1, <2>1, <2>3 DEF ReadsOK, FrameOK
  <2>4. CASE /\ frames_read[p] < Len(wire[Other(p)])
             /\ frames_read' = [frames_read EXCEPT ![p] = @ + 1]
    <3>1. frames_read[p] \in Nat /\ Len(wire[Other(p)]) \in Nat
      BY <1>1, PeerFacts, LenProperties DEF ReadsOK, TypeInv
    <3>2. frames_read[p] + 1 \in Nat /\ frames_read[p] + 1 <= Len(wire[Other(p)])
      BY <2>4, <3>1
    <3>3. \A q \in Peers : frames_read'[q] = IF q = p THEN frames_read[p] + 1 ELSE frames_read[q]
      BY <1>1, <2>4 DEF ReadsOK
    <3>4. frames_read' \in [Peers -> Nat]
      BY <1>1, <2>4, <3>2 DEF ReadsOK
    <3> QED BY <1>1, <2>1, <3>2, <3>3, <3>4 DEF ReadsOK, FrameOK
  <2> QED BY <2>2, <2>3, <2>4
<1> QED BY <1>2, <1>3

(* recv() waits for its PONG exactly while the PONG is being sent. *)
LEMMA CallsNext ==
    ASSUME TypeInv, LinkInv, NEW p \in Peers, TcpEffect(p)
    PROVE  CallsOK'
<1>1. CallsOK /\ recv[p] \in RecvCalls
  BY LinkParts DEF CallsOK
<1>2. ASSUME NEW r \in RecvCalls, recv' = [recv EXCEPT ![p] = r],
             r.pc = "pong" <=> task'[p][RecvTask].pc # "idle",
             \A q \in Peers : q # p => task'[q][RecvTask] = task[q][RecvTask]
      PROVE  CallsOK'
  <2>1. recv' \in [Peers -> RecvCalls]
        /\ \A q \in Peers : recv'[q] = IF q = p THEN r ELSE recv[q]
    BY <1>1, <1>2 DEF CallsOK
  <2> QED BY <1>1, <1>2, <2>1 DEF CallsOK, RecvCalls, Text
<1>3. ASSUME UNCHANGED recv,
             \A q \in Peers : task'[q][RecvTask].pc # "idle" <=> task[q][RecvTask].pc # "idle"
      PROVE  CallsOK'
  BY <1>1, <1>3 DEF CallsOK, RecvCalls, Text
<1>4. RecvTask \in Callers /\ \A t \in Tasks : t \in Callers /\ t # RecvTask
  BY RecvTaskAssumption DEF Callers
<1>5. CASE Calls(p)
  <2>1. PICK t, op, data : t \in Tasks /\ Joins(p, t, op, data)
    BY <1>5 DEF Calls
  <2>2. \A q \in Peers : task'[q][RecvTask] = task[q][RecvTask]
    BY <1>4, <2>1, JoinFacts
  <2> QED BY <1>3, <1>5, <2>2 DEF Calls, Still
<1>6. CASE WritesOut(p)
  <2>1. PICK t, c : t \in Callers /\ Writes(p, t, c)
    BY <1>6 DEF WritesOut
  <2>2. \A q \in Peers : task'[q][RecvTask].pc # "idle" <=> task[q][RecvTask].pc # "idle"
    <3>1. /\ task[p][t].pc # "idle" /\ task'[p][t].pc = "drain"
          /\ \A q \in Peers : \A u \in Callers : q # p \/ u # t => task'[q][u] = task[q][u]
      BY <2>1, WriteFacts
    <3> QED BY <1>4, <3>1
  <2> QED BY <1>3, <1>6, <2>2 DEF WritesOut, Still
<1>7. CASE CallEnds(p) \/ Rekeys(p)
  <2>1. PICK t \in Tasks : Leave(p, t)
    BY <1>7 DEF CallEnds, Rekeys, Leaves, RekeyDone
  <2>2. \A q \in Peers : task'[q][RecvTask] = task[q][RecvTask]
    BY <1>4, <2>1, LeaveFacts
  <2> QED BY <1>3, <1>7, <2>2 DEF CallEnds, Rekeys, Still
<1>8. CASE PongEnds(p)
  <2>1. /\ task'[p][RecvTask].pc = "idle"
        /\ \A q \in Peers : q # p => task'[q][RecvTask] = task[q][RecvTask]
    <3>1. Leave(p, RecvTask)
      BY <1>8 DEF PongEnds, Leaves
    <3>2. \A q \in Peers : \A u \in Callers : q # p \/ u # RecvTask => task'[q][u] = task[q][u]
      BY <1>4, <3>1, LeaveFacts
    <3> QED BY <1>4, <3>1, <3>2, LeaveFacts
  <2>2. PICK r \in RecvCalls : recv' = [recv EXCEPT ![p] = r] /\ r.pc # "pong"
    <3>1. CASE recv' = [recv EXCEPT ![p] = NotReceiving]
      BY <3>1, RecvTypes
    <3>2. ASSUME NEW n \in Nat,
                 recv' = [recv EXCEPT ![p] = [recv[p] EXCEPT !.pc = "reading", !.ctrl_count = n]]
          PROVE  \E r \in RecvCalls : recv' = [recv EXCEPT ![p] = r] /\ r.pc # "pong"
      <4> DEFINE r == [recv[p] EXCEPT !.pc = "reading", !.ctrl_count = n]
      <4>1. r \in RecvCalls /\ r.pc = "reading"
        BY <1>1 DEF RecvCalls, Pcs
      <4>2. recv' = [recv EXCEPT ![p] = r]
        BY <3>2
      <4> HIDE DEF r
      <4> QED BY <4>1, <4>2
    <3> QED BY <1>8, <3>1, <3>2 DEF PongEnds
  <2> QED BY <1>2, <2>1, <2>2
<1>9. CASE Restarts(p)
  <2>1. UNCHANGED task
    BY <1>9 DEF Restarts, Stands
  <2>2. CASE UNCHANGED recv
    BY <1>3, <2>1, <2>2
  <2>3. ASSUME recv[p].pc # "pong", NEW r \in {Receiving, NotReceiving},
               recv' = [recv EXCEPT ![p] = r]
        PROVE  CallsOK'
    <3>1. task[p][RecvTask].pc = "idle"
      BY <1>1, <2>3 DEF CallsOK
    <3>2. r \in RecvCalls /\ r.pc # "pong"
      BY <2>3, RecvTypes
    <3> QED BY <1>2, <2>1, <2>3, <3>1, <3>2
  <2> QED BY <1>9, <2>2, <2>3 DEF Restarts
<1>10. CASE Reads(p)
  <2>1. UNCHANGED task /\ recv[p].pc = "reading"
    BY <1>10 DEF Reads, Stands, Takes
  <2>2. PICK r : recv' = [recv EXCEPT ![p] = r] /\ Follows(p, NextFrame(p), r)
    BY <1>10 DEF Reads
  <2>3. FrameOK(NextFrame(p))
    BY <1>10, NextFrameOK DEF Reads, Takes
  <2>4. r \in RecvCalls /\ r.pc # "pong"
    BY <2>1, <2>2, <2>3, FollowType
  <2>5. task[p][RecvTask].pc = "idle"
    BY <1>1, <2>1 DEF CallsOK
  <2> QED BY <1>2, <2>1, <2>2, <2>4, <2>5
<1>11. CASE Delivers(p)
  <2>1. UNCHANGED task /\ recv[p].pc = "reading"
    BY <1>11 DEF Delivers, Stands, Takes
  <2>2. recv' = [recv EXCEPT ![p] = NotReceiving]
    BY <1>11 DEF Delivers, Returns
  <2>3. task[p][RecvTask].pc = "idle"
    BY <1>1, <2>1 DEF CallsOK
  <2>4. NotReceiving \in RecvCalls /\ NotReceiving.pc # "pong"
    BY RecvTypes
  <2> QED BY <1>2, <2>1, <2>2, <2>3, <2>4
<1>12. CASE Answers(p)
  <2>1. /\ task'[p][RecvTask].pc = "lock"
        /\ \A q \in Peers : q # p => task'[q][RecvTask] = task[q][RecvTask]
    BY <1>4, <1>12, JoinFacts DEF Answers
  <2> DEFINE r == [recv[p] EXCEPT !.pc = "pong"]
  <2>2. r \in RecvCalls /\ r.pc = "pong"
    BY <1>1 DEF RecvCalls, Pcs
  <2>3. recv' = [recv EXCEPT ![p] = r]
    BY <1>12 DEF Answers
  <2> HIDE DEF r
  <2> QED BY <1>2, <2>1, <2>2, <2>3
<1>13. CASE Accepts(p)
  <2>1. UNCHANGED <<task, recv>>
    BY <1>13 DEF Accepts, AcceptRekey
  <2> QED BY <1>3, <2>1
<1> QED BY <1>5, <1>6, <1>7, <1>8, <1>9, <1>10, <1>11, <1>12, <1>13 DEF TcpEffect

(* recv() takes no frame with the last number, so rx_seq stays in range. *)
LEMMA NumbersNext ==
    ASSUME TypeInv, LinkInv, NEW p \in Peers, TcpEffect(p)
    PROVE  NumbersOK'
<1>1. NumbersOK /\ \A q \in Peers : info[q].rx_seq \in Nat
  BY LinkParts DEF TypeInv, Infos
<1>2. CASE UNCHANGED info
  BY <1>1, <1>2 DEF NumbersOK
<1>3. CASE WritesOut(p)
  <2>1. \A q \in Peers : info'[q].rx_seq = info[q].rx_seq
    BY <1>3, WriteFacts DEF WritesOut
  <2> QED BY <1>1, <2>1 DEF NumbersOK
<1>4. CASE Rekeys(p) \/ Accepts(p)
  <2>1. PICK b \in BOOLEAN : \E s : info' = [info EXCEPT ![p] = Rotated(@, b, s)]
    BY <1>4 DEF Rekeys, RekeyDone, Accepts, AcceptRekey
  <2>a. PICK s : info' = [info EXCEPT ![p] = Rotated(@, b, s)]
    BY <2>1
  <2>2. \A q \in Peers : info'[q] = IF q = p THEN Rotated(info[p], b, s) ELSE info[q]
    BY <2>a DEF TypeInv
  <2>3. Rotated(info[p], b, s).rx_seq = 0
    BY DEF Rotated
  <2> QED BY <1>1, <2>2, <2>3, SeqAssumption DEF NumbersOK
<1>5. CASE Takes(p) /\ Moved(p)
  <2>1. /\ info'[p].rx_seq = info[p].rx_seq + 1
        /\ \A q \in Peers : q # p => info'[q] = info[q]
    BY <1>5, MovedKeys
  <2>2. info[p].rx_seq < MaxSeq
    BY <1>5 DEF Takes
  <2>3. info[p].rx_seq + 1 <= MaxSeq
    BY <1>1, <2>2, SeqAssumption
  <2> QED BY <1>1, <2>1, <2>3 DEF NumbersOK
<1> QED BY <1>2, <1>3, <1>4, <1>5 DEF TcpEffect, Calls, CallEnds, PongEnds, Restarts,
                                      Reads, Delivers, Answers

-----------------------------------------------------------------------------
(* The receiver has not seen the salt of a REKEY that it has not read. *)
Fresh(p) ==
    \A i \in 1 .. Len(wire[p]) :
        i > frames_read[Other(p)] /\ wire[p][i].type = "REKEY" =>
            wire[p][i].body[1] \notin salts[Other(p)]

FreshInv == \A p \in Peers : Fresh(p)

TcpInv == NonceInv /\ SaltInv /\ LinkInv /\ FreshInv

(* The effects as effects on two peers. *)
LEMMA EffectOfTcp ==
    ASSUME TcpInv, NEW p \in Peers, TcpEffect(p)
    PROVE  PairEffect(p)
<1> USE DEF Callers
<1>1. CASE Calls(p)
  BY <1>1 DEF Calls, Draws, PairEffect
<1>2. CASE WritesOut(p)
  BY <1>2 DEF WritesOut, PairEffect
<1>3. CASE CallEnds(p) \/ PongEnds(p)
  BY <1>3 DEF CallEnds, PongEnds, PairEffect
<1>4. CASE Rekeys(p)
  BY <1>4 DEF Rekeys, PairEffect
<1>5. CASE Restarts(p) \/ Reads(p) \/ Delivers(p)
  BY <1>5 DEF Restarts, Reads, Delivers, PairEffect
<1>6. CASE Answers(p)
  BY <1>6 DEF Answers, Draws, PairEffect
<1>7. CASE Accepts(p)
  <2> DEFINE s == NextFrame(p).body[1]
             q == Other(p)
             i == frames_read[p] + 1
  <2>1. q \in Peers /\ Other(q) = p
    BY PeerFacts
  <2>2. i \in 1 .. Len(wire[q]) /\ NextFrame(p) = wire[q][i]
    BY <1>7, NextFrameOK DEF Accepts, Takes, TcpInv, NonceInv
  <2>3. i > frames_read[p]
    BY DEF TcpInv, LinkInv
  <2>4. NextFrame(p).type = "REKEY" /\ AcceptRekey(p, s)
    BY <1>7 DEF Accepts
  <2>5. s \notin salts[p]
    BY <2>1, <2>2, <2>3, <2>4 DEF TcpInv, FreshInv, Fresh
  <2>6. TakesSalt(p, i)
    BY <2>2, <2>4, <2>5 DEF TakesSalt
  <2> QED BY <2>2, <2>6 DEF PairEffect
<1> QED BY <1>1, <1>2, <1>3, <1>4, <1>5, <1>6, <1>7 DEF TcpEffect

(* The tasks that may still send a salt: what the effects do to them. *)
LEMMA SameTasks ==
    ASSUME TypeInv, NEW p \in Peers, TcpEffect(p), ~Calls(p), ~WritesOut(p)
    PROVE  /\ UNCHANGED wire
           /\ \A q \in Peers : \A t \in Callers :
                 task'[q][t].op = "REKEY" => task'[q][t] = task[q][t]
<1> USE DEF Callers
<1>1. CASE CallEnds(p) \/ PongEnds(p) \/ Rekeys(p)
  <2>1. PICK t \in Callers : Leave(p, t)
    BY <1>1 DEF CallEnds, PongEnds, Rekeys, Leaves, RekeyDone
  <2> QED BY <2>1, LeaveFacts
<1>2. CASE Answers(p)
  <2>1. Joins(p, RecvTask, "PONG", << >>)
    BY <1>2 DEF Answers
  <2> QED BY <2>1, JoinFacts
<1>3. CASE Restarts(p) \/ Reads(p) \/ Delivers(p) \/ Accepts(p)
  BY <1>3 DEF Restarts, Reads, Delivers, Accepts, Stands, AcceptRekey
<1> QED BY <1>1, <1>2, <1>3 DEF TcpEffect

LEMMA SameSalts ==
    ASSUME TypeInv, NEW p \in Peers, TcpEffect(p), ~Calls(p), ~Accepts(p)
    PROVE  UNCHANGED salts
<1>1. CASE WritesOut(p)
  BY <1>1, WriteFacts DEF WritesOut
<1>2. CASE CallEnds(p) \/ PongEnds(p) \/ Rekeys(p)
  BY <1>2 DEF CallEnds, PongEnds, Rekeys, Leaves, RekeyDone, Leave
<1>3. CASE Answers(p)
  BY <1>3 DEF Answers, Joins
<1>4. CASE Restarts(p) \/ Reads(p) \/ Delivers(p)
  BY <1>4 DEF Restarts, Reads, Delivers, Stands
<1> QED BY <1>1, <1>2, <1>3, <1>4 DEF TcpEffect

LEMMA ReadsGrow ==
    ASSUME LinkInv, NEW p \in Peers, TcpEffect(p), NEW q \in Peers
    PROVE  frames_read[q] \in Nat /\ frames_read'[q] \in Nat /\ frames_read[q] <= frames_read'[q]
<1>1. frames_read \in [Peers -> Nat]
  BY DEF LinkInv
<1>2. UNCHANGED frames_read \/ frames_read' = [frames_read EXCEPT ![p] = @ + 1]
  BY DEF TcpEffect, Calls, WritesOut, CallEnds, Rekeys, PongEnds, Restarts, Reads, Delivers,
         Answers, Accepts, Takes, Still
<1> QED BY <1>1, <1>2

(* A salt is new to the other peer until its REKEY frame is read there. *)
LEMMA FreshNext ==
    ASSUME TcpInv, NEW p \in Peers, TcpEffect(p)
    PROVE  FreshInv'
<1> USE PeerFacts
<1>0. TypeInv /\ LinkInv /\ AllNonces /\ FreshInv /\ \A q \in Peers : Travels(q)
  BY DEF TcpInv, NonceInv, SaltInv
<1>1. PICK D : Drawn(D)
  BY DEF TcpInv, SaltInv, DrawnInv
<1>2. \A q \in Peers : frames_read[q] \in Nat /\ frames_read'[q] \in Nat
                       /\ frames_read[q] <= frames_read'[q]
  BY <1>0, ReadsGrow
<1>3. CASE Calls(p)
  <2>1. PICK t, op, data :
            /\ t \in Tasks
            /\ Joins(p, t, op, data)
            /\ op = "REKEY" => \A q \in Peers : data[1] \notin salts[q]
    BY <1>3 DEF Calls
  <2>2. UNCHANGED <<wire, frames_read>>
    BY <1>3, <2>1 DEF Calls, Still, Joins, Enqueue
  <2>3. CASE op # "REKEY"
    <3>1. UNCHANGED salts
      BY <2>1, <2>3 DEF Joins
    <3> QED BY <1>0, <2>2, <3>1 DEF FreshInv, Fresh
  <2>4. CASE op = "REKEY"
    <3>1. PICK s : s = data[1]
      OBVIOUS
    <3>2. salts' = [salts EXCEPT ![p] = @ \cup {s}] /\ \A q \in Peers : s \notin salts[q]
      BY <2>1, <2>4, <3>1 DEF Joins
    <3>3. \A q \in Peers : salts'[q] \subseteq salts[q] \cup {s}
      BY <1>0, <3>2 DEF TypeInv
    <3>4. \A q \in Peers : \A i \in 1 .. Len(wire[q]) :
              wire[q][i].type = "REKEY" => wire[q][i].body[1] # s
      BY <1>1, <3>2 DEF Drawn
    <3> QED BY <1>0, <2>2, <3>3, <3>4 DEF FreshInv, Fresh
  <2> QED BY <2>3, <2>4
<1>4. CASE WritesOut(p)
  <2>1. PICK t, c : t \in Callers /\ Writes(p, t, c)
    BY <1>4 DEF WritesOut
  <2> DEFINE f == SealedFrame(p, c)
  <2>2. /\ UNCHANGED salts
        /\ \A q \in Peers : q # p => wire'[q] = wire[q]
        /\ Longer(wire[p], wire'[p], f)
    BY <1>0, <2>1, WriteFacts
  <2>3. UNCHANGED frames_read
    BY <1>4 DEF WritesOut, Still
  <2>4. f.type = "REKEY" => f.body[1] \notin salts[Other(p)]
    BY <1>0, <2>1, SealedRekey DEF Travels
  <2> HIDE DEF f
  <2>5. Fresh(p)'
    <3>1. Fresh(p)
      BY <1>0 DEF FreshInv
    <3>2. \A i \in 1 .. Len(wire'[p]) :
              (i \in 1 .. Len(wire[p]) /\ wire'[p][i] = wire[p][i]) \/ wire'[p][i] = f
      BY <2>2 DEF Longer
    <3> QED BY <2>2, <2>3, <2>4, <3>1, <3>2 DEF Fresh
  <2>6. ASSUME NEW q \in Peers, q # p PROVE Fresh(q)'
    BY <1>0, <2>2, <2>3, <2>6 DEF FreshInv, Fresh
  <2> QED BY <2>5, <2>6 DEF FreshInv
<1>5. CASE ~Calls(p) /\ ~WritesOut(p)
  <2>1. UNCHANGED wire
    BY <1>0, <1>5, SameTasks
  <2>2. \A q \in Peers : Len(wire[q]) \in Nat
    BY <1>0, LenProperties DEF TypeInv
  <2>3. CASE ~Accepts(p)
    <3>1. UNCHANGED salts
      BY <1>0, <1>5, <2>3, SameSalts
    <3>2. ASSUME NEW q \in Peers PROVE Fresh(q)'
      <4>1. Fresh(q)
        BY <1>0 DEF FreshInv
      <4>2. \A i \in 1 .. Len(wire[q]) : i > frames_read'[Other(q)] => i > frames_read[Other(q)]
        BY <1>2, <2>2
      <4> QED BY <2>1, <3>1, <4>1, <4>2 DEF Fresh
    <3> QED BY <3>2 DEF FreshInv
  <2>4. CASE Accepts(p)
    <3> DEFINE o == Other(p)
               i == frames_read[p] + 1
               s == NextFrame(p).body[1]
    <3>1. /\ frames_read[p] < Len(wire[o]) /\ NextFrame(p).type = "REKEY"
          /\ frames_read' = [frames_read EXCEPT ![p] = @ + 1]
          /\ salts' = [salts EXCEPT ![p] = @ \cup {s}]
      BY <2>4 DEF Accepts, Takes, AcceptRekey
    <3>2. i \in 1 .. Len(wire[o]) /\ NextFrame(p) = wire[o][i] /\ i > frames_read[p] /\ i \in Nat
      BY <1>0, <1>2, <3>1, NextFrameOK
    <3>3. frames_read'[p] = i /\ \A q \in Peers : q # p => frames_read'[q] = frames_read[q]
      BY <1>0, <3>1 DEF LinkInv
    <3>4. salts'[p] = salts[p] \cup {s} /\ \A q \in Peers : q # p => salts'[q] = salts[q]
      BY <1>0, <3>1 DEF TypeInv
    <3>5. o \in Peers /\ Other(o) = p /\ o # p /\ s = wire[o][i].body[1] /\ wire[o][i].type = "REKEY"
      BY <3>1, <3>2
    <3> HIDE DEF o, i, s
    <3>6. Fresh(o) /\ Fresh(p)
      BY <1>0, <3>5 DEF FreshInv
    <3>8. ASSUME NEW j \in 1 .. Len(wire[o]), j > frames_read'[p], wire[o][j].type = "REKEY"
          PROVE  wire[o][j].body[1] \notin salts'[p]
      <4>1. j # i /\ j > frames_read[p]
        BY <1>2, <2>2, <3>2, <3>3, <3>5, <3>8
      <4> QED BY <1>0, <3>2, <3>4, <3>5, <3>6, <3>8, <4>1 DEF Fresh, Travels
    <3>9. Fresh(o)'
      BY <2>1, <3>5, <3>8 DEF Fresh
    <3>10. Fresh(p)'
      <4>1. salts'[o] = salts[o] /\ frames_read'[o] = frames_read[o] /\ Other(p) = o
        BY <3>3, <3>4, <3>5 DEF o
      <4> QED BY <2>1, <3>6, <4>1 DEF Fresh
    <3> QED BY <3>5, <3>9, <3>10 DEF FreshInv, o
  <2> QED BY <2>3, <2>4
<1> QED BY <1>3, <1>4, <1>5

-----------------------------------------------------------------------------
LEMMA TcpInitially == TcpInit => TcpInv
<1> SUFFICES ASSUME TcpInit PROVE TcpInv
  OBVIOUS
<1>1. Init
  BY DEF TcpInit
<1>2. NonceInv
  BY <1>1, NonceInit, QueueInit DEF NonceInv
<1>3. /\ \A p \in Peers : wire[p] = << >> /\ Len(wire[p]) = 0 /\ salts[p] = {}
      /\ \A p \in Peers : \A t \in Callers : task[p][t].op = "none" /\ task[p][t].pc = "idle"
      /\ \A p \in Peers : info[p].tx_key = HandshakeKey(p) /\ info[p].rx_seq = 0
  BY <1>1 DEF Init, Idle
<1>4. LinkInv
  <2>1. frames_read \in [Peers -> Nat] /\ \A p \in Peers : frames_read[p] = 0
    BY DEF TcpInit
  <2>2. NotReceiving \in RecvCalls /\ NotReceiving.pc = "idle"
    <3>1. 0 \in 0 .. MaxFrames - 1 /\ << >> \in Text
      BY LengthAssumption, EmptySeq DEF Text
    <3> QED BY <3>1 DEF NotReceiving, RecvCalls, Pcs
  <2>3. recv \in [Peers -> RecvCalls] /\ \A p \in Peers : recv[p].pc = "idle"
    BY <2>2 DEF TcpInit, RecvInit
  <2> QED BY <1>3, <2>1, <2>3, PeerFacts, SeqAssumption DEF LinkInv, Callers
<1>5. SaltInv
  BY <1>1, PairInit DEF PairInv
<1>6. FreshInv
  BY <1>3 DEF FreshInv, Fresh
<1> QED BY <1>2, <1>4, <1>5, <1>6 DEF TcpInv

(* A step of the pair, or a stutter, has one of the effects. *)
LEMMA TcpSteps ==
    ASSUME TcpInv, [TcpNext]_vars
    PROVE  \E p \in Peers : TcpEffect(p)
<1>1. TypeInv /\ QueueInv /\ LinkInv
  BY DEF TcpInv, NonceInv
<1>2. CASE TcpNext
  BY <1>1, <1>2, TcpEffects
<1>3. CASE UNCHANGED vars
  <2>1. UNCHANGED sessionVars /\ UNCHANGED <<recv, delivered, frames_read>>
    BY <1>3 DEF vars, recvVars, tcpVars
  <2>2. Stands /\ UNCHANGED info
    BY <1>1, <2>1, StandStill DEF sessionVars
  <2>3. Restarts(Client)
    BY <2>1, <2>2 DEF Restarts
  <2> QED BY <2>3 DEF TcpEffect, Peers
<1> QED BY <1>2, <1>3

LEMMA TcpInductive ==
    ASSUME TcpInv, NEW p \in Peers, TcpEffect(p)
    PROVE  TcpInv'
<1>1. NonceInv' /\ SaltInv'
  <2>1. PairInv /\ PairEffect(p)
    BY EffectOfTcp DEF TcpInv, PairInv
  <2> QED BY <2>1, PairNext DEF PairInv
<1>2. ReadsOK' /\ CallsOK' /\ NumbersOK'
  BY ReadsNext, CallsNext, NumbersNext DEF TcpInv, NonceInv
<1>3. LinkInv'
  BY <1>2 DEF LinkInv, ReadsOK, CallsOK, NumbersOK, FrameOK
<1> QED BY <1>1, <1>3, FreshNext DEF TcpInv

(* The inductive invariant of the two sessions and their connection: the   *)
(* invariant of the sending half, the state of recv() and its place in the *)
(* stream, and the way of every salt from the call that drew it.           *)
THEOREM TcpInvariant == TcpSpec => []TcpInv
<1>1. TcpInv /\ [TcpNext]_vars => TcpInv'
  BY TcpSteps, TcpInductive
<1> QED BY <1>1, TcpInitially, PTL DEF TcpSpec

(* With both sessions, their recv() calls and the connection in place, no  *)
(* (key, number) pair of a peer ever seals two frames: what Session proves *)
(* for REKEYs that arrive with a fresh salt holds for the REKEYs that the  *)
(* peer really sends, whoever times out or is cancelled in between.        *)
THEOREM TcpNonceNeverReused == TcpSpec => []NonceUnique
<1>1. TcpInv => NonceUnique
  BY DEF TcpInv, NonceInv, AllNonces, PeerNonces, Distinct, NonceUnique
<1> QED BY <1>1, TcpInvariant, PTL

(* The two directions never use the same key, through any number of        *)
(* rotations by either side, crossed on the wire or lost half way: a key   *)
(* of the handshake differs by its half, and one of a rotation by its half *)
(* or by who drew its salt.                                                *)
THEOREM DirectionsStayApart == TcpSpec => []DirectionsApart
<1>1. TcpInv => DirectionsApart
  <2> SUFFICES ASSUME TcpInv,
                      NEW i \in 1 .. Len(wire[Client]), NEW j \in 1 .. Len(wire[Server]),
                      wire[Client][i].key = wire[Server][j].key
               PROVE  FALSE
    BY DEF DirectionsApart
  <2>1. PICK D : Drawn(D)
    BY DEF TcpInv, SaltInv, DrawnInv
  <2>2. PICK k : k = wire[Client][i].key
    OBVIOUS
  <2>3. Client \in Peers /\ Server \in Peers /\ Other(Client) = Server /\ Other(Server) = Client
        /\ Client # Server
    BY PeersAssumption DEF Peers, Other
  <2>4. Proper(D, Client, k) /\ Proper(D, Server, k)
    BY <2>1, <2>2, <2>3 DEF Drawn
  <2>5. D[Client] \cap D[Server] = {} /\ HandshakeSalt \notin D[Client] /\ HandshakeSalt \notin D[Server]
    BY <2>1, <2>3, SaltAssumption DEF Drawn
  <2> QED BY <2>3, <2>4, <2>5 DEF Proper
<1> QED BY <1>1, TcpInvariant, PTL

(* Types, and what the types say of the connection: rx_seq never passes    *)
(* the last number, recv() never reads past what was written, holds fewer  *)
(* fragments than a message may have, and waits for a PONG exactly while   *)
(* that PONG is being sent.                                                *)
THEOREM TcpTypeCorrect == TcpSpec => []TcpTypeOK
<1> DEFINE FaultsOK == faults \in 0 .. MaxFaults
<1>1. TcpInit => FaultsOK
  BY TcpAssumption DEF TcpInit
<1>2. FaultsOK /\ [TcpNext]_vars => FaultsOK'
  <2> SUFFICES ASSUME FaultsOK, [TcpNext]_vars PROVE FaultsOK'
    OBVIOUS
  <2>1. UNCHANGED faults \/ Fault
    BY DEF vars, tcpVars, TcpNext, CancelCall, RecvFrame, RecvRejects, RecvEof, RecvTimesOut,
           Consume
  <2> QED BY <2>1, TcpAssumption DEF Fault
<1>3. TcpInv /\ FaultsOK => TcpTypeOK
  <2> SUFFICES ASSUME TcpInv, FaultsOK PROVE TcpTypeOK
    OBVIOUS
  <2>1. TypeOK
    <3>1. \A p \in Peers : info[p].tx_seq \in 0 .. MaxSeq
      BY DEF TcpInv, NonceInv, TypeInv, Infos
    <3>2. \A p \in Peers : info[p].tx_key.salt \in Salts \cup {HandshakeSalt}
      BY DEF TcpInv, NonceInv, AllNonces, TypeInv, PeerNonces, SaltsKnown, KnownSalts
    <3> QED BY <3>1, <3>2 DEF TcpInv, NonceInv, TypeInv, TypeOK
  <2>2. ASSUME NEW p \in Peers
        PROVE  /\ info[p].rx_seq \in 0 .. MaxSeq
               /\ frames_read[p] \in 0 .. Len(wire[Other(p)])
               /\ recv[p].pc \in {"idle", "reading", "pong"}
               /\ recv[p].frame_count \in 0 .. MaxFrames - 1
               /\ recv[p].pc = "pong" <=> task[p][RecvTask].pc # "idle"
    <3>1. info[p].rx_seq \in Nat
      BY DEF TcpInv, NonceInv, TypeInv, Infos
    <3>2. Len(wire[Other(p)]) \in Nat
      BY PeerFacts, LenProperties DEF TcpInv, NonceInv, TypeInv
    <3>3. /\ frames_read[p] \in Nat /\ frames_read[p] <= Len(wire[Other(p)])
          /\ info[p].rx_seq <= MaxSeq /\ recv[p] \in RecvCalls
          /\ recv[p].pc = "pong" <=> task[p][RecvTask].pc # "idle"
      BY DEF TcpInv, LinkInv
    <3>4. recv[p].pc \in Pcs /\ recv[p].frame_count \in 0 .. MaxFrames - 1
      BY <3>3 DEF RecvCalls
    <3> QED BY <3>1, <3>2, <3>3, <3>4, SeqAssumption DEF Pcs
  <2> QED BY <2>1, <2>2 DEF TcpTypeOK
<1>4. TcpSpec => []FaultsOK
  BY <1>1, <1>2, PTL DEF TcpSpec
<1> QED BY <1>3, <1>4, TcpInvariant, PTL

-----------------------------------------------------------------------------
(* What recv() returns.  x is the concatenation of the bodies of frames a  *)
(* to b of w, built up from the left by g.                                 *)
Partial(g, w, a, b) ==
    g = [i \in 1 .. b - a + 1 |-> IF i = 1 THEN w[a].body ELSE g[i - 1] \o w[a + i - 1].body]

Joined(x, w, a, b) == \E g : Partial(g, w, a, b) /\ x = g[b - a + 1]

(* Frames a to b - 1 are fragments that lead up to frame b. *)
Piece(w, a, b) ==
    \A k \in a .. b - 1 :
        /\ w[k].type = "DATA_FRAG"
        /\ w[k].key = w[b].key
        /\ w[k].seq = w[b].seq - (b - k)

LEMMA PartialUnique ==
    ASSUME NEW w, NEW a \in Nat, NEW b \in Nat, NEW g, NEW h,
           Partial(g, w, a, b), Partial(h, w, a, b)
    PROVE  g = h
<1> DEFINE R == OpToRel(<, Nat)
           T == { i \in 1 .. b - a + 1 : g[i] # h[i] }
<1>1. /\ \A i \in 1 .. b - a + 1 :
            /\ g[i] = IF i = 1 THEN w[a].body ELSE g[i - 1] \o w[a + i - 1].body
            /\ h[i] = IF i = 1 THEN w[a].body ELSE h[i - 1] \o w[a + i - 1].body
      /\ g = [i \in 1 .. b - a + 1 |-> g[i]]
      /\ h = [i \in 1 .. b - a + 1 |-> h[i]]
  BY DEF Partial
<1>2. SUFFICES ASSUME T # {} PROVE FALSE
  BY <1>1
<1>3. T \subseteq Nat
  OBVIOUS
<1>4. PICK i \in T : \A j \in T : ~(<<j, i>> \in R)
  <2> HIDE DEF R, T
  <2>1. IsWellFoundedOn(R, Nat)
    BY NatLessThanWellFounded DEF R
  <2> QED BY <1>2, <1>3, <2>1, WFMin
<1>5. i \in 1 .. b - a + 1 /\ g[i] # h[i]
  OBVIOUS
<1>6. CASE i = 1
  BY <1>1, <1>5, <1>6
<1>7. CASE i # 1
  <2>1. i - 1 \in 1 .. b - a + 1 /\ i - 1 \in Nat /\ i \in Nat /\ i - 1 < i
    BY <1>5, <1>7
  <2>2. <<i - 1, i>> \in R
    BY <2>1 DEF OpToRel
  <2>3. g[i - 1] = h[i - 1]
    BY <1>4, <2>1, <2>2
  <2> HIDE DEF R, T
  <2>4. g[i] = g[i - 1] \o w[a + i - 1].body
    BY <1>1, <1>5, <1>7
  <2>5. h[i] = h[i - 1] \o w[a + i - 1].body
    BY <1>1, <1>5, <1>7
  <2> QED BY <1>5, <2>3, <2>4, <2>5
<1> QED BY <1>6, <1>7

(* FlattenSeq computes that concatenation. *)
LEMMA JoinedFlattens ==
    ASSUME NEW w, NEW a \in Nat, NEW b \in Nat, a <= b,
           \A i \in a .. b : w[i].body \in Text,
           NEW x, Joined(x, w, a, b)
    PROVE  SeqExt!FlattenSeq([k \in 1 .. b - a + 1 |-> w[a + k - 1].body]) = x
<1> DEFINE n == b - a + 1
           s == [k \in 1 .. n |-> w[a + k - 1].body]
<1>1. n \in Nat /\ n > 0 /\ 1 \in 1 .. n /\ n \in 1 .. n
  OBVIOUS
<1>2. s \in Seq(Text) /\ Len(s) = n
  <2>1. \A k \in 1 .. n : a + k - 1 \in a .. b
    OBVIOUS
  <2>2. s \in [1 .. n -> Text]
    BY <2>1
  <2>3. s \in Seq(Text)
    BY <1>1, <2>2, SeqDef
  <2> QED BY <1>1, <2>2, <2>3, LenProperties
<1>3. PICK g : Partial(g, w, a, b) /\ x = g[n]
  BY DEF Joined
<1>4. \A h : h = [i \in 1 .. Len(s) |-> IF i = 1 THEN s[i] ELSE h[i - 1] \o s[i]]
             <=> Partial(h, w, a, b)
  <2> SUFFICES ASSUME NEW h
               PROVE  h = [i \in 1 .. Len(s) |-> IF i = 1 THEN s[i] ELSE h[i - 1] \o s[i]]
                      <=> Partial(h, w, a, b)
    OBVIOUS
  <2>1. \A i \in 1 .. n : s[i] = w[a + i - 1].body /\ (i = 1 => w[a + i - 1] = w[a])
    OBVIOUS
  <2> HIDE DEF s
  <2>2. [i \in 1 .. Len(s) |-> IF i = 1 THEN s[i] ELSE h[i - 1] \o s[i]]
        = [i \in 1 .. n |-> IF i = 1 THEN w[a].body ELSE h[i - 1] \o w[a + i - 1].body]
    BY <1>2, <2>1
  <2> QED BY <2>2 DEF Partial
<1> DEFINE F == CHOOSE h : h = [i \in 1 .. Len(s) |-> IF i = 1 THEN s[i] ELSE h[i - 1] \o s[i]]
<1>5. SeqExt!FlattenSeq(s) = F[Len(s)]
  BY <1>1, <1>2 DEF SeqExt!FlattenSeq
<1> HIDE DEF s
<1>6. Partial(F, w, a, b)
  BY <1>3, <1>4
<1> HIDE DEF F
<1>7. F = g
  BY <1>3, <1>6, PartialUnique
<1> QED BY <1>2, <1>3, <1>5, <1>7 DEF s

LEMMA JoinedOne ==
    ASSUME NEW w, NEW a \in Nat
    PROVE  Joined(w[a].body, w, a, a)
<1> DEFINE g == [i \in 1 .. 1 |-> w[a].body]
<1>1. a - a + 1 = 1 /\ g[1] = w[a].body
  OBVIOUS
<1>2. Partial(g, w, a, a)
  BY <1>1 DEF Partial
<1> QED BY <1>1, <1>2 DEF Joined

LEMMA JoinedNext ==
    ASSUME NEW w, NEW a \in Nat, NEW b \in Nat, a <= b, NEW x, Joined(x, w, a, b)
    PROVE  Joined(x \o w[b + 1].body, w, a, b + 1)
<1> DEFINE n == b - a + 1
<1>1. PICK g : Partial(g, w, a, b) /\ x = g[n]
  BY DEF Joined
<1>2. n \in Nat /\ n >= 1 /\ b + 1 - a + 1 = n + 1 /\ a + (n + 1) - 1 = b + 1
      /\ \A i \in 1 .. n + 1 : i \in 1 .. n \/ i = n + 1
  OBVIOUS
<1>3. PICK y : y = x \o w[b + 1].body
  OBVIOUS
<1>4. PICK h : h = [i \in 1 .. n + 1 |-> IF i = n + 1 THEN y ELSE g[i]]
  OBVIOUS
<1>5. \A i \in 1 .. n : g[i] = IF i = 1 THEN w[a].body ELSE g[i - 1] \o w[a + i - 1].body
  BY <1>1 DEF Partial
<1>6. \A i \in 1 .. n : h[i] = g[i] /\ (i # 1 => h[i - 1] = g[i - 1])
  BY <1>2, <1>4
<1>7. h[n + 1] = y /\ h[n] = x /\ n + 1 # 1 /\ n + 1 - 1 = n
  BY <1>1, <1>2, <1>4, <1>6
<1>8. ASSUME NEW i \in 1 .. n + 1
      PROVE  h[i] = IF i = 1 THEN w[a].body ELSE h[i - 1] \o w[a + i - 1].body
  <2>1. CASE i \in 1 .. n
    BY <1>5, <1>6, <2>1
  <2>2. CASE i = n + 1
    <3>1. i # 1 /\ h[i] = x \o w[b + 1].body
      BY <1>3, <1>7, <2>2
    <3>2. h[i - 1] = x /\ w[a + i - 1] = w[b + 1]
      BY <1>2, <1>7, <2>2
    <3> QED BY <3>1, <3>2
  <2> QED BY <1>2, <2>1, <2>2
<1>9. Partial(h, w, a, b + 1)
  <2>1. h = [i \in 1 .. n + 1 |-> h[i]]
    BY <1>4
  <2>2. h = [i \in 1 .. n + 1 |-> IF i = 1 THEN w[a].body ELSE h[i - 1] \o w[a + i - 1].body]
    BY <1>8, <2>1, Zenon
  <2>3. PICK m : m = n + 1
    OBVIOUS
  <2>4. h = [i \in 1 .. m |-> IF i = 1 THEN w[a].body ELSE h[i - 1] \o w[a + i - 1].body]
    BY <2>2, <2>3, Zenon
  <2>5. m = (b + 1) - a + 1
    BY <1>2, <2>3
  <2>6. h = [i \in 1 .. (b + 1) - a + 1 |->
                IF i = 1 THEN w[a].body ELSE h[i - 1] \o w[a + i - 1].body]
    BY <2>4, <2>5, Zenon
  <2> QED BY <2>6, Zenon DEF Partial
<1>10. y = h[(b + 1) - a + 1]
  BY <1>2, <1>7
<1> QED BY <1>3, <1>9, <1>10, Zenon DEF Joined

(* The frames of a stream do not change once written. *)
LEMMA SameFrames ==
    ASSUME NEW w, NEW v, NEW a \in Nat, NEW b \in Nat, a <= b,
           \A i \in a .. b : v[i] = w[i]
    PROVE  /\ Piece(w, a, b) => Piece(v, a, b)
           /\ \A x : Joined(x, w, a, b) => Joined(x, v, a, b)
<1>1. b \in a .. b /\ \A k \in a .. b - 1 : k \in a .. b
  OBVIOUS
<1>2. Piece(w, a, b) => Piece(v, a, b)
  BY <1>1 DEF Piece
<1>3. ASSUME NEW x, Joined(x, w, a, b) PROVE Joined(x, v, a, b)
  <2>1. PICK g : Partial(g, w, a, b) /\ x = g[b - a + 1]
    BY <1>3 DEF Joined
  <2>2. \A i \in 1 .. b - a + 1 : a + i - 1 \in a .. b /\ a \in a .. b
    OBVIOUS
  <2>3. \A i \in 1 .. b - a + 1 : w[a + i - 1] = v[a + i - 1] /\ w[a] = v[a]
    BY <2>2
  <2>4. [i \in 1 .. b - a + 1 |-> IF i = 1 THEN w[a].body ELSE g[i - 1] \o w[a + i - 1].body]
        = [i \in 1 .. b - a + 1 |-> IF i = 1 THEN v[a].body ELSE g[i - 1] \o v[a + i - 1].body]
    BY <2>3
  <2>5. Partial(g, v, a, b)
    BY <2>1, <2>4 DEF Partial
  <2> QED BY <2>1, <2>5 DEF Joined
<1> QED BY <1>2, <1>3

LEMMA PieceNext ==
    ASSUME NEW w, NEW a \in Nat, NEW b \in Nat, a <= b, Piece(w, a, b),
           w[b].seq \in Nat, w[b].type = "DATA_FRAG",
           w[b + 1].key = w[b].key, w[b + 1].seq = w[b].seq + 1
    PROVE  Piece(w, a, b + 1)
<1> SUFFICES ASSUME NEW k \in a .. b
             PROVE  /\ w[k].type = "DATA_FRAG"
                    /\ w[k].key = w[b + 1].key
                    /\ w[k].seq = w[b + 1].seq - (b + 1 - k)
  BY DEF Piece
<1>1. CASE k = b
  BY <1>1
<1>2. CASE k \in a .. b - 1
  <2>1. w[k].type = "DATA_FRAG" /\ w[k].key = w[b].key /\ w[k].seq = w[b].seq - (b - k)
    BY <1>2 DEF Piece
  <2> QED BY <2>1
<1> QED BY <1>1, <1>2

(* recv() with state r has read frames 1 to b of w, and keeps its place in *)
(* the SessionInfo i.  The frame_count frames it has taken of a message    *)
(* are the last ones it read; the next one must follow them in number, and *)
(* if the keys did not change in between it must follow under their key.   *)
Holds(r, w, b, i) ==
    /\ r.frame_count = 0 => r.payload = << >>
    /\ r.frame_count > 0 =>
          /\ r.frame_count <= b
          /\ w[b].type = "DATA_FRAG"
          /\ Piece(w, b - r.frame_count + 1, b)
          /\ Joined(r.payload, w, b - r.frame_count + 1, b)
          /\ Len(r.payload) > 0
          /\ r.expected_frag_seq = w[b].seq + 1
          /\ \/ i.rx_seq = 0
             \/ i.rx_key = w[b].key /\ i.rx_seq = r.expected_frag_seq

Whole(x, w) ==
    \E b \in 1 .. Len(w) : \E a \in 1 .. b :
        w[b].type = "DATA" /\ Piece(w, a, b) /\ Joined(x, w, a, b)

DeliveryInv ==
    /\ delivered \in [Peers -> Seq(Text)]
    /\ \A p \in Peers :
          /\ Holds(recv[p], wire[Other(p)], frames_read[p], info[p])
          /\ \A n \in 1 .. Len(delivered[p]) : Whole(delivered[p][n], wire[Other(p)])

(* Nothing happened to the message, though the keys may have been rotated. *)
SameMessage(r, w, b, i, s, v, j) ==
    /\ s.payload = r.payload /\ s.frame_count = r.frame_count
    /\ s.expected_frag_seq = r.expected_frag_seq
    /\ \A k \in 1 .. b : v[k] = w[k]
    /\ (j.rx_key = i.rx_key /\ j.rx_seq = i.rx_seq) \/ j.rx_seq = 0

LEMMA HoldsKept ==
    ASSUME NEW r, NEW w, NEW b \in Nat, NEW i, Holds(r, w, b, i), r.frame_count \in Nat,
           NEW s, NEW v, NEW j, SameMessage(r, w, b, i, s, v, j)
    PROVE  Holds(s, v, b, j)
<1> USE DEF SameMessage
<1>1. CASE r.frame_count = 0
  BY <1>1 DEF Holds
<1>2. CASE r.frame_count > 0
  <2> DEFINE a == b - r.frame_count + 1
  <2>1. /\ r.frame_count <= b /\ w[b].type = "DATA_FRAG"
        /\ Piece(w, a, b) /\ Joined(r.payload, w, a, b) /\ Len(r.payload) > 0
        /\ r.expected_frag_seq = w[b].seq + 1
        /\ \/ i.rx_seq = 0
           \/ i.rx_key = w[b].key /\ i.rx_seq = r.expected_frag_seq
    BY <1>2 DEF Holds
  <2>2. a \in Nat /\ a <= b /\ a >= 1 /\ b \in 1 .. b
    BY <1>2, <2>1
  <2> HIDE DEF a
  <2>3. \A k \in a .. b : v[k] = w[k]
    BY <2>2
  <2>4. Piece(v, a, b) /\ Joined(r.payload, v, a, b)
    BY <2>1, <2>2, <2>3, SameFrames
  <2>5. v[b] = w[b]
    BY <2>2
  <2> QED BY <1>2, <2>1, <2>4, <2>5 DEF Holds, a
<1> QED BY <1>1, <1>2

(* The next frame of a message completes or extends what recv() holds. *)
LEMMA HoldsNext ==
    ASSUME NEW r \in RecvCalls, NEW w, NEW b \in Nat, NEW i, Holds(r, w, b, i),
           \A k \in 1 .. b + 1 : FrameOK(w[k]),
           w[b + 1].key = i.rx_key, w[b + 1].seq = i.rx_seq,
           r.frame_count = 0 \/ w[b + 1].seq = r.expected_frag_seq,
           NEW a, a = b - r.frame_count + 1
    PROVE  /\ a \in 1 .. b + 1
           /\ Piece(w, a, b + 1)
           /\ Joined(r.payload \o w[b + 1].body, w, a, b + 1)
<1>1. r.frame_count \in Nat
  BY LengthAssumption DEF RecvCalls
<1>2. b + 1 \in Nat /\ w[b + 1].body \in Text
  BY DEF FrameOK
<1>3. CASE r.frame_count = 0
  <2>1. a = b + 1
    BY <1>3
  <2>2. r.payload \o w[b + 1].body = w[b + 1].body
    <3>1. r.payload = << >>
      BY <1>3 DEF Holds
    <3> QED BY <1>2, <3>1, ConcatEmptySeq DEF Text
  <2>3. Piece(w, b + 1, b + 1)
    BY DEF Piece
  <2>4. Joined(w[b + 1].body, w, b + 1, b + 1)
    BY <1>2, JoinedOne
  <2> QED BY <1>2, <2>1, <2>2, <2>3, <2>4
<1>4. CASE r.frame_count > 0
  <2>1. /\ r.frame_count <= b /\ w[b].type = "DATA_FRAG"
        /\ Piece(w, a, b) /\ Joined(r.payload, w, a, b)
        /\ r.expected_frag_seq = w[b].seq + 1
        /\ \/ i.rx_seq = 0
           \/ i.rx_key = w[b].key /\ i.rx_seq = r.expected_frag_seq
    BY <1>4 DEF Holds
  <2>2. a \in Nat /\ a <= b /\ a \in 1 .. b + 1 /\ b \in 1 .. b + 1
    BY <1>1, <1>4, <2>1
  <2>3. w[b].seq \in Nat
    BY <2>2, SeqAssumption DEF FrameOK
  <2>4. w[b + 1].seq = w[b].seq + 1
    BY <1>4, <2>1
  <2>5. w[b + 1].key = w[b].key
    BY <2>1, <2>3, <2>4
  <2>6. Piece(w, a, b + 1)
    BY <2>1, <2>2, <2>3, <2>4, <2>5, PieceNext
  <2>7. Joined(r.payload \o w[b + 1].body, w, a, b + 1)
    BY <2>1, <2>2, JoinedNext
  <2> QED BY <2>2, <2>6, <2>7
<1> QED BY <1>1, <1>3, <1>4

LEMMA WireGrows ==
    ASSUME TypeInv, NEW p \in Peers, TcpEffect(p), NEW q \in Peers
    PROVE  /\ Len(wire[q]) \in Nat /\ Len(wire'[q]) \in Nat /\ Len(wire[q]) <= Len(wire'[q])
           /\ \A i \in 1 .. Len(wire[q]) : wire'[q][i] = wire[q][i]
<1>1. Len(wire[q]) \in Nat
  BY LenProperties DEF TypeInv
<1>2. CASE WritesOut(p)
  <2>1. PICK t, c : t \in Callers /\ Writes(p, t, c)
    BY <1>2 DEF WritesOut
  <2>2. /\ q # p => wire'[q] = wire[q]
        /\ q = p => Longer(wire[q], wire'[q], SealedFrame(p, c))
    BY <2>1, WriteFacts
  <2> QED BY <1>1, <2>2 DEF Longer
<1>3. CASE Calls(p)
  BY <1>1, <1>3, JoinFacts DEF Calls, Callers
<1>4. CASE ~WritesOut(p) /\ ~Calls(p)
  BY <1>1, <1>4, SameTasks
<1> QED BY <1>2, <1>3, <1>4

LEMMA WholeGrows ==
    ASSUME NEW w, NEW v, Len(w) \in Nat, Len(v) \in Nat, Len(w) <= Len(v),
           \A i \in 1 .. Len(w) : v[i] = w[i], NEW x, Whole(x, w)
    PROVE  Whole(x, v)
<1>0. PICK b \in 1 .. Len(w) : \E a \in 1 .. b :
          w[b].type = "DATA" /\ Piece(w, a, b) /\ Joined(x, w, a, b)
  BY DEF Whole
<1>1. PICK a \in 1 .. b : w[b].type = "DATA" /\ Piece(w, a, b) /\ Joined(x, w, a, b)
  BY <1>0
<1>2. a \in Nat /\ b \in Nat /\ a <= b /\ b \in 1 .. Len(v) /\ \A i \in a .. b : i \in 1 .. Len(w)
  OBVIOUS
<1>3. \A i \in a .. b : v[i] = w[i]
  BY <1>2
<1>4. Piece(v, a, b) /\ Joined(x, v, a, b)
  BY <1>1, <1>2, <1>3, SameFrames
<1>5. v[b].type = "DATA"
  BY <1>1, <1>2
<1> QED BY <1>1, <1>2, <1>4, <1>5 DEF Whole

(* A peer's recv() is moved by that peer's steps alone. *)
LEMMA OthersKeep ==
    ASSUME TypeInv, LinkInv, delivered \in [Peers -> Seq(Text)],
           NEW p \in Peers, TcpEffect(p), NEW q \in Peers, q # p
    PROVE  /\ recv'[q] = recv[q] /\ delivered'[q] = delivered[q]
           /\ frames_read'[q] = frames_read[q] /\ info'[q] = info[q]
<1>1. recv \in [Peers -> RecvCalls] /\ frames_read \in [Peers -> Nat]
  BY DEF LinkInv
<1>2. UNCHANGED frames_read \/ frames_read' = [frames_read EXCEPT ![p] = @ + 1]
  BY DEF TcpEffect, Calls, WritesOut, CallEnds, Rekeys, PongEnds, Restarts, Reads, Delivers,
         Answers, Accepts, Takes, Still
<1>3. UNCHANGED recv \/ \E r : recv' = [recv EXCEPT ![p] = r]
  BY DEF TcpEffect, Calls, WritesOut, CallEnds, Rekeys, PongEnds, Restarts, Reads, Delivers,
         Answers, Accepts, Still, Returns
<1>4. UNCHANGED delivered \/ \E x : delivered' = [delivered EXCEPT ![p] = x]
  BY DEF TcpEffect, Calls, WritesOut, CallEnds, Rekeys, PongEnds, Restarts, Reads, Delivers,
         Answers, Accepts, Still, Returns
<1>5. info'[q] = info[q]
  <2>1. CASE WritesOut(p)
    BY <2>1, WriteFacts DEF WritesOut
  <2>2. CASE Rekeys(p) \/ Accepts(p)
    <3>1. \E i : info' = [info EXCEPT ![p] = i]
      BY <2>2 DEF Rekeys, RekeyDone, Accepts, AcceptRekey
    <3> QED BY <3>1 DEF TypeInv
  <2>3. CASE Moved(p)
    BY <2>3, MovedKeys
  <2>4. CASE UNCHANGED info
    BY <2>4
  <2> QED BY <2>1, <2>2, <2>3, <2>4
      DEF TcpEffect, Calls, CallEnds, PongEnds, Restarts, Reads, Delivers, Answers
<1> QED BY <1>1, <1>2, <1>3, <1>4, <1>5

(* What p holds of a message after a step of its own. *)
LEMMA OwnHolds ==
    ASSUME TypeInv, LinkInv, NEW p \in Peers, TcpEffect(p),
           Holds(recv[p], wire[Other(p)], frames_read[p], info[p])
    PROVE  Holds(recv'[p], wire'[Other(p)], frames_read'[p], info'[p])
<1> DEFINE o == Other(p)
           w == wire[o]
           b == frames_read[p]
<1>1. /\ o \in Peers /\ o # p
      /\ b \in Nat /\ b <= Len(w) /\ Len(w) \in Nat
      /\ recv[p] \in RecvCalls /\ recv[p].frame_count \in Nat
      /\ recv \in [Peers -> RecvCalls] /\ frames_read \in [Peers -> Nat]
  <2>1. o \in Peers /\ o # p
    BY PeerFacts
  <2>2. Len(w) \in Nat
    BY <2>1, LenProperties DEF TypeInv
  <2>3. recv[p] \in RecvCalls /\ recv \in [Peers -> RecvCalls]
    BY DEF LinkInv
  <2>4. recv[p].frame_count \in Nat
    BY <2>3, LengthAssumption DEF RecvCalls
  <2> QED BY <2>1, <2>2, <2>3, <2>4 DEF LinkInv
<1>2. \A k \in 1 .. b : wire'[o][k] = w[k]
  <2>1. \A k \in 1 .. Len(w) : wire'[o][k] = w[k]
    BY <1>1, WireGrows
  <2> QED BY <1>1, <2>1
<1>3. ASSUME NEW r, r.frame_count = 0, r.payload = << >>, NEW v, NEW n, NEW i
      PROVE  Holds(r, v, n, i)
  BY <1>3 DEF Holds
<1>4. /\ NotReceiving.frame_count = 0 /\ NotReceiving.payload = << >>
      /\ Receiving.frame_count = 0 /\ Receiving.payload = << >>
  BY DEF NotReceiving, Receiving
<1> HIDE DEF o, w, b
<1>5. ASSUME ~MidMessage(p)
      PROVE  recv[p].frame_count = 0 /\ recv[p].payload = << >>
  BY <1>1, <1>5 DEF MidMessage, Holds, o, w, b
<1>6. ASSUME frames_read'[p] = b, recv'[p].payload = recv[p].payload,
             recv'[p].frame_count = recv[p].frame_count,
             recv'[p].expected_frag_seq = recv[p].expected_frag_seq,
             \/ info'[p].rx_key = info[p].rx_key /\ info'[p].rx_seq = info[p].rx_seq
             \/ info'[p].rx_seq = 0
      PROVE  Holds(recv'[p], wire'[o], frames_read'[p], info'[p])
  <2>1. Holds(recv[p], w, b, info[p])
    BY DEF o, w, b
  <2>2. Holds(recv'[p], wire'[o], b, info'[p])
    <3>1. PICK s, v, j : s = recv'[p] /\ v = wire'[o] /\ j = info'[p]
      OBVIOUS
    <3>2. \A k \in 1 .. b : v[k] = w[k]
      BY <1>2, <3>1
    <3>3. /\ s.payload = recv[p].payload /\ s.frame_count = recv[p].frame_count
          /\ s.expected_frag_seq = recv[p].expected_frag_seq
          /\ \/ j.rx_key = info[p].rx_key /\ j.rx_seq = info[p].rx_seq
             \/ j.rx_seq = 0
      BY <1>6, <3>1
    <3>4. SameMessage(recv[p], w, b, info[p], s, v, j)
      BY <3>2, <3>3 DEF SameMessage
    <3>5. Holds(s, v, b, j)
      BY <1>1, <2>1, <3>4, HoldsKept
    <3> QED BY <3>1, <3>5
  <2> QED BY <1>6, <2>2
<1>7. CASE Calls(p) \/ CallEnds(p)
  <2>1. UNCHANGED <<info, recv, frames_read>>
    BY <1>7 DEF Calls, CallEnds, Still
  <2> QED BY <1>6, <2>1 DEF b, o
<1>8. CASE WritesOut(p)
  <2>1. info'[p].rx_key = info[p].rx_key /\ info'[p].rx_seq = info[p].rx_seq
    BY <1>8, WriteFacts DEF WritesOut
  <2> QED BY <1>6, <1>8, <2>1 DEF WritesOut, Still, b, o
<1>9. CASE Rekeys(p)
  <2>1. PICK s : info' = [info EXCEPT ![p] = Rotated(@, TRUE, s)]
    BY <1>9 DEF Rekeys, RekeyDone
  <2>2. info'[p] = Rotated(info[p], TRUE, s)
    BY <2>1 DEF TypeInv
  <2>3. info'[p].rx_seq = 0
    BY <2>2 DEF Rotated
  <2> QED BY <1>6, <1>9, <2>3 DEF Rekeys, Still, b, o
<1>10. CASE PongEnds(p)
  <2>1. CASE recv' = [recv EXCEPT ![p] = NotReceiving]
    BY <1>1, <1>3, <1>4, <2>1
  <2>2. ASSUME NEW n \in Nat,
               recv' = [recv EXCEPT ![p] = [recv[p] EXCEPT !.pc = "reading", !.ctrl_count = n]]
        PROVE  Holds(recv'[p], wire'[Other(p)], frames_read'[p], info'[p])
    <3>1. recv'[p] = [recv[p] EXCEPT !.pc = "reading", !.ctrl_count = n]
      BY <1>1, <2>2
    <3>2. /\ recv'[p].payload = recv[p].payload
          /\ recv'[p].frame_count = recv[p].frame_count
          /\ recv'[p].expected_frag_seq = recv[p].expected_frag_seq
      BY <1>1, <3>1 DEF RecvCalls
    <3> QED BY <1>6, <1>10, <3>2 DEF PongEnds, b, o
  <2> QED BY <1>10, <2>1, <2>2 DEF PongEnds
<1>11. CASE Restarts(p)
  <2>1. CASE UNCHANGED <<recv, frames_read>>
    BY <1>6, <1>11, <2>1 DEF Restarts, b, o
  <2>2. CASE \/ recv' = [recv EXCEPT ![p] = Receiving]
             \/ recv' = [recv EXCEPT ![p] = NotReceiving]
    BY <1>1, <1>3, <1>4, <2>2
  <2> QED BY <1>11, <2>1, <2>2 DEF Restarts
<1>12. CASE Reads(p)
  <2>1. PICK r : recv' = [recv EXCEPT ![p] = r] /\ Follows(p, NextFrame(p), r)
    BY <1>12 DEF Reads
  <2>2. recv'[p] = r
    BY <1>1, <2>1
  <2>3. CASE r = NotReceiving
    BY <1>3, <1>4, <2>2, <2>3
  <2>4. ASSUME NEW n \in Nat, r = [recv[p] EXCEPT !.pc = "reading", !.ctrl_count = n],
               ~MidMessage(p)
        PROVE  Holds(recv'[p], wire'[Other(p)], frames_read'[p], info'[p])
    <3>1. r.payload = recv[p].payload /\ r.frame_count = recv[p].frame_count
      BY <1>1, <2>4 DEF RecvCalls
    <3> QED BY <1>3, <1>5, <2>2, <2>4, <3>1
  <2>5. CASE /\ NextFrame(p).type = "DATA_FRAG"
             /\ recv[p].frame_count = 0 \/ NextFrame(p).seq = recv[p].expected_frag_seq
             /\ r = [recv[p] EXCEPT !.payload = recv[p].payload \o NextFrame(p).body,
                                    !.frame_count = recv[p].frame_count + 1,
                                    !.expected_frag_seq = NextFrame(p).seq + 1]
    <3> DEFINE f == NextFrame(p)
               n == recv[p].frame_count
    <3>1. /\ Takes(p) /\ Moved(p) /\ UNCHANGED wire
      BY <1>12 DEF Reads, Stands
    <3>2. b + 1 \in 1 .. Len(w) /\ f = w[b + 1] /\ FrameOK(f)
      BY <3>1, NextFrameOK DEF Takes, b, w, o
    <3>3. f.key = info[p].rx_key /\ f.seq = info[p].rx_seq
      BY <3>1 DEF Takes
    <3>4. info'[p].rx_seq = info[p].rx_seq + 1 /\ info'[p].rx_key = info[p].rx_key
      BY <3>1, MovedKeys DEF SameKeys
    <3>5. frames_read'[p] = b + 1
      BY <1>1, <3>1 DEF Takes, b
    <3>6. \A k \in 1 .. b + 1 : FrameOK(w[k])
      <4>1. \A k \in 1 .. Len(w) : FrameOK(w[k])
        BY <1>1 DEF LinkInv, w
      <4> QED BY <1>1, <3>2, <4>1
    <3> HIDE DEF f
    <3>7. /\ Piece(w, b - n + 1, b + 1) /\ b - n + 1 \in 1 .. b + 1
          /\ Joined(recv[p].payload \o f.body, w, b - n + 1, b + 1)
      <4>1. Holds(recv[p], w, b, info[p])
        BY DEF w, b, o
      <4>2. n = 0 \/ w[b + 1].seq = recv[p].expected_frag_seq
        BY <2>5, <3>2 DEF f
      <4>3. w[b + 1].key = info[p].rx_key /\ w[b + 1].seq = info[p].rx_seq
        BY <3>2, <3>3
      <4> QED BY <1>1, <3>2, <3>6, <4>1, <4>2, <4>3, HoldsNext
    <3>8. /\ r.payload = recv[p].payload \o f.body
          /\ r.frame_count = n + 1
          /\ r.expected_frag_seq = f.seq + 1
      <4>1. PICK x : x = recv[p].payload \o f.body
        OBVIOUS
      <4>2. r = [recv[p] EXCEPT !.payload = x, !.frame_count = n + 1,
                                !.expected_frag_seq = f.seq + 1]
        BY <2>5, <4>1 DEF f
      <4> QED BY <1>1, <4>1, <4>2 DEF RecvCalls
    <3>9. Len(r.payload) > 0
      <4>1. /\ recv[p].payload \in Text /\ f.body \in Text /\ Len(f.body) > 0
        BY <1>1, <2>5, <3>2 DEF RecvCalls, FrameOK, f
      <4>2. Len(recv[p].payload \o f.body) = Len(recv[p].payload) + Len(f.body)
        BY <4>1, ConcatProperties DEF Text
      <4>3. PICK l, m : l = Len(recv[p].payload) /\ m = Len(f.body)
        OBVIOUS
      <4>4. l \in Nat /\ m \in Nat /\ m > 0
        BY <4>1, <4>3, LenProperties DEF Text
      <4>5. l + m > 0
        BY <4>4
      <4> QED BY <3>8, <4>2, <4>3, <4>5, Zenon
    <3>10. /\ n + 1 > 0 /\ n + 1 <= b + 1 /\ (b + 1) - (n + 1) + 1 = b - n + 1 /\ n + 1 # 0
      BY <1>1, <3>7
    <3>11. w[b + 1].type = "DATA_FRAG"
      BY <2>5, <3>2 DEF f
    <3> HIDE DEF n
    <3>12. Holds(r, w, b + 1, info'[p])
      <4>1. info'[p].rx_key = w[b + 1].key /\ info'[p].rx_seq = r.expected_frag_seq
        BY <3>2, <3>3, <3>4, <3>8
      <4>2. r.frame_count > 0 /\ r.frame_count # 0 /\ r.frame_count <= b + 1
        BY <3>8, <3>10
      <4>3. (b + 1) - r.frame_count + 1 = b - n + 1
        BY <3>8, <3>10
      <4>4. r.expected_frag_seq = w[b + 1].seq + 1
        BY <3>2, <3>8
      <4>5. Piece(w, (b + 1) - r.frame_count + 1, b + 1)
        BY <3>7, <4>3, Zenon
      <4>6. Joined(r.payload, w, (b + 1) - r.frame_count + 1, b + 1)
        BY <3>7, <3>8, <4>3, Zenon
      <4> QED BY <3>9, <3>11, <4>1, <4>2, <4>4, <4>5, <4>6, Zenon DEF Holds
    <3> QED BY <2>2, <3>1, <3>5, <3>12 DEF w, o
  <2> QED BY <2>1, <2>3, <2>4, <2>5 DEF Follows
<1>13. CASE Delivers(p)
  BY <1>1, <1>3, <1>4, <1>13 DEF Delivers, Returns
<1>14. CASE Answers(p)
  <2>1. ~MidMessage(p) /\ recv'[p] = [recv[p] EXCEPT !.pc = "pong"]
    BY <1>1, <1>14 DEF Answers
  <2>2. recv'[p].payload = recv[p].payload /\ recv'[p].frame_count = recv[p].frame_count
    BY <1>1, <2>1 DEF RecvCalls
  <2> QED BY <1>3, <1>5, <2>1, <2>2
<1>15. CASE Accepts(p)
  <2>1. ~MidMessage(p) /\ UNCHANGED recv
    BY <1>15 DEF Accepts
  <2> QED BY <1>3, <1>5, <2>1
<1> QED BY <1>7, <1>8, <1>9, <1>10, <1>11, <1>12, <1>13, <1>14, <1>15 DEF TcpEffect

(* What has been returned stays on the wire, and a message that recv()     *)
(* returns now is what it held and the frame it has just read.             *)
LEMMA DeliveryNext ==
    ASSUME TypeInv, LinkInv, DeliveryInv, NEW p \in Peers, TcpEffect(p)
    PROVE  DeliveryInv'
<1> DEFINE o == Other(p)
           w == wire[o]
           b == frames_read[p]
           x == recv[p].payload \o NextFrame(p).body
<1>1. delivered \in [Peers -> Seq(Text)]
  BY DEF DeliveryInv
<1>2. ASSUME NEW q \in Peers
      PROVE  Holds(recv'[q], wire'[Other(q)], frames_read'[q], info'[q])
  <2>1. Holds(recv[q], wire[Other(q)], frames_read[q], info[q])
    BY DEF DeliveryInv
  <2>2. CASE q = p
    BY <2>1, <2>2, OwnHolds
  <2>3. CASE q # p
    <3>1. /\ recv'[q] = recv[q] /\ frames_read'[q] = frames_read[q] /\ info'[q] = info[q]
      BY <1>1, <2>3, OthersKeep
    <3>2. frames_read[q] \in Nat /\ recv[q].frame_count \in Nat
          /\ frames_read[q] <= Len(wire[Other(q)])
      BY LengthAssumption DEF LinkInv, RecvCalls
    <3>3. PICK v : v = wire'[Other(q)]
      OBVIOUS
    <3>4. \A k \in 1 .. frames_read[q] : v[k] = wire[Other(q)][k]
      <4>1. Other(q) \in Peers
        BY PeerFacts
      <4>2. Len(wire[Other(q)]) \in Nat
            /\ \A k \in 1 .. Len(wire[Other(q)]) : v[k] = wire[Other(q)][k]
        BY <3>3, <4>1, WireGrows
      <4> QED BY <3>2, <4>2
    <3>5. SameMessage(recv[q], wire[Other(q)], frames_read[q], info[q], recv[q], v, info[q])
      BY <3>4 DEF SameMessage
    <3>6. Holds(recv[q], v, frames_read[q], info[q])
      BY <2>1, <3>2, <3>5, HoldsKept
    <3> QED BY <3>1, <3>3, <3>6
  <2> QED BY <2>2, <2>3
<1>3. ASSUME NEW q \in Peers, NEW n \in 1 .. Len(delivered[q])
      PROVE  Whole(delivered[q][n], wire'[Other(q)])
  <2>1. Whole(delivered[q][n], wire[Other(q)])
    BY DEF DeliveryInv
  <2>2. PICK v : v = wire'[Other(q)]
    OBVIOUS
  <2>3. /\ Len(wire[Other(q)]) \in Nat /\ Len(v) \in Nat /\ Len(wire[Other(q)]) <= Len(v)
        /\ \A k \in 1 .. Len(wire[Other(q)]) : v[k] = wire[Other(q)][k]
    BY <2>2, PeerFacts, WireGrows
  <2>4. Whole(delivered[q][n], v)
    BY <2>1, <2>3, WholeGrows
  <2> QED BY <2>2, <2>4
<1>4. CASE ~Delivers(p)
  <2>1. UNCHANGED delivered
    BY <1>4 DEF TcpEffect, Calls, WritesOut, CallEnds, Rekeys, PongEnds, Restarts, Reads,
                Answers, Accepts, Still
  <2>2. \A q \in Peers : \A n \in 1 .. Len(delivered'[q]) : Whole(delivered'[q][n], wire'[Other(q)])
    BY <1>3, <2>1
  <2> QED BY <1>1, <1>2, <2>1, <2>2, Zenon DEF DeliveryInv
<1>5. CASE Delivers(p)
  <2>1. /\ Takes(p) /\ UNCHANGED wire /\ NextFrame(p).type = "DATA"
        /\ recv[p].frame_count = 0 \/ NextFrame(p).seq = recv[p].expected_frag_seq
        /\ delivered' = [delivered EXCEPT ![p] = Append(@, x)]
    BY <1>5 DEF Delivers, Stands, Returns
  <2>2. b + 1 \in 1 .. Len(w) /\ NextFrame(p) = w[b + 1] /\ FrameOK(NextFrame(p))
    BY <2>1, NextFrameOK DEF Takes
  <2>3. /\ b \in Nat /\ Len(w) \in Nat /\ recv[p] \in RecvCalls /\ o \in Peers
    BY PeerFacts, LenProperties DEF LinkInv, TypeInv
  <2>4. x \in Text
    <3>1. recv[p].payload \in Text /\ NextFrame(p).body \in Text
      BY <2>2, <2>3 DEF RecvCalls, FrameOK
    <3> QED BY <3>1, ConcatProperties DEF Text
  <2>5. Whole(x, w)
    <3>1. \A k \in 1 .. b + 1 : FrameOK(w[k])
      <4>1. \A k \in 1 .. Len(w) : FrameOK(w[k])
        BY <2>3 DEF LinkInv
      <4> QED BY <2>2, <2>3, <4>1
    <3>2. w[b + 1].key = info[p].rx_key /\ w[b + 1].seq = info[p].rx_seq
      BY <2>1, <2>2 DEF Takes
    <3>3. recv[p].frame_count = 0 \/ w[b + 1].seq = recv[p].expected_frag_seq
      BY <2>1, <2>2
    <3>4. Holds(recv[p], w, b, info[p])
      BY DEF DeliveryInv
    <3>5. PICK a : a = b - recv[p].frame_count + 1
      OBVIOUS
    <3>6. a \in 1 .. b + 1 /\ Piece(w, a, b + 1) /\ Joined(x, w, a, b + 1)
      <4> HIDE DEF w, b
      <4>1. a \in 1 .. b + 1 /\ Piece(w, a, b + 1)
            /\ Joined(recv[p].payload \o w[b + 1].body, w, a, b + 1)
        BY <2>3, <3>1, <3>2, <3>3, <3>4, <3>5, HoldsNext
      <4> QED BY <2>2, <4>1
    <3>7. w[b + 1].type = "DATA"
      BY <2>1, <2>2
    <3> HIDE DEF w, b, x
    <3> QED BY <2>2, <3>6, <3>7 DEF Whole
  <2> HIDE DEF x
  <2>6. /\ delivered' \in [Peers -> Seq(Text)]
        /\ delivered'[p] = Append(delivered[p], x)
        /\ \A q \in Peers : q # p => delivered'[q] = delivered[q]
    BY <1>1, <2>1, <2>4, AppendProperties
  <2>7. ASSUME NEW q \in Peers, NEW n \in 1 .. Len(delivered'[q])
        PROVE  Whole(delivered'[q][n], wire'[Other(q)])
    <3>1. CASE q # p
      BY <1>3, <2>6, <3>1
    <3>2. CASE q = p
      <4>1. /\ Len(delivered[p]) \in Nat /\ Len(delivered'[p]) = Len(delivered[p]) + 1
            /\ \A k \in 1 .. Len(delivered[p]) : delivered'[p][k] = delivered[p][k]
            /\ delivered'[p][Len(delivered[p]) + 1] = x
        BY <1>1, <2>4, <2>6, AppendProperties
      <4>2. n \in 1 .. Len(delivered[p]) \/ n = Len(delivered[p]) + 1
        BY <3>2, <4>1
      <4>3. CASE n \in 1 .. Len(delivered[p])
        BY <1>3, <3>2, <4>1, <4>3
      <4>4. CASE n = Len(delivered[p]) + 1
        BY <2>1, <2>5, <3>2, <4>1, <4>4
      <4> QED BY <4>2, <4>3, <4>4
    <3> QED BY <3>1, <3>2
  <2> QED BY <1>2, <2>6, <2>7, Zenon DEF DeliveryInv
<1> QED BY <1>4, <1>5

LEMMA DeliveryInit == TcpInit => DeliveryInv
<1> SUFFICES ASSUME TcpInit PROVE DeliveryInv
  OBVIOUS
<1>1. \A p \in Peers : recv[p] = NotReceiving /\ delivered[p] = << >>
  BY DEF TcpInit, RecvInit
<1>2. NotReceiving.frame_count = 0 /\ NotReceiving.payload = << >>
  BY DEF NotReceiving
<1>3. delivered \in [Peers -> Seq(Text)]
  BY DEF TcpInit, RecvInit
<1>4. \A p \in Peers : Holds(recv[p], wire[Other(p)], frames_read[p], info[p])
  BY <1>1, <1>2 DEF Holds
<1>5. \A p \in Peers : Len(delivered[p]) = 0
  BY <1>1
<1> QED BY <1>3, <1>4, <1>5 DEF DeliveryInv

(* recv() never makes up a payload, whatever fails, is cancelled or times  *)
(* out at either end: each one it returns is the concatenation of          *)
(* consecutive frames of the peer's stream, under one key and consecutive  *)
(* numbers, that end in a DATA frame.  A rotation in the middle of a       *)
(* message does not splice: it restarts rx_seq, and no later fragment has  *)
(* the number 0.                                                           *)
THEOREM NothingMadeUp == TcpSpec => []DeliveredFromWire
<1>1. TcpInv /\ DeliveryInv /\ [TcpNext]_vars => DeliveryInv'
  <2> SUFFICES ASSUME TcpInv, DeliveryInv, [TcpNext]_vars PROVE DeliveryInv'
    OBVIOUS
  <2>1. PICK p \in Peers : TcpEffect(p)
    BY TcpSteps
  <2>2. TypeInv /\ LinkInv
    BY DEF TcpInv, NonceInv
  <2> QED BY <2>1, <2>2, DeliveryNext
<1>2. TcpInv /\ DeliveryInv => DeliveredFromWire
  <2> SUFFICES ASSUME TcpInv, DeliveryInv, NEW p \in Peers, NEW n \in 1 .. Len(delivered[p])
               PROVE  LET w == wire[Other(p)] IN
                      \E b \in 1 .. Len(w) : \E a \in 1 .. b :
                          /\ w[b].type = "DATA"
                          /\ \A k \in a .. b - 1 :
                                /\ w[k].type = "DATA_FRAG"
                                /\ w[k].key = w[b].key
                                /\ w[k].seq = w[b].seq - (b - k)
                          /\ delivered[p][n] =
                                SeqExt!FlattenSeq([k \in 1 .. b - a + 1 |-> w[a + k - 1].body])
    BY DEF DeliveredFromWire
  <2> DEFINE w == wire[Other(p)]
             x == delivered[p][n]
  <2>1. Whole(x, w)
    BY DEF DeliveryInv
  <2>2. PICK b \in 1 .. Len(w) : \E a \in 1 .. b :
            w[b].type = "DATA" /\ Piece(w, a, b) /\ Joined(x, w, a, b)
    BY <2>1 DEF Whole
  <2>3. PICK a \in 1 .. b : w[b].type = "DATA" /\ Piece(w, a, b) /\ Joined(x, w, a, b)
    BY <2>2
  <2>4. Len(w) \in Nat /\ \A k \in 1 .. Len(w) : w[k].body \in Text
    <3>1. Other(p) \in Peers
      BY PeerFacts
    <3>2. Len(w) \in Nat
      BY <3>1, LenProperties DEF TcpInv, NonceInv, TypeInv
    <3> QED BY <3>1, <3>2 DEF TcpInv, LinkInv, FrameOK
  <2>5. a \in Nat /\ b \in Nat /\ a <= b /\ \A k \in a .. b : k \in 1 .. Len(w)
    BY <2>4
  <2>6. \A k \in a .. b : w[k].body \in Text
    BY <2>4, <2>5
  <2> HIDE DEF w, x
  <2>7. x = SeqExt!FlattenSeq([k \in 1 .. b - a + 1 |-> w[a + k - 1].body])
    BY <2>3, <2>5, <2>6, JoinedFlattens
  <2> QED BY <2>3, <2>7 DEF Piece, w, x
<1>3. TcpSpec => [](TcpInv /\ DeliveryInv)
  BY <1>1, DeliveryInit, TcpInvariant, PTL DEF TcpSpec
<1> QED BY <1>2, <1>3, PTL

=============================================================================
