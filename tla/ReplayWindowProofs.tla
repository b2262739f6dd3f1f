------------------------- MODULE ReplayWindowProofs -------------------------
(***************************************************************************)
(* Proofs about the UDP receive path, for every window size, every range   *)
(* of sequence numbers, every number of rekeys and every buffer size.      *)
(*                                                                         *)
(* NoReplay alone is not inductive: that a frame is accepted once follows  *)
(* from what the mask says about it, so the invariant carries the exact    *)
(* meaning of the mask (WindowExact) beside it.                            *)
(***************************************************************************)
EXTENDS ReplayWindow, SequenceTheorems, TLAPS

(* The window stays within its types. *)
LEMMA SlideType ==
    ASSUME NEW rx \in Seqs, NEW bm \in SUBSET Offsets, NEW s \in Seqs,
           ~TooOld(rx, s)
    PROVE  /\ NextRxSeq(rx, s) \in Seqs
           /\ NextBitmap(rx, bm, s) \in SUBSET Offsets
<1> USE WindowSizeAssumption, MaxSeqAssumption
<1>1. s <= rx => rx - s \in Offsets
  BY DEF Seqs, Offsets, TooOld
<1>2. 0 \in Offsets
  BY DEF Offsets
<1>3. ShiftLeft(bm, s - rx) \in SUBSET Offsets
  BY DEF ShiftLeft
<1>4. s > rx \/ s <= rx
  BY DEF Seqs
<1> QED BY <1>1, <1>2, <1>3, <1>4 DEF NextRxSeq, NextBitmap

(* What one authenticated frame does to the window: the new mask marks the *)
(* new frame and exactly the old marks that are still within the window.   *)
LEMMA SlideExact ==
    ASSUME NEW rx \in Seqs, NEW bm \in SUBSET Offsets, NEW s \in Seqs,
           ~TooOld(rx, s), NEW t \in Seqs,
           t <= NextRxSeq(rx, s), ~TooOld(NextRxSeq(rx, s), t)
    PROVE  NextRxSeq(rx, s) - t \in NextBitmap(rx, bm, s)
               <=> (t = s \/ (t <= rx /\ rx - t \in bm))
<1> USE WindowSizeAssumption, MaxSeqAssumption
<1> USE DEF Seqs, Offsets, TooOld, NextRxSeq, NextBitmap, ShiftLeft
<1>1. CASE s <= rx
  <2>1. NextRxSeq(rx, s) = rx /\ NextBitmap(rx, bm, s) = bm \cup {rx - s}
    BY <1>1
  <2>2. rx - s \in Offsets
    BY <1>1
  <2>3. (rx - t = rx - s) <=> t = s
    OBVIOUS
  <2> QED BY <2>1, <2>2, <2>3, <1>1
<1>2. CASE s > rx /\ s - rx < WindowSize
  <2>1. NextRxSeq(rx, s) = s
    BY <1>2
  <2>2. NextBitmap(rx, bm, s) = ShiftLeft(bm, s - rx) \cup {0}
    BY <1>2
  <2>3. s - t \in Offsets
    BY <2>1
  <2>4. (s - t) - (s - rx) = rx - t
    OBVIOUS
  <2>5. s - t \in ShiftLeft(bm, s - rx) <=> rx - t \in bm
    BY <2>3, <2>4
  <2>6. rx - t \in bm => t <= rx
    OBVIOUS
  <2>7. s - t = 0 <=> t = s
    OBVIOUS
  <2>8. s - t \in ShiftLeft(bm, s - rx) \cup {0} <=> (t = s \/ (t <= rx /\ rx - t \in bm))
    BY <2>5, <2>6, <2>7
  <2> QED BY <2>1, <2>2, <2>8
<1>3. CASE s > rx /\ s - rx >= WindowSize
  <2>1. NextRxSeq(rx, s) = s /\ NextBitmap(rx, bm, s) = {0}
    BY <1>3
  <2>2. s - t < WindowSize
    BY <2>1
  <2>3. t > rx
    BY <2>2, <1>3
  <2>4. s - t = 0 <=> t = s
    OBVIOUS
  <2> QED BY <2>1, <2>3, <2>4
<1> QED BY <1>1, <1>2, <1>3

(* The variables have their types in every reachable state. *)
THEOREM TypeCorrect == Spec => []TypeOK
<1> USE WindowSizeAssumption, MaxSeqAssumption, MaxRekeysAssumption
<1>1. Init => TypeOK
  BY DEF Init, TypeOK, Seqs, Generations, Frames
<1>2. TypeOK /\ [Next]_vars => TypeOK'
  <2> SUFFICES ASSUME TypeOK, [Next]_vars PROVE TypeOK'
    OBVIOUS
  <2> USE DEF TypeOK
  <2>1. ASSUME NEW f \in Frames, FeedPacket(f) PROVE TypeOK'
    BY <2>1 DEF FeedPacket
  <2>2. ASSUME NEW f \in Frames, FeedPacketDrop(f) PROVE TypeOK'
    BY <2>2 DEF FeedPacketDrop, vars
  <2>3. CASE RecvDrop
    BY <2>3 DEF RecvDrop
  <2>4. CASE RecvOverflow
    BY <2>4 DEF RecvOverflow
  <2>5. CASE RecvAccept
    <3> DEFINE f == Head(read_buffer)
    <3>1. f \in Frames /\ f.seq \in Seqs /\ read_buffer' \in Seq(Frames)
      <4>1. f \in Frames /\ Tail(read_buffer) \in Seq(Frames)
        BY <2>5, HeadTailProperties DEF RecvAccept
      <4> QED BY <2>5, <4>1 DEF RecvAccept, Frames
    <3>2. ~TooOld(rx_seq, f.seq)
      BY <2>5 DEF RecvAccept, Drops
    <3>3. rx_seq' \in Seqs /\ rx_window_bitmap' \in SUBSET Offsets
      <4>1. NextRxSeq(rx_seq, f.seq) \in Seqs
        BY <3>1, <3>2, SlideType
      <4>2. NextBitmap(rx_seq, rx_window_bitmap, f.seq) \in SUBSET Offsets
        BY <3>1, <3>2, SlideType
      <4> QED BY <2>5, <4>1, <4>2 DEF RecvAccept
    <3>4. last_rx_seq' \in Seqs \cup {-1}
      BY <2>5, <3>1 DEF RecvAccept, ConfirmAuthenticated
    <3>5. accepted' \in [Frames -> Nat]
      BY <2>5, <3>1 DEF RecvAccept
    <3>6. rx_key' \in Generations
      BY <2>5 DEF RecvAccept
    <3> QED BY <3>1, <3>3, <3>4, <3>5, <3>6
  <2>6. CASE Rekey
    BY <2>6 DEF Rekey, Seqs, Generations
  <2>7. CASE UNCHANGED vars
    BY <2>7 DEF vars
  <2> QED BY <2>1, <2>2, <2>3, <2>4, <2>5, <2>6, <2>7 DEF Next
<1> QED BY <1>1, <1>2, PTL DEF Spec

-----------------------------------------------------------------------------
(* The inductive invariant. *)
WindowInv == TypeOK /\ WindowExact /\ NoReplay

(* A step other than an acceptance or a rekey leaves the window alone. *)
LEMMA QuietStep ==
    ASSUME WindowInv,
           UNCHANGED <<rx_seq, rx_window_bitmap, rx_key, accepted>>
    PROVE  WindowExact' /\ NoReplay'
BY DEF WindowInv, WindowExact, NoReplay, TooOld

(* Accepting a frame keeps the mask exact, and accepts it for the first    *)
(* time: neither too old nor marked means not accepted yet.                *)
LEMMA AcceptStep ==
    ASSUME WindowInv, RecvAccept
    PROVE  WindowExact' /\ NoReplay'
<1> USE WindowSizeAssumption, MaxSeqAssumption, MaxRekeysAssumption
<1> DEFINE f == Head(read_buffer)
<1>1. f \in Frames
  BY HeadTailProperties DEF RecvAccept, WindowInv, TypeOK
<1>2. f.seq \in Seqs /\ f.key \in Generations /\ f = [key |-> f.key, seq |-> f.seq]
  BY <1>1 DEF Frames
<1>3. ~TooOld(rx_seq, f.seq) /\ f.key = rx_key /\ ~Replayed(rx_seq, rx_window_bitmap, f.seq)
  BY DEF RecvAccept, Drops
<1>4. /\ rx_seq' = NextRxSeq(rx_seq, f.seq)
      /\ rx_window_bitmap' = NextBitmap(rx_seq, rx_window_bitmap, f.seq)
      /\ accepted' = [accepted EXCEPT ![f] = accepted[f] + 1]
      /\ rx_key' = rx_key
  BY DEF RecvAccept
<1>5. accepted[f] = 0
  <2>1. CASE f.seq > rx_seq
    BY <1>1, <1>3, <2>1 DEF WindowInv, WindowExact
  <2>2. CASE f.seq <= rx_seq
    <3>1. ~(accepted[f] > 0)
      BY <1>1, <1>3, <2>2 DEF WindowInv, WindowExact, Replayed
    <3> QED BY <1>1, <3>1 DEF WindowInv, TypeOK
  <2> QED BY <1>2, <2>1, <2>2 DEF WindowInv, TypeOK, Seqs
<1>6. NoReplay'
  <2> SUFFICES ASSUME NEW g \in Frames PROVE accepted'[g] <= 1
    BY DEF NoReplay
  <2> QED BY <1>1, <1>4, <1>5 DEF WindowInv, TypeOK, NoReplay
<1>7. ASSUME NEW g \in Frames
      PROVE  /\ g.key = rx_key' /\ g.seq > rx_seq' => accepted'[g] = 0
             /\ g.key > rx_key' => accepted'[g] = 0
             /\ g.key = rx_key' /\ g.seq <= rx_seq' /\ ~TooOld(rx_seq', g.seq)
                   => (accepted'[g] > 0 <=> rx_seq' - g.seq \in rx_window_bitmap')
  <2>1. /\ g.seq \in Seqs /\ g.key \in Generations
        /\ rx_seq \in Seqs /\ rx_window_bitmap \in SUBSET Offsets /\ rx_key \in Generations
        /\ accepted[g] \in Nat /\ accepted \in [Frames -> Nat]
    BY <1>7 DEF Frames, WindowInv, TypeOK
  <2>2. g = f <=> (g.key = rx_key /\ g.seq = f.seq)
    <3>1. g = [key |-> g.key, seq |-> g.seq]
      BY <1>7 DEF Frames
    <3> QED BY <3>1, <1>2, <1>3
  <2>3. accepted'[g] = IF g = f THEN 1 ELSE accepted[g]
    BY <1>4, <1>5, <1>7, <2>1
  <2>4. rx_seq <= rx_seq' /\ f.seq <= rx_seq' /\ rx_seq' \in Seqs
    BY <1>2, <1>4, <2>1 DEF NextRxSeq, Seqs
  <2>5. g.key = rx_key /\ g.seq > rx_seq' => accepted'[g] = 0
    <3>1. g.key = rx_key /\ g.seq > rx_seq' => g # f /\ g.seq > rx_seq
      BY <2>1, <2>2, <2>4, <1>2 DEF Seqs
    <3> QED BY <1>7, <2>3, <3>1 DEF WindowInv, WindowExact
  <2>6. g.key > rx_key => accepted'[g] = 0
    <3>1. g.key > rx_key => g # f
      BY <1>3, <2>1 DEF Generations
    <3> QED BY <1>7, <2>3, <3>1 DEF WindowInv, WindowExact
  <2>7. ASSUME g.key = rx_key, g.seq <= rx_seq', ~TooOld(rx_seq', g.seq)
        PROVE  accepted'[g] > 0 <=> rx_seq' - g.seq \in rx_window_bitmap'
    <3>1. rx_seq' - g.seq \in rx_window_bitmap'
            <=> (g.seq = f.seq \/ (g.seq <= rx_seq /\ rx_seq - g.seq \in rx_window_bitmap))
      BY <1>2, <1>3, <1>4, <2>1, <2>7, SlideExact
    <3>2. CASE g = f
      BY <2>2, <2>3, <3>1, <3>2
    <3>3. CASE g # f /\ g.seq > rx_seq
      <4>1. accepted[g] = 0
        BY <1>7, <2>7, <3>3 DEF WindowInv, WindowExact
      <4>2. ~(g.seq <= rx_seq) /\ g.seq # f.seq
        BY <2>1, <2>2, <2>7, <3>3 DEF Seqs
      <4> QED BY <2>3, <3>1, <3>3, <4>1, <4>2
    <3>4. CASE g # f /\ g.seq <= rx_seq
      <4>1. ~TooOld(rx_seq, g.seq)
        BY <2>1, <2>4, <2>7 DEF TooOld, Seqs
      <4>2. accepted[g] > 0 <=> rx_seq - g.seq \in rx_window_bitmap
        BY <1>7, <2>7, <3>4, <4>1 DEF WindowInv, WindowExact
      <4>3. g.seq # f.seq
        BY <2>2, <2>7, <3>4
      <4> QED BY <2>3, <3>1, <3>4, <4>2, <4>3
    <3> QED BY <2>1, <3>2, <3>3, <3>4 DEF Seqs
  <2> QED BY <1>4, <2>5, <2>6, <2>7
<1>8. WindowExact'
  BY <1>7 DEF WindowExact, TooOld
<1> QED BY <1>6, <1>8

(* Under the next key nothing was accepted yet, so the empty mask is exact. *)
LEMMA RekeyStep ==
    ASSUME WindowInv, Rekey
    PROVE  WindowExact' /\ NoReplay'
<1> USE WindowSizeAssumption, MaxSeqAssumption, MaxRekeysAssumption
<1>1. ASSUME NEW g \in Frames, g.key >= rx_key' PROVE accepted'[g] = 0
  <2>1. g.key > rx_key
    BY <1>1 DEF Rekey, Frames, Generations, WindowInv, TypeOK
  <2> QED BY <1>1, <2>1 DEF Rekey, WindowInv, WindowExact
<1>2. NoReplay'
  BY DEF Rekey, WindowInv, NoReplay
<1>3. WindowExact'
  <2> SUFFICES ASSUME NEW g \in Frames, g.key \in Generations, g.seq \in Seqs
      PROVE  /\ g.key = rx_key' /\ g.seq > rx_seq' => accepted'[g] = 0
             /\ g.key > rx_key' => accepted'[g] = 0
             /\ g.key = rx_key' /\ g.seq <= rx_seq' /\ ~TooOld(rx_seq', g.seq)
                   => (accepted'[g] > 0 <=> rx_seq' - g.seq \in rx_window_bitmap')
    BY DEF WindowExact, Frames, TooOld
  <2>1. g.key = rx_key' \/ g.key > rx_key' => g.key >= rx_key'
    BY DEF Rekey, Generations, WindowInv, TypeOK
  <2>2. rx_window_bitmap' = {}
    BY DEF Rekey
  <2> QED BY <1>1, <2>1, <2>2
<1> QED BY <1>2, <1>3

(* Every reachable state satisfies the inductive invariant. *)
THEOREM WindowInvariant == Spec => []WindowInv
<1> USE WindowSizeAssumption, MaxSeqAssumption, MaxRekeysAssumption
<1>1. Init => WindowExact /\ NoReplay
  BY DEF Init, WindowExact, NoReplay, Seqs, Frames, Generations
<1>2. WindowInv /\ [Next]_vars => WindowExact' /\ NoReplay'
  <2> SUFFICES ASSUME WindowInv, [Next]_vars PROVE WindowExact' /\ NoReplay'
    OBVIOUS
  <2>1. ASSUME NEW f \in Frames, FeedPacket(f) PROVE WindowExact' /\ NoReplay'
    BY <2>1, QuietStep DEF FeedPacket
  <2>2. ASSUME NEW f \in Frames, FeedPacketDrop(f) PROVE WindowExact' /\ NoReplay'
    BY <2>2, QuietStep DEF FeedPacketDrop, vars
  <2>3. CASE RecvDrop
    BY <2>3, QuietStep DEF RecvDrop
  <2>4. CASE RecvOverflow
    BY <2>4, QuietStep DEF RecvOverflow
  <2>5. CASE RecvAccept
    BY <2>5, AcceptStep
  <2>6. CASE Rekey
    BY <2>6, RekeyStep
  <2>7. CASE UNCHANGED vars
    BY <2>7, QuietStep DEF vars
  <2> QED BY <2>1, <2>2, <2>3, <2>4, <2>5, <2>6, <2>7 DEF Next
<1> QED BY <1>1, <1>2, TypeCorrect, PTL DEF Spec, WindowInv

(* No frame is ever accepted twice. *)
THEOREM ReplayFree == Spec => []NoReplay
BY WindowInvariant, PTL DEF WindowInv

(* The mask records exactly the frames accepted inside the window. *)
THEOREM MaskExact == Spec => []WindowExact
BY WindowInvariant, PTL DEF WindowInv

(* recv() drops an authentic frame only when it is a repeat or too old. *)
THEOREM StaleDropsOnly == Spec => DropsOnlyStale
<1> DEFINE A == \A f \in Frames :
          /\ read_buffer # << >> /\ f = Head(read_buffer)
          /\ read_buffer' = Tail(read_buffer)
          /\ f.key = rx_key /\ f.seq < MaxSeq
          => \/ accepted'[f] = accepted[f] + 1
             \/ accepted[f] > 0
             \/ TooOld(rx_seq, f.seq)
<1>1. WindowInv /\ [Next]_vars => [A]_vars
  <2> SUFFICES ASSUME WindowInv, [Next]_vars, ~UNCHANGED vars,
                      NEW f \in Frames,
                      read_buffer # << >>, f = Head(read_buffer),
                      read_buffer' = Tail(read_buffer),
                      f.key = rx_key, f.seq < MaxSeq,
                      ~TooOld(rx_seq, f.seq), ~(accepted[f] > 0)
               PROVE  accepted'[f] = accepted[f] + 1
    OBVIOUS
  <2>1. f.seq \in Seqs /\ rx_seq \in Seqs /\ accepted \in [Frames -> Nat]
    BY DEF WindowInv, TypeOK, Frames
  <2>2. ~Drops(f)
    <3>1. ~Replayed(rx_seq, rx_window_bitmap, f.seq)
      BY DEF WindowInv, WindowExact, Replayed
    <3> QED BY <3>1 DEF Drops
  <2>3. Len(Tail(read_buffer)) = Len(read_buffer) - 1 /\ Len(read_buffer) \in Nat
    BY HeadTailProperties DEF WindowInv, TypeOK
  <2>4. ASSUME NEW g \in Frames, FeedPacket(g) PROVE FALSE
    <3>1. Len(read_buffer') = Len(read_buffer) + 1
      BY <2>4 DEF FeedPacket, WindowInv, TypeOK
    <3> QED BY <2>3, <3>1
  <2>5. ASSUME NEW g \in Frames, FeedPacketDrop(g) PROVE FALSE
    BY <2>5 DEF FeedPacketDrop
  <2>6. ~RecvDrop
    BY <2>2 DEF RecvDrop
  <2>7. ~RecvOverflow
    BY <2>1, MaxSeqAssumption DEF RecvOverflow, Seqs
  <2>8. ASSUME Rekey PROVE FALSE
    <3>1. Len(read_buffer') = Len(read_buffer)
      BY <2>8 DEF Rekey
    <3>2. Len(read_buffer') = Len(read_buffer) - 1
      BY <2>3
    <3> QED BY <2>3, <3>1, <3>2
  <2>9. RecvAccept
    BY <2>4, <2>5, <2>6, <2>7, <2>8 DEF Next
  <2> QED BY <2>1, <2>9 DEF RecvAccept
<1>2. Spec => [][A]_vars
  BY <1>1, WindowInvariant, PTL DEF Spec
<1> QED BY <1>2 DEF DropsOnlyStale

-----------------------------------------------------------------------------
(* The filter's mark and the window's, while the first keys are in use. *)
MarksAgree ==
    rx_key = 0 => \/ last_rx_seq = -1 /\ rx_seq = 0
                  \/ last_rx_seq = rx_seq

(* Until the first rekey, what the transport's filter discards and         *)
(* acknowledges is what recv() would refuse as too old.                    *)
THEOREM FilterSafeBeforeRekey == Spec => []FilterKeepsFreshBeforeRekey
<1> USE WindowSizeAssumption, MaxSeqAssumption, MaxRekeysAssumption
<1>1. Init => MarksAgree
  BY DEF Init, MarksAgree
<1>2. TypeOK /\ MarksAgree /\ [Next]_vars => MarksAgree'
  <2> SUFFICES ASSUME TypeOK, MarksAgree, [Next]_vars PROVE MarksAgree'
    OBVIOUS
  <2>1. ASSUME UNCHANGED <<rx_key, rx_seq, last_rx_seq>> PROVE MarksAgree'
    BY <2>1 DEF MarksAgree
  <2>2. ASSUME NEW f \in Frames, FeedPacket(f) \/ FeedPacketDrop(f) PROVE MarksAgree'
    BY <2>1, <2>2 DEF FeedPacket, FeedPacketDrop, vars
  <2>3. CASE RecvDrop \/ RecvOverflow \/ UNCHANGED vars
    BY <2>1, <2>3 DEF RecvDrop, RecvOverflow, vars
  <2>4. CASE RecvAccept
    <3>1. Head(read_buffer).seq \in Seqs
      <4>1. Head(read_buffer) \in Frames
        BY <2>4, HeadTailProperties DEF RecvAccept, TypeOK
      <4> QED BY <4>1 DEF Frames
    <3> QED BY <2>4, <3>1
        DEF RecvAccept, MarksAgree, TypeOK, ConfirmAuthenticated, NextRxSeq, Seqs
  <2>5. CASE Rekey
    BY <2>5 DEF Rekey, MarksAgree, TypeOK, Generations
  <2> QED BY <2>2, <2>3, <2>4, <2>5 DEF Next
<1>3. MarksAgree => FilterKeepsFreshBeforeRekey
  BY DEF MarksAgree, FilterKeepsFreshBeforeRekey, FilterKeepsFresh, FilterDiscards, TooOld
<1> QED BY <1>1, <1>2, <1>3, TypeCorrect, PTL DEF Spec

=============================================================================
