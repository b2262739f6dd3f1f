--------------------------- MODULE SlidingWindow ---------------------------
(***************************************************************************)
(* The arithmetic of the 64-entry sliding replay window that              *)
(* USMPSession.recv keeps for a transport that is not reliable (UDP).      *)
(*                                                                         *)
(* The code keeps the window as an integer bit mask; bit o stands for      *)
(* sequence number rx_seq - o.  Here the mask is the set of the bits that  *)
(* are set, a subset of Offsets.  Sequence numbers are the 4-byte field of *)
(* the frame header; Python's integers are unbounded, so rx_seq - 64 may   *)
(* be negative and no comparison wraps.                                    *)
(***************************************************************************)
EXTENDS Integers

CONSTANTS
    WindowSize,  \* 64 in the code
    MaxSeq       \* 0xFFFFFFFF in the code

ASSUME WindowSizeAssumption == WindowSize \in Nat \ {0}
ASSUME MaxSeqAssumption == MaxSeq \in Nat

Seqs == 0 .. MaxSeq

Offsets == 0 .. WindowSize - 1

(* Mutant: < for <=, which admits the number that has just left the mask. *)
TooOld_OffByOne(rx_seq, s) == s < rx_seq - WindowSize

(* "too old, drop silently" *)
TooOld(rx_seq, s) == s <= rx_seq - WindowSize

(* "duplicate/replayed seq, drop silently" *)
Replayed(rx_seq, bitmap, s) == s <= rx_seq /\ rx_seq - s \in bitmap

(* Mutant: the bits are shifted out of the mask on the wrong side. *)
ShiftLeft_Right(bitmap, shift) == { o \in Offsets : o + shift \in bitmap }

(* Mutant: the shift without its mask. *)
ShiftLeft_Unmasked(bitmap, shift) == { o + shift : o \in bitmap }

(* (bitmap << shift) & 0xFFFFFFFFFFFFFFFF, for a shift below the width. *)
ShiftLeft(bitmap, shift) == { o \in Offsets : o - shift \in bitmap }

(* The window after an authenticated frame with sequence number s. *)
NextRxSeq(rx_seq, s) == IF s > rx_seq THEN s ELSE rx_seq

NextBitmap(rx_seq, bitmap, s) ==
    IF s > rx_seq
    THEN IF s - rx_seq < WindowSize
         THEN ShiftLeft(bitmap, s - rx_seq) \cup {0}
         ELSE {0}
    ELSE bitmap \cup {rx_seq - s}

=============================================================================
