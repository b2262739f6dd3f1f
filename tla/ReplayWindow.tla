---------------------------- MODULE ReplayWindow ----------------------------
(***************************************************************************)
(* The receive path of one UDP session up to the point where a frame is   *)
(* accepted: UDPStream.feed_packet, which filters and buffers datagrams,   *)
(* and the head of the loop of USMPSession.recv, which takes frames from   *)
(* the buffer, checks the replay window, authenticates, and slides it.     *)
(*                                                                         *)
(* The network may deliver any frame the peer ever sealed, in any order    *)
(* and any number of times.  A frame is its sequence number and the        *)
(* generation of the key that seals it: generation 0 is the handshake's,   *)
(* and each rekey starts the next one.                                     *)
(***************************************************************************)
EXTENDS SlidingWindow, Sequences

CONSTANTS
    MaxRekeys,  \* how often the keys rotate in a behaviour
    BufferCap   \* frames that fit in MAX_READ_BUFFER

ASSUME MaxRekeysAssumption == MaxRekeys \in Nat
ASSUME BufferCapAssumption == BufferCap \in Nat \ {0}

VARIABLES
    rx_seq,            \* SessionInfo.rx_seq
    rx_window_bitmap,  \* SessionInfo.rx_window_bitmap, as a set of offsets
    rx_key,            \* generation of SessionInfo.rx_key
    last_rx_seq,       \* UDPStream._last_rx_seq, -1 before the first frame
    read_buffer,       \* UDPStream._read_buffer
    accepted           \* history: how often each frame was accepted

vars == <<rx_seq, rx_window_bitmap, rx_key, last_rx_seq, read_buffer, accepted>>

Generations == 0 .. MaxRekeys

Frames == [key : Generations, seq : Seqs]

Init ==
    /\ rx_seq = 0
    /\ rx_window_bitmap = {}
    /\ rx_key = 0
    /\ last_rx_seq = -1
    /\ read_buffer = << >>
    /\ accepted = [f \in Frames |-> 0]

-----------------------------------------------------------------------------
(* UDPStream.feed_packet, for a session-phase frame. *)

(* "UDP Duplicate/Too-old packet discarded": acknowledged, never buffered. *)
FilterDiscards(s) == last_rx_seq # -1 /\ s <= last_rx_seq - WindowSize

FeedPacket(f) ==
    /\ ~FilterDiscards(f.seq)
    /\ Len(read_buffer) < BufferCap
    /\ read_buffer' = Append(read_buffer, f)
    /\ UNCHANGED <<rx_seq, rx_window_bitmap, rx_key, last_rx_seq, accepted>>

(* Discarded by the filter, or because the buffer is full. *)
FeedPacketDrop(f) ==
    /\ FilterDiscards(f.seq) \/ Len(read_buffer) >= BufferCap
    /\ UNCHANGED vars

-----------------------------------------------------------------------------
(* The head of the loop of USMPSession.recv, one frame per step.  There is *)
(* no await between the window check and its update.                       *)

(* UDPStream.confirm_authenticated *)
ConfirmAuthenticated(s) == IF s > last_rx_seq THEN s ELSE last_rx_seq

Drops(f) ==
    \/ TooOld(rx_seq, f.seq)
    \/ Replayed(rx_seq, rx_window_bitmap, f.seq)
    \/ f.key # rx_key  \* decrypt raises CryptoError; on UDP: drop, go on

(* Mutant: confirm_authenticated called for every frame read. *)
RecvDrop_Confirms ==
    /\ read_buffer # << >>
    /\ Drops(Head(read_buffer))
    /\ read_buffer' = Tail(read_buffer)
    /\ last_rx_seq' = ConfirmAuthenticated(Head(read_buffer).seq)
    /\ UNCHANGED <<rx_seq, rx_window_bitmap, rx_key, accepted>>

RecvDrop ==
    /\ read_buffer # << >>
    /\ Drops(Head(read_buffer))
    /\ read_buffer' = Tail(read_buffer)
    /\ UNCHANGED <<rx_seq, rx_window_bitmap, rx_key, last_rx_seq, accepted>>

(* An authentic frame at the last sequence number raises SequenceError out *)
(* of recv, before the window is touched.                                  *)
RecvOverflow ==
    /\ read_buffer # << >>
    /\ ~Drops(Head(read_buffer))
    /\ Head(read_buffer).seq >= MaxSeq
    /\ read_buffer' = Tail(read_buffer)
    /\ UNCHANGED <<rx_seq, rx_window_bitmap, rx_key, last_rx_seq, accepted>>

RecvAccept ==
    /\ read_buffer # << >>
    /\ LET f == Head(read_buffer) IN
        /\ ~Drops(f)
        /\ f.seq < MaxSeq
        /\ rx_seq' = NextRxSeq(rx_seq, f.seq)
        /\ rx_window_bitmap' = NextBitmap(rx_seq, rx_window_bitmap, f.seq)
        /\ last_rx_seq' = ConfirmAuthenticated(f.seq)
        /\ accepted' = [accepted EXCEPT ![f] = @ + 1]
    /\ read_buffer' = Tail(read_buffer)
    /\ UNCHANGED rx_key

(* Mutant: a rotation that forgets to clear the mask. *)
Rekey_KeepsBitmap ==
    /\ rx_key < MaxRekeys
    /\ rx_key' = rx_key + 1
    /\ rx_seq' = 0
    /\ UNCHANGED <<rx_window_bitmap, last_rx_seq, read_buffer, accepted>>

(* The rotation at the end of rekey(), or in recv() for a REKEY frame: the *)
(* session's sequence state starts again.  The transport gets the new keys *)
(* (set_session_keys) and keeps its _last_rx_seq.                          *)
Rekey ==
    /\ rx_key < MaxRekeys
    /\ rx_key' = rx_key + 1
    /\ rx_seq' = 0
    /\ rx_window_bitmap' = {}
    /\ UNCHANGED <<last_rx_seq, read_buffer, accepted>>

Next ==
    \/ \E f \in Frames : FeedPacket(f) \/ FeedPacketDrop(f)
    \/ RecvDrop
    \/ RecvOverflow
    \/ RecvAccept
    \/ Rekey

Spec == Init /\ [][Next]_vars

-----------------------------------------------------------------------------
TypeOK ==
    /\ rx_seq \in Seqs
    /\ rx_window_bitmap \in SUBSET Offsets
    /\ rx_key \in Generations
    /\ last_rx_seq \in Seqs \cup {-1}
    /\ read_buffer \in Seq(Frames)
    /\ accepted \in [Frames -> Nat]

(* No frame is accepted twice, however often and in whatever order the     *)
(* network delivers it, and whatever rekeys happen in between: what the    *)
(* replay window of recv() is for.                                         *)
NoReplay == \A f \in Frames : accepted[f] <= 1

(* The mask is exact: inside the window a bit is set precisely for the     *)
(* sequence numbers already accepted under the current key, above rx_seq   *)
(* nothing was accepted, and nothing of a later key was.  A bit too few    *)
(* would let a replay in, a bit too many would refuse a fresh frame that   *)
(* the peer believes delivered.                                            *)
WindowExact ==
    /\ \A f \in Frames :
          /\ f.key = rx_key /\ f.seq > rx_seq => accepted[f] = 0
          /\ f.key > rx_key => accepted[f] = 0
          /\ f.key = rx_key /\ f.seq <= rx_seq /\ ~TooOld(rx_seq, f.seq)
                => (accepted[f] > 0 <=> rx_seq - f.seq \in rx_window_bitmap)

(* recv() throws away an authentic frame only if it was accepted before or *)
(* is WindowSize or more behind the newest one ("too old").                *)
DropsOnlyStale ==
    [][ \A f \in Frames :
          /\ read_buffer # << >> /\ f = Head(read_buffer)
          /\ read_buffer' = Tail(read_buffer)
          /\ f.key = rx_key /\ f.seq < MaxSeq
          => \/ accepted'[f] = accepted[f] + 1
             \/ accepted[f] > 0
             \/ TooOld(rx_seq, f.seq) ]_vars

(* feed_packet's early filter acknowledges what it discards, so the peer   *)
(* takes the frame for delivered.  It must therefore discard only frames   *)
(* that recv() itself would refuse as too old.                             *)
FilterKeepsFresh ==
    \A s \in Seqs : FilterDiscards(s) => TooOld(rx_seq, s)

(* Until the keys first rotate that holds: the filter's mark _last_rx_seq  *)
(* and the window's rx_seq advance together, whatever unauthentic frames   *)
(* arrive in between.                                                      *)
FilterKeepsFreshBeforeRekey == rx_key = 0 => FilterKeepsFresh

=============================================================================
