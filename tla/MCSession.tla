----------------------------- MODULE MCSession -----------------------------
(***************************************************************************)
(* Instances of the sending half for TLC.  The client is the peer under    *)
(* test; the server makes no calls of its own and only stands for the peer *)
(* whose PINGs and REKEYs arrive.                                          *)
(***************************************************************************)
EXTENDS Session, TLC

CONSTANTS m1, m2

(* m1 takes two fragments, m2 one. *)
TwoAndOne == m1 :> 2 @@ m2 :> 1

ClientCalls == Client :> 4 @@ Server :> 0

AllCalls == {"DATA", "PING", "PONG", "REKEY", "BYE"}

(* The peer rekeys too. *)
BothRekey == Client :> AllCalls @@ Server :> {"REKEY"}

Symmetry == Permutations(Tasks) \cup Permutations(Salts)
=============================================================================
