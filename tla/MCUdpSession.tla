---------------------------- MODULE MCUdpSession ----------------------------
(* Instances of a UDP session for TLC. *)
EXTENDS UdpSession, TLC

CONSTANTS m1, m2, m3

(* Lengths, in chunks. *)
OneTwoThree == m1 :> 1 @@ m2 :> 2 @@ m3 :> 3

ClientTalks == Client :> {"DATA", "PING", "REKEY", "BYE"} @@ Server :> {}
ClientRekeys == Client :> {"DATA", "REKEY"} @@ Server :> {}

TwoClientCalls == Client :> 2 @@ Server :> 0
=============================================================================
