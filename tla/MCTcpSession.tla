---------------------------- MODULE MCTcpSession ----------------------------
(* Instances of a TCP session for TLC. *)
EXTENDS TcpSession, TLC

CONSTANTS m1, m2

(* Lengths, in chunks: the empty message takes one frame. *)
TwoAndOne == m1 :> 2 @@ m2 :> 1
TwoAndEmpty == m1 :> 2 @@ m2 :> 0

(* Which calls each application makes.  Talk, with HighWater = 2 in        *)
(* MCTcpChannel.cfg, shows the mutual wait the README describes.           *)
Talk == Client :> {"DATA", "PING"} @@ Server :> {"DATA", "PING"}
TalkAndRekey == Client :> {"DATA", "PING", "REKEY"} @@ Server :> {"DATA", "REKEY"}
ClientSends == Client :> {"DATA"} @@ Server :> {}
Everything == Client :> {"DATA", "REKEY", "BYE"} @@ Server :> {"PING", "REKEY", "BYE"}

(* How many calls each application makes. *)
ThreeAndOne == Client :> 3 @@ Server :> 1
TwoAndOneCalls == Client :> 2 @@ Server :> 1
TwoClientCalls == Client :> 2 @@ Server :> 0
=============================================================================
