------------------------------ MODULE MCServer ------------------------------
(* Values for the constants of Server. *)
EXTENDS Server

(* A TCP server and a UDP server, on both sides of the change in asyncio,  *)
(* with room for two connections or, to keep the last one small, for one.  *)
TcpAndUdp ==
    { [reliable |-> TRUE, max_connections |-> 2, max_connections_per_ip |-> 1, py312 |-> TRUE],
      [reliable |-> FALSE, max_connections |-> 2, max_connections_per_ip |-> 2, py312 |-> TRUE],
      [reliable |-> FALSE, max_connections |-> 2, max_connections_per_ip |-> 2, py312 |-> FALSE],
      [reliable |-> TRUE, max_connections |-> 1, max_connections_per_ip |-> 1, py312 |-> FALSE] }

JustTcp ==
    { [reliable |-> TRUE, max_connections |-> 2, max_connections_per_ip |-> 2, py312 |-> TRUE] }

=============================================================================
