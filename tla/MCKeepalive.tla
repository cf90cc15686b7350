---------------------------- MODULE MCKeepalive -----------------------------
(***************************************************************************)
(* Instances of Keepalive for TLC: a few connection slots shared by two    *)
(* sockets that talk to two servers.                                       *)
(***************************************************************************)
EXTENDS Keepalive, TLC

=============================================================================
