--------------------------- MODULE MCConfiguration ---------------------------
(***************************************************************************)
(* Configuration for TLC: one server with two locations, in http.          *)
(***************************************************************************)
EXTENDS Configuration, TLC

CONSTANTS http, server, a, b

ParentOf == (server :> http) @@ (a :> server) @@ (b :> server)

MergeOrder == <<server, a, b>>

=============================================================================
