----------------------------- MODULE MCUthread ------------------------------
(***************************************************************************)
(* Instances of Uthread for TLC: one or two requests, with the scripts of  *)
(* their locations.                                                        *)
(***************************************************************************)
EXTENDS Uthread, TLC

CONSTANTS r1, r2

\* Locations, by the phases that have a script.
AllScripts == [p \in Phase |-> IF p = "rewrite" THEN "file" ELSE "inline"]
AccessAndContent == [p \in Phase |-> IF p = "rewrite" THEN "none" ELSE "inline"]
AccessOnly == [p \in Phase |-> IF p = "access" THEN "inline" ELSE "none"]
ContentOnly == [p \in Phase |-> IF p = "content" THEN "inline" ELSE "none"]

\* What the locations of the requests are.
AllAndAccess == (r1 :> AllScripts) @@ (r2 :> AccessOnly)
BothAccessAndContent == [r \in Req |-> AccessAndContent]
JustContent == [r \in Req |-> ContentOnly]

=============================================================================
