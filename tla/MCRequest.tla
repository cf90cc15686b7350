----------------------------- MODULE MCRequest ------------------------------
(***************************************************************************)
(* Instances of Request for TLC.                                           *)
(***************************************************************************)
EXTENDS Request

Location(r, a, c) ==
  [p \in PhpPhase |-> CASE p = "rewrite" -> r [] p = "access" -> a [] OTHER -> c]

\* Only one that reads no body has an inline access script.
Cases ==
  {q \in [method : {"GET", "HEAD", "POST", "PUT"},
          kind : {Location(r, a, c) : r \in {"none", "inline", "file"},
                                      a \in {"none", "inline", "file"},
                                      c \in {"none", "inline", "file", "stack"}},
          body : {"none", "data", "file"},
          filters : BOOLEAN] :
     /\ q.method \in {"GET", "HEAD"} => q.body = "none"
     /\ q.kind["access"] = "inline" => q.method \in {"GET", "HEAD"}}

AccessCases ==
  {[method |-> "POST", kind |-> Location("none", "inline", "inline"), body |-> b,
    filters |-> FALSE] : b \in {"none", "data"}}

=============================================================================
