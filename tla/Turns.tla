------------------------------- MODULE Turns --------------------------------
(***************************************************************************)
(* What the requests of a worker are promised, however their scripts are   *)
(* run: they take turns, one at a time; a turn is interrupted only by the  *)
(* request itself, which then has another one; and whoever has been        *)
(* answered, with one of its own replies, has no further turn and no other *)
(* answer.                                                                 *)
(***************************************************************************)
CONSTANTS
  Req,    (* the requests                                                  *)
  Reply,  (* Reply[r]: what may be sent to the client of r                 *)
  NoReply

VARIABLES
  stage,  (* of a request: "new", "running", "asleep", "left" (it has had  *)
          (* its last turn) or "over"                                      *)
  answer  (* what was sent to the client of a request, or NoReply          *)

turnVars == <<stage, answer>>

Init ==
  /\ stage = [r \in Req |-> "new"]
  /\ answer = [r \in Req |-> NoReply]

Moves(r, from, to) == stage[r] = from /\ stage' = [stage EXCEPT ![r] = to]

\* Nobody has a turn.
Idle == \A r \in Req : stage[r] # "running"

\* The first turn of a request.
Arrive(r) == Idle /\ Moves(r, "new", "running") /\ UNCHANGED answer

\* It interrupts its turn.
Sleep(r) ==
  Moves(r, "running", "asleep") /\ answer[r] = NoReply /\ UNCHANGED answer

\* The next turn of a request that interrupted its last.
Wake(r) == Idle /\ Moves(r, "asleep", "running") /\ UNCHANGED answer

Answered(r) ==
  /\ answer[r] = NoReply
  /\ \E reply \in Reply[r] : answer' = [answer EXCEPT ![r] = reply]

Answer(r) == stage[r] = "running" /\ Answered(r) /\ UNCHANGED stage

\* Its last turn ends, possibly with the answer.
Leave(r) ==
  /\ \E to \in {"left", "over"} : Moves(r, "running", to)
  /\ Answered(r) \/ UNCHANGED answer

\* A request is given up between turns.
GiveUp(r) ==
  /\ Idle
  /\ \E from \in {"asleep", "left"} : Moves(r, from, "over")
  /\ UNCHANGED answer

Next ==
  \E r \in Req :
    Arrive(r) \/ Sleep(r) \/ Wake(r) \/ Answer(r) \/ Leave(r) \/ GiveUp(r)

Spec == Init /\ [][Next]_turnVars

=============================================================================
