------------------------------ MODULE Request -------------------------------
(***************************************************************************)
(* One request of ngx-php from its body to its answer: reading the body    *)
(* before the script, and the output chain with the length that announces  *)
(* it (src/ngx_http_php_handler.c, ngx_http_php_code_ub_write).            *)
(*                                                                         *)
(* A handler that needs the body hands nginx a callback and returns; the   *)
(* callback runs the phases of the request.  When the body is there        *)
(* already nginx calls it at once, so that the phases run a second time    *)
(* inside the handler that is still at work for the first run.             *)
(*                                                                         *)
(* What requests do to each other is the subject of Uthread: here there is *)
(* one, and the exit status is that of its own scripts.  nginx itself is   *)
(* modelled as far as a handler's return value and the body reach.         *)
(***************************************************************************)
EXTENDS Integers, Sequences

CONSTANTS
  Requests,      (* the requests to consider                               *)
  ScriptStatus,  (* statuses scripts give to ngx_exit                      *)
  MaxOutput,     (* bound: bytes a script writes before it is suspended    *)
  MaxYields,     (* bound: suspensions of one script                       *)
  MaxRedirects,  (* bound: internal redirects                              *)
  NULL

PhpPhase == {"rewrite", "access", "content"}

\* PUT stands for PUT, DELETE and PATCH, "stack" for opcode and stack scripts.
RequestType ==
  [method : {"GET", "HEAD", "POST", "PUT"},
   kind : [PhpPhase -> {"none", "inline", "file", "stack"}],
   body : {"none", "data", "file"},
   filters : BOOLEAN]

\* REDIRECT is 302, 303, 307 or 308, OTHER any other status from 300 up.
Status == {"OK", "HTTP_OK", "DECLINED", "REDIRECT", "OTHER", "ERROR"}

ASSUME RequestAssumption ==
  /\ Requests \subseteq RequestType
  /\ \A q \in Requests, p \in {"rewrite", "access"} : q.kind[p] # "stack"
  /\ ScriptStatus \subseteq Status \ {"DECLINED"}
  /\ MaxOutput \in Nat
  /\ MaxYields \in Nat
  /\ MaxRedirects \in Nat
  /\ NULL \notin [more : BOOLEAN, done : BOOLEAN, data : BOOLEAN,
                  status : {"OK", "DECLINED", "AGAIN"}, output : Nat]
  /\ NULL \notin [by : {"script", "nginx"}, announced : Int, sent : Int]
  /\ NULL \notin {"reading", "read"}
  /\ NULL \notin Status \cup {"AGAIN", "DONE"}

VARIABLES
  req,          (* the request                                             *)
  life,         (* is it new, active, posted to die, or freed?             *)
  count,        (* r->main->count                                          *)
  phase,        (* the phase r->phase_handler is at                        *)
  frames,       (* runs of the phases that wait for one inside them: the   *)
                (* phase whose handler reads the body, or "redirect"       *)
  ctx,          (* its ngx_http_php_ctx_t                                  *)
  length,       (* r->headers_out.content_length_n                         *)
  request_body, (* r->request_body: NULL, "reading" or "read"              *)
  timer,        (* ctx->sleep.timer_set                                    *)
  answer,       (* what was sent to the client                             *)
  exit_status,  (* EG(exit_status)                                         *)
  at,           (* how far the worker is with the request                  *)
  rc,           (* the return value of the handler                         *)
  checker,      (* the phase whose checker gets it                         *)
  yields,       (* suspensions of the current script                       *)
  redirects     (* internal redirects                                      *)

(* History, for the properties only. *)
VARIABLES
  ran,          (* scripts started since the last redirect                 *)
  exited,       (* has a script ended the request with ngx_exit?           *)
  stranded,     (* did it do so when it had been resumed?                  *)
  forgotten,    (* has the body been read, and no phases run for it?       *)
  waits,        (* suspensions in the access phase                         *)
  lost          (* bytes announced and never sent, less those sent and     *)
                (* never announced                                         *)

answerVars == <<length, answer>>
workerVars == <<at, rc, checker>>
boundVars == <<yields, redirects>>
historyVars == <<ran, exited, stranded, forgotten, waits, lost>>
vars == <<req, life, count, phase, frames, ctx, length, request_body, timer,
          answer, exit_status, at, rc, checker, yields, redirects, ran, exited,
          stranded, forgotten, waits, lost>>

-----------------------------------------------------------------------------

Idle == at = "idle"

GoTo(point) == at' = point /\ UNCHANGED <<rc, checker>>

Return(status) == at' = "return" /\ rc' = status /\ checker' = phase

\* A ctx of the post-read handler, and one a phase handler allocates, zeroed.
PostReadCtx ==
  [more |-> TRUE, done |-> FALSE, data |-> FALSE, status |-> "DECLINED", output |-> 0]
ZeroedCtx ==
  [more |-> FALSE, done |-> FALSE, data |-> FALSE, status |-> "OK", output |-> 0]

Init ==
  /\ req \in Requests
  /\ life = "new"
  /\ count = 0
  /\ phase = "rewrite"
  /\ frames = <<>>
  /\ ctx = NULL
  /\ length = -1
  /\ request_body = NULL
  /\ timer = FALSE
  /\ answer = NULL
  /\ exit_status = "OK"
  /\ at = "idle"
  /\ rc = NULL
  /\ checker = "rewrite"
  /\ yields = 0
  /\ redirects = 0
  /\ ran = {}
  /\ exited = FALSE
  /\ stranded = FALSE
  /\ forgotten = FALSE
  /\ waits = 0
  /\ lost = 0

PostRead ==
  /\ life = "new"
  /\ life' = "active"
  /\ count' = 1
  /\ ctx' = PostReadCtx
  /\ GoTo("phases")
  /\ UNCHANGED <<req, phase, frames, length, request_body, timer, answer,
                 exit_status, boundVars, historyVars>>

-----------------------------------------------------------------------------
(* nginx's side: the end of a request, and the phase engine.               *)

(***************************************************************************)
(* A run of the phases is over.  If it was inside another one, that one    *)
(* goes on: after a redirect its handler returns NGX_DONE, and a handler   *)
(* that has read the body NGX_OK, whatever became of the request.          *)
(***************************************************************************)
EndRun ==
  IF frames = <<>>
  THEN /\ at' = "idle"
       /\ rc' = NULL
       /\ UNCHANGED <<frames, checker>>
  ELSE LET outer == frames[Len(frames)]
       IN  /\ frames' = SubSeq(frames, 1, Len(frames) - 1)
           /\ at' = "return"
           /\ rc' = IF outer = "redirect" THEN "DONE" ELSE "OK"
           /\ checker' = IF outer = "redirect" THEN "content" ELSE outer

\* ngx_http_php_sleep_cleanup deletes the timer if it still finds the ctx.
SleepCleanup == timer' = (timer /\ ctx = NULL)

\* ngx_http_finalize_connection: the last reference frees the request.
Release ==
  /\ count' = count - 1
  /\ IF count = 1
     THEN life' = "freed" /\ SleepCleanup
     ELSE UNCHANGED <<life, timer>>

\* ngx_http_terminate_request cleans up and posts the end of the request.
TerminateRequest ==
  /\ life' = "posted"
  /\ SleepCleanup
  /\ UNCHANGED count

RunPosted ==
  /\ Idle
  /\ life = "posted"
  /\ life' = "freed"
  /\ UNCHANGED <<req, count, phase, frames, ctx, answerVars, request_body, timer,
                 exit_status, workerVars, boundVars, historyVars>>

\* "static" are the handlers of nginx after that of ngx-php.
After(p) == CASE p = "rewrite" -> "access"
              [] p = "access" -> "content"
              [] OTHER -> "static"

\* r->phase_handler++
NextPhase ==
  /\ phase' = After(phase)
  /\ yields' = 0
  /\ at' = "phases"
  /\ rc' = NULL
  /\ UNCHANGED <<checker, redirects>>

SkipPhase ==
  /\ at = "phases"
  /\ phase \in PhpPhase
  /\ req.kind[phase] = "none"
  /\ NextPhase
  /\ UNCHANGED <<req, life, count, frames, ctx, answerVars, request_body, timer,
                 exit_status, historyVars>>

\* The handlers that remain send a file, to those who GET one.
StaticContent ==
  /\ at = "phases"
  /\ phase = "static"
  /\ IF req.method \in {"GET", "HEAD"} /\ answer = NULL
     THEN /\ answer' = [by |-> "nginx", announced |-> 0, sent |-> 0]
          /\ Return("OK")
     ELSE /\ Return(IF req.method \in {"GET", "HEAD"} THEN "ERROR" ELSE "OTHER")
          /\ UNCHANGED answer
  /\ UNCHANGED <<req, life, count, phase, frames, ctx, length, request_body, timer,
                 exit_status, boundVars, historyVars>>

(***************************************************************************)
(* try_files or index: ngx_http_internal_redirect runs the phases of       *)
(* another location.  It clears the ctx, and neither the body nor the      *)
(* length of the output it held.                                           *)
(***************************************************************************)
InternalRedirect ==
  /\ at = "phases"
  /\ phase = "content"
  /\ redirects < MaxRedirects
  /\ redirects' = redirects + 1
  /\ count' = count + 1
  /\ frames' = Append(frames, "redirect")
  /\ phase' = "rewrite"
  /\ yields' = 0
  /\ ctx' = NULL
  /\ ran' = {}
  /\ lost' = lost + IF ctx = NULL THEN 0 ELSE ctx.output
  /\ GoTo("phases")
  /\ UNCHANGED <<req, life, answerVars, request_body, timer, exit_status, exited,
                 stranded, forgotten, waits>>

\* NGX_DECLINED of any handler, and NGX_OK of an access handler.
PhaseDone ==
  /\ at = "return"
  /\ rc = "DECLINED" \/ (rc = "OK" /\ checker = "access")
  /\ NextPhase
  /\ UNCHANGED <<req, life, count, frames, ctx, answerVars, request_body, timer,
                 exit_status, historyVars>>

\* ngx_http_core_access_phase stops at NGX_AGAIN without finalizing.
AccessWaits ==
  /\ at = "return"
  /\ checker = "access"
  /\ rc = "AGAIN"
  /\ waits' = waits + 1
  /\ EndRun
  /\ UNCHANGED <<req, life, count, phase, ctx, answerVars, request_body, timer,
                 exit_status, boundVars, ran, exited, stranded, forgotten, lost>>

\* Every other return value goes to ngx_http_finalize_request.
FinalizeQuietly ==
  /\ at = "return"
  /\ rc \in {"OK", "HTTP_OK", "AGAIN", "DONE"}
  /\ checker = "access" => rc \notin {"OK", "AGAIN"}
  /\ Release
  /\ EndRun
  /\ UNCHANGED <<req, phase, ctx, answerVars, request_body, exit_status, boundVars,
                 historyVars>>

\* A status is answered with its page, unless a header was sent before.
FinalizeWithStatus ==
  /\ at = "return"
  /\ rc \in {"REDIRECT", "OTHER"}
  /\ IF answer = NULL
     THEN /\ answer' = [by |-> "nginx", announced |-> 0, sent |-> 0]
          /\ Release
     ELSE TerminateRequest /\ UNCHANGED answer
  /\ EndRun
  /\ UNCHANGED <<req, phase, ctx, length, request_body, exit_status, boundVars,
                 historyVars>>

FinalizeWithError ==
  /\ at = "return"
  /\ rc = "ERROR"
  /\ TerminateRequest
  /\ EndRun
  /\ UNCHANGED <<req, phase, ctx, answerVars, request_body, exit_status, boundVars,
                 historyVars>>

-----------------------------------------------------------------------------
(* A handler of ngx-php, and the body of the request.                      *)

Kind == IF phase = "static" THEN "none" ELSE req.kind[phase]

\* A missing ctx is allocated.  A content file runs the phases for any body.
EnterHandler ==
  /\ at = "phases"
  /\ phase \in PhpPhase
  /\ Kind # "none"
  /\ LET c == IF ctx = NULL THEN ZeroedCtx ELSE ctx
     IN  ctx' = IF phase = "content" /\ Kind # "inline"
                THEN [c EXCEPT !.more = TRUE] ELSE c
  /\ exit_status' =
       IF phase = "content" /\ Kind # "stack" THEN "OK" ELSE exit_status
  /\ GoTo("handler")
  /\ UNCHANGED <<req, life, count, phase, frames, answerVars, request_body, timer,
                 boundVars, historyVars>>

\* The handlers that read the body, and of which requests.
ReadingHandler ==
  \/ Kind = "inline" /\ req.method \in {"POST", "PUT"}
  \/ phase = "content" /\ Kind = "file" /\ req.method = "POST"

MustRead == at = "handler" /\ ReadingHandler /\ ~ctx.done

(***************************************************************************)
(* ngx_http_php_read_request_body_callback.  A body in memory is handed to *)
(* the scripts, and the phases are run for it only if the ctx asks for it. *)
(***************************************************************************)
BodyCallback(c) ==
  [c EXCEPT !.done = TRUE,
            !.data = @ \/ req.body = "data",
            !.more = @ /\ req.body # "data"]

CallbackRunsPhases(c) == c.more \/ req.body # "data"

\* The body is there: the callback runs inside the handler.
ReadBodyNow ==
  /\ MustRead
  /\ count' = count + 1
  /\ request_body' = "read"
  /\ ctx' = BodyCallback(ctx)
  /\ IF CallbackRunsPhases(ctx)
     THEN /\ frames' = Append(frames, phase)
          /\ GoTo("phases")
          /\ UNCHANGED forgotten
     ELSE /\ forgotten' = TRUE
          /\ Return("OK")
          /\ UNCHANGED frames
  /\ UNCHANGED <<req, life, phase, answerVars, timer, exit_status, boundVars, ran,
                 exited, stranded, waits, lost>>

\* It is not: the handler returns, and the callback runs by itself.
ReadBodyLater ==
  /\ MustRead
  /\ request_body = NULL
  /\ req.body # "none"
  /\ count' = count + 1
  /\ request_body' = "reading"
  /\ ctx' = [ctx EXCEPT !.more = TRUE, !.done = FALSE]
  /\ Return("AGAIN")
  /\ UNCHANGED <<req, life, phase, frames, answerVars, timer, exit_status,
                 boundVars, historyVars>>

\* nginx cannot read it, and says why.
ReadBodyFails ==
  /\ MustRead
  /\ request_body = NULL
  /\ Return("OTHER")
  /\ UNCHANGED <<req, life, count, phase, frames, ctx, answerVars, request_body,
                 timer, exit_status, boundVars, historyVars>>

BodyArrives ==
  /\ Idle
  /\ life = "active"
  /\ request_body = "reading"
  /\ request_body' = "read"
  /\ ctx' = BodyCallback(ctx)
  /\ IF CallbackRunsPhases(ctx)
     THEN GoTo("phases") /\ UNCHANGED forgotten
     ELSE forgotten' = TRUE /\ UNCHANGED workerVars
  /\ UNCHANGED <<req, life, count, phase, frames, answerVars, timer, exit_status,
                 boundVars, ran, exited, stranded, waits, lost>>

\* The client goes away or takes too long.
BodyLost ==
  /\ Idle
  /\ life = "active"
  /\ request_body = "reading"
  /\ request_body' = NULL
  /\ TerminateRequest
  /\ UNCHANGED <<req, phase, frames, ctx, answerVars, exit_status, workerVars,
                 boundVars, historyVars>>

-----------------------------------------------------------------------------
(* The script of the handler.                                              *)

StartStatus ==
  IF phase = "content" /\ Kind = "file" THEN "OK" ELSE "DECLINED"

\* Mutant of StartScript: the handler does not wait for the body.
StartScriptWithoutBody ==
  /\ at = "handler"
  /\ Kind # "stack"
  /\ ctx.status = "DECLINED"
  /\ ctx' = [ctx EXCEPT !.status = "OK"]
  /\ exit_status' = StartStatus
  /\ ran' = ran \cup {phase}
  /\ GoTo("script")
  /\ UNCHANGED <<req, life, count, phase, frames, answerVars, request_body, timer,
                 boundVars, exited, stranded, forgotten, waits, lost>>

StartScript ==
  /\ at = "handler"
  /\ ~MustRead
  /\ Kind # "stack"
  /\ ctx.status = "DECLINED"
  /\ ctx' = [ctx EXCEPT !.status = "OK"]
  /\ exit_status' = StartStatus
  /\ ran' = ran \cup {phase}
  /\ GoTo("script")
  /\ UNCHANGED <<req, life, count, phase, frames, answerVars, request_body, timer,
                 boundVars, exited, stranded, forgotten, waits, lost>>

InScript == at \in {"script", "next"}

\* Mutant of Lengthen: the first piece does not count for one more.
LengthenFromMinusOne(n) == length + n

\* The length that announces the output starts at -1 and grows with it.
Lengthen(n) == IF n > 0 /\ length = -1 THEN length + n + 1 ELSE length + n

Echo ==
  /\ InScript
  /\ ctx.output < MaxOutput
  /\ ctx' = [ctx EXCEPT !.output = @ + 1]
  /\ length' = Lengthen(1)
  /\ UNCHANGED <<req, life, count, phase, frames, request_body, timer, answer,
                 exit_status, workerVars, boundVars, historyVars>>

\* ngx_status, ngx_redirect; a script sets its status once (a bound).
SetStatus ==
  /\ InScript
  /\ exit_status = StartStatus
  /\ exit_status' \in ScriptStatus
  /\ UNCHANGED <<req, life, count, phase, frames, ctx, answerVars, request_body,
                 timer, workerVars, boundVars, historyVars>>

\* `yield ngx_sleep(n)': out of the first call to the handler.
Yield ==
  /\ InScript
  /\ Kind = "inline"
  /\ yields < MaxYields
  /\ yields' = yields + 1
  /\ ctx' = [ctx EXCEPT !.status = "AGAIN"]
  /\ timer' = TRUE
  /\ IF at = "script" THEN GoTo("handler") /\ UNCHANGED frames ELSE EndRun
  /\ UNCHANGED <<req, life, count, phase, answerVars, request_body, exit_status,
                 redirects, historyVars>>

ScriptEnds ==
  /\ at = "script"
  /\ GoTo("handler")
  /\ UNCHANGED <<req, life, count, phase, frames, ctx, answerVars, request_body,
                 timer, exit_status, boundVars, historyVars>>

\* Mutant of GeneratorEnds: the script is left to be started again.
GeneratorEndsDeclined ==
  /\ at = "next"
  /\ ctx' = [ctx EXCEPT !.status = "DECLINED"]
  /\ GoTo("phases")
  /\ UNCHANGED <<req, life, count, phase, frames, answerVars, request_body, timer,
                 exit_status, boundVars, historyVars>>

\* Mutant of GeneratorEnds: the phases are not run.
GeneratorEndsParked ==
  /\ at = "next"
  /\ ctx' = [ctx EXCEPT !.status = "OK"]
  /\ GoTo("idle")
  /\ UNCHANGED <<req, life, count, phase, frames, answerVars, request_body, timer,
                 exit_status, boundVars, historyVars>>

\* A resumed generator ends: the phases are run again.
GeneratorEnds ==
  /\ at = "next"
  /\ ctx' = [ctx EXCEPT !.status = "OK"]
  /\ GoTo("phases")
  /\ UNCHANGED <<req, life, count, phase, frames, answerVars, request_body, timer,
                 exit_status, boundVars, historyVars>>

(***************************************************************************)
(* ngx_exit unwinds PHP: to the handler, or out of a resumed generator to  *)
(* the end of the timer event.  With 0 or 200 and nothing written a        *)
(* rewrite or access script asks for the next phase.                       *)
(***************************************************************************)
Exit ==
  /\ InScript
  /\ exit_status' \in ScriptStatus
  /\ exited' = \/ exited
               \/ phase = "content"
               \/ at = "next"
               \/ ctx.output > 0
               \/ exit_status' \notin {"OK", "HTTP_OK"}
  /\ stranded' = (stranded \/ at = "next")
  /\ IF at = "script" THEN GoTo("handler") /\ UNCHANGED frames ELSE EndRun
  /\ UNCHANGED <<req, life, count, phase, ctx, answerVars, request_body, timer,
                 boundVars, ran, forgotten, waits, lost>>

\* Mutant of SleepHandler: the timer resumes nobody.
SleepHandlerDeaf ==
  /\ Idle
  /\ timer
  /\ timer' = FALSE
  /\ UNCHANGED <<req, life, count, phase, frames, ctx, answerVars, request_body,
                 exit_status, workerVars, boundVars, historyVars>>

\* ngx_http_php_sleep_handler
SleepHandler ==
  /\ Idle
  /\ timer
  /\ timer' = FALSE
  /\ IF ctx # NULL THEN GoTo("next") ELSE UNCHANGED workerVars
  /\ UNCHANGED <<req, life, count, phase, frames, ctx, answerVars, request_body,
                 exit_status, boundVars, historyVars>>

-----------------------------------------------------------------------------
(* The handler again: what it makes of the script.                         *)

\* Mutant of HandlerAgain: no reference is taken.
HandlerAgainUncounted ==
  /\ at = "handler"
  /\ ~MustRead
  /\ Kind # "stack"
  /\ ctx.status = "AGAIN"
  /\ Return("AGAIN")
  /\ UNCHANGED <<req, life, count, phase, frames, ctx, answerVars, request_body,
                 timer, exit_status, boundVars, historyVars>>

HandlerAgain ==
  /\ at = "handler"
  /\ ~MustRead
  /\ Kind # "stack"
  /\ ctx.status = "AGAIN"
  /\ count' = count + 1
  /\ Return("AGAIN")
  /\ UNCHANGED <<req, life, phase, frames, ctx, answerVars, request_body, timer,
                 exit_status, boundVars, historyVars>>

SetOutput ==
  /\ at = "handler"
  /\ ~MustRead
  /\ Kind # "stack"
  /\ ctx.status = "OK"

\* The statuses with which a handler sends the output of the scripts.
Emits ==
  IF phase # "content" THEN {"OK", "HTTP_OK"}
  ELSE IF Kind = "inline" THEN Status \ {"ERROR", "REDIRECT"}
  ELSE {"OK", "DECLINED"}

Declining(c) == [c EXCEPT !.status = "DECLINED"]

\* Mutant of SetOutputStatus: the next phase runs whatever was written.
SetOutputStatusUnread ==
  /\ SetOutput
  /\ \/ exit_status \notin Emits /\ Return(exit_status)
     \/ exit_status \in Emits /\ phase # "content" /\ Return("DECLINED")
  /\ ctx' = Declining(ctx)
  /\ UNCHANGED <<req, life, count, phase, frames, answerVars, request_body, timer,
                 exit_status, boundVars, historyVars>>

\* Nothing is sent: the exit status goes to nginx, or the next phase runs.
SetOutputStatus ==
  /\ SetOutput
  /\ \/ exit_status \notin Emits /\ Return(exit_status)
     \/ exit_status \in Emits /\ phase # "content" /\ ctx.output = 0 /\ Return("DECLINED")
  /\ ctx' = Declining(ctx)
  /\ UNCHANGED <<req, life, count, phase, frames, answerVars, request_body, timer,
                 exit_status, boundVars, historyVars>>

\* What the filter scripts of the location write, if it has any (a bound).
FilterOutput == IF req.filters /\ Kind # "stack" THEN {0, 1} ELSE {0}

\* A handler that has nothing to send adds a space.
Filler(c) == IF c.output = 0 THEN 1 ELSE 0

\* A request has one header: a second one is refused.
SendRefused(c) ==
  /\ answer # NULL
  /\ ctx' = [c EXCEPT !.output = @ + Filler(c)]
  /\ length' = Lengthen(Filler(c))
  /\ Return("ERROR")
  /\ UNCHANGED <<answer, lost>>

\* HEAD: the header is sent, and sending it a second time is an error.
SendHead(c, head) ==
  LET written == Filler(c) + head
  IN  /\ answer = NULL
      /\ req.method = "HEAD"
      /\ length' = Lengthen(written)
      /\ answer' = [by |-> "script", announced |-> Lengthen(written), sent |-> 0]
      /\ ctx' = [c EXCEPT !.output = @ + written]
      /\ Return("ERROR")
      /\ UNCHANGED lost

\* Header and body are sent, and the ctx is given up.
SendAll(c, head, tail) ==
  LET written == Filler(c) + head
  IN  /\ answer = NULL
      /\ req.method # "HEAD"
      /\ length' = Lengthen(written) + tail
      /\ answer' = [by |-> "script", announced |-> Lengthen(written),
                    sent |-> c.output + written + tail]
      /\ ctx' = NULL
      /\ lost' = lost - tail
      /\ Return(IF phase = "access" THEN "HTTP_OK" ELSE "OK")

(***************************************************************************)
(* The header filter script adds to the output before its length is        *)
(* announced, the body filter script after.                                *)
(***************************************************************************)
SendOutput(c) ==
  \/ SendRefused(c)
  \/ \E head \in FilterOutput : SendHead(c, head)
  \/ \E head \in FilterOutput, tail \in FilterOutput : SendAll(c, head, tail)

SetOutputSend ==
  /\ SetOutput
  /\ exit_status \in Emits
  /\ phase = "content" \/ ctx.output > 0
  /\ SendOutput(Declining(ctx))
  /\ UNCHANGED <<req, life, count, phase, frames, request_body, timer, exit_status,
                 boundVars, ran, exited, stranded, forgotten, waits>>

\* An opcode or stack script: what it writes and how it ends is discarded.
StackHandler ==
  /\ at = "handler"
  /\ Kind = "stack"
  /\ ran' = ran \cup {phase}
  /\ SendOutput(ctx)
  /\ UNCHANGED <<req, life, count, phase, frames, request_body, timer, exit_status,
                 boundVars, exited, stranded, forgotten, waits>>

-----------------------------------------------------------------------------

Nginx ==
  \/ SkipPhase
  \/ StaticContent
  \/ InternalRedirect
  \/ PhaseDone
  \/ AccessWaits
  \/ FinalizeQuietly
  \/ FinalizeWithStatus
  \/ FinalizeWithError

Handler ==
  \/ EnterHandler
  \/ ReadBodyNow
  \/ ReadBodyLater
  \/ ReadBodyFails
  \/ StartScript
  \/ HandlerAgain
  \/ SetOutputStatus
  \/ SetOutputSend
  \/ StackHandler

Script ==
  \/ Echo
  \/ SetStatus
  \/ Yield
  \/ ScriptEnds
  \/ GeneratorEnds
  \/ Exit

\* A step of the event the worker is handling.
Step == Nginx \/ Handler \/ Script

BodyEvent == BodyArrives \/ BodyLost

\* The worker waits in epoll.
Wait == Idle /\ UNCHANGED vars

Next ==
  \/ Wait
  \/ PostRead
  \/ Step
  \/ BodyEvent
  \/ SleepHandler
  \/ RunPosted

(***************************************************************************)
(* The worker finishes the event it is handling, a timer that has expired  *)
(* fires, and the client sends the body, leaves or is timed out.           *)
(***************************************************************************)
Fairness == WF_vars(Step) /\ WF_vars(SleepHandler) /\ WF_vars(BodyEvent)

Spec == Init /\ [][Next]_vars /\ Fairness

-----------------------------------------------------------------------------

Ctx == [more : BOOLEAN, done : BOOLEAN, data : BOOLEAN,
        status : {"OK", "DECLINED", "AGAIN"}, output : Nat]

Answer == [by : {"script", "nginx"}, announced : Int, sent : Int]

Points == {"idle", "phases", "handler", "script", "next", "return"}

TypeOK ==
  /\ req \in Requests
  /\ life \in {"new", "active", "posted", "freed"}
  /\ count \in Int
  /\ phase \in PhpPhase \cup {"static"}
  /\ frames \in Seq(PhpPhase \cup {"redirect"})
  /\ ctx \in Ctx \cup {NULL}
  /\ length \in Nat \cup {-1}
  /\ request_body \in {NULL, "reading", "read"}
  /\ timer \in BOOLEAN
  /\ answer \in Answer \cup {NULL}
  /\ exit_status \in Status
  /\ at \in Points
  /\ rc \in Status \cup {"AGAIN", "DONE", NULL}
  /\ checker \in PhpPhase \cup {"static"}
  /\ yields \in Nat
  /\ redirects \in Nat
  /\ ran \subseteq PhpPhase
  /\ exited \in BOOLEAN
  /\ stranded \in BOOLEAN
  /\ forgotten \in BOOLEAN
  /\ waits \in Nat
  /\ lost \in Int

\* Somebody will come back to the request, or should.
Waiting == timer \/ request_body = "reading" \/ stranded \/ forgotten

(***************************************************************************)
(* The reference count is exact, with phases that run inside handlers: one *)
(* for the request, one for every run of the phases that waits for the one *)
(* at work, one of a handler that returns and leaves somebody waiting, and *)
(* one for each suspension in the access phase, which nobody returns.  So  *)
(* no request is freed under a handler, or while it waits.                 *)
(***************************************************************************)
CountExact ==
  /\ ~Idle => life # "freed"
  /\ (~Idle /\ life = "active") =>
       count = 1 + Len(frames) + waits + (IF at = "return" /\ Waiting THEN 1 ELSE 0)
  /\ (Idle /\ life = "active") => count = waits + (IF Waiting THEN 1 ELSE 0)

(***************************************************************************)
(* A script of a handler that reads the body runs when the body has been   *)
(* read, and finds it if it is in memory: also in the phases that run      *)
(* inside the handler that asked for it, and after a redirect.             *)
(***************************************************************************)
BodyFirst ==
  (InScript /\ ReadingHandler) =>
    /\ ctx.done
    /\ request_body = "read"
    /\ req.body = "data" => ctx.data

(***************************************************************************)
(* No script is started twice: a handler whose request went through the    *)
(* phases inside it, and one that is entered again, finds that its script  *)
(* ran.                                                                    *)
(***************************************************************************)
StartsOnce ==
  (at = "handler" /\ ~MustRead /\ (ctx.status = "DECLINED" \/ Kind = "stack"))
    => phase \notin ran

(***************************************************************************)
(* The announced length is that of the output: they differ only by what a  *)
(* redirect dropped and by what a body filter script wrote.                *)
(***************************************************************************)
LengthTrue ==
  (answer # NULL /\ answer.by = "script" /\ req.method # "HEAD") =>
    answer.announced = answer.sent + lost

(***************************************************************************)
(* Between events an active request waits for its timer or for its body.   *)
(* The only ones that wait for nothing are those whose resumed script      *)
(* called ngx_exit, those whose body was read again after a redirect, and  *)
(* those that slept in the access phase and ended.                         *)
(***************************************************************************)
ParkedWakes ==
  (Idle /\ life = "active") =>
    \/ timer /\ ctx # NULL /\ ctx.status = "AGAIN"
    \/ request_body = "reading" /\ ctx # NULL /\ ctx.more
    \/ stranded
    \/ forgotten /\ redirects > 0 /\ req.body = "data"
    \/ waits > 0 /\ count = waits

(***************************************************************************)
(* No location runs an inline access script for requests whose body it     *)
(* reads: what its handler returns goes on to the content phase, whatever  *)
(* the phases that ran inside it did.                                      *)
(***************************************************************************)
PlainAccess ==
  \A q \in Requests : q.kind["access"] = "inline" => q.method \in {"GET", "HEAD"}

(***************************************************************************)
(* ngx_exit ends the request: no other script of it is started.            *)
(***************************************************************************)
ExitIsLast == [][exited => ran' \subseteq ran]_vars

\* A content script in a file has set 200: nginx takes it for answered.
Silent == Kind = "file" /\ phase = "content" /\ exit_status = "HTTP_OK"

(***************************************************************************)
(* Every request is answered, or terminated with an error, unless its      *)
(* script called ngx_exit, its body was read again after a redirect, or a  *)
(* content script in a file has set the status 200.                        *)
(***************************************************************************)
Served ==
  life = "active" ~>
    answer # NULL \/ life = "posted" \/ exited \/ forgotten \/ Silent

=============================================================================
