------------------------------ MODULE Uthread -------------------------------
(***************************************************************************)
(* A worker of ngx-php running PHP scripts in the rewrite, access and      *)
(* content phases of its requests (src/ngx_http_php_handler.c,             *)
(* src/ngx_http_php_zend_uthread.c, src/ngx_http_php_sleep.c).             *)
(*                                                                         *)
(* The worker is one thread: an event runs until it parks or finishes the  *)
(* request it is for.  A script of a `by_php' directive may be a generator *)
(* and suspend with `yield ngx_sleep(n)'; the timer of its request resumes *)
(* it and, once it is finished, re-enters the phase engine of nginx.  All  *)
(* requests share the PHP interpreter, and two of its globals: the request *)
(* PHP is running for and the exit status.                                 *)
(*                                                                         *)
(* nginx itself (phase checkers, ngx_http_finalize_request) is modelled    *)
(* only as far as a handler's return value reaches.                        *)
(***************************************************************************)
EXTENDS Integers

CONSTANTS
  Req,          (* requests of the worker                                  *)
  HeadReq,      (* those with method HEAD                                  *)
  Kind,         (* what the location of a request runs in each phase:      *)
                (* "none", "inline" or "file"                              *)
  ScriptStatus, (* statuses scripts give to ngx_exit and ngx_status        *)
  Fatals,       (* may a script die of a fatal error?                      *)
  MaxYields,    (* bound: suspensions of one script                        *)
  MaxRedirects, (* bound: internal redirects of one request                *)
  NULL

Phase == {"rewrite", "access", "content"}

(***************************************************************************)
(* REDIRECT is 302, 303, 307 or 308, OTHER any other status from 300 up    *)
(* (301, 4xx, 5xx), FATAL the 255 PHP sets when it dies; ERROR, DECLINED   *)
(* and OK are nginx's negative codes and 0.                                *)
(***************************************************************************)
HttpStatus == {"HTTP_OK", "REDIRECT", "OTHER"}
Status == HttpStatus \cup {"OK", "DECLINED", "ERROR", "FATAL"}

ASSUME UthreadAssumption ==
  /\ HeadReq \subseteq Req
  /\ Kind \in [Req -> [Phase -> {"none", "inline", "file"}]]
  /\ ScriptStatus \subseteq HttpStatus \cup {"OK", "ERROR"}
  /\ Fatals \in BOOLEAN
  /\ MaxYields \in Nat
  /\ MaxRedirects \in Nat
  /\ NULL \notin Req
  /\ NULL \notin Status \cup {"AGAIN", "live", "dead"}

VARIABLES
  life,            (* is the request new, active, posted to die, or freed? *)
  count,           (* r->main->count                                       *)
  phase,           (* the phase r->phase_handler is at                     *)
  hasCtx,          (* does the request have its ngx_http_php_ctx_t?        *)
  phase_status,    (* ctx->phase_status                                    *)
  gen,             (* ctx->generator_closure: NULL, "live", or "dead": it  *)
                   (* still points to a destroyed closure                  *)
  out,             (* ctx->rputs_chain: whose scripts wrote into it        *)
  timer,           (* ctx->sleep.timer_set                                 *)
  hstatus,         (* r->headers_out.status, NULL for 0                    *)
  resp,            (* the status sent to the client                        *)
  body,            (* whose output was sent to the client                  *)
  ngx_php_request, (* global: the request PHP is running for               *)
  exit_status,     (* global: EG(exit_status)                              *)
  running,         (* the request whose event the worker is handling       *)
  at,              (* how far the worker is with it                        *)
  rc,              (* the return value of the handler                      *)
  byTimer,         (* is the event the request's timer?                    *)
  yields,          (* suspensions of the current script                    *)
  redirects        (* internal redirects                                   *)

(* History, for the properties only. *)
VARIABLES
  own,             (* the status the script of the phase set itself        *)
  exited,          (* the status a script ended the request with           *)
  foreign,         (* did a handler return another request's status?       *)
  waits,           (* suspensions in the access phase                      *)
  ran              (* phases whose script was started                      *)

ctxVars == <<hasCtx, phase_status, gen, out>>
answerVars == <<hstatus, resp, body>>
globalVars == <<ngx_php_request, exit_status>>
workerVars == <<running, at, rc, byTimer>>
boundVars == <<yields, redirects>>
historyVars == <<own, exited, foreign, waits, ran>>
vars == <<life, count, phase, ctxVars, timer, answerVars, globalVars,
          workerVars, boundVars, historyVars>>

Points == {"idle", "phases", "handler", "script", "next", "return"}

-----------------------------------------------------------------------------

Idle == running = NULL

Event(r, point, timed) ==
  /\ Idle
  /\ running' = r
  /\ at' = point
  /\ rc' = NULL
  /\ byTimer' = timed

\* The event of r is over.
Park == running' = NULL /\ at' = "idle" /\ rc' = NULL /\ byTimer' = FALSE

At(r, point) == running = r /\ at = point

GoTo(point) == at' = point /\ UNCHANGED <<running, rc, byTimer>>

Return(status) ==
  at' = "return" /\ rc' = status /\ UNCHANGED <<running, byTimer>>

-----------------------------------------------------------------------------

Init ==
  /\ life = [r \in Req |-> "new"]
  /\ count = [r \in Req |-> 0]
  /\ phase = [r \in Req |-> "rewrite"]
  /\ hasCtx = [r \in Req |-> FALSE]
  /\ phase_status = [r \in Req |-> "OK"]
  /\ gen = [r \in Req |-> NULL]
  /\ out = [r \in Req |-> {}]
  /\ timer = [r \in Req |-> FALSE]
  /\ hstatus = [r \in Req |-> NULL]
  /\ resp = [r \in Req |-> NULL]
  /\ body = [r \in Req |-> {}]
  /\ ngx_php_request = NULL
  /\ exit_status = "OK"
  /\ running = NULL
  /\ at = "idle"
  /\ rc = NULL
  /\ byTimer = FALSE
  /\ yields = [r \in Req |-> 0]
  /\ redirects = [r \in Req |-> 0]
  /\ own = [r \in Req |-> "DECLINED"]
  /\ exited = [r \in Req |-> NULL]
  /\ foreign = [r \in Req |-> FALSE]
  /\ waits = [r \in Req |-> 0]
  /\ ran = [r \in Req |-> {}]

\* A request arrives: the post-read handler allocates its ctx.
PostRead(r) ==
  /\ life[r] = "new"
  /\ Event(r, "phases", FALSE)
  /\ life' = [life EXCEPT ![r] = "active"]
  /\ count' = [count EXCEPT ![r] = 1]
  /\ hasCtx' = [hasCtx EXCEPT ![r] = TRUE]
  /\ phase_status' = [phase_status EXCEPT ![r] = "DECLINED"]
  /\ ngx_php_request' = r
  /\ UNCHANGED <<phase, gen, out, timer, answerVars, exit_status, boundVars,
                 historyVars>>

-----------------------------------------------------------------------------
(* nginx's side of a request: ending it.                                   *)

\* Mutant of SleepCleanup: the cleanup handler does nothing.
SleepCleanupNothing(r) == UNCHANGED timer

\* ngx_http_php_sleep_cleanup deletes the timer if it still finds the ctx.
SleepCleanup(r) == timer' = [timer EXCEPT ![r] = timer[r] /\ ~hasCtx[r]]

\* ngx_http_finalize_connection: the last reference frees the request.
Release(r) ==
  /\ count' = [count EXCEPT ![r] = count[r] - 1]
  /\ IF count[r] = 1
     THEN life' = [life EXCEPT ![r] = "freed"] /\ SleepCleanup(r)
     ELSE UNCHANGED <<life, timer>>

(***************************************************************************)
(* ngx_http_terminate_request posts the request's end.  Posted requests    *)
(* run at the end of a connection event only, not of a timer event.        *)
(***************************************************************************)
TerminateRequest(r) ==
  /\ life' = [life EXCEPT ![r] = IF byTimer THEN "posted" ELSE "freed"]
  /\ SleepCleanup(r)
  /\ UNCHANGED count

\* A posted end runs when the client does something on the connection.
RunPosted(r) ==
  /\ Idle
  /\ life[r] = "posted"
  /\ life' = [life EXCEPT ![r] = "freed"]
  /\ UNCHANGED <<count, phase, ctxVars, timer, answerVars, globalVars,
                 workerVars, boundVars, historyVars>>

\* worker_shutdown_timeout ends a request whatever it waits for.
ShutdownTimeout(r) ==
  /\ Idle
  /\ life[r] = "active"
  /\ life' = [life EXCEPT ![r] = "freed"]
  /\ SleepCleanup(r)
  /\ UNCHANGED <<count, phase, ctxVars, answerVars, globalVars, workerVars,
                 boundVars, historyVars>>

-----------------------------------------------------------------------------
(* nginx's phase engine: ngx_http_core_run_phases and its checkers.        *)

After(p) == IF p = "rewrite" THEN "access" ELSE "content"

NextPhase(r) ==
  /\ phase' = [phase EXCEPT ![r] = After(phase[r])]
  /\ yields' = [yields EXCEPT ![r] = 0]
  /\ GoTo("phases")

\* The location has no script for the phase: the handler declines.
SkipPhase(r) ==
  /\ At(r, "phases")
  /\ Kind[r][phase[r]] = "none"
  /\ phase[r] # "content"
  /\ NextPhase(r)
  /\ UNCHANGED <<life, count, ctxVars, timer, answerVars, globalVars,
                 redirects, historyVars>>

\* No content script: nginx sends a file.
StaticContent(r) ==
  /\ At(r, "phases")
  /\ phase[r] = "content"
  /\ Kind[r]["content"] = "none"
  /\ resp' = [resp EXCEPT ![r] = "HTTP_OK"]
  /\ Release(r)
  /\ Park
  /\ UNCHANGED <<phase, ctxVars, hstatus, body, globalVars, boundVars,
                 historyVars>>

(***************************************************************************)
(* try_files or index send the request through the phases of another       *)
(* location.  nginx clears the ctx of every module on the way, and the     *)
(* post-read phase is not run again.                                       *)
(***************************************************************************)
InternalRedirect(r) ==
  /\ At(r, "phases")
  /\ phase[r] = "content"
  /\ redirects[r] < MaxRedirects
  /\ redirects' = [redirects EXCEPT ![r] = redirects[r] + 1]
  /\ phase' = [phase EXCEPT ![r] = "rewrite"]
  /\ yields' = [yields EXCEPT ![r] = 0]
  /\ hasCtx' = [hasCtx EXCEPT ![r] = FALSE]
  /\ gen' = [gen EXCEPT ![r] = NULL]
  /\ out' = [out EXCEPT ![r] = {}]
  /\ ran' = [ran EXCEPT ![r] = {}]
  /\ GoTo("phases")
  /\ UNCHANGED <<life, count, phase_status, timer, answerVars, globalVars, own,
                 exited, foreign, waits>>

\* A handler declined.  (No access handler returns NGX_OK.)
PhaseDone(r) ==
  /\ At(r, "return")
  /\ rc = "DECLINED"
  /\ phase' = [phase EXCEPT ![r] = After(phase[r])]
  /\ yields' = [yields EXCEPT ![r] = 0]
  /\ at' = "phases"
  /\ rc' = NULL
  /\ UNCHANGED <<life, count, ctxVars, timer, answerVars, globalVars, running,
                 byTimer, redirects, historyVars>>

\* ngx_http_core_access_phase stops at NGX_AGAIN without finalizing.
AccessWaits(r) ==
  /\ At(r, "return")
  /\ phase[r] = "access"
  /\ rc = "AGAIN"
  /\ waits' = [waits EXCEPT ![r] = waits[r] + 1]
  /\ Park
  /\ UNCHANGED <<life, count, phase, ctxVars, timer, answerVars, globalVars,
                 boundVars, own, exited, foreign, ran>>

\* Every other return value ends in ngx_http_finalize_request.
Finalizes(r) ==
  /\ At(r, "return")
  /\ rc # "DECLINED"
  /\ phase[r] = "access" => rc # "AGAIN"

\* Below 300: nginx takes the request for answered, or for parked.
FinalizeQuietly(r) ==
  /\ Finalizes(r)
  /\ rc \in {"OK", "HTTP_OK", "AGAIN", "FATAL"}
  /\ Release(r)
  /\ Park
  /\ UNCHANGED <<phase, ctxVars, answerVars, globalVars, boundVars,
                 historyVars>>

\* ngx_http_special_response_handler answers with the status.
FinalizeWithStatus(r) ==
  /\ Finalizes(r)
  /\ rc \in {"REDIRECT", "OTHER"}
  /\ resp' = [resp EXCEPT ![r] = rc]
  /\ Release(r)
  /\ Park
  /\ UNCHANGED <<phase, ctxVars, hstatus, body, globalVars, boundVars,
                 historyVars>>

FinalizeWithError(r) ==
  /\ Finalizes(r)
  /\ rc = "ERROR"
  /\ TerminateRequest(r)
  /\ Park
  /\ UNCHANGED <<phase, ctxVars, answerVars, globalVars, boundVars,
                 historyVars>>

-----------------------------------------------------------------------------
(* The phase handlers of ngx-php.                                          *)

(***************************************************************************)
(* Entry: a missing ctx is allocated, zeroed, so that its phase_status is  *)
(* NGX_OK.  The content handlers reset the exit status, each time.         *)
(***************************************************************************)
EnterHandler(r) ==
  /\ At(r, "phases")
  /\ Kind[r][phase[r]] # "none"
  /\ hasCtx' = [hasCtx EXCEPT ![r] = TRUE]
  /\ phase_status' =
       [phase_status EXCEPT ![r] = IF hasCtx[r] THEN phase_status[r] ELSE "OK"]
  /\ ngx_php_request' = r
  /\ exit_status' = IF phase[r] = "content" THEN "OK" ELSE exit_status
  /\ GoTo("handler")
  /\ UNCHANGED <<life, count, phase, gen, out, timer, answerVars, boundVars,
                 historyVars>>

\* Mutant of StartScript: the exit status of the last script is kept.
StartScriptKeepingStatus(r) ==
  /\ At(r, "handler")
  /\ phase_status[r] = "DECLINED"
  /\ phase_status' = [phase_status EXCEPT ![r] = "OK"]
  /\ ngx_php_request' = r
  /\ gen' =
       [gen EXCEPT ![r] = IF Kind[r][phase[r]] = "inline" THEN "live" ELSE gen[r]]
  /\ own' = [own EXCEPT ![r] = "DECLINED"]
  /\ ran' = [ran EXCEPT ![r] = @ \cup {phase[r]}]
  /\ GoTo("script")
  /\ UNCHANGED <<life, count, phase, hasCtx, out, timer, answerVars, boundVars,
                 exit_status, exited, foreign, waits>>

(***************************************************************************)
(* The script is started: from a file by a uthread_routine, inline by      *)
(* zend_uthread_create, which allocates the closure before the call.       *)
(***************************************************************************)
StartStatus(r) ==
  IF phase[r] = "content" /\ Kind[r]["content"] = "file" THEN "OK" ELSE "DECLINED"

StartScript(r) ==
  /\ At(r, "handler")
  /\ phase_status[r] = "DECLINED"
  /\ phase_status' = [phase_status EXCEPT ![r] = "OK"]
  /\ ngx_php_request' = r
  /\ exit_status' = StartStatus(r)
  /\ gen' =
       [gen EXCEPT ![r] = IF Kind[r][phase[r]] = "inline" THEN "live" ELSE gen[r]]
  /\ own' = [own EXCEPT ![r] = StartStatus(r)]
  /\ ran' = [ran EXCEPT ![r] = @ \cup {phase[r]}]
  /\ GoTo("script")
  /\ UNCHANGED <<life, count, phase, hasCtx, out, timer, answerVars, boundVars,
                 exited, foreign, waits>>

\* Mutant of HandlerAgain: no reference is taken.
HandlerAgainUncounted(r) ==
  /\ At(r, "handler")
  /\ phase_status[r] = "AGAIN"
  /\ Return("AGAIN")
  /\ UNCHANGED <<life, count, phase, ctxVars, timer, answerVars, globalVars,
                 boundVars, historyVars>>

\* The generator is suspended: the handler keeps the request alive.
HandlerAgain(r) ==
  /\ At(r, "handler")
  /\ phase_status[r] = "AGAIN"
  /\ count' = [count EXCEPT ![r] = count[r] + 1]
  /\ Return("AGAIN")
  /\ UNCHANGED <<life, phase, ctxVars, timer, answerVars, globalVars, boundVars,
                 historyVars>>

(***************************************************************************)
(* set_output: the handler takes the exit status for the script's result,  *)
(* whoever set it last, and destroys the closure without clearing it.      *)
(***************************************************************************)
SetOutput(r) ==
  /\ At(r, "handler")
  /\ phase_status[r] = "OK"
  /\ phase_status' = [phase_status EXCEPT ![r] = "DECLINED"]
  /\ foreign' =
       [foreign EXCEPT ![r] =
          @ \/ (phase[r] # "content" /\ exit_status # own[r])]
  /\ UNCHANGED <<life, count, phase, timer, globalVars, boundVars, own, exited,
                 waits, ran>>

DestroyedClosure(r) == [gen EXCEPT ![r] = IF @ = NULL THEN NULL ELSE "dead"]

\* The statuses with which a handler sends the output of the scripts.
Emits(r) ==
  IF phase[r] # "content" THEN {"OK", "HTTP_OK"}
  ELSE IF Kind[r]["content"] = "inline" THEN Status \ {"ERROR", "REDIRECT"}
  ELSE {"OK", "DECLINED"}

SetOutputStatus(r) ==
  /\ SetOutput(r)
  /\ exit_status \notin Emits(r)
  /\ gen' = DestroyedClosure(r)
  /\ Return(exit_status)
  /\ UNCHANGED <<hasCtx, out, answerVars>>

\* Nothing was written: rewrite and access go on to the next phase.
SetOutputNothing(r) ==
  /\ SetOutput(r)
  /\ exit_status \in Emits(r)
  /\ phase[r] # "content"
  /\ out[r] = {}
  /\ gen' = DestroyedClosure(r)
  /\ Return("DECLINED")
  /\ UNCHANGED <<hasCtx, out, answerVars>>

SendsOutput(r) ==
  /\ SetOutput(r)
  /\ exit_status \in Emits(r)
  /\ phase[r] = "content" \/ out[r] # {}
  /\ LET status == IF hstatus[r] = NULL THEN "HTTP_OK" ELSE hstatus[r]
     IN  /\ hstatus' = [hstatus EXCEPT ![r] = status]
         /\ resp' = [resp EXCEPT ![r] = status]

\* Mutant of SetOutputSend: the phase declines after it has answered.
SetOutputSendDeclining(r) ==
  /\ r \notin HeadReq
  /\ SendsOutput(r)
  /\ body' = [body EXCEPT ![r] = out[r]]
  /\ hasCtx' = [hasCtx EXCEPT ![r] = FALSE]
  /\ gen' = [gen EXCEPT ![r] = NULL]
  /\ out' = [out EXCEPT ![r] = {}]
  /\ Return("DECLINED")

\* Header and body are sent, and the ctx is given up.
SetOutputSend(r) ==
  /\ r \notin HeadReq
  /\ SendsOutput(r)
  /\ body' = [body EXCEPT ![r] = out[r]]
  /\ hasCtx' = [hasCtx EXCEPT ![r] = FALSE]
  /\ gen' = [gen EXCEPT ![r] = NULL]
  /\ out' = [out EXCEPT ![r] = {}]
  /\ Return(IF phase[r] = "access" THEN "HTTP_OK" ELSE "OK")

\* HEAD: the header is sent, and sending it a second time is an error.
SetOutputHead(r) ==
  /\ r \in HeadReq
  /\ SendsOutput(r)
  /\ gen' = DestroyedClosure(r)
  /\ Return("ERROR")
  /\ UNCHANGED <<hasCtx, out, body>>

-----------------------------------------------------------------------------
(* PHP: the script of r runs from its start, or from its last yield.       *)

InScript(r) == running = r /\ at \in {"script", "next"}

\* echo goes to the ctx of the request PHP believes it runs for.
Echo(r) ==
  /\ InScript(r)
  /\ r \notin out[ngx_php_request]
  /\ out' = [out EXCEPT ![ngx_php_request] = @ \cup {r}]
  /\ UNCHANGED <<life, count, phase, hasCtx, phase_status, gen, timer,
                 answerVars, globalVars, workerVars, boundVars, historyVars>>

\* ngx_status and ngx_redirect; a script sets its status once (a bound).
SetStatus(r, status) ==
  /\ InScript(r)
  /\ own[r] = StartStatus(r)
  /\ hstatus' = [hstatus EXCEPT ![ngx_php_request] = status]
  /\ exit_status' = status
  /\ own' = [own EXCEPT ![r] = status]
  /\ UNCHANGED <<life, count, phase, ctxVars, timer, resp, body,
                 ngx_php_request, workerVars, boundVars, exited, foreign, waits,
                 ran>>

\* `yield ngx_sleep(n)': the timer is set and the generator suspended.
Yield(r) ==
  /\ InScript(r)
  /\ Kind[r][phase[r]] = "inline"
  /\ yields[r] < MaxYields
  /\ yields' = [yields EXCEPT ![r] = yields[r] + 1]
  /\ phase_status' = [phase_status EXCEPT ![ngx_php_request] = "AGAIN",
                                          ![r] = "AGAIN"]
  /\ timer' = [timer EXCEPT ![ngx_php_request] = TRUE]
  /\ IF at = "script" THEN GoTo("handler") ELSE Park
  /\ UNCHANGED <<life, count, phase, hasCtx, gen, out, answerVars, globalVars,
                 redirects, historyVars>>

(***************************************************************************)
(* A script ends in its first call: a generator leaves its closure behind, *)
(* a plain function and a file do not.                                     *)
(***************************************************************************)
ScriptEnds(r) ==
  /\ At(r, "script")
  /\ gen' \in IF Kind[r][phase[r]] = "inline"
              THEN {gen, [gen EXCEPT ![r] = NULL]}
              ELSE {gen}
  /\ GoTo("handler")
  /\ UNCHANGED <<life, count, phase, hasCtx, phase_status, out, timer,
                 answerVars, globalVars, boundVars, historyVars>>

\* Mutant of GeneratorEnds: the phases are not run.
GeneratorEndsParked(r) ==
  /\ At(r, "next")
  /\ phase_status' = [phase_status EXCEPT ![r] = "OK"]
  /\ gen' = [gen EXCEPT ![r] = NULL]
  /\ Park
  /\ UNCHANGED <<life, count, phase, hasCtx, out, timer, answerVars, globalVars,
                 boundVars, historyVars>>

\* Mutant of GeneratorEnds: the script is left to be started again.
GeneratorEndsDeclined(r) ==
  /\ At(r, "next")
  /\ phase_status' = [phase_status EXCEPT ![r] = "DECLINED"]
  /\ gen' = [gen EXCEPT ![r] = NULL]
  /\ GoTo("phases")
  /\ UNCHANGED <<life, count, phase, hasCtx, out, timer, answerVars, globalVars,
                 boundVars, historyVars>>

\* Mutant of GeneratorEnds: the destroyed closure is not forgotten.
GeneratorEndsDangling(r) ==
  /\ At(r, "next")
  /\ phase_status' = [phase_status EXCEPT ![r] = "OK"]
  /\ gen' = [gen EXCEPT ![r] = "dead"]
  /\ GoTo("phases")
  /\ UNCHANGED <<life, count, phase, hasCtx, out, timer, answerVars, globalVars,
                 boundVars, historyVars>>

\* A resumed generator ends: zend_uthread_resume runs the phases.
GeneratorEnds(r) ==
  /\ At(r, "next")
  /\ phase_status' = [phase_status EXCEPT ![r] = "OK"]
  /\ gen' = [gen EXCEPT ![r] = NULL]
  /\ GoTo("phases")
  /\ UNCHANGED <<life, count, phase, hasCtx, out, timer, answerVars, globalVars,
                 boundVars, historyVars>>

(***************************************************************************)
(* ngx_exit or a fatal error unwinds PHP: out of the first call to the     *)
(* handler, out of a resumed generator to the end of the timer event.      *)
(***************************************************************************)
Bailout(r, status) ==
  /\ InScript(r)
  /\ exit_status' = status
  /\ own' = [own EXCEPT ![r] = status]
  /\ exited' = [exited EXCEPT ![r] = status]
  /\ gen' = IF Kind[r][phase[r]] = "inline" THEN [gen EXCEPT ![r] = NULL] ELSE gen
  /\ IF at = "script" THEN GoTo("handler") ELSE Park
  /\ UNCHANGED <<life, count, phase, hasCtx, phase_status, out, timer,
                 answerVars, ngx_php_request, boundVars, foreign, waits, ran>>

Exit(r) == \E status \in ScriptStatus : Bailout(r, status)

FatalError(r) == Fatals /\ Bailout(r, "FATAL")

-----------------------------------------------------------------------------

\* Mutant of SleepHandler: ngx_php_request is left as another event set it.
SleepHandlerElsewhere(r) ==
  /\ Idle
  /\ timer[r]
  /\ timer' = [timer EXCEPT ![r] = FALSE]
  /\ IF hasCtx[r] /\ gen[r] # NULL
     THEN Event(r, "next", TRUE)
     ELSE UNCHANGED workerVars
  /\ UNCHANGED <<life, count, phase, ctxVars, answerVars, globalVars, boundVars,
                 historyVars>>

\* ngx_http_php_sleep_handler: zend_uthread_resume.
SleepHandler(r) ==
  /\ Idle
  /\ timer[r]
  /\ timer' = [timer EXCEPT ![r] = FALSE]
  /\ ngx_php_request' = r
  /\ IF hasCtx[r] /\ gen[r] # NULL
     THEN Event(r, "next", TRUE)
     ELSE UNCHANGED workerVars
  /\ UNCHANGED <<life, count, phase, ctxVars, answerVars, exit_status,
                 boundVars, historyVars>>

-----------------------------------------------------------------------------

Script(r) ==
  \/ Echo(r)
  \/ \E status \in ScriptStatus \cap HttpStatus : SetStatus(r, status)
  \/ Yield(r)
  \/ ScriptEnds(r)
  \/ GeneratorEnds(r)
  \/ Exit(r)
  \/ FatalError(r)

Handler(r) ==
  \/ EnterHandler(r)
  \/ StartScript(r)
  \/ HandlerAgain(r)
  \/ SetOutputStatus(r)
  \/ SetOutputNothing(r)
  \/ SetOutputSend(r)
  \/ SetOutputHead(r)

Checker(r) ==
  \/ SkipPhase(r)
  \/ StaticContent(r)
  \/ InternalRedirect(r)
  \/ PhaseDone(r)
  \/ AccessWaits(r)
  \/ FinalizeQuietly(r)
  \/ FinalizeWithStatus(r)
  \/ FinalizeWithError(r)

\* A step of the event the worker is handling.
Step(r) == Script(r) \/ Handler(r) \/ Checker(r)

\* The worker waits in epoll.
Wait == Idle /\ UNCHANGED vars

Next ==
  \/ Wait
  \/ \E r \in Req :
       \/ PostRead(r)
       \/ Step(r)
       \/ SleepHandler(r)
       \/ RunPosted(r)
       \/ ShutdownTimeout(r)

(***************************************************************************)
(* The worker finishes the event it is handling, and a timer that has      *)
(* expired fires.  Clients promise nothing.                                *)
(***************************************************************************)
Fairness == \A r \in Req : WF_vars(Step(r)) /\ WF_vars(SleepHandler(r))

Spec == Init /\ [][Next]_vars /\ Fairness

-----------------------------------------------------------------------------

TypeOK ==
  /\ life \in [Req -> {"new", "active", "posted", "freed"}]
  /\ count \in [Req -> Nat]
  /\ phase \in [Req -> Phase]
  /\ hasCtx \in [Req -> BOOLEAN]
  /\ phase_status \in [Req -> {"OK", "DECLINED", "AGAIN"}]
  /\ gen \in [Req -> {NULL, "live", "dead"}]
  /\ out \in [Req -> SUBSET Req]
  /\ timer \in [Req -> BOOLEAN]
  /\ hstatus \in [Req -> HttpStatus \cup {NULL}]
  /\ resp \in [Req -> HttpStatus \cup {NULL}]
  /\ body \in [Req -> SUBSET Req]
  /\ ngx_php_request \in Req \cup {NULL}
  /\ exit_status \in Status
  /\ running \in Req \cup {NULL}
  /\ at \in Points
  /\ rc \in Status \cup {"AGAIN", NULL}
  /\ byTimer \in BOOLEAN
  /\ yields \in [Req -> Nat]
  /\ redirects \in [Req -> Nat]
  /\ own \in [Req -> Status]
  /\ exited \in [Req -> Status \cup {NULL}]
  /\ foreign \in [Req -> BOOLEAN]
  /\ waits \in [Req -> Nat]
  /\ ran \in [Req -> SUBSET Phase]

(***************************************************************************)
(* What a client receives was written by the scripts of its own request,   *)
(* although output is filed under a global that every event changes.       *)
(***************************************************************************)
OwnOutput == \A r \in Req : out[r] \subseteq {r} /\ body[r] \subseteq {r}

(***************************************************************************)
(* Script code runs only for an active request that has its ctx and has    *)
(* not been answered, and PHP believes it runs for that request.           *)
(***************************************************************************)
ScriptForLiveRequest ==
  \A r \in Req : InScript(r) =>
    /\ ngx_php_request = r
    /\ life[r] = "active"
    /\ hasCtx[r]
    /\ resp[r] = NULL

\* The request is suspended, with a timer that will resume its script.
Sleeping(r) ==
  timer[r] /\ hasCtx[r] /\ gen[r] = "live" /\ phase_status[r] = "AGAIN"

\* A resumed script unwound PHP, and the event ended with it.
Abandoned(r) ==
  exited[r] # NULL /\ ~timer[r] /\ gen[r] = NULL /\ phase_status[r] = "AGAIN"

(***************************************************************************)
(* The reference count is exact while a request is worked on or suspended: *)
(* nginx's own reference, the one a handler has just taken, and one more   *)
(* for each suspension in the access phase, which nobody returns.  So no   *)
(* request is freed under a script, and an active one is never at 0.       *)
(***************************************************************************)
CountExact ==
  \A r \in Req :
    /\ (running = r \/ Sleeping(r)) =>
         count[r] = 1 + waits[r] + (IF At(r, "return") /\ rc = "AGAIN" THEN 1 ELSE 0)
    /\ life[r] = "active" => count[r] > 0

\* nginx gave up its own reference, but not those of the access phase.
Leaked(r) == waits[r] > 0 /\ count[r] = waits[r]

(***************************************************************************)
(* Between events an active request is waiting for its timer: the only     *)
(* ones that wait for nothing are those whose resumed script called        *)
(* ngx_exit or died, and those that slept in the access phase and ended.   *)
(***************************************************************************)
ParkedWakes ==
  \A r \in Req :
    (Idle /\ life[r] = "active") => Sleeping(r) \/ Abandoned(r) \/ Leaked(r)

(***************************************************************************)
(* The timer lives in the ctx, in the memory of the request: it is never   *)
(* left running when the request is freed or its ctx is given up.          *)
(***************************************************************************)
NoStrayTimer == \A r \in Req : timer[r] => life[r] = "active" /\ hasCtx[r]

(***************************************************************************)
(* No phase is skipped and no script starts twice: whatever re-enters the  *)
(* phase engine finds that the scripts of the phases behind it ran, and    *)
(* that none of the phases ahead did.  An internal redirect leaves a ctx   *)
(* of zeros, whose phase_status says that the script has run.              *)
(***************************************************************************)
Before(p) == CASE p = "rewrite" -> {}
               [] p = "access" -> {"rewrite"}
               [] p = "content" -> {"rewrite", "access"}

Scripted(r, P) == {p \in P : Kind[r][p] # "none"}

InOrder ==
  \A r \in Req :
    /\ redirects[r] = 0 => Scripted(r, Before(phase[r])) \subseteq ran[r]
    /\ ran[r] \subseteq Before(phase[r]) \cup {phase[r]}
    /\ (At(r, "handler") /\ phase_status[r] = "DECLINED") => phase[r] \notin ran[r]

(***************************************************************************)
(* A handler of the rewrite and access phases whose script was never       *)
(* suspended returns the status its own script set, or none, as long as    *)
(* the request was not redirected.                                         *)
(***************************************************************************)
OwnStatusUnlessSuspended ==
  \A r \in Req :
    (/\ At(r, "handler") /\ phase_status[r] = "OK"
     /\ phase[r] # "content" /\ yields[r] = 0 /\ redirects[r] = 0)
      => exit_status = own[r]

\* set_output destroys no closure that was destroyed before.
ClosureDestroyedOnce ==
  \A r \in Req : (At(r, "handler") /\ phase_status[r] = "OK") => gen[r] # "dead"

(***************************************************************************)
(* The requests take turns, and have one answer each: a request gives up   *)
(* its turn with a timer set and unanswered, only its timer gives it       *)
(* another one, and neither handlers nor checkers send anything, or touch  *)
(* what was sent, after the answer, which its own scripts have written.    *)
(***************************************************************************)
Stage(r) ==
  CASE life[r] = "new" -> "new"
    [] life[r] \in {"posted", "freed"} -> "over"
    [] running = r -> "running"
    [] OTHER -> IF timer[r] THEN "asleep" ELSE "left"

Stages == [r \in Req |-> Stage(r)]

Answers == [r \in Req |-> IF resp[r] = NULL THEN NULL ELSE <<resp[r], body[r]>>]

Turn == INSTANCE Turns WITH
  Reply <- [r \in Req |-> HttpStatus \X SUBSET {r}],
  NoReply <- NULL,
  stage <- Stages,
  answer <- Answers

ImplementsTurns == Turn!Spec

(***************************************************************************)
(* Every request is answered or ended, unless its script called ngx_exit   *)
(* or died, or it was given the status of another request's script.        *)
(***************************************************************************)
Served ==
  \A r \in Req :
    life[r] = "active" ~>
      resp[r] # NULL \/ life[r] # "active" \/ exited[r] # NULL \/ foreign[r]

-----------------------------------------------------------------------------
(* What the documentation promises and the code does not do.               *)

(***************************************************************************)
(* ngx_exit ends the request: the worker is not left with an active        *)
(* request whose script called it.                                         *)
(***************************************************************************)
ExitEndsRequest == \A r \in Req : Idle /\ life[r] = "active" => exited[r] = NULL

(***************************************************************************)
(* ngx_exit ends the current request and no other: a handler never ends a  *)
(* request with a status that the script of another one has set.           *)
(***************************************************************************)
ExitEndsCurrentRequest ==
  \A r \in Req :
    (At(r, "return") /\ rc \in {"REDIRECT", "OTHER"}) => rc = own[r]

=============================================================================
