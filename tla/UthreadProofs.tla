--------------------------- MODULE UthreadProofs ----------------------------
(***************************************************************************)
(* Proofs about Uthread, for any set of requests, any scripts in any of    *)
(* the phases and any number of suspensions and internal redirects.        *)
(***************************************************************************)
EXTENDS Uthread, TLAPS

-----------------------------------------------------------------------------
(* The inductive invariant.                                                *)

Again(r) == IF At(r, "return") /\ rc = "AGAIN" THEN 1 ELSE 0

\* Where the worker is agrees with the request it is working on.
WorkerInv ==
  /\ running = NULL <=> at = "idle"
  /\ rc # NULL <=> at = "return"
  /\ running # NULL => life[running] = "active"
  /\ at = "idle" => ~byTimer

\* A timer is set only while its request is suspended, or being suspended.
TimerInv(r) ==
  timer[r] =>
    /\ life[r] = "active"
    /\ Sleeping(r)
    /\ resp[r] = NULL
    /\ count[r] = 1 + waits[r] + Again(r)
    /\ Kind[r][phase[r]] = "inline"
    /\ running = r => at = "handler" \/ (at = "return" /\ rc = "AGAIN")

\* The request the worker is working on, by how far it is with it.
RunningInv(r) ==
  running = r =>
    /\ count[r] = 1 + waits[r] + Again(r)
    /\ at \in {"handler", "script", "next"} =>
         hasCtx[r] /\ ngx_php_request = r /\ resp[r] = NULL
    /\ at = "phases" => resp[r] = NULL /\ (hasCtx[r] => phase_status[r] # "AGAIN")
    /\ at = "handler" => (phase_status[r] = "AGAIN" <=> timer[r])
    /\ at = "script" => phase_status[r] = "OK"
    /\ (at = "script" /\ Kind[r][phase[r]] = "inline") => gen[r] = "live"
    /\ at = "next" =>
         phase_status[r] = "AGAIN" /\ gen[r] = "live" /\ Kind[r][phase[r]] = "inline"
    /\ at = "return" =>
         /\ rc = "AGAIN" <=> timer[r]
         /\ rc \in {"DECLINED", "REDIRECT", "OTHER", "FATAL"} => resp[r] = NULL
         /\ rc = "DECLINED" => phase[r] # "content" /\ phase_status[r] = "DECLINED"

\* An active request the worker is not working on.
ParkedInv(r) ==
  (life[r] = "active" /\ running # r) =>
    \/ timer[r] /\ count[r] = 1 + waits[r]
    \/ Abandoned(r) /\ count[r] = 1 + waits[r]
    \/ Leaked(r)

OutputInv(r) == out[r] \subseteq {r} /\ body[r] \subseteq {r}

NewInv(r) == life[r] = "new" => resp[r] = NULL /\ waits[r] = 0 /\ ~timer[r]

ReqInv(r) ==
  TimerInv(r) /\ RunningInv(r) /\ ParkedInv(r) /\ OutputInv(r) /\ NewInv(r)

IInv == TypeOK /\ WorkerInv /\ \A r \in Req : ReqInv(r)

-----------------------------------------------------------------------------
(* A step for one request leaves the others alone.                         *)

Same(s) ==
  /\ life'[s] = life[s] /\ count'[s] = count[s] /\ phase'[s] = phase[s]
  /\ hasCtx'[s] = hasCtx[s] /\ phase_status'[s] = phase_status[s]
  /\ gen'[s] = gen[s] /\ out'[s] = out[s] /\ timer'[s] = timer[s]
  /\ resp'[s] = resp[s] /\ body'[s] = body[s]
  /\ exited'[s] = exited[s] /\ waits'[s] = waits[s]

LEMMA OthersKeep ==
  ASSUME NEW s \in Req, ReqInv(s), running # s, running' # s, Same(s)
  PROVE  ReqInv(s)'
BY DEF Same, ReqInv, TimerInv, RunningInv, ParkedInv, OutputInv, NewInv, At,
       Sleeping, Abandoned, Leaked, Again

LEMMA NotNull == \A r \in Req : r # NULL
BY UthreadAssumption

\* What the proofs need of the constants, which is nothing of Kind.
LEMMA Statuses ==
  /\ ScriptStatus \subseteq HttpStatus \cup {"OK", "ERROR"}
  /\ MaxYields \in Nat
  /\ MaxRedirects \in Nat
  /\ NULL \notin Status \cup {"AGAIN", "live", "dead"}
BY UthreadAssumption

\* Giving up a reference keeps the types, if there is one to give up.
LEMMA ReleaseTypes ==
  ASSUME NEW r \in Req, TypeOK, count[r] > 0, Release(r)
  PROVE  /\ life' \in [Req -> {"new", "active", "posted", "freed"}]
         /\ count' \in [Req -> Nat]
         /\ timer' \in [Req -> BOOLEAN]
<1>1. count[r] - 1 \in Nat
  BY DEF TypeOK
<1>2. CASE count[r] = 1
  BY <1>1, <1>2 DEF TypeOK, Release, SleepCleanup
<1>3. CASE count[r] # 1
  BY <1>1, <1>3 DEF TypeOK, Release
<1> QED BY <1>2, <1>3

LEMMA PostReadKeeps ==
  ASSUME NEW r \in Req, IInv, PostRead(r)
  PROVE  IInv'
<1> USE NotNull, Statuses DEF PostRead, GoTo, Event, Idle, Park, At, Points, ctxVars, answerVars, globalVars, workerVars, boundVars, historyVars
<1>1. TypeOK'
  BY DEF IInv, TypeOK, WorkerInv, ReqInv, RunningInv, TimerInv, NewInv, Again
<1>2. WorkerInv'
  BY DEF IInv, TypeOK, WorkerInv, ReqInv, RunningInv, TimerInv
<1>3. ReqInv(r)'
  BY DEF IInv, TypeOK, WorkerInv, ReqInv, TimerInv, RunningInv, ParkedInv,
         OutputInv, NewInv, Sleeping, Abandoned, Leaked, Again
<1>4. ASSUME NEW s \in Req, s # r PROVE ReqInv(s)'
  <2>1. running # s /\ running' # s /\ ReqInv(s)
    BY <1>4 DEF IInv, TypeOK, WorkerInv
  <2>2. Same(s)
    BY <1>4 DEF IInv, TypeOK, WorkerInv, Same, ReqInv, RunningInv
  <2> QED BY <2>1, <2>2, OthersKeep
<1> QED BY <1>1, <1>2, <1>3, <1>4 DEF IInv

LEMMA SkipPhaseKeeps ==
  ASSUME NEW r \in Req, IInv, SkipPhase(r)
  PROVE  IInv'
<1> USE NotNull, Statuses DEF SkipPhase, NextPhase, After, Phase, GoTo, Event, Idle, Park, At, Points, ctxVars, answerVars, globalVars, workerVars, boundVars, historyVars
<1>1. TypeOK'
  BY DEF IInv, TypeOK, WorkerInv, ReqInv, RunningInv, TimerInv, NewInv, Again
<1>2. WorkerInv'
  BY DEF IInv, TypeOK, WorkerInv, ReqInv, RunningInv, TimerInv
<1>3. ReqInv(r)'
  BY DEF IInv, TypeOK, WorkerInv, ReqInv, TimerInv, RunningInv, ParkedInv,
         OutputInv, NewInv, Sleeping, Abandoned, Leaked, Again
<1>4. ASSUME NEW s \in Req, s # r PROVE ReqInv(s)'
  <2>1. running # s /\ running' # s /\ ReqInv(s)
    BY <1>4 DEF IInv, TypeOK, WorkerInv
  <2>2. Same(s)
    BY <1>4 DEF IInv, TypeOK, WorkerInv, Same, ReqInv, RunningInv
  <2> QED BY <2>1, <2>2, OthersKeep
<1> QED BY <1>1, <1>2, <1>3, <1>4 DEF IInv

LEMMA StaticContentKeeps ==
  ASSUME NEW r \in Req, IInv, StaticContent(r)
  PROVE  IInv'
<1> USE NotNull, Statuses DEF StaticContent, Release, SleepCleanup, HttpStatus, GoTo, Event, Idle, Park, At, Points, ctxVars, answerVars, globalVars, workerVars, boundVars, historyVars
<1>1. TypeOK'
  <2>1. count[r] > 0
    BY DEF IInv, TypeOK, ReqInv, RunningInv, Again
  <2> HIDE DEF Release, SleepCleanup
  <2> QED BY <2>1, ReleaseTypes DEF IInv, TypeOK
<1>2. WorkerInv'
  BY DEF IInv, TypeOK, WorkerInv, ReqInv, RunningInv, TimerInv
<1>3. ReqInv(r)'
  BY DEF IInv, TypeOK, WorkerInv, ReqInv, TimerInv, RunningInv, ParkedInv,
         OutputInv, NewInv, Sleeping, Abandoned, Leaked, Again
<1>4. ASSUME NEW s \in Req, s # r PROVE ReqInv(s)'
  <2>1. running # s /\ running' # s /\ ReqInv(s)
    BY <1>4 DEF IInv, TypeOK, WorkerInv
  <2>2. Same(s)
    BY <1>4 DEF IInv, TypeOK, WorkerInv, Same, ReqInv, RunningInv
  <2> QED BY <2>1, <2>2, OthersKeep
<1> QED BY <1>1, <1>2, <1>3, <1>4 DEF IInv

LEMMA InternalRedirectKeeps ==
  ASSUME NEW r \in Req, IInv, InternalRedirect(r)
  PROVE  IInv'
<1> USE NotNull, Statuses DEF InternalRedirect, Phase, GoTo, Event, Idle, Park, At, Points, ctxVars, answerVars, globalVars, workerVars, boundVars, historyVars
<1>1. TypeOK'
  BY DEF IInv, TypeOK, WorkerInv, ReqInv, RunningInv, TimerInv, NewInv, Again
<1>2. WorkerInv'
  BY DEF IInv, TypeOK, WorkerInv, ReqInv, RunningInv, TimerInv
<1>3. ReqInv(r)'
  BY DEF IInv, TypeOK, WorkerInv, ReqInv, TimerInv, RunningInv, ParkedInv,
         OutputInv, NewInv, Sleeping, Abandoned, Leaked, Again
<1>4. ASSUME NEW s \in Req, s # r PROVE ReqInv(s)'
  <2>1. running # s /\ running' # s /\ ReqInv(s)
    BY <1>4 DEF IInv, TypeOK, WorkerInv
  <2>2. Same(s)
    BY <1>4 DEF IInv, TypeOK, WorkerInv, Same, ReqInv, RunningInv
  <2> QED BY <2>1, <2>2, OthersKeep
<1> QED BY <1>1, <1>2, <1>3, <1>4 DEF IInv

LEMMA PhaseDoneKeeps ==
  ASSUME NEW r \in Req, IInv, PhaseDone(r)
  PROVE  IInv'
<1> USE NotNull, Statuses DEF PhaseDone, After, Phase, GoTo, Event, Idle, Park, At, Points, ctxVars, answerVars, globalVars, workerVars, boundVars, historyVars
<1>1. TypeOK'
  BY DEF IInv, TypeOK, WorkerInv, ReqInv, RunningInv, TimerInv, NewInv, Again
<1>2. WorkerInv'
  BY DEF IInv, TypeOK, WorkerInv, ReqInv, RunningInv, TimerInv
<1>3. ReqInv(r)'
  BY DEF IInv, TypeOK, WorkerInv, ReqInv, TimerInv, RunningInv, ParkedInv,
         OutputInv, NewInv, Sleeping, Abandoned, Leaked, Again
<1>4. ASSUME NEW s \in Req, s # r PROVE ReqInv(s)'
  <2>1. running # s /\ running' # s /\ ReqInv(s)
    BY <1>4 DEF IInv, TypeOK, WorkerInv
  <2>2. Same(s)
    BY <1>4 DEF IInv, TypeOK, WorkerInv, Same, ReqInv, RunningInv
  <2> QED BY <2>1, <2>2, OthersKeep
<1> QED BY <1>1, <1>2, <1>3, <1>4 DEF IInv

LEMMA AccessWaitsKeeps ==
  ASSUME NEW r \in Req, IInv, AccessWaits(r)
  PROVE  IInv'
<1> USE NotNull, Statuses DEF AccessWaits, GoTo, Event, Idle, Park, At, Points, ctxVars, answerVars, globalVars, workerVars, boundVars, historyVars
<1>1. TypeOK'
  <2>1. waits[r] + 1 \in Nat
    BY DEF IInv, TypeOK
  <2>2. waits' \in [Req -> Nat]
    BY <2>1 DEF IInv, TypeOK
  <2> QED BY <2>2 DEF IInv, TypeOK
<1>2. WorkerInv'
  BY DEF IInv, TypeOK, WorkerInv, ReqInv, RunningInv, TimerInv
<1>3. ReqInv(r)'
  BY DEF IInv, TypeOK, WorkerInv, ReqInv, TimerInv, RunningInv, ParkedInv,
         OutputInv, NewInv, Sleeping, Abandoned, Leaked, Again
<1>4. ASSUME NEW s \in Req, s # r PROVE ReqInv(s)'
  <2>1. running # s /\ running' # s /\ ReqInv(s)
    BY <1>4 DEF IInv, TypeOK, WorkerInv
  <2>2. Same(s)
    BY <1>4 DEF IInv, TypeOK, WorkerInv, Same, ReqInv, RunningInv
  <2> QED BY <2>1, <2>2, OthersKeep
<1> QED BY <1>1, <1>2, <1>3, <1>4 DEF IInv

LEMMA FinalizeQuietlyKeeps ==
  ASSUME NEW r \in Req, IInv, FinalizeQuietly(r)
  PROVE  IInv'
<1> USE NotNull, Statuses DEF FinalizeQuietly, Finalizes, Release, SleepCleanup, GoTo, Event, Idle, Park, At, Points, ctxVars, answerVars, globalVars, workerVars, boundVars, historyVars
<1>1. TypeOK'
  <2>1. count[r] > 0
    BY DEF IInv, TypeOK, ReqInv, RunningInv, Again
  <2> HIDE DEF Release, SleepCleanup
  <2> QED BY <2>1, ReleaseTypes DEF IInv, TypeOK
<1>2. WorkerInv'
  BY DEF IInv, TypeOK, WorkerInv, ReqInv, RunningInv, TimerInv
<1>3. ReqInv(r)'
  BY DEF IInv, TypeOK, WorkerInv, ReqInv, TimerInv, RunningInv, ParkedInv,
         OutputInv, NewInv, Sleeping, Abandoned, Leaked, Again
<1>4. ASSUME NEW s \in Req, s # r PROVE ReqInv(s)'
  <2>1. running # s /\ running' # s /\ ReqInv(s)
    BY <1>4 DEF IInv, TypeOK, WorkerInv
  <2>2. Same(s)
    BY <1>4 DEF IInv, TypeOK, WorkerInv, Same, ReqInv, RunningInv
  <2> QED BY <2>1, <2>2, OthersKeep
<1> QED BY <1>1, <1>2, <1>3, <1>4 DEF IInv

LEMMA FinalizeWithStatusKeeps ==
  ASSUME NEW r \in Req, IInv, FinalizeWithStatus(r)
  PROVE  IInv'
<1> USE NotNull, Statuses DEF FinalizeWithStatus, Finalizes, Release, SleepCleanup, HttpStatus, GoTo, Event, Idle, Park, At, Points, ctxVars, answerVars, globalVars, workerVars, boundVars, historyVars
<1>1. TypeOK'
  <2>1. count[r] > 0
    BY DEF IInv, TypeOK, ReqInv, RunningInv, Again
  <2> HIDE DEF Release, SleepCleanup
  <2> QED BY <2>1, ReleaseTypes DEF IInv, TypeOK
<1>2. WorkerInv'
  BY DEF IInv, TypeOK, WorkerInv, ReqInv, RunningInv, TimerInv
<1>3. ReqInv(r)'
  BY DEF IInv, TypeOK, WorkerInv, ReqInv, TimerInv, RunningInv, ParkedInv,
         OutputInv, NewInv, Sleeping, Abandoned, Leaked, Again
<1>4. ASSUME NEW s \in Req, s # r PROVE ReqInv(s)'
  <2>1. running # s /\ running' # s /\ ReqInv(s)
    BY <1>4 DEF IInv, TypeOK, WorkerInv
  <2>2. Same(s)
    BY <1>4 DEF IInv, TypeOK, WorkerInv, Same, ReqInv, RunningInv
  <2> QED BY <2>1, <2>2, OthersKeep
<1> QED BY <1>1, <1>2, <1>3, <1>4 DEF IInv

LEMMA FinalizeWithErrorKeeps ==
  ASSUME NEW r \in Req, IInv, FinalizeWithError(r)
  PROVE  IInv'
<1> USE NotNull, Statuses DEF FinalizeWithError, Finalizes, TerminateRequest, SleepCleanup, GoTo, Event, Idle, Park, At, Points, ctxVars, answerVars, globalVars, workerVars, boundVars, historyVars
<1>1. TypeOK'
  BY DEF IInv, TypeOK, WorkerInv, ReqInv, RunningInv, TimerInv, NewInv, Again
<1>2. WorkerInv'
  BY DEF IInv, TypeOK, WorkerInv, ReqInv, RunningInv, TimerInv
<1>3. ReqInv(r)'
  BY DEF IInv, TypeOK, WorkerInv, ReqInv, TimerInv, RunningInv, ParkedInv,
         OutputInv, NewInv, Sleeping, Abandoned, Leaked, Again
<1>4. ASSUME NEW s \in Req, s # r PROVE ReqInv(s)'
  <2>1. running # s /\ running' # s /\ ReqInv(s)
    BY <1>4 DEF IInv, TypeOK, WorkerInv
  <2>2. Same(s)
    BY <1>4 DEF IInv, TypeOK, WorkerInv, Same, ReqInv, RunningInv
  <2> QED BY <2>1, <2>2, OthersKeep
<1> QED BY <1>1, <1>2, <1>3, <1>4 DEF IInv

LEMMA EnterHandlerKeeps ==
  ASSUME NEW r \in Req, IInv, EnterHandler(r)
  PROVE  IInv'
<1> USE NotNull, Statuses DEF EnterHandler, Status, GoTo, Event, Idle, Park, At, Points, ctxVars, answerVars, globalVars, workerVars, boundVars, historyVars
<1>1. TypeOK'
  BY DEF IInv, TypeOK, WorkerInv, ReqInv, RunningInv, TimerInv, NewInv, Again
<1>2. WorkerInv'
  BY DEF IInv, TypeOK, WorkerInv, ReqInv, RunningInv, TimerInv
<1>3. ReqInv(r)'
  BY DEF IInv, TypeOK, WorkerInv, ReqInv, TimerInv, RunningInv, ParkedInv,
         OutputInv, NewInv, Sleeping, Abandoned, Leaked, Again
<1>4. ASSUME NEW s \in Req, s # r PROVE ReqInv(s)'
  <2>1. running # s /\ running' # s /\ ReqInv(s)
    BY <1>4 DEF IInv, TypeOK, WorkerInv
  <2>2. Same(s)
    BY <1>4 DEF IInv, TypeOK, WorkerInv, Same, ReqInv, RunningInv
  <2> QED BY <2>1, <2>2, OthersKeep
<1> QED BY <1>1, <1>2, <1>3, <1>4 DEF IInv

LEMMA StartScriptKeeps ==
  ASSUME NEW r \in Req, IInv, StartScript(r)
  PROVE  IInv'
<1> USE NotNull, Statuses DEF StartScript, StartStatus, Status, Phase, GoTo, Event, Idle, Park, At, Points, ctxVars, answerVars, globalVars, workerVars, boundVars, historyVars
<1>1. TypeOK'
  BY DEF IInv, TypeOK, WorkerInv, ReqInv, RunningInv, TimerInv, NewInv, Again
<1>2. WorkerInv'
  BY DEF IInv, TypeOK, WorkerInv, ReqInv, RunningInv, TimerInv
<1>3. ReqInv(r)'
  BY DEF IInv, TypeOK, WorkerInv, ReqInv, TimerInv, RunningInv, ParkedInv,
         OutputInv, NewInv, Sleeping, Abandoned, Leaked, Again
<1>4. ASSUME NEW s \in Req, s # r PROVE ReqInv(s)'
  <2>1. running # s /\ running' # s /\ ReqInv(s)
    BY <1>4 DEF IInv, TypeOK, WorkerInv
  <2>2. Same(s)
    BY <1>4 DEF IInv, TypeOK, WorkerInv, Same, ReqInv, RunningInv
  <2> QED BY <2>1, <2>2, OthersKeep
<1> QED BY <1>1, <1>2, <1>3, <1>4 DEF IInv

LEMMA HandlerAgainKeeps ==
  ASSUME NEW r \in Req, IInv, HandlerAgain(r)
  PROVE  IInv'
<1> USE NotNull, Statuses DEF HandlerAgain, Return, GoTo, Event, Idle, Park, At, Points, ctxVars, answerVars, globalVars, workerVars, boundVars, historyVars
<1>1. TypeOK'
  BY DEF IInv, TypeOK, WorkerInv, ReqInv, RunningInv, TimerInv, NewInv, Again
<1>2. WorkerInv'
  BY DEF IInv, TypeOK, WorkerInv, ReqInv, RunningInv, TimerInv
<1>3. ReqInv(r)'
  BY DEF IInv, TypeOK, WorkerInv, ReqInv, TimerInv, RunningInv, ParkedInv,
         OutputInv, NewInv, Sleeping, Abandoned, Leaked, Again
<1>4. ASSUME NEW s \in Req, s # r PROVE ReqInv(s)'
  <2>1. running # s /\ running' # s /\ ReqInv(s)
    BY <1>4 DEF IInv, TypeOK, WorkerInv
  <2>2. Same(s)
    BY <1>4 DEF IInv, TypeOK, WorkerInv, Same, ReqInv, RunningInv
  <2> QED BY <2>1, <2>2, OthersKeep
<1> QED BY <1>1, <1>2, <1>3, <1>4 DEF IInv

LEMMA SetOutputStatusKeeps ==
  ASSUME NEW r \in Req, IInv, SetOutputStatus(r)
  PROVE  IInv'
<1> USE NotNull, Statuses DEF SetOutputStatus, SetOutput, Emits, DestroyedClosure, Return, Status, HttpStatus, GoTo, Event, Idle, Park, At, Points, ctxVars, answerVars, globalVars, workerVars, boundVars, historyVars
<1>1. TypeOK'
  BY DEF IInv, TypeOK, WorkerInv, ReqInv, RunningInv, TimerInv, NewInv, Again
<1>2. WorkerInv'
  BY DEF IInv, TypeOK, WorkerInv, ReqInv, RunningInv, TimerInv
<1>3. ReqInv(r)'
  BY DEF IInv, TypeOK, WorkerInv, ReqInv, TimerInv, RunningInv, ParkedInv,
         OutputInv, NewInv, Sleeping, Abandoned, Leaked, Again
<1>4. ASSUME NEW s \in Req, s # r PROVE ReqInv(s)'
  <2>1. running # s /\ running' # s /\ ReqInv(s)
    BY <1>4 DEF IInv, TypeOK, WorkerInv
  <2>2. Same(s)
    BY <1>4 DEF IInv, TypeOK, WorkerInv, Same, ReqInv, RunningInv
  <2> QED BY <2>1, <2>2, OthersKeep
<1> QED BY <1>1, <1>2, <1>3, <1>4 DEF IInv

LEMMA SetOutputNothingKeeps ==
  ASSUME NEW r \in Req, IInv, SetOutputNothing(r)
  PROVE  IInv'
<1> USE NotNull, Statuses DEF SetOutputNothing, SetOutput, Emits, DestroyedClosure, Return, Status, HttpStatus, GoTo, Event, Idle, Park, At, Points, ctxVars, answerVars, globalVars, workerVars, boundVars, historyVars
<1>1. TypeOK'
  BY DEF IInv, TypeOK, WorkerInv, ReqInv, RunningInv, TimerInv, NewInv, Again
<1>2. WorkerInv'
  BY DEF IInv, TypeOK, WorkerInv, ReqInv, RunningInv, TimerInv
<1>3. ReqInv(r)'
  BY DEF IInv, TypeOK, WorkerInv, ReqInv, TimerInv, RunningInv, ParkedInv,
         OutputInv, NewInv, Sleeping, Abandoned, Leaked, Again
<1>4. ASSUME NEW s \in Req, s # r PROVE ReqInv(s)'
  <2>1. running # s /\ running' # s /\ ReqInv(s)
    BY <1>4 DEF IInv, TypeOK, WorkerInv
  <2>2. Same(s)
    BY <1>4 DEF IInv, TypeOK, WorkerInv, Same, ReqInv, RunningInv
  <2> QED BY <2>1, <2>2, OthersKeep
<1> QED BY <1>1, <1>2, <1>3, <1>4 DEF IInv

LEMMA SetOutputSendKeeps ==
  ASSUME NEW r \in Req, IInv, SetOutputSend(r)
  PROVE  IInv'
<1> USE NotNull, Statuses DEF SetOutputSend, SendsOutput, SetOutput, Emits, Return, Status, HttpStatus, GoTo, Event, Idle, Park, At, Points, ctxVars, answerVars, globalVars, workerVars, boundVars, historyVars
<1>1. TypeOK'
  BY DEF IInv, TypeOK, WorkerInv, ReqInv, RunningInv, TimerInv, NewInv, Again
<1>2. WorkerInv'
  BY DEF IInv, TypeOK, WorkerInv, ReqInv, RunningInv, TimerInv
<1>3. ReqInv(r)'
  BY DEF IInv, TypeOK, WorkerInv, ReqInv, TimerInv, RunningInv, ParkedInv,
         OutputInv, NewInv, Sleeping, Abandoned, Leaked, Again
<1>4. ASSUME NEW s \in Req, s # r PROVE ReqInv(s)'
  <2>1. running # s /\ running' # s /\ ReqInv(s)
    BY <1>4 DEF IInv, TypeOK, WorkerInv
  <2>2. Same(s)
    BY <1>4 DEF IInv, TypeOK, WorkerInv, Same, ReqInv, RunningInv
  <2> QED BY <2>1, <2>2, OthersKeep
<1> QED BY <1>1, <1>2, <1>3, <1>4 DEF IInv

LEMMA SetOutputHeadKeeps ==
  ASSUME NEW r \in Req, IInv, SetOutputHead(r)
  PROVE  IInv'
<1> USE NotNull, Statuses DEF SetOutputHead, SendsOutput, SetOutput, DestroyedClosure, Return, Status, HttpStatus, GoTo, Event, Idle, Park, At, Points, ctxVars, answerVars, globalVars, workerVars, boundVars, historyVars
<1>1. TypeOK'
  BY DEF IInv, TypeOK, WorkerInv, ReqInv, RunningInv, TimerInv, NewInv, Again
<1>2. WorkerInv'
  BY DEF IInv, TypeOK, WorkerInv, ReqInv, RunningInv, TimerInv
<1>3. ReqInv(r)'
  BY DEF IInv, TypeOK, WorkerInv, ReqInv, TimerInv, RunningInv, ParkedInv,
         OutputInv, NewInv, Sleeping, Abandoned, Leaked, Again
<1>4. ASSUME NEW s \in Req, s # r PROVE ReqInv(s)'
  <2>1. running # s /\ running' # s /\ ReqInv(s)
    BY <1>4 DEF IInv, TypeOK, WorkerInv
  <2>2. Same(s)
    BY <1>4 DEF IInv, TypeOK, WorkerInv, Same, ReqInv, RunningInv
  <2> QED BY <2>1, <2>2, OthersKeep
<1> QED BY <1>1, <1>2, <1>3, <1>4 DEF IInv

LEMMA EchoKeeps ==
  ASSUME NEW r \in Req, IInv, Echo(r)
  PROVE  IInv'
<1> USE NotNull, Statuses DEF Echo, InScript, GoTo, Event, Idle, Park, At, Points, ctxVars, answerVars, globalVars, workerVars, boundVars, historyVars
<1>1. TypeOK'
  BY DEF IInv, TypeOK, WorkerInv, ReqInv, RunningInv, TimerInv, NewInv, Again
<1>2. WorkerInv'
  BY DEF IInv, TypeOK, WorkerInv, ReqInv, RunningInv, TimerInv
<1>3. ReqInv(r)'
  BY DEF IInv, TypeOK, WorkerInv, ReqInv, TimerInv, RunningInv, ParkedInv,
         OutputInv, NewInv, Sleeping, Abandoned, Leaked, Again
<1>4. ASSUME NEW s \in Req, s # r PROVE ReqInv(s)'
  <2>1. running # s /\ running' # s /\ ReqInv(s)
    BY <1>4 DEF IInv, TypeOK, WorkerInv
  <2>2. Same(s)
    BY <1>4 DEF IInv, TypeOK, WorkerInv, Same, ReqInv, RunningInv
  <2> QED BY <2>1, <2>2, OthersKeep
<1> QED BY <1>1, <1>2, <1>3, <1>4 DEF IInv

LEMMA SetStatusKeeps ==
  ASSUME NEW r \in Req, NEW status \in HttpStatus, IInv, SetStatus(r, status)
  PROVE  IInv'
<1> USE NotNull, Statuses DEF SetStatus, InScript, Status, HttpStatus, GoTo, Event, Idle, Park, At, Points, ctxVars, answerVars, globalVars, workerVars, boundVars, historyVars
<1>1. TypeOK'
  BY DEF IInv, TypeOK, WorkerInv, ReqInv, RunningInv, TimerInv, NewInv, Again
<1>2. WorkerInv'
  BY DEF IInv, TypeOK, WorkerInv, ReqInv, RunningInv, TimerInv
<1>3. ReqInv(r)'
  BY DEF IInv, TypeOK, WorkerInv, ReqInv, TimerInv, RunningInv, ParkedInv,
         OutputInv, NewInv, Sleeping, Abandoned, Leaked, Again
<1>4. ASSUME NEW s \in Req, s # r PROVE ReqInv(s)'
  <2>1. running # s /\ running' # s /\ ReqInv(s)
    BY <1>4 DEF IInv, TypeOK, WorkerInv
  <2>2. Same(s)
    BY <1>4 DEF IInv, TypeOK, WorkerInv, Same, ReqInv, RunningInv
  <2> QED BY <2>1, <2>2, OthersKeep
<1> QED BY <1>1, <1>2, <1>3, <1>4 DEF IInv

LEMMA YieldKeeps ==
  ASSUME NEW r \in Req, IInv, Yield(r)
  PROVE  IInv'
<1> USE NotNull, Statuses DEF Yield, InScript, GoTo, Event, Idle, Park, At, Points, ctxVars, answerVars, globalVars, workerVars, boundVars, historyVars
<1>1. TypeOK'
  <2>1. ngx_php_request = r
    BY DEF IInv, ReqInv, RunningInv
  <2>2. yields' \in [Req -> Nat]
    BY DEF IInv, TypeOK
  <2>3. /\ phase_status' \in [Req -> {"OK", "DECLINED", "AGAIN"}]
        /\ timer' \in [Req -> BOOLEAN]
    BY <2>1 DEF IInv, TypeOK
  <2>4. CASE at = "script" BY <2>2, <2>3, <2>4 DEF IInv, TypeOK
  <2>5. CASE at # "script" BY <2>2, <2>3, <2>5 DEF IInv, TypeOK
  <2> QED BY <2>4, <2>5
<1>2. WorkerInv'
  BY DEF IInv, TypeOK, WorkerInv, ReqInv, RunningInv, TimerInv
<1>3. ReqInv(r)'
  BY DEF IInv, TypeOK, WorkerInv, ReqInv, TimerInv, RunningInv, ParkedInv,
         OutputInv, NewInv, Sleeping, Abandoned, Leaked, Again
<1>4. ASSUME NEW s \in Req, s # r PROVE ReqInv(s)'
  <2>1. running # s /\ running' # s /\ ReqInv(s)
    BY <1>4 DEF IInv, TypeOK, WorkerInv
  <2>2. ngx_php_request = r
    BY DEF IInv, ReqInv, RunningInv
  <2>3. phase_status'[s] = phase_status[s] /\ timer'[s] = timer[s]
    BY <1>4, <2>2 DEF IInv, TypeOK
  <2>4. Same(s)
    BY <1>4, <2>3 DEF Same
  <2> QED BY <2>1, <2>4, OthersKeep
<1> QED BY <1>1, <1>2, <1>3, <1>4 DEF IInv

LEMMA ScriptEndsKeeps ==
  ASSUME NEW r \in Req, IInv, ScriptEnds(r)
  PROVE  IInv'
<1> USE NotNull, Statuses DEF ScriptEnds, GoTo, Event, Idle, Park, At, Points, ctxVars, answerVars, globalVars, workerVars, boundVars, historyVars
<1>1. TypeOK'
  <2>1. gen' \in [Req -> {NULL, "live", "dead"}]
    BY DEF IInv, TypeOK
  <2>2. at' = "handler"
    OBVIOUS
  <2> HIDE DEF ScriptEnds
  <2>3. UNCHANGED <<life, count, phase, hasCtx, phase_status, out, timer,
                    answerVars, globalVars, boundVars, historyVars, running,
                    rc, byTimer>>
    BY DEF ScriptEnds
  <2> QED BY <2>1, <2>2, <2>3 DEF IInv, TypeOK
<1>2. WorkerInv'
  BY DEF IInv, TypeOK, WorkerInv, ReqInv, RunningInv, TimerInv
<1>3. ReqInv(r)'
  BY DEF IInv, TypeOK, WorkerInv, ReqInv, TimerInv, RunningInv, ParkedInv,
         OutputInv, NewInv, Sleeping, Abandoned, Leaked, Again
<1>4. ASSUME NEW s \in Req, s # r PROVE ReqInv(s)'
  <2>1. running # s /\ running' # s /\ ReqInv(s)
    BY <1>4 DEF IInv, TypeOK, WorkerInv
  <2>2. Same(s)
    BY <1>4 DEF IInv, TypeOK, WorkerInv, Same, ReqInv, RunningInv
  <2> QED BY <2>1, <2>2, OthersKeep
<1> QED BY <1>1, <1>2, <1>3, <1>4 DEF IInv

LEMMA GeneratorEndsKeeps ==
  ASSUME NEW r \in Req, IInv, GeneratorEnds(r)
  PROVE  IInv'
<1> USE NotNull, Statuses DEF GeneratorEnds, GoTo, Event, Idle, Park, At, Points, ctxVars, answerVars, globalVars, workerVars, boundVars, historyVars
<1>1. TypeOK'
  BY DEF IInv, TypeOK, WorkerInv, ReqInv, RunningInv, TimerInv, NewInv, Again
<1>2. WorkerInv'
  BY DEF IInv, TypeOK, WorkerInv, ReqInv, RunningInv, TimerInv
<1>3. ReqInv(r)'
  BY DEF IInv, TypeOK, WorkerInv, ReqInv, TimerInv, RunningInv, ParkedInv,
         OutputInv, NewInv, Sleeping, Abandoned, Leaked, Again
<1>4. ASSUME NEW s \in Req, s # r PROVE ReqInv(s)'
  <2>1. running # s /\ running' # s /\ ReqInv(s)
    BY <1>4 DEF IInv, TypeOK, WorkerInv
  <2>2. Same(s)
    BY <1>4 DEF IInv, TypeOK, WorkerInv, Same, ReqInv, RunningInv
  <2> QED BY <2>1, <2>2, OthersKeep
<1> QED BY <1>1, <1>2, <1>3, <1>4 DEF IInv

LEMMA BailoutKeeps ==
  ASSUME NEW r \in Req, NEW status \in Status, IInv, Bailout(r, status)
  PROVE  IInv'
<1> USE NotNull, Statuses DEF Bailout, InScript, Status, HttpStatus, GoTo, Event, Idle, Park, At, Points, ctxVars, answerVars, globalVars, workerVars, boundVars, historyVars
<1>1. TypeOK'
  <2>1. own' \in [Req -> Status] /\ exited' \in [Req -> Status \cup {NULL}]
    BY DEF IInv, TypeOK
  <2>2. gen' \in [Req -> {NULL, "live", "dead"}]
    BY DEF IInv, TypeOK
  <2>3. /\ running' \in Req \cup {NULL} /\ at' \in Points
        /\ rc' \in Status \cup {"AGAIN", NULL} /\ byTimer' \in BOOLEAN
    BY DEF IInv, TypeOK
  <2> QED BY <2>1, <2>2, <2>3 DEF IInv, TypeOK
<1>2. WorkerInv'
  BY DEF IInv, TypeOK, WorkerInv, ReqInv, RunningInv, TimerInv
<1>3. ReqInv(r)'
  BY DEF IInv, TypeOK, WorkerInv, ReqInv, TimerInv, RunningInv, ParkedInv,
         OutputInv, NewInv, Sleeping, Abandoned, Leaked, Again
<1>4. ASSUME NEW s \in Req, s # r PROVE ReqInv(s)'
  <2>1. running # s /\ running' # s /\ ReqInv(s)
    BY <1>4 DEF IInv, TypeOK, WorkerInv
  <2>2. Same(s)
    BY <1>4 DEF IInv, TypeOK, WorkerInv, Same, ReqInv, RunningInv
  <2> QED BY <2>1, <2>2, OthersKeep
<1> QED BY <1>1, <1>2, <1>3, <1>4 DEF IInv

LEMMA SleepHandlerKeeps ==
  ASSUME NEW r \in Req, IInv, SleepHandler(r)
  PROVE  IInv'
<1> USE NotNull, Statuses DEF SleepHandler, GoTo, Event, Idle, Park, At, Points, ctxVars, answerVars, globalVars, workerVars, boundVars, historyVars
<1>a. hasCtx[r] /\ gen[r] = "live"
  BY DEF IInv, ReqInv, TimerInv, Sleeping
<1>b. Event(r, "next", TRUE)
  BY <1>a
<1>1. TypeOK'
  BY <1>b DEF IInv, TypeOK
<1>2. WorkerInv'
  BY <1>b DEF IInv, TypeOK, WorkerInv, ReqInv, RunningInv, TimerInv
<1>3. ReqInv(r)'
  <2>1. /\ life[r] = "active" /\ resp[r] = NULL /\ phase_status[r] = "AGAIN"
        /\ Kind[r][phase[r]] = "inline" /\ count[r] = 1 + waits[r] /\ OutputInv(r)
    BY <1>a DEF IInv, TypeOK, WorkerInv, ReqInv, TimerInv, Again, Sleeping
  <2>2. ~timer'[r]
    BY DEF IInv, TypeOK
  <2>3. running' = r /\ at' = "next" /\ ngx_php_request' = r
    BY <1>b
  <2>4. RunningInv(r)'
    BY <1>a, <2>1, <2>3 DEF RunningInv, Again, IInv, TypeOK
  <2> QED BY <2>1, <2>2, <2>3, <2>4 DEF ReqInv, TimerInv, ParkedInv, OutputInv,
            NewInv
<1>4. ASSUME NEW s \in Req, s # r PROVE ReqInv(s)'
  <2>1. running # s /\ running' # s /\ ReqInv(s)
    BY <1>4, <1>b DEF IInv, TypeOK, WorkerInv
  <2>2. Same(s)
    BY <1>4 DEF IInv, TypeOK, WorkerInv, Same, ReqInv, RunningInv
  <2> QED BY <2>1, <2>2, OthersKeep
<1> QED BY <1>1, <1>2, <1>3, <1>4 DEF IInv

LEMMA RunPostedKeeps ==
  ASSUME NEW r \in Req, IInv, RunPosted(r)
  PROVE  IInv'
<1> USE NotNull, Statuses DEF RunPosted, GoTo, Event, Idle, Park, At, Points, ctxVars, answerVars, globalVars, workerVars, boundVars, historyVars
<1>1. TypeOK'
  BY DEF IInv, TypeOK, WorkerInv, ReqInv, RunningInv, TimerInv, NewInv, Again
<1>2. WorkerInv'
  BY DEF IInv, TypeOK, WorkerInv, ReqInv, RunningInv, TimerInv
<1>3. ReqInv(r)'
  BY DEF IInv, TypeOK, WorkerInv, ReqInv, TimerInv, RunningInv, ParkedInv,
         OutputInv, NewInv, Sleeping, Abandoned, Leaked, Again
<1>4. ASSUME NEW s \in Req, s # r PROVE ReqInv(s)'
  <2>1. running # s /\ running' # s /\ ReqInv(s)
    BY <1>4 DEF IInv, TypeOK, WorkerInv
  <2>2. Same(s)
    BY <1>4 DEF IInv, TypeOK, WorkerInv, Same, ReqInv, RunningInv
  <2> QED BY <2>1, <2>2, OthersKeep
<1> QED BY <1>1, <1>2, <1>3, <1>4 DEF IInv

LEMMA ShutdownTimeoutKeeps ==
  ASSUME NEW r \in Req, IInv, ShutdownTimeout(r)
  PROVE  IInv'
<1> USE NotNull, Statuses DEF ShutdownTimeout, SleepCleanup, GoTo, Event, Idle, Park, At, Points, ctxVars, answerVars, globalVars, workerVars, boundVars, historyVars
<1>1. TypeOK'
  BY DEF IInv, TypeOK, WorkerInv, ReqInv, RunningInv, TimerInv, NewInv, Again
<1>2. WorkerInv'
  BY DEF IInv, TypeOK, WorkerInv, ReqInv, RunningInv, TimerInv
<1>3. ReqInv(r)'
  BY DEF IInv, TypeOK, WorkerInv, ReqInv, TimerInv, RunningInv, ParkedInv,
         OutputInv, NewInv, Sleeping, Abandoned, Leaked, Again
<1>4. ASSUME NEW s \in Req, s # r PROVE ReqInv(s)'
  <2>1. running # s /\ running' # s /\ ReqInv(s)
    BY <1>4 DEF IInv, TypeOK, WorkerInv
  <2>2. Same(s)
    BY <1>4 DEF IInv, TypeOK, WorkerInv, Same, ReqInv, RunningInv
  <2> QED BY <2>1, <2>2, OthersKeep
<1> QED BY <1>1, <1>2, <1>3, <1>4 DEF IInv

LEMMA WaitKeeps ==
  ASSUME IInv, UNCHANGED vars
  PROVE  IInv'
BY DEF vars, ctxVars, answerVars, globalVars, workerVars, boundVars, historyVars,
       IInv, TypeOK, WorkerInv, ReqInv, TimerInv, RunningInv, ParkedInv,
       OutputInv, NewInv, Sleeping, Abandoned, Leaked, Again, At

-----------------------------------------------------------------------------
(* The theorems.                                                           *)

LEMMA InitEstablishes == Init => IInv
<1> SUFFICES ASSUME Init PROVE IInv
  OBVIOUS
<1>1. TypeOK
  BY DEF Init, TypeOK, Status, HttpStatus, Phase, Points
<1>2. WorkerInv
  BY DEF Init, WorkerInv
<1>3. ASSUME NEW r \in Req PROVE ReqInv(r)
  BY <1>3, NotNull DEF Init, ReqInv, TimerInv, RunningInv, ParkedInv, OutputInv, NewInv
<1> QED BY <1>1, <1>2, <1>3 DEF IInv

LEMMA StepKeeps ==
  ASSUME NEW r \in Req, IInv, Step(r)
  PROVE  IInv'
<1>1. CASE Script(r)
  <2>1. ASSUME NEW status \in ScriptStatus \cap HttpStatus, SetStatus(r, status)
        PROVE  IInv'
    BY <2>1, SetStatusKeeps
  <2>2. ASSUME NEW status \in ScriptStatus, Bailout(r, status)
        PROVE  IInv'
    BY <2>2, UthreadAssumption, BailoutKeeps DEF Status
  <2>3. CASE FatalError(r)
    BY <2>3, BailoutKeeps DEF FatalError, Status
  <2> QED
    BY <1>1, <2>1, <2>2, <2>3, EchoKeeps, YieldKeeps, ScriptEndsKeeps,
       GeneratorEndsKeeps DEF Script, Exit
<1>2. CASE Handler(r)
  BY <1>2, EnterHandlerKeeps, StartScriptKeeps, HandlerAgainKeeps,
     SetOutputStatusKeeps, SetOutputNothingKeeps, SetOutputSendKeeps,
     SetOutputHeadKeeps DEF Handler
<1>3. CASE Checker(r)
  BY <1>3, SkipPhaseKeeps, StaticContentKeeps, InternalRedirectKeeps,
     PhaseDoneKeeps, AccessWaitsKeeps, FinalizeQuietlyKeeps,
     FinalizeWithStatusKeeps, FinalizeWithErrorKeeps DEF Checker
<1> QED BY <1>1, <1>2, <1>3 DEF Step

LEMMA NextKeeps ==
  ASSUME IInv, [Next]_vars
  PROVE  IInv'
<1>1. CASE UNCHANGED vars
  BY <1>1, WaitKeeps
<1>2. ASSUME NEW r \in Req, PostRead(r) \/ Step(r) \/ SleepHandler(r)
                             \/ RunPosted(r) \/ ShutdownTimeout(r)
      PROVE  IInv'
  BY <1>2, PostReadKeeps, StepKeeps, SleepHandlerKeeps, RunPostedKeeps,
     ShutdownTimeoutKeeps
<1> QED BY <1>1, <1>2 DEF Next, Wait

(***************************************************************************)
(* IInv holds in every state the worker reaches.                           *)
(***************************************************************************)
THEOREM Invariance == Spec => []IInv
<1>1. Spec => Init /\ [][Next]_vars
  BY DEF Spec
<1> QED BY <1>1, InitEstablishes, NextKeeps, PTL

(***************************************************************************)
(* The variables keep their types; above all, no reference count and no    *)
(* status ever leaves its range.                                           *)
(***************************************************************************)
THEOREM TypeCorrect == Spec => []TypeOK
<1>1. IInv => TypeOK
  BY DEF IInv
<1> QED BY <1>1, Invariance, PTL

(***************************************************************************)
(* No request is ever sent the output of another one's scripts, whatever   *)
(* scripts suspend, exit or die, and in whatever order timers fire.        *)
(***************************************************************************)
THEOREM OutputIsOwn == Spec => []OwnOutput
<1>1. IInv => OwnOutput
  BY DEF IInv, ReqInv, OutputInv, OwnOutput
<1> QED BY <1>1, Invariance, PTL

(***************************************************************************)
(* A script runs only for a request that is active, unanswered and the one *)
(* PHP has for current.                                                    *)
(***************************************************************************)
THEOREM ScriptsRunForLiveRequests == Spec => []ScriptForLiveRequest
<1>1. IInv => ScriptForLiveRequest
  BY NotNull DEF IInv, WorkerInv, ReqInv, RunningInv, ScriptForLiveRequest, InScript
<1> QED BY <1>1, Invariance, PTL

(***************************************************************************)
(* The reference count of a request that is worked on or suspended is      *)
(* exact, and that of an active one never 0.                               *)
(***************************************************************************)
THEOREM CountIsExact == Spec => []CountExact
<1>1. IInv => CountExact
  <2> SUFFICES ASSUME IInv, NEW r \in Req
               PROVE  /\ (running = r \/ Sleeping(r)) => count[r] = 1 + waits[r] + Again(r)
                      /\ life[r] = "active" => count[r] > 0
    BY DEF CountExact, Again
  <2>1. (running = r \/ Sleeping(r)) => count[r] = 1 + waits[r] + Again(r)
    BY DEF IInv, ReqInv, RunningInv, TimerInv, Sleeping
  <2>2. life[r] = "active" => count[r] > 0
    BY DEF IInv, TypeOK, ReqInv, RunningInv, TimerInv, ParkedInv, Leaked, Again
  <2> QED BY <2>1, <2>2
<1> QED BY <1>1, Invariance, PTL

(***************************************************************************)
(* Between events every active request sleeps with a timer that will wake  *)
(* it, was left by ngx_exit or a fatal error in a resumed script, or slept *)
(* in the access phase and ended without being freed.                      *)
(***************************************************************************)
THEOREM ParkedRequestsWake == Spec => []ParkedWakes
<1>1. IInv => ParkedWakes
  BY NotNull DEF IInv, ReqInv, TimerInv, ParkedInv, ParkedWakes, Idle
<1> QED BY <1>1, Invariance, PTL

(***************************************************************************)
(* No sleep timer outlives the request and the ctx it is part of.          *)
(***************************************************************************)
THEOREM NoTimerIsStray == Spec => []NoStrayTimer
<1>1. IInv => NoStrayTimer
  BY DEF IInv, ReqInv, TimerInv, Sleeping, NoStrayTimer
<1> QED BY <1>1, Invariance, PTL

\* What a request was answered with stays as it was sent.
LEMMA AnswerStays ==
  ASSUME IInv, NEW s \in Req, resp[s] # NULL, NEW r \in Req, Step(r)
  PROVE  resp'[s] = resp[s] /\ body'[s] = body[s]
<1> USE DEF At, answerVars
<1>1. CASE s # r
  <2>1. CASE Script(r)
    BY <1>1, <2>1 DEF Script, Echo, SetStatus, Yield, ScriptEnds, GeneratorEnds,
       Exit, FatalError, Bailout
  <2>2. CASE Handler(r)
    BY <1>1, <2>2 DEF Handler, EnterHandler, StartScript, HandlerAgain,
       SetOutputStatus, SetOutputNothing, SetOutputSend, SetOutputHead,
       SendsOutput, IInv, TypeOK
  <2>3. CASE Checker(r)
    BY <1>1, <2>3 DEF Checker, SkipPhase, StaticContent, InternalRedirect,
       PhaseDone, AccessWaits, FinalizeQuietly, FinalizeWithStatus,
       FinalizeWithError, IInv, TypeOK
  <2> QED BY <2>1, <2>2, <2>3 DEF Step
<1>2. CASE s = r
  <2>1. RunningInv(r)
    BY DEF IInv, ReqInv
  <2>2. CASE Script(r)
    BY <1>2, <2>1, <2>2 DEF Script, Echo, SetStatus, Yield, ScriptEnds,
       GeneratorEnds, Exit, FatalError, Bailout
  <2>3. CASE Handler(r)
    <3>1. ~ (at = "handler" /\ running = r)
      BY <1>2, <2>1 DEF RunningInv
    <3> QED BY <2>3, <3>1 DEF Handler, EnterHandler, StartScript, HandlerAgain,
              SetOutputStatus, SetOutputNothing, SetOutputSend, SetOutputHead,
              SendsOutput, SetOutput
  <2>4. CASE Checker(r)
    <3>1. /\ ~ (at = "phases" /\ running = r)
          /\ ~ (at = "return" /\ running = r /\ rc \in {"REDIRECT", "OTHER"})
      BY <1>2, <2>1 DEF RunningInv
    <3> QED BY <2>4, <3>1 DEF Checker, SkipPhase, StaticContent, InternalRedirect,
              PhaseDone, AccessWaits, FinalizeQuietly, FinalizeWithStatus,
              FinalizeWithError, Finalizes
  <2> QED BY <2>2, <2>3, <2>4 DEF Step
<1> QED BY <1>1, <1>2


-----------------------------------------------------------------------------
(* The requests take turns: the refinement of Turns.                       *)

\* An event of a request.
EventOf(r) ==
  PostRead(r) \/ Step(r) \/ SleepHandler(r) \/ RunPosted(r) \/ ShutdownTimeout(r)

\* A step of the event leaves the worker with its request, or with none.
LEMMA StepRuns ==
  ASSUME NEW r \in Req, IInv, Step(r)
  PROVE  running = r /\ running' \in {r, NULL} /\ life'[r] # "new"
<1> USE DEF At, GoTo, Park, Return
<1>1. CASE Script(r)
  BY <1>1 DEF Script, Echo, SetStatus, Yield, ScriptEnds, GeneratorEnds, Exit, FatalError,
              Bailout, InScript, workerVars, IInv, WorkerInv, TypeOK
<1>2. CASE Handler(r)
  BY <1>2 DEF Handler, EnterHandler, StartScript, HandlerAgain, SetOutputStatus,
              SetOutputNothing, SetOutputSend, SetOutputHead, SendsOutput, SetOutput,
              IInv, WorkerInv, TypeOK
<1>3. CASE Checker(r)
  BY <1>3 DEF Checker, SkipPhase, NextPhase, StaticContent, InternalRedirect, PhaseDone,
              AccessWaits, FinalizeQuietly, FinalizeWithStatus, FinalizeWithError, Finalizes,
              Release, TerminateRequest, IInv, WorkerInv, TypeOK
<1> QED BY <1>1, <1>2, <1>3 DEF Step

\* Nobody else's turn begins, ends, or brings an answer.
LEMMA OthersWait ==
  ASSUME NEW r \in Req, IInv, EventOf(r), NEW s \in Req, s # r
  PROVE  /\ life'[s] = life[s] /\ timer'[s] = timer[s]
         /\ resp'[s] = resp[s] /\ body'[s] = body[s]
         /\ running # s /\ running' # s
<1> USE DEF answerVars, SleepCleanup, IInv, TypeOK
<1>1. CASE Step(r)
  <2>1. running = r /\ running' \in {r, NULL} /\ s # NULL
    BY <1>1, StepRuns, NotNull
  <2>2. CASE Script(r)
    <3>1. InScript(r) => ngx_php_request = r
      BY DEF ReqInv, RunningInv, InScript
    <3> QED BY <2>1, <2>2, <3>1 DEF Script, Echo, SetStatus, Yield, ScriptEnds, GeneratorEnds,
           Exit, FatalError, Bailout
  <2>3. CASE Handler(r)
    BY <2>1, <2>3 DEF Handler, EnterHandler, StartScript, HandlerAgain, SetOutputStatus,
           SetOutputNothing, SetOutputSend, SetOutputHead, SendsOutput, SetOutput
  <2>4. CASE Checker(r)
    BY <2>1, <2>4 DEF Checker, SkipPhase, StaticContent, InternalRedirect, PhaseDone,
           AccessWaits, FinalizeQuietly, FinalizeWithStatus, FinalizeWithError, Release,
           TerminateRequest
  <2> QED BY <1>1, <2>1, <2>2, <2>3, <2>4 DEF Step
<1>2. CASE PostRead(r) \/ SleepHandler(r) \/ RunPosted(r) \/ ShutdownTimeout(r)
  BY <1>2, NotNull DEF PostRead, SleepHandler, RunPosted, ShutdownTimeout, Event, Idle, workerVars
<1> QED BY <1>1, <1>2 DEF EventOf

LEMMA StagesChange ==
  ASSUME NEW r \in Req, IInv, EventOf(r)
  PROVE  /\ Stages' = [Stages EXCEPT ![r] = Stage(r)']
         /\ Answers' = [Answers EXCEPT ![r] = Answers'[r]]
<1>1. ASSUME NEW s \in Req, s # r
      PROVE  Stage(s)' = Stage(s) /\ Answers'[s] = Answers[s]
  BY <1>1, OthersWait DEF Stage, Answers
<1> QED BY <1>1 DEF Stages, Answers

\* Nobody has a turn while the worker has nothing to do.
LEMMA IdleTurns ==
  ASSUME Idle
  PROVE  Turn!Idle
BY NotNull DEF Idle, Turn!Idle, Stages, Stage

LEMMA StepTurns ==
  ASSUME NEW r \in Req, IInv, Step(r)
  PROVE  [Turn!Next]_(Turn!turnVars)
<1>1. IInv' /\ EventOf(r)
  BY StepKeeps DEF EventOf
<1>2. /\ Stages' = [Stages EXCEPT ![r] = Stage(r)']
      /\ Answers' = [Answers EXCEPT ![r] = Answers'[r]]
  BY <1>1, StagesChange
<1>3. running = r /\ life[r] = "active" /\ running' \in {r, NULL} /\ life'[r] # "new"
  BY StepRuns, NotNull DEF IInv, WorkerInv
<1>4. Stages[r] = "running"
  BY <1>3 DEF Stages, Stage
<1>5. Turn!Answered(r) \/ UNCHANGED Answers
  <2>1. CASE resp[r] # NULL
    BY <1>2, <2>1, AnswerStays DEF Answers
  <2>2. CASE resp[r] = NULL /\ resp'[r] = NULL
    BY <1>2, <2>2 DEF Answers
  <2>3. CASE resp[r] = NULL /\ resp'[r] # NULL
    <3>1. resp'[r] \in HttpStatus /\ body'[r] \in SUBSET {r}
      BY <1>1, <2>3 DEF IInv, TypeOK, ReqInv, OutputInv
    <3>2. Answers[r] = NULL /\ Answers'[r] \in HttpStatus \X SUBSET {r}
      BY <2>3, <3>1 DEF Answers
    <3> QED BY <1>2, <3>2 DEF Turn!Answered
  <2> QED BY <2>1, <2>2, <2>3
<1>6. CASE running' = r
  <2>1. life'[r] = "active"
    BY <1>1, <1>6, NotNull DEF IInv, WorkerInv
  <2>2. UNCHANGED Stages
    BY <1>2, <1>4, <1>6, <2>1 DEF Stages, Stage
  <2> QED BY <1>4, <1>5, <2>2 DEF Turn!Answer, Turn!Next, Turn!turnVars
<1>7. CASE running' = NULL
  <2>1. Stage(r)' \in {"asleep", "left", "over"}
    BY <1>1, <1>3, <1>7, NotNull DEF Stage, IInv, TypeOK
  <2>2. CASE Stage(r)' = "asleep"
    <3>1. timer'[r]
      BY <1>1, <1>3, <1>7, <2>2, NotNull DEF Stage, IInv, TypeOK
    <3>2. resp'[r] = NULL
      BY <1>1, <3>1 DEF IInv, ReqInv, TimerInv
    <3>3. resp[r] = NULL
      BY <3>2, AnswerStays
    <3>4. Answers[r] = NULL /\ UNCHANGED Answers
      BY <1>2, <3>2, <3>3 DEF Answers
    <3>5. Turn!Sleep(r)
      BY <1>2, <1>4, <2>2, <3>4 DEF Turn!Sleep, Turn!Moves
    <3> QED BY <3>5 DEF Turn!Next
  <2>3. CASE Stage(r)' \in {"left", "over"}
    <3>1. Turn!Leave(r)
      BY <1>2, <1>4, <1>5, <2>3 DEF Turn!Leave, Turn!Moves
    <3> QED BY <3>1 DEF Turn!Next
  <2> QED BY <2>1, <2>2, <2>3
<1> QED BY <1>3, <1>6, <1>7

\* Between the turns: one begins, or a request is ended.
LEMMA EventTurns ==
  ASSUME NEW r \in Req, IInv,
         PostRead(r) \/ SleepHandler(r) \/ RunPosted(r) \/ ShutdownTimeout(r)
  PROVE  [Turn!Next]_(Turn!turnVars)
<1>1. EventOf(r) /\ Idle /\ Turn!Idle /\ running # r /\ r # NULL
  BY NotNull, IdleTurns
     DEF EventOf, PostRead, SleepHandler, RunPosted, ShutdownTimeout, Event, Idle
<1>2. /\ Stages' = [Stages EXCEPT ![r] = Stage(r)']
      /\ Answers' = [Answers EXCEPT ![r] = Answers'[r]]
  BY <1>1, StagesChange
<1>3. UNCHANGED Answers
  BY DEF PostRead, SleepHandler, RunPosted, ShutdownTimeout, answerVars, Answers
<1>4. (RunPosted(r) \/ ShutdownTimeout(r)) => running' # r
  BY <1>1 DEF RunPosted, ShutdownTimeout, workerVars
<1>5. CASE PostRead(r)
  <2>1. running' = r /\ life[r] = "new" /\ life'[r] = "active"
    BY <1>5 DEF PostRead, Event, IInv, TypeOK
  <2>2. Turn!Arrive(r)
    BY <1>1, <1>2, <1>3, <2>1 DEF Turn!Arrive, Turn!Moves, Stages, Stage
  <2> QED BY <2>2 DEF Turn!Next
<1>6. CASE SleepHandler(r)
  <2>1. timer[r] /\ life[r] = "active" /\ hasCtx[r] /\ gen[r] = "live"
    BY <1>6 DEF SleepHandler, IInv, ReqInv, TimerInv, Sleeping
  <2>2. running' = r /\ life'[r] = "active"
    BY <1>6, <2>1, Statuses DEF SleepHandler, Event
  <2>3. Turn!Wake(r)
    BY <1>1, <1>2, <1>3, <2>1, <2>2 DEF Turn!Wake, Turn!Moves, Stages, Stage
  <2> QED BY <2>3 DEF Turn!Next
<1>7. CASE RunPosted(r)
  <2>1. life[r] = "posted" /\ life'[r] = "freed"
    BY <1>7 DEF RunPosted, IInv, TypeOK
  <2>2. Stage(r) = "over" /\ Stage(r)' = "over"
    BY <1>1, <1>4, <1>7, <2>1 DEF Stage
  <2>3. UNCHANGED Stages
    BY <1>2, <2>2 DEF Stages
  <2> QED BY <1>3, <2>3 DEF Turn!turnVars
<1>8. CASE ShutdownTimeout(r)
  <2>1. life[r] = "active" /\ life'[r] = "freed"
    BY <1>8 DEF ShutdownTimeout, IInv, TypeOK
  <2>2. Stage(r)' = "over"
    BY <1>4, <1>8, <2>1 DEF Stage
  <2>3. Stages[r] \in {"asleep", "left"}
    BY <1>1, <2>1 DEF Stages, Stage
  <2>4. Turn!GiveUp(r)
    BY <1>1, <1>2, <1>3, <2>2, <2>3 DEF Turn!GiveUp, Turn!Moves
  <2> QED BY <2>4 DEF Turn!Next
<1> QED BY <1>5, <1>6, <1>7, <1>8

(***************************************************************************)
(* The worker implements Turns: whatever scripts sleep, exit and die, one  *)
(* request has the worker at a time, only one that sleeps gets it back,    *)
(* and each is answered at most once, with its own scripts' output.        *)
(***************************************************************************)
THEOREM TurnsImplemented == Spec => ImplementsTurns
<1>1. Init => Turn!Init
  <2> SUFFICES ASSUME Init PROVE Turn!Init
    OBVIOUS
  <2>1. ASSUME NEW r \in Req PROVE Stage(r) = "new" /\ resp[r] = NULL
    BY <2>1, NotNull DEF Init, Stage
  <2> QED BY <2>1 DEF Turn!Init, Stages, Answers
<1>2. ASSUME IInv, [Next]_vars
      PROVE  [Turn!Next]_(Turn!turnVars)
  <2>1. CASE UNCHANGED vars
    BY <2>1 DEF vars, answerVars, workerVars, Turn!turnVars, Stages, Stage, Answers
  <2>2. ASSUME NEW r \in Req, EventOf(r)
        PROVE  [Turn!Next]_(Turn!turnVars)
    BY <1>2, <2>2, StepTurns, EventTurns DEF EventOf
  <2> QED BY <1>2, <2>1, <2>2 DEF Next, Wait, EventOf
<1>3. Spec => Init /\ [][Next]_vars
  BY DEF Spec
<1> QED BY <1>1, <1>2, <1>3, Invariance, PTL DEF ImplementsTurns, Turn!Spec

-----------------------------------------------------------------------------
(* The order of the phases, the statuses of scripts, and closures.         *)

(***************************************************************************)
(* No location runs a script from a file in a phase behind an inline one:  *)
(* the file's handler would destroy the closure of the other once more.    *)
(***************************************************************************)
FilesComeFirst ==
  \A r \in Req, p \in Phase :
    Kind[r][p] = "file" => \A q \in Before(p) : Kind[r][q] # "inline"

\* Which scripts ran, by the phase and by how far the worker is with it.
OrderInv(r) ==
  /\ redirects[r] = 0 => Scripted(r, Before(phase[r])) \subseteq ran[r]
  /\ ran[r] \subseteq Scripted(r, Before(phase[r]) \cup {phase[r]})
  /\ (timer[r] /\ redirects[r] = 0) => phase[r] \in ran[r]
  /\ life[r] = "new" => ran[r] = {} /\ phase[r] = "rewrite" /\ redirects[r] = 0
  /\ (running = r /\ at = "return" /\ rc = "DECLINED") =>
       hasCtx[r] /\ (redirects[r] = 0 => phase[r] \in ran[r])
  /\ (running = r /\ at \in {"phases", "handler"}) =>
       /\ hasCtx[r] \/ redirects[r] > 0
       /\ (hasCtx[r] /\ phase_status[r] = "DECLINED") => phase[r] \notin ran[r]
       /\ (redirects[r] = 0 /\ phase_status[r] # "DECLINED") => phase[r] \in ran[r]
  /\ (running = r /\ at \in {"script", "next"} /\ redirects[r] = 0) => phase[r] \in ran[r]
  /\ (running = r /\ at \in {"handler", "script", "next"}) => Kind[r][phase[r]] # "none"

\* A script that was not suspended has the exit status it set.
StatusInv(r) ==
  /\ timer[r] => yields[r] > 0
  /\ running = r =>
       /\ at = "next" => yields[r] > 0
       /\ (at = "phases" /\ redirects[r] = 0 /\ phase_status[r] # "DECLINED") => yields[r] > 0
       /\ at = "script" => exit_status = own[r]
       /\ (/\ at = "handler" /\ phase_status[r] = "OK" /\ phase[r] # "content"
           /\ yields[r] = 0 /\ redirects[r] = 0) => exit_status = own[r]

\* A destroyed closure is one of a phase behind.
ClosureInv(r) ==
  /\ gen[r] # NULL => \E p \in Before(phase[r]) \cup {phase[r]} : Kind[r][p] = "inline"
  /\ life[r] = "new" => gen[r] = NULL
  /\ running = r =>
       /\ at = "script" => gen[r] # "dead"
       /\ (at \in {"phases", "handler"} /\ (hasCtx[r] => phase_status[r] # "DECLINED"))
            => gen[r] # "dead"

OrderSame(s) ==
  /\ Same(s) /\ ran'[s] = ran[s] /\ redirects'[s] = redirects[s]
  /\ yields'[s] = yields[s] /\ own'[s] = own[s]

PhasesInv(r) == OrderInv(r) /\ StatusInv(r) /\ (FilesComeFirst => ClosureInv(r))

LEMMA OthersKeepPhases ==
  ASSUME NEW s \in Req, PhasesInv(s), running # s, running' # s, OrderSame(s)
  PROVE  PhasesInv(s)'
BY DEF OrderSame, Same, PhasesInv, OrderInv, StatusInv, ClosureInv, Scripted, Before,
       FilesComeFirst

LEMMA PostReadPhases ==
  ASSUME NEW r \in Req, IInv, TypeOK', \A s \in Req : PhasesInv(s), PostRead(r)
  PROVE  \A s \in Req : PhasesInv(s)'
<1>1. /\ running = NULL /\ life[r] = "new" /\ life'[r] = "active"
      /\ phase'[r] = phase[r] /\ hasCtx'[r] = TRUE
      /\ phase_status'[r] = "DECLINED" /\ gen'[r] = gen[r]
      /\ timer'[r] = timer[r] /\ redirects'[r] = redirects[r]
      /\ yields'[r] = yields[r] /\ own'[r] = own[r] /\ ran'[r] = ran[r]
      /\ running' = r /\ at' = "phases" /\ rc' = NULL
      /\ exit_status' = exit_status
  BY NotNull, Statuses DEF PostRead, GoTo, Event, Idle, Park, At, ctxVars,
         answerVars, globalVars, workerVars, boundVars, historyVars, IInv, TypeOK,
         WorkerInv, ReqInv, RunningInv, TimerInv
<1>2. PhasesInv(r) /\ WorkerInv /\ TimerInv(r) /\ RunningInv(r) /\ phase[r] \in Phase
  BY DEF IInv, ReqInv, TypeOK
<1>3. OrderInv(r)'
  BY <1>1, <1>2, NotNull, UthreadAssumption DEF PhasesInv, WorkerInv, TimerInv, RunningInv, OrderInv, Scripted,
     Before, After, Phase, Sleeping
<1>4. StatusInv(r)'
  BY <1>1, <1>2, NotNull DEF PhasesInv, WorkerInv, TimerInv, RunningInv, OrderInv, StatusInv,
     Scripted, Sleeping
<1>5. ASSUME FilesComeFirst PROVE ClosureInv(r)'
  BY <1>1, <1>2, <1>5, NotNull, UthreadAssumption DEF PhasesInv, WorkerInv, TimerInv, RunningInv, ClosureInv,
     OrderInv, Before, After, Phase, FilesComeFirst, Sleeping
<1>6. ASSUME NEW s \in Req, s # r PROVE PhasesInv(s)'
  <2>1. running # s /\ running' # s /\ PhasesInv(s)
    BY <1>1, <1>6, NotNull
  <2>2. OrderSame(s)
    BY <1>6, NotNull, Statuses DEF PostRead, GoTo, Event, Idle, Park, At, ctxVars,
         answerVars, globalVars, workerVars, boundVars, historyVars, IInv, TypeOK,
         OrderSame, Same, ReqInv, RunningInv
  <2> QED BY <2>1, <2>2, OthersKeepPhases
<1>7. FilesComeFirst' <=> FilesComeFirst
  BY DEF FilesComeFirst
<1> QED BY <1>3, <1>4, <1>5, <1>6, <1>7 DEF PhasesInv

LEMMA SkipPhasePhases ==
  ASSUME NEW r \in Req, IInv, TypeOK', \A s \in Req : PhasesInv(s), SkipPhase(r)
  PROVE  \A s \in Req : PhasesInv(s)'
<1>1. /\ running = r /\ at = "phases" /\ Kind[r][phase[r]] = "none"
      /\ phase[r] # "content" /\ life'[r] = life[r]
      /\ phase'[r] = After(phase[r]) /\ hasCtx'[r] = hasCtx[r]
      /\ phase_status'[r] = phase_status[r] /\ gen'[r] = gen[r]
      /\ timer'[r] = timer[r] /\ redirects'[r] = redirects[r] /\ yields'[r] = 0
      /\ own'[r] = own[r] /\ ran'[r] = ran[r] /\ running' = running /\ at' = at
      /\ rc' = rc /\ exit_status' = exit_status
  BY NotNull, Statuses DEF SkipPhase, NextPhase, After, GoTo, Event, Idle, Park, At,
         ctxVars, answerVars, globalVars, workerVars, boundVars, historyVars, IInv,
         TypeOK, WorkerInv, ReqInv, RunningInv, TimerInv
<1>2. PhasesInv(r) /\ WorkerInv /\ TimerInv(r) /\ RunningInv(r) /\ phase[r] \in Phase
  BY DEF IInv, ReqInv, TypeOK
<1>3. OrderInv(r)'
  BY <1>1, <1>2, NotNull, UthreadAssumption DEF PhasesInv, WorkerInv, TimerInv, RunningInv, OrderInv, Scripted,
     Before, After, Phase, Sleeping
<1>4. StatusInv(r)'
  BY <1>1, <1>2, NotNull DEF PhasesInv, WorkerInv, TimerInv, RunningInv, OrderInv, StatusInv,
     Scripted, Sleeping
<1>5. ASSUME FilesComeFirst PROVE ClosureInv(r)'
  BY <1>1, <1>2, <1>5, NotNull, UthreadAssumption DEF PhasesInv, WorkerInv, TimerInv, RunningInv, ClosureInv,
     OrderInv, Before, After, Phase, FilesComeFirst, Sleeping
<1>6. ASSUME NEW s \in Req, s # r PROVE PhasesInv(s)'
  <2>1. running # s /\ running' # s /\ PhasesInv(s)
    BY <1>1, <1>6, NotNull
  <2>2. OrderSame(s)
    BY <1>6, NotNull, Statuses DEF SkipPhase, NextPhase, After, GoTo, Event, Idle,
         Park, At, ctxVars, answerVars, globalVars, workerVars, boundVars, historyVars,
         IInv, TypeOK, OrderSame, Same, ReqInv, RunningInv
  <2> QED BY <2>1, <2>2, OthersKeepPhases
<1>7. FilesComeFirst' <=> FilesComeFirst
  BY DEF FilesComeFirst
<1> QED BY <1>3, <1>4, <1>5, <1>6, <1>7 DEF PhasesInv

LEMMA StaticContentPhases ==
  ASSUME NEW r \in Req, IInv, TypeOK', \A s \in Req : PhasesInv(s), StaticContent(r)
  PROVE  \A s \in Req : PhasesInv(s)'
<1>1. /\ running = r /\ at = "phases" /\ phase'[r] = phase[r]
      /\ hasCtx'[r] = hasCtx[r] /\ phase_status'[r] = phase_status[r]
      /\ gen'[r] = gen[r] /\ redirects'[r] = redirects[r]
      /\ yields'[r] = yields[r] /\ own'[r] = own[r] /\ ran'[r] = ran[r]
      /\ running' = NULL /\ at' = "idle" /\ rc' = NULL
      /\ exit_status' = exit_status /\ (timer'[r] => timer[r])
      /\ life'[r] \in {life[r], "freed"}
  BY NotNull, Statuses DEF StaticContent, Release, SleepCleanup, GoTo, Event, Idle,
         Park, At, ctxVars, answerVars, globalVars, workerVars, boundVars, historyVars,
         IInv, TypeOK, WorkerInv, ReqInv, RunningInv, TimerInv
<1>2. PhasesInv(r) /\ WorkerInv /\ TimerInv(r) /\ RunningInv(r) /\ phase[r] \in Phase
  BY DEF IInv, ReqInv, TypeOK
<1>3. OrderInv(r)'
  BY <1>1, <1>2, NotNull, UthreadAssumption DEF PhasesInv, WorkerInv, TimerInv, RunningInv, OrderInv, Scripted,
     Before, After, Phase, Sleeping
<1>4. StatusInv(r)'
  BY <1>1, <1>2, NotNull DEF PhasesInv, WorkerInv, TimerInv, RunningInv, OrderInv, StatusInv,
     Scripted, Sleeping
<1>5. ASSUME FilesComeFirst PROVE ClosureInv(r)'
  BY <1>1, <1>2, <1>5, NotNull, UthreadAssumption DEF PhasesInv, WorkerInv, TimerInv, RunningInv, ClosureInv,
     OrderInv, Before, After, Phase, FilesComeFirst, Sleeping
<1>6. ASSUME NEW s \in Req, s # r PROVE PhasesInv(s)'
  <2>1. running # s /\ running' # s /\ PhasesInv(s)
    BY <1>1, <1>6, NotNull
  <2>2. OrderSame(s)
    BY <1>6, NotNull, Statuses DEF StaticContent, Release, SleepCleanup, GoTo, Event,
         Idle, Park, At, ctxVars, answerVars, globalVars, workerVars, boundVars,
         historyVars, IInv, TypeOK, OrderSame, Same, ReqInv, RunningInv
  <2> QED BY <2>1, <2>2, OthersKeepPhases
<1>7. FilesComeFirst' <=> FilesComeFirst
  BY DEF FilesComeFirst
<1> QED BY <1>3, <1>4, <1>5, <1>6, <1>7 DEF PhasesInv

LEMMA InternalRedirectPhases ==
  ASSUME NEW r \in Req, IInv, TypeOK', \A s \in Req : PhasesInv(s), InternalRedirect(r)
  PROVE  \A s \in Req : PhasesInv(s)'
<1>1. /\ running = r /\ at = "phases" /\ phase[r] = "content"
      /\ redirects[r] \in Nat /\ life'[r] = life[r] /\ phase'[r] = "rewrite"
      /\ hasCtx'[r] = FALSE /\ phase_status'[r] = phase_status[r]
      /\ gen'[r] = NULL /\ timer'[r] = timer[r]
      /\ redirects'[r] = redirects[r] + 1 /\ yields'[r] = 0 /\ own'[r] = own[r]
      /\ ran'[r] = {} /\ running' = running /\ at' = at /\ rc' = rc
      /\ exit_status' = exit_status
  BY NotNull, Statuses DEF InternalRedirect, GoTo, Event, Idle, Park, At, ctxVars,
         answerVars, globalVars, workerVars, boundVars, historyVars, IInv, TypeOK,
         WorkerInv, ReqInv, RunningInv, TimerInv
<1>2. PhasesInv(r) /\ WorkerInv /\ TimerInv(r) /\ RunningInv(r) /\ phase[r] \in Phase
  BY DEF IInv, ReqInv, TypeOK
<1>3. OrderInv(r)'
  BY <1>1, <1>2, NotNull, UthreadAssumption DEF PhasesInv, WorkerInv, TimerInv, RunningInv, OrderInv, Scripted,
     Before, After, Phase, Sleeping
<1>4. StatusInv(r)'
  BY <1>1, <1>2, NotNull DEF PhasesInv, WorkerInv, TimerInv, RunningInv, OrderInv, StatusInv,
     Scripted, Sleeping
<1>5. ASSUME FilesComeFirst PROVE ClosureInv(r)'
  BY <1>1, <1>2, <1>5, NotNull, UthreadAssumption DEF PhasesInv, WorkerInv, TimerInv, RunningInv, ClosureInv,
     OrderInv, Before, After, Phase, FilesComeFirst, Sleeping
<1>6. ASSUME NEW s \in Req, s # r PROVE PhasesInv(s)'
  <2>1. running # s /\ running' # s /\ PhasesInv(s)
    BY <1>1, <1>6, NotNull
  <2>2. OrderSame(s)
    BY <1>6, NotNull, Statuses DEF InternalRedirect, GoTo, Event, Idle, Park, At,
         ctxVars, answerVars, globalVars, workerVars, boundVars, historyVars, IInv,
         TypeOK, OrderSame, Same, ReqInv, RunningInv
  <2> QED BY <2>1, <2>2, OthersKeepPhases
<1>7. FilesComeFirst' <=> FilesComeFirst
  BY DEF FilesComeFirst
<1> QED BY <1>3, <1>4, <1>5, <1>6, <1>7 DEF PhasesInv

LEMMA PhaseDonePhases ==
  ASSUME NEW r \in Req, IInv, TypeOK', \A s \in Req : PhasesInv(s), PhaseDone(r)
  PROVE  \A s \in Req : PhasesInv(s)'
<1>1. /\ running = r /\ at = "return" /\ rc = "DECLINED" /\ life'[r] = life[r]
      /\ phase'[r] = After(phase[r]) /\ hasCtx'[r] = hasCtx[r]
      /\ phase_status'[r] = phase_status[r] /\ gen'[r] = gen[r]
      /\ timer'[r] = timer[r] /\ redirects'[r] = redirects[r] /\ yields'[r] = 0
      /\ own'[r] = own[r] /\ ran'[r] = ran[r] /\ running' = running
      /\ at' = "phases" /\ rc' = NULL /\ exit_status' = exit_status
  BY NotNull, Statuses DEF PhaseDone, After, GoTo, Event, Idle, Park, At, ctxVars,
         answerVars, globalVars, workerVars, boundVars, historyVars, IInv, TypeOK,
         WorkerInv, ReqInv, RunningInv, TimerInv
<1>2. PhasesInv(r) /\ WorkerInv /\ TimerInv(r) /\ RunningInv(r) /\ phase[r] \in Phase
  BY DEF IInv, ReqInv, TypeOK
<1>3. OrderInv(r)'
  BY <1>1, <1>2, NotNull, UthreadAssumption DEF PhasesInv, WorkerInv, TimerInv, RunningInv, OrderInv, Scripted,
     Before, After, Phase, Sleeping
<1>4. StatusInv(r)'
  BY <1>1, <1>2, NotNull DEF PhasesInv, WorkerInv, TimerInv, RunningInv, OrderInv, StatusInv,
     Scripted, Sleeping
<1>5. ASSUME FilesComeFirst PROVE ClosureInv(r)'
  BY <1>1, <1>2, <1>5, NotNull, UthreadAssumption DEF PhasesInv, WorkerInv, TimerInv, RunningInv, ClosureInv,
     OrderInv, Before, After, Phase, FilesComeFirst, Sleeping
<1>6. ASSUME NEW s \in Req, s # r PROVE PhasesInv(s)'
  <2>1. running # s /\ running' # s /\ PhasesInv(s)
    BY <1>1, <1>6, NotNull
  <2>2. OrderSame(s)
    BY <1>6, NotNull, Statuses DEF PhaseDone, After, GoTo, Event, Idle, Park, At,
         ctxVars, answerVars, globalVars, workerVars, boundVars, historyVars, IInv,
         TypeOK, OrderSame, Same, ReqInv, RunningInv
  <2> QED BY <2>1, <2>2, OthersKeepPhases
<1>7. FilesComeFirst' <=> FilesComeFirst
  BY DEF FilesComeFirst
<1> QED BY <1>3, <1>4, <1>5, <1>6, <1>7 DEF PhasesInv

LEMMA AccessWaitsPhases ==
  ASSUME NEW r \in Req, IInv, TypeOK', \A s \in Req : PhasesInv(s), AccessWaits(r)
  PROVE  \A s \in Req : PhasesInv(s)'
<1>1. /\ running = r /\ at = "return" /\ life'[r] = life[r]
      /\ phase'[r] = phase[r] /\ hasCtx'[r] = hasCtx[r]
      /\ phase_status'[r] = phase_status[r] /\ gen'[r] = gen[r]
      /\ timer'[r] = timer[r] /\ redirects'[r] = redirects[r]
      /\ yields'[r] = yields[r] /\ own'[r] = own[r] /\ ran'[r] = ran[r]
      /\ running' = NULL /\ at' = "idle" /\ rc' = NULL
      /\ exit_status' = exit_status
  BY NotNull, Statuses DEF AccessWaits, GoTo, Event, Idle, Park, At, ctxVars,
         answerVars, globalVars, workerVars, boundVars, historyVars, IInv, TypeOK,
         WorkerInv, ReqInv, RunningInv, TimerInv
<1>2. PhasesInv(r) /\ WorkerInv /\ TimerInv(r) /\ RunningInv(r) /\ phase[r] \in Phase
  BY DEF IInv, ReqInv, TypeOK
<1>3. OrderInv(r)'
  BY <1>1, <1>2, NotNull, UthreadAssumption DEF PhasesInv, WorkerInv, TimerInv, RunningInv, OrderInv, Scripted,
     Before, After, Phase, Sleeping
<1>4. StatusInv(r)'
  BY <1>1, <1>2, NotNull DEF PhasesInv, WorkerInv, TimerInv, RunningInv, OrderInv, StatusInv,
     Scripted, Sleeping
<1>5. ASSUME FilesComeFirst PROVE ClosureInv(r)'
  BY <1>1, <1>2, <1>5, NotNull, UthreadAssumption DEF PhasesInv, WorkerInv, TimerInv, RunningInv, ClosureInv,
     OrderInv, Before, After, Phase, FilesComeFirst, Sleeping
<1>6. ASSUME NEW s \in Req, s # r PROVE PhasesInv(s)'
  <2>1. running # s /\ running' # s /\ PhasesInv(s)
    BY <1>1, <1>6, NotNull
  <2>2. OrderSame(s)
    BY <1>6, NotNull, Statuses DEF AccessWaits, GoTo, Event, Idle, Park, At, ctxVars,
         answerVars, globalVars, workerVars, boundVars, historyVars, IInv, TypeOK,
         OrderSame, Same, ReqInv, RunningInv
  <2> QED BY <2>1, <2>2, OthersKeepPhases
<1>7. FilesComeFirst' <=> FilesComeFirst
  BY DEF FilesComeFirst
<1> QED BY <1>3, <1>4, <1>5, <1>6, <1>7 DEF PhasesInv

LEMMA FinalizeQuietlyPhases ==
  ASSUME NEW r \in Req, IInv, TypeOK', \A s \in Req : PhasesInv(s), FinalizeQuietly(r)
  PROVE  \A s \in Req : PhasesInv(s)'
<1>1. /\ running = r /\ at = "return" /\ phase'[r] = phase[r]
      /\ hasCtx'[r] = hasCtx[r] /\ phase_status'[r] = phase_status[r]
      /\ gen'[r] = gen[r] /\ redirects'[r] = redirects[r]
      /\ yields'[r] = yields[r] /\ own'[r] = own[r] /\ ran'[r] = ran[r]
      /\ running' = NULL /\ at' = "idle" /\ rc' = NULL
      /\ exit_status' = exit_status /\ (timer'[r] => timer[r])
      /\ life'[r] \in {life[r], "freed"}
  BY NotNull, Statuses DEF FinalizeQuietly, Finalizes, Release, SleepCleanup, GoTo,
         Event, Idle, Park, At, ctxVars, answerVars, globalVars, workerVars, boundVars,
         historyVars, IInv, TypeOK, WorkerInv, ReqInv, RunningInv, TimerInv
<1>2. PhasesInv(r) /\ WorkerInv /\ TimerInv(r) /\ RunningInv(r) /\ phase[r] \in Phase
  BY DEF IInv, ReqInv, TypeOK
<1>3. OrderInv(r)'
  BY <1>1, <1>2, NotNull, UthreadAssumption DEF PhasesInv, WorkerInv, TimerInv, RunningInv, OrderInv, Scripted,
     Before, After, Phase, Sleeping
<1>4. StatusInv(r)'
  BY <1>1, <1>2, NotNull DEF PhasesInv, WorkerInv, TimerInv, RunningInv, OrderInv, StatusInv,
     Scripted, Sleeping
<1>5. ASSUME FilesComeFirst PROVE ClosureInv(r)'
  BY <1>1, <1>2, <1>5, NotNull, UthreadAssumption DEF PhasesInv, WorkerInv, TimerInv, RunningInv, ClosureInv,
     OrderInv, Before, After, Phase, FilesComeFirst, Sleeping
<1>6. ASSUME NEW s \in Req, s # r PROVE PhasesInv(s)'
  <2>1. running # s /\ running' # s /\ PhasesInv(s)
    BY <1>1, <1>6, NotNull
  <2>2. OrderSame(s)
    BY <1>6, NotNull, Statuses DEF FinalizeQuietly, Finalizes, Release, SleepCleanup,
         GoTo, Event, Idle, Park, At, ctxVars, answerVars, globalVars, workerVars,
         boundVars, historyVars, IInv, TypeOK, OrderSame, Same, ReqInv, RunningInv
  <2> QED BY <2>1, <2>2, OthersKeepPhases
<1>7. FilesComeFirst' <=> FilesComeFirst
  BY DEF FilesComeFirst
<1> QED BY <1>3, <1>4, <1>5, <1>6, <1>7 DEF PhasesInv

LEMMA FinalizeWithStatusPhases ==
  ASSUME NEW r \in Req, IInv, TypeOK', \A s \in Req : PhasesInv(s), FinalizeWithStatus(r)
  PROVE  \A s \in Req : PhasesInv(s)'
<1>1. /\ running = r /\ at = "return" /\ phase'[r] = phase[r]
      /\ hasCtx'[r] = hasCtx[r] /\ phase_status'[r] = phase_status[r]
      /\ gen'[r] = gen[r] /\ redirects'[r] = redirects[r]
      /\ yields'[r] = yields[r] /\ own'[r] = own[r] /\ ran'[r] = ran[r]
      /\ running' = NULL /\ at' = "idle" /\ rc' = NULL
      /\ exit_status' = exit_status /\ (timer'[r] => timer[r])
      /\ life'[r] \in {life[r], "freed"}
  BY NotNull, Statuses DEF FinalizeWithStatus, Finalizes, Release, SleepCleanup,
         GoTo, Event, Idle, Park, At, ctxVars, answerVars, globalVars, workerVars,
         boundVars, historyVars, IInv, TypeOK, WorkerInv, ReqInv, RunningInv, TimerInv
<1>2. PhasesInv(r) /\ WorkerInv /\ TimerInv(r) /\ RunningInv(r) /\ phase[r] \in Phase
  BY DEF IInv, ReqInv, TypeOK
<1>3. OrderInv(r)'
  BY <1>1, <1>2, NotNull, UthreadAssumption DEF PhasesInv, WorkerInv, TimerInv, RunningInv, OrderInv, Scripted,
     Before, After, Phase, Sleeping
<1>4. StatusInv(r)'
  BY <1>1, <1>2, NotNull DEF PhasesInv, WorkerInv, TimerInv, RunningInv, OrderInv, StatusInv,
     Scripted, Sleeping
<1>5. ASSUME FilesComeFirst PROVE ClosureInv(r)'
  BY <1>1, <1>2, <1>5, NotNull, UthreadAssumption DEF PhasesInv, WorkerInv, TimerInv, RunningInv, ClosureInv,
     OrderInv, Before, After, Phase, FilesComeFirst, Sleeping
<1>6. ASSUME NEW s \in Req, s # r PROVE PhasesInv(s)'
  <2>1. running # s /\ running' # s /\ PhasesInv(s)
    BY <1>1, <1>6, NotNull
  <2>2. OrderSame(s)
    BY <1>6, NotNull, Statuses DEF FinalizeWithStatus, Finalizes, Release,
         SleepCleanup, GoTo, Event, Idle, Park, At, ctxVars, answerVars, globalVars,
         workerVars, boundVars, historyVars, IInv, TypeOK, OrderSame, Same, ReqInv,
         RunningInv
  <2> QED BY <2>1, <2>2, OthersKeepPhases
<1>7. FilesComeFirst' <=> FilesComeFirst
  BY DEF FilesComeFirst
<1> QED BY <1>3, <1>4, <1>5, <1>6, <1>7 DEF PhasesInv

LEMMA FinalizeWithErrorPhases ==
  ASSUME NEW r \in Req, IInv, TypeOK', \A s \in Req : PhasesInv(s), FinalizeWithError(r)
  PROVE  \A s \in Req : PhasesInv(s)'
<1>1. /\ running = r /\ at = "return" /\ phase'[r] = phase[r]
      /\ hasCtx'[r] = hasCtx[r] /\ phase_status'[r] = phase_status[r]
      /\ gen'[r] = gen[r] /\ redirects'[r] = redirects[r]
      /\ yields'[r] = yields[r] /\ own'[r] = own[r] /\ ran'[r] = ran[r]
      /\ running' = NULL /\ at' = "idle" /\ rc' = NULL
      /\ exit_status' = exit_status /\ (timer'[r] => timer[r])
      /\ life'[r] \in {"posted", "freed"}
  BY NotNull, Statuses DEF FinalizeWithError, Finalizes, TerminateRequest,
         SleepCleanup, GoTo, Event, Idle, Park, At, ctxVars, answerVars, globalVars,
         workerVars, boundVars, historyVars, IInv, TypeOK, WorkerInv, ReqInv, RunningInv,
         TimerInv
<1>2. PhasesInv(r) /\ WorkerInv /\ TimerInv(r) /\ RunningInv(r) /\ phase[r] \in Phase
  BY DEF IInv, ReqInv, TypeOK
<1>3. OrderInv(r)'
  BY <1>1, <1>2, NotNull, UthreadAssumption DEF PhasesInv, WorkerInv, TimerInv, RunningInv, OrderInv, Scripted,
     Before, After, Phase, Sleeping
<1>4. StatusInv(r)'
  BY <1>1, <1>2, NotNull DEF PhasesInv, WorkerInv, TimerInv, RunningInv, OrderInv, StatusInv,
     Scripted, Sleeping
<1>5. ASSUME FilesComeFirst PROVE ClosureInv(r)'
  BY <1>1, <1>2, <1>5, NotNull, UthreadAssumption DEF PhasesInv, WorkerInv, TimerInv, RunningInv, ClosureInv,
     OrderInv, Before, After, Phase, FilesComeFirst, Sleeping
<1>6. ASSUME NEW s \in Req, s # r PROVE PhasesInv(s)'
  <2>1. running # s /\ running' # s /\ PhasesInv(s)
    BY <1>1, <1>6, NotNull
  <2>2. OrderSame(s)
    BY <1>6, NotNull, Statuses DEF FinalizeWithError, Finalizes, TerminateRequest,
         SleepCleanup, GoTo, Event, Idle, Park, At, ctxVars, answerVars, globalVars,
         workerVars, boundVars, historyVars, IInv, TypeOK, OrderSame, Same, ReqInv,
         RunningInv
  <2> QED BY <2>1, <2>2, OthersKeepPhases
<1>7. FilesComeFirst' <=> FilesComeFirst
  BY DEF FilesComeFirst
<1> QED BY <1>3, <1>4, <1>5, <1>6, <1>7 DEF PhasesInv

LEMMA EnterHandlerPhases ==
  ASSUME NEW r \in Req, IInv, TypeOK', \A s \in Req : PhasesInv(s), EnterHandler(r)
  PROVE  \A s \in Req : PhasesInv(s)'
<1>1. /\ running = r /\ at = "phases" /\ Kind[r][phase[r]] # "none"
      /\ life'[r] = life[r] /\ phase'[r] = phase[r] /\ hasCtx'[r] = TRUE
      /\ phase_status'[r] = (IF hasCtx[r] THEN phase_status[r] ELSE "OK")
      /\ gen'[r] = gen[r] /\ timer'[r] = timer[r] /\ redirects'[r] = redirects[r]
      /\ yields'[r] = yields[r] /\ own'[r] = own[r] /\ ran'[r] = ran[r]
      /\ running' = running /\ at' = "handler" /\ rc' = rc
      /\ exit_status' = (IF phase[r] = "content" THEN "OK" ELSE exit_status)
  BY NotNull, Statuses DEF EnterHandler, GoTo, Event, Idle, Park, At, ctxVars,
         answerVars, globalVars, workerVars, boundVars, historyVars, IInv, TypeOK,
         WorkerInv, ReqInv, RunningInv, TimerInv
<1>2. PhasesInv(r) /\ WorkerInv /\ TimerInv(r) /\ RunningInv(r) /\ phase[r] \in Phase
  BY DEF IInv, ReqInv, TypeOK
<1>3. OrderInv(r)'
  BY <1>1, <1>2, NotNull, UthreadAssumption DEF PhasesInv, WorkerInv, TimerInv, RunningInv, OrderInv, Scripted,
     Before, After, Phase, Sleeping
<1>4. StatusInv(r)'
  BY <1>1, <1>2, NotNull DEF PhasesInv, WorkerInv, TimerInv, RunningInv, OrderInv, StatusInv,
     Scripted, Sleeping
<1>5. ASSUME FilesComeFirst PROVE ClosureInv(r)'
  BY <1>1, <1>2, <1>5, NotNull, UthreadAssumption DEF PhasesInv, WorkerInv, TimerInv, RunningInv, ClosureInv,
     OrderInv, Before, After, Phase, FilesComeFirst, Sleeping
<1>6. ASSUME NEW s \in Req, s # r PROVE PhasesInv(s)'
  <2>1. running # s /\ running' # s /\ PhasesInv(s)
    BY <1>1, <1>6, NotNull
  <2>2. OrderSame(s)
    BY <1>6, NotNull, Statuses DEF EnterHandler, GoTo, Event, Idle, Park, At, ctxVars,
         answerVars, globalVars, workerVars, boundVars, historyVars, IInv, TypeOK,
         OrderSame, Same, ReqInv, RunningInv
  <2> QED BY <2>1, <2>2, OthersKeepPhases
<1>7. FilesComeFirst' <=> FilesComeFirst
  BY DEF FilesComeFirst
<1> QED BY <1>3, <1>4, <1>5, <1>6, <1>7 DEF PhasesInv

LEMMA StartScriptPhases ==
  ASSUME NEW r \in Req, IInv, TypeOK', \A s \in Req : PhasesInv(s), StartScript(r)
  PROVE  \A s \in Req : PhasesInv(s)'
<1>1. /\ running = r /\ at = "handler" /\ phase_status[r] = "DECLINED"
      /\ life'[r] = life[r] /\ phase'[r] = phase[r] /\ hasCtx'[r] = hasCtx[r]
      /\ phase_status'[r] = "OK"
      /\ gen'[r] = (IF Kind[r][phase[r]] = "inline" THEN "live" ELSE gen[r])
      /\ timer'[r] = timer[r] /\ redirects'[r] = redirects[r]
      /\ yields'[r] = yields[r] /\ own'[r] = StartStatus(r)
      /\ ran'[r] = ran[r] \cup {phase[r]} /\ running' = running /\ at' = "script"
      /\ rc' = rc /\ exit_status' = StartStatus(r)
  BY NotNull, Statuses DEF StartScript, StartStatus, GoTo, Event, Idle, Park, At,
         ctxVars, answerVars, globalVars, workerVars, boundVars, historyVars, IInv,
         TypeOK, WorkerInv, ReqInv, RunningInv, TimerInv
<1>2. PhasesInv(r) /\ WorkerInv /\ TimerInv(r) /\ RunningInv(r) /\ phase[r] \in Phase
  BY DEF IInv, ReqInv, TypeOK
<1>3. OrderInv(r)'
  BY <1>1, <1>2, NotNull, UthreadAssumption DEF PhasesInv, WorkerInv, TimerInv, RunningInv, OrderInv, Scripted,
     Before, After, Phase, Sleeping
<1>4. StatusInv(r)'
  BY <1>1, <1>2, NotNull DEF PhasesInv, WorkerInv, TimerInv, RunningInv, OrderInv, StatusInv,
     Scripted, Sleeping
<1>5. ASSUME FilesComeFirst PROVE ClosureInv(r)'
  BY <1>1, <1>2, <1>5, NotNull, UthreadAssumption DEF PhasesInv, WorkerInv, TimerInv, RunningInv, ClosureInv,
     OrderInv, Before, After, Phase, FilesComeFirst, Sleeping
<1>6. ASSUME NEW s \in Req, s # r PROVE PhasesInv(s)'
  <2>1. running # s /\ running' # s /\ PhasesInv(s)
    BY <1>1, <1>6, NotNull
  <2>2. OrderSame(s)
    BY <1>6, NotNull, Statuses DEF StartScript, StartStatus, GoTo, Event, Idle, Park,
         At, ctxVars, answerVars, globalVars, workerVars, boundVars, historyVars, IInv,
         TypeOK, OrderSame, Same, ReqInv, RunningInv
  <2> QED BY <2>1, <2>2, OthersKeepPhases
<1>7. FilesComeFirst' <=> FilesComeFirst
  BY DEF FilesComeFirst
<1> QED BY <1>3, <1>4, <1>5, <1>6, <1>7 DEF PhasesInv

LEMMA HandlerAgainPhases ==
  ASSUME NEW r \in Req, IInv, TypeOK', \A s \in Req : PhasesInv(s), HandlerAgain(r)
  PROVE  \A s \in Req : PhasesInv(s)'
<1>1. /\ running = r /\ at = "handler" /\ life'[r] = life[r]
      /\ phase'[r] = phase[r] /\ hasCtx'[r] = hasCtx[r]
      /\ phase_status'[r] = phase_status[r] /\ gen'[r] = gen[r]
      /\ timer'[r] = timer[r] /\ redirects'[r] = redirects[r]
      /\ yields'[r] = yields[r] /\ own'[r] = own[r] /\ ran'[r] = ran[r]
      /\ running' = running /\ at' = "return" /\ rc' = "AGAIN"
      /\ exit_status' = exit_status
  BY NotNull, Statuses DEF HandlerAgain, Return, GoTo, Event, Idle, Park, At,
         ctxVars, answerVars, globalVars, workerVars, boundVars, historyVars, IInv,
         TypeOK, WorkerInv, ReqInv, RunningInv, TimerInv
<1>2. PhasesInv(r) /\ WorkerInv /\ TimerInv(r) /\ RunningInv(r) /\ phase[r] \in Phase
  BY DEF IInv, ReqInv, TypeOK
<1>3. OrderInv(r)'
  BY <1>1, <1>2, NotNull, UthreadAssumption DEF PhasesInv, WorkerInv, TimerInv, RunningInv, OrderInv, Scripted,
     Before, After, Phase, Sleeping
<1>4. StatusInv(r)'
  BY <1>1, <1>2, NotNull DEF PhasesInv, WorkerInv, TimerInv, RunningInv, OrderInv, StatusInv,
     Scripted, Sleeping
<1>5. ASSUME FilesComeFirst PROVE ClosureInv(r)'
  BY <1>1, <1>2, <1>5, NotNull, UthreadAssumption DEF PhasesInv, WorkerInv, TimerInv, RunningInv, ClosureInv,
     OrderInv, Before, After, Phase, FilesComeFirst, Sleeping
<1>6. ASSUME NEW s \in Req, s # r PROVE PhasesInv(s)'
  <2>1. running # s /\ running' # s /\ PhasesInv(s)
    BY <1>1, <1>6, NotNull
  <2>2. OrderSame(s)
    BY <1>6, NotNull, Statuses DEF HandlerAgain, Return, GoTo, Event, Idle, Park, At,
         ctxVars, answerVars, globalVars, workerVars, boundVars, historyVars, IInv,
         TypeOK, OrderSame, Same, ReqInv, RunningInv
  <2> QED BY <2>1, <2>2, OthersKeepPhases
<1>7. FilesComeFirst' <=> FilesComeFirst
  BY DEF FilesComeFirst
<1> QED BY <1>3, <1>4, <1>5, <1>6, <1>7 DEF PhasesInv

LEMMA SetOutputStatusPhases ==
  ASSUME NEW r \in Req, IInv, TypeOK', \A s \in Req : PhasesInv(s), SetOutputStatus(r)
  PROVE  \A s \in Req : PhasesInv(s)'
<1>1. /\ running = r /\ at = "handler" /\ phase_status[r] = "OK"
      /\ life'[r] = life[r] /\ phase'[r] = phase[r] /\ hasCtx'[r] = hasCtx[r]
      /\ phase_status'[r] = "DECLINED"
      /\ gen'[r] = (IF gen[r] = NULL THEN NULL ELSE "dead")
      /\ timer'[r] = timer[r] /\ redirects'[r] = redirects[r]
      /\ yields'[r] = yields[r] /\ own'[r] = own[r] /\ ran'[r] = ran[r]
      /\ running' = running /\ at' = "return" /\ rc' = exit_status
      /\ exit_status' = exit_status
  BY NotNull, Statuses DEF SetOutputStatus, SetOutput, DestroyedClosure, Return,
         Emits, GoTo, Event, Idle, Park, At, ctxVars, answerVars, globalVars, workerVars,
         boundVars, historyVars, IInv, TypeOK, WorkerInv, ReqInv, RunningInv, TimerInv
<1>2. PhasesInv(r) /\ WorkerInv /\ TimerInv(r) /\ RunningInv(r) /\ phase[r] \in Phase
  BY DEF IInv, ReqInv, TypeOK
<1>3. OrderInv(r)'
  BY <1>1, <1>2, NotNull, UthreadAssumption DEF PhasesInv, WorkerInv, TimerInv, RunningInv, OrderInv, Scripted,
     Before, After, Phase, Sleeping
<1>4. StatusInv(r)'
  BY <1>1, <1>2, NotNull DEF PhasesInv, WorkerInv, TimerInv, RunningInv, OrderInv, StatusInv,
     Scripted, Sleeping
<1>5. ASSUME FilesComeFirst PROVE ClosureInv(r)'
  BY <1>1, <1>2, <1>5, NotNull, UthreadAssumption DEF PhasesInv, WorkerInv, TimerInv, RunningInv, ClosureInv,
     OrderInv, Before, After, Phase, FilesComeFirst, Sleeping
<1>6. ASSUME NEW s \in Req, s # r PROVE PhasesInv(s)'
  <2>1. running # s /\ running' # s /\ PhasesInv(s)
    BY <1>1, <1>6, NotNull
  <2>2. OrderSame(s)
    BY <1>6, NotNull, Statuses DEF SetOutputStatus, SetOutput, DestroyedClosure,
         Return, Emits, GoTo, Event, Idle, Park, At, ctxVars, answerVars, globalVars,
         workerVars, boundVars, historyVars, IInv, TypeOK, OrderSame, Same, ReqInv,
         RunningInv
  <2> QED BY <2>1, <2>2, OthersKeepPhases
<1>7. FilesComeFirst' <=> FilesComeFirst
  BY DEF FilesComeFirst
<1> QED BY <1>3, <1>4, <1>5, <1>6, <1>7 DEF PhasesInv

LEMMA SetOutputNothingPhases ==
  ASSUME NEW r \in Req, IInv, TypeOK', \A s \in Req : PhasesInv(s), SetOutputNothing(r)
  PROVE  \A s \in Req : PhasesInv(s)'
<1>1. /\ running = r /\ at = "handler" /\ phase_status[r] = "OK"
      /\ life'[r] = life[r] /\ phase'[r] = phase[r] /\ hasCtx'[r] = hasCtx[r]
      /\ phase_status'[r] = "DECLINED"
      /\ gen'[r] = (IF gen[r] = NULL THEN NULL ELSE "dead")
      /\ timer'[r] = timer[r] /\ redirects'[r] = redirects[r]
      /\ yields'[r] = yields[r] /\ own'[r] = own[r] /\ ran'[r] = ran[r]
      /\ running' = running /\ at' = "return" /\ rc' = "DECLINED"
      /\ exit_status' = exit_status
  BY NotNull, Statuses DEF SetOutputNothing, SetOutput, DestroyedClosure, Return,
         GoTo, Event, Idle, Park, At, ctxVars, answerVars, globalVars, workerVars,
         boundVars, historyVars, IInv, TypeOK, WorkerInv, ReqInv, RunningInv, TimerInv
<1>2. PhasesInv(r) /\ WorkerInv /\ TimerInv(r) /\ RunningInv(r) /\ phase[r] \in Phase
  BY DEF IInv, ReqInv, TypeOK
<1>3. OrderInv(r)'
  BY <1>1, <1>2, NotNull, UthreadAssumption DEF PhasesInv, WorkerInv, TimerInv, RunningInv, OrderInv, Scripted,
     Before, After, Phase, Sleeping
<1>4. StatusInv(r)'
  BY <1>1, <1>2, NotNull DEF PhasesInv, WorkerInv, TimerInv, RunningInv, OrderInv, StatusInv,
     Scripted, Sleeping
<1>5. ASSUME FilesComeFirst PROVE ClosureInv(r)'
  BY <1>1, <1>2, <1>5, NotNull, UthreadAssumption DEF PhasesInv, WorkerInv, TimerInv, RunningInv, ClosureInv,
     OrderInv, Before, After, Phase, FilesComeFirst, Sleeping
<1>6. ASSUME NEW s \in Req, s # r PROVE PhasesInv(s)'
  <2>1. running # s /\ running' # s /\ PhasesInv(s)
    BY <1>1, <1>6, NotNull
  <2>2. OrderSame(s)
    BY <1>6, NotNull, Statuses DEF SetOutputNothing, SetOutput, DestroyedClosure,
         Return, GoTo, Event, Idle, Park, At, ctxVars, answerVars, globalVars,
         workerVars, boundVars, historyVars, IInv, TypeOK, OrderSame, Same, ReqInv,
         RunningInv
  <2> QED BY <2>1, <2>2, OthersKeepPhases
<1>7. FilesComeFirst' <=> FilesComeFirst
  BY DEF FilesComeFirst
<1> QED BY <1>3, <1>4, <1>5, <1>6, <1>7 DEF PhasesInv

LEMMA SetOutputSendPhases ==
  ASSUME NEW r \in Req, IInv, TypeOK', \A s \in Req : PhasesInv(s), SetOutputSend(r)
  PROVE  \A s \in Req : PhasesInv(s)'
<1>1. /\ running = r /\ at = "handler" /\ phase_status[r] = "OK"
      /\ life'[r] = life[r] /\ phase'[r] = phase[r] /\ hasCtx'[r] = FALSE
      /\ phase_status'[r] = "DECLINED" /\ gen'[r] = NULL /\ timer'[r] = timer[r]
      /\ redirects'[r] = redirects[r] /\ yields'[r] = yields[r]
      /\ own'[r] = own[r] /\ ran'[r] = ran[r] /\ running' = running
      /\ at' = "return"
      /\ rc' = (IF phase[r] = "access" THEN "HTTP_OK" ELSE "OK")
      /\ exit_status' = exit_status
  BY NotNull, Statuses DEF SetOutputSend, SetOutput, SendsOutput, Return, GoTo,
         Event, Idle, Park, At, ctxVars, answerVars, globalVars, workerVars, boundVars,
         historyVars, IInv, TypeOK, WorkerInv, ReqInv, RunningInv, TimerInv
<1>2. PhasesInv(r) /\ WorkerInv /\ TimerInv(r) /\ RunningInv(r) /\ phase[r] \in Phase
  BY DEF IInv, ReqInv, TypeOK
<1>3. OrderInv(r)'
  BY <1>1, <1>2, NotNull, UthreadAssumption DEF PhasesInv, WorkerInv, TimerInv, RunningInv, OrderInv, Scripted,
     Before, After, Phase, Sleeping
<1>4. StatusInv(r)'
  BY <1>1, <1>2, NotNull DEF PhasesInv, WorkerInv, TimerInv, RunningInv, OrderInv, StatusInv,
     Scripted, Sleeping
<1>5. ASSUME FilesComeFirst PROVE ClosureInv(r)'
  BY <1>1, <1>2, <1>5, NotNull, UthreadAssumption DEF PhasesInv, WorkerInv, TimerInv, RunningInv, ClosureInv,
     OrderInv, Before, After, Phase, FilesComeFirst, Sleeping
<1>6. ASSUME NEW s \in Req, s # r PROVE PhasesInv(s)'
  <2>1. running # s /\ running' # s /\ PhasesInv(s)
    BY <1>1, <1>6, NotNull
  <2>2. OrderSame(s)
    BY <1>6, NotNull, Statuses DEF SetOutputSend, SetOutput, SendsOutput, Return, GoTo,
         Event, Idle, Park, At, ctxVars, answerVars, globalVars, workerVars, boundVars,
         historyVars, IInv, TypeOK, OrderSame, Same, ReqInv, RunningInv
  <2> QED BY <2>1, <2>2, OthersKeepPhases
<1>7. FilesComeFirst' <=> FilesComeFirst
  BY DEF FilesComeFirst
<1> QED BY <1>3, <1>4, <1>5, <1>6, <1>7 DEF PhasesInv

LEMMA SetOutputHeadPhases ==
  ASSUME NEW r \in Req, IInv, TypeOK', \A s \in Req : PhasesInv(s), SetOutputHead(r)
  PROVE  \A s \in Req : PhasesInv(s)'
<1>1. /\ running = r /\ at = "handler" /\ phase_status[r] = "OK"
      /\ life'[r] = life[r] /\ phase'[r] = phase[r] /\ hasCtx'[r] = hasCtx[r]
      /\ phase_status'[r] = "DECLINED"
      /\ gen'[r] = (IF gen[r] = NULL THEN NULL ELSE "dead")
      /\ timer'[r] = timer[r] /\ redirects'[r] = redirects[r]
      /\ yields'[r] = yields[r] /\ own'[r] = own[r] /\ ran'[r] = ran[r]
      /\ running' = running /\ at' = "return" /\ rc' = "ERROR"
      /\ exit_status' = exit_status
  BY NotNull, Statuses DEF SetOutputHead, SetOutput, SendsOutput, DestroyedClosure,
         Return, GoTo, Event, Idle, Park, At, ctxVars, answerVars, globalVars,
         workerVars, boundVars, historyVars, IInv, TypeOK, WorkerInv, ReqInv, RunningInv,
         TimerInv
<1>2. PhasesInv(r) /\ WorkerInv /\ TimerInv(r) /\ RunningInv(r) /\ phase[r] \in Phase
  BY DEF IInv, ReqInv, TypeOK
<1>3. OrderInv(r)'
  BY <1>1, <1>2, NotNull, UthreadAssumption DEF PhasesInv, WorkerInv, TimerInv, RunningInv, OrderInv, Scripted,
     Before, After, Phase, Sleeping
<1>4. StatusInv(r)'
  BY <1>1, <1>2, NotNull DEF PhasesInv, WorkerInv, TimerInv, RunningInv, OrderInv, StatusInv,
     Scripted, Sleeping
<1>5. ASSUME FilesComeFirst PROVE ClosureInv(r)'
  BY <1>1, <1>2, <1>5, NotNull, UthreadAssumption DEF PhasesInv, WorkerInv, TimerInv, RunningInv, ClosureInv,
     OrderInv, Before, After, Phase, FilesComeFirst, Sleeping
<1>6. ASSUME NEW s \in Req, s # r PROVE PhasesInv(s)'
  <2>1. running # s /\ running' # s /\ PhasesInv(s)
    BY <1>1, <1>6, NotNull
  <2>2. OrderSame(s)
    BY <1>6, NotNull, Statuses DEF SetOutputHead, SetOutput, SendsOutput,
         DestroyedClosure, Return, GoTo, Event, Idle, Park, At, ctxVars, answerVars,
         globalVars, workerVars, boundVars, historyVars, IInv, TypeOK, OrderSame, Same,
         ReqInv, RunningInv
  <2> QED BY <2>1, <2>2, OthersKeepPhases
<1>7. FilesComeFirst' <=> FilesComeFirst
  BY DEF FilesComeFirst
<1> QED BY <1>3, <1>4, <1>5, <1>6, <1>7 DEF PhasesInv

LEMMA EchoPhases ==
  ASSUME NEW r \in Req, IInv, TypeOK', \A s \in Req : PhasesInv(s), Echo(r)
  PROVE  \A s \in Req : PhasesInv(s)'
<1>1. /\ running = r /\ at \in {"script", "next"} /\ life'[r] = life[r]
      /\ phase'[r] = phase[r] /\ hasCtx'[r] = hasCtx[r]
      /\ phase_status'[r] = phase_status[r] /\ gen'[r] = gen[r]
      /\ timer'[r] = timer[r] /\ redirects'[r] = redirects[r]
      /\ yields'[r] = yields[r] /\ own'[r] = own[r] /\ ran'[r] = ran[r]
      /\ running' = running /\ at' = at /\ rc' = rc /\ exit_status' = exit_status
  BY NotNull, Statuses DEF Echo, InScript, GoTo, Event, Idle, Park, At, ctxVars,
         answerVars, globalVars, workerVars, boundVars, historyVars, IInv, TypeOK,
         WorkerInv, ReqInv, RunningInv, TimerInv
<1>2. PhasesInv(r) /\ WorkerInv /\ TimerInv(r) /\ RunningInv(r) /\ phase[r] \in Phase
  BY DEF IInv, ReqInv, TypeOK
<1>3. OrderInv(r)'
  BY <1>1, <1>2, NotNull, UthreadAssumption DEF PhasesInv, WorkerInv, TimerInv, RunningInv, OrderInv, Scripted,
     Before, After, Phase, Sleeping
<1>4. StatusInv(r)'
  BY <1>1, <1>2, NotNull DEF PhasesInv, WorkerInv, TimerInv, RunningInv, OrderInv, StatusInv,
     Scripted, Sleeping
<1>5. ASSUME FilesComeFirst PROVE ClosureInv(r)'
  BY <1>1, <1>2, <1>5, NotNull, UthreadAssumption DEF PhasesInv, WorkerInv, TimerInv, RunningInv, ClosureInv,
     OrderInv, Before, After, Phase, FilesComeFirst, Sleeping
<1>6. ASSUME NEW s \in Req, s # r PROVE PhasesInv(s)'
  <2>1. running # s /\ running' # s /\ PhasesInv(s)
    BY <1>1, <1>6, NotNull
  <2>2. OrderSame(s)
    BY <1>6, NotNull, Statuses DEF Echo, InScript, GoTo, Event, Idle, Park, At,
         ctxVars, answerVars, globalVars, workerVars, boundVars, historyVars, IInv,
         TypeOK, OrderSame, Same, ReqInv, RunningInv
  <2> QED BY <2>1, <2>2, OthersKeepPhases
<1>7. FilesComeFirst' <=> FilesComeFirst
  BY DEF FilesComeFirst
<1> QED BY <1>3, <1>4, <1>5, <1>6, <1>7 DEF PhasesInv

LEMMA SetStatusPhases ==
  ASSUME NEW r \in Req, NEW status \in Status, IInv, TypeOK', \A s \in Req : PhasesInv(s), SetStatus(r, status)
  PROVE  \A s \in Req : PhasesInv(s)'
<1>1. /\ running = r /\ at \in {"script", "next"} /\ life'[r] = life[r]
      /\ phase'[r] = phase[r] /\ hasCtx'[r] = hasCtx[r]
      /\ phase_status'[r] = phase_status[r] /\ gen'[r] = gen[r]
      /\ timer'[r] = timer[r] /\ redirects'[r] = redirects[r]
      /\ yields'[r] = yields[r] /\ own'[r] = status /\ ran'[r] = ran[r]
      /\ running' = running /\ at' = at /\ rc' = rc /\ exit_status' = status
  BY NotNull, Statuses DEF SetStatus, InScript, GoTo, Event, Idle, Park, At, ctxVars,
         answerVars, globalVars, workerVars, boundVars, historyVars, IInv, TypeOK,
         WorkerInv, ReqInv, RunningInv, TimerInv
<1>2. PhasesInv(r) /\ WorkerInv /\ TimerInv(r) /\ RunningInv(r) /\ phase[r] \in Phase
  BY DEF IInv, ReqInv, TypeOK
<1>3. OrderInv(r)'
  BY <1>1, <1>2, NotNull, UthreadAssumption DEF PhasesInv, WorkerInv, TimerInv, RunningInv, OrderInv, Scripted,
     Before, After, Phase, Sleeping
<1>4. StatusInv(r)'
  BY <1>1, <1>2, NotNull DEF PhasesInv, WorkerInv, TimerInv, RunningInv, OrderInv, StatusInv,
     Scripted, Sleeping
<1>5. ASSUME FilesComeFirst PROVE ClosureInv(r)'
  BY <1>1, <1>2, <1>5, NotNull, UthreadAssumption DEF PhasesInv, WorkerInv, TimerInv, RunningInv, ClosureInv,
     OrderInv, Before, After, Phase, FilesComeFirst, Sleeping
<1>6. ASSUME NEW s \in Req, s # r PROVE PhasesInv(s)'
  <2>1. running # s /\ running' # s /\ PhasesInv(s)
    BY <1>1, <1>6, NotNull
  <2>2. OrderSame(s)
    BY <1>6, NotNull, Statuses DEF SetStatus, InScript, GoTo, Event, Idle, Park, At,
         ctxVars, answerVars, globalVars, workerVars, boundVars, historyVars, IInv,
         TypeOK, OrderSame, Same, ReqInv, RunningInv
  <2> QED BY <2>1, <2>2, OthersKeepPhases
<1>7. FilesComeFirst' <=> FilesComeFirst
  BY DEF FilesComeFirst
<1> QED BY <1>3, <1>4, <1>5, <1>6, <1>7 DEF PhasesInv

LEMMA YieldPhases ==
  ASSUME NEW r \in Req, IInv, TypeOK', \A s \in Req : PhasesInv(s), Yield(r)
  PROVE  \A s \in Req : PhasesInv(s)'
<1>0. ngx_php_request = r
  BY DEF Yield, InScript, IInv, ReqInv, RunningInv, TimerInv, Sleeping
<1>1. /\ running = r /\ at \in {"script", "next"} /\ yields[r] \in Nat
      /\ life'[r] = life[r] /\ phase'[r] = phase[r] /\ hasCtx'[r] = hasCtx[r]
      /\ phase_status'[r] = "AGAIN" /\ gen'[r] = gen[r] /\ timer'[r] = TRUE
      /\ redirects'[r] = redirects[r] /\ yields'[r] = yields[r] + 1
      /\ own'[r] = own[r] /\ ran'[r] = ran[r] /\ exit_status' = exit_status
  BY <1>0, NotNull, Statuses DEF Yield, InScript, GoTo, Event, Idle, Park, At, ctxVars,
         answerVars, globalVars, workerVars, boundVars, historyVars, IInv, TypeOK,
         WorkerInv, ReqInv, RunningInv, TimerInv
<1>1a. \/ at = "script" /\ running' = r /\ at' = "handler" /\ rc' = rc
       \/ at = "next" /\ running' = NULL /\ at' = "idle" /\ rc' = NULL
  BY <1>0, NotNull, Statuses DEF Yield, InScript, GoTo, Event, Idle, Park, At, workerVars,
         InScript, IInv, WorkerInv
<1>2. PhasesInv(r) /\ WorkerInv /\ TimerInv(r) /\ RunningInv(r) /\ phase[r] \in Phase
  BY DEF IInv, ReqInv, TypeOK
<1>3. OrderInv(r)'
  BY <1>1, <1>1a, <1>2, NotNull, UthreadAssumption DEF PhasesInv, WorkerInv, TimerInv, RunningInv, OrderInv, Scripted,
     Before, After, Phase, Sleeping
<1>4. StatusInv(r)'
  BY <1>1, <1>1a, <1>2, NotNull DEF PhasesInv, WorkerInv, TimerInv, RunningInv, OrderInv, StatusInv,
     Scripted, Sleeping
<1>5. ASSUME FilesComeFirst PROVE ClosureInv(r)'
  BY <1>1, <1>1a, <1>2, <1>5, NotNull, UthreadAssumption DEF PhasesInv, WorkerInv, TimerInv, RunningInv, ClosureInv,
     OrderInv, Before, After, Phase, FilesComeFirst, Sleeping
<1>6. ASSUME NEW s \in Req, s # r PROVE PhasesInv(s)'
  <2>1. running # s /\ running' # s /\ PhasesInv(s)
    BY <1>1, <1>1a, <1>6, NotNull
  <2>2. OrderSame(s)
    BY <1>0, <1>6, NotNull, Statuses DEF Yield, InScript, GoTo, Event, Idle, Park, At,
         ctxVars, answerVars, globalVars, workerVars, boundVars, historyVars, IInv,
         TypeOK, OrderSame, Same, ReqInv, RunningInv
  <2> QED BY <2>1, <2>2, OthersKeepPhases
<1>7. FilesComeFirst' <=> FilesComeFirst
  BY DEF FilesComeFirst
<1> QED BY <1>3, <1>4, <1>5, <1>6, <1>7 DEF PhasesInv

LEMMA ScriptEndsPhases ==
  ASSUME NEW r \in Req, IInv, TypeOK', \A s \in Req : PhasesInv(s), ScriptEnds(r)
  PROVE  \A s \in Req : PhasesInv(s)'
<1>1. /\ running = r /\ at = "script" /\ phase_status[r] = "OK"
      /\ life'[r] = life[r] /\ phase'[r] = phase[r] /\ hasCtx'[r] = hasCtx[r]
      /\ phase_status'[r] = phase_status[r] /\ timer'[r] = timer[r]
      /\ redirects'[r] = redirects[r] /\ yields'[r] = yields[r]
      /\ own'[r] = own[r] /\ ran'[r] = ran[r] /\ running' = running
      /\ at' = "handler" /\ rc' = rc /\ exit_status' = exit_status
      /\ gen'[r] \in {gen[r], NULL}
  BY NotNull, Statuses DEF ScriptEnds, GoTo, Event, Idle, Park, At, ctxVars,
         answerVars, globalVars, workerVars, boundVars, historyVars, IInv, TypeOK,
         WorkerInv, ReqInv, RunningInv, TimerInv
<1>2. PhasesInv(r) /\ WorkerInv /\ TimerInv(r) /\ RunningInv(r) /\ phase[r] \in Phase
  BY DEF IInv, ReqInv, TypeOK
<1>3. OrderInv(r)'
  BY <1>1, <1>2, NotNull, UthreadAssumption DEF PhasesInv, WorkerInv, TimerInv, RunningInv, OrderInv, Scripted,
     Before, After, Phase, Sleeping
<1>4. StatusInv(r)'
  BY <1>1, <1>2, NotNull DEF PhasesInv, WorkerInv, TimerInv, RunningInv, OrderInv, StatusInv,
     Scripted, Sleeping
<1>5. ASSUME FilesComeFirst PROVE ClosureInv(r)'
  BY <1>1, <1>2, <1>5, NotNull, UthreadAssumption DEF PhasesInv, WorkerInv, TimerInv, RunningInv, ClosureInv,
     OrderInv, Before, After, Phase, FilesComeFirst, Sleeping
<1>6. ASSUME NEW s \in Req, s # r PROVE PhasesInv(s)'
  <2>1. running # s /\ running' # s /\ PhasesInv(s)
    BY <1>1, <1>6, NotNull
  <2>2. OrderSame(s)
    BY <1>6, NotNull, Statuses DEF ScriptEnds, GoTo, Event, Idle, Park, At, ctxVars,
         answerVars, globalVars, workerVars, boundVars, historyVars, IInv, TypeOK,
         OrderSame, Same, ReqInv, RunningInv
  <2> QED BY <2>1, <2>2, OthersKeepPhases
<1>7. FilesComeFirst' <=> FilesComeFirst
  BY DEF FilesComeFirst
<1> QED BY <1>3, <1>4, <1>5, <1>6, <1>7 DEF PhasesInv

LEMMA GeneratorEndsPhases ==
  ASSUME NEW r \in Req, IInv, TypeOK', \A s \in Req : PhasesInv(s), GeneratorEnds(r)
  PROVE  \A s \in Req : PhasesInv(s)'
<1>1. /\ running = r /\ at = "next" /\ phase_status[r] = "AGAIN"
      /\ life'[r] = life[r] /\ phase'[r] = phase[r] /\ hasCtx'[r] = hasCtx[r]
      /\ phase_status'[r] = "OK" /\ gen'[r] = NULL /\ timer'[r] = timer[r]
      /\ redirects'[r] = redirects[r] /\ yields'[r] = yields[r]
      /\ own'[r] = own[r] /\ ran'[r] = ran[r] /\ running' = running
      /\ at' = "phases" /\ rc' = rc /\ exit_status' = exit_status
  BY NotNull, Statuses DEF GeneratorEnds, GoTo, Event, Idle, Park, At, ctxVars,
         answerVars, globalVars, workerVars, boundVars, historyVars, IInv, TypeOK,
         WorkerInv, ReqInv, RunningInv, TimerInv
<1>2. PhasesInv(r) /\ WorkerInv /\ TimerInv(r) /\ RunningInv(r) /\ phase[r] \in Phase
  BY DEF IInv, ReqInv, TypeOK
<1>3. OrderInv(r)'
  BY <1>1, <1>2, NotNull, UthreadAssumption DEF PhasesInv, WorkerInv, TimerInv, RunningInv, OrderInv, Scripted,
     Before, After, Phase, Sleeping
<1>4. StatusInv(r)'
  BY <1>1, <1>2, NotNull DEF PhasesInv, WorkerInv, TimerInv, RunningInv, OrderInv, StatusInv,
     Scripted, Sleeping
<1>5. ASSUME FilesComeFirst PROVE ClosureInv(r)'
  BY <1>1, <1>2, <1>5, NotNull, UthreadAssumption DEF PhasesInv, WorkerInv, TimerInv, RunningInv, ClosureInv,
     OrderInv, Before, After, Phase, FilesComeFirst, Sleeping
<1>6. ASSUME NEW s \in Req, s # r PROVE PhasesInv(s)'
  <2>1. running # s /\ running' # s /\ PhasesInv(s)
    BY <1>1, <1>6, NotNull
  <2>2. OrderSame(s)
    BY <1>6, NotNull, Statuses DEF GeneratorEnds, GoTo, Event, Idle, Park, At, ctxVars,
         answerVars, globalVars, workerVars, boundVars, historyVars, IInv, TypeOK,
         OrderSame, Same, ReqInv, RunningInv
  <2> QED BY <2>1, <2>2, OthersKeepPhases
<1>7. FilesComeFirst' <=> FilesComeFirst
  BY DEF FilesComeFirst
<1> QED BY <1>3, <1>4, <1>5, <1>6, <1>7 DEF PhasesInv

LEMMA BailoutPhases ==
  ASSUME NEW r \in Req, NEW status \in Status, IInv, TypeOK', \A s \in Req : PhasesInv(s), Bailout(r, status)
  PROVE  \A s \in Req : PhasesInv(s)'
<1>1. /\ running = r /\ at \in {"script", "next"} /\ life'[r] = life[r]
      /\ phase'[r] = phase[r] /\ hasCtx'[r] = hasCtx[r]
      /\ phase_status'[r] = phase_status[r]
      /\ gen'[r] = (IF Kind[r][phase[r]] = "inline" THEN NULL ELSE gen[r])
      /\ timer'[r] = timer[r] /\ redirects'[r] = redirects[r]
      /\ yields'[r] = yields[r] /\ own'[r] = status /\ ran'[r] = ran[r]
      /\ exit_status' = status
  BY NotNull, Statuses DEF Bailout, InScript, GoTo, Event, Idle, Park, At, ctxVars,
         answerVars, globalVars, workerVars, boundVars, historyVars, IInv, TypeOK,
         WorkerInv, ReqInv, RunningInv, TimerInv
<1>1a. \/ at = "script" /\ running' = r /\ at' = "handler" /\ rc' = rc
       \/ at = "next" /\ running' = NULL /\ at' = "idle" /\ rc' = NULL
  BY NotNull, Statuses DEF Bailout, InScript, GoTo, Event, Idle, Park, At,
         workerVars, InScript, IInv, WorkerInv
<1>2. PhasesInv(r) /\ WorkerInv /\ TimerInv(r) /\ RunningInv(r) /\ phase[r] \in Phase
  BY DEF IInv, ReqInv, TypeOK
<1>3. OrderInv(r)'
  BY <1>1, <1>1a, <1>2, NotNull, UthreadAssumption DEF PhasesInv, WorkerInv, TimerInv, RunningInv, OrderInv, Scripted,
     Before, After, Phase, Sleeping
<1>4. StatusInv(r)'
  BY <1>1, <1>1a, <1>2, NotNull DEF PhasesInv, WorkerInv, TimerInv, RunningInv, OrderInv, StatusInv,
     Scripted, Sleeping
<1>5. ASSUME FilesComeFirst PROVE ClosureInv(r)'
  BY <1>1, <1>1a, <1>2, <1>5, NotNull, UthreadAssumption DEF PhasesInv, WorkerInv, TimerInv, RunningInv, ClosureInv,
     OrderInv, Before, After, Phase, FilesComeFirst, Sleeping
<1>6. ASSUME NEW s \in Req, s # r PROVE PhasesInv(s)'
  <2>1. running # s /\ running' # s /\ PhasesInv(s)
    BY <1>1, <1>1a, <1>6, NotNull
  <2>2. OrderSame(s)
    BY <1>6, NotNull, Statuses DEF Bailout, InScript, GoTo, Event, Idle, Park, At,
         ctxVars, answerVars, globalVars, workerVars, boundVars, historyVars, IInv,
         TypeOK, OrderSame, Same, ReqInv, RunningInv
  <2> QED BY <2>1, <2>2, OthersKeepPhases
<1>7. FilesComeFirst' <=> FilesComeFirst
  BY DEF FilesComeFirst
<1> QED BY <1>3, <1>4, <1>5, <1>6, <1>7 DEF PhasesInv

LEMMA SleepHandlerPhases ==
  ASSUME NEW r \in Req, IInv, TypeOK', \A s \in Req : PhasesInv(s), SleepHandler(r)
  PROVE  \A s \in Req : PhasesInv(s)'
<1>0. hasCtx[r] /\ gen[r] = "live" /\ Kind[r][phase[r]] = "inline"
  BY DEF SleepHandler, IInv, ReqInv, RunningInv, TimerInv, Sleeping
<1>1. /\ running = NULL /\ timer[r] /\ life'[r] = life[r] /\ phase'[r] = phase[r]
      /\ hasCtx'[r] = hasCtx[r] /\ phase_status'[r] = phase_status[r]
      /\ gen'[r] = gen[r] /\ timer'[r] = FALSE /\ redirects'[r] = redirects[r]
      /\ yields'[r] = yields[r] /\ own'[r] = own[r] /\ ran'[r] = ran[r]
      /\ exit_status' = exit_status
  BY <1>0, NotNull, Statuses DEF SleepHandler, GoTo, Event, Idle, Park, At, ctxVars,
         answerVars, globalVars, workerVars, boundVars, historyVars, IInv, TypeOK,
         WorkerInv, ReqInv, RunningInv, TimerInv
<1>1a. \/ running' = r /\ at' = "next" /\ rc' = NULL
       \/ running' = NULL /\ at' = at /\ rc' = rc
  BY <1>0, NotNull, Statuses DEF SleepHandler, GoTo, Event, Idle, Park, At, workerVars,
         InScript, IInv, WorkerInv
<1>2. PhasesInv(r) /\ WorkerInv /\ TimerInv(r) /\ RunningInv(r) /\ phase[r] \in Phase
  BY DEF IInv, ReqInv, TypeOK
<1>3. OrderInv(r)'
  BY <1>1, <1>1a, <1>2, NotNull, UthreadAssumption DEF PhasesInv, WorkerInv, TimerInv, RunningInv, OrderInv, Scripted,
     Before, After, Phase, Sleeping
<1>4. StatusInv(r)'
  BY <1>1, <1>1a, <1>2, NotNull DEF PhasesInv, WorkerInv, TimerInv, RunningInv, OrderInv, StatusInv,
     Scripted, Sleeping
<1>5. ASSUME FilesComeFirst PROVE ClosureInv(r)'
  BY <1>1, <1>1a, <1>2, <1>5, NotNull, UthreadAssumption DEF PhasesInv, WorkerInv, TimerInv, RunningInv, ClosureInv,
     OrderInv, Before, After, Phase, FilesComeFirst, Sleeping
<1>6. ASSUME NEW s \in Req, s # r PROVE PhasesInv(s)'
  <2>1. running # s /\ running' # s /\ PhasesInv(s)
    BY <1>1, <1>1a, <1>6, NotNull
  <2>2. OrderSame(s)
    BY <1>0, <1>6, NotNull, Statuses DEF SleepHandler, GoTo, Event, Idle, Park, At,
         ctxVars, answerVars, globalVars, workerVars, boundVars, historyVars, IInv,
         TypeOK, OrderSame, Same, ReqInv, RunningInv
  <2> QED BY <2>1, <2>2, OthersKeepPhases
<1>7. FilesComeFirst' <=> FilesComeFirst
  BY DEF FilesComeFirst
<1> QED BY <1>3, <1>4, <1>5, <1>6, <1>7 DEF PhasesInv

LEMMA RunPostedPhases ==
  ASSUME NEW r \in Req, IInv, TypeOK', \A s \in Req : PhasesInv(s), RunPosted(r)
  PROVE  \A s \in Req : PhasesInv(s)'
<1>1. /\ running = NULL /\ life'[r] = "freed" /\ phase'[r] = phase[r]
      /\ hasCtx'[r] = hasCtx[r] /\ phase_status'[r] = phase_status[r]
      /\ gen'[r] = gen[r] /\ timer'[r] = timer[r] /\ redirects'[r] = redirects[r]
      /\ yields'[r] = yields[r] /\ own'[r] = own[r] /\ ran'[r] = ran[r]
      /\ running' = running /\ at' = at /\ rc' = rc /\ exit_status' = exit_status
  BY NotNull, Statuses DEF RunPosted, GoTo, Event, Idle, Park, At, ctxVars,
         answerVars, globalVars, workerVars, boundVars, historyVars, IInv, TypeOK,
         WorkerInv, ReqInv, RunningInv, TimerInv
<1>2. PhasesInv(r) /\ WorkerInv /\ TimerInv(r) /\ RunningInv(r) /\ phase[r] \in Phase
  BY DEF IInv, ReqInv, TypeOK
<1>3. OrderInv(r)'
  BY <1>1, <1>2, NotNull, UthreadAssumption DEF PhasesInv, WorkerInv, TimerInv, RunningInv, OrderInv, Scripted,
     Before, After, Phase, Sleeping
<1>4. StatusInv(r)'
  BY <1>1, <1>2, NotNull DEF PhasesInv, WorkerInv, TimerInv, RunningInv, OrderInv, StatusInv,
     Scripted, Sleeping
<1>5. ASSUME FilesComeFirst PROVE ClosureInv(r)'
  BY <1>1, <1>2, <1>5, NotNull, UthreadAssumption DEF PhasesInv, WorkerInv, TimerInv, RunningInv, ClosureInv,
     OrderInv, Before, After, Phase, FilesComeFirst, Sleeping
<1>6. ASSUME NEW s \in Req, s # r PROVE PhasesInv(s)'
  <2>1. running # s /\ running' # s /\ PhasesInv(s)
    BY <1>1, <1>6, NotNull
  <2>2. OrderSame(s)
    BY <1>6, NotNull, Statuses DEF RunPosted, GoTo, Event, Idle, Park, At, ctxVars,
         answerVars, globalVars, workerVars, boundVars, historyVars, IInv, TypeOK,
         OrderSame, Same, ReqInv, RunningInv
  <2> QED BY <2>1, <2>2, OthersKeepPhases
<1>7. FilesComeFirst' <=> FilesComeFirst
  BY DEF FilesComeFirst
<1> QED BY <1>3, <1>4, <1>5, <1>6, <1>7 DEF PhasesInv

LEMMA ShutdownTimeoutPhases ==
  ASSUME NEW r \in Req, IInv, TypeOK', \A s \in Req : PhasesInv(s), ShutdownTimeout(r)
  PROVE  \A s \in Req : PhasesInv(s)'
<1>1. /\ running = NULL /\ life'[r] = "freed" /\ phase'[r] = phase[r]
      /\ hasCtx'[r] = hasCtx[r] /\ phase_status'[r] = phase_status[r]
      /\ gen'[r] = gen[r] /\ redirects'[r] = redirects[r]
      /\ yields'[r] = yields[r] /\ own'[r] = own[r] /\ ran'[r] = ran[r]
      /\ running' = running /\ at' = at /\ rc' = rc /\ exit_status' = exit_status
      /\ (timer'[r] => timer[r])
  BY NotNull, Statuses DEF ShutdownTimeout, SleepCleanup, GoTo, Event, Idle, Park,
         At, ctxVars, answerVars, globalVars, workerVars, boundVars, historyVars, IInv,
         TypeOK, WorkerInv, ReqInv, RunningInv, TimerInv
<1>2. PhasesInv(r) /\ WorkerInv /\ TimerInv(r) /\ RunningInv(r) /\ phase[r] \in Phase
  BY DEF IInv, ReqInv, TypeOK
<1>3. OrderInv(r)'
  BY <1>1, <1>2, NotNull, UthreadAssumption DEF PhasesInv, WorkerInv, TimerInv, RunningInv, OrderInv, Scripted,
     Before, After, Phase, Sleeping
<1>4. StatusInv(r)'
  BY <1>1, <1>2, NotNull DEF PhasesInv, WorkerInv, TimerInv, RunningInv, OrderInv, StatusInv,
     Scripted, Sleeping
<1>5. ASSUME FilesComeFirst PROVE ClosureInv(r)'
  BY <1>1, <1>2, <1>5, NotNull, UthreadAssumption DEF PhasesInv, WorkerInv, TimerInv, RunningInv, ClosureInv,
     OrderInv, Before, After, Phase, FilesComeFirst, Sleeping
<1>6. ASSUME NEW s \in Req, s # r PROVE PhasesInv(s)'
  <2>1. running # s /\ running' # s /\ PhasesInv(s)
    BY <1>1, <1>6, NotNull
  <2>2. OrderSame(s)
    BY <1>6, NotNull, Statuses DEF ShutdownTimeout, SleepCleanup, GoTo, Event, Idle,
         Park, At, ctxVars, answerVars, globalVars, workerVars, boundVars, historyVars,
         IInv, TypeOK, OrderSame, Same, ReqInv, RunningInv
  <2> QED BY <2>1, <2>2, OthersKeepPhases
<1>7. FilesComeFirst' <=> FilesComeFirst
  BY DEF FilesComeFirst
<1> QED BY <1>3, <1>4, <1>5, <1>6, <1>7 DEF PhasesInv

LEMMA StepPhases ==
  ASSUME NEW r \in Req, IInv, TypeOK', \A s \in Req : PhasesInv(s), Step(r)
  PROVE  \A s \in Req : PhasesInv(s)'
<1>1. CASE Script(r)
  <2>1. ASSUME NEW status \in ScriptStatus \cap HttpStatus, SetStatus(r, status)
        PROVE  \A s \in Req : PhasesInv(s)'
    BY <2>1, SetStatusPhases DEF Status
  <2>2. ASSUME NEW status \in ScriptStatus, Bailout(r, status)
        PROVE  \A s \in Req : PhasesInv(s)'
    BY <2>2, UthreadAssumption, BailoutPhases DEF Status
  <2>3. CASE FatalError(r)
    BY <2>3, BailoutPhases DEF FatalError, Status
  <2> QED
    BY <1>1, <2>1, <2>2, <2>3, EchoPhases, YieldPhases, ScriptEndsPhases,
       GeneratorEndsPhases DEF Script, Exit
<1>2. CASE Handler(r)
  BY <1>2, EnterHandlerPhases, StartScriptPhases, HandlerAgainPhases,
     SetOutputStatusPhases, SetOutputNothingPhases, SetOutputSendPhases,
     SetOutputHeadPhases DEF Handler
<1>3. CASE Checker(r)
  BY <1>3, SkipPhasePhases, StaticContentPhases, InternalRedirectPhases,
     PhaseDonePhases, AccessWaitsPhases, FinalizeQuietlyPhases,
     FinalizeWithStatusPhases, FinalizeWithErrorPhases DEF Checker
<1> QED BY <1>1, <1>2, <1>3 DEF Step

FullInv == IInv /\ \A r \in Req : PhasesInv(r)

LEMMA InitPhases == Init => FullInv
<1> SUFFICES ASSUME Init, NEW r \in Req PROVE PhasesInv(r)
  BY InitEstablishes DEF FullInv
<1> QED BY NotNull DEF Init, PhasesInv, OrderInv, StatusInv, ClosureInv, Scripted, Before

LEMMA NextPhases ==
  ASSUME FullInv, [Next]_vars
  PROVE  FullInv'
<1>1. IInv' /\ TypeOK'
  BY NextKeeps DEF FullInv, IInv
<1>2. CASE UNCHANGED vars
  <2> SUFFICES ASSUME NEW s \in Req PROVE PhasesInv(s)'
    BY <1>1 DEF FullInv
  <2>1. PhasesInv(s)
    BY DEF FullInv
  <2>2. /\ OrderSame(s)
        /\ running' = running /\ at' = at /\ rc' = rc /\ exit_status' = exit_status
    BY <1>2 DEF vars, ctxVars, answerVars, globalVars, workerVars, boundVars, historyVars,
       OrderSame, Same
  <2> QED
    BY <2>1, <2>2 DEF OrderSame, Same, PhasesInv, OrderInv, StatusInv, ClosureInv, Scripted,
       Before, FilesComeFirst
<1>3. ASSUME NEW r \in Req, PostRead(r) \/ Step(r) \/ SleepHandler(r)
                             \/ RunPosted(r) \/ ShutdownTimeout(r)
      PROVE  \A s \in Req : PhasesInv(s)'
  BY <1>1, <1>3, PostReadPhases, StepPhases, SleepHandlerPhases, RunPostedPhases,
     ShutdownTimeoutPhases DEF FullInv
<1> QED BY <1>1, <1>2, <1>3 DEF Next, Wait, FullInv

LEMMA PhasesInvariance == Spec => []FullInv
<1>1. Spec => Init /\ [][Next]_vars
  BY DEF Spec
<1> QED BY <1>1, InitPhases, NextPhases, PTL

(***************************************************************************)
(* No phase is skipped and no script starts twice, in any order of timers. *)
(***************************************************************************)
THEOREM PhasesInOrder == Spec => []InOrder
<1>1. FullInv => InOrder
  <2> SUFFICES ASSUME FullInv, NEW r \in Req
               PROVE  /\ redirects[r] = 0 => Scripted(r, Before(phase[r])) \subseteq ran[r]
                      /\ ran[r] \subseteq Before(phase[r]) \cup {phase[r]}
                      /\ (At(r, "handler") /\ phase_status[r] = "DECLINED")
                           => phase[r] \notin ran[r]
    BY DEF InOrder
  <2> QED BY DEF FullInv, IInv, ReqInv, RunningInv, PhasesInv, OrderInv, Scripted, At
<1> QED BY <1>1, PhasesInvariance, PTL

(***************************************************************************)
(* A script that was never suspended ends its phase with its own status.   *)
(***************************************************************************)
THEOREM StatusIsOwn == Spec => []OwnStatusUnlessSuspended
<1>1. FullInv => OwnStatusUnlessSuspended
  BY DEF FullInv, PhasesInv, StatusInv, OwnStatusUnlessSuspended, At
<1> QED BY <1>1, PhasesInvariance, PTL

(***************************************************************************)
(* No closure is destroyed twice, if files come before inline scripts.     *)
(***************************************************************************)
THEOREM ClosuresDestroyedOnce == FilesComeFirst => (Spec => []ClosureDestroyedOnce)
<1> SUFFICES ASSUME FilesComeFirst PROVE Spec => []ClosureDestroyedOnce
  OBVIOUS
<1>1. FullInv => ClosureDestroyedOnce
  BY DEF FullInv, IInv, PhasesInv, ClosureInv, ClosureDestroyedOnce, At
<1> QED BY <1>1, PhasesInvariance, PTL

=============================================================================
