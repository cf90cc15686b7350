--------------------------- MODULE RequestProofs ----------------------------
(***************************************************************************)
(* Proofs about Request.                                                   *)
(***************************************************************************)
EXTENDS Request, SequenceTheorems, TLAPS

Working == {"phases", "handler", "script", "next"}

\* The phases that run inside others, and what handlers return to them.
FramesInv ==
  /\ frames \in Seq({"rewrite", "content", "redirect"})
  /\ at \in {"idle", "next"} => frames = <<>>
  /\ (at = "return" /\ checker = "access") => rc # "OK"

NewInv ==
  life = "new" =>
    /\ Idle
    /\ phase = "rewrite"
    /\ ctx = NULL
    /\ request_body = NULL
    /\ answer = NULL
    /\ ran = {}
    /\ length = -1
    /\ lost = 0
    /\ count = 0
    /\ waits = 0
    /\ redirects = 0
    /\ ~Waiting
    /\ ~exited

\* What the request looks like, by how far the worker is with it.
PointInv ==
  /\ at \in Working =>
       life = "active" /\ answer = NULL /\ (Waiting => timer) /\ request_body # "reading"
  /\ at \in {"phases", "script", "next"} => ~timer
  /\ at \in {"handler", "script", "next"} => ctx # NULL /\ Kind # "none"
  /\ at \in {"script", "next"} => Kind # "stack"
  /\ at = "script" => ctx.status = "OK"
  /\ at = "handler" => (timer <=> ctx.status = "AGAIN")
  /\ (at = "phases" /\ ctx # NULL) => ctx.status # "AGAIN"
  /\ at = "return" =>
       /\ life \in {"active", "posted"}
       /\ rc = "DECLINED" =>
            /\ life = "active" /\ answer = NULL /\ ~Waiting
            /\ ctx # NULL => ctx.status = "DECLINED"
       /\ Waiting => rc \in {"AGAIN", "OK", "DONE"}
       /\ rc = "AGAIN" => Waiting /\ life = "active"
       /\ life = "posted" => rc \in {"OK", "DONE"}

\* Why a request waits, and that it waits for one thing at a time.
WaitInv ==
  /\ timer =>
       /\ life = "active" /\ answer = NULL
       /\ ctx # NULL /\ ctx.status = "AGAIN"
       /\ Kind = "inline"
       /\ request_body # "reading" /\ ~stranded /\ ~forgotten
  /\ request_body = "reading" =>
       /\ life = "active" /\ answer = NULL
       /\ ctx # NULL /\ ctx.more /\ ~ctx.done /\ ctx.status # "AGAIN"
       /\ phase \notin ran
       /\ ~stranded /\ ~forgotten
  /\ forgotten => redirects > 0 /\ req.body = "data" /\ request_body = "read"

BodyInv ==
  /\ (ctx # NULL /\ ctx.done) =>
       request_body = "read" /\ (req.body = "data" => ctx.data)
  /\ (ctx # NULL /\ ~ctx.done /\ redirects = 0) => ctx.more
  /\ (at = "phases" \/ (at = "return" /\ rc = "DECLINED")) =>
       ctx # NULL \/ redirects > 0
  /\ (ReadingHandler /\ (at \in {"script", "next"} \/ timer)) => ctx.done
  /\ (ReadingHandler /\ at \in Working /\ phase \in ran) => ctx # NULL /\ ctx.done

CountInv ==
  /\ (~Idle /\ life = "active") =>
       count = 1 + Len(frames) + waits + (IF at = "return" /\ Waiting THEN 1 ELSE 0)
  /\ (~Idle /\ life = "posted") => count >= 2 + Len(frames)
  /\ (Idle /\ life = "active") => count = waits + (IF Waiting THEN 1 ELSE 0) /\ count > 0

Upto(p) == CASE p = "rewrite" -> {"rewrite"}
             [] p = "access" -> {"rewrite", "access"}
             [] OTHER -> PhpPhase

RanInv ==
  /\ ran \subseteq Upto(phase)
  /\ (at \in {"phases", "handler"} /\ phase \in ran) =>
       ctx # NULL /\ ctx.status # "DECLINED" /\ Kind # "stack"

Output == IF ctx = NULL THEN 0 ELSE ctx.output

LengthInv ==
  /\ answer = NULL =>
       /\ lost >= 0
       /\ IF length = -1 THEN Output = 0 /\ lost = 0 ELSE length = Output + lost
  /\ LengthTrue

ExitInv ==
  exited =>
    /\ at \in {"idle", "handler", "return"}
    /\ ~timer /\ request_body # "reading"
    /\ at = "return" => rc # "DECLINED"
    /\ at = "handler" =>
         /\ ~MustRead
         /\ Kind # "stack"
         /\ ctx.status = "OK"
         /\ exit_status # "DECLINED"
         /\ exit_status \notin Emits \/ phase = "content" \/ ctx.output > 0

IInv ==
  /\ TypeOK
  /\ FramesInv
  /\ NewInv
  /\ PointInv
  /\ WaitInv
  /\ BodyInv
  /\ CountInv
  /\ RanInv
  /\ LengthInv
  /\ ExitInv

-----------------------------------------------------------------------------

\* The length of a sequence without its last element.
LEMMA FrontLength ==
  ASSUME NEW S, NEW s \in Seq(S), s # <<>>
  PROVE  Len(SubSeq(s, 1, Len(s) - 1)) = Len(s) - 1
<1>1. Len(s) \in Nat \ {0} /\ \A i \in 1 .. Len(s) : s[i] \in S
  BY EmptySeq
<1>2. PICK n \in Nat : n = Len(s) - 1
  BY <1>1
<1>3. \A i \in 1 .. n : s[i] \in S
  BY <1>1, <1>2
<1>4. Len(SubSeq(s, 1, n)) = IF 1 <= n THEN n - 1 + 1 ELSE 0
  BY <1>3, SubSeqProperties
<1> QED
  BY <1>2, <1>4

\* A run of the phases ends, and the one around it goes on.
LEMMA EndRunEffect ==
  ASSUME TypeOK, FramesInv, EndRun
  PROVE  /\ frames' \in Seq({"rewrite", "content", "redirect"})
         /\ frames' \in Seq(PhpPhase \cup {"redirect"})
         /\ frames = <<>> => at' = "idle" /\ rc' = NULL /\ frames' = <<>> /\ checker' = checker
         /\ frames # <<>> =>
              /\ at' = "return"
              /\ Len(frames') = Len(frames) - 1
              /\ \/ rc' = "DONE" /\ checker' = "content"
                 \/ rc' = "OK" /\ checker' \in {"rewrite", "content"}
<1>1. CASE frames = <<>>
  BY <1>1 DEF EndRun, FramesInv, TypeOK
<1>2. CASE frames # <<>>
  <2> DEFINE S == {"rewrite", "content", "redirect"}
  <2>1. frames \in Seq(S) /\ Len(frames) \in Nat /\ Len(frames) > 0
    BY <1>2, EmptySeq DEF FramesInv
  <2>2. frames[Len(frames)] \in S
    BY <2>1
  <2>3. frames' = SubSeq(frames, 1, Len(frames) - 1)
    BY <1>2 DEF EndRun
  <2>4. /\ Len(frames) - 1 \in Int
        /\ \A i \in 1 .. (Len(frames) - 1) :
             frames[i] \in S /\ frames[i] \in PhpPhase \cup {"redirect"}
    BY <2>1 DEF PhpPhase
  <2>5. frames' \in Seq(S)
    BY <2>3, <2>4, SubSeqProperties
  <2>7. Len(frames') = Len(frames) - 1
    BY <1>2, <2>1, <2>3, FrontLength
  <2>6. frames' \in Seq(PhpPhase \cup {"redirect"})
    BY <2>3, <2>4, SubSeqProperties
  <2> QED
    BY <1>2, <2>2, <2>3, <2>5, <2>6, <2>7 DEF EndRun
<1> QED
  BY <1>1, <1>2


LEMMA NullIsNothing == NULL \notin Ctx /\ NULL \notin {"reading", "read"}
  BY RequestAssumption DEF RequestAssumption, Ctx

\* What sending the output of a ctx c does to the answer and the length.
SendEffect(c) ==
  /\ ctx' \in Ctx \cup {NULL}
  /\ answer' \in Answer /\ answer' # NULL
  /\ length' \in Nat \cup {-1} /\ lost' \in Int
  /\ at' = "return" /\ checker' = phase /\ rc' \in {"OK", "HTTP_OK", "ERROR"}
  /\ rc' = "OK" => phase # "access"
  /\ ctx' # NULL =>
       /\ ctx'.done = c.done /\ ctx'.data = c.data /\ ctx'.more = c.more
       /\ ctx'.status = c.status
  /\ req.method # "HEAD" => answer'.announced = answer'.sent + lost'

LEMMA SendOutputEffect ==
  ASSUME NEW c \in Ctx, TypeOK, answer = NULL, SendOutput(c), c.output = Output,
         lost >= 0,
         IF length = -1 THEN Output = 0 /\ lost = 0 ELSE length = Output + lost
  PROVE  SendEffect(c)
<1>1. c.output \in Nat /\ Filler(c) \in Nat /\ (c.output = 0 => Filler(c) > 0)
  BY DEF Ctx, Filler
<1>2. \A n \in Nat : [c EXCEPT !.output = n] \in Ctx
  BY DEF Ctx
<1>3. CASE \E head \in FilterOutput : SendHead(c, head)
  <2>1. PICK head \in Nat : SendHead(c, head)
    BY <1>3 DEF FilterOutput
  <2>2. Lengthen(Filler(c) + head) \in Nat
    BY <1>1, <2>1 DEF Lengthen, TypeOK, Output
  <2>3. answer' \in Answer /\ answer' # NULL
    BY <2>1, <2>2, RequestAssumption DEF SendHead, Answer, RequestAssumption
  <2>4. c.output + (Filler(c) + head) \in Nat
    BY <1>1
  <2>5. /\ ctx' \in Ctx
        /\ ctx'.done = c.done /\ ctx'.data = c.data /\ ctx'.more = c.more
        /\ ctx'.status = c.status
    BY <2>1, <2>4 DEF SendHead, Ctx
  <2>6. lost' = lost /\ length' \in Nat /\ at' = "return" /\ checker' = phase /\ rc' = "ERROR"
        /\ req.method = "HEAD"
    BY <2>1, <2>2 DEF SendHead, Return
  <2> QED
    BY <2>3, <2>5, <2>6 DEF SendEffect, TypeOK
<1>4. CASE \E head \in FilterOutput, tail \in FilterOutput : SendAll(c, head, tail)
  <2>1. PICK head \in Nat, tail \in Nat : SendAll(c, head, tail)
    BY <1>4 DEF FilterOutput
  <2>2. /\ Lengthen(Filler(c) + head) \in Nat
        /\ Lengthen(Filler(c) + head) = c.output + (Filler(c) + head) + lost
    BY <1>1, <2>1 DEF Lengthen, TypeOK, Output
  <2>3. /\ answer' = [by |-> "script", announced |-> Lengthen(Filler(c) + head),
                      sent |-> c.output + (Filler(c) + head) + tail]
        /\ length' = Lengthen(Filler(c) + head) + tail
        /\ lost' = lost - tail /\ ctx' = NULL
        /\ at' = "return" /\ checker' = phase
        /\ rc' = IF phase = "access" THEN "HTTP_OK" ELSE "OK"
    BY <2>1 DEF SendAll, Return
  <2>4. lost \in Int /\ c.output + (Filler(c) + head) + tail \in Int
    BY <1>1 DEF TypeOK
  <2>5. answer' \in Answer /\ answer' # NULL
    BY <2>2, <2>3, <2>4, RequestAssumption DEF Answer, RequestAssumption
  <2>6. answer'.announced = answer'.sent + lost'
    BY <1>1, <2>2, <2>3, <2>4
  <2> QED
    BY <2>2, <2>3, <2>4, <2>5, <2>6 DEF SendEffect
<1> QED
  BY <1>3, <1>4 DEF SendOutput, SendRefused


\* The facts that every step needs.
USE DEF Idle, GoTo, Return, PhpPhase, answerVars, workerVars, boundVars, historyVars

LEMMA PostReadKeeps ==
  ASSUME PlainAccess, IInv, PostRead
  PROVE  IInv'
<1>0. /\ ctx' \in Ctx /\ ctx'.status = "DECLINED" /\ ctx'.more /\ ctx'.output = 0
      /\ ~ctx'.done /\ ctx' # NULL
  <2>1. ctx' \in Ctx
    BY DEF PostRead, PostReadCtx, Ctx
  <2> QED
    BY <2>1, NullIsNothing DEF PostRead, PostReadCtx
<1>1. TypeOK'
  BY <1>0 DEF IInv, TypeOK, PointInv, Points, Status, PostRead
<1>2. FramesInv'
  BY <1>0 DEF IInv, TypeOK, FramesInv, PointInv, Working, PostRead
<1>3. NewInv'
  BY <1>0 DEF IInv, NewInv, PointInv, WaitInv, Waiting, Working, PostRead
<1>4. PointInv'
  BY <1>0 DEF IInv, TypeOK, PointInv, WaitInv, Waiting, Kind, Working, Ctx,
     NewInv, PostRead
<1>5. WaitInv'
  BY <1>0 DEF IInv, TypeOK, PointInv, WaitInv, BodyInv, RanInv, Waiting,
     Working, Kind, Ctx, PostRead
<1>6. BodyInv'
  BY <1>0 DEF IInv, TypeOK, PointInv, BodyInv, WaitInv, RanInv, NewInv,
     Kind, ReadingHandler, MustRead, Working, Ctx, Upto, PostRead
<1>7. CountInv'
  BY <1>0 DEF IInv, TypeOK, FramesInv, PointInv, WaitInv, CountInv, NewInv,
     Waiting, Working, PostRead
<1>8. RanInv'
  BY <1>0 DEF IInv, TypeOK, PointInv, RanInv, WaitInv, NewInv, Upto, Kind,
     Ctx, Working, PostRead
<1>9. LengthInv'
  BY <1>0 DEF IInv, TypeOK, PointInv, LengthInv, LengthTrue, Output, Ctx,
     Answer, NewInv, Working, WaitInv, PostRead
<1>10. ExitInv'
  BY <1>0 DEF IInv, TypeOK, PointInv, ExitInv, MustRead, ReadingHandler,
     Kind, Emits, WaitInv, BodyInv, Ctx, NewInv, InScript, Working, PostRead
<1> QED
  BY <1>1, <1>2, <1>3, <1>4, <1>5, <1>6, <1>7, <1>8, <1>9, <1>10 DEF IInv

LEMMA SkipPhaseKeeps ==
  ASSUME PlainAccess, IInv, SkipPhase
  PROVE  IInv'
<1>1. TypeOK'
  BY DEF IInv, TypeOK, PointInv, Points, Status, SkipPhase, NextPhase, After
<1>2. FramesInv'
  BY DEF IInv, TypeOK, FramesInv, PointInv, Working, SkipPhase, NextPhase,
     After
<1>3. NewInv'
  BY DEF IInv, NewInv, PointInv, WaitInv, Waiting, Working, SkipPhase,
     NextPhase, After
<1>4. PointInv'
  BY DEF IInv, TypeOK, PointInv, WaitInv, Waiting, Kind, Working, Ctx,
     SkipPhase, NextPhase, After
<1>5. WaitInv'
  BY DEF IInv, TypeOK, PointInv, WaitInv, BodyInv, RanInv, Waiting, Working,
     Kind, Ctx, SkipPhase, NextPhase, After
<1>6. BodyInv'
  BY DEF IInv, TypeOK, PointInv, BodyInv, WaitInv, RanInv, NewInv, Kind,
     ReadingHandler, MustRead, Working, Ctx, Upto, SkipPhase, NextPhase,
     After
<1>7. CountInv'
  BY DEF IInv, TypeOK, FramesInv, PointInv, WaitInv, CountInv, NewInv,
     Waiting, Working, SkipPhase, NextPhase, After
<1>8. RanInv'
  BY DEF IInv, TypeOK, PointInv, RanInv, WaitInv, NewInv, Upto, Kind, Ctx,
     Working, SkipPhase, NextPhase, After
<1>9. LengthInv'
  BY DEF IInv, TypeOK, PointInv, LengthInv, LengthTrue, Output, Ctx, Answer,
     NewInv, Working, WaitInv, SkipPhase, NextPhase, After
<1>10. ExitInv'
  BY DEF IInv, TypeOK, PointInv, ExitInv, MustRead, ReadingHandler, Kind,
     Emits, WaitInv, BodyInv, Ctx, NewInv, InScript, Working, SkipPhase,
     NextPhase, After
<1> QED
  BY <1>1, <1>2, <1>3, <1>4, <1>5, <1>6, <1>7, <1>8, <1>9, <1>10 DEF IInv

LEMMA StaticContentKeeps ==
  ASSUME PlainAccess, IInv, StaticContent
  PROVE  IInv'
<1>1. TypeOK'
  BY DEF IInv, TypeOK, PointInv, Points, Status, Answer, StaticContent
<1>2. FramesInv'
  BY DEF IInv, TypeOK, FramesInv, PointInv, Working, StaticContent
<1>3. NewInv'
  BY DEF IInv, NewInv, PointInv, WaitInv, Waiting, Working, StaticContent
<1>4. PointInv'
  BY DEF IInv, TypeOK, PointInv, WaitInv, Waiting, Kind, Working, Ctx,
     StaticContent
<1>5. WaitInv'
  BY DEF IInv, TypeOK, PointInv, WaitInv, BodyInv, RanInv, Waiting, Working,
     Kind, Ctx, StaticContent
<1>6. BodyInv'
  BY DEF IInv, TypeOK, PointInv, BodyInv, WaitInv, RanInv, NewInv, Kind,
     ReadingHandler, MustRead, Working, Ctx, Upto, StaticContent
<1>7. CountInv'
  BY DEF IInv, TypeOK, FramesInv, PointInv, WaitInv, CountInv, NewInv,
     Waiting, Working, StaticContent
<1>8. RanInv'
  BY DEF IInv, TypeOK, PointInv, RanInv, WaitInv, NewInv, Upto, Kind, Ctx,
     Working, StaticContent
<1>9. LengthInv'
  BY DEF IInv, TypeOK, PointInv, LengthInv, LengthTrue, Output, Ctx, Answer,
     NewInv, Working, WaitInv, StaticContent
<1>10. ExitInv'
  BY DEF IInv, TypeOK, PointInv, ExitInv, MustRead, ReadingHandler, Kind,
     Emits, WaitInv, BodyInv, Ctx, NewInv, InScript, Working, StaticContent
<1> QED
  BY <1>1, <1>2, <1>3, <1>4, <1>5, <1>6, <1>7, <1>8, <1>9, <1>10 DEF IInv

LEMMA InternalRedirectKeeps ==
  ASSUME PlainAccess, IInv, InternalRedirect
  PROVE  IInv'
<1>0. lost' \in Int /\ frames' \in Seq(PhpPhase \cup {"redirect"})
  <2>1. ctx # NULL => ctx.output \in Int
    BY DEF IInv, TypeOK, Ctx
  <2> QED
    BY <2>1, AppendProperties DEF IInv, TypeOK, InternalRedirect
<1>1. TypeOK'
  BY <1>0 DEF IInv, TypeOK, PointInv, Points, Status, InternalRedirect
<1>2. FramesInv'
  BY <1>0 DEF IInv, TypeOK, FramesInv, PointInv, Working, InternalRedirect
<1>3. NewInv'
  BY <1>0 DEF IInv, NewInv, PointInv, WaitInv, Waiting, Working,
     InternalRedirect
<1>4. PointInv'
  BY <1>0 DEF IInv, TypeOK, PointInv, WaitInv, Waiting, Kind, Working, Ctx,
     InternalRedirect
<1>5. WaitInv'
  BY <1>0 DEF IInv, TypeOK, PointInv, WaitInv, BodyInv, RanInv, Waiting,
     Working, Kind, Ctx, InternalRedirect
<1>6. BodyInv'
  BY <1>0 DEF IInv, TypeOK, PointInv, BodyInv, WaitInv, RanInv, NewInv,
     Kind, ReadingHandler, MustRead, Working, Ctx, Upto, InternalRedirect
<1>7. CountInv'
  BY <1>0 DEF IInv, TypeOK, FramesInv, PointInv, WaitInv, CountInv, NewInv,
     Waiting, Working, InternalRedirect
<1>8. RanInv'
  BY <1>0 DEF IInv, TypeOK, PointInv, RanInv, WaitInv, NewInv, Upto, Kind,
     Ctx, Working, InternalRedirect
<1>9. LengthInv'
  BY <1>0 DEF IInv, TypeOK, PointInv, LengthInv, LengthTrue, Output, Ctx,
     Answer, NewInv, Working, WaitInv, InternalRedirect
<1>10. ExitInv'
  BY <1>0 DEF IInv, TypeOK, PointInv, ExitInv, MustRead, ReadingHandler,
     Kind, Emits, WaitInv, BodyInv, Ctx, NewInv, InScript, Working,
     InternalRedirect
<1> QED
  BY <1>1, <1>2, <1>3, <1>4, <1>5, <1>6, <1>7, <1>8, <1>9, <1>10 DEF IInv

LEMMA PhaseDoneKeeps ==
  ASSUME PlainAccess, IInv, PhaseDone
  PROVE  IInv'
<1>1. TypeOK'
  BY DEF IInv, TypeOK, PointInv, Points, Status, PhaseDone, NextPhase, After
<1>2. FramesInv'
  BY DEF IInv, TypeOK, FramesInv, PointInv, Working, PhaseDone, NextPhase,
     After
<1>3. NewInv'
  BY DEF IInv, NewInv, PointInv, WaitInv, Waiting, Working, FramesInv,
     PhaseDone, NextPhase, After
<1>4. PointInv'
  BY DEF IInv, TypeOK, PointInv, WaitInv, Waiting, Kind, Working, Ctx,
     FramesInv, PhaseDone, NextPhase, After
<1>5. WaitInv'
  BY DEF IInv, TypeOK, PointInv, WaitInv, BodyInv, RanInv, Waiting, Working,
     Kind, Ctx, FramesInv, PhaseDone, NextPhase, After
<1>6. BodyInv'
  BY DEF IInv, TypeOK, PointInv, BodyInv, WaitInv, RanInv, NewInv, Kind,
     ReadingHandler, MustRead, Working, Ctx, Upto, FramesInv, PhaseDone,
     NextPhase, After
<1>7. CountInv'
  BY DEF IInv, TypeOK, FramesInv, PointInv, WaitInv, CountInv, NewInv,
     Waiting, Working, PhaseDone, NextPhase, After
<1>8. RanInv'
  BY DEF IInv, TypeOK, PointInv, RanInv, WaitInv, NewInv, Upto, Kind, Ctx,
     Working, FramesInv, PhaseDone, NextPhase, After
<1>9. LengthInv'
  BY DEF IInv, TypeOK, PointInv, LengthInv, LengthTrue, Output, Ctx, Answer,
     NewInv, Working, WaitInv, FramesInv, PhaseDone, NextPhase, After
<1>10. ExitInv'
  BY DEF IInv, TypeOK, PointInv, ExitInv, MustRead, ReadingHandler, Kind,
     Emits, WaitInv, BodyInv, Ctx, NewInv, InScript, Working, FramesInv,
     PhaseDone, NextPhase, After
<1> QED
  BY <1>1, <1>2, <1>3, <1>4, <1>5, <1>6, <1>7, <1>8, <1>9, <1>10 DEF IInv

LEMMA AccessWaitsKeeps ==
  ASSUME PlainAccess, IInv, AccessWaits
  PROVE  IInv'
<1>0. /\ frames \in Seq({"rewrite", "content", "redirect"}) /\ Len(frames) \in Nat
      /\ Len(<<>>) = 0
      /\ frames = <<>> => at' = "idle" /\ rc' = NULL /\ frames' = <<>> /\ checker' = checker
      /\ frames # <<>> =>
           /\ at' = "return"
           /\ Len(frames') = Len(frames) - 1
           /\ rc' \in {"OK", "DONE"} /\ checker' \in {"rewrite", "content"}
      /\ frames' \in Seq({"rewrite", "content", "redirect"})
      /\ frames' \in Seq(PhpPhase \cup {"redirect"})
  BY EndRunEffect, EmptySeq DEF IInv, FramesInv, AccessWaits
<1>1. TypeOK'
  BY <1>0 DEF IInv, TypeOK, PointInv, Points, Status, AccessWaits
<1>2. FramesInv'
  BY <1>0 DEF IInv, TypeOK, FramesInv, PointInv, Working, AccessWaits
<1>3. NewInv'
  BY <1>0 DEF IInv, NewInv, PointInv, WaitInv, Waiting, Working, AccessWaits
<1>4. PointInv'
  BY <1>0 DEF IInv, TypeOK, PointInv, WaitInv, Waiting, Kind, Working, Ctx,
     AccessWaits
<1>5. WaitInv'
  BY <1>0 DEF IInv, TypeOK, PointInv, WaitInv, BodyInv, RanInv, Waiting,
     Working, Kind, Ctx, AccessWaits
<1>6. BodyInv'
  BY <1>0 DEF IInv, TypeOK, PointInv, BodyInv, WaitInv, RanInv, NewInv,
     Kind, ReadingHandler, MustRead, Working, Ctx, Upto, AccessWaits
<1>7. CountInv'
  BY <1>0 DEF IInv, TypeOK, FramesInv, PointInv, WaitInv, CountInv, NewInv,
     Waiting, Working, AccessWaits
<1>8. RanInv'
  BY <1>0 DEF IInv, TypeOK, PointInv, RanInv, WaitInv, NewInv, Upto, Kind,
     Ctx, Working, AccessWaits
<1>9. LengthInv'
  BY <1>0 DEF IInv, TypeOK, PointInv, LengthInv, LengthTrue, Output, Ctx,
     Answer, NewInv, Working, WaitInv, AccessWaits
<1>10. ExitInv'
  BY <1>0 DEF IInv, TypeOK, PointInv, ExitInv, MustRead, ReadingHandler,
     Kind, Emits, WaitInv, BodyInv, Ctx, NewInv, InScript, Working,
     AccessWaits
<1> QED
  BY <1>1, <1>2, <1>3, <1>4, <1>5, <1>6, <1>7, <1>8, <1>9, <1>10 DEF IInv

LEMMA FinalizeQuietlyKeeps ==
  ASSUME PlainAccess, IInv, FinalizeQuietly
  PROVE  IInv'
<1>0. /\ frames \in Seq({"rewrite", "content", "redirect"}) /\ Len(frames) \in Nat
      /\ Len(<<>>) = 0
      /\ frames = <<>> => at' = "idle" /\ rc' = NULL /\ frames' = <<>> /\ checker' = checker
      /\ frames # <<>> =>
           /\ at' = "return"
           /\ Len(frames') = Len(frames) - 1
           /\ rc' \in {"OK", "DONE"} /\ checker' \in {"rewrite", "content"}
      /\ frames' \in Seq({"rewrite", "content", "redirect"})
      /\ frames' \in Seq(PhpPhase \cup {"redirect"})
  BY EndRunEffect, EmptySeq DEF IInv, FramesInv, FinalizeQuietly
<1>c. timer' \in BOOLEAN
  BY DEF IInv, TypeOK, FinalizeQuietly, Release, SleepCleanup
<1>1. TypeOK'
  BY <1>0, <1>c DEF IInv, TypeOK, PointInv, Points, Status, FinalizeQuietly,
     Release, SleepCleanup
<1>2. FramesInv'
  BY <1>0, <1>c DEF IInv, TypeOK, FramesInv, PointInv, Working,
     FinalizeQuietly, Release, SleepCleanup
<1>3. NewInv'
  BY <1>0, <1>c DEF IInv, NewInv, PointInv, WaitInv, Waiting, Working,
     FinalizeQuietly, Release, SleepCleanup
<1>4. PointInv'
  BY <1>0, <1>c DEF IInv, TypeOK, PointInv, WaitInv, Waiting, Kind, Working,
     Ctx, CountInv, FinalizeQuietly, Release, SleepCleanup
<1>5. WaitInv'
  BY <1>0, <1>c DEF IInv, TypeOK, PointInv, WaitInv, BodyInv, RanInv,
     Waiting, Working, Kind, Ctx, CountInv, FinalizeQuietly, Release,
     SleepCleanup
<1>6. BodyInv'
  BY <1>0, <1>c DEF IInv, TypeOK, PointInv, BodyInv, WaitInv, RanInv,
     NewInv, Kind, ReadingHandler, MustRead, Working, Ctx, Upto,
     FinalizeQuietly, Release, SleepCleanup
<1>7. CountInv'
  BY <1>0, <1>c DEF IInv, TypeOK, FramesInv, PointInv, WaitInv, CountInv,
     NewInv, Waiting, Working, FinalizeQuietly, Release, SleepCleanup
<1>8. RanInv'
  BY <1>0, <1>c DEF IInv, TypeOK, PointInv, RanInv, WaitInv, NewInv, Upto,
     Kind, Ctx, Working, FinalizeQuietly, Release, SleepCleanup
<1>9. LengthInv'
  BY <1>0, <1>c DEF IInv, TypeOK, PointInv, LengthInv, LengthTrue, Output,
     Ctx, Answer, NewInv, Working, WaitInv, FinalizeQuietly, Release,
     SleepCleanup
<1>10. ExitInv'
  BY <1>0, <1>c DEF IInv, TypeOK, PointInv, ExitInv, MustRead,
     ReadingHandler, Kind, Emits, WaitInv, BodyInv, Ctx, NewInv, InScript,
     Working, FinalizeQuietly, Release, SleepCleanup
<1> QED
  BY <1>1, <1>2, <1>3, <1>4, <1>5, <1>6, <1>7, <1>8, <1>9, <1>10 DEF IInv

LEMMA FinalizeWithStatusKeeps ==
  ASSUME PlainAccess, IInv, FinalizeWithStatus
  PROVE  IInv'
<1>0. /\ frames \in Seq({"rewrite", "content", "redirect"}) /\ Len(frames) \in Nat
      /\ Len(<<>>) = 0
      /\ frames = <<>> => at' = "idle" /\ rc' = NULL /\ frames' = <<>> /\ checker' = checker
      /\ frames # <<>> =>
           /\ at' = "return"
           /\ Len(frames') = Len(frames) - 1
           /\ rc' \in {"OK", "DONE"} /\ checker' \in {"rewrite", "content"}
      /\ frames' \in Seq({"rewrite", "content", "redirect"})
      /\ frames' \in Seq(PhpPhase \cup {"redirect"})
  BY EndRunEffect, EmptySeq DEF IInv, FramesInv, FinalizeWithStatus
<1>c. timer' \in BOOLEAN
  BY DEF IInv, TypeOK, FinalizeWithStatus, Release, SleepCleanup,
     TerminateRequest
<1>1. TypeOK'
  BY <1>0, <1>c DEF IInv, TypeOK, PointInv, Points, Status, Answer,
     FinalizeWithStatus, Release, SleepCleanup, TerminateRequest
<1>2. FramesInv'
  BY <1>0, <1>c DEF IInv, TypeOK, FramesInv, PointInv, Working,
     FinalizeWithStatus, Release, SleepCleanup, TerminateRequest
<1>3. NewInv'
  BY <1>0, <1>c DEF IInv, NewInv, PointInv, WaitInv, Waiting, Working,
     FinalizeWithStatus, Release, SleepCleanup, TerminateRequest
<1>4. PointInv'
  BY <1>0, <1>c DEF IInv, TypeOK, PointInv, WaitInv, Waiting, Kind, Working,
     Ctx, CountInv, FinalizeWithStatus, Release, SleepCleanup,
     TerminateRequest
<1>5. WaitInv'
  BY <1>0, <1>c DEF IInv, TypeOK, PointInv, WaitInv, BodyInv, RanInv,
     Waiting, Working, Kind, Ctx, CountInv, FinalizeWithStatus, Release,
     SleepCleanup, TerminateRequest
<1>6. BodyInv'
  BY <1>0, <1>c DEF IInv, TypeOK, PointInv, BodyInv, WaitInv, RanInv,
     NewInv, Kind, ReadingHandler, MustRead, Working, Ctx, Upto,
     FinalizeWithStatus, Release, SleepCleanup, TerminateRequest
<1>7. CountInv'
  BY <1>0, <1>c DEF IInv, TypeOK, FramesInv, PointInv, WaitInv, CountInv,
     NewInv, Waiting, Working, FinalizeWithStatus, Release, SleepCleanup,
     TerminateRequest
<1>8. RanInv'
  BY <1>0, <1>c DEF IInv, TypeOK, PointInv, RanInv, WaitInv, NewInv, Upto,
     Kind, Ctx, Working, FinalizeWithStatus, Release, SleepCleanup,
     TerminateRequest
<1>9. LengthInv'
  BY <1>0, <1>c DEF IInv, TypeOK, PointInv, LengthInv, LengthTrue, Output,
     Ctx, Answer, NewInv, Working, WaitInv, FinalizeWithStatus, Release,
     SleepCleanup, TerminateRequest
<1>10. ExitInv'
  BY <1>0, <1>c DEF IInv, TypeOK, PointInv, ExitInv, MustRead,
     ReadingHandler, Kind, Emits, WaitInv, BodyInv, Ctx, NewInv, InScript,
     Working, FinalizeWithStatus, Release, SleepCleanup, TerminateRequest
<1> QED
  BY <1>1, <1>2, <1>3, <1>4, <1>5, <1>6, <1>7, <1>8, <1>9, <1>10 DEF IInv

LEMMA FinalizeWithErrorKeeps ==
  ASSUME PlainAccess, IInv, FinalizeWithError
  PROVE  IInv'
<1>0. /\ frames \in Seq({"rewrite", "content", "redirect"}) /\ Len(frames) \in Nat
      /\ Len(<<>>) = 0
      /\ frames = <<>> => at' = "idle" /\ rc' = NULL /\ frames' = <<>> /\ checker' = checker
      /\ frames # <<>> =>
           /\ at' = "return"
           /\ Len(frames') = Len(frames) - 1
           /\ rc' \in {"OK", "DONE"} /\ checker' \in {"rewrite", "content"}
      /\ frames' \in Seq({"rewrite", "content", "redirect"})
      /\ frames' \in Seq(PhpPhase \cup {"redirect"})
  BY EndRunEffect, EmptySeq DEF IInv, FramesInv, FinalizeWithError
<1>1. TypeOK'
  BY <1>0 DEF IInv, TypeOK, PointInv, Points, Status, FinalizeWithError,
     TerminateRequest, SleepCleanup
<1>2. FramesInv'
  BY <1>0 DEF IInv, TypeOK, FramesInv, PointInv, Working, FinalizeWithError,
     TerminateRequest, SleepCleanup
<1>3. NewInv'
  BY <1>0 DEF IInv, NewInv, PointInv, WaitInv, Waiting, Working,
     FinalizeWithError, TerminateRequest, SleepCleanup
<1>4. PointInv'
  BY <1>0 DEF IInv, TypeOK, PointInv, WaitInv, Waiting, Kind, Working, Ctx,
     FinalizeWithError, TerminateRequest, SleepCleanup
<1>5. WaitInv'
  BY <1>0 DEF IInv, TypeOK, PointInv, WaitInv, BodyInv, RanInv, Waiting,
     Working, Kind, Ctx, FinalizeWithError, TerminateRequest, SleepCleanup
<1>6. BodyInv'
  BY <1>0 DEF IInv, TypeOK, PointInv, BodyInv, WaitInv, RanInv, NewInv,
     Kind, ReadingHandler, MustRead, Working, Ctx, Upto, FinalizeWithError,
     TerminateRequest, SleepCleanup
<1>7. CountInv'
  BY <1>0 DEF IInv, TypeOK, FramesInv, PointInv, WaitInv, CountInv, NewInv,
     Waiting, Working, FinalizeWithError, TerminateRequest, SleepCleanup
<1>8. RanInv'
  BY <1>0 DEF IInv, TypeOK, PointInv, RanInv, WaitInv, NewInv, Upto, Kind,
     Ctx, Working, FinalizeWithError, TerminateRequest, SleepCleanup
<1>9. LengthInv'
  BY <1>0 DEF IInv, TypeOK, PointInv, LengthInv, LengthTrue, Output, Ctx,
     Answer, NewInv, Working, WaitInv, FinalizeWithError, TerminateRequest,
     SleepCleanup
<1>10. ExitInv'
  BY <1>0 DEF IInv, TypeOK, PointInv, ExitInv, MustRead, ReadingHandler,
     Kind, Emits, WaitInv, BodyInv, Ctx, NewInv, InScript, Working,
     FinalizeWithError, TerminateRequest, SleepCleanup
<1> QED
  BY <1>1, <1>2, <1>3, <1>4, <1>5, <1>6, <1>7, <1>8, <1>9, <1>10 DEF IInv

LEMMA EnterHandlerKeeps ==
  ASSUME PlainAccess, IInv, EnterHandler
  PROVE  IInv'
<1>0. /\ ctx' \in Ctx /\ ctx' # NULL
      /\ ctx = NULL =>
           ctx'.status = "OK" /\ ~ctx'.done /\ ctx'.output = 0 /\ redirects > 0
      /\ ctx # NULL =>
           /\ ctx'.status = ctx.status /\ ctx'.output = ctx.output
           /\ ctx'.done = ctx.done /\ ctx'.data = ctx.data
           /\ ctx.more => ctx'.more
  <2> DEFINE c == IF ctx = NULL THEN ZeroedCtx ELSE ctx
  <2>1. c \in Ctx
    BY DEF IInv, TypeOK, ZeroedCtx, Ctx
  <2>2. ctx = NULL => c.status = "OK" /\ ~c.done /\ c.output = 0 /\ redirects > 0
    BY DEF ZeroedCtx, IInv, BodyInv, EnterHandler, TypeOK
  <2>3. ctx # NULL => c = ctx
    OBVIOUS
  <2>4. ctx' = c \/ ctx' = [c EXCEPT !.more = TRUE]
    BY DEF EnterHandler
  <2> HIDE DEF c
  <2>5. ctx' \in Ctx /\ ctx'.status = c.status /\ ctx'.output = c.output
        /\ ctx'.done = c.done /\ ctx'.data = c.data /\ (c.more => ctx'.more)
    BY <2>1, <2>4 DEF Ctx
  <2> QED
    BY <2>2, <2>3, <2>5, NullIsNothing
<1>1. TypeOK'
  BY <1>0 DEF IInv, TypeOK, PointInv, Points, Status, EnterHandler
<1>2. FramesInv'
  BY <1>0 DEF IInv, TypeOK, FramesInv, PointInv, Working, EnterHandler
<1>3. NewInv'
  BY <1>0 DEF IInv, NewInv, PointInv, WaitInv, Waiting, Working,
     EnterHandler
<1>4. PointInv'
  BY <1>0 DEF IInv, TypeOK, PointInv, WaitInv, Waiting, Kind, Working, Ctx,
     EnterHandler
<1>5. WaitInv'
  BY <1>0 DEF IInv, TypeOK, PointInv, WaitInv, BodyInv, RanInv, Waiting,
     Working, Kind, Ctx, EnterHandler
<1>6. BodyInv'
  BY <1>0 DEF IInv, TypeOK, PointInv, BodyInv, WaitInv, RanInv, NewInv,
     Kind, ReadingHandler, MustRead, Working, Ctx, Upto, EnterHandler
<1>7. CountInv'
  BY <1>0 DEF IInv, TypeOK, FramesInv, PointInv, WaitInv, CountInv, NewInv,
     Waiting, Working, EnterHandler
<1>8. RanInv'
  BY <1>0 DEF IInv, TypeOK, PointInv, RanInv, WaitInv, NewInv, Upto, Kind,
     Ctx, Working, EnterHandler
<1>9. LengthInv'
  BY <1>0 DEF IInv, TypeOK, PointInv, LengthInv, LengthTrue, Output, Ctx,
     Answer, NewInv, Working, WaitInv, EnterHandler
<1>10. ExitInv'
  BY <1>0 DEF IInv, TypeOK, PointInv, ExitInv, MustRead, ReadingHandler,
     Kind, Emits, WaitInv, BodyInv, Ctx, NewInv, InScript, Working,
     EnterHandler
<1> QED
  BY <1>1, <1>2, <1>3, <1>4, <1>5, <1>6, <1>7, <1>8, <1>9, <1>10 DEF IInv

LEMMA ReadBodyNowKeeps ==
  ASSUME PlainAccess, IInv, ReadBodyNow
  PROVE  IInv'
<1>0. /\ ctx \in Ctx /\ ctx # NULL /\ ctx' \in Ctx /\ ctx' # NULL
      /\ ctx'.done /\ (ctx'.more <=> ctx.more /\ req.body # "data")
      /\ ctx'.data <=> ctx.data \/ req.body = "data"
      /\ ctx'.status = ctx.status /\ ctx'.output = ctx.output
  BY NullIsNothing DEF IInv, TypeOK, PointInv, Ctx, ReadBodyNow, MustRead,
     BodyCallback
<1>a. ~timer /\ phase \in {"rewrite", "content"}
  BY DEF IInv, TypeOK, PointInv, BodyInv, ReadBodyNow, MustRead, ReadingHandler, Kind,
         PlainAccess, RequestType
<1>b. ASSUME frames' = Append(frames, phase)
      PROVE  /\ frames' \in Seq({"rewrite", "content", "redirect"})
             /\ frames' \in Seq(PhpPhase \cup {"redirect"})
             /\ Len(frames') = Len(frames) + 1
  BY <1>a, <1>b, AppendProperties DEF IInv, FramesInv, TypeOK
<1>c. forgotten' \in BOOLEAN
  BY DEF IInv, TypeOK, ReadBodyNow, CallbackRunsPhases
<1>d. /\ Len(frames) \in Nat
      /\ \/ at' = "phases" /\ frames' = Append(frames, phase) /\ forgotten' = forgotten
         \/ at' = "return" /\ frames' = frames /\ forgotten'
  BY DEF ReadBodyNow, IInv, FramesInv
<1>e. /\ at = "handler" /\ count' = count + 1
      /\ UNCHANGED <<life, timer, stranded, waits>> /\ request_body' = "read"
  BY DEF ReadBodyNow, MustRead
<1>1. TypeOK'
  BY <1>0, <1>a, <1>b, <1>c DEF IInv, TypeOK, PointInv, Points, Status,
     ReadBodyNow, MustRead, BodyCallback, CallbackRunsPhases
<1>2. FramesInv'
  BY <1>0, <1>a, <1>b, <1>c DEF IInv, TypeOK, FramesInv, PointInv, Working,
     ReadBodyNow, MustRead, BodyCallback, CallbackRunsPhases
<1>3. NewInv'
  BY <1>0, <1>a, <1>b, <1>c DEF IInv, NewInv, PointInv, WaitInv, Waiting,
     Working, ReadBodyNow, MustRead, BodyCallback, CallbackRunsPhases
<1>4. PointInv'
  BY <1>0, <1>a, <1>b, <1>c DEF IInv, TypeOK, PointInv, WaitInv, Waiting,
     Kind, Working, Ctx, ReadBodyNow, MustRead, BodyCallback,
     CallbackRunsPhases
<1>5. WaitInv'
  BY <1>0, <1>a, <1>b, <1>c DEF IInv, TypeOK, PointInv, WaitInv, BodyInv,
     RanInv, Waiting, Working, Kind, Ctx, ReadBodyNow, MustRead,
     BodyCallback, CallbackRunsPhases
<1>6. BodyInv'
  BY <1>0, <1>a, <1>b, <1>c DEF IInv, TypeOK, PointInv, BodyInv, WaitInv,
     RanInv, NewInv, Kind, ReadingHandler, MustRead, Working, Ctx, Upto,
     ReadBodyNow, BodyCallback, CallbackRunsPhases
<1>7. CountInv'
  BY <1>a, <1>b, <1>d, <1>e DEF IInv, CountInv, TypeOK, PointInv, Waiting,
     Working
<1>8. RanInv'
  BY <1>0, <1>a, <1>b, <1>c DEF IInv, TypeOK, PointInv, RanInv, WaitInv,
     NewInv, Upto, Kind, Ctx, Working, ReadBodyNow, MustRead, BodyCallback,
     CallbackRunsPhases
<1>9. LengthInv'
  BY <1>0, <1>a, <1>b, <1>c DEF IInv, TypeOK, PointInv, LengthInv,
     LengthTrue, Output, Ctx, Answer, NewInv, Working, WaitInv, ReadBodyNow,
     MustRead, BodyCallback, CallbackRunsPhases
<1>10. ExitInv'
  BY <1>0, <1>a, <1>b, <1>c DEF IInv, TypeOK, PointInv, ExitInv, MustRead,
     ReadingHandler, Kind, Emits, WaitInv, BodyInv, Ctx, NewInv, InScript,
     Working, ReadBodyNow, BodyCallback, CallbackRunsPhases
<1> QED
  BY <1>1, <1>2, <1>3, <1>4, <1>5, <1>6, <1>7, <1>8, <1>9, <1>10 DEF IInv

LEMMA ReadBodyLaterKeeps ==
  ASSUME PlainAccess, IInv, ReadBodyLater
  PROVE  IInv'
<1>0. /\ ctx \in Ctx /\ ctx # NULL /\ ctx' \in Ctx /\ ctx' # NULL
      /\ ctx'.more /\ ~ctx'.done
      /\ ctx'.data = ctx.data /\ ctx'.status = ctx.status
      /\ ctx'.output = ctx.output
  BY NullIsNothing DEF IInv, TypeOK, PointInv, Ctx, ReadBodyLater, MustRead
<1>a. ~timer
  BY DEF IInv, TypeOK, PointInv, BodyInv, ReadBodyLater, MustRead
<1>1. TypeOK'
  BY <1>0, <1>a DEF IInv, TypeOK, PointInv, Points, Status, ReadBodyLater,
     MustRead
<1>2. FramesInv'
  BY <1>0, <1>a DEF IInv, TypeOK, FramesInv, PointInv, Working,
     ReadBodyLater, MustRead
<1>3. NewInv'
  BY <1>0, <1>a DEF IInv, NewInv, PointInv, WaitInv, Waiting, Working,
     ReadBodyLater, MustRead
<1>4. PointInv'
  BY <1>0, <1>a DEF IInv, TypeOK, PointInv, WaitInv, Waiting, Kind, Working,
     Ctx, ReadBodyLater, MustRead
<1>5. WaitInv'
  BY <1>0, <1>a DEF IInv, TypeOK, PointInv, WaitInv, BodyInv, RanInv,
     Waiting, Working, Kind, Ctx, ReadBodyLater, MustRead
<1>6. BodyInv'
  BY <1>0, <1>a DEF IInv, TypeOK, PointInv, BodyInv, WaitInv, RanInv,
     NewInv, Kind, ReadingHandler, MustRead, Working, Ctx, Upto,
     ReadBodyLater
<1>7. CountInv'
  BY <1>0, <1>a DEF IInv, TypeOK, FramesInv, PointInv, WaitInv, CountInv,
     NewInv, Waiting, Working, ReadBodyLater, MustRead
<1>8. RanInv'
  BY <1>0, <1>a DEF IInv, TypeOK, PointInv, RanInv, WaitInv, NewInv, Upto,
     Kind, Ctx, Working, ReadBodyLater, MustRead
<1>9. LengthInv'
  BY <1>0, <1>a DEF IInv, TypeOK, PointInv, LengthInv, LengthTrue, Output,
     Ctx, Answer, NewInv, Working, WaitInv, ReadBodyLater, MustRead
<1>10. ExitInv'
  BY <1>0, <1>a DEF IInv, TypeOK, PointInv, ExitInv, MustRead,
     ReadingHandler, Kind, Emits, WaitInv, BodyInv, Ctx, NewInv, InScript,
     Working, ReadBodyLater
<1> QED
  BY <1>1, <1>2, <1>3, <1>4, <1>5, <1>6, <1>7, <1>8, <1>9, <1>10 DEF IInv

LEMMA ReadBodyFailsKeeps ==
  ASSUME PlainAccess, IInv, ReadBodyFails
  PROVE  IInv'
<1>0. ~timer
  BY DEF IInv, TypeOK, PointInv, BodyInv, ReadBodyFails, MustRead
<1>1. TypeOK'
  BY <1>0 DEF IInv, TypeOK, PointInv, Points, Status, ReadBodyFails,
     MustRead
<1>2. FramesInv'
  BY <1>0 DEF IInv, TypeOK, FramesInv, PointInv, Working, ReadBodyFails,
     MustRead
<1>3. NewInv'
  BY <1>0 DEF IInv, NewInv, PointInv, WaitInv, Waiting, Working,
     ReadBodyFails, MustRead
<1>4. PointInv'
  BY <1>0 DEF IInv, TypeOK, PointInv, WaitInv, Waiting, Kind, Working, Ctx,
     ReadBodyFails, MustRead
<1>5. WaitInv'
  BY <1>0 DEF IInv, TypeOK, PointInv, WaitInv, BodyInv, RanInv, Waiting,
     Working, Kind, Ctx, ReadBodyFails, MustRead
<1>6. BodyInv'
  BY <1>0 DEF IInv, TypeOK, PointInv, BodyInv, WaitInv, RanInv, NewInv,
     Kind, ReadingHandler, MustRead, Working, Ctx, Upto, ReadBodyFails
<1>7. CountInv'
  BY <1>0 DEF IInv, TypeOK, FramesInv, PointInv, WaitInv, CountInv, NewInv,
     Waiting, Working, ReadBodyFails, MustRead
<1>8. RanInv'
  BY <1>0 DEF IInv, TypeOK, PointInv, RanInv, WaitInv, NewInv, Upto, Kind,
     Ctx, Working, ReadBodyFails, MustRead
<1>9. LengthInv'
  BY <1>0 DEF IInv, TypeOK, PointInv, LengthInv, LengthTrue, Output, Ctx,
     Answer, NewInv, Working, WaitInv, ReadBodyFails, MustRead
<1>10. ExitInv'
  BY <1>0 DEF IInv, TypeOK, PointInv, ExitInv, MustRead, ReadingHandler,
     Kind, Emits, WaitInv, BodyInv, Ctx, NewInv, InScript, Working,
     ReadBodyFails
<1> QED
  BY <1>1, <1>2, <1>3, <1>4, <1>5, <1>6, <1>7, <1>8, <1>9, <1>10 DEF IInv

LEMMA BodyArrivesKeeps ==
  ASSUME PlainAccess, IInv, BodyArrives
  PROVE  IInv'
<1>0. /\ ctx \in Ctx /\ ctx # NULL /\ ctx' \in Ctx /\ ctx' # NULL
      /\ ctx'.done /\ (ctx'.more <=> ctx.more /\ req.body # "data")
      /\ ctx'.data <=> ctx.data \/ req.body = "data"
      /\ ctx'.status = ctx.status /\ ctx'.output = ctx.output
  BY NullIsNothing DEF IInv, TypeOK, PointInv, Ctx, BodyArrives, WaitInv,
     BodyCallback
<1>c. forgotten' \in BOOLEAN
  BY DEF IInv, TypeOK, BodyArrives, CallbackRunsPhases
<1>1. TypeOK'
  BY <1>0, <1>c DEF IInv, TypeOK, PointInv, Points, Status, BodyArrives,
     BodyCallback, CallbackRunsPhases
<1>2. FramesInv'
  BY <1>0, <1>c DEF IInv, TypeOK, FramesInv, PointInv, Working, BodyArrives,
     BodyCallback, CallbackRunsPhases
<1>3. NewInv'
  BY <1>0, <1>c DEF IInv, NewInv, PointInv, WaitInv, Waiting, Working,
     BodyArrives, BodyCallback, CallbackRunsPhases
<1>4. PointInv'
  BY <1>0, <1>c DEF IInv, TypeOK, PointInv, WaitInv, Waiting, Kind, Working,
     Ctx, BodyArrives, BodyCallback, CallbackRunsPhases
<1>5. WaitInv'
  BY <1>0, <1>c DEF IInv, TypeOK, PointInv, WaitInv, BodyInv, RanInv,
     Waiting, Working, Kind, Ctx, BodyArrives, BodyCallback,
     CallbackRunsPhases
<1>6. BodyInv'
  BY <1>0, <1>c DEF IInv, TypeOK, PointInv, BodyInv, WaitInv, RanInv,
     NewInv, Kind, ReadingHandler, MustRead, Working, Ctx, Upto,
     BodyArrives, BodyCallback, CallbackRunsPhases
<1>7. CountInv'
  BY <1>0, <1>c DEF IInv, TypeOK, FramesInv, PointInv, WaitInv, CountInv,
     NewInv, Waiting, Working, BodyArrives, BodyCallback, CallbackRunsPhases
<1>8. RanInv'
  BY <1>0, <1>c DEF IInv, TypeOK, PointInv, RanInv, WaitInv, NewInv, Upto,
     Kind, Ctx, Working, BodyArrives, BodyCallback, CallbackRunsPhases
<1>9. LengthInv'
  BY <1>0, <1>c DEF IInv, TypeOK, PointInv, LengthInv, LengthTrue, Output,
     Ctx, Answer, NewInv, Working, WaitInv, BodyArrives, BodyCallback,
     CallbackRunsPhases
<1>10. ExitInv'
  BY <1>0, <1>c DEF IInv, TypeOK, PointInv, ExitInv, MustRead,
     ReadingHandler, Kind, Emits, WaitInv, BodyInv, Ctx, NewInv, InScript,
     Working, BodyArrives, BodyCallback, CallbackRunsPhases
<1> QED
  BY <1>1, <1>2, <1>3, <1>4, <1>5, <1>6, <1>7, <1>8, <1>9, <1>10 DEF IInv

LEMMA BodyLostKeeps ==
  ASSUME PlainAccess, IInv, BodyLost
  PROVE  IInv'
<1>0. request_body' = NULL /\ NULL \notin {"reading", "read"}
  BY NullIsNothing DEF BodyLost
<1>1. TypeOK'
  BY <1>0 DEF IInv, TypeOK, PointInv, Points, Status, BodyLost,
     TerminateRequest, SleepCleanup
<1>2. FramesInv'
  BY <1>0 DEF IInv, TypeOK, FramesInv, PointInv, Working, BodyLost,
     TerminateRequest, SleepCleanup
<1>3. NewInv'
  BY <1>0 DEF IInv, NewInv, PointInv, WaitInv, Waiting, Working, BodyLost,
     TerminateRequest, SleepCleanup
<1>4. PointInv'
  BY <1>0 DEF IInv, TypeOK, PointInv, WaitInv, Waiting, Kind, Working, Ctx,
     BodyLost, TerminateRequest, SleepCleanup
<1>5. WaitInv'
  BY <1>0 DEF IInv, TypeOK, PointInv, WaitInv, BodyInv, RanInv, Waiting,
     Working, Kind, Ctx, BodyLost, TerminateRequest, SleepCleanup
<1>6. BodyInv'
  BY <1>0 DEF IInv, TypeOK, PointInv, BodyInv, WaitInv, RanInv, NewInv,
     Kind, ReadingHandler, MustRead, Working, Ctx, Upto, BodyLost,
     TerminateRequest, SleepCleanup
<1>7. CountInv'
  BY <1>0 DEF IInv, TypeOK, FramesInv, PointInv, WaitInv, CountInv, NewInv,
     Waiting, Working, BodyLost, TerminateRequest, SleepCleanup
<1>8. RanInv'
  BY <1>0 DEF IInv, TypeOK, PointInv, RanInv, WaitInv, NewInv, Upto, Kind,
     Ctx, Working, BodyLost, TerminateRequest, SleepCleanup
<1>9. LengthInv'
  BY <1>0 DEF IInv, TypeOK, PointInv, LengthInv, LengthTrue, Output, Ctx,
     Answer, NewInv, Working, WaitInv, BodyLost, TerminateRequest,
     SleepCleanup
<1>10. ExitInv'
  BY <1>0 DEF IInv, TypeOK, PointInv, ExitInv, MustRead, ReadingHandler,
     Kind, Emits, WaitInv, BodyInv, Ctx, NewInv, InScript, Working,
     BodyLost, TerminateRequest, SleepCleanup
<1> QED
  BY <1>1, <1>2, <1>3, <1>4, <1>5, <1>6, <1>7, <1>8, <1>9, <1>10 DEF IInv

LEMMA StartScriptKeeps ==
  ASSUME PlainAccess, IInv, StartScript
  PROVE  IInv'
<1>0. /\ ctx \in Ctx /\ ctx # NULL /\ ctx' \in Ctx /\ ctx' # NULL
      /\ ctx'.status = "OK"
      /\ ctx'.more = ctx.more /\ ctx'.done = ctx.done
      /\ ctx'.data = ctx.data /\ ctx'.output = ctx.output
  BY NullIsNothing DEF IInv, TypeOK, PointInv, Ctx, StartScript
<1>a. phase \in PhpPhase
  BY DEF IInv, TypeOK, PointInv, Kind, StartScript
<1>1. TypeOK'
  BY <1>0, <1>a DEF IInv, TypeOK, PointInv, Points, Status, StartScript,
     StartStatus
<1>2. FramesInv'
  BY <1>0, <1>a DEF IInv, TypeOK, FramesInv, PointInv, Working, StartScript,
     StartStatus
<1>3. NewInv'
  BY <1>0, <1>a DEF IInv, NewInv, PointInv, WaitInv, Waiting, Working,
     StartScript, StartStatus
<1>4. PointInv'
  BY <1>0, <1>a DEF IInv, TypeOK, PointInv, WaitInv, Waiting, Kind, Working,
     Ctx, StartScript, StartStatus
<1>5. WaitInv'
  BY <1>0, <1>a DEF IInv, TypeOK, PointInv, WaitInv, BodyInv, RanInv,
     Waiting, Working, Kind, Ctx, StartScript, StartStatus
<1>6. BodyInv'
  BY <1>0, <1>a DEF IInv, TypeOK, PointInv, BodyInv, WaitInv, RanInv,
     NewInv, Kind, ReadingHandler, MustRead, Working, Ctx, Upto,
     StartScript, StartStatus
<1>7. CountInv'
  BY <1>0, <1>a DEF IInv, TypeOK, FramesInv, PointInv, WaitInv, CountInv,
     NewInv, Waiting, Working, StartScript, StartStatus
<1>8. RanInv'
  BY <1>0, <1>a DEF IInv, TypeOK, PointInv, RanInv, WaitInv, NewInv, Upto,
     Kind, Ctx, Working, StartScript, StartStatus
<1>9. LengthInv'
  BY <1>0, <1>a DEF IInv, TypeOK, PointInv, LengthInv, LengthTrue, Output,
     Ctx, Answer, NewInv, Working, WaitInv, StartScript, StartStatus
<1>10. ExitInv'
  BY <1>0, <1>a DEF IInv, TypeOK, PointInv, ExitInv, MustRead,
     ReadingHandler, Kind, Emits, WaitInv, BodyInv, Ctx, NewInv, InScript,
     Working, StartScript, StartStatus
<1> QED
  BY <1>1, <1>2, <1>3, <1>4, <1>5, <1>6, <1>7, <1>8, <1>9, <1>10 DEF IInv

LEMMA HandlerAgainKeeps ==
  ASSUME PlainAccess, IInv, HandlerAgain
  PROVE  IInv'
<1>1. TypeOK'
  BY DEF IInv, TypeOK, PointInv, Points, Status, HandlerAgain
<1>2. FramesInv'
  BY DEF IInv, TypeOK, FramesInv, PointInv, Working, HandlerAgain
<1>3. NewInv'
  BY DEF IInv, NewInv, PointInv, WaitInv, Waiting, Working, HandlerAgain
<1>4. PointInv'
  BY DEF IInv, TypeOK, PointInv, WaitInv, Waiting, Kind, Working, Ctx,
     HandlerAgain
<1>5. WaitInv'
  BY DEF IInv, TypeOK, PointInv, WaitInv, BodyInv, RanInv, Waiting, Working,
     Kind, Ctx, HandlerAgain
<1>6. BodyInv'
  BY DEF IInv, TypeOK, PointInv, BodyInv, WaitInv, RanInv, NewInv, Kind,
     ReadingHandler, MustRead, Working, Ctx, Upto, HandlerAgain
<1>7. CountInv'
  BY DEF IInv, TypeOK, FramesInv, PointInv, WaitInv, CountInv, NewInv,
     Waiting, Working, HandlerAgain
<1>8. RanInv'
  BY DEF IInv, TypeOK, PointInv, RanInv, WaitInv, NewInv, Upto, Kind, Ctx,
     Working, HandlerAgain
<1>9. LengthInv'
  BY DEF IInv, TypeOK, PointInv, LengthInv, LengthTrue, Output, Ctx, Answer,
     NewInv, Working, WaitInv, HandlerAgain
<1>10. ExitInv'
  BY DEF IInv, TypeOK, PointInv, ExitInv, MustRead, ReadingHandler, Kind,
     Emits, WaitInv, BodyInv, Ctx, NewInv, InScript, Working, HandlerAgain
<1> QED
  BY <1>1, <1>2, <1>3, <1>4, <1>5, <1>6, <1>7, <1>8, <1>9, <1>10 DEF IInv

LEMMA SetOutputStatusKeeps ==
  ASSUME PlainAccess, IInv, SetOutputStatus
  PROVE  IInv'
<1>0. /\ ctx \in Ctx /\ ctx # NULL /\ ctx' \in Ctx /\ ctx' # NULL
      /\ ctx'.status = "DECLINED"
      /\ ctx'.more = ctx.more /\ ctx'.done = ctx.done
      /\ ctx'.data = ctx.data /\ ctx'.output = ctx.output
  BY NullIsNothing DEF IInv, TypeOK, PointInv, Ctx, SetOutputStatus,
     SetOutput, Declining
<1>1. TypeOK'
  BY <1>0 DEF IInv, TypeOK, PointInv, Points, Status, SetOutputStatus,
     SetOutput, Declining
<1>2. FramesInv'
  BY <1>0 DEF IInv, TypeOK, FramesInv, PointInv, Working, Emits,
     SetOutputStatus, SetOutput, Declining
<1>3. NewInv'
  BY <1>0 DEF IInv, NewInv, PointInv, WaitInv, Waiting, Working,
     SetOutputStatus, SetOutput, Declining
<1>4. PointInv'
  BY <1>0 DEF IInv, TypeOK, PointInv, WaitInv, Waiting, Kind, Working, Ctx,
     Emits, Status, SetOutputStatus, SetOutput, Declining
<1>5. WaitInv'
  BY <1>0 DEF IInv, TypeOK, PointInv, WaitInv, BodyInv, RanInv, Waiting,
     Working, Kind, Ctx, SetOutputStatus, SetOutput, Declining
<1>6. BodyInv'
  BY <1>0 DEF IInv, TypeOK, PointInv, BodyInv, WaitInv, RanInv, NewInv,
     Kind, ReadingHandler, MustRead, Working, Ctx, Upto, SetOutputStatus,
     SetOutput, Declining
<1>7. CountInv'
  BY <1>0 DEF IInv, TypeOK, FramesInv, PointInv, WaitInv, CountInv, NewInv,
     Waiting, Working, SetOutputStatus, SetOutput, Declining
<1>8. RanInv'
  BY <1>0 DEF IInv, TypeOK, PointInv, RanInv, WaitInv, NewInv, Upto, Kind,
     Ctx, Working, SetOutputStatus, SetOutput, Declining
<1>9. LengthInv'
  BY <1>0 DEF IInv, TypeOK, PointInv, LengthInv, LengthTrue, Output, Ctx,
     Answer, NewInv, Working, WaitInv, SetOutputStatus, SetOutput, Declining
<1>10. ExitInv'
  BY <1>0 DEF IInv, TypeOK, PointInv, ExitInv, MustRead, ReadingHandler,
     Kind, Emits, WaitInv, BodyInv, Ctx, NewInv, InScript, Working,
     SetOutputStatus, SetOutput, Declining
<1> QED
  BY <1>1, <1>2, <1>3, <1>4, <1>5, <1>6, <1>7, <1>8, <1>9, <1>10 DEF IInv

LEMMA SetOutputSendKeeps ==
  ASSUME PlainAccess, IInv, SetOutputSend
  PROVE  IInv'
<1> DEFINE c == Declining(ctx)
<1>0. /\ c \in Ctx /\ ctx # NULL /\ c.output = ctx.output /\ c.more = ctx.more
      /\ c.done = ctx.done /\ c.data = ctx.data
      /\ answer = NULL /\ life = "active" /\ phase \in PhpPhase /\ SendOutput(c)
  BY DEF IInv, TypeOK, PointInv, Ctx, Kind, Working, SetOutputSend, SetOutput, Declining
<1>a. c.status # "AGAIN" /\ ~timer
  BY DEF IInv, PointInv, TypeOK, Ctx, SetOutputSend, SetOutput, Declining
<1> HIDE DEF c
<1>b. SendEffect(c)
  BY <1>0, SendOutputEffect DEF IInv, LengthInv, Output
<1>c. UNCHANGED <<ran, req, life, count, phase, frames, request_body, timer, exit_status,
                  yields, redirects, exited, stranded, forgotten, waits>>
      /\ at = "handler"
  BY DEF SetOutputSend, SetOutput
<1>1. TypeOK'
  BY <1>0, <1>a, <1>b, <1>c DEF IInv, TypeOK, PointInv, Points, Status,
     SendEffect
<1>2. FramesInv'
  BY <1>0, <1>a, <1>b, <1>c DEF IInv, TypeOK, FramesInv, PointInv, Working,
     SendEffect
<1>3. NewInv'
  BY <1>0, <1>a, <1>b, <1>c DEF IInv, NewInv, PointInv, WaitInv, Waiting,
     Working, SendEffect
<1>4. PointInv'
  BY <1>0, <1>a, <1>b, <1>c DEF IInv, TypeOK, PointInv, WaitInv, Waiting,
     Kind, Working, Ctx, SendEffect
<1>5. WaitInv'
  BY <1>0, <1>a, <1>b, <1>c DEF IInv, TypeOK, PointInv, WaitInv, BodyInv,
     RanInv, Waiting, Working, Kind, Ctx, SendEffect
<1>6. BodyInv'
  BY <1>0, <1>a, <1>b, <1>c DEF IInv, TypeOK, PointInv, BodyInv, WaitInv,
     RanInv, NewInv, Kind, ReadingHandler, MustRead, Working, Ctx, Upto,
     SendEffect
<1>7. CountInv'
  BY <1>0, <1>a, <1>b, <1>c DEF IInv, TypeOK, FramesInv, PointInv, WaitInv,
     CountInv, NewInv, Waiting, Working, SendEffect
<1>8. RanInv'
  BY <1>0, <1>a, <1>b, <1>c DEF IInv, TypeOK, PointInv, RanInv, WaitInv,
     NewInv, Upto, Kind, Ctx, Working, SendEffect
<1>9. LengthInv'
  BY <1>0, <1>a, <1>b, <1>c DEF IInv, TypeOK, PointInv, LengthInv,
     LengthTrue, Output, Ctx, Answer, NewInv, Working, WaitInv, SendEffect
<1>10. ExitInv'
  BY <1>0, <1>a, <1>b, <1>c DEF IInv, TypeOK, PointInv, ExitInv, MustRead,
     ReadingHandler, Kind, Emits, WaitInv, BodyInv, Ctx, NewInv, InScript,
     Working, SendEffect
<1> QED
  BY <1>1, <1>2, <1>3, <1>4, <1>5, <1>6, <1>7, <1>8, <1>9, <1>10 DEF IInv

LEMMA StackHandlerKeeps ==
  ASSUME PlainAccess, IInv, StackHandler
  PROVE  IInv'
<1> DEFINE c == ctx
<1>0. /\ c \in Ctx /\ ctx # NULL /\ c.output = ctx.output /\ c.more = ctx.more
      /\ c.done = ctx.done /\ c.data = ctx.data
      /\ answer = NULL /\ life = "active" /\ phase \in PhpPhase /\ SendOutput(c)
  BY DEF IInv, TypeOK, PointInv, Ctx, Kind, Working, StackHandler
<1>a. c.status # "AGAIN" /\ ~timer
  BY DEF IInv, PointInv, WaitInv, TypeOK, Ctx, StackHandler
<1> HIDE DEF c
<1>b. SendEffect(c)
  BY <1>0, SendOutputEffect DEF IInv, LengthInv, Output
<1>c. UNCHANGED <<req, life, count, phase, frames, request_body, timer, exit_status,
                  yields, redirects, exited, stranded, forgotten, waits>>
      /\ at = "handler"
      /\ Kind = "stack" /\ ran' = ran \cup {phase}
  BY DEF StackHandler
<1>1. TypeOK'
  BY <1>0, <1>a, <1>b, <1>c DEF IInv, TypeOK, PointInv, Points, Status,
     SendEffect
<1>2. FramesInv'
  BY <1>0, <1>a, <1>b, <1>c DEF IInv, TypeOK, FramesInv, PointInv, Working,
     SendEffect
<1>3. NewInv'
  BY <1>0, <1>a, <1>b, <1>c DEF IInv, NewInv, PointInv, WaitInv, Waiting,
     Working, SendEffect
<1>4. PointInv'
  BY <1>0, <1>a, <1>b, <1>c DEF IInv, TypeOK, PointInv, WaitInv, Waiting,
     Kind, Working, Ctx, SendEffect
<1>5. WaitInv'
  BY <1>0, <1>a, <1>b, <1>c DEF IInv, TypeOK, PointInv, WaitInv, BodyInv,
     RanInv, Waiting, Working, Kind, Ctx, SendEffect
<1>6. BodyInv'
  BY <1>0, <1>a, <1>b, <1>c DEF IInv, TypeOK, PointInv, BodyInv, WaitInv,
     RanInv, NewInv, Kind, ReadingHandler, MustRead, Working, Ctx, Upto,
     SendEffect
<1>7. CountInv'
  BY <1>0, <1>a, <1>b, <1>c DEF IInv, TypeOK, FramesInv, PointInv, WaitInv,
     CountInv, NewInv, Waiting, Working, SendEffect
<1>8. RanInv'
  BY <1>0, <1>a, <1>b, <1>c DEF IInv, TypeOK, PointInv, RanInv, WaitInv,
     NewInv, Upto, Kind, Ctx, Working, SendEffect
<1>9. LengthInv'
  BY <1>0, <1>a, <1>b, <1>c DEF IInv, TypeOK, PointInv, LengthInv,
     LengthTrue, Output, Ctx, Answer, NewInv, Working, WaitInv, SendEffect
<1>10. ExitInv'
  BY <1>0, <1>a, <1>b, <1>c DEF IInv, TypeOK, PointInv, ExitInv, MustRead,
     ReadingHandler, Kind, Emits, WaitInv, BodyInv, Ctx, NewInv, InScript,
     Working, SendEffect
<1> QED
  BY <1>1, <1>2, <1>3, <1>4, <1>5, <1>6, <1>7, <1>8, <1>9, <1>10 DEF IInv

LEMMA EchoKeeps ==
  ASSUME PlainAccess, IInv, Echo
  PROVE  IInv'
<1>0. /\ ctx \in Ctx /\ ctx # NULL /\ ctx' \in Ctx /\ ctx' # NULL
      /\ ctx'.output = ctx.output + 1
      /\ ctx'.more = ctx.more /\ ctx'.done = ctx.done
      /\ ctx'.data = ctx.data /\ ctx'.status = ctx.status
  BY NullIsNothing DEF IInv, TypeOK, PointInv, Ctx, Echo, InScript
<1>1. TypeOK'
  BY <1>0 DEF IInv, TypeOK, PointInv, Points, Status, Echo, Lengthen,
     InScript
<1>2. FramesInv'
  BY <1>0 DEF IInv, TypeOK, FramesInv, PointInv, Working, Echo, Lengthen,
     InScript
<1>3. NewInv'
  BY <1>0 DEF IInv, NewInv, PointInv, WaitInv, Waiting, Working, Echo,
     Lengthen, InScript
<1>4. PointInv'
  BY <1>0 DEF IInv, TypeOK, PointInv, WaitInv, Waiting, Kind, Working, Ctx,
     Echo, Lengthen, InScript
<1>5. WaitInv'
  BY <1>0 DEF IInv, TypeOK, PointInv, WaitInv, BodyInv, RanInv, Waiting,
     Working, Kind, Ctx, Echo, Lengthen, InScript
<1>6. BodyInv'
  BY <1>0 DEF IInv, TypeOK, PointInv, BodyInv, WaitInv, RanInv, NewInv,
     Kind, ReadingHandler, MustRead, Working, Ctx, Upto, Echo, Lengthen,
     InScript
<1>7. CountInv'
  BY <1>0 DEF IInv, TypeOK, FramesInv, PointInv, WaitInv, CountInv, NewInv,
     Waiting, Working, Echo, Lengthen, InScript
<1>8. RanInv'
  BY <1>0 DEF IInv, TypeOK, PointInv, RanInv, WaitInv, NewInv, Upto, Kind,
     Ctx, Working, Echo, Lengthen, InScript
<1>9. LengthInv'
  BY <1>0 DEF IInv, TypeOK, PointInv, LengthInv, LengthTrue, Output, Ctx,
     Answer, NewInv, Working, WaitInv, Echo, Lengthen, InScript
<1>10. ExitInv'
  BY <1>0 DEF IInv, TypeOK, PointInv, ExitInv, MustRead, ReadingHandler,
     Kind, Emits, WaitInv, BodyInv, Ctx, NewInv, InScript, Working, Echo,
     Lengthen
<1> QED
  BY <1>1, <1>2, <1>3, <1>4, <1>5, <1>6, <1>7, <1>8, <1>9, <1>10 DEF IInv

LEMMA SetStatusKeeps ==
  ASSUME PlainAccess, IInv, SetStatus
  PROVE  IInv'
<1>0. exit_status' \in Status \ {"DECLINED"}
  BY RequestAssumption DEF SetStatus, RequestAssumption
<1>1. TypeOK'
  BY <1>0 DEF IInv, TypeOK, PointInv, Points, Status, SetStatus,
     StartStatus, InScript
<1>2. FramesInv'
  BY <1>0 DEF IInv, TypeOK, FramesInv, PointInv, Working, SetStatus,
     StartStatus, InScript
<1>3. NewInv'
  BY <1>0 DEF IInv, NewInv, PointInv, WaitInv, Waiting, Working, SetStatus,
     StartStatus, InScript
<1>4. PointInv'
  BY <1>0 DEF IInv, TypeOK, PointInv, WaitInv, Waiting, Kind, Working, Ctx,
     SetStatus, StartStatus, InScript
<1>5. WaitInv'
  BY <1>0 DEF IInv, TypeOK, PointInv, WaitInv, BodyInv, RanInv, Waiting,
     Working, Kind, Ctx, SetStatus, StartStatus, InScript
<1>6. BodyInv'
  BY <1>0 DEF IInv, TypeOK, PointInv, BodyInv, WaitInv, RanInv, NewInv,
     Kind, ReadingHandler, MustRead, Working, Ctx, Upto, SetStatus,
     StartStatus, InScript
<1>7. CountInv'
  BY <1>0 DEF IInv, TypeOK, FramesInv, PointInv, WaitInv, CountInv, NewInv,
     Waiting, Working, SetStatus, StartStatus, InScript
<1>8. RanInv'
  BY <1>0 DEF IInv, TypeOK, PointInv, RanInv, WaitInv, NewInv, Upto, Kind,
     Ctx, Working, SetStatus, StartStatus, InScript
<1>9. LengthInv'
  BY <1>0 DEF IInv, TypeOK, PointInv, LengthInv, LengthTrue, Output, Ctx,
     Answer, NewInv, Working, WaitInv, SetStatus, StartStatus, InScript
<1>10. ExitInv'
  BY <1>0 DEF IInv, TypeOK, PointInv, ExitInv, MustRead, ReadingHandler,
     Kind, Emits, WaitInv, BodyInv, Ctx, NewInv, InScript, Working,
     SetStatus, StartStatus
<1> QED
  BY <1>1, <1>2, <1>3, <1>4, <1>5, <1>6, <1>7, <1>8, <1>9, <1>10 DEF IInv

LEMMA YieldKeeps ==
  ASSUME PlainAccess, IInv, Yield
  PROVE  IInv'
<1>0. /\ at = "script" => at' = "handler" /\ frames' = frames
      /\ at = "next" => at' = "idle" /\ rc' = NULL /\ frames = <<>> /\ frames' = <<>>
      /\ ctx \in Ctx /\ ctx' \in Ctx /\ ctx # NULL /\ ctx' # NULL
      /\ Len(<<>>) = 0
      /\ rc' \in {rc, NULL} /\ checker' = checker
      /\ frames' \in Seq(PhpPhase \cup {"redirect"})
      /\ ctx'.status = "AGAIN" /\ ctx'.output = ctx.output /\ ctx'.more = ctx.more
      /\ ctx'.done = ctx.done /\ ctx'.data = ctx.data
  BY EmptySeq, NullIsNothing DEF IInv, FramesInv, PointInv, TypeOK, InScript, EndRun, Ctx, Yield
<1>c. timer' \in BOOLEAN
  BY DEF IInv, TypeOK, Yield
<1>1. TypeOK'
  BY <1>0, <1>c DEF IInv, TypeOK, PointInv, Points, Status, Yield, InScript
<1>2. FramesInv'
  BY <1>0, <1>c DEF IInv, TypeOK, FramesInv, PointInv, Working, Yield,
     InScript
<1>3. NewInv'
  BY <1>0, <1>c DEF IInv, NewInv, PointInv, WaitInv, Waiting, Working,
     Yield, InScript
<1>4. PointInv'
  BY <1>0, <1>c DEF IInv, TypeOK, PointInv, WaitInv, Waiting, Kind, Working,
     Ctx, Yield, InScript
<1>5. WaitInv'
  BY <1>0, <1>c DEF IInv, TypeOK, PointInv, WaitInv, BodyInv, RanInv,
     Waiting, Working, Kind, Ctx, Yield, InScript
<1>6. BodyInv'
  BY <1>0, <1>c DEF IInv, TypeOK, PointInv, BodyInv, WaitInv, RanInv,
     NewInv, Kind, ReadingHandler, MustRead, Working, Ctx, Upto, Yield,
     InScript
<1>7. CountInv'
  BY <1>0, <1>c DEF IInv, TypeOK, FramesInv, PointInv, WaitInv, CountInv,
     NewInv, Waiting, Working, Yield, InScript
<1>8. RanInv'
  BY <1>0, <1>c DEF IInv, TypeOK, PointInv, RanInv, WaitInv, NewInv, Upto,
     Kind, Ctx, Working, Yield, InScript
<1>9. LengthInv'
  BY <1>0, <1>c DEF IInv, TypeOK, PointInv, LengthInv, LengthTrue, Output,
     Ctx, Answer, NewInv, Working, WaitInv, Yield, InScript
<1>10. ExitInv'
  BY <1>0, <1>c DEF IInv, TypeOK, PointInv, ExitInv, MustRead,
     ReadingHandler, Kind, Emits, WaitInv, BodyInv, Ctx, NewInv, InScript,
     Working, Yield
<1> QED
  BY <1>1, <1>2, <1>3, <1>4, <1>5, <1>6, <1>7, <1>8, <1>9, <1>10 DEF IInv

LEMMA ScriptEndsKeeps ==
  ASSUME PlainAccess, IInv, ScriptEnds
  PROVE  IInv'
<1>1. TypeOK'
  BY DEF IInv, TypeOK, PointInv, Points, Status, ScriptEnds
<1>2. FramesInv'
  BY DEF IInv, TypeOK, FramesInv, PointInv, Working, ScriptEnds
<1>3. NewInv'
  BY DEF IInv, NewInv, PointInv, WaitInv, Waiting, Working, ScriptEnds
<1>4. PointInv'
  BY DEF IInv, TypeOK, PointInv, WaitInv, Waiting, Kind, Working, Ctx,
     ScriptEnds
<1>5. WaitInv'
  BY DEF IInv, TypeOK, PointInv, WaitInv, BodyInv, RanInv, Waiting, Working,
     Kind, Ctx, ScriptEnds
<1>6. BodyInv'
  BY DEF IInv, TypeOK, PointInv, BodyInv, WaitInv, RanInv, NewInv, Kind,
     ReadingHandler, MustRead, Working, Ctx, Upto, ScriptEnds
<1>7. CountInv'
  BY DEF IInv, TypeOK, FramesInv, PointInv, WaitInv, CountInv, NewInv,
     Waiting, Working, ScriptEnds
<1>8. RanInv'
  BY DEF IInv, TypeOK, PointInv, RanInv, WaitInv, NewInv, Upto, Kind, Ctx,
     Working, ScriptEnds
<1>9. LengthInv'
  BY DEF IInv, TypeOK, PointInv, LengthInv, LengthTrue, Output, Ctx, Answer,
     NewInv, Working, WaitInv, ScriptEnds
<1>10. ExitInv'
  BY DEF IInv, TypeOK, PointInv, ExitInv, MustRead, ReadingHandler, Kind,
     Emits, WaitInv, BodyInv, Ctx, NewInv, InScript, Working, ScriptEnds
<1> QED
  BY <1>1, <1>2, <1>3, <1>4, <1>5, <1>6, <1>7, <1>8, <1>9, <1>10 DEF IInv

LEMMA GeneratorEndsKeeps ==
  ASSUME PlainAccess, IInv, GeneratorEnds
  PROVE  IInv'
<1>0. /\ ctx \in Ctx /\ ctx # NULL /\ ctx' \in Ctx /\ ctx' # NULL
      /\ ctx'.status = "OK"
      /\ ctx'.more = ctx.more /\ ctx'.done = ctx.done
      /\ ctx'.data = ctx.data /\ ctx'.output = ctx.output
  BY NullIsNothing DEF IInv, TypeOK, PointInv, Ctx, GeneratorEnds
<1>1. TypeOK'
  BY <1>0 DEF IInv, TypeOK, PointInv, Points, Status, GeneratorEnds
<1>2. FramesInv'
  BY <1>0 DEF IInv, TypeOK, FramesInv, PointInv, Working, GeneratorEnds
<1>3. NewInv'
  BY <1>0 DEF IInv, NewInv, PointInv, WaitInv, Waiting, Working,
     GeneratorEnds
<1>4. PointInv'
  BY <1>0 DEF IInv, TypeOK, PointInv, WaitInv, Waiting, Kind, Working, Ctx,
     GeneratorEnds
<1>5. WaitInv'
  BY <1>0 DEF IInv, TypeOK, PointInv, WaitInv, BodyInv, RanInv, Waiting,
     Working, Kind, Ctx, GeneratorEnds
<1>6. BodyInv'
  BY <1>0 DEF IInv, TypeOK, PointInv, BodyInv, WaitInv, RanInv, NewInv,
     Kind, ReadingHandler, MustRead, Working, Ctx, Upto, GeneratorEnds
<1>7. CountInv'
  BY <1>0 DEF IInv, TypeOK, FramesInv, PointInv, WaitInv, CountInv, NewInv,
     Waiting, Working, GeneratorEnds
<1>8. RanInv'
  BY <1>0 DEF IInv, TypeOK, PointInv, RanInv, WaitInv, NewInv, Upto, Kind,
     Ctx, Working, GeneratorEnds
<1>9. LengthInv'
  BY <1>0 DEF IInv, TypeOK, PointInv, LengthInv, LengthTrue, Output, Ctx,
     Answer, NewInv, Working, WaitInv, GeneratorEnds
<1>10. ExitInv'
  BY <1>0 DEF IInv, TypeOK, PointInv, ExitInv, MustRead, ReadingHandler,
     Kind, Emits, WaitInv, BodyInv, Ctx, NewInv, InScript, Working,
     GeneratorEnds
<1> QED
  BY <1>1, <1>2, <1>3, <1>4, <1>5, <1>6, <1>7, <1>8, <1>9, <1>10 DEF IInv

LEMMA ExitKeeps ==
  ASSUME PlainAccess, IInv, Exit
  PROVE  IInv'
<1>0. /\ at = "script" => at' = "handler" /\ frames' = frames
      /\ at = "next" => at' = "idle" /\ rc' = NULL /\ frames = <<>> /\ frames' = <<>>
      /\ ctx \in Ctx /\ ctx' \in Ctx /\ ctx # NULL /\ ctx' # NULL
      /\ Len(<<>>) = 0
      /\ rc' \in {rc, NULL} /\ checker' = checker
      /\ frames' \in Seq(PhpPhase \cup {"redirect"})
  BY EmptySeq, NullIsNothing DEF IInv, FramesInv, PointInv, TypeOK, InScript, EndRun, Ctx, Exit
<1>c. exited' \in BOOLEAN
  BY DEF IInv, TypeOK, Exit
<1>d. stranded' \in BOOLEAN
  BY DEF IInv, TypeOK, Exit
<1>e. stranded' <=> (stranded \/ at = "next")
  BY DEF Exit
<1>1. TypeOK'
  BY <1>0, <1>c, <1>d, RequestAssumption, <1>e DEF IInv, TypeOK, PointInv,
     Points, Status, RequestAssumption, Exit, InScript
<1>2. FramesInv'
  BY <1>0, <1>c, <1>d, RequestAssumption, <1>e DEF IInv, TypeOK, FramesInv,
     PointInv, Working, Exit, InScript
<1>3. NewInv'
  BY <1>0, <1>c, <1>d, RequestAssumption, <1>e DEF IInv, NewInv, PointInv,
     WaitInv, Waiting, Working, Exit, InScript
<1>4. PointInv'
  BY <1>0, <1>c, <1>d, RequestAssumption, <1>e DEF IInv, TypeOK, PointInv,
     WaitInv, Waiting, Kind, Working, Ctx, Exit, InScript
<1>5. WaitInv'
  BY <1>0, <1>c, <1>d, RequestAssumption, <1>e DEF IInv, TypeOK, PointInv,
     WaitInv, BodyInv, RanInv, Waiting, Working, Kind, Ctx, Exit, InScript
<1>6. BodyInv'
  BY <1>0, <1>c, <1>d, RequestAssumption, <1>e DEF IInv, TypeOK, PointInv,
     BodyInv, WaitInv, RanInv, NewInv, Kind, ReadingHandler, MustRead,
     Working, Ctx, Upto, Exit, InScript
<1>7. CountInv'
  BY <1>0, <1>c, <1>d, RequestAssumption, <1>e DEF IInv, TypeOK, FramesInv,
     PointInv, WaitInv, CountInv, NewInv, Waiting, Working, Exit, InScript
<1>8. RanInv'
  BY <1>0, <1>c, <1>d, RequestAssumption, <1>e DEF IInv, TypeOK, PointInv,
     RanInv, WaitInv, NewInv, Upto, Kind, Ctx, Working, Exit, InScript
<1>9. LengthInv'
  BY <1>0, <1>c, <1>d, RequestAssumption, <1>e DEF IInv, TypeOK, PointInv,
     LengthInv, LengthTrue, Output, Ctx, Answer, NewInv, Working, WaitInv,
     Exit, InScript
<1>10. ExitInv'
  BY <1>0, <1>c, <1>d, RequestAssumption, <1>e DEF IInv, TypeOK, PointInv,
     ExitInv, MustRead, ReadingHandler, Kind, Emits, WaitInv, BodyInv, Ctx,
     NewInv, InScript, Working, Exit
<1> QED
  BY <1>1, <1>2, <1>3, <1>4, <1>5, <1>6, <1>7, <1>8, <1>9, <1>10 DEF IInv

LEMMA SleepHandlerKeeps ==
  ASSUME PlainAccess, IInv, SleepHandler
  PROVE  IInv'
<1>c. timer' \in BOOLEAN
  BY DEF IInv, TypeOK, SleepHandler
<1>1. TypeOK'
  BY <1>c DEF IInv, TypeOK, PointInv, Points, Status, SleepHandler
<1>2. FramesInv'
  BY <1>c DEF IInv, TypeOK, FramesInv, PointInv, Working, SleepHandler
<1>3. NewInv'
  BY <1>c DEF IInv, NewInv, PointInv, WaitInv, Waiting, Working,
     SleepHandler
<1>4. PointInv'
  BY <1>c DEF IInv, TypeOK, PointInv, WaitInv, Waiting, Kind, Working, Ctx,
     SleepHandler
<1>5. WaitInv'
  BY <1>c DEF IInv, TypeOK, PointInv, WaitInv, BodyInv, RanInv, Waiting,
     Working, Kind, Ctx, SleepHandler
<1>6. BodyInv'
  BY <1>c DEF IInv, TypeOK, PointInv, BodyInv, WaitInv, RanInv, NewInv,
     Kind, ReadingHandler, MustRead, Working, Ctx, Upto, SleepHandler
<1>7. CountInv'
  BY <1>c DEF IInv, TypeOK, FramesInv, PointInv, WaitInv, CountInv, NewInv,
     Waiting, Working, SleepHandler
<1>8. RanInv'
  BY <1>c DEF IInv, TypeOK, PointInv, RanInv, WaitInv, NewInv, Upto, Kind,
     Ctx, Working, SleepHandler
<1>9. LengthInv'
  BY <1>c DEF IInv, TypeOK, PointInv, LengthInv, LengthTrue, Output, Ctx,
     Answer, NewInv, Working, WaitInv, SleepHandler
<1>10. ExitInv'
  BY <1>c DEF IInv, TypeOK, PointInv, ExitInv, MustRead, ReadingHandler,
     Kind, Emits, WaitInv, BodyInv, Ctx, NewInv, InScript, Working,
     SleepHandler
<1> QED
  BY <1>1, <1>2, <1>3, <1>4, <1>5, <1>6, <1>7, <1>8, <1>9, <1>10 DEF IInv

LEMMA RunPostedKeeps ==
  ASSUME PlainAccess, IInv, RunPosted
  PROVE  IInv'
<1>1. TypeOK'
  BY DEF IInv, TypeOK, PointInv, Points, Status, RunPosted
<1>2. FramesInv'
  BY DEF IInv, TypeOK, FramesInv, PointInv, Working, RunPosted
<1>3. NewInv'
  BY DEF IInv, NewInv, PointInv, WaitInv, Waiting, Working, RunPosted
<1>4. PointInv'
  BY DEF IInv, TypeOK, PointInv, WaitInv, Waiting, Kind, Working, Ctx,
     RunPosted
<1>5. WaitInv'
  BY DEF IInv, TypeOK, PointInv, WaitInv, BodyInv, RanInv, Waiting, Working,
     Kind, Ctx, RunPosted
<1>6. BodyInv'
  BY DEF IInv, TypeOK, PointInv, BodyInv, WaitInv, RanInv, NewInv, Kind,
     ReadingHandler, MustRead, Working, Ctx, Upto, RunPosted
<1>7. CountInv'
  BY DEF IInv, TypeOK, FramesInv, PointInv, WaitInv, CountInv, NewInv,
     Waiting, Working, RunPosted
<1>8. RanInv'
  BY DEF IInv, TypeOK, PointInv, RanInv, WaitInv, NewInv, Upto, Kind, Ctx,
     Working, RunPosted
<1>9. LengthInv'
  BY DEF IInv, TypeOK, PointInv, LengthInv, LengthTrue, Output, Ctx, Answer,
     NewInv, Working, WaitInv, RunPosted
<1>10. ExitInv'
  BY DEF IInv, TypeOK, PointInv, ExitInv, MustRead, ReadingHandler, Kind,
     Emits, WaitInv, BodyInv, Ctx, NewInv, InScript, Working, RunPosted
<1> QED
  BY <1>1, <1>2, <1>3, <1>4, <1>5, <1>6, <1>7, <1>8, <1>9, <1>10 DEF IInv

-----------------------------------------------------------------------------

LEMMA StuttersKeep ==
  ASSUME IInv, UNCHANGED vars
  PROVE  IInv'
  BY DEF vars, IInv, TypeOK, FramesInv, NewInv, PointInv, WaitInv, BodyInv, CountInv,
     RanInv, LengthInv, ExitInv, Waiting, Kind, ReadingHandler, MustRead, Output,
     LengthTrue, Emits

LEMMA InitHolds == Init => IInv
<1> SUFFICES ASSUME Init PROVE IInv
  OBVIOUS
<1>1. frames \in Seq(PhpPhase \cup {"redirect"})
  BY EmptySeq DEF Init
<1>2. length \in Nat \cup {-1} /\ count \in Int /\ lost \in Int /\ waits \in Nat
  BY DEF Init
<1>3. TypeOK
  BY <1>1, <1>2 DEF Init, TypeOK, Points, Status, PhpPhase
<1>4. FramesInv /\ NewInv /\ PointInv /\ WaitInv /\ BodyInv
  BY EmptySeq, NullIsNothing
     DEF Init, FramesInv, NewInv, PointInv, WaitInv, BodyInv, Waiting, Working
<1>5. CountInv /\ RanInv /\ LengthInv /\ ExitInv
  BY DEF Init, CountInv, RanInv, LengthInv, LengthTrue, ExitInv, Output, Upto
<1> QED
  BY <1>3, <1>4, <1>5 DEF IInv

LEMMA StepsKeep ==
  ASSUME PlainAccess, IInv, [Next]_vars
  PROVE  IInv'
<1>1. CASE UNCHANGED vars
  BY <1>1, StuttersKeep
<1>2. CASE Wait
  BY <1>2, StuttersKeep DEF Wait
<1>3. CASE PostRead \/ SleepHandler \/ RunPosted \/ BodyEvent
  BY <1>3, PostReadKeeps, SleepHandlerKeeps, RunPostedKeeps, BodyArrivesKeeps,
     BodyLostKeeps DEF BodyEvent
<1>4. CASE Nginx
  BY <1>4, SkipPhaseKeeps, StaticContentKeeps, InternalRedirectKeeps, PhaseDoneKeeps,
     AccessWaitsKeeps, FinalizeQuietlyKeeps, FinalizeWithStatusKeeps,
     FinalizeWithErrorKeeps DEF Nginx
<1>5. CASE Handler
  BY <1>5, EnterHandlerKeeps, ReadBodyNowKeeps, ReadBodyLaterKeeps, ReadBodyFailsKeeps,
     StartScriptKeeps, HandlerAgainKeeps, SetOutputStatusKeeps, SetOutputSendKeeps,
     StackHandlerKeeps DEF Handler
<1>6. CASE Script
  BY <1>6, EchoKeeps, SetStatusKeeps, YieldKeeps, ScriptEndsKeeps, GeneratorEndsKeeps,
     ExitKeeps DEF Script
<1> QED
  BY <1>1, <1>2, <1>3, <1>4, <1>5, <1>6 DEF Next, Step

(***************************************************************************)
(* The inductive invariant holds in every reachable state.                 *)
(***************************************************************************)
THEOREM Invariance ==
  ASSUME PlainAccess
  PROVE  Spec => []IInv
  BY InitHolds, StepsKeep, PTL DEF Spec

(***************************************************************************)
(* Every field of a request keeps its type: in particular a handler never  *)
(* works on a ctx that was given up.                                       *)
(***************************************************************************)
THEOREM TypeCorrect ==
  ASSUME PlainAccess
  PROVE  Spec => []TypeOK
<1>1. IInv => TypeOK
  BY DEF IInv
<1> QED
  BY <1>1, Invariance, PTL

(***************************************************************************)
(* The reference count is exact, whatever phases run inside each other: no *)
(* request is freed under a handler or while somebody waits for it.        *)
(***************************************************************************)
THEOREM CountIsExact ==
  ASSUME PlainAccess
  PROVE  Spec => []CountExact
<1>1. IInv => CountExact
  BY DEF IInv, TypeOK, Points, PointInv, Working, CountInv, CountExact
<1> QED
  BY <1>1, Invariance, PTL

(***************************************************************************)
(* No script that is to have the body runs before it was read.             *)
(***************************************************************************)
THEOREM BodyComesFirst ==
  ASSUME PlainAccess
  PROVE  Spec => []BodyFirst
<1>1. IInv => BodyFirst
  BY DEF IInv, BodyFirst, BodyInv, PointInv, InScript
<1> QED
  BY <1>1, Invariance, PTL

(***************************************************************************)
(* No script is started twice.                                             *)
(***************************************************************************)
THEOREM ScriptsStartOnce ==
  ASSUME PlainAccess
  PROVE  Spec => []StartsOnce
<1>1. IInv => StartsOnce
  BY DEF IInv, StartsOnce, RanInv
<1> QED
  BY <1>1, Invariance, PTL

(***************************************************************************)
(* The announced length is that of the output, but for what redirects drop *)
(* and body filters add.                                                   *)
(***************************************************************************)
THEOREM LengthIsTrue ==
  ASSUME PlainAccess
  PROVE  Spec => []LengthTrue
<1>1. IInv => LengthTrue
  BY DEF IInv, LengthInv
<1> QED
  BY <1>1, Invariance, PTL

(***************************************************************************)
(* A request between events waits for its timer, its body, or for one of   *)
(* three known reasons for nothing.                                        *)
(***************************************************************************)
THEOREM ParkedRequestsWake ==
  ASSUME PlainAccess
  PROVE  Spec => []ParkedWakes
<1>1. IInv => ParkedWakes
  BY DEF IInv, TypeOK, ParkedWakes, Waiting, WaitInv, CountInv
<1> QED
  BY <1>1, Invariance, PTL

(***************************************************************************)
(* After ngx_exit no other script of the request is started.               *)
(***************************************************************************)
THEOREM ExitEnds ==
  ASSUME PlainAccess
  PROVE  Spec => ExitIsLast
<1>1. ASSUME IInv, [Next]_vars
      PROVE  exited => ran' \subseteq ran
  <2> SUFFICES ASSUME exited PROVE ran' \subseteq ran
    OBVIOUS
  <2>1. ~StartScript /\ ~StackHandler
    BY <1>1 DEF IInv, ExitInv, StartScript, StackHandler
  <2>2. ~InternalRedirect /\ ~PhaseDone
    BY <1>1 DEF IInv, ExitInv, InternalRedirect, PhaseDone, FramesInv
  <2> QED
    BY <1>1, <2>1, <2>2
       DEF Next, Step, Nginx, Handler, Script, BodyEvent, vars, Wait, PostRead, SkipPhase,
       StaticContent, AccessWaits, FinalizeQuietly, FinalizeWithStatus, FinalizeWithError,
       EnterHandler, ReadBodyNow, ReadBodyLater, ReadBodyFails, HandlerAgain,
       SetOutputStatus, SetOutputSend, Echo, SetStatus, Yield, ScriptEnds, GeneratorEnds,
       Exit, SleepHandler, RunPosted, BodyArrives, BodyLost
<1>2. IInv /\ [Next]_vars => [exited => ran' \subseteq ran]_vars
  BY <1>1
<1> QED
  BY <1>2, Invariance, PTL DEF Spec, ExitIsLast

=============================================================================
