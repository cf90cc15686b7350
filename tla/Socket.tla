------------------------------- MODULE Socket -------------------------------
(***************************************************************************)
(* The upstream socket of a request (src/ngx_http_php_socket.c): a script  *)
(* connects, sends, receives and closes, and each of these calls suspends  *)
(* it (`yield ngx_socket_recv(...)').  Every event of the connection runs  *)
(* its handler and then resumes the script, whatever the script waits for. *)
(*                                                                         *)
(* nginx registers a connection edge-triggered for reading and writing: an *)
(* edge of the kernel becomes one epoll event, and when both directions    *)
(* are ready the read handler and then the write handler are called, so    *)
(* that one event may resume the script twice.                             *)
(***************************************************************************)
EXTENDS Integers, Sequences

CONSTANT Setups  (* the scripts and the surroundings they run in, see Setup *)

Receive == {"recv", "recvpage", "recvwait", "recvsync"}
UsesSocket == {"send", "close", "clear"} \cup Receive
Call == {"connect", "sleep", "exit"} \cup UsesSocket

(***************************************************************************)
(* "unresolved": the resolver fails; "unreachable": connect() itself does; *)
(* "refused": the server refuses; "lost": it does not answer the connect;  *)
(* "silent": it does not answer the request; "slow": it answers after the  *)
(* read timer has expired; "eof": it closes the connection; "full": the    *)
(* send buffer is full, "partial": and takes the request bit by bit.       *)
(***************************************************************************)
Fault == {"unresolved", "unreachable", "refused", "lost", "silent", "slow",
          "eof", "full", "partial"}

(***************************************************************************)
(* program: the calls of the script, none after a failed one; byName: does *)
(* it connect to a name, not to an address; keepalive: is                  *)
(* php_socket_keepalive configured; greets: does the server speak first;   *)
(* faults: what may go wrong; pieces: a bound on the pieces of a reply.    *)
(***************************************************************************)
Setup == [program : Seq(Call), byName : BOOLEAN, keepalive : BOOLEAN,
          greets : BOOLEAN, faults : SUBSET Fault, pieces : Nat \ {0}]

\* Is the script connected after its first i calls?
Connected(script, i) ==
  \E j \in 1 .. i :
    script[j] = "connect" /\ \A m \in (j + 1) .. i : script[m] \notin {"close", "clear"}

(***************************************************************************)
(* A script uses its connection only while it has one.  One that sends,    *)
(* receives or closes after a close is not modelled: the functions test    *)
(* only whether peer.connection is NULL, which a closed connection is not, *)
(* and act on its slot, whoever has that by then (see Keepalive).          *)
(***************************************************************************)
UsesOpen(script) ==
  \A i \in DOMAIN script : script[i] \in UsesSocket => Connected(script, i - 1)

ASSUME SocketAssumption ==
  /\ Setups \subseteq Setup
  /\ \A s \in Setups : UsesOpen(s.program)

VARIABLES
  setup,     (* the script and its surroundings                            *)
  k,         (* the call it is suspended in, 0 before the first            *)
  gen,       (* ctx->generator_closure: "live", "ended" (the request is    *)
             (* over, too), or "gone" (the request stays)                  *)
  at,        (* what the worker does: "epoll" (nothing), "read", "write"   *)
             (* (it calls that handler) or "resume"                        *)
  thenWrite, (* has the epoll event a write half still to come?            *)
  peer,      (* peer.connection: "null", "held", or "stale": closed        *)
  pooled,    (* is the connection in the keepalive pool?                   *)
  tcp,       (* the connection: "closed", "connecting", "lost" (and never  *)
             (* answered), "up", "refused"                                 *)
  rh, wh,    (* u->read_event_handler, u->write_event_handler              *)
  ready,     (* c->read->ready                                             *)
  resolving, (* is the resolver at work?                                   *)
  timer,     (* the timers set: "read", "write", "sleep"                   *)
  timedout,  (* the events whose timedout flag is set: nothing resets it   *)
  enabled_receive,
  page,      (* u->enabled_receive_page                                    *)
  bufStart,  (* u->buffer.start # NULL                                     *)
  buf,       (* what is in $buf: "none", "own" or "foreign"                *)
  edge,      (* is the connection on epoll's ready list?                   *)
  inbox,     (* pieces the kernel has received                             *)
  eof,       (* has the server closed the connection?                      *)
  full,      (* is the send buffer full?                                   *)
  owed,      (* pieces the server is about to send                         *)
  foreign    (* the next pieces that answer an earlier use                 *)

(* History: what the last recv left in $buf. *)
VARIABLE result

scriptVars == <<setup, k, gen, page>>
workerVars == <<at, thenWrite>>
peerVars == <<peer, pooled, tcp, rh, wh, ready, timedout>>
upstreamVars == <<enabled_receive, bufStart, buf>>
kernelVars == <<edge, inbox, eof, full, owed, foreign>>
vars == <<scriptVars, workerVars, peerVars, resolving, timer, upstreamVars,
          kernelVars, result>>

program == setup.program
Keepalive == setup.keepalive
Faults == setup.faults

\* Has the request a connection?  If not, peer.connection is NULL wherever
\* this is asked in a function of the socket: see Resume.
Attached == peer = "held"

Init ==
  /\ setup \in Setups
  /\ k = 0
  /\ gen = "live"
  /\ at = "resume"
  /\ thenWrite = FALSE
  /\ peer = "null"
  /\ pooled \in {FALSE, Keepalive}
  /\ tcp = IF pooled THEN "up" ELSE "closed"
  /\ rh = "dummy" /\ wh = "dummy"
  /\ ready = FALSE
  /\ resolving = FALSE
  /\ timer = {}
  /\ timedout = {}
  /\ enabled_receive = FALSE
  /\ page = FALSE
  /\ bufStart = FALSE
  /\ buf = "none"
  /\ edge = FALSE
  /\ inbox = 0
  /\ eof = FALSE
  /\ full = FALSE
  /\ owed = 0
  /\ foreign = 0
  /\ result = "none"

-----------------------------------------------------------------------------
(* The calls of the script.  They leave the script and the worker alone.   *)

\* The connection is a new one, not on its way yet or open.
NewConnection(state) ==
  /\ ~pooled
  /\ peer' = "held"
  /\ tcp' = state
  /\ ready' = FALSE /\ timedout' = {}
  /\ inbox' = 0 /\ eof' = FALSE /\ full' = FALSE /\ foreign' = 0
  /\ owed' = IF state = "up" /\ setup.greets THEN 1 ELSE 0
  /\ UNCHANGED pooled

(***************************************************************************)
(* resolve_retval_handler, by what ngx_event_connect_peer returns.         *)
(* NGX_DONE: the pool gives its connection as it is.  Re-adding its read   *)
(* event puts it on the ready list; no timer is set.                       *)
(***************************************************************************)
ConnectDone ==
  /\ pooled
  /\ pooled' = FALSE
  /\ peer' = "held"
  /\ rh' = "connected" /\ wh' = "connected"
  /\ edge' = TRUE
  /\ UNCHANGED <<tcp, ready, timedout, inbox, eof, full, owed, foreign, timer>>

\* NGX_AGAIN: the handshake is under way.
ConnectAgain ==
  /\ \E state \in {"connecting"} \cup (Faults \cap {"lost"}) : NewConnection(state)
  /\ rh' = "connected" /\ wh' = "connected"
  /\ edge' = FALSE
  /\ timer' = timer \cup {"write"}

\* NGX_OK: connected at once, and on the ready list.
ConnectOk ==
  /\ NewConnection("up")
  /\ rh' = "dummy" /\ wh' = "dummy"
  /\ edge' = TRUE
  /\ UNCHANGED timer

\* NGX_ERROR, NGX_BUSY or NGX_DECLINED.
ConnectFails ==
  /\ "unreachable" \in Faults
  /\ ~pooled
  /\ peer' = "null"
  /\ UNCHANGED <<pooled, tcp, rh, wh, ready, timedout, kernelVars, timer>>

ResolvedConnect == ConnectDone \/ ConnectAgain \/ ConnectOk \/ ConnectFails

\* ngx_http_php_socket_connect: an address directly, a name by the resolver.
Connect ==
  /\ enabled_receive' = FALSE
  /\ IF setup.byName
     THEN resolving' = TRUE /\ UNCHANGED <<peerVars, kernelVars, timer>>
     ELSE ResolvedConnect /\ UNCHANGED resolving
  /\ UNCHANGED <<bufStart, buf>>

(***************************************************************************)
(* ngx_http_php_socket_upstream_send.  A complete send sets no timer: the  *)
(* script goes on when the server answers.                                 *)
(***************************************************************************)
SendAll ==
  /\ tcp = "up" /\ ~full
  /\ timer' = timer \ {"write"}
  /\ wh' = "dummy"
  /\ owed' \in IF eof THEN {owed}
               ELSE {owed + n : n \in 1 .. setup.pieces} \cup
                    {owed : f \in Faults \cap {"silent"}}
  /\ UNCHANGED full

SendAgain ==
  /\ \/ tcp \in {"connecting", "lost"} /\ UNCHANGED full
     \/ tcp = "up" /\ full' = TRUE
        /\ (full \/ "partial" \in Faults \/ ("full" \in Faults /\ at = "resume"))
  /\ timer' = timer \cup {"write"}
  /\ wh' = "send"
  /\ UNCHANGED owed

SendError == tcp = "refused" /\ UNCHANGED <<timer, wh, owed, full>>

UpstreamSend == SendAll \/ SendAgain \/ SendError

\* ngx_http_php_socket_send.
Send ==
  /\ IF Attached
     THEN UpstreamSend /\ enabled_receive' = FALSE
     ELSE UNCHANGED <<timer, wh, owed, full, enabled_receive>>
  /\ UNCHANGED <<peer, pooled, tcp, rh, ready, timedout, bufStart, buf, edge,
                 inbox, eof, foreign>>

(***************************************************************************)
(* ngx_http_php_socket_upstream_recv: the outcomes without data set the    *)
(* read timer, and so does, once recvpage was called, the last piece of    *)
(* data that is there.                                                     *)
(***************************************************************************)
RecvData(timers) ==
  /\ ready /\ inbox > 0
  /\ \E n \in 1 .. inbox :
       /\ inbox' = inbox - n
       /\ foreign' = IF n < foreign THEN foreign - n ELSE 0
       /\ ready' = (n < inbox \/ eof)
  /\ buf' = IF foreign > 0 THEN "foreign" ELSE "own"
  /\ bufStart' = FALSE
  /\ timer' = IF page' /\ ~ready' THEN timers \cup {"read"} ELSE timers

RecvEof(timers) ==
  /\ ready /\ inbox = 0 /\ eof
  /\ ready' = FALSE
  /\ bufStart' = FALSE
  /\ buf' = "none"
  /\ timer' = timers \cup {"read"}
  /\ UNCHANGED <<inbox, foreign>>

\* Mutant of RecvAgain: no read timer.
RecvAgainUntimed(timers) ==
  /\ ~ready \/ (inbox = 0 /\ ~eof /\ tcp # "refused")
  /\ ready' = FALSE
  /\ bufStart' = TRUE
  /\ buf' = "none"
  /\ timer' = timers
  /\ UNCHANGED <<inbox, foreign>>

RecvAgain(timers) ==
  /\ ~ready \/ (inbox = 0 /\ ~eof /\ tcp # "refused")
  /\ ready' = FALSE
  /\ bufStart' = TRUE
  /\ buf' = "none"
  /\ timer' = timers \cup {"read"}
  /\ UNCHANGED <<inbox, foreign>>

RecvError(timers) ==
  /\ ready /\ tcp = "refused"
  /\ ready' = FALSE
  /\ bufStart' = TRUE
  /\ buf' = "none"
  /\ timer' = timers
  /\ UNCHANGED <<inbox, foreign>>

UpstreamRecv(timers) ==
  RecvData(timers) \/ RecvEof(timers) \/ RecvAgain(timers) \/ RecvError(timers)

(***************************************************************************)
(* ngx_http_php_socket_recv: from the second call on it re-adds the read   *)
(* event, and epoll reports whatever is ready.                             *)
(***************************************************************************)
Recv ==
  /\ IF Attached
     THEN /\ UpstreamRecv(timer)
          /\ enabled_receive' = TRUE
          /\ edge' = (edge \/ enabled_receive)
          /\ rh' = "recv"
     ELSE /\ buf' = "none"
          /\ UNCHANGED <<ready, inbox, foreign, bufStart, timer,
                         enabled_receive, edge, rh>>
  /\ UNCHANGED <<peer, pooled, tcp, wh, timedout, eof, full, owed>>

\* ngx_http_php_socket_recv_wait: wait_receive is never set.
RecvWait == Recv

(***************************************************************************)
(* ngx_http_php_socket_recv_sync takes what is there, without suspending   *)
(* the script, and leaves the handlers alone.                              *)
(***************************************************************************)
RecvSync ==
  /\ IF Attached
     THEN UpstreamRecv(timer)
     ELSE UNCHANGED <<ready, inbox, foreign, bufStart, buf, timer>>
  /\ UNCHANGED <<peer, pooled, tcp, rh, wh, timedout, enabled_receive, edge,
                 eof, full, owed>>

Sleep ==
  timer' = timer \cup {"sleep"} /\ UNCHANGED <<peerVars, upstreamVars, kernelVars>>

(***************************************************************************)
(* ngx_http_php_socket_finalize: the pool takes the connection with all    *)
(* that is still to come on it, or it is closed and peer.connection left   *)
(* pointing at it.                                                         *)
(***************************************************************************)
ToPool ==
  /\ peer' = "null"
  /\ pooled' = TRUE
  /\ foreign' = inbox + owed
  /\ UNCHANGED <<tcp, ready, edge, inbox, eof, full, owed>>

CloseConnection ==
  /\ peer' = "stale"
  /\ tcp' = "closed"
  /\ ready' = FALSE /\ edge' = FALSE /\ inbox' = 0 /\ eof' = FALSE
  /\ full' = FALSE /\ owed' = 0 /\ foreign' = 0
  /\ UNCHANGED pooled

Finalize ==
  /\ IF Keepalive THEN ToPool ELSE CloseConnection
  /\ enabled_receive' = FALSE
  /\ UNCHANGED <<rh, wh, timedout, bufStart, buf>>

Ignored == UNCHANGED <<peerVars, timer, upstreamVars, kernelVars>>

\* Mutant of Close: the timers of the connection stay set.
CloseTimed ==
  IF Attached THEN Finalize /\ timer' = timer \cup {"sleep"} ELSE Ignored

\* Mutant of Close: the script is not put to sleep, so nothing resumes it.
CloseUnresumed ==
  IF Attached THEN Finalize /\ timer' = timer \ {"read", "write"} ELSE Ignored

\* ngx_http_php_socket_close: finalize, and a sleep of 0 to be resumed.
Close ==
  IF Attached
  THEN Finalize /\ timer' = (timer \ {"read", "write"}) \cup {"sleep"}
  ELSE Ignored

\* ngx_http_php_socket_clear.
Clear ==
  IF Attached THEN Finalize /\ timer' = timer \ {"read", "write"} ELSE Ignored

-----------------------------------------------------------------------------
(* zend_uthread_resume.                                                    *)

\* The write half of the epoll event follows, if it is not stale by now.
Continue ==
  /\ at' = IF thenWrite /\ peer' = "held" THEN "write" ELSE "epoll"
  /\ thenWrite' = FALSE

Waiting(call) == k > 0 /\ program[k] = call

\* What the script finds in $buf when recv returns.
Received ==
  IF buf # "none" THEN buf
  ELSE IF eof \/ tcp = "refused" THEN "eof"
  ELSE IF "read" \in timedout THEN "timeout"
  ELSE "nothing"

Notice ==
  result' = IF \E call \in {"recv", "recvwait"} : Waiting(call)
            THEN Received ELSE result

(***************************************************************************)
(* The script runs up to its next call, and the call suspends it.  It may  *)
(* come too early: a sleep that an event cut short can still resume it     *)
(* while the name of its next server is being resolved, and the call would *)
(* find the connection that it closed.  A behaviour ends before that.      *)
(***************************************************************************)
Resume(call) ==
  /\ at = "resume"
  /\ gen = "live"
  /\ k < Len(program)
  /\ program[k + 1] = call
  /\ call \in UsesSocket => peer # "stale"
  /\ k' = k + 1
  /\ page' = (call # "connect" /\ (page \/ call = "recvpage"))
  /\ Notice
  /\ UNCHANGED setup

ResumeConnect ==
  Resume("connect") /\ Connect /\ Continue /\ UNCHANGED gen

ResumeSend ==
  Resume("send") /\ Send /\ Continue /\ UNCHANGED <<gen, resolving>>

ResumeRecv ==
  Resume("recv") /\ Recv /\ Continue /\ UNCHANGED <<gen, resolving>>

ResumeRecvPage ==
  Resume("recvpage") /\ Recv /\ Continue /\ UNCHANGED <<gen, resolving>>

ResumeRecvWait ==
  Resume("recvwait") /\ RecvWait /\ Continue /\ UNCHANGED <<gen, resolving>>

\* The script runs on.
ResumeRecvSync ==
  Resume("recvsync") /\ RecvSync /\ UNCHANGED <<workerVars, gen, resolving>>

ResumeSleep ==
  Resume("sleep") /\ Sleep /\ Continue /\ UNCHANGED <<gen, resolving>>

ResumeClose ==
  Resume("close") /\ Close /\ Continue /\ UNCHANGED <<gen, resolving>>

\* The script runs on.  The event of a connection that was closed is stale.
ResumeClear ==
  /\ Resume("clear")
  /\ Clear
  /\ thenWrite' = (thenWrite /\ peer' # "stale")
  /\ UNCHANGED <<at, gen, resolving>>

\* ngx_exit unwinds PHP: the closure is destroyed, the socket not touched.
ResumeExit ==
  Resume("exit") /\ gen' = "gone" /\ Ignored /\ Continue /\ UNCHANGED resolving

\* The script ends; the content handler answers, and the request is over.
ScriptEnds ==
  /\ at = "resume"
  /\ gen = "live"
  /\ k = Len(program)
  /\ gen' = "ended"
  /\ Notice
  /\ Ignored
  /\ Continue
  /\ UNCHANGED <<setup, k, page, resolving>>

\* Mutant of ResumeGone: the socket is left alone.
ResumeGoneIdle ==
  /\ at = "resume"
  /\ gen = "gone"
  /\ Ignored
  /\ Continue
  /\ UNCHANGED <<scriptVars, resolving, result>>

\* There is no closure any more: the socket is cleared.  (Closing a slot that
\* is closed and nobody else's comes to nothing.)
ResumeGone ==
  /\ at = "resume"
  /\ gen = "gone"
  /\ Clear
  /\ Continue
  /\ UNCHANGED <<scriptVars, resolving, result>>

-----------------------------------------------------------------------------
(* ngx_http_php_socket_handler: a handler, and then the script is resumed. *)

(***************************************************************************)
(* nginx's epoll module: one event with what is ready now.  (An error      *)
(* counts as both directions.)                                             *)
(***************************************************************************)
EpollEvent ==
  LET in == inbox > 0 \/ eof \/ tcp = "refused"
      out == tcp = "refused" \/ (tcp = "up" /\ ~full)
  IN  /\ at = "epoll"
      /\ edge
      /\ Attached
      /\ edge' = FALSE
      /\ ready' = (ready \/ in)
      /\ at' = IF in THEN "read" ELSE IF out THEN "write" ELSE "epoll"
      /\ thenWrite' = (in /\ out)
      /\ UNCHANGED <<scriptVars, peer, pooled, tcp, rh, wh, timedout, resolving,
                     timer, upstreamVars, inbox, eof, full, owed, foreign, result>>

\* ngx_http_php_keepalive_close_handler.
PooledEvent ==
  /\ at = "epoll"
  /\ edge
  /\ pooled
  /\ IF inbox > 0 \/ eof \/ tcp = "refused"
     THEN /\ pooled' = FALSE
          /\ tcp' = "closed"
          /\ inbox' = 0 /\ eof' = FALSE /\ owed' = 0 /\ foreign' = 0
          /\ full' = FALSE
     ELSE UNCHANGED <<pooled, tcp, inbox, eof, owed, foreign, full>>
  /\ edge' = FALSE
  /\ ready' = FALSE
  /\ UNCHANGED <<scriptVars, workerVars, peer, rh, wh, timedout, resolving,
                 timer, upstreamVars, result>>

\* A failed connect (test_connect) is ignored.
ConnectedHandler ==
  /\ timer' = timer \ {"write"}
  /\ rh' = "dummy" /\ wh' = "dummy"
  /\ UNCHANGED <<ready, upstreamVars, kernelVars>>

DummyHandler == UNCHANGED <<timer, rh, wh, ready, upstreamVars, kernelVars>>

\* Mutant of RecvHandler: it only lets the script go on.
RecvHandlerIdle ==
  /\ timer' = timer \ {"read"}
  /\ enabled_receive' = TRUE
  /\ UNCHANGED <<ready, bufStart, buf, rh, wh, kernelVars>>

RecvHandler ==
  IF "read" \in timedout
  THEN DummyHandler
  ELSE /\ enabled_receive' = TRUE
       /\ IF bufStart
          THEN /\ UpstreamRecv(timer \ {"read"})
               /\ UNCHANGED <<edge, eof, full, owed>>
          ELSE /\ timer' = timer \ {"read"}
               /\ UNCHANGED <<ready, bufStart, buf, kernelVars>>
       /\ UNCHANGED <<rh, wh>>

SendHandler ==
  IF "write" \in timedout
  THEN DummyHandler
  ELSE UpstreamSend /\ UNCHANGED <<rh, ready, upstreamVars, edge, inbox, eof, foreign>>

CallHandler(half, handler) ==
  /\ at = half
  /\ UNCHANGED scriptVars
  /\ \/ handler = "connected" /\ ConnectedHandler
     \/ handler = "dummy" /\ DummyHandler
     \/ handler = "recv" /\ RecvHandler
     \/ handler = "send" /\ SendHandler
  /\ at' = "resume"
  /\ UNCHANGED <<thenWrite, peer, pooled, tcp, timedout, resolving, result>>

ReadHandler == CallHandler("read", rh)

WriteHandler == CallHandler("write", wh)

-----------------------------------------------------------------------------
(* Timers and the resolver.                                                *)

\* Nothing is on its way that would be faster than a timer.
Quiet == ~edge /\ owed = 0 /\ ~full /\ tcp # "connecting"

Expire(t) ==
  /\ at = "epoll"
  /\ t \in timer
  /\ timer' = timer \ {t}
  /\ UNCHANGED resolving

SocketTimeout(half) ==
  /\ Expire(half)
  /\ Quiet \/ (half = "read" /\ "slow" \in Faults)
  /\ timedout' = timedout \cup {half}
  /\ at' = half
  /\ UNCHANGED <<scriptVars, thenWrite, peer, pooled, tcp, rh, wh, ready,
                 upstreamVars, kernelVars, result>>

SleepHandler ==
  /\ Expire("sleep")
  /\ at' = "resume"
  /\ UNCHANGED <<scriptVars, thenWrite, peerVars, upstreamVars, kernelVars,
                 result>>

\* resolve_handler: it does not resume the script, and a failure is ignored.
ResolveHandler ==
  /\ at = "epoll"
  /\ resolving
  /\ resolving' = FALSE
  /\ \/ ResolvedConnect
     \/ "unresolved" \in Faults /\ UNCHANGED <<peerVars, kernelVars, timer>>
  /\ UNCHANGED <<scriptVars, workerVars, upstreamVars, result>>

-----------------------------------------------------------------------------
(* The kernel and the server, whatever the worker is doing.                *)

KernelStep ==
  UNCHANGED <<scriptVars, workerVars, peer, pooled, rh, wh, ready, timedout,
              resolving, timer, upstreamVars, result>>

Established ==
  /\ tcp = "connecting"
  /\ tcp' = "up"
  /\ edge' = TRUE
  /\ owed' = IF setup.greets THEN 1 ELSE 0
  /\ UNCHANGED <<inbox, eof, full, foreign>>
  /\ KernelStep

Refused ==
  /\ "refused" \in Faults
  /\ tcp = "connecting"
  /\ tcp' = "refused"
  /\ edge' = TRUE
  /\ UNCHANGED <<inbox, eof, full, owed, foreign>>
  /\ KernelStep

Answer ==
  /\ owed > 0
  /\ owed' = owed - 1
  /\ inbox' = inbox + 1
  /\ edge' = TRUE
  /\ UNCHANGED <<tcp, eof, full, foreign>>
  /\ KernelStep

\* What the server still owed is not sent any more.
ServerCloses ==
  /\ "eof" \in Faults
  /\ tcp = "up"
  /\ ~eof
  /\ eof' = TRUE
  /\ owed' = 0
  /\ foreign' = IF foreign > inbox THEN inbox ELSE foreign
  /\ edge' = TRUE
  /\ UNCHANGED <<tcp, inbox, full>>
  /\ KernelStep

Drained ==
  /\ full
  /\ full' = FALSE
  /\ edge' = TRUE
  /\ UNCHANGED <<tcp, inbox, eof, owed, foreign>>
  /\ KernelStep

-----------------------------------------------------------------------------

Worker ==
  \/ ResumeConnect
  \/ ResumeSend
  \/ ResumeRecv
  \/ ResumeRecvPage
  \/ ResumeRecvWait
  \/ ResumeRecvSync
  \/ ResumeSleep
  \/ ResumeClose
  \/ ResumeClear
  \/ ResumeExit
  \/ ScriptEnds
  \/ ResumeGone
  \/ EpollEvent
  \/ PooledEvent
  \/ ReadHandler
  \/ WriteHandler

Timers ==
  \/ SocketTimeout("read")
  \/ SocketTimeout("write")
  \/ SleepHandler
  \/ ResolveHandler

\* The worker waits in epoll.
Wait == at = "epoll" /\ UNCHANGED vars

Next ==
  \/ Worker
  \/ Timers
  \/ Established
  \/ Refused
  \/ Answer
  \/ ServerCloses
  \/ Drained
  \/ Wait

(***************************************************************************)
(* The worker finishes what it began, timers expire, the kernel gives each *)
(* attempt to connect that is not lost an outcome and drains its buffers,  *)
(* and the server sends what it owes and, where it closes connections at   *)
(* all, closes an idle one in the end.                                     *)
(***************************************************************************)
Fairness ==
  /\ WF_vars(Worker)
  /\ WF_vars(Timers)
  /\ WF_vars(Established \/ Refused)
  /\ WF_vars(Answer)
  /\ WF_vars(ServerCloses)
  /\ WF_vars(Drained)

Spec == Init /\ [][Next]_vars /\ Fairness

-----------------------------------------------------------------------------

TypeOK ==
  /\ setup \in Setups
  /\ k \in 0 .. Len(program)
  /\ gen \in {"live", "ended", "gone"}
  /\ at \in {"epoll", "read", "write", "resume"}
  /\ thenWrite \in BOOLEAN
  /\ peer \in {"null", "held", "stale"}
  /\ pooled \in BOOLEAN
  /\ tcp \in {"closed", "connecting", "lost", "up", "refused"}
  /\ rh \in {"connected", "dummy", "recv"}
  /\ wh \in {"connected", "dummy", "send"}
  /\ ready \in BOOLEAN
  /\ resolving \in BOOLEAN
  /\ timer \subseteq {"read", "write", "sleep"}
  /\ timedout \subseteq {"read", "write"}
  /\ enabled_receive \in BOOLEAN
  /\ page \in BOOLEAN
  /\ bufStart \in BOOLEAN
  /\ buf \in {"none", "own", "foreign"}
  /\ edge \in BOOLEAN
  /\ inbox \in Nat
  /\ eof \in BOOLEAN
  /\ full \in BOOLEAN
  /\ owed \in Nat
  /\ foreign \in 0 .. (inbox + owed)
  /\ result \in {"none", "own", "foreign", "eof", "timeout", "nothing"}

(***************************************************************************)
(* A suspended script is not left for good: something will resume it, an   *)
(* event of its connection that is there or that somebody owes it, a       *)
(* timer, or the resolver.  It is the handlers, and not the call, that     *)
(* provide for it.                                                         *)
(***************************************************************************)
CallsReturn ==
  (at = "epoll" /\ gen = "live") =>
    \/ resolving
    \/ timer # {}
    \/ Attached /\ (edge \/ owed > 0 \/ tcp = "connecting")

\* The name resolves, connect() succeeds, and the server accepts and answers.
Cooperative ==
  Faults \cap {"unresolved", "unreachable", "refused", "silent"} = {}

(***************************************************************************)
(* A script whose peers cooperate is never left suspended with nothing to  *)
(* resume it, in whatever order events, halves of events and timers come.  *)
(***************************************************************************)
Wakes == Cooperative => CallsReturn

(***************************************************************************)
(* A script that ends each of its connections before the next, and before  *)
(* its own end unless it exits, and does not sleep while it is connected:  *)
(* an event would resume it and leave the sleep timer set.                 *)
(***************************************************************************)
Orderly ==
  /\ \A i \in DOMAIN program :
       program[i] \in {"connect", "sleep"} => ~Connected(program, i - 1)
  /\ Connected(program, Len(program)) => program[Len(program)] = "exit"

(***************************************************************************)
(* A timer of a connection is set only while the request has the           *)
(* connection: none fires for one that is closed, or that the pool has     *)
(* given to another request.                                               *)
(***************************************************************************)
TimersAttached ==
  Orderly => (timer \cap {"read", "write"} # {} => Attached)

(***************************************************************************)
(* When the script ends, and its request with it, no timer of the request  *)
(* is set, and no event of the connection leads to the request any more.   *)
(***************************************************************************)
EndsClean ==
  Orderly /\ gen = "ended" => timer = {} /\ ~Attached /\ ~thenWrite /\ ~resolving

(***************************************************************************)
(* When recv returns, $buf holds data, or the server has closed the        *)
(* connection, or the read has timed out: no other event of the connection *)
(* makes a receive return empty-handed.  (A script whose request is sent   *)
(* bit by bit goes on before all of it is sent, and its receive returns    *)
(* when it is.)                                                            *)
(***************************************************************************)
RecvReturnsData == "partial" \notin Faults => result # "nothing"

(***************************************************************************)
(* What recv returns was sent to this use of the connection and not to an  *)
(* earlier one that gave it to the pool.                                   *)
(***************************************************************************)
OwnReply == result # "foreign"

\* A script whose peers cooperate comes to its end.
Finishes == <>(~Cooperative \/ gen # "live")

(***************************************************************************)
(* ngx_exit gives no connection back; its next event does, or its timer,   *)
(* because ngx_http_php_socket_handler finds no closure to resume.  (One   *)
(* that has neither stays for as long as the request.)                     *)
(***************************************************************************)
ExitReleases ==
  gen = "gone" /\ (edge \/ timer \cap {"read", "write"} # {}) ~> ~Attached

=============================================================================
