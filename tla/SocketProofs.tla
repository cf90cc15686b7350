---------------------------- MODULE SocketProofs ----------------------------
(***************************************************************************)
(* Proofs about Socket.                                                    *)
(***************************************************************************)
EXTENDS Socket, Induction, TLAPS

-----------------------------------------------------------------------------
(* Types.                                                                  *)

LEMMA ProgramType ==
  ASSUME setup \in Setups
  PROVE  /\ program \in Seq(Call)
         /\ setup.byName \in BOOLEAN /\ setup.keepalive \in BOOLEAN
         /\ setup.greets \in BOOLEAN
         /\ setup.faults \subseteq Fault /\ setup.pieces \in Nat /\ setup.pieces > 0
  BY SocketAssumption DEF SocketAssumption, Setup, program

\* The parts of TypeOK that a call of the script may change.
CallSwitches ==
  /\ pooled \in BOOLEAN
  /\ ready \in BOOLEAN
  /\ enabled_receive \in BOOLEAN
  /\ bufStart \in BOOLEAN
  /\ edge \in BOOLEAN
  /\ eof \in BOOLEAN
  /\ full \in BOOLEAN

CallPlaces ==
  /\ peer \in {"null", "held", "stale"}
  /\ tcp \in {"closed", "connecting", "lost", "up", "refused"}
  /\ rh \in {"connected", "dummy", "recv"}
  /\ wh \in {"connected", "dummy", "send"}
  /\ timer \subseteq {"read", "write", "sleep"}
  /\ timedout \subseteq {"read", "write"}
  /\ buf \in {"none", "own", "foreign"}

Pieces ==
  /\ inbox \in Nat
  /\ owed \in Nat
  /\ foreign \in 0 .. (inbox + owed)

CallTypes == CallSwitches /\ CallPlaces /\ Pieces

ScriptTypes ==
  /\ setup \in Setups
  /\ k \in 0 .. Len(program)
  /\ gen \in {"live", "ended", "gone"}
  /\ page \in BOOLEAN

RestTypes ==
  /\ at \in {"epoll", "read", "write", "resume"}
  /\ thenWrite \in BOOLEAN
  /\ resolving \in BOOLEAN
  /\ result \in {"none", "own", "foreign", "eof", "timeout", "nothing"}

LEMMA TypeParts == /\ TypeOK <=> CallTypes /\ ScriptTypes /\ RestTypes
                   /\ TypeOK' <=> CallTypes' /\ ScriptTypes' /\ RestTypes'
  BY DEF TypeOK, CallTypes, CallSwitches, CallPlaces, Pieces, ScriptTypes, RestTypes

LEMMA InitTypeOK == Init => TypeOK
<1> SUFFICES ASSUME Init PROVE TypeOK
  OBVIOUS
<1>1. program \in Seq(Call) /\ Keepalive \in BOOLEAN
  BY ProgramType DEF Init, Keepalive
<1>2. CallSwitches
  BY <1>1 DEF Init, CallSwitches
<1>3. tcp \in {"up", "closed"} /\ CallPlaces /\ Pieces
  BY DEF Init, CallPlaces, Pieces
<1>4. 0 \in 0 .. Len(program)
  BY <1>1
<1>5. ScriptTypes
  BY <1>4 DEF Init, ScriptTypes, program
<1>6. RestTypes
  BY DEF Init, RestTypes
<1> QED BY <1>2, <1>3, <1>5, <1>6, TypeParts DEF CallTypes

LEMMA ResolvedConnectTypes ==
  ASSUME TypeOK, ResolvedConnect,
         UNCHANGED <<bufStart, buf>>, enabled_receive' \in BOOLEAN
  PROVE  CallTypes'
<1> USE TypeParts DEF CallTypes
<1>1. CASE ConnectDone
  BY <1>1 DEF ConnectDone, CallSwitches, CallPlaces, Pieces
<1>2. CASE \E state \in {"connecting", "lost", "up"} :
             NewConnection(state) /\ rh' \in {"connected", "dummy"}
             /\ wh' \in {"connected", "dummy"} /\ edge' \in BOOLEAN
             /\ timer' \subseteq {"read", "write", "sleep"}
  <2>1. CallSwitches'
    BY <1>2 DEF NewConnection, CallSwitches
  <2>2. CallPlaces'
    BY <1>2 DEF NewConnection, CallPlaces
  <2>3. Pieces'
    BY <1>2 DEF NewConnection, Pieces
  <2> QED BY <2>1, <2>2, <2>3
<1>3. CASE ConnectAgain
  BY <1>2, <1>3 DEF ConnectAgain, CallPlaces
<1>4. CASE ConnectOk
  BY <1>2, <1>4 DEF ConnectOk, CallPlaces
<1>5. CASE ConnectFails
  BY <1>5 DEF ConnectFails, kernelVars, CallSwitches, CallPlaces, Pieces
<1> QED BY <1>1, <1>3, <1>4, <1>5 DEF ResolvedConnect

LEMMA ConnectTypes ==
  ASSUME TypeOK, Connect
  PROVE  CallTypes' /\ resolving' \in BOOLEAN
<1>1. CASE setup.byName
  <2>1. resolving' = TRUE /\ UNCHANGED <<peerVars, kernelVars, timer, bufStart, buf>>
        /\ enabled_receive' = FALSE
    BY <1>1 DEF Connect
  <2>2. CallSwitches'
    BY <2>1, TypeParts DEF CallTypes, CallSwitches, peerVars, kernelVars
  <2>3. CallPlaces' /\ Pieces'
    BY <2>1, TypeParts DEF CallTypes, CallPlaces, Pieces, peerVars, kernelVars
  <2> QED BY <2>1, <2>2, <2>3 DEF CallTypes
<1>2. CASE ~setup.byName
  <2>1. ResolvedConnect /\ UNCHANGED <<resolving, bufStart, buf>> /\ enabled_receive' = FALSE
    BY <1>2 DEF Connect
  <2>2. resolving' \in BOOLEAN
    BY <2>1, TypeParts DEF RestTypes
  <2> QED BY <2>1, <2>2, ResolvedConnectTypes
<1> QED BY <1>1, <1>2

LEMMA UpstreamSendTypes ==
  ASSUME TypeOK, UpstreamSend
  PROVE  /\ timer' \subseteq {"read", "write", "sleep"}
         /\ wh' \in {"connected", "dummy", "send"}
         /\ full' \in BOOLEAN
         /\ owed' \in Nat /\ owed' >= owed
<1> USE DEF TypeOK
<1>1. CASE SendAll
  <2>1. setup.pieces \in Nat
    BY ProgramType
  <2>2. owed' = owed \/ \E n \in 1 .. setup.pieces : owed' = owed + n
    BY <1>1 DEF SendAll
  <2>3. owed' \in Nat /\ owed' >= owed
    BY <2>1, <2>2
  <2>4. full' \in BOOLEAN
    BY <1>1 DEF SendAll
  <2> QED BY <1>1, <2>3, <2>4 DEF SendAll
<1>2. CASE SendAgain
  <2>1. full' \in BOOLEAN
    BY <1>2 DEF SendAgain
  <2> QED BY <1>2, <2>1 DEF SendAgain
<1>3. CASE SendError
  <2>1. full' \in BOOLEAN
    BY <1>3 DEF SendError
  <2> QED BY <1>3, <2>1 DEF SendError
<1> QED BY <1>1, <1>2, <1>3 DEF UpstreamSend

LEMMA UpstreamRecvTypes ==
  ASSUME TypeOK, NEW timers \in SUBSET {"read", "write", "sleep"}, UpstreamRecv(timers)
  PROVE  /\ timer' \subseteq {"read", "write", "sleep"}
         /\ ready' \in BOOLEAN
         /\ bufStart' \in BOOLEAN
         /\ buf' \in {"none", "own", "foreign"}
         /\ inbox' \in Nat
         /\ owed' = owed => foreign' \in 0 .. (inbox' + owed')
<1> USE DEF TypeOK
<1>1. CASE RecvData(timers)
  <2>1. PICK n \in 1 .. inbox :
          /\ inbox' = inbox - n
          /\ foreign' = IF n < foreign THEN foreign - n ELSE 0
          /\ ready' = (n < inbox \/ eof)
    BY <1>1 DEF RecvData
  <2>2. timer' \subseteq {"read", "write", "sleep"}
    BY <1>1 DEF RecvData
  <2>3. ready' \in BOOLEAN
    BY <2>1
  <2>4. inbox' \in Nat /\ (owed' = owed => foreign' \in 0 .. (inbox' + owed'))
    BY <2>1
  <2>5. bufStart' \in BOOLEAN /\ buf' \in {"none", "own", "foreign"}
    BY <1>1 DEF RecvData
  <2> QED BY <2>2, <2>3, <2>4, <2>5
<1>2. CASE RecvEof(timers)
  BY <1>2 DEF RecvEof
<1>3. CASE RecvAgain(timers)
  BY <1>3 DEF RecvAgain
<1>4. CASE RecvError(timers)
  BY <1>4 DEF RecvError
<1> QED BY <1>1, <1>2, <1>3, <1>4 DEF UpstreamRecv

LEMMA SendTypes ==
  ASSUME TypeOK, Send
  PROVE  CallTypes'
<1> USE TypeParts
<1>1. UNCHANGED <<peer, pooled, tcp, rh, ready, timedout, bufStart, buf, edge,
                  inbox, eof, foreign>>
  BY DEF Send
<1>2. /\ timer' \subseteq {"read", "write", "sleep"}
      /\ wh' \in {"connected", "dummy", "send"}
      /\ full' \in BOOLEAN /\ enabled_receive' \in BOOLEAN
      /\ owed' \in Nat /\ owed' >= owed
  <2>1. CASE Attached
    BY <2>1, UpstreamSendTypes DEF Send
  <2>2. CASE ~Attached
    BY <2>2 DEF Send, CallTypes, CallSwitches, CallPlaces, Pieces
  <2> QED BY <2>1, <2>2
<1>3. CallSwitches'
  BY <1>1, <1>2 DEF CallTypes, CallSwitches
<1>4. CallPlaces'
  BY <1>1, <1>2 DEF CallTypes, CallPlaces
<1>5. Pieces'
  BY <1>1, <1>2 DEF CallTypes, Pieces
<1> QED BY <1>3, <1>4, <1>5 DEF CallTypes

LEMMA ReceivedTypes ==
  ASSUME TypeOK, NEW timers \in SUBSET {"read", "write", "sleep"},
         UpstreamRecv(timers),
         rh' \in {"connected", "dummy", "recv"},
         edge' \in BOOLEAN, enabled_receive' \in BOOLEAN,
         UNCHANGED <<peer, pooled, tcp, wh, timedout, eof, full, owed>>
  PROVE  CallTypes'
<1> USE TypeParts, UpstreamRecvTypes
<1>1. CallSwitches'
  BY DEF CallTypes, CallSwitches
<1>2. CallPlaces'
  BY DEF CallTypes, CallPlaces
<1>3. Pieces'
  BY DEF CallTypes, Pieces
<1> QED BY <1>1, <1>2, <1>3 DEF CallTypes

LEMMA RecvTypes ==
  ASSUME TypeOK, Recv
  PROVE  CallTypes'
<1> USE TypeParts
<1>1. CASE Attached
  <2>1. /\ UpstreamRecv(timer) /\ enabled_receive' = TRUE
        /\ edge' = (edge \/ enabled_receive) /\ rh' = "recv"
        /\ UNCHANGED <<peer, pooled, tcp, wh, timedout, eof, full, owed>>
    BY <1>1 DEF Recv
  <2>2. edge' \in BOOLEAN
    BY <2>1
  <2>3. timer \in SUBSET {"read", "write", "sleep"}
    BY DEF CallTypes, CallPlaces
  <2> QED BY <2>1, <2>2, <2>3, ReceivedTypes
<1>2. CASE ~Attached
  <2>1. /\ buf' = "none"
        /\ UNCHANGED <<ready, inbox, foreign, bufStart, timer, enabled_receive,
                       edge, rh, peer, pooled, tcp, wh, timedout, eof, full, owed>>
    BY <1>2 DEF Recv
  <2> QED BY <2>1 DEF CallTypes, CallSwitches, CallPlaces, Pieces
<1> QED BY <1>1, <1>2

LEMMA RecvSyncTypes ==
  ASSUME TypeOK, RecvSync
  PROVE  CallTypes'
<1> USE TypeParts
<1>1. UNCHANGED <<peer, pooled, tcp, rh, wh, timedout, enabled_receive, edge,
                  eof, full, owed>>
  BY DEF RecvSync
<1>2. CASE Attached
  <2>1. UpstreamRecv(timer)
    BY <1>2 DEF RecvSync
  <2>2. /\ timer \in SUBSET {"read", "write", "sleep"}
        /\ rh' \in {"connected", "dummy", "recv"}
        /\ edge' \in BOOLEAN /\ enabled_receive' \in BOOLEAN
    BY <1>1 DEF CallTypes, CallSwitches, CallPlaces
  <2> QED BY <1>1, <2>1, <2>2, ReceivedTypes
<1>3. CASE ~Attached
  <2>1. UNCHANGED <<ready, inbox, foreign, bufStart, buf, timer>>
    BY <1>3 DEF RecvSync
  <2> QED BY <1>1, <2>1 DEF CallTypes, CallSwitches, CallPlaces, Pieces
<1> QED BY <1>2, <1>3

LEMMA FinalizeTypes ==
  ASSUME TypeOK, Finalize, timer' \subseteq {"read", "write", "sleep"}
  PROVE  CallTypes'
<1> USE TypeParts
<1>1. CallSwitches'
  BY DEF Finalize, ToPool, CloseConnection, CallTypes, CallSwitches
<1>2. CallPlaces'
  BY DEF Finalize, ToPool, CloseConnection, CallTypes, CallPlaces
<1>3. Pieces'
  BY DEF Finalize, ToPool, CloseConnection, CallTypes, Pieces
<1> QED BY <1>1, <1>2, <1>3 DEF CallTypes

LEMMA IgnoredTypes ==
  ASSUME TypeOK, Ignored
  PROVE  CallTypes'
  BY DEF Ignored, peerVars, upstreamVars, kernelVars, CallTypes, CallSwitches, CallPlaces, Pieces, TypeOK

LEMMA CloseTypes ==
  ASSUME TypeOK, Close \/ Clear
  PROVE  CallTypes'
<1>1. CASE Attached
  <2>1. Finalize /\ timer' \subseteq timer \cup {"sleep"}
    BY <1>1 DEF Close, Clear
  <2>2. timer' \subseteq {"read", "write", "sleep"}
    BY <2>1 DEF TypeOK
  <2> QED BY <2>1, <2>2, FinalizeTypes
<1>2. CASE ~Attached
  BY <1>2, IgnoredTypes DEF Close, Clear
<1> QED BY <1>1, <1>2

LEMMA SleepTypes ==
  ASSUME TypeOK, Sleep
  PROVE  CallTypes'
  BY DEF Sleep, peerVars, upstreamVars, kernelVars, CallTypes, CallSwitches, CallPlaces, Pieces, TypeOK

LEMMA ContinueTypes ==
  ASSUME Continue
  PROVE  at' \in {"epoll", "write"} /\ thenWrite' = FALSE
  BY DEF Continue

LEMMA ResumeTypes ==
  ASSUME TypeOK, NEW call, Resume(call)
  PROVE  /\ setup' = setup
         /\ setup' \in Setups
         /\ k' \in 0 .. Len(program')
         /\ page' \in BOOLEAN
         /\ result' \in {"none", "own", "foreign", "eof", "timeout", "nothing"}
<1>1. setup' = setup /\ program' = program /\ k < Len(program) /\ k' = k + 1
  BY DEF Resume, program
<1>2. Len(program) \in Nat
  BY ProgramType DEF TypeOK
<1>3. page' \in BOOLEAN
  BY DEF Resume, TypeOK
<1>4. result' \in {"none", "own", "foreign", "eof", "timeout", "nothing"}
  BY DEF Resume, Notice, Received, TypeOK
<1> QED BY <1>1, <1>2, <1>3, <1>4 DEF TypeOK

LEMMA ScriptStepTypes ==
  ASSUME TypeOK, NEW call, Resume(call), CallTypes',
         Continue \/ (UNCHANGED at /\ thenWrite' \in BOOLEAN),
         gen' \in {gen, "gone"}, resolving' \in BOOLEAN
  PROVE  TypeOK'
<1>1. ScriptTypes'
  BY ResumeTypes DEF ScriptTypes, TypeOK
<1>2. RestTypes'
  BY ResumeTypes, ContinueTypes DEF workerVars, RestTypes, TypeOK
<1> QED BY <1>1, <1>2, TypeParts

LEMMA ScriptTypesKept ==
  ASSUME TypeOK, \/ ResumeConnect \/ ResumeSend \/ ResumeRecv \/ ResumeRecvPage
                 \/ ResumeRecvWait \/ ResumeRecvSync \/ ResumeSleep
                 \/ ResumeClose \/ ResumeClear \/ ResumeExit
  PROVE  TypeOK'
<1>0. resolving' = resolving => resolving' \in BOOLEAN
  BY DEF TypeOK
<1>1. CASE ResumeConnect
  BY <1>1, ConnectTypes, ScriptStepTypes DEF ResumeConnect
<1>2. CASE ResumeSend
  BY <1>0, <1>2, SendTypes, ScriptStepTypes DEF ResumeSend
<1>3. CASE ResumeRecv
  BY <1>0, <1>3, RecvTypes, ScriptStepTypes DEF ResumeRecv
<1>4. CASE ResumeRecvPage
  BY <1>0, <1>4, RecvTypes, ScriptStepTypes DEF ResumeRecvPage
<1>5. CASE ResumeRecvWait
  BY <1>0, <1>5, RecvTypes, ScriptStepTypes DEF ResumeRecvWait, RecvWait
<1>6. CASE ResumeRecvSync
  <2>1. UNCHANGED at /\ thenWrite' \in BOOLEAN
    BY <1>6 DEF ResumeRecvSync, workerVars, TypeOK
  <2> QED BY <1>0, <1>6, <2>1, RecvSyncTypes, ScriptStepTypes DEF ResumeRecvSync
<1>7. CASE ResumeSleep
  BY <1>0, <1>7, SleepTypes, ScriptStepTypes DEF ResumeSleep
<1>8. CASE ResumeClose
  BY <1>0, <1>8, CloseTypes, ScriptStepTypes DEF ResumeClose
<1>9. CASE ResumeClear
  <2>1. UNCHANGED at /\ thenWrite' \in BOOLEAN
    BY <1>9 DEF ResumeClear
  <2> QED BY <1>0, <1>9, <2>1, CloseTypes, ScriptStepTypes DEF ResumeClear
<1>10. CASE ResumeExit
  BY <1>0, <1>10, IgnoredTypes, ScriptStepTypes DEF ResumeExit
<1> QED BY <1>1, <1>2, <1>3, <1>4, <1>5, <1>6, <1>7, <1>8, <1>9, <1>10

LEMMA EndTypesKept ==
  ASSUME TypeOK, ScriptEnds \/ ResumeGone
  PROVE  TypeOK'
<1>1. CallTypes'
  BY IgnoredTypes, CloseTypes DEF ScriptEnds, ResumeGone
<1>2. ScriptTypes'
  BY TypeParts DEF ScriptEnds, ResumeGone, scriptVars, ScriptTypes, program
<1>3. result' \in {"none", "own", "foreign", "eof", "timeout", "nothing"}
  BY DEF ScriptEnds, ResumeGone, Notice, Received, TypeOK
<1>4. resolving' \in BOOLEAN /\ Continue
  BY DEF ScriptEnds, ResumeGone, TypeOK
<1>5. RestTypes'
  BY <1>3, <1>4, ContinueTypes DEF RestTypes
<1> QED BY <1>1, <1>2, <1>5, TypeParts

LEMMA ScriptUnchanged ==
  ASSUME TypeOK, UNCHANGED scriptVars
  PROVE  ScriptTypes'
  BY TypeParts DEF scriptVars, ScriptTypes, program

LEMMA EventTypesKept ==
  ASSUME TypeOK, EpollEvent \/ PooledEvent
  PROVE  TypeOK'
<1> USE TypeParts
<1>1. CASE EpollEvent
  <2>1. CallSwitches'
    BY <1>1 DEF EpollEvent, CallTypes, CallSwitches, upstreamVars
  <2>2. CallPlaces' /\ Pieces'
    BY <1>1 DEF EpollEvent, CallTypes, CallPlaces, Pieces, upstreamVars
  <2>3. RestTypes'
    BY <1>1 DEF EpollEvent, RestTypes
  <2> QED BY <1>1, <2>1, <2>2, <2>3, ScriptUnchanged DEF EpollEvent, CallTypes
<1>2. CASE PooledEvent
  <2>1. CallSwitches'
    BY <1>2 DEF PooledEvent, CallTypes, CallSwitches, upstreamVars
  <2>2. CallPlaces'
    BY <1>2 DEF PooledEvent, CallTypes, CallPlaces, upstreamVars
  <2>3. \/ inbox' = 0 /\ owed' = 0 /\ foreign' = 0
        \/ UNCHANGED <<inbox, owed, foreign>>
    BY <1>2 DEF PooledEvent
  <2>5. Pieces'
    BY <2>3 DEF CallTypes, Pieces
  <2>4. RestTypes'
    BY <1>2 DEF PooledEvent, RestTypes, workerVars
  <2> QED BY <1>2, <2>1, <2>2, <2>4, <2>5, ScriptUnchanged DEF PooledEvent, CallTypes
<1> QED BY <1>1, <1>2

LEMMA HandlerTypesKept ==
  ASSUME TypeOK, ReadHandler \/ WriteHandler
  PROVE  TypeOK'
<1> USE TypeParts
<1>1. PICK half \in {"read", "write"}, handler \in {rh, wh} : CallHandler(half, handler)
  BY DEF ReadHandler, WriteHandler
<1>2. UNCHANGED <<scriptVars, thenWrite, peer, pooled, tcp, timedout, resolving, result>>
      /\ at' = "resume"
  BY <1>1 DEF CallHandler
<1>3. CASE ConnectedHandler \/ DummyHandler
  BY <1>2, <1>3, ScriptUnchanged
     DEF ConnectedHandler, DummyHandler, upstreamVars, kernelVars,
         CallTypes, CallSwitches, CallPlaces, Pieces, RestTypes
<1>4. CASE RecvHandler /\ "read" \notin timedout
  <2>1. UNCHANGED <<rh, wh, edge, eof, full, owed>> /\ enabled_receive' = TRUE
    BY <1>4 DEF RecvHandler, kernelVars
  <2>2. CASE bufStart
    <3>1. timer \ {"read"} \in SUBSET {"read", "write", "sleep"}
      BY DEF CallTypes, CallPlaces
    <3>2. UpstreamRecv(timer \ {"read"})
      BY <1>4, <2>2 DEF RecvHandler
    <3>3. rh' \in {"connected", "dummy", "recv"} /\ edge' \in BOOLEAN
      BY <2>1 DEF CallTypes, CallPlaces, CallSwitches
    <3>4. CallTypes'
      BY <1>2, <2>1, <3>1, <3>2, <3>3, ReceivedTypes
    <3> QED BY <1>2, <3>4, ScriptUnchanged DEF RestTypes
  <2>3. CASE ~bufStart
    <3>1. timer' = timer \ {"read"} /\ UNCHANGED <<ready, bufStart, buf, kernelVars>>
      BY <1>4, <2>3 DEF RecvHandler
    <3> QED BY <1>2, <2>1, <3>1, ScriptUnchanged
            DEF kernelVars, CallTypes, CallSwitches, CallPlaces, Pieces, RestTypes
  <2> QED BY <2>2, <2>3
<1>5. CASE SendHandler /\ "write" \notin timedout
  <2>1. UpstreamSend
        /\ UNCHANGED <<rh, ready, upstreamVars, edge, inbox, eof, foreign>>
    BY <1>5 DEF SendHandler
  <2>2. CallSwitches'
    BY <1>2, <2>1, UpstreamSendTypes DEF upstreamVars, CallTypes, CallSwitches
  <2>3. CallPlaces'
    BY <1>2, <2>1, UpstreamSendTypes DEF upstreamVars, CallTypes, CallPlaces
  <2>4. Pieces'
    BY <1>2, <2>1, UpstreamSendTypes DEF CallTypes, Pieces
  <2> QED BY <1>2, <2>2, <2>3, <2>4, ScriptUnchanged DEF RestTypes, CallTypes
<1> QED BY <1>1, <1>3, <1>4, <1>5 DEF CallHandler, RecvHandler, SendHandler

LEMMA TimerTypesKept ==
  ASSUME TypeOK, Timers
  PROVE  TypeOK'
<1> USE TypeParts
<1>1. ASSUME NEW half \in {"read", "write"}, SocketTimeout(half)
      PROVE  TypeOK'
  <2>1. /\ timer' = timer \ {half}
        /\ timedout' = timedout \cup {half}
        /\ at' = half
        /\ UNCHANGED <<scriptVars, thenWrite, peer, pooled, tcp, rh, wh, ready,
                       upstreamVars, kernelVars, result, resolving>>
    BY <1>1 DEF SocketTimeout, Expire
  <2> QED BY <2>1, ScriptUnchanged
          DEF upstreamVars, kernelVars, CallTypes, CallSwitches, CallPlaces, Pieces, RestTypes
<1>2. CASE SleepHandler
  <2>1. /\ timer' = timer \ {"sleep"}
        /\ at' = "resume"
        /\ UNCHANGED <<scriptVars, thenWrite, peerVars, upstreamVars, kernelVars,
                       result, resolving>>
    BY <1>2 DEF SleepHandler, Expire
  <2> QED BY <2>1, ScriptUnchanged
          DEF peerVars, upstreamVars, kernelVars, CallTypes, CallSwitches, CallPlaces,
              Pieces, RestTypes
<1>3. CASE ResolveHandler
  <2>1. resolving' = FALSE /\ UNCHANGED <<scriptVars, workerVars, upstreamVars, result>>
    BY <1>3 DEF ResolveHandler
  <2>2. RestTypes'
    BY <2>1 DEF RestTypes, workerVars
  <2>3. CASE ResolvedConnect
    <3>1. enabled_receive' \in BOOLEAN
      BY <2>1 DEF upstreamVars, CallTypes, CallSwitches
    <3> QED BY <2>1, <2>2, <2>3, <3>1, ResolvedConnectTypes, ScriptUnchanged DEF upstreamVars
  <2>4. CASE UNCHANGED <<peerVars, kernelVars, timer>>
    BY <2>1, <2>2, <2>4, ScriptUnchanged
       DEF peerVars, kernelVars, upstreamVars, CallTypes, CallSwitches, CallPlaces, Pieces
  <2> QED BY <1>3, <2>3, <2>4 DEF ResolveHandler
<1> QED BY <1>1, <1>2, <1>3 DEF Timers

\* Nothing has arrived on a connection that is not open yet.
Fresh == tcp = "connecting" => inbox = 0 /\ owed = 0 /\ foreign = 0

Kernel == Established \/ Refused \/ Answer \/ ServerCloses \/ Drained

LEMMA KernelTypesKept ==
  ASSUME TypeOK, Fresh, Kernel
  PROVE  TypeOK'
<1> USE TypeParts DEF Established, Refused, Answer, ServerCloses, Drained
<1>1. UNCHANGED <<scriptVars, workerVars, peer, pooled, rh, wh, ready, timedout,
                  resolving, timer, upstreamVars, result>>
  BY DEF Kernel, KernelStep
<1>2. tcp' \in {tcp, "up", "refused"} /\ edge' = TRUE
      /\ eof' \in {eof, TRUE} /\ full' \in {full, FALSE}
  BY DEF Kernel
<1>3. CallSwitches'
  BY <1>1, <1>2 DEF upstreamVars, CallTypes, CallSwitches
<1>4. CallPlaces'
  BY <1>1, <1>2 DEF upstreamVars, CallTypes, CallPlaces
<1>5. Pieces'
  <2>1. CASE Established
    <3>1. UNCHANGED <<inbox, foreign>> /\ owed' \in {0, 1} /\ foreign = 0
      BY <2>1 DEF Fresh
    <3> QED BY <3>1 DEF CallTypes, Pieces
  <2>4. CASE Refused \/ Drained
    BY <2>4 DEF CallTypes, Pieces
  <2>2. CASE Answer
    <3>1. owed' = owed - 1 /\ inbox' = inbox + 1 /\ foreign' = foreign /\ owed > 0
      BY <2>2
    <3> QED BY <3>1 DEF CallTypes, Pieces
  <2>3. CASE ServerCloses
    <3>1. owed' = 0 /\ inbox' = inbox /\ foreign' = IF foreign > inbox THEN inbox ELSE foreign
      BY <2>3
    <3> QED BY <3>1 DEF CallTypes, Pieces
  <2> QED BY <2>1, <2>2, <2>3, <2>4 DEF Kernel
<1>6. RestTypes'
  BY <1>1 DEF RestTypes, workerVars
<1> QED BY <1>1, <1>3, <1>4, <1>5, <1>6, ScriptUnchanged DEF CallTypes

\* The actions of Next, grouped as the proofs take them.
Script ==
  \/ ResumeConnect \/ ResumeSend \/ ResumeRecv \/ ResumeRecvPage
  \/ ResumeRecvWait \/ ResumeRecvSync \/ ResumeSleep
  \/ ResumeClose \/ ResumeClear \/ ResumeExit

LEMMA NextCases ==
  ASSUME [Next]_vars
  PROVE  \/ Script \/ ScriptEnds \/ ResumeGone \/ EpollEvent \/ PooledEvent
         \/ ReadHandler \/ WriteHandler \/ Timers \/ Kernel \/ UNCHANGED vars
  BY DEF Next, Worker, Wait, Script, Kernel

LEMMA TypeStep ==
  ASSUME TypeOK, Fresh, [Next]_vars
  PROVE  TypeOK'
<1>1. CASE UNCHANGED vars
  BY <1>1 DEF vars, scriptVars, workerVars, peerVars, upstreamVars, kernelVars,
              TypeOK, program
<1> QED BY <1>1, NextCases, ScriptTypesKept, EndTypesKept, EventTypesKept,
           HandlerTypesKept, TimerTypesKept, KernelTypesKept DEF Script

LEMMA ConnectFresh ==
  ASSUME Fresh, ResolvedConnect
  PROVE  Fresh'
  BY DEF ResolvedConnect, ConnectDone, ConnectAgain, ConnectOk, ConnectFails,
         NewConnection, kernelVars, Fresh

LEMMA SendFresh ==
  ASSUME Fresh, UpstreamSend, UNCHANGED <<tcp, inbox, foreign>>
  PROVE  Fresh'
  BY DEF UpstreamSend, SendAll, SendAgain, SendError, Fresh

LEMMA RecvFresh ==
  ASSUME TypeOK, Fresh, NEW timers, UpstreamRecv(timers), UNCHANGED <<tcp, owed>>
  PROVE  Fresh'
  BY DEF UpstreamRecv, RecvData, RecvEof, RecvAgain, RecvError, Fresh, TypeOK

LEMMA FreshStep ==
  ASSUME TypeOK, Fresh, [Next]_vars
  PROVE  Fresh'
<1>0. CASE UNCHANGED <<tcp, inbox, owed, foreign>>
  BY <1>0 DEF Fresh
<1>1. CASE ResumeConnect \/ ResolveHandler
  BY <1>0, <1>1, ConnectFresh DEF ResumeConnect, ResolveHandler, Connect, peerVars, kernelVars
<1>2. CASE ResumeSend
  BY <1>0, <1>2, SendFresh DEF ResumeSend, Send
<1>3. CASE ResumeRecv \/ ResumeRecvPage \/ ResumeRecvWait \/ ResumeRecvSync
  <2>1. CASE Recv
    BY <1>0, <2>1, RecvFresh DEF Recv
  <2>2. CASE RecvSync
    BY <1>0, <2>2, RecvFresh DEF RecvSync
  <2> QED BY <1>3, <2>1, <2>2
          DEF ResumeRecv, ResumeRecvPage, ResumeRecvWait, ResumeRecvSync, RecvWait
<1>4. CASE Ignored
  BY <1>0, <1>4 DEF Ignored, peerVars, kernelVars
<1>5. CASE Finalize
  BY <1>5 DEF Finalize, ToPool, CloseConnection, Fresh
<1>6. CASE ResumeClose \/ ResumeClear \/ ResumeGone
  BY <1>4, <1>5, <1>6 DEF ResumeClose, ResumeClear, ResumeGone, Close, Clear
<1>7. CASE ResumeSleep \/ ResumeExit \/ ScriptEnds \/ SleepHandler
  BY <1>0, <1>4, <1>7
     DEF ResumeSleep, Sleep, ResumeExit, ScriptEnds, SleepHandler, peerVars, kernelVars
<1>8. CASE EpollEvent \/ PooledEvent
  BY <1>8 DEF EpollEvent, PooledEvent, Fresh
<1>9. CASE ReadHandler \/ WriteHandler
  <2>1. UNCHANGED tcp
    BY <1>9 DEF ReadHandler, WriteHandler, CallHandler
  <2>2. CASE ConnectedHandler \/ DummyHandler
    BY <1>0, <2>1, <2>2 DEF ConnectedHandler, DummyHandler, kernelVars
  <2>3. CASE RecvHandler
    BY <1>0, <2>1, <2>2, <2>3, RecvFresh DEF RecvHandler, kernelVars
  <2>4. CASE SendHandler
    BY <2>1, <2>2, <2>4, SendFresh DEF SendHandler
  <2> QED BY <1>9, <2>2, <2>3, <2>4 DEF ReadHandler, WriteHandler, CallHandler
<1>10. CASE Kernel
  BY <1>10 DEF Kernel, Established, Refused, Answer, ServerCloses, Drained, Fresh
<1>11. CASE UNCHANGED vars
  BY <1>0, <1>11 DEF vars, peerVars, kernelVars
<1>12. CASE SocketTimeout("read") \/ SocketTimeout("write")
  BY <1>0, <1>12 DEF SocketTimeout, kernelVars
<1> QED BY <1>1, <1>2, <1>3, <1>6, <1>7, <1>8, <1>9, <1>10, <1>11, <1>12, NextCases
        DEF Script, Timers

TypeInv == TypeOK /\ Fresh

LEMMA TypeInvariant == Spec => []TypeInv
<1>1. Init => TypeInv
  BY InitTypeOK DEF Init, TypeInv, Fresh
<1>2. TypeInv /\ [Next]_vars => TypeInv'
  BY TypeStep, FreshStep DEF TypeInv
<1> QED BY <1>1, <1>2, PTL DEF Spec

(***************************************************************************)
(* The fields stay in their types; no more pieces answer an earlier use    *)
(* than have arrived or are owed.                                          *)
(***************************************************************************)
THEOREM TypeCorrect == Spec => []TypeOK
  BY TypeInvariant, PTL DEF TypeInv

-----------------------------------------------------------------------------
(* Timers and ends.                                                        *)

LEMMA ConnectedNext ==
  ASSUME NEW script \in Seq(Call), NEW i \in 0 .. (Len(script) - 1)
  PROVE  Connected(script, i + 1) <=>
           \/ script[i + 1] = "connect"
           \/ Connected(script, i) /\ script[i + 1] \notin {"close", "clear"}
<1>1. Len(script) \in Nat /\ i \in Nat
  OBVIOUS
<1>2. ASSUME Connected(script, i + 1), script[i + 1] # "connect"
      PROVE  Connected(script, i) /\ script[i + 1] \notin {"close", "clear"}
  <2>1. PICK j \in 1 .. (i + 1) :
          script[j] = "connect" /\ \A m \in (j + 1) .. (i + 1) : script[m] \notin {"close", "clear"}
    BY <1>2 DEF Connected
  <2>2. j # i + 1
    BY <1>2, <2>1
  <2>3. j \in 1 .. i
    BY <1>1, <2>2
  <2>4. i + 1 \in (j + 1) .. (i + 1)
    BY <1>1, <2>3
  <2>5. \A m \in (j + 1) .. i : m \in (j + 1) .. (i + 1)
    BY <1>1, <2>3
  <2> QED BY <2>1, <2>3, <2>4, <2>5 DEF Connected
<1>3. ASSUME script[i + 1] = "connect"
      PROVE  Connected(script, i + 1)
  <2>1. i + 1 \in 1 .. (i + 1) /\ (i + 1 + 1) .. (i + 1) = {}
    BY <1>1
  <2> QED BY <1>3, <2>1 DEF Connected
<1>4. ASSUME Connected(script, i), script[i + 1] \notin {"close", "clear"}
      PROVE  Connected(script, i + 1)
  <2>1. PICK j \in 1 .. i :
          script[j] = "connect" /\ \A m \in (j + 1) .. i : script[m] \notin {"close", "clear"}
    BY <1>4 DEF Connected
  <2>2. j \in 1 .. (i + 1)
    BY <1>1
  <2>3. \A m \in (j + 1) .. (i + 1) : m \in (j + 1) .. i \/ m = i + 1
    BY <1>1
  <2> QED BY <1>4, <2>1, <2>2, <2>3 DEF Connected
<1> QED BY <1>2, <1>3, <1>4

\* Is the script connected, after the calls it has made?
Open == Connected(program, k)

SocketTimer == timer \cap {"read", "write"} # {}

(***************************************************************************)
(* Who is there to resume a script: before and after its connections only  *)
(* the sleep timer, which then leads to its next call; while it has one,   *)
(* the resolver or the connection, and never the sleep timer.              *)
(***************************************************************************)
LiveInv ==
  gen = "live" =>
    /\ \A i \in 1 .. k : program[i] # "exit"
    /\ ~Open =>
         /\ ~Attached /\ ~resolving /\ ~SocketTimer
         /\ at = "resume" => timer = {}
    /\ Open =>
         /\ "sleep" \notin timer
         /\ Attached => ~resolving
         /\ ~Attached => at = "epoll" /\ timer = {}

OverInv ==
  /\ gen = "ended" => timer = {} /\ ~Attached /\ ~resolving /\ at = "epoll"
  /\ gen = "gone" => ~resolving

HeldInv ==
  /\ at \in {"read", "write"} => Attached
  /\ thenWrite => at \in {"read", "resume"}
  /\ SocketTimer => Attached

OrderInv == Orderly => LiveInv /\ OverInv /\ HeldInv

LEMMA OrderInit == Init => OrderInv
<1> SUFFICES ASSUME Init PROVE LiveInv /\ OverInv /\ HeldInv
  BY DEF OrderInv
<1>1. ~Open
  BY DEF Init, Open, Connected
<1> QED BY <1>1 DEF Init, LiveInv, OverInv, HeldInv, SocketTimer, Attached

OrderParts == LiveInv /\ OverInv /\ HeldInv

\* What the next call of an orderly script means for its connection.
LEMMA NextCall ==
  ASSUME TypeOK, Orderly, NEW call, Resume(call)
  PROVE  /\ Orderly' /\ program' = program
         /\ Open' <=> call = "connect" \/ (Open /\ call \notin {"close", "clear"})
         /\ call \in {"connect", "sleep"} => ~Open
         /\ (call # "exit" /\ \A i \in 1 .. k : program[i] # "exit") =>
              \A i \in 1 .. k' : program'[i] # "exit"
<1>1. program' = program /\ k' = k + 1 /\ k < Len(program) /\ program[k + 1] = call
  BY DEF Resume, program
<1>2. program \in Seq(Call) /\ k \in Nat /\ Len(program) \in Nat
  BY ProgramType DEF TypeOK
<1>3. k \in 0 .. (Len(program) - 1) /\ k + 1 \in DOMAIN program
  BY <1>1, <1>2
<1>4. Orderly'
  BY <1>1 DEF Orderly
<1>5. Open' <=> Connected(program, k + 1)
  BY <1>1 DEF Open, Connected
<1>6. Open' <=> call = "connect" \/ (Open /\ call \notin {"close", "clear"})
  BY <1>1, <1>2, <1>3, <1>5, ConnectedNext DEF Open
<1>7. call \in {"connect", "sleep"} => ~Connected(program, k + 1 - 1)
  BY <1>1, <1>3 DEF Orderly
<1>8. k + 1 - 1 = k
  BY <1>2
<1>9. \A i \in 1 .. k' : i \in 1 .. k \/ i = k + 1
  BY <1>1, <1>2
<1> QED BY <1>1, <1>4, <1>6, <1>7, <1>8, <1>9 DEF Open

\* A call that neither opens nor ends a connection.
LEMMA OtherCallKeeps ==
  ASSUME TypeOK, Orderly, OrderParts, NEW call, Resume(call),
         call \notin {"connect", "close", "clear", "sleep", "exit"},
         UNCHANGED <<gen, resolving, peer>>,
         timer' \subseteq timer \cup {"read", "write"},
         ~Attached => timer' = timer,
         Continue \/ UNCHANGED workerVars
  PROVE  OrderParts'
<1>1. gen = "live" /\ gen' = "live" /\ at = "resume"
  BY DEF Resume
<1>2. (Open' <=> Open) /\ (Attached' <=> Attached)
  BY NextCall DEF Attached
<1>3. \A i \in 1 .. k' : program'[i] # "exit"
  BY <1>1, NextCall DEF OrderParts, LiveInv
<1>4. /\ at' \in {"epoll", "resume", "write"}
      /\ at' = "write" => Attached'
      /\ at' = "resume" => UNCHANGED workerVars
      /\ thenWrite' => at' = "resume"
  BY <1>1 DEF Continue, workerVars, Attached, OrderParts, HeldInv
<1>5. SocketTimer' => Attached'
  BY <1>2 DEF OrderParts, HeldInv, SocketTimer
<1>6. HeldInv'
  BY <1>4, <1>5 DEF HeldInv
<1>7. OverInv'
  BY <1>1 DEF OverInv
<1>8. ~Open => ~Attached' /\ ~resolving' /\ timer' = {}
  BY <1>1, <1>2 DEF OrderParts, LiveInv
<1>9. Open => Attached' /\ ~resolving' /\ "sleep" \notin timer'
  BY <1>1, <1>2 DEF OrderParts, LiveInv
<1>10. LiveInv'
  BY <1>2, <1>3, <1>8, <1>9 DEF LiveInv, SocketTimer
<1> QED BY <1>6, <1>7, <1>10 DEF OrderParts

LEMMA ConnectEffect ==
  ASSUME ResolvedConnect
  PROVE  /\ peer' \in {"held", "null"}
         /\ timer' \subseteq timer \cup {"write"}
         /\ peer' = "null" => timer' = timer
  BY DEF ResolvedConnect, ConnectDone, ConnectAgain, ConnectOk, ConnectFails, NewConnection

LEMMA ConnectKeeps ==
  ASSUME TypeOK, Orderly, OrderParts, ResumeConnect
  PROVE  OrderParts'
<1>1. /\ gen = "live" /\ gen' = "live" /\ at = "resume"
      /\ Resume("connect") /\ Connect /\ Continue
  BY DEF ResumeConnect, Resume
<1>2. ~Open /\ Open' /\ \A i \in 1 .. k' : program'[i] # "exit"
  BY <1>1, NextCall DEF OrderParts, LiveInv
<1>3. ~Attached /\ ~resolving /\ timer = {}
  BY <1>1, <1>2 DEF OrderParts, LiveInv
<1>4. /\ "sleep" \notin timer'
      /\ Attached' => ~resolving'
      /\ ~Attached' => timer' = {}
  BY <1>1, <1>3, ConnectEffect DEF Connect, Attached, peerVars
<1>5. /\ at' \in {"epoll", "write"} /\ ~thenWrite'
      /\ at' = "write" => Attached'
  BY <1>1 DEF Continue, Attached
<1>6. HeldInv'
  BY <1>4, <1>5 DEF HeldInv, SocketTimer
<1>7. LiveInv'
  BY <1>2, <1>4, <1>5 DEF LiveInv
<1> QED BY <1>1, <1>6, <1>7 DEF OrderParts, OverInv

LEMMA SendEffect ==
  ASSUME Send
  PROVE  /\ timer' \subseteq timer \cup {"read", "write"}
         /\ ~Attached => timer' = timer
         /\ peer' = peer
  BY DEF Send, UpstreamSend, SendAll, SendAgain, SendError

LEMMA UpstreamRecvEffect ==
  ASSUME NEW timers, UpstreamRecv(timers)
  PROVE  timer' \subseteq timers \cup {"read"}
  BY DEF UpstreamRecv, RecvData, RecvEof, RecvAgain, RecvError

LEMMA RecvEffect ==
  ASSUME Recv \/ RecvSync
  PROVE  /\ timer' \subseteq timer \cup {"read", "write"}
         /\ ~Attached => timer' = timer
         /\ peer' = peer
<1>1. CASE Attached
  <2>1. UpstreamRecv(timer) /\ peer' = peer
    BY <1>1 DEF Recv, RecvSync
  <2> QED BY <1>1, <2>1, UpstreamRecvEffect
<1>2. CASE ~Attached
  BY <1>2 DEF Recv, RecvSync
<1> QED BY <1>1, <1>2

LEMMA FinalizeEffect ==
  ASSUME Finalize
  PROVE  ~Attached' /\ peer' \in {"null", "stale"}
  BY DEF Finalize, ToPool, CloseConnection, Attached

LEMMA SleepKeeps ==
  ASSUME TypeOK, Orderly, OrderParts, ResumeSleep
  PROVE  OrderParts'
<1>1. /\ gen = "live" /\ gen' = "live" /\ at = "resume" /\ resolving' = resolving
      /\ Resume("sleep") /\ Sleep /\ Continue
  BY DEF ResumeSleep, Resume
<1>2. ~Open /\ ~Open' /\ \A i \in 1 .. k' : program'[i] # "exit"
  BY <1>1, NextCall DEF OrderParts, LiveInv
<1>3. ~Attached /\ ~resolving /\ timer = {}
  BY <1>1, <1>2 DEF OrderParts, LiveInv
<1>4. timer' = {"sleep"} /\ peer' = peer
  BY <1>1, <1>3 DEF Sleep, peerVars
<1>5. ~Attached' /\ at' = "epoll" /\ ~thenWrite'
  BY <1>1, <1>3, <1>4 DEF Continue, Attached
<1> QED BY <1>1, <1>2, <1>3, <1>4, <1>5 DEF OrderParts, LiveInv, OverInv, HeldInv, SocketTimer

LEMMA CloseKeeps ==
  ASSUME TypeOK, Orderly, OrderParts, ResumeClose
  PROVE  OrderParts'
<1>1. /\ gen = "live" /\ gen' = "live" /\ at = "resume" /\ resolving' = resolving
      /\ Resume("close") /\ Close /\ Continue
  BY DEF ResumeClose, Resume
<1>2. ~Open' /\ \A i \in 1 .. k' : program'[i] # "exit"
  BY <1>1, NextCall DEF OrderParts, LiveInv
<1>3. ~resolving
  BY <1>1 DEF OrderParts, LiveInv
<1>4. ~Attached' /\ ~SocketTimer'
  <2>1. CASE Attached
    BY <1>1, <2>1, FinalizeEffect DEF Close, SocketTimer
  <2>2. CASE ~Attached
    BY <1>1, <2>2 DEF Close, Ignored, peerVars, Attached, SocketTimer, OrderParts, HeldInv
  <2> QED BY <2>1, <2>2
<1>5. at' = "epoll" /\ ~thenWrite'
  BY <1>1, <1>4 DEF Continue, Attached
<1> QED BY <1>1, <1>2, <1>3, <1>4, <1>5 DEF OrderParts, LiveInv, OverInv, HeldInv

LEMMA ClearEffect ==
  ASSUME OrderParts, Clear
  PROVE  ~Attached' /\ timer' = timer \ {"read", "write"}
<1>1. CASE Attached
  BY <1>1, FinalizeEffect DEF Clear
<1>2. CASE ~Attached
  BY <1>2 DEF Clear, Ignored, peerVars, Attached, SocketTimer, OrderParts, HeldInv
<1> QED BY <1>1, <1>2

LEMMA ClearKeeps ==
  ASSUME TypeOK, Orderly, OrderParts, ResumeClear
  PROVE  OrderParts'
<1>1. /\ gen = "live" /\ gen' = "live" /\ at = "resume" /\ at' = "resume"
      /\ resolving' = resolving /\ Resume("clear") /\ Clear
  BY DEF ResumeClear, Resume
<1>2. ~Open' /\ \A i \in 1 .. k' : program'[i] # "exit"
  BY <1>1, NextCall DEF OrderParts, LiveInv
<1>3. ~resolving /\ "sleep" \notin timer
  BY <1>1 DEF OrderParts, LiveInv
<1>4. ~Attached' /\ timer' = {}
  BY <1>1, <1>3, ClearEffect DEF TypeOK
<1> QED BY <1>1, <1>2, <1>3, <1>4 DEF OrderParts, LiveInv, OverInv, HeldInv, SocketTimer

LEMMA ExitKeeps ==
  ASSUME TypeOK, Orderly, OrderParts, ResumeExit
  PROVE  OrderParts'
<1>1. /\ gen = "live" /\ gen' = "gone" /\ at = "resume" /\ resolving' = resolving
      /\ peer' = peer /\ timer' = timer /\ Continue
  BY DEF ResumeExit, Resume, Ignored, peerVars
<1>2. ~resolving
  BY <1>1 DEF OrderParts, LiveInv
<1>3. /\ at' \in {"epoll", "write"} /\ ~thenWrite'
      /\ at' = "write" => Attached'
  BY <1>1 DEF Continue, Attached
<1>4. SocketTimer' => Attached'
  BY <1>1 DEF SocketTimer, Attached, OrderParts, HeldInv
<1> QED BY <1>1, <1>2, <1>3, <1>4 DEF OrderParts, LiveInv, OverInv, HeldInv

LEMMA EndKeeps ==
  ASSUME TypeOK, Orderly, OrderParts, ScriptEnds
  PROVE  OrderParts'
<1>1. /\ gen = "live" /\ gen' = "ended" /\ at = "resume" /\ k = Len(program)
      /\ resolving' = resolving /\ peer' = peer /\ timer' = timer /\ Continue
  BY DEF ScriptEnds, Ignored, peerVars
<1>2. ~Open
  <2>1. ASSUME Open PROVE FALSE
    <3>1. program[Len(program)] = "exit"
      BY <1>1, <2>1 DEF Open, Orderly
    <3>2. k \in Nat /\ k # 0
      BY <2>1 DEF TypeOK, Open, Connected
    <3>3. k \in 1 .. k
      BY <3>2
    <3> QED BY <1>1, <3>1, <3>3 DEF OrderParts, LiveInv
  <2> QED BY <2>1
<1>3. ~resolving /\ timer = {} /\ ~Attached
  BY <1>1, <1>2 DEF OrderParts, LiveInv
<1>4. ~Attached' /\ at' = "epoll" /\ ~thenWrite'
  BY <1>1, <1>3 DEF Continue, Attached
<1> QED BY <1>1, <1>3, <1>4 DEF OrderParts, LiveInv, OverInv, HeldInv, SocketTimer

LEMMA GoneKeeps ==
  ASSUME TypeOK, Orderly, OrderParts, ResumeGone
  PROVE  OrderParts'
<1>1. gen = "gone" /\ gen' = "gone" /\ resolving' = resolving /\ Clear /\ Continue
  BY DEF ResumeGone, scriptVars
<1>2. ~Attached' /\ ~SocketTimer' /\ ~resolving'
  BY <1>1, ClearEffect DEF SocketTimer, OrderParts, OverInv
<1>3. at' = "epoll" /\ ~thenWrite'
  BY <1>1, <1>2 DEF Continue, Attached
<1> QED BY <1>1, <1>2, <1>3 DEF OrderParts, LiveInv, OverInv, HeldInv

LEMMA ScriptSame ==
  ASSUME UNCHANGED scriptVars
  PROVE  /\ Orderly' <=> Orderly
         /\ Open' <=> Open
         /\ gen' = gen /\ k' = k /\ program' = program
  BY DEF scriptVars, Orderly, Open, Connected, program

\* A step that leaves the script, its timers and its connection alone.
LEMMA QuietKeeps ==
  ASSUME OrderParts, UNCHANGED <<scriptVars, peer, resolving, timer>>,
         \/ UNCHANGED workerVars
         \/ at = "epoll" /\ Attached /\ at' \in {"read", "write", "epoll"}
            /\ (thenWrite' => at' = "read")
  PROVE  OrderParts'
<1>1. /\ gen' = gen /\ (Open' <=> Open) /\ k' = k /\ program' = program
      /\ (Attached' <=> Attached) /\ (SocketTimer' <=> SocketTimer)
  BY ScriptSame DEF Attached, SocketTimer
<1>2. CASE UNCHANGED workerVars
  BY <1>1, <1>2 DEF workerVars, OrderParts, LiveInv, OverInv, HeldInv
<1>3. CASE at = "epoll" /\ Attached /\ at' \in {"read", "write", "epoll"}
           /\ (thenWrite' => at' = "read")
  BY <1>1, <1>3 DEF OrderParts, LiveInv, OverInv, HeldInv
<1> QED BY <1>2, <1>3

LEMMA EventKeeps ==
  ASSUME OrderParts, EpollEvent \/ PooledEvent
  PROVE  OrderParts'
<1>1. CASE EpollEvent
  <2>1. at' \in {"read", "write", "epoll"} /\ (thenWrite' => at' = "read")
    BY <1>1 DEF EpollEvent
  <2> QED BY <1>1, <2>1, QuietKeeps DEF EpollEvent
<1>2. CASE PooledEvent
  BY <1>2, QuietKeeps DEF PooledEvent
<1> QED BY <1>1, <1>2

LEMMA HandlerEffect ==
  ASSUME ReadHandler \/ WriteHandler
  PROVE  timer' \subseteq timer \cup {"read", "write"}
<1>1. ConnectedHandler \/ DummyHandler \/ RecvHandler \/ SendHandler
  BY DEF ReadHandler, WriteHandler, CallHandler
<1>2. CASE ConnectedHandler \/ DummyHandler
  BY <1>2 DEF ConnectedHandler, DummyHandler
<1>3. CASE RecvHandler
  <2>1. \/ DummyHandler \/ UpstreamRecv(timer \ {"read"})
        \/ timer' = timer \ {"read"}
    BY <1>3 DEF RecvHandler
  <2> QED BY <2>1, UpstreamRecvEffect DEF DummyHandler
<1>4. CASE SendHandler
  BY <1>4 DEF SendHandler, DummyHandler, UpstreamSend, SendAll, SendAgain, SendError
<1> QED BY <1>1, <1>2, <1>3, <1>4

LEMMA HandlerKeeps ==
  ASSUME OrderParts, ReadHandler \/ WriteHandler
  PROVE  OrderParts'
<1>1. /\ UNCHANGED <<scriptVars, thenWrite, peer, resolving>>
      /\ at \in {"read", "write"} /\ at' = "resume"
  BY DEF ReadHandler, WriteHandler, CallHandler
<1>2. timer' \subseteq timer \cup {"read", "write"}
  BY HandlerEffect
<1>3. gen' = gen /\ (Open' <=> Open) /\ k' = k /\ program' = program
  BY <1>1, ScriptSame
<1>4. Attached /\ Attached'
  BY <1>1 DEF OrderParts, HeldInv, Attached
<1>5. gen # "ended"
  BY <1>1 DEF OrderParts, OverInv
<1>6. HeldInv'
  BY <1>1, <1>4 DEF HeldInv
<1>7. OverInv'
  BY <1>1, <1>3, <1>5 DEF OrderParts, OverInv
<1>8. LiveInv'
  BY <1>1, <1>2, <1>3, <1>4 DEF OrderParts, LiveInv
<1> QED BY <1>6, <1>7, <1>8 DEF OrderParts

LEMMA TimersKeep ==
  ASSUME TypeOK, OrderParts, Timers
  PROVE  OrderParts'
<1>1. UNCHANGED scriptVars /\ gen' = gen /\ (Open' <=> Open) /\ k' = k /\ program' = program
  BY ScriptSame DEF Timers, SocketTimeout, SleepHandler, ResolveHandler
<1>2. ASSUME NEW half \in {"read", "write"}, SocketTimeout(half)
      PROVE  OrderParts'
  <2>1. /\ at = "epoll" /\ half \in timer /\ timer' = timer \ {half}
        /\ at' = half /\ UNCHANGED <<thenWrite, peer, resolving>>
    BY <1>2 DEF SocketTimeout, Expire
  <2>2. Attached /\ Attached' /\ ~thenWrite'
    BY <2>1 DEF OrderParts, HeldInv, SocketTimer, Attached
  <2> QED BY <1>1, <2>1, <2>2 DEF OrderParts, LiveInv, OverInv, HeldInv
<1>3. CASE SleepHandler
  <2>1. /\ at = "epoll" /\ "sleep" \in timer /\ timer' = timer \ {"sleep"}
        /\ at' = "resume" /\ UNCHANGED <<thenWrite, peer, resolving>>
    BY <1>3 DEF SleepHandler, Expire, peerVars
  <2>2. ~thenWrite' /\ (Attached' <=> Attached) /\ (SocketTimer' <=> SocketTimer)
    BY <2>1 DEF OrderParts, HeldInv, SocketTimer, Attached
  <2>3. HeldInv'
    BY <2>1, <2>2 DEF OrderParts, HeldInv
  <2>4. OverInv'
    BY <1>1, <2>1 DEF OrderParts, OverInv
  <2>5. gen = "live" => ~Open /\ timer' = {}
    BY <2>1 DEF OrderParts, LiveInv, SocketTimer, TypeOK
  <2>6. LiveInv'
    BY <1>1, <2>1, <2>2, <2>5 DEF OrderParts, LiveInv
  <2> QED BY <2>3, <2>4, <2>6 DEF OrderParts
<1>4. CASE ResolveHandler
  <2>1. at = "epoll" /\ resolving /\ ~resolving' /\ UNCHANGED workerVars
    BY <1>4 DEF ResolveHandler
  <2>2. gen = "live" /\ Open /\ ~Attached /\ timer = {}
    BY <2>1 DEF TypeOK, OrderParts, LiveInv, OverInv
  <2>3. "sleep" \notin timer' /\ (~Attached' => timer' = {})
    BY <1>4, <2>2, ConnectEffect DEF ResolveHandler, peerVars, Attached
  <2>4. at' = "epoll" /\ ~thenWrite'
    BY <2>1 DEF workerVars, OrderParts, HeldInv
  <2> QED BY <1>1, <2>1, <2>2, <2>3, <2>4 DEF OrderParts, LiveInv, OverInv, HeldInv, SocketTimer
<1> QED BY <1>2, <1>3, <1>4 DEF Timers

LEMMA SetupKept ==
  ASSUME [Next]_vars
  PROVE  setup' = setup
  BY NextCases DEF Script, ResumeConnect, ResumeSend, ResumeRecv, ResumeRecvPage,
     ResumeRecvWait, ResumeRecvSync, ResumeSleep, ResumeClose, ResumeClear, ResumeExit,
     Resume, ScriptEnds, ResumeGone, EpollEvent, PooledEvent, ReadHandler, WriteHandler,
     CallHandler, Timers, SocketTimeout, SleepHandler, ResolveHandler, Kernel, Established,
     Refused, Answer, ServerCloses, Drained, KernelStep, scriptVars, vars

LEMMA OrderStep ==
  ASSUME TypeOK, OrderInv, [Next]_vars
  PROVE  OrderInv'
<1> SUFFICES ASSUME Orderly' PROVE OrderParts'
  BY DEF OrderInv, OrderParts
<1>1. Orderly
  <2>1. setup' = setup
    BY SetupKept
  <2> QED BY <2>1 DEF Orderly, Connected, program
<1>2. OrderParts
  BY <1>1 DEF OrderInv, OrderParts
<1>3. CASE ResumeSend
  BY <1>1, <1>2, <1>3, SendEffect, OtherCallKeeps DEF ResumeSend
<1>4. CASE ResumeRecv \/ ResumeRecvPage \/ ResumeRecvWait \/ ResumeRecvSync
  <2>1. PICK call \in Receive :
          /\ Resume(call) /\ (Recv \/ RecvSync)
          /\ (Continue \/ UNCHANGED workerVars) /\ UNCHANGED <<gen, resolving>>
    BY <1>4 DEF ResumeRecv, ResumeRecvPage, ResumeRecvWait, ResumeRecvSync, RecvWait, Receive
  <2>2. call \notin {"connect", "close", "clear", "sleep", "exit"}
    BY DEF Receive
  <2> QED BY <1>1, <1>2, <2>1, <2>2, RecvEffect, OtherCallKeeps
<1>5. CASE Kernel
  BY <1>2, <1>5, QuietKeeps
     DEF Kernel, Established, Refused, Answer, ServerCloses, Drained, KernelStep
<1>6. CASE UNCHANGED vars
  BY <1>2, <1>6, QuietKeeps DEF vars, peerVars
<1> QED BY <1>1, <1>2, <1>3, <1>4, <1>5, <1>6, NextCases, ConnectKeeps, SleepKeeps,
           CloseKeeps, ClearKeeps, ExitKeeps, EndKeeps, GoneKeeps, EventKeeps,
           HandlerKeeps, TimersKeep DEF Script

LEMMA OrderInvariant == Spec => []OrderInv
<1>1. TypeOK /\ OrderInv /\ [Next]_vars => OrderInv'
  BY OrderStep
<1> QED BY <1>1, OrderInit, TypeCorrect, PTL DEF Spec

(***************************************************************************)
(* An orderly script finds a connection whenever it sends, receives or     *)
(* closes: nothing resumes it while the name of its server is still being  *)
(* resolved, nor after a connect that failed.                              *)
(***************************************************************************)
THEOREM CallsFindConnection ==
  Spec => [](/\ Orderly /\ at = "resume" /\ gen = "live"
             /\ k < Len(program) /\ program[k + 1] \in UsesSocket
             => Attached)
<1>1. TypeOK /\ OrderInv =>
        (/\ Orderly /\ at = "resume" /\ gen = "live"
         /\ k < Len(program) /\ program[k + 1] \in UsesSocket
         => Attached)
  <2> SUFFICES ASSUME TypeOK, OrderInv, Orderly, at = "resume", gen = "live",
                      k < Len(program), program[k + 1] \in UsesSocket
               PROVE  Attached
    OBVIOUS
  <2>1. k \in Nat /\ program \in Seq(Call) /\ UsesOpen(program)
    BY SocketAssumption, ProgramType DEF SocketAssumption, TypeOK, program
  <2>2. k + 1 \in DOMAIN program /\ k + 1 - 1 = k
    BY <2>1
  <2>3. Connected(program, k)
    BY <2>1, <2>2 DEF UsesOpen
  <2> QED BY <2>3 DEF OrderInv, LiveInv, Open
<1> QED BY <1>1, OrderInvariant, TypeCorrect, PTL

(***************************************************************************)
(* Whatever fails, no timer is set for a connection that an orderly script *)
(* has closed or given to the pool.                                        *)
(***************************************************************************)
THEOREM TimersAreAttached == Spec => []TimersAttached
<1>1. OrderInv => TimersAttached
  BY DEF OrderInv, HeldInv, SocketTimer, TimersAttached
<1> QED BY <1>1, OrderInvariant, PTL

(***************************************************************************)
(* Whatever fails, nothing leads to a request after the end of its orderly *)
(* script.                                                                 *)
(***************************************************************************)
THEOREM EndsAreClean == Spec => []EndsClean
<1>1. OrderInv => EndsClean
  BY DEF OrderInv, OverInv, HeldInv, EndsClean
<1> QED BY <1>1, OrderInvariant, PTL

-----------------------------------------------------------------------------
(* One exchange: connect, send, receive, close, with a server that waits   *)
(* for the request.                                                        *)

SingleExchange(s) ==
  /\ ~s.greets
  /\ \E r \in {"recv", "recvwait"}, e \in {"close", "clear"} :
       s.program = <<"connect", "send", r, e>>

\* The server says no more: an event reports it in both directions.
Closing == eof \/ tcp = "refused"

Incoming == inbox > 0 \/ Closing

\* What the request needs to go on when its receive returns.
Got == buf # "none" \/ Closing \/ "read" \in timedout \/ "partial" \in Faults

BeforeSend ==
  k \in {0, 1} =>
    /\ inbox = 0 /\ owed = 0 /\ ~full /\ ~enabled_receive
    /\ rh \in {"connected", "dummy"} /\ wh = rh
    /\ "read" \notin timer
    /\ ~Attached => tcp = (IF pooled THEN "up" ELSE "closed") /\ ~ready /\ timedout = {}
    /\ k = 0 => at = "resume" /\ ~thenWrite

(***************************************************************************)
(* An attempt to connect ends with an edge or its timer.  The worker meets *)
(* the end of the connection before the request is sent in both halves of  *)
(* one event.                                                              *)
(***************************************************************************)
ConnectInv ==
  /\ (k = 1 /\ ~Attached) => resolving \/ Faults \cap {"unresolved", "unreachable"} # {}
  /\ (k = 1 /\ Attached) =>
       /\ tcp # "closed"
       /\ tcp \in {"connecting", "lost"} => ~edge /\ ~eof
       /\ at = "epoll" => IF tcp \in {"connecting", "lost"} THEN "write" \in timer ELSE edge
       /\ at # "epoll" =>
            /\ tcp # "connecting"
            /\ eof => edge \/ thenWrite
            /\ edge => eof
            /\ thenWrite => Closing
       /\ ready => Closing /\ thenWrite
       /\ at = "resume" => wh = "dummy"
       /\ "write" \in timedout => tcp = "lost"

(***************************************************************************)
(* A request that is sent is answered, or its connection ends, with an     *)
(* edge; one that is not has its timer.  Data is met in the read half of   *)
(* an event whose write half is still to come.                             *)
(***************************************************************************)
SendInv ==
  k = 2 =>
    /\ Attached
    /\ ~enabled_receive
    /\ "read" \notin timer
    /\ rh = "dummy" /\ wh \in {"dummy", "send"}
    /\ tcp \in {"up", "refused", "lost"}
    /\ Closing => owed = 0
    /\ tcp = "refused" => inbox = 0
    /\ wh = "send" => owed = 0 /\ inbox = 0
    /\ full => wh = "send"
    /\ "write" \in timer => wh = "send" \/ tcp = "refused"
    /\ "write" \in timedout => tcp # "up"
    /\ ready => Incoming
    /\ (ready /\ ~thenWrite) => inbox = 0 /\ owed = 0
    /\ thenWrite => ready
    /\ edge => Incoming \/ wh = "send"
    /\ at = "epoll" =>
         /\ wh = "send" => "write" \in timer
         /\ (wh = "send" /\ tcp = "up") => full \/ edge
         /\ wh = "dummy" => owed > 0 \/ edge \/ tcp = "refused" \/ "silent" \in Faults
    /\ at = "read" => ready
    /\ at = "write" => (edge => Incoming) /\ (full => Closing)
    /\ (at = "resume" /\ wh = "send" /\ tcp = "up") => Closing \/ "partial" \in Faults

\* A connection whose handshake is lost reports nothing.
LostInv ==
  (k \in {2, 3} /\ tcp = "lost") =>
    /\ wh = "send" /\ ~edge /\ ~eof /\ ~full /\ ~ready /\ ~thenWrite
    /\ inbox = 0 /\ owed = 0
    /\ (k = 2 /\ at = "write") => "write" \in timedout
    /\ (k = 3 \/ at # "epoll") => "write" \notin timer
    /\ at \in {"read", "write"} => (at = "write" <=> k = 2)

(***************************************************************************)
(* A receive that found nothing has its timer, and whatever ends it        *)
(* brings what it waited for.                                              *)
(***************************************************************************)
RecvInv ==
  k = 3 =>
    /\ Attached
    /\ rh = "recv" /\ wh \in {"dummy", "send"}
    /\ tcp \in {"up", "refused", "lost"}
    /\ wh = "send" => Closing \/ tcp = "lost" \/ "partial" \in Faults
    /\ full => wh = "send"
    /\ "write" \in timer => wh = "send" \/ tcp = "refused"
    /\ ~bufStart => buf # "none" \/ Closing
    /\ at = "epoll" =>
         /\ "read" \in timer \/ tcp = "refused"
         /\ edge => Incoming \/ "partial" \in Faults
    /\ at = "read" => "read" \in timedout \/ (ready /\ Incoming)
    /\ at \in {"write", "resume"} => Got

CloseInv ==
  /\ (k = 4 /\ gen = "live" /\ at = "epoll") => "sleep" \in timer
  /\ gen = "ended" => k = 4

ResultInv == result = "nothing" => "partial" \in Faults

ExchangeInv ==
  /\ SingleExchange(setup)
  /\ gen \in {"live", "ended"}
  /\ ~page
  /\ Attached => ~pooled
  /\ BeforeSend
  /\ ConnectInv
  /\ SendInv
  /\ LostInv
  /\ RecvInv
  /\ CloseInv
  /\ ResultInv

LEMMA ExchangeProgram ==
  ASSUME TypeOK, SingleExchange(setup)
  PROVE  /\ Len(program) = 4 /\ k \in {0, 1, 2, 3, 4}
         /\ program[1] = "connect" /\ program[2] = "send"
         /\ program[3] \in {"recv", "recvwait"} /\ program[4] \in {"close", "clear"}
         /\ ~setup.greets
         /\ Open <=> k \in {1, 2, 3}
         /\ Orderly
<1>1. PICK r \in {"recv", "recvwait"}, e \in {"close", "clear"} :
        program = <<"connect", "send", r, e>>
  BY DEF SingleExchange, program
<1>2. /\ Len(program) = 4 /\ DOMAIN program = {1, 2, 3, 4}
      /\ program[1] = "connect" /\ program[2] = "send"
      /\ program[3] = r /\ program[4] = e /\ program \in Seq(Call)
  BY <1>1, ProgramType DEF TypeOK
<1>3. k \in {0, 1, 2, 3, 4} /\ ~setup.greets
  BY <1>2 DEF TypeOK, SingleExchange
<1>4. ~Connected(program, 0)
  BY DEF Connected
<1>5. Connected(program, 0 + 1)
  BY <1>2, ConnectedNext
<1>6. Connected(program, 1 + 1)
  BY <1>2, <1>5, ConnectedNext
<1>7. Connected(program, 2 + 1)
  BY <1>2, <1>6, ConnectedNext
<1>8. ~Connected(program, 3 + 1)
  BY <1>2, ConnectedNext
<1>9. Open <=> k \in {1, 2, 3}
  BY <1>3, <1>4, <1>5, <1>6, <1>7, <1>8 DEF Open
<1>10. Orderly
  BY <1>2, <1>4, <1>8 DEF Orderly
<1> QED BY <1>2, <1>3, <1>9, <1>10

ExchangeAll == TypeInv /\ OrderInv /\ ExchangeInv

\* What the invariant of orderly scripts says of an exchange.
LEMMA ExchangeOrder ==
  ASSUME ExchangeAll
  PROVE  /\ k \in {0, 1, 2, 3, 4}
         /\ thenWrite => at \in {"read", "resume"}
         /\ at \in {"read", "write"} => Attached
         /\ (gen = "live" /\ k \in {0, 4}) => ~Attached /\ ~resolving /\ ~SocketTimer
         /\ (gen = "live" /\ k \in {0, 4} /\ at = "resume") => timer = {}
         /\ (gen = "live" /\ k \in {1, 2, 3}) =>
              /\ "sleep" \notin timer
              /\ Attached => ~resolving
              /\ ~Attached => at = "epoll" /\ timer = {}
         /\ gen = "ended" => k = 4 /\ timer = {} /\ ~Attached /\ ~resolving /\ at = "epoll"
<1>1. Orderly /\ k \in {0, 1, 2, 3, 4} /\ (Open <=> k \in {1, 2, 3})
  BY ExchangeProgram DEF ExchangeAll, ExchangeInv, TypeInv
<1>2. LiveInv /\ OverInv /\ HeldInv
  BY <1>1 DEF ExchangeAll, OrderInv
<1> QED BY <1>1, <1>2 DEF LiveInv, OverInv, HeldInv, ExchangeAll, ExchangeInv, CloseInv

\* The call a resumed exchange goes on to.
LEMMA ExchangeCall ==
  ASSUME ExchangeAll, NEW call, Resume(call)
  PROVE  /\ gen = "live" /\ at = "resume" /\ k' = k + 1 /\ setup' = setup
         /\ call = "connect" <=> k = 0
         /\ call = "send" <=> k = 1
         /\ call \in {"recv", "recvwait"} <=> k = 2
         /\ call \in {"close", "clear"} <=> k = 3
         /\ call \in {"connect", "send", "recv", "recvwait", "close", "clear"}
         /\ k \in {0, 1, 2, 3}
         /\ ~page'
         /\ k # 3 => result' = result
         /\ k = 3 => result' = Received
<1>1. /\ Len(program) = 4 /\ k \in {0, 1, 2, 3, 4}
      /\ program[1] = "connect" /\ program[2] = "send"
      /\ program[3] \in {"recv", "recvwait"} /\ program[4] \in {"close", "clear"}
  BY ExchangeProgram DEF ExchangeAll, ExchangeInv, TypeInv
<1>2. /\ gen = "live" /\ at = "resume" /\ k' = k + 1 /\ setup' = setup
      /\ k < Len(program) /\ program[k + 1] = call
  BY DEF Resume
<1>3. k \in {0, 1, 2, 3}
  BY <1>1, <1>2
<1>4. /\ k = 0 => call = "connect"
      /\ k = 1 => call = "send"
      /\ k = 2 => call \in {"recv", "recvwait"}
      /\ k = 3 => call \in {"close", "clear"}
  BY <1>1, <1>2
<1>5. ~page'
  BY <1>3, <1>4 DEF Resume, ExchangeAll, ExchangeInv
<1>6. (\E c \in {"recv", "recvwait"} : Waiting(c)) <=> k = 3
  BY <1>1, <1>3 DEF Waiting
<1>7. result' = IF k = 3 THEN Received ELSE result
  BY <1>6 DEF Resume, Notice
<1> QED BY <1>2, <1>3, <1>4, <1>5, <1>7

\* What a call keeps of the invariant by itself.
LEMMA ExchangeResult ==
  ASSUME ExchangeAll, NEW call, Resume(call)
  PROVE  ResultInv' /\ SingleExchange(setup')
<1>1. setup' = setup /\ (k # 3 => result' = result) /\ (k = 3 => result' = Received)
  BY ExchangeCall
<1>2. ResultInv /\ SingleExchange(setup) /\ Faults' = Faults
  BY <1>1 DEF ExchangeAll, ExchangeInv, Faults
<1>3. k = 3 => (Received = "nothing" => "partial" \in Faults)
  <2>1. k = 3 => Got
    BY ExchangeCall DEF ExchangeAll, ExchangeInv, RecvInv
  <2>2. buf # "nothing"
    BY DEF ExchangeAll, TypeInv, TypeOK
  <2> QED BY <2>1, <2>2 DEF Got, Closing, Received
<1>4. ResultInv'
  BY <1>1, <1>2, <1>3 DEF ResultInv
<1> QED BY <1>1, <1>2, <1>4

\* The attempt to connect of an exchange.
LEMMA ResolvedExchange ==
  ASSUME ExchangeAll, k \in {0, 1}, ~Attached, timer = {}, ResolvedConnect
  PROVE  /\ peer' \in {"held", "null"}
         /\ inbox' = 0 /\ owed' = 0 /\ ~full'
         /\ rh' \in {"connected", "dummy"} /\ wh' = rh'
         /\ "read" \notin timer' /\ ~ready' /\ timedout' = {}
         /\ ~Attached' => /\ UNCHANGED <<tcp, pooled>>
                          /\ "unreachable" \in Faults
         /\ Attached' => /\ ~pooled' /\ tcp' \in {"connecting", "lost", "up"}
                         /\ tcp' = "up" => edge'
                         /\ tcp' # "up" => ~edge' /\ ~eof' /\ "write" \in timer'
<1>1. /\ inbox = 0 /\ owed = 0 /\ ~full /\ ~ready /\ timedout = {}
      /\ pooled => tcp = "up"
      /\ rh \in {"connected", "dummy"} /\ wh = rh
  BY DEF ExchangeAll, ExchangeInv, BeforeSend
<1>2. ~setup.greets
  BY ExchangeProgram DEF ExchangeAll, ExchangeInv, TypeInv
<1>3. CASE ConnectDone
  BY <1>1, <1>3 DEF ConnectDone, Attached
<1>4. CASE ConnectAgain
  <2>1. PICK state \in {"connecting", "lost"} : NewConnection(state)
    BY <1>4 DEF ConnectAgain
  <2> QED BY <1>1, <1>2, <1>4, <2>1 DEF ConnectAgain, NewConnection, Attached
<1>5. CASE ConnectOk
  BY <1>1, <1>2, <1>5 DEF ConnectOk, NewConnection, Attached
<1>6. CASE ConnectFails
  BY <1>1, <1>6 DEF ConnectFails, Attached, kernelVars
<1> QED BY <1>3, <1>4, <1>5, <1>6 DEF ResolvedConnect

LEMMA ConnectExchange ==
  ASSUME ExchangeAll, ResumeConnect
  PROVE  ExchangeInv'
<1>1. /\ gen = "live" /\ at = "resume" /\ k = 0 /\ k' = 1 /\ setup' = setup
      /\ gen' = "live" /\ ~page' /\ ~Attached /\ timer = {} /\ ~thenWrite
      /\ Connect /\ Continue
  BY ExchangeCall, ExchangeOrder DEF ResumeConnect, ExchangeAll, ExchangeInv, BeforeSend
<1>2. ResultInv' /\ SingleExchange(setup')
  BY ExchangeResult DEF ResumeConnect
<1>3. Faults' = Faults /\ at' = "epoll" /\ ~thenWrite' /\ ~enabled_receive'
  BY <1>1 DEF Faults, Continue, Connect
<1>4. BeforeSend' /\ ConnectInv' /\ (Attached' => ~pooled')
  <2>1. CASE setup.byName
    <3>1. resolving' = TRUE /\ UNCHANGED <<peerVars, kernelVars, timer>>
      BY <1>1, <2>1 DEF Connect
    <3>2. ~Attached'
      BY <1>1, <3>1 DEF peerVars, Attached
    <3>3. BeforeSend'
      BY <1>1, <1>3, <3>1, <3>2
         DEF ExchangeAll, ExchangeInv, BeforeSend, peerVars, kernelVars
    <3>4. ConnectInv'
      BY <1>1, <3>1, <3>2 DEF ConnectInv
    <3> QED BY <3>2, <3>3, <3>4
  <2>2. CASE ~setup.byName
    <3>1. ResolvedConnect
      BY <1>1, <2>2 DEF Connect
    <3>2. BeforeSend'
      BY <1>1, <1>3, <3>1, ResolvedExchange DEF ExchangeAll, ExchangeInv, BeforeSend
    <3>3. ConnectInv'
      BY <1>1, <1>3, <3>1, ResolvedExchange DEF ConnectInv
    <3> QED BY <1>1, <3>1, <3>2, <3>3, ResolvedExchange
  <2> QED BY <2>1, <2>2
<1>5. SendInv' /\ LostInv' /\ RecvInv' /\ CloseInv'
  BY <1>1 DEF SendInv, LostInv, RecvInv, CloseInv
<1> QED BY <1>1, <1>2, <1>4, <1>5 DEF ExchangeInv

LEMMA ResolveExchange ==
  ASSUME ExchangeAll, ResolveHandler
  PROVE  ExchangeInv'
<1>1. /\ at = "epoll" /\ resolving
      /\ UNCHANGED <<scriptVars, workerVars, upstreamVars, result>>
  BY DEF ResolveHandler
<1>2. gen = "live" /\ k \in {1, 2, 3} /\ ~Attached /\ timer = {} /\ ~thenWrite
  BY <1>1, ExchangeOrder DEF ExchangeAll, ExchangeInv, TypeInv, TypeOK
<1>3. k = 1 /\ k' = 1
  BY <1>1, <1>2 DEF ExchangeAll, ExchangeInv, SendInv, RecvInv, scriptVars
<1>4. /\ setup' = setup /\ gen' = gen /\ ~page' /\ result' = result /\ Faults' = Faults
      /\ at' = "epoll" /\ ~thenWrite' /\ ~enabled_receive'
  BY <1>1, <1>2, <1>3
     DEF scriptVars, workerVars, upstreamVars, Faults, ExchangeAll, ExchangeInv, BeforeSend
<1>5. ResultInv' /\ SingleExchange(setup')
  BY <1>4 DEF ExchangeAll, ExchangeInv, ResultInv
<1>6. BeforeSend' /\ ConnectInv' /\ (Attached' => ~pooled')
  <2>1. CASE "unresolved" \in Faults /\ UNCHANGED <<peerVars, kernelVars, timer>>
    <3>1. ~Attached'
      BY <1>2, <2>1 DEF peerVars, Attached
    <3>2. BeforeSend'
      BY <1>2, <1>3, <1>4, <2>1, <3>1
         DEF ExchangeAll, ExchangeInv, BeforeSend, peerVars, kernelVars
    <3>3. ConnectInv'
      BY <1>3, <1>4, <2>1, <3>1 DEF ConnectInv
    <3> QED BY <3>1, <3>2, <3>3
  <2>2. CASE ResolvedConnect
    <3>1. BeforeSend'
      BY <1>2, <1>3, <1>4, <2>2, ResolvedExchange
         DEF ExchangeAll, ExchangeInv, BeforeSend
    <3>2. ConnectInv'
      BY <1>2, <1>3, <1>4, <2>2, ResolvedExchange DEF ConnectInv
    <3> QED BY <1>2, <1>3, <2>2, <3>1, <3>2, ResolvedExchange
  <2> QED BY <2>1, <2>2 DEF ResolveHandler
<1>7. SendInv' /\ LostInv' /\ RecvInv' /\ CloseInv'
  BY <1>2, <1>3, <1>4 DEF SendInv, LostInv, RecvInv, CloseInv
<1> QED BY <1>2, <1>4, <1>5, <1>6, <1>7 DEF ExchangeInv

LEMMA SendExchange ==
  ASSUME ExchangeAll, ResumeSend
  PROVE  ExchangeInv'
<1>1. /\ gen = "live" /\ at = "resume" /\ k = 1 /\ k' = 2 /\ setup' = setup
      /\ gen' = "live" /\ ~page' /\ Attached /\ "sleep" \notin timer
      /\ Send /\ Continue
  BY ExchangeCall, ExchangeOrder DEF ResumeSend
<1>2. ResultInv' /\ SingleExchange(setup')
  BY ExchangeResult DEF ResumeSend
<1>3. /\ UpstreamSend /\ ~enabled_receive'
      /\ UNCHANGED <<peer, pooled, tcp, rh, ready, timedout, edge, inbox, eof>>
      /\ Faults' = Faults
  BY <1>1 DEF Send, Faults
<1>4. /\ Attached' /\ ~thenWrite'
      /\ at' = IF thenWrite THEN "write" ELSE "epoll"
  BY <1>1, <1>3 DEF Attached, Continue
<1>5. /\ inbox = 0 /\ owed = 0 /\ ~full /\ "read" \notin timer
      /\ rh = "dummy" /\ wh = "dummy"
      /\ tcp \in {"up", "refused", "lost"}
      /\ tcp = "lost" => ~edge /\ ~eof
      /\ eof => edge \/ thenWrite
      /\ edge => eof
      /\ thenWrite => Closing
      /\ ready => Closing /\ thenWrite
      /\ "write" \in timedout => tcp = "lost"
  BY <1>1 DEF ExchangeAll, ExchangeInv, BeforeSend, ConnectInv, TypeInv, TypeOK
<1>6. tcp = "lost" => ~ready /\ ~thenWrite
  BY <1>5 DEF Closing
<1>7. (Closing' <=> Closing) /\ (Incoming' <=> Incoming) /\ (Incoming <=> Closing)
  BY <1>3, <1>5 DEF Closing, Incoming
<1>8. SendInv' /\ LostInv'
  <2>1. CASE SendAll
    <3>1. tcp = "up" /\ ~full /\ wh' = "dummy" /\ "write" \notin timer' /\ full' = full
          /\ "read" \notin timer'
      BY <1>5, <2>1 DEF SendAll
    <3>2. /\ eof => owed' = 0
          /\ eof \/ owed' > 0 \/ "silent" \in Faults
      BY <1>5, <2>1, ProgramType DEF SendAll, ExchangeAll, TypeInv, TypeOK
    <3>3. Closing <=> eof
      BY <3>1 DEF Closing
    <3>4. SendInv'
      BY <1>1, <1>3, <1>4, <1>5, <1>7, <3>1, <3>2, <3>3 DEF SendInv
    <3>5. LostInv'
      BY <1>3, <3>1 DEF LostInv
    <3> QED BY <3>4, <3>5
  <2>2. CASE SendAgain
    <3>1. /\ tcp \in {"up", "lost"} /\ wh' = "send" /\ timer' = timer \cup {"write"}
          /\ owed' = owed
          /\ tcp = "up" => full'
          /\ tcp = "lost" => full' = full
      BY <1>5, <2>2 DEF SendAgain
    <3>2. /\ owed' = 0 /\ inbox' = 0
          /\ "write" \in timer' /\ "read" \notin timer'
          /\ at' = "epoll" => (tcp' = "up" => full')
          /\ at' = "write" => Closing'
          /\ at' \in {"epoll", "write"}
      BY <1>3, <1>4, <1>5, <1>7, <3>1
    <3>4. ready' => Incoming' /\ inbox' = 0 /\ owed' = 0
      BY <1>3, <1>5, <1>7, <3>2
    <3>5. edge' => Incoming'
      BY <1>3, <1>5, <1>7 DEF Closing
    <3>6. SendInv'
      BY <1>1, <1>3, <1>4, <1>5, <1>7, <3>1, <3>2, <3>4, <3>5 DEF SendInv
    <3>3. LostInv'
      BY <1>1, <1>3, <1>4, <1>5, <1>6, <3>1 DEF LostInv
    <3> QED BY <3>3, <3>6
  <2>3. CASE SendError
    <3>1. tcp = "refused" /\ UNCHANGED <<timer, wh, owed, full>>
      BY <2>3 DEF SendError
    <3>2. /\ owed' = 0 /\ inbox' = 0 /\ "read" \notin timer' /\ ~full'
          /\ tcp' = "refused" /\ wh' = "dummy" /\ rh' = "dummy"
          /\ Closing'
      BY <1>3, <1>5, <3>1 DEF Closing
    <3>4. SendInv'
      BY <1>4, <1>3, <3>2 DEF SendInv, Incoming
    <3>3. LostInv'
      BY <1>3, <3>1 DEF LostInv
    <3> QED BY <3>3, <3>4
  <2> QED BY <1>3, <2>1, <2>2, <2>3 DEF UpstreamSend
<1>9. BeforeSend' /\ ConnectInv' /\ RecvInv' /\ CloseInv'
  BY <1>1 DEF BeforeSend, ConnectInv, RecvInv, CloseInv
<1>10. Attached' => ~pooled'
  BY <1>1, <1>3 DEF ExchangeAll, ExchangeInv
<1> QED BY <1>1, <1>2, <1>8, <1>9, <1>10 DEF ExchangeInv

LEMMA RecvExchange ==
  ASSUME ExchangeAll, ResumeRecv \/ ResumeRecvWait
  PROVE  ExchangeInv'
<1>1. PICK call \in {"recv", "recvwait"} :
        Resume(call) /\ Recv /\ Continue /\ UNCHANGED <<gen, resolving>>
  BY DEF ResumeRecv, ResumeRecvWait, RecvWait
<1>2. /\ gen = "live" /\ at = "resume" /\ k = 2 /\ k' = 3 /\ setup' = setup
      /\ gen' = "live" /\ ~page' /\ Attached /\ Faults' = Faults
  BY <1>1, ExchangeCall, ExchangeOrder DEF ExchangeAll, ExchangeInv, SendInv, Faults
<1>3. ResultInv' /\ SingleExchange(setup')
  BY <1>1, ExchangeResult
<1>4. /\ UpstreamRecv(timer) /\ rh' = "recv"
      /\ UNCHANGED <<peer, pooled, tcp, wh, timedout, eof, full, owed>>
  BY <1>1, <1>2 DEF Recv
<1>5. /\ Attached' /\ ~thenWrite'
      /\ at' = IF thenWrite THEN "write" ELSE "epoll"
  BY <1>1, <1>2, <1>4 DEF Attached, Continue
<1>6. /\ ~enabled_receive /\ wh \in {"dummy", "send"}
      /\ tcp \in {"up", "refused", "lost"}
      /\ full => wh = "send"
      /\ "write" \in timer => wh = "send" \/ tcp = "refused"
      /\ ready => Incoming
      /\ (ready /\ ~thenWrite) => inbox = 0
      /\ thenWrite => ready
      /\ edge => Incoming \/ wh = "send"
      /\ (wh = "send" /\ tcp = "up") => Closing \/ "partial" \in Faults
  BY <1>2 DEF ExchangeAll, ExchangeInv, SendInv
<1>7. tcp = "lost" => /\ wh = "send" /\ ~edge /\ ~eof /\ ~full /\ ~ready /\ ~thenWrite
                      /\ inbox = 0 /\ owed = 0 /\ "write" \notin timer
  BY <1>2 DEF ExchangeAll, ExchangeInv, LostInv
<1>8. (Closing' <=> Closing) /\ edge' = edge
  BY <1>1, <1>2, <1>4, <1>6 DEF Closing, Recv, ExchangeAll, TypeInv, TypeOK
<1>9. /\ "write" \in timer' => "write" \in timer
      /\ ~bufStart' => buf' # "none" \/ Closing
      /\ at' = "write" => buf' # "none" \/ Closing
      /\ at' = "epoll" => /\ "read" \in timer' \/ tcp = "refused"
                          /\ inbox' = inbox
      /\ tcp = "lost" => ~ready' /\ inbox' = 0
  <2>1. CASE RecvData(timer)
    <3>1. ready /\ inbox > 0 /\ thenWrite
      BY <1>6, <2>1 DEF RecvData
    <3>2. buf' # "none" /\ at' = "write" /\ tcp # "lost"
      BY <1>5, <1>7, <2>1, <3>1 DEF RecvData
    <3>3. timer' = timer
      BY <1>2, <2>1 DEF RecvData
    <3> QED BY <3>2, <3>3
  <2>2. CASE RecvEof(timer)
    BY <2>2 DEF RecvEof, Closing
  <2>3. CASE RecvAgain(timer)
    <3>1. thenWrite => Closing
      BY <1>6, <2>3 DEF RecvAgain, Incoming, ExchangeAll, TypeInv, TypeOK
    <3> QED BY <1>5, <1>7, <2>3, <3>1 DEF RecvAgain
  <2>4. CASE RecvError(timer)
    BY <2>4 DEF RecvError, Closing
  <2> QED BY <1>4, <2>1, <2>2, <2>3, <2>4 DEF UpstreamRecv
<1>10. at' = "epoll" /\ edge' => Incoming' \/ "partial" \in Faults
  <2>1. ASSUME edge PROVE Incoming \/ "partial" \in Faults
    BY <1>6, <1>7, <2>1 DEF Incoming, Closing
  <2>2. at' = "epoll" => (Incoming' <=> Incoming)
    BY <1>8, <1>9 DEF Incoming
  <2> QED BY <1>8, <2>1, <2>2
<1>11. RecvInv'
  <2>1. wh' = "send" => Closing' \/ tcp' = "lost" \/ "partial" \in Faults'
    BY <1>2, <1>4, <1>6, <1>8 DEF Closing
  <2>2. /\ wh' \in {"dummy", "send"} /\ tcp' \in {"up", "refused", "lost"}
        /\ full' => wh' = "send"
        /\ "write" \in timer' => wh' = "send" \/ tcp' = "refused"
    BY <1>4, <1>6, <1>9
  <2>3. at' \in {"write", "epoll"} /\ (at' = "write" => Got')
    BY <1>5, <1>8, <1>9 DEF Got
  <2> QED BY <1>2, <1>4, <1>5, <1>8, <1>9, <1>10, <2>1, <2>2, <2>3 DEF RecvInv
<1>12. LostInv'
  BY <1>2, <1>4, <1>5, <1>7, <1>8, <1>9 DEF LostInv
<1>13. BeforeSend' /\ ConnectInv' /\ SendInv' /\ CloseInv'
  BY <1>2 DEF BeforeSend, ConnectInv, SendInv, CloseInv
<1>14. Attached' => ~pooled'
  BY <1>2, <1>4 DEF ExchangeAll, ExchangeInv
<1> QED BY <1>2, <1>3, <1>11, <1>12, <1>13, <1>14 DEF ExchangeInv

LEMMA CloseExchange ==
  ASSUME ExchangeAll, ResumeClose \/ ResumeClear
  PROVE  ExchangeInv'
<1>1. PICK call \in {"close", "clear"} :
        /\ Resume(call) /\ UNCHANGED <<gen, resolving>>
        /\ Close \/ Clear
        /\ (Close /\ Continue) \/ at' = at
  BY DEF ResumeClose, ResumeClear
<1>2. /\ gen = "live" /\ at = "resume" /\ k = 3 /\ k' = 4 /\ setup' = setup
      /\ gen' = "live" /\ ~page' /\ Attached
  BY <1>1, ExchangeCall, ExchangeOrder DEF ExchangeAll, ExchangeInv, RecvInv
<1>3. ResultInv' /\ SingleExchange(setup')
  BY <1>1, ExchangeResult
<1>4. ~Attached'
  BY <1>1, <1>2, FinalizeEffect DEF Close, Clear
<1>5. Close => "sleep" \in timer'
  BY <1>2 DEF Close
<1>6. CloseInv'
  BY <1>1, <1>2, <1>5 DEF CloseInv
<1>7. BeforeSend' /\ ConnectInv' /\ SendInv' /\ LostInv' /\ RecvInv'
  BY <1>2 DEF BeforeSend, ConnectInv, SendInv, LostInv, RecvInv
<1> QED BY <1>2, <1>3, <1>4, <1>6, <1>7 DEF ExchangeInv

LEMMA EndExchange ==
  ASSUME ExchangeAll, ScriptEnds
  PROVE  ExchangeInv'
<1>1. Len(program) = 4 /\ program[4] \in {"close", "clear"}
  BY ExchangeProgram DEF ExchangeAll, ExchangeInv, TypeInv
<1>2. k = 4 /\ k' = 4 /\ setup' = setup /\ page' = page /\ gen' = "ended" /\ gen = "live"
  BY <1>1 DEF ScriptEnds
<1>3. result' = result
  BY <1>1, <1>2 DEF ScriptEnds, Notice, Waiting
<1>4. ~Attached'
  BY <1>2, ExchangeOrder DEF ScriptEnds, Ignored, peerVars, Attached
<1>5. BeforeSend' /\ ConnectInv' /\ SendInv' /\ LostInv' /\ RecvInv' /\ CloseInv'
  BY <1>2 DEF BeforeSend, ConnectInv, SendInv, LostInv, RecvInv, CloseInv
<1>6. ResultInv'
  BY <1>2, <1>3 DEF ExchangeAll, ExchangeInv, ResultInv, Faults
<1> QED BY <1>2, <1>4, <1>5, <1>6 DEF ExchangeAll, ExchangeInv

\* An exchange does nothing else.
LEMMA NoOtherCall ==
  ASSUME ExchangeAll
  PROVE  ~(ResumeRecvPage \/ ResumeRecvSync \/ ResumeSleep \/ ResumeExit \/ ResumeGone)
<1>1. ASSUME NEW call, Resume(call)
      PROVE  call \in {"connect", "send", "recv", "recvwait", "close", "clear"}
  BY <1>1, ExchangeCall
<1>2. gen # "gone"
  BY DEF ExchangeAll, ExchangeInv
<1> QED BY <1>1, <1>2
        DEF ResumeRecvPage, ResumeRecvSync, ResumeSleep, ResumeExit, ResumeGone

\* The parts of the invariant that an event can disturb.
EventParts ==
  /\ Attached => ~pooled
  /\ BeforeSend /\ ConnectInv /\ SendInv /\ LostInv /\ RecvInv /\ CloseInv

LEMMA ScriptKept ==
  ASSUME ExchangeAll, UNCHANGED <<scriptVars, result>>
  PROVE  /\ EventParts' => ExchangeInv'
         /\ k' = k /\ gen' = gen /\ Faults' = Faults
<1>1. k' = k /\ gen' = gen /\ Faults' = Faults /\ setup' = setup /\ ~page' /\ ResultInv'
  BY DEF scriptVars, Faults, ExchangeAll, ExchangeInv, ResultInv
<1> QED BY <1>1 DEF EventParts, ExchangeAll, ExchangeInv

LEMMA EpollExchange ==
  ASSUME ExchangeAll, EpollEvent
  PROVE  ExchangeInv'
<1> DEFINE in == inbox > 0 \/ eof \/ tcp = "refused"
           out == tcp = "refused" \/ (tcp = "up" /\ ~full)
<1>1. /\ at = "epoll" /\ edge /\ Attached /\ ~edge'
      /\ ready' = (ready \/ in)
      /\ at' = IF in THEN "read" ELSE IF out THEN "write" ELSE "epoll"
      /\ thenWrite' = (in /\ out)
      /\ UNCHANGED <<scriptVars, peer, pooled, tcp, rh, wh, timedout, resolving, timer,
                     upstreamVars, inbox, eof, full, owed, foreign, result>>
  BY DEF EpollEvent
<1>2. k' = k /\ gen' = gen /\ Faults' = Faults /\ (EventParts' => ExchangeInv')
  BY <1>1, ScriptKept
<1>3. UNCHANGED <<enabled_receive, bufStart, buf>>
  BY <1>1 DEF upstreamVars
<1>4. /\ (Attached' <=> Attached) /\ (Closing' <=> Closing) /\ (Incoming' <=> Incoming)
      /\ (in <=> Incoming)
  BY <1>1 DEF Attached, Closing, Incoming
<1>5. ~thenWrite
  BY <1>1, ExchangeOrder
<1>6. k \in {1, 2, 3} /\ gen = "live"
  BY <1>1, ExchangeOrder DEF ExchangeAll, ExchangeInv
<1> HIDE DEF in
<1>7. BeforeSend' /\ ConnectInv'
  <2>1. CASE k = 1
    <3>1. /\ inbox = 0 /\ ~full /\ tcp \in {"up", "refused"} /\ ~ready
      BY <1>1, <1>5, <2>1
         DEF ExchangeAll, ExchangeInv, BeforeSend, ConnectInv, TypeInv, TypeOK
    <3>2. out /\ (in <=> Closing)
      BY <1>4, <3>1 DEF Incoming
    <3>3. BeforeSend'
      BY <1>1, <1>2, <1>3, <1>4, <2>1 DEF ExchangeAll, ExchangeInv, BeforeSend
    <3>4. at' \in {"read", "write"} /\ (thenWrite' <=> Closing) /\ (ready' <=> Closing)
      BY <1>1, <3>1, <3>2
    <3>5. "write" \in timedout' => tcp' = "lost"
      BY <1>1, <2>1 DEF ExchangeAll, ExchangeInv, ConnectInv
    <3>6. ConnectInv'
      BY <1>1, <1>2, <1>4, <2>1, <3>1, <3>4, <3>5 DEF ConnectInv, Closing
    <3> QED BY <3>3, <3>6
  <2>2. CASE k # 1
    BY <1>2, <1>6, <2>2 DEF BeforeSend, ConnectInv
  <2> QED BY <2>1, <2>2
<1>8. SendInv'
  <2>1. CASE k = 2
    <3>1. SendInv /\ LostInv
      BY DEF ExchangeAll, ExchangeInv
    <3>2. tcp \in {"up", "refused"} /\ (full => wh = "send")
      BY <1>1, <2>1, <3>1 DEF SendInv, LostInv
    <3>3. ready' <=> Incoming
      BY <1>1, <1>4, <2>1, <3>1 DEF SendInv
    <3>4. thenWrite' => Incoming
      BY <1>1, <1>4
    <3>5. (Incoming /\ ~thenWrite') => inbox = 0 /\ owed = 0
      <4> SUFFICES ASSUME Incoming, ~thenWrite' PROVE inbox = 0 /\ owed = 0
        OBVIOUS
      <4>1. tcp = "up" /\ full
        BY <1>1, <1>4, <3>2
      <4> QED BY <2>1, <3>1, <3>2, <4>1 DEF SendInv
    <3>6. at' = "write" => ~full \/ Closing
      BY <1>1, <3>2 DEF Closing
    <3>7. at' = "epoll" => tcp = "up" /\ full /\ wh = "send" /\ "write" \in timer
      BY <1>1, <2>1, <3>1, <3>2 DEF SendInv
    <3>8. at' = "read" => Incoming
      BY <1>1, <1>4
    <3>9. at' \in {"epoll", "read", "write"}
      BY <1>1
    <3> QED BY <1>1, <1>2, <1>3, <1>4, <2>1, <3>1, <3>3, <3>4, <3>5, <3>6, <3>7, <3>8, <3>9
            DEF SendInv
  <2>2. CASE k # 2
    BY <1>2, <2>2 DEF SendInv
  <2> QED BY <2>1, <2>2
<1>9. LostInv'
  <2>1. k \in {2, 3} => tcp # "lost"
    BY <1>1 DEF ExchangeAll, ExchangeInv, LostInv
  <2> QED BY <1>1, <1>2, <2>1 DEF LostInv
<1>10. RecvInv'
  <2>1. CASE k = 3
    <3>1. RecvInv
      BY DEF ExchangeAll, ExchangeInv
    <3>2. (in => ready' /\ Incoming) /\ (~in => "partial" \in Faults)
      BY <1>1, <1>4, <2>1, <3>1 DEF RecvInv
    <3>3. at' \in {"epoll", "read", "write"} /\ (at' = "read" <=> in)
      BY <1>1
    <3>4. at' = "write" => Got'
      BY <1>2, <3>2, <3>3 DEF Got
    <3> QED BY <1>1, <1>2, <1>3, <1>4, <2>1, <3>1, <3>2, <3>3, <3>4 DEF RecvInv
  <2>2. CASE k # 3
    BY <1>2, <2>2 DEF RecvInv
  <2> QED BY <2>1, <2>2
<1>11. CloseInv'
  BY <1>2, <1>6 DEF CloseInv
<1>12. Attached' => ~pooled'
  BY <1>1, <1>4 DEF ExchangeAll, ExchangeInv
<1> QED BY <1>2, <1>7, <1>8, <1>9, <1>10, <1>11, <1>12 DEF EventParts

LEMMA PooledExchange ==
  ASSUME ExchangeAll, PooledEvent
  PROVE  ExchangeInv'
<1>1. /\ at = "epoll" /\ edge /\ pooled /\ ~edge' /\ ~ready'
      /\ UNCHANGED <<scriptVars, workerVars, peer, rh, wh, timedout, resolving, timer,
                     upstreamVars, result>>
      /\ \/ ~pooled' /\ tcp' = "closed" /\ inbox' = 0 /\ owed' = 0 /\ ~full'
         \/ UNCHANGED <<pooled, tcp, inbox, owed, full>>
  BY DEF PooledEvent
<1>2. k' = k /\ gen' = gen /\ Faults' = Faults /\ (EventParts' => ExchangeInv')
  BY <1>1, ScriptKept
<1>3. ~Attached /\ ~Attached'
  BY <1>1 DEF Attached, ExchangeAll, ExchangeInv
<1>4. k \in {1, 4}
  BY <1>1, <1>3, ExchangeOrder
     DEF ExchangeAll, ExchangeInv, BeforeSend, SendInv, RecvInv
<1>5. BeforeSend'
  BY <1>1, <1>2, <1>3 DEF ExchangeAll, ExchangeInv, BeforeSend, upstreamVars, workerVars
<1>6. ConnectInv'
  BY <1>1, <1>2, <1>3 DEF ExchangeAll, ExchangeInv, ConnectInv
<1>7. SendInv' /\ LostInv' /\ RecvInv'
  BY <1>2, <1>4 DEF SendInv, LostInv, RecvInv
<1>8. CloseInv'
  BY <1>1, <1>2 DEF ExchangeAll, ExchangeInv, CloseInv, workerVars
<1> QED BY <1>2, <1>3, <1>5, <1>6, <1>7, <1>8 DEF EventParts

LEMMA SleepExchange ==
  ASSUME ExchangeAll, SleepHandler
  PROVE  ExchangeInv'
<1>1. /\ "sleep" \in timer /\ at' = "resume"
      /\ UNCHANGED <<scriptVars, thenWrite, peerVars, upstreamVars, kernelVars, result>>
  BY DEF SleepHandler, Expire
<1>2. k' = k /\ gen' = gen /\ Faults' = Faults /\ (EventParts' => ExchangeInv')
  BY <1>1, ScriptKept
<1>3. k = 4 /\ gen = "live" /\ ~Attached'
  BY <1>1, ExchangeOrder
     DEF ExchangeAll, ExchangeInv, BeforeSend, peerVars, Attached, SleepHandler
<1>4. EventParts'
  BY <1>1, <1>2, <1>3
     DEF EventParts, BeforeSend, ConnectInv, SendInv, LostInv, RecvInv, CloseInv
<1> QED BY <1>2, <1>4

LEMMA TimeoutExchange ==
  ASSUME ExchangeAll, NEW half \in {"read", "write"}, SocketTimeout(half)
  PROVE  ExchangeInv'
<1>1. /\ at = "epoll" /\ half \in timer /\ timer' = timer \ {half}
      /\ timedout' = timedout \cup {half} /\ at' = half
      /\ Quiet \/ half = "read"
      /\ UNCHANGED <<scriptVars, thenWrite, peer, pooled, tcp, rh, wh, ready,
                     upstreamVars, kernelVars, result, resolving>>
  BY DEF SocketTimeout, Expire
<1>2. k' = k /\ gen' = gen /\ Faults' = Faults /\ (EventParts' => ExchangeInv')
  BY <1>1, ScriptKept
<1>3. UNCHANGED <<enabled_receive, bufStart, buf, edge, inbox, eof, full, owed>>
  BY <1>1 DEF upstreamVars, kernelVars
<1>4. Attached /\ ~thenWrite /\ k \in {1, 2, 3} /\ gen = "live"
  BY <1>1, ExchangeOrder DEF SocketTimer, ExchangeAll, ExchangeInv
<1>5. Attached' /\ ~pooled'
  BY <1>1, <1>4 DEF Attached, ExchangeAll, ExchangeInv
<1>6. (Closing' <=> Closing) /\ (Incoming' <=> Incoming)
  BY <1>1, <1>3 DEF Closing, Incoming
<1>7. CASE k = 1
  <2>1. BeforeSend /\ ConnectInv
    BY DEF ExchangeAll, ExchangeInv
  <2>2. half = "write" /\ Quiet
    BY <1>1, <1>7, <2>1 DEF BeforeSend
  <2>3. tcp = "lost" /\ ~edge /\ ~eof /\ ~ready
    BY <1>1, <1>4, <1>7, <2>1, <2>2 DEF ConnectInv, Quiet, Closing
  <2>4. BeforeSend'
    BY <1>1, <1>2, <1>3, <1>5, <1>7, <2>1 DEF BeforeSend
  <2>5. ConnectInv'
    BY <1>1, <1>2, <1>3, <1>4, <1>5, <1>6, <1>7, <2>2, <2>3 DEF ConnectInv
  <2> QED BY <1>2, <1>4, <1>5, <1>7, <2>4, <2>5 DEF EventParts, SendInv, LostInv, RecvInv, CloseInv
<1>8. CASE k = 2
  <2>1. SendInv /\ LostInv
    BY DEF ExchangeAll, ExchangeInv
  <2>2. half = "write" /\ Quiet
    BY <1>1, <1>8, <2>1 DEF SendInv
  <2>3. ~edge /\ ~full /\ owed = 0 /\ tcp # "up"
    BY <1>1, <1>8, <2>1, <2>2 DEF SendInv, Quiet
  <2>4. SendInv'
    BY <1>1, <1>2, <1>3, <1>5, <1>6, <1>8, <2>1, <2>2, <2>3 DEF SendInv
  <2>5. LostInv'
    BY <1>1, <1>2, <1>3, <1>4, <1>8, <2>1, <2>2 DEF LostInv
  <2> QED BY <1>2, <1>4, <1>5, <1>8, <2>4, <2>5 DEF EventParts, BeforeSend, ConnectInv, RecvInv, CloseInv
<1>9. CASE k = 3
  <2>1. RecvInv /\ LostInv
    BY DEF ExchangeAll, ExchangeInv
  <2>2. half = "write" => tcp # "lost" /\ (Closing \/ "partial" \in Faults)
    BY <1>1, <1>9, <2>1 DEF RecvInv, LostInv, Closing
  <2>3. half = "write" => Got'
    BY <1>2, <1>6, <2>2 DEF Got
  <2>4. RecvInv'
    BY <1>1, <1>2, <1>3, <1>5, <1>6, <1>9, <2>1, <2>3 DEF RecvInv
  <2>5. LostInv'
    BY <1>1, <1>2, <1>3, <1>4, <1>9, <2>1, <2>2 DEF LostInv
  <2> QED BY <1>2, <1>4, <1>5, <1>9, <2>4, <2>5 DEF EventParts, BeforeSend, ConnectInv, SendInv, CloseInv
<1> QED BY <1>4, <1>7, <1>8, <1>9

\* What every handler leaves alone, and what it cannot meet.
LEMMA HandlerFrame ==
  ASSUME ExchangeAll, NEW half \in {"read", "write"}, NEW handler, CallHandler(half, handler)
  PROVE  /\ at = half /\ at' = "resume" /\ k \in {1, 2, 3} /\ gen = "live"
         /\ k' = k /\ gen' = gen /\ Faults' = Faults /\ (EventParts' => ExchangeInv')
         /\ UNCHANGED <<thenWrite, peer, pooled, tcp, timedout, resolving>>
         /\ Attached /\ Attached' /\ ~pooled'
         /\ (at = "write" => ~thenWrite)
         /\ CloseInv'
<1>1. /\ at = half /\ at' = "resume"
      /\ UNCHANGED <<scriptVars, thenWrite, peer, pooled, tcp, timedout, resolving, result>>
  BY DEF CallHandler
<1>2. k' = k /\ gen' = gen /\ Faults' = Faults /\ (EventParts' => ExchangeInv')
  BY <1>1, ScriptKept
<1>3. Attached /\ k \in {1, 2, 3} /\ gen = "live" /\ (at = "write" => ~thenWrite)
  BY <1>1, ExchangeOrder DEF ExchangeAll, ExchangeInv
<1>4. Attached' /\ ~pooled'
  BY <1>1, <1>3 DEF Attached, ExchangeAll, ExchangeInv
<1>5. CloseInv'
  BY <1>2, <1>3 DEF CloseInv
<1> QED BY <1>1, <1>2, <1>3, <1>4, <1>5

LEMMA ConnectedExchange ==
  ASSUME ExchangeAll, ReadHandler \/ WriteHandler, k = 1
  PROVE  ExchangeInv'
<1>1. PICK half \in {"read", "write"}, handler \in {rh, wh} : CallHandler(half, handler)
  BY DEF ReadHandler, WriteHandler
<1>2. BeforeSend /\ ConnectInv /\ Attached
  BY <1>1, HandlerFrame DEF ExchangeAll, ExchangeInv
<1>3. ConnectedHandler \/ (DummyHandler /\ wh = "dummy")
  BY <1>1, <1>2 DEF BeforeSend, CallHandler
<1>4. /\ rh' = "dummy" /\ wh' = "dummy" /\ timer' \subseteq timer
      /\ UNCHANGED <<ready, enabled_receive, bufStart, buf, edge, inbox, eof, full, owed>>
  BY <1>2, <1>3
     DEF BeforeSend, ConnectedHandler, DummyHandler, upstreamVars, kernelVars
<1>5. Closing' <=> Closing
  BY <1>1, <1>4, HandlerFrame DEF Closing
<1>6. BeforeSend'
  BY <1>1, <1>2, <1>4, HandlerFrame DEF BeforeSend
<1>7. ConnectInv'
  BY <1>1, <1>2, <1>4, <1>5, HandlerFrame DEF ConnectInv
<1>8. SendInv' /\ LostInv' /\ RecvInv'
  BY <1>1, HandlerFrame DEF SendInv, LostInv, RecvInv
<1> QED BY <1>1, <1>6, <1>7, <1>8, HandlerFrame DEF EventParts

LEMMA SendingExchange ==
  ASSUME ExchangeAll, ReadHandler \/ WriteHandler, k = 2
  PROVE  ExchangeInv'
<1>1. PICK half \in {"read", "write"}, handler \in {rh, wh} :
        /\ CallHandler(half, handler)
        /\ handler = (IF half = "read" THEN rh ELSE wh)
  BY DEF ReadHandler, WriteHandler
<1>2. /\ k' = 2 /\ Attached' /\ at' = "resume" /\ at = half /\ Faults' = Faults
      /\ UNCHANGED <<thenWrite, tcp, timedout>>
      /\ (at = "write" => ~thenWrite)
  BY <1>1, HandlerFrame
<1>3. SendInv /\ LostInv
  BY DEF ExchangeAll, ExchangeInv
<1>4. CASE DummyHandler
  <2>1. UNCHANGED <<timer, rh, wh, ready, enabled_receive, edge, inbox, eof, full, owed>>
    BY <1>4 DEF DummyHandler, upstreamVars, kernelVars
  <2>2. (Closing' <=> Closing) /\ (Incoming' <=> Incoming)
    BY <1>2, <2>1 DEF Closing, Incoming
  <2>3. (wh = "send" /\ tcp = "up") => Closing
    <3> SUFFICES ASSUME wh = "send", tcp = "up" PROVE Closing
      OBVIOUS
    <3>1. CASE half = "read"
      BY <1>2, <1>3, <3>1 DEF SendInv, Incoming
    <3>2. CASE half = "write"
      <4>1. handler = "send"
        BY <1>1, <3>2
      <4>2. SendHandler
        BY <1>1, <4>1 DEF CallHandler
      <4>3. UpstreamSend
        BY <1>3, <4>2 DEF SendHandler, SendInv
      <4>4. CASE full
        BY <1>2, <1>3, <3>2, <4>4 DEF SendInv
      <4>5. CASE ~full
        <5>1. SendAll \/ SendAgain
          BY <4>3 DEF UpstreamSend, SendError
        <5>2. ~SendAgain
          BY <1>3, <2>1, <4>5 DEF SendAgain, ExchangeAll, TypeInv, TypeOK
        <5>3. wh' = "dummy"
          BY <5>1, <5>2 DEF SendAll
        <5> QED BY <2>1, <5>3
      <4> QED BY <4>4, <4>5
    <3> QED BY <3>1, <3>2
  <2>4. SendInv'
    BY <1>2, <1>3, <2>1, <2>2, <2>3 DEF SendInv
  <2>5. LostInv'
    BY <1>2, <1>3, <2>1 DEF LostInv
  <2> QED BY <1>1, <1>2, <2>4, <2>5, HandlerFrame
          DEF EventParts, BeforeSend, ConnectInv, RecvInv
<1>5. CASE SendHandler /\ "write" \notin timedout /\ half = "write" /\ wh = "send"
  <2>1. /\ UpstreamSend
        /\ UNCHANGED <<rh, ready, enabled_receive, edge, inbox, eof>>
    BY <1>5 DEF SendHandler, upstreamVars
  <2>2. tcp # "lost"
    BY <1>2, <1>3, <1>5 DEF LostInv
  <2>3. (Closing' <=> Closing) /\ (Incoming' <=> Incoming)
    BY <1>2, <2>1 DEF Closing, Incoming
  <2>4. /\ ~thenWrite /\ (edge => Incoming) /\ (full => Closing)
        /\ inbox = 0 /\ owed = 0 /\ (Closing <=> Incoming)
        /\ rh = "dummy" /\ ~enabled_receive /\ "read" \notin timer
        /\ tcp \in {"up", "refused"}
        /\ (ready => Incoming)
    BY <1>2, <1>3, <1>5, <2>2 DEF SendInv, Incoming
  <2>5. LostInv'
    BY <1>2, <2>2 DEF LostInv
  <2>6. CASE SendAll
    <3>1. /\ wh' = "dummy" /\ ~full' /\ timer' = timer \ {"write"} /\ tcp = "up"
      BY <2>6 DEF SendAll
    <3>2. Closing => owed' = 0
      BY <2>4, <2>6 DEF SendAll, Closing
    <3>3. ready' => Closing
      BY <2>1, <2>4
    <3>4. SendInv'
      BY <1>2, <1>5, <2>1, <2>3, <2>4, <3>1, <3>2, <3>3 DEF SendInv
    <3> QED BY <1>1, <1>2, <2>5, <3>4, HandlerFrame
            DEF EventParts, BeforeSend, ConnectInv, RecvInv
  <2>7. CASE SendAgain
    <3>1. /\ wh' = "send" /\ timer' = timer \cup {"write"} /\ owed' = owed
          /\ tcp = "up"
      BY <2>4, <2>7 DEF SendAgain
    <3>2. full \/ "partial" \in Faults
      BY <1>2, <1>5, <2>4, <2>7 DEF SendAgain
    <3>3. Closing \/ "partial" \in Faults
      BY <2>4, <3>2
    <3>4. SendInv'
      BY <1>2, <1>5, <2>1, <2>3, <2>4, <3>1, <3>3 DEF SendInv
    <3> QED BY <1>1, <1>2, <2>5, <3>4, HandlerFrame
            DEF EventParts, BeforeSend, ConnectInv, RecvInv
  <2>8. CASE SendError
    <3>1. tcp = "refused" /\ UNCHANGED <<timer, wh, owed, full>>
      BY <2>8 DEF SendError
    <3>2. SendInv'
      BY <1>2, <1>3, <1>5, <2>1, <2>3, <2>4, <3>1 DEF SendInv
    <3> QED BY <1>1, <1>2, <2>5, <3>2, HandlerFrame
            DEF EventParts, BeforeSend, ConnectInv, RecvInv
  <2> QED BY <2>1, <2>6, <2>7, <2>8 DEF UpstreamSend
<1>6. rh = "dummy" /\ wh \in {"dummy", "send"}
  BY <1>3 DEF SendInv
<1> QED BY <1>1, <1>2, <1>4, <1>5, <1>6 DEF CallHandler, SendHandler

\* The read handler of a receive brings what the receive waits for.
LEMMA ReceivedExchange ==
  ASSUME ExchangeAll, ReadHandler, k = 3
  PROVE  ExchangeInv'
<1>1. RecvInv /\ LostInv /\ rh = "recv" /\ wh \in {"dummy", "send"}
  BY DEF ExchangeAll, ExchangeInv, RecvInv
<1>2. CallHandler("read", "recv") /\ RecvHandler
  BY <1>1 DEF ReadHandler, CallHandler
<1>3. /\ k' = 3 /\ Attached' /\ at' = "resume" /\ at = "read" /\ Faults' = Faults
      /\ UNCHANGED <<thenWrite, tcp, timedout>>
  BY <1>2, HandlerFrame
<1>4. UNCHANGED <<rh, wh, edge, eof, full, owed>>
  BY <1>2 DEF RecvHandler, DummyHandler, kernelVars
<1>5. Closing' <=> Closing
  BY <1>3, <1>4 DEF Closing
<1>6. /\ Got'
      /\ ~bufStart' => buf' # "none" \/ Closing
      /\ "write" \in timer' => "write" \in timer
      /\ tcp = "lost" => ~ready' /\ inbox' = inbox
  <2>1. CASE "read" \in timedout
    <3>1. UNCHANGED <<timer, ready, bufStart, buf, inbox>>
      BY <1>2, <2>1 DEF RecvHandler, DummyHandler, upstreamVars, kernelVars
    <3>2. Got'
      BY <1>3, <2>1 DEF Got
    <3> QED BY <1>1, <1>3, <3>1, <3>2 DEF RecvInv, LostInv
  <2>2. CASE "read" \notin timedout /\ ~bufStart
    <3>1. timer' = timer \ {"read"} /\ UNCHANGED <<ready, bufStart, buf, inbox>>
      BY <1>2, <2>2 DEF RecvHandler, kernelVars
    <3>2. buf # "none" \/ Closing
      BY <1>1, <2>2 DEF ExchangeAll, ExchangeInv, RecvInv
    <3>3. k = 3 /\ (tcp = "lost" => ~ready)
      BY <1>1 DEF LostInv
    <3> QED BY <1>5, <3>1, <3>2, <3>3 DEF Got
  <2>3. CASE "read" \notin timedout /\ bufStart
    <3>1. UpstreamRecv(timer \ {"read"})
      BY <1>2, <2>3 DEF RecvHandler
    <3>2. ready /\ Incoming /\ tcp # "lost"
      BY <1>1, <1>3, <2>3 DEF RecvInv, LostInv
    <3>3. CASE RecvData(timer \ {"read"})
      BY <1>5, <3>2, <3>3 DEF RecvData, Got
    <3>4. CASE RecvEof(timer \ {"read"})
      BY <1>5, <3>2, <3>4 DEF RecvEof, Got, Closing
    <3>5. ~RecvAgain(timer \ {"read"})
      BY <3>2 DEF RecvAgain, Incoming, Closing
    <3>6. CASE RecvError(timer \ {"read"})
      BY <1>5, <3>2, <3>6 DEF RecvError, Got, Closing
    <3> QED BY <3>1, <3>3, <3>4, <3>5, <3>6 DEF UpstreamRecv
  <2> QED BY <2>1, <2>2, <2>3
<1>7. RecvInv'
  BY <1>1, <1>3, <1>4, <1>5, <1>6 DEF RecvInv, Closing
<1>8. LostInv'
  BY <1>1, <1>3, <1>4, <1>6 DEF LostInv
<1> QED BY <1>2, <1>3, <1>7, <1>8, HandlerFrame
        DEF EventParts, BeforeSend, ConnectInv, SendInv

\* Its write handler is called when it has that already.
LEMMA SentExchange ==
  ASSUME ExchangeAll, WriteHandler, k = 3
  PROVE  ExchangeInv'
<1>1. RecvInv /\ LostInv /\ rh = "recv" /\ wh \in {"dummy", "send"}
  BY DEF ExchangeAll, ExchangeInv, RecvInv
<1>2. CallHandler("write", wh)
  BY DEF WriteHandler
<1>3. /\ k' = 3 /\ Attached' /\ at' = "resume" /\ at = "write" /\ Faults' = Faults
      /\ UNCHANGED <<thenWrite, tcp, timedout>>
  BY <1>2, HandlerFrame
<1>4. Got /\ tcp # "lost"
  BY <1>1, <1>3 DEF RecvInv, LostInv
<1>5. /\ UNCHANGED <<rh, bufStart, buf, eof>>
      /\ wh' \in {"dummy", "send"} /\ (wh' = "send" => wh = "send")
      /\ full' => wh' = "send"
      /\ "write" \in timer' => wh' = "send" \/ tcp = "refused"
  <2>1. CASE DummyHandler
    BY <1>1, <2>1 DEF DummyHandler, upstreamVars, kernelVars, RecvInv
  <2>2. CASE wh = "send" /\ UpstreamSend /\ UNCHANGED <<rh, upstreamVars, eof>>
    <3>1. UNCHANGED <<rh, bufStart, buf, eof>>
      BY <2>2 DEF upstreamVars
    <3>2. CASE SendAll
      BY <2>2, <3>1, <3>2 DEF SendAll
    <3>3. CASE SendAgain
      BY <2>2, <3>1, <3>3 DEF SendAgain
    <3>4. CASE SendError
      BY <1>1, <2>2, <3>1, <3>4 DEF SendError
    <3> QED BY <2>2, <3>2, <3>3, <3>4 DEF UpstreamSend
  <2> QED BY <1>1, <1>2, <2>1, <2>2 DEF CallHandler, SendHandler
<1>6. Closing' <=> Closing
  BY <1>3, <1>5 DEF Closing
<1>7. Got'
  BY <1>3, <1>4, <1>5, <1>6 DEF Got
<1>8. RecvInv'
  BY <1>1, <1>3, <1>5, <1>6, <1>7 DEF RecvInv
<1>9. LostInv'
  BY <1>3, <1>4 DEF LostInv
<1> QED BY <1>2, <1>3, <1>8, <1>9, HandlerFrame
        DEF EventParts, BeforeSend, ConnectInv, SendInv

LEMMA HandlerExchange ==
  ASSUME ExchangeAll, ReadHandler \/ WriteHandler
  PROVE  ExchangeInv'
<1>1. k \in {1, 2, 3}
  BY HandlerFrame DEF ReadHandler, WriteHandler
<1> QED BY <1>1, ConnectedExchange, SendingExchange, ReceivedExchange, SentExchange

\* What the kernel and the server do to a connection.
LEMMA KernelExchange ==
  ASSUME ExchangeAll, Kernel
  PROVE  ExchangeInv'
<1>1. /\ UNCHANGED <<scriptVars, workerVars, peer, pooled, rh, wh, ready, timedout,
                     resolving, timer, upstreamVars, result>>
      /\ edge'
  BY DEF Kernel, Established, Refused, Answer, ServerCloses, Drained, KernelStep
<1>2. k' = k /\ gen' = gen /\ Faults' = Faults /\ (EventParts' => ExchangeInv')
  BY <1>1, ScriptKept
<1>3. UNCHANGED <<at, thenWrite, enabled_receive, bufStart, buf>>
  BY <1>1 DEF workerVars, upstreamVars
<1>4. /\ BeforeSend /\ ConnectInv /\ SendInv /\ LostInv /\ RecvInv /\ CloseInv
      /\ Attached => ~pooled
  BY DEF ExchangeAll, ExchangeInv
<1>5. (Attached' <=> Attached) /\ (Attached' => ~pooled') /\ CloseInv'
  BY <1>1, <1>2, <1>3, <1>4 DEF Attached, CloseInv
<1>6. CASE Established \/ Refused
  <2>1. /\ tcp = "connecting" /\ tcp' \in {"up", "refused"} /\ owed' \in {owed, 0}
        /\ UNCHANGED <<inbox, eof, full>>
    BY <1>6, ExchangeProgram
       DEF Established, Refused, ExchangeAll, ExchangeInv, TypeInv
  <2>2. CASE k \in {0, 1}
    <3>1. Attached /\ k = 1 /\ at = "epoll"
      <4>1. Attached
        BY <1>4, <2>1, <2>2 DEF BeforeSend
      <4>2. k = 1
        BY <2>2, <4>1, ExchangeOrder DEF ExchangeAll, ExchangeInv
      <4> QED BY <1>4, <2>1, <4>1, <4>2 DEF ConnectInv
    <3>2. ~thenWrite /\ ~ready /\ owed = 0
      BY <1>4, <2>1, <3>1, ExchangeOrder DEF ConnectInv, BeforeSend
    <3>3. BeforeSend'
      BY <1>1, <1>2, <1>3, <1>4, <1>5, <2>1, <3>1, <3>2 DEF BeforeSend
    <3>4. ConnectInv'
      <4>1. "write" \notin timedout
        BY <1>4, <2>1, <3>1 DEF ConnectInv
      <4> QED BY <1>1, <1>2, <1>3, <1>5, <2>1, <3>1, <3>2, <4>1 DEF ConnectInv
    <3> QED BY <1>2, <1>5, <3>1, <3>3, <3>4 DEF EventParts, SendInv, LostInv, RecvInv
  <2>3. CASE k \notin {0, 1}
    <3>1. k \notin {2, 3}
      BY <1>4, <2>1 DEF SendInv, RecvInv
    <3> QED BY <1>2, <1>5, <2>3, <3>1
            DEF EventParts, BeforeSend, ConnectInv, SendInv, LostInv, RecvInv
  <2> QED BY <2>2, <2>3
<1>7. CASE Answer
  <2>1. /\ owed > 0 /\ owed' = owed - 1 /\ inbox' = inbox + 1
        /\ UNCHANGED <<tcp, eof, full>>
    BY <1>7 DEF Answer
  <2>2. k \notin {0, 1}
    BY <1>4, <2>1 DEF BeforeSend
  <2>3. (Closing' <=> Closing) /\ Incoming'
    BY <2>1 DEF Closing, Incoming, ExchangeAll, TypeInv, TypeOK
  <2>4. SendInv'
    <3>1. CASE k = 2
      <4>1. /\ ~Closing /\ wh = "dummy" /\ (ready => thenWrite)
            /\ tcp # "refused"
        BY <1>4, <2>1, <3>1 DEF SendInv, Closing
      <4>2. Attached' /\ (tcp # "lost")
        BY <1>4, <1>5, <2>1, <3>1 DEF SendInv, LostInv
      <4> QED BY <1>1, <1>2, <1>3, <1>4, <2>1, <2>3, <3>1, <4>1, <4>2 DEF SendInv
    <3> QED BY <1>2, <3>1 DEF SendInv
  <2>5. LostInv'
    BY <1>2, <1>4, <2>1 DEF LostInv
  <2>6. RecvInv'
    BY <1>1, <1>2, <1>3, <1>4, <1>5, <2>1, <2>3 DEF RecvInv, Got
  <2>7. BeforeSend' /\ ConnectInv'
    BY <1>2, <2>2 DEF BeforeSend, ConnectInv
  <2> QED BY <1>2, <1>5, <2>4, <2>5, <2>6, <2>7 DEF EventParts
<1>8. CASE ServerCloses
  <2>1. /\ tcp = "up" /\ ~eof /\ eof' /\ owed' = 0 /\ UNCHANGED <<tcp, inbox, full>>
    BY <1>8 DEF ServerCloses
  <2>2. Closing' /\ Incoming'
    BY <2>1 DEF Closing, Incoming
  <2>3. BeforeSend'
    BY <1>1, <1>2, <1>3, <1>4, <1>5, <2>1 DEF BeforeSend
  <2>4. ConnectInv'
    BY <1>1, <1>2, <1>3, <1>4, <1>5, <2>1, <2>2 DEF ConnectInv
  <2>5. SendInv'
    <3>1. CASE k = 2
      <4>1. Attached' /\ (ready /\ ~thenWrite => inbox = 0)
        BY <1>4, <1>5, <3>1 DEF SendInv
      <4> QED BY <1>1, <1>2, <1>3, <1>4, <2>1, <2>2, <3>1, <4>1 DEF SendInv
    <3> QED BY <1>2, <3>1 DEF SendInv
  <2>6. LostInv'
    BY <2>1 DEF LostInv
  <2>7. RecvInv'
    BY <1>1, <1>2, <1>3, <1>4, <1>5, <2>1, <2>2 DEF RecvInv, Got
  <2> QED BY <1>2, <1>5, <2>3, <2>4, <2>5, <2>6, <2>7 DEF EventParts
<1>9. CASE Drained
  <2>1. full /\ ~full' /\ UNCHANGED <<tcp, inbox, eof, owed>>
    BY <1>9 DEF Drained
  <2>2. k \notin {0, 1} /\ (k \in {2, 3} => wh = "send" /\ tcp # "lost")
    BY <1>4, <2>1 DEF BeforeSend, SendInv, RecvInv, LostInv
  <2>3. (Closing' <=> Closing) /\ (Incoming' <=> Incoming)
    BY <2>1 DEF Closing, Incoming
  <2>4. SendInv'
    <3>1. CASE k = 2
      <4>1. Attached' /\ (at = "write" => Incoming)
        BY <1>4, <1>5, <2>1, <3>1 DEF SendInv, Incoming
      <4> QED BY <1>1, <1>2, <1>3, <1>4, <2>1, <2>2, <2>3, <3>1, <4>1 DEF SendInv
    <3> QED BY <1>2, <3>1 DEF SendInv
  <2>5. LostInv'
    BY <1>2, <2>1, <2>2 DEF LostInv
  <2>6. RecvInv'
    <3>1. CASE k = 3
      <4>1. Incoming \/ "partial" \in Faults
        BY <1>4, <2>2, <3>1 DEF RecvInv, Incoming
      <4> QED BY <1>1, <1>2, <1>3, <1>4, <1>5, <2>1, <2>3, <3>1, <4>1 DEF RecvInv, Got
    <3> QED BY <1>2, <3>1 DEF RecvInv
  <2>7. BeforeSend' /\ ConnectInv'
    BY <1>2, <2>2 DEF BeforeSend, ConnectInv
  <2> QED BY <1>2, <1>5, <2>4, <2>5, <2>6, <2>7 DEF EventParts
<1> QED BY <1>6, <1>7, <1>8, <1>9 DEF Kernel

LEMMA ExchangeStep ==
  ASSUME ExchangeAll, [Next]_vars
  PROVE  ExchangeAll'
<1>1. TypeInv' /\ OrderInv'
  BY TypeStep, FreshStep, OrderStep DEF ExchangeAll, TypeInv
<1>2. ASSUME UNCHANGED vars PROVE ExchangeInv'
  <2>1. /\ UNCHANGED <<setup, k, gen, page, at, thenWrite, peer, pooled, tcp, rh, wh,
                       ready, timedout, resolving, timer, result>>
        /\ UNCHANGED <<enabled_receive, bufStart, buf, edge, inbox, eof, full, owed>>
    BY <1>2 DEF vars, scriptVars, workerVars, peerVars, upstreamVars, kernelVars
  <2>2. ExchangeInv
    BY DEF ExchangeAll
  <2>3. BeforeSend' /\ ConnectInv'
    BY <2>1, <2>2 DEF ExchangeInv, BeforeSend, ConnectInv, Attached, Faults, Closing
  <2>4. SendInv' /\ LostInv'
    BY <2>1, <2>2 DEF ExchangeInv, SendInv, LostInv, Attached, Faults, Closing, Incoming
  <2>5. RecvInv' /\ CloseInv' /\ ResultInv'
    BY <2>1, <2>2
       DEF ExchangeInv, RecvInv, CloseInv, ResultInv, Attached, Faults, Closing, Incoming, Got
  <2> QED BY <2>1, <2>2, <2>3, <2>4, <2>5 DEF ExchangeInv, Attached
<1>3. ASSUME Script PROVE ExchangeInv'
  BY <1>3, NoOtherCall, ConnectExchange, SendExchange, RecvExchange, CloseExchange DEF Script
<1>4. ASSUME ScriptEnds \/ ResumeGone \/ EpollEvent \/ PooledEvent \/ ReadHandler \/ WriteHandler
      PROVE  ExchangeInv'
  BY <1>4, NoOtherCall, EndExchange, EpollExchange, PooledExchange, HandlerExchange
<1>5. ASSUME Timers PROVE ExchangeInv'
  <2>1. CASE SocketTimeout("read")
    BY <2>1, TimeoutExchange
  <2>2. CASE SocketTimeout("write")
    BY <2>2, TimeoutExchange
  <2> QED BY <1>5, <2>1, <2>2, SleepExchange, ResolveExchange DEF Timers
<1>6. ExchangeInv'
  BY <1>2, <1>3, <1>4, <1>5, NextCases, KernelExchange
<1> QED BY <1>1, <1>6 DEF ExchangeAll

RefusedInv == tcp = "refused" => "refused" \in Faults

LEMMA RefusedInvariant == Spec => []RefusedInv
<1>1. Init => RefusedInv
  BY DEF Init, RefusedInv
<1>2. ASSUME RefusedInv, [Next]_vars PROVE RefusedInv'
  <2>1. Faults' = Faults
    BY <1>2, SetupKept DEF Faults
  <2>2. tcp' \in {tcp, "connecting", "lost", "up", "closed"} \/ Refused
    <3>1. ResolvedConnect => tcp' \in {tcp, "connecting", "lost", "up"}
      BY DEF ResolvedConnect, ConnectDone, ConnectAgain, ConnectOk, ConnectFails, NewConnection
    <3>2. Close \/ Clear => tcp' \in {tcp, "closed"}
      BY DEF Close, Clear, Ignored, Finalize, ToPool, CloseConnection, peerVars
    <3>3. Script => tcp' \in {tcp, "connecting", "lost", "up", "closed"}
      BY <3>1, <3>2
         DEF Script, ResumeConnect, Connect, ResumeSend, Send, ResumeRecv, ResumeRecvPage,
             ResumeRecvWait, RecvWait, ResumeRecvSync, Recv, RecvSync, ResumeSleep, Sleep,
             ResumeClose, ResumeClear, ResumeExit, Ignored, peerVars
    <3>4. ScriptEnds \/ ResumeGone \/ EpollEvent \/ PooledEvent =>
            tcp' \in {tcp, "closed"}
      BY <3>2 DEF ScriptEnds, ResumeGone, EpollEvent, PooledEvent, Ignored, peerVars
    <3>5. ReadHandler \/ WriteHandler \/ UNCHANGED vars => tcp' = tcp
      BY DEF ReadHandler, WriteHandler, CallHandler, vars, peerVars
    <3>6. Timers => tcp' \in {tcp, "connecting", "lost", "up"}
      BY <3>1 DEF Timers, SocketTimeout, SleepHandler, ResolveHandler, peerVars
    <3>7. Kernel => tcp' \in {tcp, "up"} \/ Refused
      BY DEF Kernel, Established, Answer, ServerCloses, Drained
    <3> QED BY <1>2, <3>3, <3>4, <3>5, <3>6, <3>7, NextCases
  <2>3. Refused => "refused" \in Faults
    BY DEF Refused
  <2> QED BY <1>2, <2>1, <2>2, <2>3 DEF RefusedInv
<1> QED BY <1>1, <1>2, PTL DEF Spec

LEMMA ExchangeInit ==
  ASSUME SingleExchange(setup), Init
  PROVE  ExchangeAll
<1>1. TypeInv /\ OrderInv
  BY InitTypeOK, OrderInit DEF Init, TypeInv, Fresh
<1>2. ~Attached
  BY DEF Init, Attached
<1>3. BeforeSend
  BY DEF Init, BeforeSend
<1> QED BY <1>1, <1>2, <1>3
        DEF Init, ExchangeAll, ExchangeInv, ConnectInv, SendInv, LostInv, RecvInv,
            CloseInv, ResultInv

LEMMA ExchangeInvariant == Spec => [](SingleExchange(setup) => ExchangeAll)
<1>1. Init => (SingleExchange(setup) => ExchangeAll)
  BY ExchangeInit
<1>2. (SingleExchange(setup) => ExchangeAll) /\ [Next]_vars
        => (SingleExchange(setup) => ExchangeAll)'
  <2> SUFFICES ASSUME SingleExchange(setup) => ExchangeAll, [Next]_vars,
                      SingleExchange(setup')
               PROVE  ExchangeAll'
    OBVIOUS
  <2>1. SingleExchange(setup)
    BY SetupKept
  <2> QED BY <2>1, ExchangeStep
<1> QED BY <1>1, <1>2, PTL DEF Spec

(***************************************************************************)
(* The script of one exchange with a server that accepts and answers is    *)
(* never suspended with nothing to resume it.                              *)
(***************************************************************************)
THEOREM ExchangesWake == Spec => [](SingleExchange(setup) => Wakes)
<1>1. ExchangeAll /\ RefusedInv => Wakes
  <2> SUFFICES ASSUME ExchangeAll, RefusedInv, Cooperative, at = "epoll", gen = "live",
                      ~resolving, timer = {}
               PROVE  Attached /\ (edge \/ owed > 0 \/ tcp = "connecting")
    BY DEF Wakes, CallsReturn
  <2>1. /\ BeforeSend /\ ConnectInv /\ SendInv /\ LostInv /\ RecvInv /\ CloseInv
        /\ k \in {0, 1, 2, 3, 4}
    BY ExchangeOrder DEF ExchangeAll, ExchangeInv
  <2>2. Faults \cap {"unresolved", "unreachable"} = {} /\ "silent" \notin Faults
    BY DEF Cooperative
  <2>3. tcp # "refused"
    BY DEF RefusedInv, Cooperative
  <2> QED BY <2>1, <2>2, <2>3 DEF BeforeSend, ConnectInv, SendInv, LostInv, RecvInv, CloseInv
<1> QED BY <1>1, ExchangeInvariant, RefusedInvariant, PTL

(***************************************************************************)
(* Whatever fails, the receive of one exchange returns data, the end of    *)
(* the connection or its time-out.                                         *)
(***************************************************************************)
THEOREM ExchangesReceive == Spec => [](SingleExchange(setup) => RecvReturnsData)
<1>1. ExchangeAll => RecvReturnsData
  BY DEF ExchangeAll, ExchangeInv, ResultInv, RecvReturnsData
<1> QED BY <1>1, ExchangeInvariant, PTL

-----------------------------------------------------------------------------
(* Replies.                                                                *)

\* A connection that goes to the pool has nothing to come any more.
PoolsEmpty == pooled' /\ ~pooled => inbox' = 0 /\ owed' = 0

OwnInv ==
  /\ foreign = 0
  /\ buf # "foreign"
  /\ result # "foreign"
  /\ Attached => ~pooled

LEMMA OwnNotice ==
  ASSUME OwnInv, Notice
  PROVE  result' # "foreign"
  BY DEF OwnInv, Notice, Received

LEMMA OwnReceive ==
  ASSUME TypeOK, OwnInv, NEW timers, UpstreamRecv(timers)
  PROVE  foreign' = 0 /\ buf' # "foreign"
<1>1. CASE RecvData(timers)
  <2>1. PICK n \in 1 .. inbox : foreign' = IF n < foreign THEN foreign - n ELSE 0
    BY <1>1 DEF RecvData
  <2>2. ~(n < 0)
    BY DEF TypeOK
  <2>3. buf' = "own"
    BY <1>1 DEF RecvData, OwnInv
  <2> QED BY <2>1, <2>2, <2>3 DEF OwnInv
<1>2. CASE RecvEof(timers) \/ RecvAgain(timers) \/ RecvError(timers)
  BY <1>2 DEF RecvEof, RecvAgain, RecvError, OwnInv
<1> QED BY <1>1, <1>2 DEF UpstreamRecv

LEMMA OwnConnect ==
  ASSUME OwnInv, ResolvedConnect
  PROVE  foreign' = 0 /\ (Attached' => ~pooled')
  BY DEF OwnInv, ResolvedConnect, ConnectDone, ConnectAgain, ConnectOk, ConnectFails,
         NewConnection, kernelVars, Attached

\* The end of a connection.
LEMMA OwnEnd ==
  ASSUME TypeOK, OwnInv, Close \/ Clear, PoolsEmpty
  PROVE  foreign' = 0 /\ buf' = buf /\ (Attached' => ~pooled')
<1>1. CASE Attached
  <2>1. Finalize
    BY <1>1 DEF Close, Clear
  <2>2. ~Attached' /\ buf' = buf
    BY <2>1, FinalizeEffect DEF Finalize
  <2>3. CASE ToPool
    <3>1. pooled' /\ ~pooled /\ inbox' = inbox /\ owed' = owed /\ foreign' = inbox + owed
      BY <1>1, <2>3 DEF ToPool, OwnInv
    <3>2. inbox = 0 /\ owed = 0
      BY <3>1 DEF PoolsEmpty
    <3> QED BY <2>2, <3>1, <3>2
  <2>4. CASE CloseConnection
    BY <2>2, <2>4 DEF CloseConnection
  <2> QED BY <2>1, <2>3, <2>4 DEF Finalize
<1>2. CASE ~Attached
  BY <1>2 DEF Close, Clear, Ignored, peerVars, upstreamVars, kernelVars, OwnInv, Attached
<1> QED BY <1>1, <1>2

LEMMA OwnScript ==
  ASSUME TypeOK, OwnInv, PoolsEmpty, Script \/ ScriptEnds \/ ResumeGone
  PROVE  OwnInv'
<1>1. result' # "foreign"
  BY OwnNotice
     DEF Script, ResumeConnect, ResumeSend, ResumeRecv, ResumeRecvPage, ResumeRecvWait,
         ResumeRecvSync, ResumeSleep, ResumeClose, ResumeClear, ResumeExit, Resume,
         ScriptEnds, ResumeGone, OwnInv
<1>2. CASE Connect
  <2>1. CASE ResolvedConnect
    BY <1>1, <1>2, <2>1, OwnConnect DEF Connect, OwnInv
  <2>2. CASE UNCHANGED <<peerVars, kernelVars>>
    BY <1>1, <1>2, <2>2 DEF Connect, OwnInv, peerVars, kernelVars, Attached
  <2> QED BY <1>2, <2>1, <2>2 DEF Connect
<1>3. CASE Send \/ Sleep \/ Ignored
  BY <1>1, <1>3
     DEF Send, Sleep, Ignored, OwnInv, peerVars, upstreamVars, kernelVars, Attached
<1>4. CASE Recv \/ RecvSync
  <2>1. UNCHANGED <<peer, pooled>>
    BY <1>4 DEF Recv, RecvSync
  <2>2. foreign' = 0 /\ buf' # "foreign"
    BY <1>4, OwnReceive DEF Recv, RecvSync, OwnInv
  <2> QED BY <1>1, <2>1, <2>2 DEF OwnInv, Attached
<1>5. CASE Close \/ Clear
  BY <1>1, <1>5, OwnEnd DEF OwnInv
<1> QED BY <1>2, <1>3, <1>4, <1>5
        DEF Script, ResumeConnect, ResumeSend, ResumeRecv, ResumeRecvPage, ResumeRecvWait,
            ResumeRecvSync, ResumeSleep, ResumeClose, ResumeClear, ResumeExit, RecvWait,
            ScriptEnds, ResumeGone

LEMMA OwnStep ==
  ASSUME TypeOK, OwnInv, [Next]_vars, [PoolsEmpty]_vars
  PROVE  OwnInv'
<1>1. CASE UNCHANGED vars
  BY <1>1 DEF vars, peerVars, upstreamVars, kernelVars, OwnInv, Attached
<1>2. CASE PoolsEmpty /\ (Script \/ ScriptEnds \/ ResumeGone)
  BY <1>2, OwnScript
<1>3. CASE EpollEvent \/ PooledEvent
  BY <1>3 DEF EpollEvent, PooledEvent, upstreamVars, OwnInv, Attached
<1>4. CASE ReadHandler \/ WriteHandler
  <2>1. UNCHANGED <<peer, pooled, result>>
    BY <1>4 DEF ReadHandler, WriteHandler, CallHandler
  <2>2. foreign' = 0 /\ buf' # "foreign"
    <3>1. CASE UNCHANGED <<buf, foreign>>
      BY <3>1 DEF OwnInv
    <3>2. CASE UpstreamRecv(timer \ {"read"})
      BY <3>2, OwnReceive
    <3> QED BY <1>4, <3>1, <3>2
            DEF ReadHandler, WriteHandler, CallHandler, ConnectedHandler, DummyHandler,
                RecvHandler, SendHandler, upstreamVars, kernelVars
  <2> QED BY <2>1, <2>2 DEF OwnInv, Attached
<1>5. CASE Timers
  <2>1. CASE ResolvedConnect /\ UNCHANGED <<buf, result>>
    BY <2>1, OwnConnect DEF OwnInv
  <2>2. CASE UNCHANGED <<peer, pooled, buf, foreign, result>>
    BY <2>2 DEF OwnInv, Attached
  <2> QED BY <1>5, <2>1, <2>2
          DEF Timers, SocketTimeout, SleepHandler, ResolveHandler, peerVars, upstreamVars,
              kernelVars
<1>6. CASE Kernel
  <2>1. UNCHANGED <<peer, pooled, buf, result>>
    BY <1>6 DEF Kernel, Established, Refused, Answer, ServerCloses, Drained, KernelStep,
                upstreamVars
  <2>2. foreign' = 0
    <3>1. ~(0 > inbox)
      BY DEF TypeOK
    <3> QED BY <1>6, <3>1 DEF Kernel, Established, Refused, Answer, ServerCloses, Drained, OwnInv
  <2> QED BY <2>1, <2>2 DEF OwnInv, Attached
<1> QED BY <1>1, <1>2, <1>3, <1>4, <1>5, <1>6, NextCases

\* Who gives a connection to the pool.
LEMMA PoolStep ==
  ASSUME [Next]_vars, pooled', ~pooled
  PROVE  /\ Keepalive /\ Attached
         /\ ResumeClose \/ ResumeClear \/ ResumeGone
         /\ inbox' = inbox /\ owed' = owed
<1>1. ~ResolvedConnect
  BY DEF ResolvedConnect, ConnectDone, ConnectAgain, ConnectOk, ConnectFails, NewConnection
<1>2. ResumeClose \/ ResumeClear \/ ResumeGone
  BY <1>1, NextCases
     DEF Script, ResumeConnect, Connect, ResumeSend, Send, ResumeRecv, ResumeRecvPage,
         ResumeRecvWait, RecvWait, Recv, ResumeRecvSync, RecvSync, ResumeSleep, Sleep,
         ResumeExit, Ignored, ScriptEnds, EpollEvent, PooledEvent, ReadHandler,
         WriteHandler, CallHandler, Timers, SocketTimeout, SleepHandler, ResolveHandler,
         Kernel, Established, Refused, Answer, ServerCloses, Drained, KernelStep,
         peerVars, vars
<1>3. Close \/ Clear
  BY <1>2 DEF ResumeClose, ResumeClear, ResumeGone
<1>4. Attached /\ Finalize
  BY <1>3 DEF Close, Clear, Ignored, peerVars
<1>5. Keepalive /\ ToPool
  BY <1>4 DEF Finalize, CloseConnection
<1> QED BY <1>2, <1>4, <1>5 DEF ToPool

\* A connection of a script that runs without the pool.
UnpooledInv == ~setup.keepalive => ~pooled

LEMMA UnpooledInvariant == Spec => []UnpooledInv
<1>1. Init => UnpooledInv
  BY DEF Init, UnpooledInv, Keepalive
<1>2. UnpooledInv /\ [Next]_vars => UnpooledInv'
  BY PoolStep, SetupKept DEF UnpooledInv, Keepalive
<1> QED BY <1>1, <1>2, PTL DEF Spec

\* Of one exchange: what has been sent is its reply until it ends.
SingleInv ==
  SingleExchange(setup) =>
    /\ k \in {0, 1, 2, 3} => OwnInv
    /\ result # "foreign"

LEMMA SingleStep ==
  ASSUME SingleExchange(setup) => ExchangeAll, TypeOK, SingleInv, [Next]_vars
  PROVE  SingleInv'
<1> SUFFICES ASSUME SingleExchange(setup')
             PROVE  /\ k' \in {0, 1, 2, 3} => OwnInv'
                    /\ result' # "foreign"
  BY DEF SingleInv
<1>1. SingleExchange(setup) /\ ExchangeAll /\ result # "foreign"
  BY SetupKept DEF SingleInv
<1>2. k \in {0, 1, 2, 3, 4} /\ (k \in {0, 1, 2, 3} => OwnInv)
  BY <1>1, ExchangeOrder DEF SingleInv
<1>3. CASE k = 4
  <2>1. k' = 4 /\ result' = result
    <3>1. Len(program) = 4 /\ program[4] \in {"close", "clear"}
      BY <1>1, ExchangeProgram DEF ExchangeAll, TypeInv
    <3>2. ~Script
      BY <1>3, <3>1 DEF Script, ResumeConnect, ResumeSend, ResumeRecv, ResumeRecvPage,
         ResumeRecvWait, ResumeRecvSync, ResumeSleep, ResumeClose, ResumeClear, ResumeExit,
         Resume
    <3>3. ~(\E call \in {"recv", "recvwait"} : Waiting(call))
      BY <1>3, <3>1 DEF Waiting
    <3> QED BY <1>3, <3>2, <3>3, NextCases
            DEF ScriptEnds, Notice, ResumeGone, EpollEvent, PooledEvent, ReadHandler,
                WriteHandler, CallHandler, Timers, SocketTimeout, SleepHandler,
                ResolveHandler, Kernel, Established, Refused, Answer, ServerCloses,
                Drained, KernelStep, vars, scriptVars
  <2> QED BY <1>1, <2>1
<1>4. CASE k # 4 /\ ~(ResumeClose \/ ResumeClear \/ ResumeGone)
  <2>1. OwnInv
    BY <1>2, <1>4
  <2>2. PoolsEmpty
    BY <1>4, PoolStep DEF PoolsEmpty
  <2>3. OwnInv'
    BY <2>1, <2>2, OwnStep
  <2> QED BY <2>3 DEF OwnInv
<1>5. CASE k # 4 /\ (ResumeClose \/ ResumeClear \/ ResumeGone)
  <2>1. PICK call \in {"close", "clear"} : Resume(call)
    BY <1>1, <1>5, NoOtherCall DEF ResumeClose, ResumeClear
  <2>2. k = 3 /\ k' = 4 /\ Notice
    BY <1>1, <2>1, ExchangeCall DEF Resume
  <2>3. result' # "foreign"
    BY <1>2, <2>2, OwnNotice
  <2> QED BY <2>2, <2>3
<1> QED BY <1>2, <1>3, <1>4, <1>5

LEMMA SingleInvariant == Spec => []SingleInv
<1>1. Init => SingleInv
  BY DEF Init, SingleInv, OwnInv, Attached
<1>2. (SingleExchange(setup) => ExchangeAll) /\ TypeOK /\ SingleInv /\ [Next]_vars => SingleInv'
  BY SingleStep
<1> QED BY <1>1, <1>2, ExchangeInvariant, TypeCorrect, PTL DEF Spec

-----------------------------------------------------------------------------
(* Conversations: exchanges one after the other, over the pool or not.     *)

Speaking == {"connect", "send", "recv", "recvwait"}
Between == {"none", "close", "clear", "sleep"}

\* The calls that follow a call, "none" before the first.
After(call) ==
  IF call = "connect" THEN {"send"}
  ELSE IF call = "send" THEN {"recv", "recvwait"}
  ELSE IF call \in {"recv", "recvwait"} THEN {"close", "clear"}
  ELSE {"connect", "sleep"}

CallOf(script, i) == IF i = 0 THEN "none" ELSE script[i]

(***************************************************************************)
(* Any number of exchanges, and sleeps between them, with a server that    *)
(* answers every request it has received, in time, whole and in one piece, *)
(* unless it closes the connection.  Anything else may fail.               *)
(***************************************************************************)
Conversation(s) ==
  /\ ~s.greets
  /\ s.pieces = 1
  /\ s.faults \cap {"silent", "slow", "partial"} = {}
  /\ \A i \in 1 .. Len(s.program) : s.program[i] \in After(CallOf(s.program, i - 1))
  /\ CallOf(s.program, Len(s.program)) \in Between

LastCall == CallOf(program, k)

NothingDue == inbox = 0 /\ owed = 0

TalkScript ==
  /\ Conversation(setup)
  /\ gen \in {"live", "ended"}
  /\ ~page
  /\ gen = "ended" => LastCall \in Between

\* What holds of the connection at any time.
DueInv ==
  /\ Attached => ~pooled
  /\ inbox + owed \in {0, 1}
  /\ tcp # "up" => NothingDue
  /\ eof => owed = 0 /\ tcp = "up"
  /\ ready => Incoming
  /\ timedout # {} => NothingDue /\ tcp # "connecting" /\ (tcp # "up" \/ eof)

\* Between two exchanges: the reply to the last one has been read.
BetweenParts ==
  /\ NothingDue
  /\ ~Attached
  /\ tcp # "connecting"
  /\ full => Closing
  /\ thenWrite => pooled

ConnectParts ==
  /\ NothingDue
  /\ full => Closing
  /\ "read" \notin timer
  /\ ~Attached => tcp # "connecting"
  /\ Attached =>
       /\ rh \in {"connected", "dummy"} /\ wh = rh
       /\ wh = "dummy" => "write" \notin timer
       /\ (at = "epoll" /\ "write" \in timer /\ tcp = "up") => edge
       /\ at # "epoll" => tcp # "connecting"
       /\ at = "resume" => wh = "dummy"
       /\ thenWrite => ready

(***************************************************************************)
(* The request is out, and then its reply is due, or the send handler has  *)
(* it still; where the script goes on, that is at the end of the           *)
(* connection.  An edge that is not for the reply has been met.            *)
(***************************************************************************)
SendParts ==
  /\ Attached
  /\ ~enabled_receive
  /\ "read" \notin timer
  /\ rh = "dummy" /\ wh \in {"dummy", "send"}
  /\ tcp # "connecting"
  /\ wh = "send" => NothingDue
  /\ (wh = "dummy" /\ tcp = "up" /\ ~eof) => inbox + owed = 1
  /\ inbox > 0 => edge \/ ready
  /\ "write" \in timer => wh = "send" \/ tcp = "refused"
  /\ full => wh = "send" \/ Closing
  /\ thenWrite => ready
  /\ (at = "epoll" /\ wh = "send" /\ tcp = "up") => full \/ edge \/ eof
  /\ at # "epoll" => (edge => Incoming) /\ (full => Closing)
  /\ (at \in {"read", "resume"} /\ wh = "send" /\ tcp = "up") => eof

\* Whatever ends a receive brings the reply, or none is to come.
RecvParts ==
  /\ Attached
  /\ rh = "recv" /\ wh \in {"dummy", "send"}
  /\ tcp # "connecting"
  /\ wh = "send" => NothingDue /\ (tcp = "up" => eof)
  /\ "write" \in timer => wh = "send" \/ tcp = "refused"
  /\ ~bufStart => NothingDue
  /\ full => Closing
  /\ at = "epoll" => (inbox > 0 => edge) /\ (edge => Incoming \/ NothingDue)
  /\ ("read" \in timer /\ tcp = "up" /\ ~eof) => inbox + owed = 1
  /\ at = "read" => "read" \in timedout \/ (ready /\ Incoming)
  /\ at \in {"write", "resume"} => NothingDue

TalkParts ==
  /\ LastCall \in Between => BetweenParts
  /\ LastCall = "connect" => ConnectParts
  /\ LastCall = "send" => SendParts
  /\ LastCall \in {"recv", "recvwait"} => RecvParts

TalkInv == TalkScript /\ DueInv /\ TalkParts

TalkAll == TypeInv /\ OrderInv /\ TalkInv

LEMMA TalkProgram ==
  ASSUME setup \in Setups, Conversation(setup)
  PROVE  /\ program \in Seq(Call) /\ Len(program) \in Nat
         /\ \A i \in 0 .. Len(program) : CallOf(program, i) \in Speaking \cup Between
         /\ \A i \in 1 .. Len(program) : program[i] \in After(CallOf(program, i - 1))
<1>1. program \in Seq(Call) /\ Len(program) \in Nat
  BY ProgramType
<1>2. \A i \in 1 .. Len(program) : program[i] \in After(CallOf(program, i - 1))
  BY DEF Conversation, program
<1>3. \A call : After(call) \subseteq Speaking \cup Between
  BY DEF After, Speaking, Between
<1>4. ASSUME NEW i \in 0 .. Len(program) PROVE CallOf(program, i) \in Speaking \cup Between
  <2>1. CASE i = 0
    BY <2>1 DEF CallOf, Between
  <2>2. CASE i # 0
    <3>1. i \in 1 .. Len(program)
      BY <1>1, <2>2
    <3>2. program[i] \in Speaking \cup Between
      BY <1>2, <1>3, <3>1
    <3> QED BY <2>2, <3>2 DEF CallOf
  <2> QED BY <2>1, <2>2
<1> QED BY <1>1, <1>2, <1>4

LEMMA TalkConnected ==
  ASSUME setup \in Setups, Conversation(setup)
  PROVE  \A n \in Nat : n <= Len(program) =>
           (Connected(program, n) <=> CallOf(program, n) \in Speaking)
<1> DEFINE C(n) == Connected(program, n) <=> CallOf(program, n) \in Speaking
           P == {n \in Nat : n <= Len(program) => C(n)}
<1>1. 0 \in P
  BY DEF Connected, CallOf, Speaking
<1>2. ASSUME NEW n \in Nat, n \in P PROVE n + 1 \in P
  <2> SUFFICES ASSUME n + 1 <= Len(program) PROVE C(n + 1)
    OBVIOUS
  <2>1. /\ n \in 0 .. (Len(program) - 1) /\ n \in 0 .. Len(program)
        /\ n + 1 \in 1 .. Len(program) /\ n + 1 - 1 = n
    BY TalkProgram
  <2>2. C(n)
    BY <1>2, <2>1
  <2>3. Connected(program, n + 1) <=>
          \/ program[n + 1] = "connect"
          \/ Connected(program, n) /\ program[n + 1] \notin {"close", "clear"}
    BY <2>1, TalkProgram, ConnectedNext
  <2>4. program[n + 1] \in After(CallOf(program, n)) /\ CallOf(program, n) \in Speaking \cup Between
    BY <2>1, TalkProgram
  <2>5. CallOf(program, n + 1) = program[n + 1]
    BY DEF CallOf
  <2> HIDE DEF P
  <2> QED BY <2>2, <2>3, <2>4, <2>5 DEF After, Speaking, Between
<1>3. \A n \in Nat : n \in P
  <2> HIDE DEF P
  <2> QED BY <1>1, <1>2, NatSetInduction
<1> QED BY <1>3

LEMMA TalkOrderly ==
  ASSUME TypeOK, Conversation(setup)
  PROVE  /\ Orderly
         /\ LastCall \in Speaking \cup Between
         /\ Open <=> LastCall \in Speaking
<1>1. setup \in Setups /\ k \in 0 .. Len(program)
  BY DEF TypeOK
<1>2. k \in Nat /\ k <= Len(program) /\ Len(program) \in Nat
  BY <1>1, TalkProgram
<1>3. ~Connected(program, Len(program))
  <2>1. CallOf(program, Len(program)) \in Between
    BY DEF Conversation, program
  <2> QED BY <1>1, <1>2, <2>1, TalkConnected DEF Speaking, Between
<1>4. ASSUME NEW i \in DOMAIN program, program[i] \in {"connect", "sleep"}
      PROVE  ~Connected(program, i - 1)
  <2>1. i \in 1 .. Len(program) /\ i - 1 \in Nat /\ i - 1 <= Len(program) /\ i - 1 \in 0 .. Len(program)
    BY <1>1, TalkProgram
  <2>2. program[i] \in After(CallOf(program, i - 1)) /\ CallOf(program, i - 1) \in Speaking \cup Between
    BY <1>1, <2>1, TalkProgram
  <2>3. CallOf(program, i - 1) \notin Speaking
    BY <1>4, <2>2 DEF After, Speaking, Between
  <2> QED BY <1>1, <2>1, <2>3, TalkConnected
<1> QED BY <1>1, <1>2, <1>3, <1>4, TalkProgram, TalkConnected DEF Orderly, Open, LastCall

\* What the invariant of orderly scripts says of a conversation.
LEMMA TalkOrder ==
  ASSUME TalkAll
  PROVE  /\ LastCall \in Speaking \cup Between
         /\ thenWrite => at \in {"read", "resume"}
         /\ at \in {"read", "write"} => Attached
         /\ (gen = "live" /\ LastCall \in Between) =>
              /\ ~Attached /\ ~resolving /\ ~SocketTimer
              /\ at = "resume" => timer = {}
         /\ (gen = "live" /\ LastCall \in Speaking) =>
              /\ "sleep" \notin timer
              /\ Attached => ~resolving
              /\ ~Attached => at = "epoll" /\ timer = {}
         /\ gen = "ended" =>
              /\ LastCall \in Between
              /\ timer = {} /\ ~Attached /\ ~resolving /\ at = "epoll" /\ ~thenWrite
<1>1. TypeOK /\ TalkScript
  BY DEF TalkAll, TypeInv, TalkInv
<1>2. Orderly /\ LastCall \in Speaking \cup Between /\ (Open <=> LastCall \in Speaking)
  BY <1>1, TalkOrderly DEF TalkScript
<1>3. LiveInv /\ OverInv /\ HeldInv
  BY <1>2 DEF TalkAll, OrderInv
<1>4. LastCall \in Between => LastCall \notin Speaking
  BY DEF Between, Speaking
<1> QED BY <1>1, <1>2, <1>3, <1>4 DEF LiveInv, OverInv, HeldInv, TalkScript

\* The call a resumed conversation goes on to.
LEMMA TalkCall ==
  ASSUME TalkAll, NEW call, Resume(call)
  PROVE  /\ gen = "live" /\ at = "resume" /\ setup' = setup
         /\ LastCall' = call
         /\ call \in After(LastCall) /\ LastCall \in Speaking \cup Between
         /\ gen' = gen => TalkScript'
<1>1. TypeOK /\ TalkScript
  BY DEF TalkAll, TypeInv, TalkInv
<1>2. /\ gen = "live" /\ at = "resume" /\ k' = k + 1 /\ setup' = setup /\ program' = program
      /\ k < Len(program) /\ program[k + 1] = call
      /\ page' = (call # "connect" /\ (page \/ call = "recvpage"))
  BY DEF Resume, program
<1>3. k \in 0 .. Len(program) /\ Len(program) \in Nat
  BY <1>1, TalkProgram DEF TypeOK, TalkScript
<1>4. k + 1 \in 1 .. Len(program) /\ k + 1 - 1 = k /\ k + 1 # 0
  BY <1>2, <1>3
<1>5. LastCall' = call
  BY <1>2, <1>4 DEF LastCall, CallOf
<1>6. call \in After(LastCall) /\ LastCall \in Speaking \cup Between
  BY <1>1, <1>2, <1>3, <1>4, TalkProgram DEF TypeOK, TalkScript, LastCall
<1>7. ~page'
  BY <1>1, <1>2, <1>6 DEF TalkScript, After
<1> QED BY <1>1, <1>2, <1>5, <1>6, <1>7 DEF TalkScript

LEMMA TalkNoOtherCall ==
  ASSUME TalkAll
  PROVE  ~(ResumeRecvPage \/ ResumeRecvSync \/ ResumeExit \/ ResumeGone)
<1>1. ASSUME NEW call, Resume(call) PROVE call \notin {"recvpage", "recvsync", "exit"}
  BY <1>1, TalkCall DEF After
<1>2. gen # "gone"
  BY DEF TalkAll, TalkInv, TalkScript
<1> QED BY <1>1, <1>2 DEF ResumeRecvPage, ResumeRecvSync, ResumeExit, ResumeGone

\* A step that is not the script's.
LEMMA TalkKept ==
  ASSUME TalkAll, UNCHANGED scriptVars
  PROVE  TalkScript' /\ LastCall' = LastCall /\ Faults' = Faults
  BY DEF scriptVars, TalkAll, TalkInv, TalkScript, LastCall, program, Faults

\* Of the parts only the one of the last call matters.
LEMMA TalkPart ==
  ASSUME LastCall' \in Speaking \cup Between,
         LastCall' \in Between => BetweenParts',
         LastCall' = "connect" => ConnectParts',
         LastCall' = "send" => SendParts',
         LastCall' \in {"recv", "recvwait"} => RecvParts',
         TalkScript', DueInv'
  PROVE  TalkInv'
  BY DEF TalkInv, TalkParts

LEMMA TalkNumbers ==
  ASSUME TalkAll
  PROVE  /\ inbox \in Nat /\ owed \in Nat
         /\ Faults \cap {"silent", "slow", "partial"} = {} /\ ~setup.greets /\ setup.pieces = 1
         /\ DueInv /\ TalkParts /\ TypeOK
  BY DEF TalkAll, TypeInv, TypeOK, TalkInv, TalkScript, Conversation, Faults

\* A connection is made between two exchanges.
LEMMA TalkResolved ==
  ASSUME TalkAll, NothingDue, ~Attached, tcp # "connecting", full => Closing, timer = {},
         ResolvedConnect
  PROVE  /\ DueInv' /\ NothingDue' /\ (full' => Closing')
         /\ "read" \notin timer' /\ (~Attached' => tcp' # "connecting")
         /\ Attached' =>
              /\ rh' \in {"connected", "dummy"} /\ wh' = rh'
              /\ wh' = "dummy" => "write" \notin timer'
              /\ ("write" \in timer' /\ tcp' = "up") => edge'
         /\ pooled => tcp' = tcp
<1>1. DueInv /\ ~setup.greets
  BY TalkNumbers
<1>2. CASE ConnectDone
  <2>1. /\ NothingDue' /\ (full' => Closing') /\ DueInv'
    BY <1>1, <1>2 DEF ConnectDone, NothingDue, DueInv, Closing, Incoming, Attached
  <2> QED BY <1>2, <2>1 DEF ConnectDone
<1>3. CASE \E state \in {"connecting", "lost", "up"} : NewConnection(state)
  <2>1. NothingDue' /\ ~full' /\ ~pooled' /\ ~ready' /\ timedout' = {} /\ ~eof' /\ ~pooled /\ Attached'
    BY <1>1, <1>3 DEF NewConnection, NothingDue, Attached
  <2>2. DueInv'
    BY <2>1 DEF DueInv, NothingDue
  <2>3. CASE ConnectAgain
    BY <2>1, <2>2, <2>3 DEF ConnectAgain, NewConnection
  <2>4. CASE ConnectOk
    BY <2>1, <2>2, <2>4 DEF ConnectOk
  <2>5. CASE ConnectFails
    BY <2>1, <2>2, <2>5 DEF ConnectFails, Attached
  <2>6. CASE ConnectDone
    BY <1>2, <2>6
  <2> QED BY <2>3, <2>4, <2>5, <2>6 DEF ResolvedConnect
<1>4. CASE ConnectFails
  <2>1. UNCHANGED <<pooled, tcp, ready, timedout, eof, inbox, owed, full, timer>> /\ peer' = "null"
    BY <1>4 DEF ConnectFails, kernelVars
  <2>2. DueInv' /\ NothingDue' /\ (full' => Closing')
    BY <1>1, <2>1 DEF DueInv, NothingDue, Closing, Incoming, Attached
  <2> QED BY <2>1, <2>2 DEF Attached
<1>5. ConnectAgain \/ ConnectOk => \E state \in {"connecting", "lost", "up"} : NewConnection(state)
  BY DEF ConnectAgain, ConnectOk
<1> QED BY <1>2, <1>3, <1>4, <1>5 DEF ResolvedConnect

LEMMA TalkConnect ==
  ASSUME TalkAll, ResumeConnect
  PROVE  TalkInv'
<1>1. /\ gen = "live" /\ at = "resume" /\ LastCall' = "connect" /\ LastCall \in Between
      /\ TalkScript' /\ setup' = setup /\ Connect /\ Continue
  BY TalkCall DEF ResumeConnect, After, Speaking, Between
<1>2. ~Attached /\ timer = {} /\ BetweenParts /\ ~resolving
  BY <1>1, TalkOrder, TalkNumbers DEF TalkParts
<1>3. ~thenWrite' /\ at' = IF thenWrite /\ Attached' THEN "write" ELSE "epoll"
  BY <1>1 DEF Continue, Attached
<1>4. CASE setup.byName
  <2>1. UNCHANGED <<peerVars, kernelVars, timer>>
    BY <1>1, <1>4 DEF Connect
  <2>2. DueInv' /\ NothingDue' /\ ~Attached' /\ (full' => Closing') /\ tcp' # "connecting"
    BY <1>2, <2>1, TalkNumbers
       DEF DueInv, BetweenParts, NothingDue, Attached, Closing, Incoming, peerVars, kernelVars
  <2>3. ConnectParts'
    BY <1>2, <2>1, <2>2 DEF ConnectParts
  <2> QED BY <1>1, <2>2, <2>3, TalkPart DEF Speaking, Between
<1>5. CASE ~setup.byName
  <2>1. ResolvedConnect
    BY <1>1, <1>5 DEF Connect
  <2>2. tcp # "connecting" /\ (thenWrite => pooled)
    BY <1>2 DEF BetweenParts
  <2>3. at' # "epoll" => tcp' # "connecting"
    BY <1>2, <1>3, <2>1, <2>2, TalkResolved DEF BetweenParts
  <2>4. ConnectParts' /\ DueInv'
    BY <1>2, <1>3, <2>1, <2>3, TalkResolved DEF ConnectParts, BetweenParts
  <2> QED BY <1>1, <2>4, TalkPart DEF Speaking, Between
<1> QED BY <1>4, <1>5

LEMMA TalkResolve ==
  ASSUME TalkAll, ResolveHandler
  PROVE  TalkInv'
<1>1. /\ at = "epoll" /\ resolving
      /\ UNCHANGED <<scriptVars, workerVars, upstreamVars, result>>
  BY DEF ResolveHandler
<1>2. LastCall' = LastCall /\ TalkScript'
  BY <1>1, TalkKept
<1>3. gen = "live" /\ LastCall \in Speaking /\ ~Attached /\ timer = {} /\ ~thenWrite
  BY <1>1, TalkOrder DEF TalkAll, TalkInv, TalkScript
<1>4. LastCall = "connect" /\ ConnectParts
  BY <1>3, TalkNumbers DEF TalkParts, SendParts, RecvParts, Speaking
<1>5. ConnectParts' /\ DueInv'
  <2>1. at' = "epoll" /\ ~thenWrite'
    BY <1>1, <1>3 DEF workerVars
  <2>2. CASE ResolvedConnect
    BY <1>3, <1>4, <2>1, <2>2, TalkResolved DEF ConnectParts
  <2>3. CASE UNCHANGED <<peerVars, kernelVars, timer>>
    <3>1. DueInv' /\ NothingDue' /\ ~Attached' /\ (full' => Closing') /\ tcp' # "connecting"
      BY <1>3, <1>4, <2>3, TalkNumbers
         DEF DueInv, ConnectParts, NothingDue, Attached, Closing, Incoming, peerVars, kernelVars
    <3> QED BY <1>3, <2>3, <3>1 DEF ConnectParts
  <2> QED BY <2>2, <2>3 DEF ResolveHandler
<1> QED BY <1>2, <1>4, <1>5, TalkPart DEF Speaking, Between

LEMMA TalkSend ==
  ASSUME TalkAll, ResumeSend
  PROVE  TalkInv'
<1>1. /\ gen = "live" /\ at = "resume" /\ LastCall' = "send" /\ LastCall = "connect"
      /\ TalkScript' /\ setup' = setup /\ Send /\ Continue
  BY TalkCall DEF ResumeSend, After, Speaking, Between
<1>2. /\ Attached /\ ConnectParts /\ DueInv /\ inbox \in Nat /\ owed \in Nat
      /\ setup.pieces = 1 /\ Faults \cap {"silent", "slow", "partial"} = {}
  BY <1>1, TalkOrder, TalkNumbers DEF TalkParts, Speaking
<1>3. /\ UpstreamSend /\ ~enabled_receive'
      /\ UNCHANGED <<peer, pooled, tcp, rh, ready, timedout, edge, inbox, eof>>
  BY <1>1, <1>2 DEF Send
<1>4. /\ Attached' /\ ~thenWrite'
      /\ at' = IF thenWrite THEN "write" ELSE "epoll"
  BY <1>1, <1>2, <1>3 DEF Attached, Continue
<1>5. /\ inbox = 0 /\ owed = 0 /\ (full => Closing) /\ "read" \notin timer
      /\ rh = "dummy" /\ wh = "dummy" /\ "write" \notin timer
      /\ tcp # "connecting" /\ (thenWrite => Closing)
  BY <1>1, <1>2 DEF ConnectParts, NothingDue, DueInv, Incoming
<1>6. (Closing' <=> Closing) /\ (Incoming' <=> Incoming) /\ (Incoming <=> Closing)
  BY <1>3, <1>5 DEF Closing, Incoming
<1>7. CASE SendAll
  <2>1. tcp = "up" /\ ~full /\ wh' = "dummy" /\ timer' = timer \ {"write"} /\ full' = full
        /\ inbox' = 0
    BY <1>3, <1>5, <1>7 DEF SendAll
  <2>2. IF eof THEN owed' = 0 ELSE owed' = 1
    BY <1>2, <1>5, <1>7 DEF SendAll
  <2>3. DueInv'
    BY <1>2, <1>3, <1>5, <1>6, <2>1, <2>2 DEF DueInv, NothingDue, Attached
  <2>4. at' # "epoll" => (edge' => Incoming')
    BY <1>4, <1>5, <1>6
  <2>5. SendParts'
    BY <1>3, <1>4, <1>5, <2>1, <2>2, <2>4 DEF SendParts
  <2> QED BY <1>1, <2>3, <2>5, TalkPart DEF Speaking, Between
<1>8. CASE SendAgain
  <2>1. /\ timer' = timer \cup {"write"} /\ wh' = "send" /\ owed' = 0 /\ inbox' = 0
        /\ (tcp = "up" /\ full') \/ (tcp = "lost" /\ full' = full)
    BY <1>3, <1>5, <1>8 DEF SendAgain
  <2>2. NothingDue'
    BY <2>1 DEF NothingDue
  <2>3. DueInv'
    BY <1>2, <1>3, <1>5, <1>6, <2>1, <2>2 DEF DueInv, NothingDue, Attached
  <2>4. at' # "epoll" => (edge' => Incoming') /\ (full' => Closing')
    BY <1>4, <1>5, <1>6
  <2>5. SendParts'
    BY <1>3, <1>4, <1>5, <2>1, <2>2, <2>4 DEF SendParts
  <2> QED BY <1>1, <2>3, <2>5, TalkPart DEF Speaking, Between
<1>9. CASE SendError
  <2>1. tcp = "refused" /\ UNCHANGED <<timer, wh, owed, full>>
    BY <1>9 DEF SendError
  <2>2. NothingDue' /\ Closing'
    BY <1>3, <1>5, <2>1 DEF NothingDue, Closing
  <2>3. DueInv'
    BY <1>2, <1>3, <1>5, <1>6, <2>1, <2>2 DEF DueInv, NothingDue, Attached
  <2>4. SendParts'
    BY <1>3, <1>4, <1>5, <1>6, <2>1, <2>2 DEF SendParts
  <2> QED BY <1>1, <2>3, <2>4, TalkPart DEF Speaking, Between
<1> QED BY <1>3, <1>7, <1>8, <1>9 DEF UpstreamSend

\* A receive with a piece there takes all that is due.
LEMMA TalkTaken ==
  ASSUME TalkAll, NEW timers, RecvData(timers), ~page'
  PROVE  /\ inbox = 1 /\ owed = 0 /\ inbox' = 0 /\ ready' = eof
         /\ ~bufStart' /\ timer' = timers
<1>1. inbox \in Nat /\ owed \in Nat /\ inbox + owed \in {0, 1}
  BY TalkNumbers DEF DueInv
<1>2. inbox = 1 /\ owed = 0
  BY <1>1 DEF RecvData
<1>3. PICK n \in 1 .. inbox : inbox' = inbox - n /\ ready' = (n < inbox \/ eof)
  BY DEF RecvData
<1>4. n = 1
  BY <1>2
<1>5. inbox' = 0 /\ ready' = (FALSE \/ eof)
  BY <1>2, <1>3, <1>4
<1>6. eof \in BOOLEAN
  BY DEF TalkAll, TypeInv, TypeOK
<1> QED BY <1>2, <1>5, <1>6 DEF RecvData

LEMMA TalkRecv ==
  ASSUME TalkAll, ResumeRecv \/ ResumeRecvWait
  PROVE  TalkInv'
<1>1. PICK call \in {"recv", "recvwait"} :
        Resume(call) /\ Recv /\ Continue /\ UNCHANGED <<gen, resolving>>
  BY DEF ResumeRecv, ResumeRecvWait, RecvWait
<1>2. /\ gen = "live" /\ at = "resume" /\ LastCall' = call /\ LastCall = "send"
      /\ TalkScript' /\ setup' = setup
  BY <1>1, TalkCall DEF After, Speaking, Between
<1>3. Attached /\ SendParts /\ DueInv /\ inbox \in Nat /\ owed \in Nat /\ TypeOK
  BY <1>2, TalkNumbers DEF TalkParts, SendParts
<1>4. /\ UpstreamRecv(timer) /\ rh' = "recv" /\ edge' = (edge \/ enabled_receive)
      /\ UNCHANGED <<peer, pooled, tcp, wh, timedout, eof, full, owed>>
  BY <1>1, <1>3 DEF Recv
<1>5. /\ Attached' /\ ~thenWrite'
      /\ at' = IF thenWrite THEN "write" ELSE "epoll"
  BY <1>1, <1>3, <1>4 DEF Attached, Continue
<1>6. edge' = edge /\ (Closing' <=> Closing) /\ ~page'
  BY <1>2, <1>3, <1>4 DEF SendParts, TypeOK, Closing, TalkScript
<1>7. /\ "read" \notin timer /\ wh \in {"dummy", "send"} /\ tcp # "connecting"
      /\ wh = "send" => NothingDue /\ (tcp = "up" => eof)
      /\ (tcp = "up" /\ ~eof) => inbox + owed = 1
      /\ "write" \in timer => wh = "send" \/ tcp = "refused"
      /\ thenWrite => ready
      /\ inbox > 0 => edge \/ ready
      /\ (edge => Incoming) /\ (full => Closing)
      /\ tcp # "up" => NothingDue
      /\ eof => owed = 0
      /\ ready => Incoming
  BY <1>2, <1>3 DEF SendParts, DueInv
<1>8. CASE RecvData(timer)
  <2>1. /\ inbox = 1 /\ owed = 0 /\ inbox' = 0 /\ ready' = eof /\ ~bufStart' /\ timer' = timer
    BY <1>6, <1>8, TalkTaken
  <2>2. NothingDue'
    BY <1>4, <2>1 DEF NothingDue
  <2>3. DueInv'
    BY <1>3, <1>4, <1>5, <2>1, <2>2 DEF DueInv, NothingDue, Attached, Incoming, Closing
  <2>4. RecvParts'
    BY <1>4, <1>5, <1>6, <1>7, <2>1, <2>2 DEF RecvParts
  <2> QED BY <1>2, <2>3, <2>4, TalkPart DEF Speaking, Between
<1>9. CASE RecvEof(timer)
  <2>1. inbox = 0 /\ eof /\ ~ready' /\ ~bufStart' /\ timer' = timer \cup {"read"} /\ inbox' = inbox
    BY <1>9 DEF RecvEof
  <2>2. NothingDue'
    BY <1>4, <1>7, <2>1 DEF NothingDue
  <2>3. DueInv'
    BY <1>3, <1>4, <1>5, <2>1, <2>2 DEF DueInv, NothingDue, Attached
  <2>4. RecvParts'
    BY <1>4, <1>5, <1>6, <1>7, <2>1, <2>2 DEF RecvParts
  <2> QED BY <1>2, <2>3, <2>4, TalkPart DEF Speaking, Between
<1>10. CASE RecvAgain(timer)
  <2>1. ~ready' /\ bufStart' /\ timer' = timer \cup {"read"} /\ inbox' = inbox
    BY <1>10 DEF RecvAgain
  <2>2. ~ready
    BY <1>3, <1>7, <1>10 DEF RecvAgain, Incoming, Closing
  <2>3. ~thenWrite /\ at' = "epoll" /\ (inbox > 0 => edge)
    BY <1>5, <1>7, <2>2
  <2>4. (Incoming' <=> Incoming) /\ (NothingDue' <=> NothingDue)
    BY <1>4, <1>6, <2>1 DEF Incoming, NothingDue
  <2>5. DueInv'
    BY <1>3, <1>4, <1>5, <2>1, <2>4 DEF DueInv, NothingDue, Attached
  <2>6. RecvParts'
    BY <1>4, <1>5, <1>6, <1>7, <2>1, <2>3, <2>4 DEF RecvParts
  <2> QED BY <1>2, <2>5, <2>6, TalkPart DEF Speaking, Between
<1>11. CASE RecvError(timer)
  <2>1. tcp = "refused" /\ ~ready' /\ bufStart' /\ timer' = timer /\ inbox' = inbox
    BY <1>11 DEF RecvError
  <2>2. NothingDue' /\ inbox' = 0
    BY <1>4, <1>7, <2>1 DEF NothingDue
  <2>3. DueInv'
    BY <1>3, <1>4, <1>5, <2>1, <2>2 DEF DueInv, NothingDue, Attached
  <2>4. RecvParts'
    BY <1>4, <1>5, <1>6, <1>7, <2>1, <2>2 DEF RecvParts
  <2> QED BY <1>2, <2>3, <2>4, TalkPart DEF Speaking, Between
<1> QED BY <1>4, <1>8, <1>9, <1>10, <1>11 DEF UpstreamRecv

LEMMA TalkSleep ==
  ASSUME TalkAll, ResumeSleep
  PROVE  TalkInv'
<1>1. /\ gen = "live" /\ at = "resume" /\ LastCall' = "sleep" /\ LastCall \in Between
      /\ TalkScript' /\ UNCHANGED <<peerVars, upstreamVars, kernelVars>> /\ Continue
  BY TalkCall DEF ResumeSleep, Sleep, After, Speaking, Between
<1>2. BetweenParts /\ DueInv
  BY <1>1, TalkNumbers DEF TalkParts
<1>3. BetweenParts' /\ DueInv'
  BY <1>1, <1>2
     DEF BetweenParts, DueInv, NothingDue, Attached, Closing, Incoming, peerVars, kernelVars,
         Continue
<1> QED BY <1>1, <1>3, TalkPart DEF Between, Speaking

LEMMA TalkClose ==
  ASSUME TalkAll, ResumeClose \/ ResumeClear
  PROVE  TalkInv' /\ NothingDue
<1>1. PICK call \in {"close", "clear"} :
        /\ Resume(call) /\ UNCHANGED gen
        /\ Close \/ Clear
        /\ Continue \/ thenWrite' = (thenWrite /\ peer' # "stale")
  BY DEF ResumeClose, ResumeClear
<1>2. /\ gen = "live" /\ at = "resume" /\ LastCall' \in {"close", "clear"}
      /\ LastCall \in {"recv", "recvwait"} /\ TalkScript'
  BY <1>1, TalkCall DEF After, Speaking, Between
<1>3. RecvParts /\ DueInv
  BY <1>2, TalkNumbers DEF TalkParts
<1>4. Attached /\ NothingDue /\ tcp # "connecting" /\ (full => Closing)
  BY <1>2, <1>3 DEF RecvParts
<1>5. Finalize /\ ~Attached' /\ timedout' = timedout
  BY <1>1, <1>4, FinalizeEffect DEF Close, Clear, Finalize
<1>6. CASE ToPool
  <2>1. pooled' /\ UNCHANGED <<tcp, ready, inbox, eof, full, owed>>
    BY <1>6 DEF ToPool
  <2>2. BetweenParts'
    BY <1>4, <1>5, <2>1 DEF BetweenParts, NothingDue, Closing
  <2>3. DueInv'
    BY <1>3, <1>5, <2>1 DEF DueInv, NothingDue, Incoming, Closing
  <2> QED BY <1>2, <1>4, <2>2, <2>3, TalkPart DEF Between, Speaking
<1>7. CASE CloseConnection
  <2>1. /\ peer' = "stale" /\ tcp' = "closed" /\ inbox' = 0 /\ owed' = 0
        /\ ~eof' /\ ~full' /\ ~ready'
    BY <1>7 DEF CloseConnection
  <2>2. ~thenWrite'
    BY <1>1, <2>1 DEF Continue
  <2>3. BetweenParts' /\ DueInv'
    BY <1>5, <2>1, <2>2 DEF BetweenParts, DueInv, NothingDue
  <2> QED BY <1>2, <1>4, <2>3, TalkPart DEF Between, Speaking
<1> QED BY <1>5, <1>6, <1>7 DEF Finalize

LEMMA TalkEnd ==
  ASSUME TalkAll, ScriptEnds
  PROVE  TalkInv'
<1>1. /\ gen = "live" /\ gen' = "ended" /\ at = "resume" /\ k = Len(program)
      /\ UNCHANGED <<setup, k, page>> /\ Ignored /\ Continue
  BY DEF ScriptEnds
<1>2. LastCall' = LastCall /\ LastCall \in Between
  BY <1>1 DEF LastCall, program, TalkAll, TalkInv, TalkScript, Conversation
<1>3. BetweenParts /\ DueInv
  BY <1>2, TalkNumbers DEF TalkParts
<1>4. BetweenParts' /\ DueInv'
  BY <1>1, <1>3
     DEF BetweenParts, DueInv, NothingDue, Attached, Closing, Incoming, Ignored, peerVars,
         kernelVars, Continue
<1>5. TalkScript'
  BY <1>1, <1>2 DEF TalkAll, TalkInv, TalkScript
<1> QED BY <1>2, <1>4, <1>5, TalkPart DEF Between, Speaking

LEMMA TalkEpoll ==
  ASSUME TalkAll, EpollEvent
  PROVE  TalkInv'
<1> DEFINE out == tcp = "refused" \/ (tcp = "up" /\ ~full)
<1>1. /\ at = "epoll" /\ edge /\ Attached /\ ~edge'
      /\ ready' = (ready \/ Incoming)
      /\ at' = IF Incoming THEN "read" ELSE IF out THEN "write" ELSE "epoll"
      /\ thenWrite' = (Incoming /\ out)
      /\ UNCHANGED <<scriptVars, peer, pooled, tcp, rh, wh, timedout, resolving, timer,
                     upstreamVars, inbox, eof, full, owed>>
  BY DEF EpollEvent, Incoming, Closing
<1>2. UNCHANGED <<enabled_receive, bufStart>>
  BY <1>1 DEF upstreamVars
<1>3. LastCall' = LastCall /\ TalkScript' /\ LastCall \in Speaking \cup Between
  BY <1>1, TalkKept, TalkOrder
<1>4. /\ (Attached' <=> Attached) /\ (Closing' <=> Closing) /\ (Incoming' <=> Incoming)
      /\ (NothingDue' <=> NothingDue)
  BY <1>1 DEF Attached, Closing, Incoming, NothingDue
<1>5. DueInv /\ TalkParts /\ inbox \in Nat /\ owed \in Nat
  BY TalkNumbers
<1>6. ready' => Incoming
  BY <1>1, <1>5 DEF DueInv
<1>7. DueInv'
  BY <1>1, <1>4, <1>5, <1>6 DEF DueInv
<1>8. LastCall \notin Between
  BY <1>1, <1>5 DEF TalkParts, BetweenParts
<1>9. at' \in {"read", "write", "epoll"} /\ (at' = "read" <=> Incoming) /\ (at' = "write" => out)
  BY <1>1
<1>10. ASSUME LastCall = "connect" PROVE ConnectParts'
  <2>1. ConnectParts
    BY <1>5, <1>10 DEF TalkParts
  <2>2. Incoming <=> Closing
    BY <2>1 DEF ConnectParts, Incoming, NothingDue
  <2>3. at' = "epoll" /\ "write" \in timer => tcp # "up"
    BY <1>1, <2>1, <2>2 DEF ConnectParts, Closing
  <2>4. at' # "epoll" => tcp # "connecting"
    BY <1>1, <2>2, <1>5, <2>1 DEF DueInv, NothingDue, Closing, ConnectParts
  <2>5. at' # "resume"
    BY <1>9
  <2> QED BY <1>1, <1>4, <2>1, <2>3, <2>4, <2>5 DEF ConnectParts
<1>11. ASSUME LastCall = "send" PROVE SendParts'
  <2>1. SendParts
    BY <1>5, <1>11 DEF TalkParts
  <2>2. inbox > 0 => ready'
    BY <1>1 DEF Incoming
  <2>3. at' = "epoll" /\ tcp = "up" => full
    BY <1>1
  <2>4. at' # "epoll" => (full => Closing)
    <3>1. full /\ Incoming => Closing
      BY <2>1 DEF SendParts, Incoming, NothingDue
    <3> QED BY <1>1, <3>1 DEF Closing
  <2>5. at' \in {"read", "resume"} /\ wh = "send" /\ tcp = "up" => eof
    BY <1>9, <2>1 DEF SendParts, Incoming, Closing, NothingDue
  <2> QED BY <1>1, <1>2, <1>4, <2>1, <2>2, <2>3, <2>4, <2>5 DEF SendParts
<1>12. ASSUME LastCall \in {"recv", "recvwait"} PROVE RecvParts'
  <2>1. RecvParts
    BY <1>5, <1>12 DEF TalkParts
  <2>2. ~Incoming => NothingDue
    BY <1>1, <2>1 DEF RecvParts
  <2>3. at' = "epoll" => ~Incoming
    BY <1>9
  <2>4. inbox > 0 => Incoming
    BY DEF Incoming
  <2>5. at' \in {"write", "resume"} => NothingDue
    BY <1>9, <2>2
  <2>6. at' = "read" => ready' /\ Incoming
    BY <1>1, <1>9
  <2> QED BY <1>1, <1>2, <1>4, <2>1, <2>2, <2>3, <2>4, <2>5, <2>6 DEF RecvParts
<1> QED BY <1>3, <1>7, <1>8, <1>10, <1>11, <1>12, TalkPart

LEMMA TalkPooled ==
  ASSUME TalkAll, PooledEvent
  PROVE  TalkInv'
<1>1. /\ at = "epoll" /\ pooled /\ ~edge' /\ ~ready'
      /\ UNCHANGED <<scriptVars, workerVars, peer, rh, wh, timedout, resolving, timer,
                     upstreamVars, result>>
      /\ \/ ~pooled' /\ tcp' = "closed" /\ inbox' = 0 /\ owed' = 0 /\ ~full' /\ ~eof'
         \/ UNCHANGED <<pooled, tcp, inbox, owed, full, eof>>
  BY DEF PooledEvent
<1>2. LastCall' = LastCall /\ TalkScript' /\ LastCall \in Speaking \cup Between
  BY <1>1, TalkKept, TalkOrder
<1>3. DueInv /\ TalkParts /\ ~Attached /\ ~Attached' /\ ~thenWrite /\ ~thenWrite'
  BY <1>1, TalkNumbers, TalkOrder DEF DueInv, Attached, workerVars
<1>4. NothingDue
  BY <1>2, <1>3
     DEF TalkParts, BetweenParts, ConnectParts, SendParts, RecvParts, Between, Speaking
<1>5. NothingDue' /\ DueInv' /\ (full' => (full /\ (Closing' <=> Closing)))
  <2>1. CASE ~pooled' /\ tcp' = "closed" /\ inbox' = 0 /\ owed' = 0 /\ ~full' /\ ~eof'
    BY <1>1, <1>3, <2>1 DEF DueInv, NothingDue
  <2>2. CASE UNCHANGED <<pooled, tcp, inbox, owed, full, eof>>
    <3>1. NothingDue' /\ (Closing' <=> Closing)
      BY <1>4, <2>2 DEF NothingDue, Closing
    <3>2. DueInv'
      BY <1>1, <1>3, <2>2, <3>1 DEF DueInv, NothingDue
    <3> QED BY <2>2, <3>1, <3>2
  <2> QED BY <1>1, <2>1, <2>2
<1>6. LastCall \in Between => BetweenParts'
  BY <1>1, <1>3, <1>5 DEF TalkParts, BetweenParts
<1>7. LastCall = "connect" => ConnectParts'
  BY <1>1, <1>3, <1>5 DEF TalkParts, ConnectParts
<1>8. LastCall \notin {"send", "recv", "recvwait"}
  BY <1>3 DEF TalkParts, SendParts, RecvParts
<1> QED BY <1>2, <1>5, <1>6, <1>7, <1>8, TalkPart

LEMMA TalkWakes ==
  ASSUME TalkAll, SleepHandler
  PROVE  TalkInv'
<1>1. /\ at = "epoll" /\ "sleep" \in timer
      /\ UNCHANGED <<scriptVars, thenWrite, peerVars, upstreamVars, kernelVars, result>>
  BY DEF SleepHandler, Expire
<1>2. LastCall' = LastCall /\ TalkScript' /\ LastCall \in Between
  BY <1>1, TalkKept, TalkOrder DEF TalkAll, TalkInv, TalkScript
<1>3. BetweenParts' /\ DueInv'
  BY <1>1, <1>2, TalkNumbers
     DEF TalkParts, BetweenParts, DueInv, NothingDue, Attached, Closing, Incoming, peerVars,
         kernelVars
<1> QED BY <1>2, <1>3, TalkPart DEF Between, Speaking

LEMMA TalkTimeout ==
  ASSUME TalkAll, NEW half \in {"read", "write"}, SocketTimeout(half)
  PROVE  TalkInv'
<1>1. /\ at = "epoll" /\ half \in timer /\ timer' = timer \ {half}
      /\ timedout' = timedout \cup {half} /\ at' = half
      /\ UNCHANGED <<scriptVars, thenWrite, peer, pooled, tcp, rh, wh, ready,
                     upstreamVars, kernelVars, result, resolving>>
  BY DEF SocketTimeout, Expire
<1>2. ~edge /\ owed = 0 /\ ~full /\ tcp # "connecting"
  BY TalkNumbers DEF SocketTimeout, Quiet
<1>3. UNCHANGED <<enabled_receive, bufStart, edge, inbox, eof, full, owed>>
  BY <1>1 DEF upstreamVars, kernelVars
<1>4. LastCall' = LastCall /\ TalkScript' /\ LastCall \in Speaking /\ Attached /\ ~thenWrite
  BY <1>1, TalkKept, TalkOrder DEF SocketTimer, TalkAll, TalkInv, TalkScript
<1>5. /\ (Attached' <=> Attached) /\ (Closing' <=> Closing) /\ (Incoming' <=> Incoming)
      /\ (NothingDue' <=> NothingDue)
  BY <1>1, <1>3 DEF Attached, Closing, Incoming, NothingDue
<1>6. DueInv /\ TalkParts /\ inbox \in Nat
  BY TalkNumbers
<1>7. CASE LastCall = "connect"
  <2>1. ConnectParts
    BY <1>6, <1>7 DEF TalkParts
  <2>2. half = "write" /\ NothingDue /\ tcp # "up"
    BY <1>1, <1>2, <1>4, <2>1 DEF ConnectParts
  <2>3. DueInv'
    BY <1>1, <1>2, <1>3, <1>5, <1>6, <2>2 DEF DueInv
  <2>4. ConnectParts'
    BY <1>1, <1>2, <1>3, <1>4, <1>5, <2>1, <2>2 DEF ConnectParts
  <2> QED BY <1>4, <1>7, <2>3, <2>4, TalkPart DEF Speaking, Between
<1>8. CASE LastCall = "send"
  <2>1. SendParts
    BY <1>6, <1>8 DEF TalkParts
  <2>2. half = "write"
    BY <1>1, <2>1 DEF SendParts
  <2>3. NothingDue /\ (tcp # "up" \/ eof)
    BY <1>1, <1>2, <1>6, <2>1, <2>2 DEF SendParts, DueInv
  <2>4. DueInv'
    BY <1>1, <1>2, <1>3, <1>5, <1>6, <2>3 DEF DueInv
  <2>5. SendParts'
    BY <1>1, <1>2, <1>3, <1>4, <1>5, <2>1, <2>2 DEF SendParts
  <2> QED BY <1>4, <1>8, <2>4, <2>5, TalkPart DEF Speaking, Between
<1>9. CASE LastCall \in {"recv", "recvwait"}
  <2>1. RecvParts
    BY <1>6, <1>9 DEF TalkParts
  <2>2. NothingDue
    <3>1. ~(inbox > 0)
      BY <1>1, <1>2, <2>1 DEF RecvParts
    <3> QED BY <1>2, <1>6, <3>1 DEF NothingDue
  <2>3. tcp # "up" \/ eof
    <3>1. half = "read" => (tcp # "up" \/ eof)
      BY <1>1, <2>1, <2>2 DEF RecvParts, NothingDue
    <3>2. half = "write" => (tcp # "up" \/ eof)
      BY <1>1, <2>1 DEF RecvParts
    <3> QED BY <3>1, <3>2
  <2>4. DueInv'
    BY <1>1, <1>2, <1>3, <1>5, <1>6, <2>2, <2>3 DEF DueInv
  <2>5. RecvParts'
    BY <1>1, <1>2, <1>3, <1>4, <1>5, <2>1, <2>2 DEF RecvParts
  <2> QED BY <1>4, <1>9, <2>4, <2>5, TalkPart DEF Speaking, Between
<1> QED BY <1>4, <1>7, <1>8, <1>9 DEF Speaking

\* What every handler leaves alone.
LEMMA TalkFrame ==
  ASSUME TalkAll, NEW half, NEW handler, half \in {"read", "write"}, CallHandler(half, handler)
  PROVE  /\ at = half /\ at' = "resume"
         /\ UNCHANGED <<thenWrite, peer, pooled, tcp, timedout>>
         /\ LastCall' = LastCall /\ TalkScript' /\ LastCall \in Speaking
         /\ Attached /\ Attached' /\ (at = "write" => ~thenWrite)
         /\ DueInv /\ TalkParts /\ inbox \in Nat /\ owed \in Nat
<1>1. /\ at = half /\ at' = "resume" /\ UNCHANGED scriptVars
      /\ UNCHANGED <<thenWrite, peer, pooled, tcp, timedout>>
  BY DEF CallHandler
<1>2. LastCall' = LastCall /\ TalkScript'
  BY <1>1, TalkKept
<1>3. Attached /\ (at = "write" => ~thenWrite)
  BY <1>1, TalkOrder
<1>4. LastCall \in Speaking
  BY <1>1, <1>3, TalkOrder DEF TalkAll, TalkInv, TalkScript
<1> QED BY <1>1, <1>2, <1>3, <1>4, TalkNumbers DEF Attached

LEMMA TalkConnectHandled ==
  ASSUME TalkAll, ReadHandler \/ WriteHandler, LastCall = "connect"
  PROVE  TalkInv'
<1>1. PICK half \in {"read", "write"}, handler \in {rh, wh} : CallHandler(half, handler)
  BY DEF ReadHandler, WriteHandler
<1>2. /\ at = half /\ at' = "resume" /\ Attached /\ Attached'
      /\ UNCHANGED <<thenWrite, peer, pooled, tcp, timedout>>
      /\ LastCall' = LastCall /\ TalkScript' /\ DueInv /\ ConnectParts
  BY <1>1, TalkFrame DEF TalkParts
<1>3. ConnectedHandler \/ (DummyHandler /\ wh = "dummy")
  BY <1>1, <1>2 DEF ConnectParts, CallHandler
<1>4. /\ rh' = "dummy" /\ wh' = "dummy" /\ timer' \subseteq timer /\ "write" \notin timer'
      /\ UNCHANGED <<ready, edge, inbox, eof, full, owed>>
  BY <1>2, <1>3 DEF ConnectParts, ConnectedHandler, DummyHandler, kernelVars
<1>5. (Closing' <=> Closing) /\ (Incoming' <=> Incoming) /\ (NothingDue' <=> NothingDue)
  BY <1>2, <1>4 DEF Closing, Incoming, NothingDue
<1>6. DueInv'
  BY <1>2, <1>4, <1>5 DEF DueInv
<1>7. ConnectParts'
  BY <1>2, <1>4, <1>5 DEF ConnectParts
<1> QED BY <1>2, <1>6, <1>7, TalkPart DEF Speaking, Between

LEMMA TalkSendHandled ==
  ASSUME TalkAll, ReadHandler \/ WriteHandler, LastCall = "send"
  PROVE  TalkInv'
<1>1. PICK half \in {"read", "write"}, handler \in {rh, wh} :
        /\ CallHandler(half, handler)
        /\ handler = (IF half = "read" THEN rh ELSE wh)
  BY DEF ReadHandler, WriteHandler
<1>2. /\ at = half /\ at' = "resume" /\ Attached /\ Attached'
      /\ UNCHANGED <<thenWrite, peer, pooled, tcp, timedout>>
      /\ LastCall' = LastCall /\ TalkScript' /\ DueInv /\ SendParts
      /\ inbox \in Nat /\ owed \in Nat
  BY <1>1, TalkFrame DEF TalkParts
<1>3. rh = "dummy" /\ wh \in {"dummy", "send"}
  BY <1>2 DEF SendParts
\* The handler does nothing: then nothing is left of the request.
<1>4. CASE DummyHandler /\ (wh = "send" => half = "read" \/ "write" \in timedout)
  <2>1. UNCHANGED <<timer, rh, wh, ready, enabled_receive, edge, inbox, eof, full, owed>>
    BY <1>4 DEF DummyHandler, upstreamVars, kernelVars
  <2>2. (Closing' <=> Closing) /\ (Incoming' <=> Incoming) /\ (NothingDue' <=> NothingDue)
    BY <1>2, <2>1 DEF Closing, Incoming, NothingDue
  <2>3. (wh = "send" /\ tcp = "up") => eof
    BY <1>2, <1>4 DEF SendParts, DueInv
  <2>4. DueInv'
    BY <1>2, <2>1, <2>2 DEF DueInv
  <2>5. SendParts'
    BY <1>2, <2>1, <2>2, <2>3 DEF SendParts
  <2> QED BY <1>2, <2>4, <2>5, TalkPart DEF Speaking, Between
<1>5. CASE /\ half = "write" /\ wh = "send" /\ "write" \notin timedout
           /\ SendHandler
  <2>1. UpstreamSend /\ UNCHANGED <<rh, ready, enabled_receive, edge, inbox, eof>>
    BY <1>5 DEF SendHandler, upstreamVars
  <2>2. (Closing' <=> Closing) /\ (Incoming' <=> Incoming)
    BY <1>2, <2>1 DEF Closing, Incoming
  <2>3. /\ inbox = 0 /\ owed = 0 /\ (edge => Incoming) /\ (full => Closing)
        /\ rh = "dummy" /\ ~enabled_receive /\ "read" \notin timer /\ tcp # "connecting"
    BY <1>2, <1>5 DEF SendParts, NothingDue
  <2>4. CASE SendAll
    <3>1. tcp = "up" /\ ~full' /\ wh' = "dummy" /\ timer' = timer \ {"write"} /\ inbox' = 0
      BY <2>1, <2>3, <2>4 DEF SendAll
    <3>2. IF eof THEN owed' = 0 ELSE owed' = 1
      BY <2>3, <2>4, TalkNumbers DEF SendAll
    <3>3. DueInv'
      BY <1>2, <2>1, <2>2, <2>3, <3>1, <3>2 DEF DueInv, NothingDue
    <3>4. SendParts'
      BY <1>2, <2>1, <2>2, <2>3, <3>1, <3>2 DEF SendParts
    <3> QED BY <1>2, <3>3, <3>4, TalkPart DEF Speaking, Between
  <2>5. CASE SendAgain
    <3>1. wh' = "send" /\ timer' = timer \cup {"write"} /\ owed' = 0 /\ inbox' = 0
      BY <2>1, <2>3, <2>5 DEF SendAgain
    <3>2. tcp = "up" => full
      BY <1>2, <1>5, <2>5, TalkNumbers DEF SendAgain
    <3>3. tcp = "up" => eof
      BY <2>3, <3>2 DEF Closing
    <3>4. (full' => Closing') /\ NothingDue'
      <4>1. tcp # "up" => full' = full
        BY <2>5 DEF SendAgain
      <4>2. tcp = "up" => Closing
        BY <3>3 DEF Closing
      <4> QED BY <2>2, <2>3, <3>1, <4>1, <4>2 DEF NothingDue
    <3>5. DueInv'
      BY <1>2, <2>1, <2>2, <2>3, <3>1, <3>4 DEF DueInv, NothingDue
    <3>6. SendParts'
      BY <1>2, <2>1, <2>2, <2>3, <3>1, <3>3, <3>4 DEF SendParts
    <3> QED BY <1>2, <3>5, <3>6, TalkPart DEF Speaking, Between
  <2>6. CASE SendError
    <3>1. tcp = "refused" /\ UNCHANGED <<timer, wh, owed, full>>
      BY <2>6 DEF SendError
    <3>2. NothingDue' <=> NothingDue
      BY <2>1, <3>1 DEF NothingDue
    <3>3. DueInv'
      BY <1>2, <2>1, <2>2, <3>1, <3>2 DEF DueInv
    <3>4. SendParts'
      BY <1>2, <2>1, <2>2, <2>3, <3>1, <3>2 DEF SendParts
    <3> QED BY <1>2, <3>3, <3>4, TalkPart DEF Speaking, Between
  <2> QED BY <2>1, <2>4, <2>5, <2>6 DEF UpstreamSend
<1> QED BY <1>1, <1>3, <1>4, <1>5 DEF CallHandler, SendHandler

LEMMA TalkReadHandled ==
  ASSUME TalkAll, ReadHandler, LastCall \in {"recv", "recvwait"}
  PROVE  TalkInv'
<1>1. RecvParts
  BY TalkNumbers DEF TalkParts
<1>2. CallHandler("read", "recv") /\ RecvHandler
  BY <1>1 DEF ReadHandler, CallHandler, RecvParts
<1>3. /\ at = "read" /\ at' = "resume" /\ Attached /\ Attached'
      /\ UNCHANGED <<thenWrite, peer, pooled, tcp, timedout>>
      /\ LastCall' = LastCall /\ TalkScript' /\ DueInv
      /\ inbox \in Nat /\ owed \in Nat
  BY <1>2, TalkFrame
<1>4. UNCHANGED <<rh, wh, edge, eof, full, owed>> /\ ~page'
  BY <1>2, <1>3 DEF RecvHandler, DummyHandler, kernelVars, TalkScript
<1>5. Closing' <=> Closing
  BY <1>3, <1>4 DEF Closing
<1>6. /\ NothingDue' /\ (ready' => Closing)
      /\ timer' \subseteq timer \cup {"read"}
      /\ "read" \in timer' => tcp # "up" \/ eof
  <2>1. CASE "read" \in timedout
    BY <1>2, <1>3, <2>1 DEF RecvHandler, DummyHandler, kernelVars, DueInv, NothingDue, Incoming
  <2>2. CASE "read" \notin timedout /\ ~bufStart
    <3>1. NothingDue /\ timer' = timer \ {"read"} /\ UNCHANGED <<ready, inbox>>
      BY <1>1, <1>2, <2>2 DEF RecvHandler, kernelVars, RecvParts
    <3> QED BY <1>3, <1>4, <3>1 DEF DueInv, NothingDue, Incoming
  <2>3. CASE "read" \notin timedout /\ bufStart
    <3>1. UpstreamRecv(timer \ {"read"}) /\ ready /\ Incoming
      BY <1>1, <1>2, <1>3, <2>3 DEF RecvHandler, RecvParts
    <3>2. CASE RecvData(timer \ {"read"})
      <4>1. inbox' = 0 /\ owed = 0 /\ ready' = eof /\ timer' = timer \ {"read"}
        BY <1>4, <3>2, TalkTaken
      <4> QED BY <1>4, <4>1 DEF NothingDue, Closing
    <3>3. CASE RecvEof(timer \ {"read"})
      BY <1>3, <1>4, <3>3 DEF RecvEof, NothingDue, DueInv
    <3>4. ~RecvAgain(timer \ {"read"})
      BY <1>3, <3>1 DEF RecvAgain, Incoming, Closing
    <3>5. CASE RecvError(timer \ {"read"})
      BY <1>3, <1>4, <3>5 DEF RecvError, NothingDue, DueInv
    <3> QED BY <3>1, <3>2, <3>3, <3>4, <3>5 DEF UpstreamRecv
  <2> QED BY <2>1, <2>2, <2>3
<1>7. DueInv'
  BY <1>3, <1>4, <1>5, <1>6 DEF DueInv, NothingDue, Incoming
<1>8. RecvParts'
  BY <1>1, <1>3, <1>4, <1>5, <1>6 DEF RecvParts
<1> QED BY <1>3, <1>7, <1>8, TalkPart DEF Speaking, Between

LEMMA TalkWriteHandled ==
  ASSUME TalkAll, WriteHandler, LastCall \in {"recv", "recvwait"}
  PROVE  TalkInv'
<1>1. CallHandler("write", wh)
  BY DEF WriteHandler
<1>2. /\ at = "write" /\ at' = "resume" /\ Attached /\ Attached'
      /\ UNCHANGED <<thenWrite, peer, pooled, tcp, timedout>>
      /\ LastCall' = LastCall /\ TalkScript' /\ DueInv /\ RecvParts
  BY <1>1, TalkFrame DEF TalkParts
<1>3. NothingDue /\ wh \in {"dummy", "send"} /\ ((wh = "send" /\ tcp = "up") => eof)
  BY <1>2 DEF RecvParts
<1>4. /\ UNCHANGED <<rh, ready, bufStart, edge, inbox, eof, owed>>
      /\ wh' \in {wh, "dummy"}
      /\ timer' \subseteq timer \cup {"write"}
      /\ "write" \in timer' => wh' = "send" \/ tcp = "refused"
      /\ full' => Closing
  <2>1. CASE DummyHandler
    BY <1>2, <2>1 DEF DummyHandler, upstreamVars, kernelVars, RecvParts
  <2>2. CASE wh = "send" /\ UpstreamSend /\ UNCHANGED <<rh, ready, upstreamVars, edge, inbox, eof>>
    <3>1. UNCHANGED bufStart
      BY <2>2 DEF upstreamVars
    <3>2. CASE SendAll
      <4>1. eof /\ owed' = owed
        BY <1>3, <2>2, <3>2 DEF SendAll
      <4> QED BY <1>2, <2>2, <3>1, <3>2, <4>1 DEF SendAll, RecvParts
    <3>3. CASE SendAgain
      <4>1. full' => Closing
        BY <1>2, <1>3, <2>2, <3>3 DEF SendAgain, RecvParts, Closing
      <4> QED BY <2>2, <3>1, <3>3, <4>1 DEF SendAgain
    <3>4. CASE SendError
      BY <1>2, <2>2, <3>1, <3>4 DEF SendError, RecvParts
    <3> QED BY <2>2, <3>2, <3>3, <3>4 DEF UpstreamSend
  <2> QED BY <1>1, <1>3, <2>1, <2>2 DEF CallHandler, SendHandler
<1>5. (Closing' <=> Closing) /\ (Incoming' <=> Incoming) /\ NothingDue'
  BY <1>2, <1>3, <1>4 DEF Closing, Incoming, NothingDue
<1>6. DueInv'
  BY <1>2, <1>4, <1>5 DEF DueInv
<1>7. RecvParts'
  BY <1>2, <1>3, <1>4, <1>5 DEF RecvParts
<1> QED BY <1>2, <1>6, <1>7, TalkPart DEF Speaking, Between

LEMMA TalkHandled ==
  ASSUME TalkAll, ReadHandler \/ WriteHandler
  PROVE  TalkInv'
<1>1. LastCall \in Speaking
  BY TalkFrame DEF ReadHandler, WriteHandler
<1> QED BY <1>1, TalkConnectHandled, TalkSendHandled, TalkReadHandled, TalkWriteHandled
        DEF Speaking

LEMMA TalkKernel ==
  ASSUME TalkAll, Kernel
  PROVE  TalkInv'
<1>1. /\ UNCHANGED <<scriptVars, workerVars, peer, pooled, rh, wh, ready, timedout,
                     resolving, timer, upstreamVars, result>>
      /\ edge'
  BY DEF Kernel, Established, Refused, Answer, ServerCloses, Drained, KernelStep
<1>2. LastCall' = LastCall /\ TalkScript' /\ LastCall \in Speaking \cup Between
  BY <1>1, TalkKept, TalkOrder
<1>3. UNCHANGED <<at, thenWrite, enabled_receive, bufStart>> /\ (Attached' <=> Attached)
  BY <1>1 DEF workerVars, upstreamVars, Attached
<1>4. DueInv /\ TalkParts /\ inbox \in Nat /\ owed \in Nat /\ ~setup.greets /\ TypeOK
  BY TalkNumbers
<1>5. CASE Established \/ Refused
  <2>1. /\ tcp = "connecting" /\ tcp' \in {"up", "refused"} /\ owed' \in {owed, 0}
        /\ UNCHANGED <<inbox, eof, full>>
    BY <1>4, <1>5 DEF Established, Refused
  <2>2. NothingDue /\ NothingDue' /\ ~eof /\ timedout' = timedout
    BY <1>1, <1>4, <2>1 DEF DueInv, NothingDue
  <2>3. LastCall = "connect" /\ Attached /\ ConnectParts
    <3>1. LastCall \notin {"send", "recv", "recvwait"} /\ LastCall \notin Between
      BY <1>4, <2>1 DEF TalkParts, BetweenParts, SendParts, RecvParts
    <3>2. LastCall = "connect"
      BY <1>2, <3>1 DEF Speaking
    <3> QED BY <1>4, <2>1, <3>2 DEF TalkParts, ConnectParts
  <2>4. at = "epoll" /\ ~thenWrite
    BY <2>1, <2>3, TalkOrder DEF ConnectParts, TypeOK
  <2>5. DueInv'
    BY <1>1, <1>3, <1>4, <2>1, <2>2 DEF DueInv, NothingDue, Incoming, Closing
  <2>6. ~full
    BY <2>1, <2>2, <2>3 DEF ConnectParts, Closing
  <2>7. ConnectParts'
    BY <1>1, <1>3, <2>1, <2>2, <2>3, <2>4, <2>6 DEF ConnectParts
  <2> QED BY <1>2, <2>3, <2>5, <2>7, TalkPart DEF Speaking, Between
<1>6. CASE Answer
  <2>1. /\ owed = 1 /\ owed' = 0 /\ inbox = 0 /\ inbox' = 1
        /\ UNCHANGED <<tcp, eof, full>>
    BY <1>4, <1>6 DEF Answer, DueInv
  <2>2. (Closing' <=> Closing) /\ Incoming' /\ ~NothingDue /\ ~Closing /\ tcp = "up"
    BY <1>4, <2>1 DEF Closing, Incoming, NothingDue, DueInv
  <2>3. DueInv'
    BY <1>1, <1>3, <1>4, <2>1, <2>2 DEF DueInv
  <2>4. LastCall = "send" => SendParts'
    BY <1>1, <1>3, <1>4, <2>1, <2>2 DEF TalkParts, SendParts
  <2>5. LastCall \in {"recv", "recvwait"} => RecvParts'
    BY <1>1, <1>3, <1>4, <2>1, <2>2 DEF TalkParts, RecvParts
  <2>6. LastCall \notin Between /\ LastCall # "connect"
    BY <1>4, <2>2 DEF TalkParts, BetweenParts, ConnectParts
  <2> QED BY <1>2, <2>3, <2>4, <2>5, <2>6, TalkPart
<1>7. CASE ServerCloses
  <2>1. /\ tcp = "up" /\ ~eof /\ eof' /\ owed' = 0 /\ UNCHANGED <<tcp, inbox, full>>
    BY <1>7 DEF ServerCloses
  <2>2. Closing' /\ Incoming' /\ (NothingDue => NothingDue')
    BY <2>1 DEF Closing, Incoming, NothingDue
  <2>3. DueInv'
    BY <1>1, <1>3, <1>4, <2>1, <2>2 DEF DueInv
  <2>4. LastCall = "send" => SendParts'
    BY <1>1, <1>3, <1>4, <2>1, <2>2 DEF TalkParts, SendParts
  <2>5. LastCall \in {"recv", "recvwait"} => RecvParts'
    BY <1>1, <1>3, <1>4, <2>1, <2>2 DEF TalkParts, RecvParts
  <2>6. LastCall \in Between => BetweenParts'
    BY <1>1, <1>3, <1>4, <2>1, <2>2 DEF TalkParts, BetweenParts
  <2>7. LastCall = "connect" => ConnectParts'
    BY <1>1, <1>3, <1>4, <2>1, <2>2 DEF TalkParts, ConnectParts
  <2> QED BY <1>2, <2>3, <2>4, <2>5, <2>6, <2>7, TalkPart
<1>8. CASE Drained
  <2>1. full /\ ~full' /\ UNCHANGED <<tcp, inbox, eof, owed>>
    BY <1>8 DEF Drained
  <2>2. (Closing' <=> Closing) /\ (Incoming' <=> Incoming) /\ (NothingDue' <=> NothingDue)
    BY <2>1 DEF Closing, Incoming, NothingDue
  <2>3. DueInv'
    BY <1>1, <1>3, <1>4, <2>1, <2>2 DEF DueInv
  <2>4. LastCall = "send" => SendParts'
    <3> SUFFICES ASSUME LastCall = "send" PROVE SendParts'
      OBVIOUS
    <3>1. SendParts
      BY <1>4 DEF TalkParts
    <3>2. at # "epoll" => Incoming
      BY <2>1, <3>1 DEF SendParts, Incoming
    <3> QED BY <1>1, <1>3, <2>1, <2>2, <3>1, <3>2 DEF SendParts
  <2>5. LastCall \in {"recv", "recvwait"} => RecvParts'
    <3> SUFFICES ASSUME LastCall \in {"recv", "recvwait"} PROVE RecvParts'
      OBVIOUS
    <3>1. RecvParts
      BY <1>4 DEF TalkParts
    <3>2. Incoming
      BY <2>1, <3>1 DEF RecvParts, Incoming
    <3> QED BY <1>1, <1>3, <2>1, <2>2, <3>1, <3>2 DEF RecvParts
  <2>6. LastCall \in Between => BetweenParts'
    BY <1>1, <1>3, <1>4, <2>1, <2>2 DEF TalkParts, BetweenParts
  <2>7. LastCall = "connect" => ConnectParts'
    BY <1>1, <1>3, <1>4, <2>1, <2>2 DEF TalkParts, ConnectParts
  <2> QED BY <1>2, <2>3, <2>4, <2>5, <2>6, <2>7, TalkPart
<1> QED BY <1>5, <1>6, <1>7, <1>8 DEF Kernel

LEMMA TalkStill ==
  ASSUME TalkAll, UNCHANGED vars
  PROVE  TalkInv'
<1>1. UNCHANGED <<setup, k, gen, page, at, thenWrite, peer, pooled, tcp, rh, wh, ready,
                  timedout, timer, enabled_receive, bufStart, edge, inbox, eof, full, owed>>
  BY DEF vars, scriptVars, workerVars, peerVars, upstreamVars, kernelVars
<1>2. LastCall' = LastCall /\ TalkScript'
  BY <1>1, TalkKept DEF scriptVars
<1>3. /\ (Attached' <=> Attached) /\ (Closing' <=> Closing) /\ (Incoming' <=> Incoming)
      /\ (NothingDue' <=> NothingDue)
  BY <1>1 DEF Attached, Closing, Incoming, NothingDue
<1>4. DueInv' /\ (BetweenParts => BetweenParts') /\ (ConnectParts => ConnectParts')
  BY <1>1, <1>3, TalkNumbers DEF DueInv, BetweenParts, ConnectParts
<1>5. (SendParts => SendParts') /\ (RecvParts => RecvParts')
  BY <1>1, <1>3 DEF SendParts, RecvParts
<1> QED BY <1>2, <1>4, <1>5, TalkNumbers, TalkOrder, TalkPart DEF TalkParts

LEMMA TalkStep ==
  ASSUME TalkAll, [Next]_vars
  PROVE  TalkAll'
<1>1. TypeInv' /\ OrderInv'
  BY TypeStep, FreshStep, OrderStep DEF TalkAll, TypeInv
<1>2. ASSUME Script PROVE TalkInv'
  BY <1>2, TalkNoOtherCall, TalkConnect, TalkSend, TalkRecv, TalkSleep, TalkClose DEF Script
<1>3. ASSUME ScriptEnds \/ ResumeGone \/ EpollEvent \/ PooledEvent \/ ReadHandler \/ WriteHandler
      PROVE  TalkInv'
  BY <1>3, TalkNoOtherCall, TalkEnd, TalkEpoll, TalkPooled, TalkHandled
<1>4. ASSUME Timers PROVE TalkInv'
  BY <1>4, TalkTimeout, TalkWakes, TalkResolve DEF Timers
<1>5. TalkInv'
  BY <1>2, <1>3, <1>4, TalkKernel, TalkStill, NextCases
<1> QED BY <1>1, <1>5 DEF TalkAll

LEMMA TalkInit ==
  ASSUME Init, Conversation(setup)
  PROVE  TalkAll
<1>1. TypeInv /\ OrderInv
  BY InitTypeOK, OrderInit DEF Init, TypeInv, Fresh
<1>2. LastCall = "none"
  BY DEF Init, LastCall, CallOf
<1>3. TalkScript
  BY DEF Init, TalkScript
<1>4. BetweenParts /\ DueInv
  BY DEF Init, BetweenParts, DueInv, NothingDue, Attached
<1> QED BY <1>1, <1>2, <1>3, <1>4 DEF TalkAll, TalkInv, TalkParts, Between

LEMMA TalkInvariant == Spec => [](Conversation(setup) => TalkAll)
<1>1. Init => (Conversation(setup) => TalkAll)
  BY TalkInit
<1>2. (Conversation(setup) => TalkAll) /\ [Next]_vars => (Conversation(setup) => TalkAll)'
  <2> SUFFICES ASSUME Conversation(setup) => TalkAll, [Next]_vars, Conversation(setup')
               PROVE  TalkAll'
    OBVIOUS
  <2>1. Conversation(setup)
    BY SetupKept
  <2> QED BY <2>1, TalkStep
<1> QED BY <1>1, <1>2, PTL DEF Spec

\* A conversation reads its replies, and so does every script without the pool.
LEMMA TalkPoolsEmpty ==
  ASSUME Conversation(setup) => TalkAll, UnpooledInv', [Next]_vars,
         ~setup.keepalive \/ Conversation(setup)
  PROVE  [PoolsEmpty]_vars
<1> SUFFICES ASSUME pooled', ~pooled PROVE inbox' = 0 /\ owed' = 0
  BY DEF PoolsEmpty
<1>1. setup.keepalive
  BY SetupKept DEF UnpooledInv
<1>2. TalkAll
  BY <1>1
<1>3. ResumeClose \/ ResumeClear
  BY <1>2, PoolStep, TalkNoOtherCall
<1>4. NothingDue
  BY <1>2, <1>3, TalkClose
<1> QED BY <1>4, PoolStep DEF NothingDue

ReadsItsReplies(s) == ~s.keepalive \/ Conversation(s)

RepliesInv == ReadsItsReplies(setup) => OwnInv

LEMMA RepliesInvariant == Spec => []RepliesInv
<1>1. Init => RepliesInv
  BY DEF Init, RepliesInv, OwnInv, Attached
<1>2. /\ TypeOK /\ (Conversation(setup) => TalkAll) /\ UnpooledInv' /\ RepliesInv
      /\ [Next]_vars
      => RepliesInv'
  <2> SUFFICES ASSUME TypeOK, Conversation(setup) => TalkAll, UnpooledInv', RepliesInv,
                      [Next]_vars, ReadsItsReplies(setup')
               PROVE  OwnInv'
    BY DEF RepliesInv
  <2>1. ReadsItsReplies(setup)
    BY SetupKept
  <2>2. [PoolsEmpty]_vars
    BY <2>1, TalkPoolsEmpty DEF ReadsItsReplies
  <2> QED BY <2>1, <2>2, OwnStep DEF RepliesInv
<1> QED BY <1>1, <1>2, TypeCorrect, TalkInvariant, UnpooledInvariant, PTL DEF Spec

(***************************************************************************)
(* What a receive returns was sent to this use of the connection: without  *)
(* the pool, for every script and whatever fails, as long as it receives   *)
(* on no connection that it has closed; with it, for one exchange whatever *)
(* fails, and for a conversation.                                          *)
(***************************************************************************)
THEOREM RepliesAreOwn ==
  Spec => []((ReadsItsReplies(setup) \/ SingleExchange(setup)) => OwnReply)
<1>1. RepliesInv /\ SingleInv => ((ReadsItsReplies(setup) \/ SingleExchange(setup)) => OwnReply)
  BY DEF RepliesInv, SingleInv, OwnInv, OwnReply
<1> QED BY <1>1, RepliesInvariant, SingleInvariant, PTL

-----------------------------------------------------------------------------
(* What the receives of a conversation return.                             *)

OpenInv == Attached \/ pooled => tcp # "closed"

\* A send that waits for a lost handshake has its timer, or had it.
SendGot ==
  (tcp = "lost" /\ at # "epoll") =>
    /\ "write" \notin timer
    /\ at = "write" => "write" \in timedout

\* Whatever resumes a receive brings the reply, the end or the time-out.
RecvGot ==
  /\ ~bufStart => buf # "none" \/ Closing
  /\ (at = "epoll" /\ edge) => Incoming \/ Got
  /\ at \in {"write", "resume"} => Got
  /\ tcp = "lost" => "write" \notin timer /\ at # "write"

GotParts ==
  /\ LastCall = "send" => SendGot
  /\ LastCall \in {"recv", "recvwait"} => RecvGot

GotInv == OpenInv /\ GotParts /\ ResultInv

GotAll == TalkAll /\ GotInv

\* Of the parts only the one of the last call matters.
LEMMA GotPart ==
  ASSUME LastCall' = "send" => SendGot',
         LastCall' \in {"recv", "recvwait"} => RecvGot'
  PROVE  GotParts'
  BY DEF GotParts

LEMMA GotOpen ==
  ASSUME GotAll, [Next]_vars
  PROVE  OpenInv'
<1>1. OpenInv /\ DueInv /\ TypeOK
  BY TalkNumbers DEF GotAll, GotInv
<1>2. ASSUME UNCHANGED <<peer, pooled, tcp>> PROVE OpenInv'
  BY <1>1, <1>2 DEF OpenInv, Attached
<1>3. ASSUME ResolvedConnect PROVE OpenInv'
  BY <1>1, <1>3
     DEF ResolvedConnect, ConnectDone, ConnectAgain, ConnectOk, ConnectFails, NewConnection,
         OpenInv, Attached
<1>4. ASSUME Close \/ Clear PROVE OpenInv'
  <2>1. CASE UNCHANGED <<peer, pooled, tcp>>
    BY <1>2, <2>1
  <2>2. CASE Attached /\ (ToPool \/ CloseConnection)
    BY <1>1, <2>2 DEF ToPool, CloseConnection, OpenInv, Attached, DueInv
  <2> QED BY <1>4, <2>1, <2>2 DEF Close, Clear, Ignored, peerVars, Finalize
<1>5. ASSUME Script PROVE OpenInv'
  <2>1. CASE ResumeConnect
    BY <1>2, <1>3, <2>1 DEF ResumeConnect, Connect, peerVars
  <2>2. CASE ResumeSend
    BY <1>2, <2>2 DEF ResumeSend, Send
  <2>3. CASE ResumeRecv \/ ResumeRecvWait
    BY <1>2, <2>3 DEF ResumeRecv, ResumeRecvWait, RecvWait, Recv
  <2>4. CASE ResumeSleep
    BY <1>2, <2>4 DEF ResumeSleep, Sleep, peerVars
  <2>5. CASE ResumeClose \/ ResumeClear
    BY <1>4, <2>5 DEF ResumeClose, ResumeClear
  <2> QED BY <1>5, <2>1, <2>2, <2>3, <2>4, <2>5, TalkNoOtherCall DEF Script, GotAll
<1>6. ASSUME ScriptEnds \/ ResumeGone \/ EpollEvent \/ PooledEvent \/ ReadHandler \/ WriteHandler
      PROVE  OpenInv'
  <2>1. ~ResumeGone
    BY TalkNoOtherCall DEF GotAll
  <2>2. CASE PooledEvent
    BY <1>1, <2>2 DEF PooledEvent, OpenInv, Attached, DueInv
  <2>3. CASE ScriptEnds \/ EpollEvent \/ ReadHandler \/ WriteHandler
    BY <1>2, <2>3 DEF ScriptEnds, Ignored, peerVars, EpollEvent, ReadHandler, WriteHandler,
                      CallHandler
  <2> QED BY <1>6, <2>1, <2>2, <2>3
<1>7. ASSUME Timers PROVE OpenInv'
  BY <1>2, <1>3, <1>7 DEF Timers, SocketTimeout, SleepHandler, ResolveHandler, peerVars
<1>8. ASSUME Kernel PROVE OpenInv'
  BY <1>1, <1>8
     DEF Kernel, Established, Refused, Answer, ServerCloses, Drained, KernelStep, OpenInv, Attached
<1>9. ASSUME UNCHANGED vars PROVE OpenInv'
  BY <1>2, <1>9 DEF vars, peerVars
<1> QED BY <1>5, <1>6, <1>7, <1>8, <1>9, NextCases

\* A receive is returned from when the script goes on.
LEMMA GotResult ==
  ASSUME GotAll, [Next]_vars
  PROVE  ResultInv'
<1>1. ResultInv /\ TypeOK /\ Faults' = Faults
  BY SetupKept, TalkNumbers DEF GotAll, GotInv, Faults
<1>2. ASSUME result' = result PROVE ResultInv'
  BY <1>1, <1>2 DEF ResultInv
<1>3. ASSUME Notice, at = "resume" PROVE ResultInv'
  <2>1. CASE \E call \in {"recv", "recvwait"} : Waiting(call)
    <3>1. LastCall \in {"recv", "recvwait"}
      BY <1>1, <2>1 DEF Waiting, LastCall, CallOf, TypeOK
    <3>2. Got
      BY <1>3, <3>1 DEF GotAll, GotInv, GotParts, RecvGot
    <3>3. Received = "nothing" => "partial" \in Faults
      BY <1>1, <3>2 DEF Received, Got, Closing, TypeOK
    <3> QED BY <1>1, <1>3, <2>1, <3>3 DEF Notice, ResultInv
  <2>2. CASE ~ \E call \in {"recv", "recvwait"} : Waiting(call)
    BY <1>2, <1>3, <2>2 DEF Notice
  <2> QED BY <2>1, <2>2
<1>4. CASE Script
  <2>1. \E call : Resume(call)
    BY <1>4 DEF Script, ResumeConnect, ResumeSend, ResumeRecv, ResumeRecvPage, ResumeRecvWait,
                ResumeRecvSync, ResumeSleep, ResumeClose, ResumeClear, ResumeExit
  <2> QED BY <1>3, <2>1 DEF Resume
<1>5. CASE ScriptEnds
  BY <1>3, <1>5 DEF ScriptEnds
<1>6. CASE ResumeGone \/ EpollEvent \/ PooledEvent \/ ReadHandler \/ WriteHandler
  BY <1>2, <1>6 DEF ResumeGone, EpollEvent, PooledEvent, ReadHandler, WriteHandler, CallHandler
<1>7. CASE Timers
  BY <1>2, <1>7 DEF Timers, SocketTimeout, SleepHandler, ResolveHandler
<1>8. CASE Kernel
  BY <1>2, <1>8 DEF Kernel, Established, Refused, Answer, ServerCloses, Drained, KernelStep
<1>9. CASE UNCHANGED vars
  BY <1>2, <1>9 DEF vars
<1> QED BY <1>4, <1>5, <1>6, <1>7, <1>8, <1>9, NextCases

LEMMA GotScript ==
  ASSUME GotAll, Script
  PROVE  GotParts'
<1>1. CASE ResumeConnect \/ ResumeSleep \/ ResumeClose \/ ResumeClear
  <2>1. PICK call \in {"connect", "sleep", "close", "clear"} : Resume(call)
    BY <1>1 DEF ResumeConnect, ResumeSleep, ResumeClose, ResumeClear
  <2>2. LastCall' = call
    BY <2>1, TalkCall DEF GotAll
  <2> QED BY <2>2, GotPart
<1>2. CASE ResumeSend
  <2>1. /\ gen = "live" /\ at = "resume" /\ LastCall' = "send" /\ LastCall = "connect"
        /\ Send /\ Continue
    BY <1>2, TalkCall DEF ResumeSend, After, Speaking, Between, GotAll
  <2>2. Attached /\ ConnectParts /\ DueInv
    BY <2>1, TalkOrder, TalkNumbers DEF TalkParts, Speaking, GotAll
  <2>3. tcp' = tcp /\ at' = IF thenWrite THEN "write" ELSE "epoll"
    BY <2>1, <2>2 DEF Send, Continue, Attached
  <2>4. thenWrite => tcp # "lost"
    BY <2>2 DEF ConnectParts, DueInv, Incoming, Closing, NothingDue
  <2> QED BY <2>1, <2>3, <2>4, GotPart DEF SendGot
<1>3. CASE ResumeRecv \/ ResumeRecvWait
  <2>1. PICK call \in {"recv", "recvwait"} :
          Resume(call) /\ Recv /\ Continue /\ UNCHANGED <<gen, resolving>>
    BY <1>3 DEF ResumeRecv, ResumeRecvWait, RecvWait
  <2>2. at = "resume" /\ LastCall' = call /\ LastCall = "send"
    BY <2>1, TalkCall DEF After, Speaking, Between, GotAll
  <2>3. Attached /\ SendParts /\ DueInv /\ SendGot /\ TypeOK
    BY <2>2, TalkNumbers DEF TalkParts, SendParts, GotAll, GotInv, GotParts
  <2>4. /\ UpstreamRecv(timer) /\ edge' = (edge \/ enabled_receive)
        /\ UNCHANGED <<peer, pooled, tcp, wh, timedout, eof, full, owed>>
        /\ setup' = setup
    BY <2>1, <2>3 DEF Recv, Resume
  <2>5. /\ at' = IF thenWrite THEN "write" ELSE "epoll"
        /\ edge' = edge /\ (Closing' <=> Closing) /\ (edge => Incoming)
        /\ ready => Incoming
        /\ thenWrite => ready
        /\ tcp = "lost" => "write" \notin timer /\ ~thenWrite
    BY <2>1, <2>2, <2>3, <2>4 DEF NothingDue, Incoming, Continue, Attached, SendParts, TypeOK, Closing, SendGot, DueInv
  <2>6. CASE RecvData(timer)
    <3>1. ~page'
      BY <2>1, TalkCall DEF GotAll, TalkScript
    <3>2. buf' # "none" /\ ~bufStart' /\ timer' = timer
      BY <2>6, <3>1 DEF RecvData
    <3>3. Got'
      BY <3>2 DEF Got
    <3>4. RecvGot'
      BY <2>4, <2>5, <3>2, <3>3 DEF RecvGot
    <3> QED BY <2>2, <3>4, GotPart
  <2>7. CASE RecvEof(timer) \/ RecvError(timer)
    <3>1. Closing' /\ timer' \subseteq timer \cup {"read"}
      BY <2>5, <2>7 DEF RecvEof, RecvError, Closing
    <3>2. RecvGot'
      BY <2>4, <2>5, <3>1 DEF RecvGot, Got
    <3> QED BY <2>2, <3>2, GotPart
  <2>8. CASE RecvAgain(timer)
    <3>1. ~ready /\ bufStart' /\ timer' = timer \cup {"read"} /\ inbox' = inbox
      BY <2>3, <2>5, <2>8 DEF RecvAgain, Incoming, Closing
    <3>2. at' = "epoll" /\ (edge' => Incoming')
      BY <2>5, <3>1 DEF Incoming
    <3>3. RecvGot'
      BY <2>4, <2>5, <3>1, <3>2 DEF RecvGot
    <3> QED BY <2>2, <3>3, GotPart
  <2> QED BY <2>4, <2>6, <2>7, <2>8 DEF UpstreamRecv
<1> QED BY <1>1, <1>2, <1>3, TalkNoOtherCall DEF Script, GotAll

LEMMA GotEpoll ==
  ASSUME GotAll, EpollEvent
  PROVE  GotParts'
<1>1. /\ at = "epoll" /\ edge /\ Attached /\ ~edge'
      /\ at' = IF Incoming THEN "read"
               ELSE IF tcp = "refused" \/ (tcp = "up" /\ ~full) THEN "write" ELSE "epoll"
      /\ UNCHANGED <<scriptVars, tcp, timedout, timer, upstreamVars, inbox, eof>>
  BY DEF EpollEvent, Incoming, Closing
<1>2. LastCall' = LastCall /\ DueInv
  BY <1>1, TalkKept, TalkNumbers DEF GotAll
<1>3. (Closing' <=> Closing) /\ Faults' = Faults /\ UNCHANGED <<buf, bufStart>>
  BY <1>1 DEF Closing, scriptVars, upstreamVars, Faults
<1>4. LastCall = "send" => SendGot'
  <2>1. at' # "epoll" => tcp # "lost"
    BY <1>1, <1>2 DEF DueInv, Incoming, Closing, NothingDue
  <2> QED BY <1>1, <2>1 DEF SendGot
<1>5. LastCall \in {"recv", "recvwait"} => RecvGot'
  <2> SUFFICES ASSUME LastCall \in {"recv", "recvwait"} PROVE RecvGot'
    OBVIOUS
  <2>1. RecvGot
    BY DEF GotAll, GotInv, GotParts
  <2>2. at' \in {"write", "resume"} => Got
    BY <1>1, <2>1 DEF RecvGot
  <2>3. Got => Got'
    BY <1>1, <1>3 DEF Got
  <2> QED BY <1>1, <1>3, <2>1, <2>2, <2>3 DEF RecvGot
<1> QED BY <1>2, <1>4, <1>5, GotPart

LEMMA GotTimers ==
  ASSUME GotAll, Timers
  PROVE  GotParts'
<1>1. CASE SleepHandler
  <2>1. at = "epoll" /\ "sleep" \in timer /\ UNCHANGED scriptVars
    BY <1>1 DEF SleepHandler, Expire
  <2>2. LastCall' = LastCall /\ LastCall \in Between
    BY <2>1, TalkKept, TalkOrder DEF GotAll, TalkAll, TalkInv, TalkScript
  <2> QED BY <2>2, GotPart DEF Between
<1>2. CASE ResolveHandler
  <2>1. resolving /\ UNCHANGED scriptVars
    BY <1>2 DEF ResolveHandler
  <2>2. LastCall' = LastCall /\ LastCall \notin {"send", "recv", "recvwait"}
    <3>1. ~Attached
      BY <2>1, TalkOrder DEF GotAll, TalkAll, TalkInv, TalkScript
    <3> QED BY <2>1, <3>1, TalkKept, TalkNumbers DEF TalkParts, SendParts, RecvParts, GotAll
  <2> QED BY <2>2, GotPart
<1>3. ASSUME NEW half \in {"read", "write"}, SocketTimeout(half) PROVE GotParts'
  <2>1. /\ at = "epoll" /\ half \in timer /\ timer' = timer \ {half}
        /\ timedout' = timedout \cup {half} /\ at' = half
        /\ UNCHANGED <<scriptVars, tcp, upstreamVars, kernelVars>>
    BY <1>3 DEF SocketTimeout, Expire
  <2>2. LastCall' = LastCall /\ DueInv /\ TalkParts /\ TypeOK
    BY <2>1, TalkKept, TalkNumbers DEF GotAll
  <2>3. (Closing' <=> Closing) /\ (Incoming' <=> Incoming) /\ UNCHANGED <<buf, bufStart, eof>>
    BY <2>1 DEF Closing, Incoming, upstreamVars, kernelVars
  <2>4. LastCall = "send" => SendGot'
    <3>1. LastCall = "send" => half = "write"
      BY <2>1, <2>2 DEF TalkParts, SendParts
    <3> QED BY <2>1, <3>1 DEF SendGot
  <2>5. LastCall \in {"recv", "recvwait"} => RecvGot'
    <3> SUFFICES ASSUME LastCall \in {"recv", "recvwait"} PROVE RecvGot'
      OBVIOUS
    <3>1. RecvGot /\ RecvParts /\ OpenInv
      BY <2>2 DEF GotAll, GotInv, GotParts, TalkParts
    <3>2. half = "write" => Closing
      BY <2>1, <2>2, <3>1 DEF RecvParts, RecvGot, OpenInv, TypeOK, Closing
    <3>3. Got'
      BY <2>1, <2>3, <3>2 DEF Got
    <3> QED BY <2>1, <2>3, <3>1, <3>3 DEF RecvGot
  <2> QED BY <2>2, <2>4, <2>5, GotPart
<1> QED BY <1>1, <1>2, <1>3 DEF Timers

LEMMA GotHandled ==
  ASSUME GotAll, ReadHandler \/ WriteHandler
  PROVE  GotParts'
<1>1. PICK half \in {"read", "write"}, handler \in {rh, wh} :
        /\ CallHandler(half, handler)
        /\ handler = (IF half = "read" THEN rh ELSE wh)
  BY DEF ReadHandler, WriteHandler
<1>2. /\ at = half /\ at' = "resume" /\ UNCHANGED <<tcp, timedout>>
      /\ LastCall' = LastCall /\ DueInv /\ TalkParts /\ TypeOK /\ UNCHANGED scriptVars
  BY <1>1, TalkFrame, TalkNumbers DEF GotAll, CallHandler
<1>3. ASSUME LastCall = "send" PROVE SendGot'
  <2>1. SendParts /\ SendGot
    BY <1>2, <1>3 DEF TalkParts, GotAll, GotInv, GotParts
  <2>2. tcp = "lost" => DummyHandler
    BY <1>1, <1>2, <2>1 DEF SendParts, SendGot, CallHandler, SendHandler
  <2> QED BY <1>2, <2>1, <2>2 DEF SendGot, DummyHandler
<1>4. ASSUME LastCall \in {"recv", "recvwait"} PROVE RecvGot'
  <2>1. RecvParts /\ RecvGot /\ OpenInv
    BY <1>2, <1>4 DEF TalkParts, GotAll, GotInv, GotParts
  <2>2. Faults' = Faults /\ ~page'
    <3>1. ~page
      BY DEF GotAll, TalkAll, TalkInv, TalkScript
    <3> QED BY <1>2, <3>1 DEF scriptVars, Faults
  <2>3. CASE half = "write"
    <3>1. Got
      BY <1>2, <2>1, <2>3 DEF RecvGot
    <3>2. UNCHANGED <<bufStart, buf, eof>>
      BY <1>1, <2>1, <2>3 DEF RecvParts, CallHandler, DummyHandler, SendHandler, upstreamVars, kernelVars
    <3>3. tcp = "lost" => "write" \notin timer'
      BY <1>2, <2>1, <2>3 DEF RecvGot
    <3> QED BY <1>2, <2>1, <2>2, <3>1, <3>2, <3>3 DEF RecvGot, Got, Closing
  <2>4. CASE half = "read"
    <3>1. RecvHandler
      BY <1>1, <2>1, <2>4 DEF RecvParts, CallHandler
    <3>2. eof' = eof
      BY <3>1 DEF RecvHandler, DummyHandler, kernelVars
    <3>3. Closing' <=> Closing
      BY <1>2, <3>2 DEF Closing
    <3>4. CASE "read" \in timedout
      <4>1. UNCHANGED <<timer, bufStart, buf>>
        BY <3>1, <3>4 DEF RecvHandler, DummyHandler, upstreamVars
      <4> QED BY <1>2, <2>1, <2>2, <3>3, <3>4, <4>1 DEF RecvGot, Got
    <3>5. CASE "read" \notin timedout /\ ~bufStart
      <4>1. timer' = timer \ {"read"} /\ UNCHANGED <<bufStart, buf>>
        BY <3>1, <3>5 DEF RecvHandler
      <4> QED BY <1>2, <2>1, <2>2, <3>3, <3>5, <4>1 DEF RecvGot, Got
    <3>6. CASE "read" \notin timedout /\ bufStart
      <4>1. UpstreamRecv(timer \ {"read"}) /\ ready /\ Incoming
        BY <1>2, <2>1, <2>4, <3>1, <3>6 DEF RecvHandler, RecvParts
      <4>2. ~RecvAgain(timer \ {"read"})
        BY <4>1 DEF RecvAgain, Incoming, Closing
      <4>3. CASE RecvData(timer \ {"read"})
        <5>1. buf' # "none" /\ timer' = timer \ {"read"}
          BY <2>2, <4>3 DEF RecvData
        <5> QED BY <1>2, <2>1, <2>2, <5>1 DEF RecvGot, Got
      <4>4. CASE RecvEof(timer \ {"read"}) \/ RecvError(timer \ {"read"})
        <5>1. Closing' /\ timer' \subseteq timer \cup {"read"}
          BY <3>3, <4>4 DEF RecvEof, RecvError, Closing
        <5> QED BY <1>2, <2>1, <5>1 DEF RecvGot, Got
      <4> QED BY <4>1, <4>2, <4>3, <4>4 DEF UpstreamRecv
    <3> QED BY <3>4, <3>5, <3>6
  <2> QED BY <2>3, <2>4
<1> QED BY <1>2, <1>3, <1>4, GotPart

LEMMA GotKernel ==
  ASSUME GotAll, Kernel
  PROVE  GotParts'
<1>1. /\ UNCHANGED <<scriptVars, workerVars, timedout, timer, upstreamVars>>
      /\ edge'
      /\ eof => eof'
      /\ tcp' = tcp \/ (tcp = "connecting" /\ tcp' \in {"up", "refused"})
      /\ inbox' >= inbox
  BY TalkNumbers
     DEF GotAll, Kernel, Established, Refused, Answer, ServerCloses, Drained, KernelStep
<1>2. LastCall' = LastCall /\ TalkParts /\ inbox \in Nat /\ owed \in Nat
  BY <1>1, TalkKept, TalkNumbers DEF GotAll
<1>3. UNCHANGED <<at, buf, bufStart>> /\ Faults' = Faults /\ (Closing => Closing')
  BY <1>1 DEF workerVars, upstreamVars, scriptVars, Faults, Closing
<1>4. LastCall = "send" => SendGot'
  BY <1>1, <1>2, <1>3 DEF GotAll, GotInv, GotParts, SendGot
<1>5. ASSUME LastCall \in {"recv", "recvwait"} PROVE RecvGot'
  <2>1. RecvGot /\ RecvParts
    BY <1>2, <1>5 DEF GotAll, GotInv, GotParts, TalkParts
  <2>2. Incoming'
    <3>1. CASE Answer
      BY <1>2, <3>1 DEF Answer, Incoming
    <3>2. CASE ServerCloses
      BY <3>2 DEF ServerCloses, Incoming, Closing
    <3>3. CASE Drained
      BY <2>1, <3>3 DEF Drained, RecvParts, Incoming, Closing
    <3>4. ~Established /\ ~Refused
      BY <2>1 DEF Established, Refused, RecvParts
    <3> QED BY <3>1, <3>2, <3>3, <3>4 DEF Kernel
  <2>3. Got => Got'
    BY <1>1, <1>3 DEF Got
  <2>4. tcp' = "lost" => tcp = "lost"
    BY <1>1
  <2> QED BY <1>1, <1>3, <2>1, <2>2, <2>3, <2>4 DEF RecvGot
<1> QED BY <1>2, <1>4, <1>5, GotPart

LEMMA GotStill ==
  ASSUME GotAll, UNCHANGED vars
  PROVE  GotParts'
<1>1. UNCHANGED <<setup, at, timer, timedout, tcp, eof, inbox, edge, buf, bufStart>>
  BY DEF vars, scriptVars, workerVars, peerVars, upstreamVars, kernelVars
<1>2. LastCall' = LastCall /\ (Closing' <=> Closing) /\ (Incoming' <=> Incoming) /\ (Got' <=> Got)
  BY <1>1, TalkKept DEF GotAll, vars, Closing, Incoming, Got, Faults
<1> QED BY <1>1, <1>2 DEF GotAll, GotInv, GotParts, SendGot, RecvGot

LEMMA GotStep ==
  ASSUME GotAll, [Next]_vars
  PROVE  GotInv'
<1>1. CASE ScriptEnds
  <2>1. LastCall' = LastCall /\ LastCall \in Between
    BY <1>1 DEF ScriptEnds, LastCall, program, GotAll, TalkAll, TalkInv, TalkScript, Conversation
  <2> QED BY <2>1, GotPart, GotOpen, GotResult DEF Between, GotInv
<1>2. CASE PooledEvent
  <2>1. pooled /\ UNCHANGED scriptVars
    BY <1>2 DEF PooledEvent
  <2>2. LastCall' = LastCall /\ LastCall \notin {"send", "recv", "recvwait"}
    BY <2>1, TalkKept, TalkNumbers DEF GotAll, DueInv, TalkParts, SendParts, RecvParts
  <2> QED BY <2>2, GotPart, GotOpen, GotResult DEF GotInv
<1>3. ~ResumeGone
  BY TalkNoOtherCall DEF GotAll
<1> QED BY <1>1, <1>2, <1>3, NextCases, GotOpen, GotResult, GotScript, GotEpoll, GotTimers,
           GotHandled, GotKernel, GotStill DEF GotInv

LEMMA GotInvariant == Spec => [](Conversation(setup) => GotInv)
<1>1. Init => (Conversation(setup) => GotInv)
  <2> SUFFICES ASSUME Init PROVE GotInv
    OBVIOUS
  <2>1. LastCall = "none"
    BY DEF Init, LastCall, CallOf
  <2> QED BY <2>1 DEF Init, GotInv, OpenInv, GotParts, ResultInv, Attached
<1>2. /\ Conversation(setup) => TalkAll
      /\ Conversation(setup) => GotInv
      /\ [Next]_vars
      => (Conversation(setup) => GotInv)'
  <2> SUFFICES ASSUME Conversation(setup) => TalkAll, Conversation(setup) => GotInv,
                      [Next]_vars, Conversation(setup')
               PROVE  GotInv'
    OBVIOUS
  <2>1. Conversation(setup)
    BY SetupKept
  <2> QED BY <2>1, GotStep DEF GotAll
<1> QED BY <1>1, <1>2, TalkInvariant, PTL DEF Spec

(***************************************************************************)
(* Every receive of a conversation returns data, the end of the connection *)
(* or its time-out, whatever fails and whatever the uses of a pooled       *)
(* connection before it have left behind.                                  *)
(***************************************************************************)
THEOREM ConversationsReceive == Spec => [](Conversation(setup) => RecvReturnsData)
<1>1. (Conversation(setup) => GotInv) => (Conversation(setup) => RecvReturnsData)
  BY DEF GotInv, ResultInv, RecvReturnsData
<1> QED BY <1>1, GotInvariant, PTL

-----------------------------------------------------------------------------
(* Why the calls of a conversation return.                                 *)

\* Nothing fails but what a full buffer and a server that closes can cause.
Accepted(s) ==
  Conversation(s) /\ s.faults \cap {"lost", "refused", "unreachable", "unresolved"} = {}

ConnectWakes ==
  /\ at = "epoll" => resolving \/ (Attached /\ (edge \/ tcp = "connecting"))
  /\ (at # "epoll" /\ eof) => edge \/ thenWrite \/ full

\* Data is met in the read half of an event whose write half is to come.
SendWakes ==
  /\ at = "epoll" => IF wh = "send" THEN "write" \in timer ELSE edge \/ owed > 0
  /\ full => wh = "send"
  /\ (ready /\ ~thenWrite) => NothingDue

WakeParts ==
  /\ (LastCall \in Between /\ gen = "live" /\ at = "epoll") => "sleep" \in timer
  /\ LastCall = "connect" => ConnectWakes
  /\ LastCall = "send" => SendWakes
  /\ (LastCall \in {"recv", "recvwait"} /\ at = "epoll") => "read" \in timer

WakeInv == tcp \notin {"lost", "refused"} /\ WakeParts

WakeAll == GotAll /\ WakeInv /\ Accepted(setup)

LEMMA WakeFacts ==
  ASSUME WakeAll
  PROVE  /\ TalkAll /\ OpenInv /\ DueInv /\ TalkParts /\ TypeOK /\ TalkScript /\ WakeParts
         /\ tcp \notin {"lost", "refused"}
         /\ Attached \/ pooled => tcp \in {"connecting", "up"}
         /\ (Closing <=> eof) /\ (Incoming <=> inbox > 0 \/ eof)
         /\ LastCall \in Speaking \cup Between
         /\ inbox \in Nat /\ owed \in Nat
<1>1. TalkAll /\ OpenInv /\ WakeParts /\ tcp \notin {"lost", "refused"}
  BY DEF WakeAll, GotAll, GotInv, WakeInv
<1>2. DueInv /\ TalkParts /\ TypeOK /\ inbox \in Nat /\ owed \in Nat /\ LastCall \in Speaking \cup Between
  BY <1>1, TalkNumbers, TalkOrder
<1>3. TalkScript
  BY <1>1 DEF TalkAll, TalkInv
<1>4. Attached \/ pooled => tcp \in {"connecting", "up"}
  BY <1>1, <1>2 DEF OpenInv, TypeOK
<1> QED BY <1>1, <1>2, <1>3, <1>4 DEF Closing, Incoming

LEMMA WakeFaults ==
  ASSUME WakeAll
  PROVE  Faults \cap {"lost", "refused", "unreachable", "unresolved"} = {}
  BY DEF WakeAll, Accepted, Faults

\* A connection that is made is on its way, or there with an edge.
LEMMA WakeConnected ==
  ASSUME WakeAll, ResolvedConnect
  PROVE  /\ Attached' /\ (edge' \/ tcp' = "connecting")
         /\ tcp' \notin {"lost", "refused"}
         /\ pooled => edge'
<1>1. ~ConnectFails
  BY WakeFaults DEF ConnectFails
<1>2. CASE ConnectDone
  BY <1>2, WakeFacts DEF ConnectDone, Attached
<1>3. CASE ConnectAgain
  <2>1. NewConnection("connecting")
    BY <1>3, WakeFaults DEF ConnectAgain
  <2> QED BY <2>1 DEF NewConnection, Attached
<1>4. CASE ConnectOk
  BY <1>4 DEF ConnectOk, NewConnection, Attached
<1> QED BY <1>1, <1>2, <1>3, <1>4 DEF ResolvedConnect

LEMMA WakePart ==
  ASSUME tcp' \notin {"lost", "refused"},
         (LastCall' \in Between /\ gen' = "live" /\ at' = "epoll") => "sleep" \in timer',
         LastCall' = "connect" => ConnectWakes',
         LastCall' = "send" => SendWakes',
         (LastCall' \in {"recv", "recvwait"} /\ at' = "epoll") => "read" \in timer'
  PROVE  WakeInv'
  BY DEF WakeInv, WakeParts

LEMMA WakeConnect ==
  ASSUME WakeAll, ResumeConnect
  PROVE  WakeInv'
<1>1. LastCall' = "connect" /\ LastCall \in Between /\ at = "resume" /\ Connect /\ Continue
  BY WakeFacts, TalkCall DEF ResumeConnect, After, Speaking, Between
<1>2. BetweenParts /\ ~Attached
  BY <1>1, WakeFacts DEF TalkParts, BetweenParts
<1>3. ~thenWrite' /\ at' = IF thenWrite /\ Attached' THEN "write" ELSE "epoll"
  BY <1>1 DEF Continue, Attached
<1>4. CASE setup.byName
  <2>1. resolving' /\ UNCHANGED <<peer, tcp>>
    BY <1>1, <1>4 DEF Connect, peerVars
  <2>2. at' = "epoll"
    BY <1>2, <1>3, <2>1 DEF Attached
  <2> QED BY <1>1, <2>1, <2>2, WakeFacts, WakePart DEF ConnectWakes, Between
<1>5. CASE ~setup.byName
  <2>1. ResolvedConnect
    BY <1>1, <1>5 DEF Connect
  <2>2. /\ Attached' /\ (edge' \/ tcp' = "connecting")
        /\ tcp' \notin {"lost", "refused"}
        /\ pooled => edge'
    BY <2>1, WakeConnected
  <2>3. at' # "epoll" => edge'
    BY <1>2, <1>3, <2>2 DEF BetweenParts
  <2> QED BY <1>1, <2>2, <2>3, WakePart DEF ConnectWakes, Between
<1> QED BY <1>4, <1>5

LEMMA WakeSend ==
  ASSUME WakeAll, ResumeSend
  PROVE  WakeInv'
<1>1. /\ gen = "live" /\ at = "resume" /\ LastCall' = "send" /\ LastCall = "connect"
      /\ Send /\ Continue
  BY WakeFacts, TalkCall DEF ResumeSend, After, Speaking, Between
<1>2. Attached /\ ConnectParts /\ DueInv /\ ConnectWakes
  BY <1>1, WakeFacts, TalkOrder DEF TalkParts, WakeParts, Speaking
<1>3. /\ UpstreamSend
      /\ UNCHANGED <<peer, tcp, ready, edge, inbox, eof>>
  BY <1>1, <1>2 DEF Send
<1>4. ~thenWrite' /\ at' = IF thenWrite THEN "write" ELSE "epoll"
  BY <1>1, <1>2, <1>3 DEF Continue, Attached
<1>5. inbox = 0 /\ owed = 0 /\ tcp = "up" /\ (ready => eof)
  BY <1>1, <1>2, WakeFacts DEF ConnectParts, NothingDue, DueInv
<1>6. CASE SendAll
  <2>1. ~full' /\ wh' = "dummy" /\ (eof => owed' = 0) /\ (~eof => owed' = 1) /\ ~full
    BY <1>5, <1>6, WakeFacts, TalkNumbers DEF SendAll
  <2>2. at' = "epoll" => edge' \/ owed' > 0
    BY <1>1, <1>2, <1>3, <1>4, <2>1 DEF ConnectWakes
  <2>3. ready' => NothingDue'
    BY <1>3, <1>5, <2>1 DEF NothingDue
  <2>4. SendWakes'
    BY <2>1, <2>2, <2>3 DEF SendWakes
  <2> QED BY <1>1, <1>3, <2>4, WakeFacts, WakePart DEF Between
<1>7. CASE SendAgain
  <2>1. wh' = "send" /\ "write" \in timer' /\ owed' = owed
    BY <1>7 DEF SendAgain
  <2>2. NothingDue'
    BY <1>3, <1>5, <2>1 DEF NothingDue
  <2>3. SendWakes'
    BY <2>1, <2>2 DEF SendWakes
  <2> QED BY <1>1, <1>3, <2>3, WakeFacts, WakePart DEF Between
<1>8. ~SendError
  BY WakeFacts DEF SendError
<1> QED BY <1>3, <1>6, <1>7, <1>8 DEF UpstreamSend

LEMMA WakeRecv ==
  ASSUME WakeAll, ResumeRecv \/ ResumeRecvWait
  PROVE  WakeInv'
<1>1. PICK call \in {"recv", "recvwait"} : Resume(call) /\ Recv /\ Continue
  BY DEF ResumeRecv, ResumeRecvWait, RecvWait
<1>2. at = "resume" /\ LastCall' = call /\ LastCall = "send"
  BY <1>1, WakeFacts, TalkCall DEF After, Speaking, Between
<1>3. Attached /\ SendParts /\ SendWakes
  BY <1>2, WakeFacts DEF TalkParts, SendParts, WakeParts
<1>4. UpstreamRecv(timer) /\ UNCHANGED <<peer, tcp>>
  BY <1>1, <1>3 DEF Recv
<1>5. at' = IF thenWrite THEN "write" ELSE "epoll"
  BY <1>1, <1>3, <1>4 DEF Continue, Attached
<1>6. at' = "epoll" => "read" \in timer'
  <2>1. CASE RecvData(timer)
    BY <1>3, <1>5, <2>1 DEF RecvData, SendWakes, NothingDue
  <2>2. CASE RecvEof(timer) \/ RecvAgain(timer)
    BY <2>2 DEF RecvEof, RecvAgain
  <2>3. ~RecvError(timer)
    BY WakeFacts DEF RecvError
  <2> QED BY <1>4, <2>1, <2>2, <2>3 DEF UpstreamRecv
<1> QED BY <1>2, <1>4, <1>6, WakeFacts, WakePart DEF Between

LEMMA WakeBetween ==
  ASSUME WakeAll, ResumeSleep \/ ResumeClose \/ ResumeClear
  PROVE  WakeInv'
<1>1. CASE ResumeSleep
  <2>1. LastCall' = "sleep" /\ "sleep" \in timer' /\ tcp' = tcp
    BY <1>1, WakeFacts, TalkCall DEF ResumeSleep, Sleep, peerVars
  <2> QED BY <2>1, WakeFacts, WakePart
<1>2. CASE ResumeClose \/ ResumeClear
  <2>1. PICK call \in {"close", "clear"} : Resume(call)
    BY <1>2 DEF ResumeClose, ResumeClear
  <2>2. /\ at = "resume" /\ LastCall' \in {"close", "clear"}
        /\ LastCall \in {"recv", "recvwait"}
    BY <2>1, WakeFacts, TalkCall DEF After, Speaking, Between
  <2>3. Attached
    BY <2>2, WakeFacts DEF TalkParts, RecvParts
  <2>4. Finalize /\ tcp' \in {tcp, "closed"}
    BY <1>2, <2>3 DEF ResumeClose, ResumeClear, Close, Clear, Finalize, ToPool, CloseConnection
  <2>5. at' = "epoll" => "sleep" \in timer'
    BY <1>2, <2>2, <2>3 DEF ResumeClose, ResumeClear, Close
  <2> QED BY <2>2, <2>4, <2>5, WakeFacts, WakePart
<1> QED BY <1>1, <1>2

LEMMA WakeEpoll ==
  ASSUME WakeAll, EpollEvent
  PROVE  WakeInv'
<1> DEFINE out == tcp = "up" /\ ~full
<1>1. /\ at = "epoll" /\ edge /\ Attached /\ tcp \in {"connecting", "up"}
      /\ ready' = (ready \/ Incoming)
      /\ at' = IF Incoming THEN "read" ELSE IF out THEN "write" ELSE "epoll"
      /\ thenWrite' = (Incoming /\ out)
      /\ UNCHANGED <<scriptVars, peer, tcp, wh, resolving, timer, inbox, eof, full, owed>>
  BY WakeFacts DEF EpollEvent, Incoming, Closing
<1>2. LastCall' = LastCall /\ LastCall \notin Between
  BY <1>1, TalkKept, WakeFacts DEF TalkParts, BetweenParts
<1>3. ASSUME LastCall = "connect" PROVE ConnectWakes'
  <2>1. ConnectParts
    BY <1>3, WakeFacts DEF TalkParts
  <2>2. at' = "epoll" => tcp' = "connecting"
    BY <1>1, <2>1, WakeFacts DEF ConnectParts
  <2>3. (at' # "epoll" /\ eof) => thenWrite' \/ full
    BY <1>1, WakeFacts DEF DueInv
  <2> QED BY <1>1, <2>2, <2>3 DEF ConnectWakes, Attached
<1>4. ASSUME LastCall = "send" PROVE SendWakes'
  <2>1. SendParts /\ SendWakes
    BY <1>4, WakeFacts DEF TalkParts, WakeParts
  <2>2. tcp = "up"
    BY <1>1, <2>1 DEF SendParts
  <2>3. at' = "epoll" => wh = "send"
    BY <1>1, <2>1, <2>2 DEF SendWakes
  <2>4. (ready' /\ ~thenWrite') => NothingDue
    <3>1. CASE full
      BY <2>1, <3>1 DEF SendWakes, SendParts
    <3>2. CASE ~full
      BY <1>1, <2>2, <3>2, WakeFacts DEF DueInv
    <3> QED BY <3>1, <3>2
  <2>5. NothingDue' <=> NothingDue
    BY <1>1 DEF NothingDue
  <2> QED BY <1>1, <2>1, <2>3, <2>4, <2>5 DEF SendWakes
<1>5. LastCall \in {"recv", "recvwait"} => "read" \in timer'
  BY <1>1, WakeFacts DEF WakeParts
<1> QED BY <1>1, <1>2, <1>3, <1>4, <1>5, WakePart

LEMMA WakePooled ==
  ASSUME WakeAll, PooledEvent
  PROVE  WakeInv'
<1>1. /\ pooled /\ UNCHANGED <<scriptVars, workerVars, peer, timer, resolving>>
      /\ tcp' \in {tcp, "closed"} /\ ~Attached /\ at = "epoll"
  BY WakeFacts DEF PooledEvent, DueInv
<1>2. LastCall' = LastCall /\ LastCall \notin {"send", "recv", "recvwait"}
  BY <1>1, TalkKept, WakeFacts DEF TalkParts, SendParts, RecvParts
<1>3. LastCall = "connect" => ConnectWakes'
  BY <1>1, WakeFacts DEF WakeParts, ConnectWakes, workerVars
<1>4. (LastCall \in Between /\ gen' = "live") => "sleep" \in timer'
  BY <1>1, WakeFacts DEF WakeParts, scriptVars
<1> QED BY <1>1, <1>2, <1>3, <1>4, WakeFacts, WakePart

LEMMA WakeHandled ==
  ASSUME WakeAll, ReadHandler \/ WriteHandler
  PROVE  WakeInv'
<1>1. PICK half \in {"read", "write"}, handler \in {rh, wh} :
        /\ CallHandler(half, handler)
        /\ handler = (IF half = "read" THEN rh ELSE wh)
  BY DEF ReadHandler, WriteHandler
<1>2. /\ at = half /\ at' = "resume" /\ UNCHANGED <<thenWrite, tcp, peer>>
      /\ LastCall' = LastCall /\ LastCall \in Speaking /\ Attached
  BY <1>1, TalkFrame, WakeFacts
<1>3. ASSUME LastCall = "connect" PROVE ConnectWakes'
  <2>1. ConnectParts /\ ConnectWakes
    BY <1>3, WakeFacts DEF TalkParts, WakeParts
  <2>2. UNCHANGED <<edge, eof, full>>
    BY <1>1, <1>2, <2>1
       DEF ConnectParts, CallHandler, ConnectedHandler, DummyHandler, kernelVars
  <2> QED BY <1>2, <2>1, <2>2 DEF ConnectWakes
<1>4. ASSUME LastCall = "send" PROVE SendWakes'
  <2>1. SendParts /\ SendWakes
    BY <1>4, WakeFacts DEF TalkParts, WakeParts
  <2>2. CASE DummyHandler
    <3>1. UNCHANGED <<wh, ready, full, inbox, owed>>
      BY <2>2 DEF DummyHandler, kernelVars
    <3> QED BY <1>2, <2>1, <3>1 DEF SendWakes, NothingDue
  <2>3. CASE UpstreamSend /\ UNCHANGED <<ready, inbox, eof>>
    <3>1. CASE SendAll
      <4>1. ~full' /\ (eof => owed' = owed)
        BY <3>1 DEF SendAll
      <4>2. (ready /\ ~thenWrite) => NothingDue /\ eof
        BY <2>1, WakeFacts DEF SendWakes, DueInv, NothingDue
      <4> QED BY <1>2, <2>3, <4>1, <4>2 DEF SendWakes, NothingDue
    <3>2. CASE SendAgain
      BY <1>2, <2>1, <2>3, <3>2 DEF SendAgain, SendWakes, NothingDue
    <3>3. ~SendError
      BY WakeFacts DEF SendError
    <3> QED BY <2>3, <3>1, <3>2, <3>3 DEF UpstreamSend
  <2> QED BY <1>1, <2>1, <2>2, <2>3 DEF SendParts, CallHandler, SendHandler
<1> QED BY <1>2, <1>3, <1>4, WakeFacts, WakePart DEF Speaking, Between

LEMMA WakeTimers ==
  ASSUME WakeAll, Timers
  PROVE  WakeInv'
<1>1. CASE SleepHandler
  <2>1. at = "epoll" /\ "sleep" \in timer /\ at' = "resume" /\ UNCHANGED <<scriptVars, tcp>>
    BY <1>1 DEF SleepHandler, Expire, peerVars
  <2>2. LastCall' = LastCall /\ LastCall \in Between
    BY <2>1, TalkKept, TalkOrder, WakeFacts DEF TalkScript
  <2> QED BY <2>1, <2>2, WakeFacts, WakePart DEF Between
<1>2. CASE ResolveHandler
  <2>1. /\ resolving /\ ResolvedConnect /\ at = "epoll"
        /\ UNCHANGED <<scriptVars, workerVars>>
    BY <1>2, WakeFaults DEF ResolveHandler
  <2>2. LastCall' = LastCall /\ LastCall = "connect"
    <3>1. ~Attached /\ LastCall \in Speaking
      BY <2>1, TalkOrder, WakeFacts DEF TalkScript
    <3> QED BY <2>1, <3>1, TalkKept, WakeFacts DEF TalkParts, SendParts, RecvParts, Speaking
  <2>3. ConnectWakes' /\ tcp' \notin {"lost", "refused"}
    BY <2>1, WakeConnected DEF ConnectWakes, workerVars
  <2> QED BY <2>2, <2>3, WakePart DEF Between
<1>3. ASSUME NEW half \in {"read", "write"}, SocketTimeout(half) PROVE WakeInv'
  <2>1. /\ at = "epoll" /\ half \in timer /\ at' = half
        /\ UNCHANGED <<scriptVars, thenWrite, peer, tcp, wh, ready, kernelVars, resolving>>
    BY <1>3 DEF SocketTimeout, Expire
  <2>2. /\ LastCall' = LastCall /\ LastCall \in Speaking
        /\ UNCHANGED <<edge, eof, full, inbox, owed>>
    BY <2>1, TalkKept, TalkOrder, WakeFacts DEF kernelVars, SocketTimer, TalkScript
  <2>3. LastCall # "connect"
    <3>1. ~edge /\ tcp # "connecting"
      BY <1>3, TalkNumbers, WakeFacts DEF SocketTimeout, Quiet
    <3>2. LastCall = "connect" => resolving
      BY <2>1, <3>1, WakeFacts DEF WakeParts, ConnectWakes
    <3>3. LastCall = "connect" => timer = {}
      BY <2>1, <2>2, <3>2, TalkOrder, WakeFacts DEF TalkScript, Speaking, Between
    <3> QED BY <2>1, <3>3
  <2>4. LastCall = "send" => SendWakes'
    BY <2>1, <2>2, WakeFacts DEF WakeParts, SendWakes, NothingDue
  <2> QED BY <2>1, <2>2, <2>3, <2>4, WakeFacts, WakePart DEF Speaking, Between
<1> QED BY <1>1, <1>2, <1>3 DEF Timers

LEMMA WakeKernel ==
  ASSUME WakeAll, Kernel
  PROVE  WakeInv'
<1>1. /\ UNCHANGED <<scriptVars, workerVars, peer, wh, ready, resolving, timer>>
      /\ edge' /\ (full' => full)
      /\ tcp' \in {tcp, "up"}
      /\ NothingDue => NothingDue'
  <2>1. ~Refused
    BY WakeFaults DEF Refused
  <2>2. Established => NothingDue /\ NothingDue'
    BY TalkNumbers, WakeFacts DEF Established, DueInv, NothingDue
  <2>3. CASE Established
    BY <2>2, <2>3 DEF Established, KernelStep
  <2>4. CASE Answer
    BY <2>4, WakeFacts DEF Answer, KernelStep, NothingDue
  <2>5. CASE ServerCloses
    BY <2>5 DEF ServerCloses, KernelStep, NothingDue
  <2>6. CASE Drained
    BY <2>6 DEF Drained, KernelStep, NothingDue
  <2> QED BY <2>1, <2>3, <2>4, <2>5, <2>6 DEF Kernel
<1>2. LastCall' = LastCall /\ UNCHANGED <<at, thenWrite, gen>> /\ (Attached' <=> Attached)
  BY <1>1, TalkKept, WakeFacts DEF workerVars, scriptVars, Attached
<1>3. LastCall = "connect" => ConnectWakes'
  BY <1>1, <1>2, WakeFacts DEF WakeParts, ConnectWakes
<1>4. LastCall = "send" => SendWakes'
  BY <1>1, <1>2, WakeFacts DEF WakeParts, SendWakes
<1> QED BY <1>1, <1>2, <1>3, <1>4, WakeFacts, WakePart DEF WakeParts

LEMMA WakeStill ==
  ASSUME WakeAll, UNCHANGED vars
  PROVE  WakeInv'
<1>1. UNCHANGED <<gen, at, thenWrite, peer, tcp, wh, ready, resolving, timer, edge, inbox, eof,
                  full, owed>>
  BY DEF vars, scriptVars, workerVars, peerVars, kernelVars
<1>2. LastCall' = LastCall /\ (Attached' <=> Attached) /\ (NothingDue' <=> NothingDue)
  BY <1>1, TalkKept, WakeFacts DEF vars, Attached, NothingDue
<1>3. (ConnectWakes' <=> ConnectWakes) /\ (SendWakes' <=> SendWakes)
  BY <1>1, <1>2 DEF ConnectWakes, SendWakes
<1> QED BY <1>1, <1>2, <1>3 DEF WakeAll, WakeInv, WakeParts

LEMMA WakeStep ==
  ASSUME WakeAll, [Next]_vars
  PROVE  WakeInv'
<1>1. CASE ScriptEnds
  <2>1. LastCall' = LastCall /\ LastCall \in Between /\ gen' = "ended" /\ tcp' = tcp
    BY <1>1, WakeFacts
       DEF ScriptEnds, Ignored, peerVars, LastCall, program, TalkScript, Conversation
  <2> QED BY <2>1, WakeFacts, WakePart DEF Between
<1>2. ~ResumeGone
  BY TalkNoOtherCall, WakeFacts
<1>3. CASE Script
  BY <1>3, TalkNoOtherCall, WakeFacts, WakeConnect, WakeSend, WakeRecv, WakeBetween DEF Script
<1> QED BY <1>1, <1>2, <1>3, NextCases, WakeEpoll, WakePooled, WakeHandled, WakeTimers,
           WakeKernel, WakeStill

LEMMA WakeInvariant == Spec => [](Accepted(setup) => WakeInv)
<1>1. Init => (Accepted(setup) => WakeInv)
  <2> SUFFICES ASSUME Init PROVE WakeInv
    OBVIOUS
  <2>1. LastCall = "none" /\ at = "resume" /\ tcp \in {"up", "closed"}
    BY DEF Init, LastCall, CallOf
  <2> QED BY <2>1 DEF WakeInv, WakeParts
<1>2. /\ Conversation(setup) => TalkAll
      /\ Conversation(setup) => GotInv
      /\ Accepted(setup) => WakeInv
      /\ [Next]_vars
      => (Accepted(setup) => WakeInv)'
  <2> SUFFICES ASSUME Conversation(setup) => TalkAll, Conversation(setup) => GotInv,
                      Accepted(setup) => WakeInv, [Next]_vars, Accepted(setup')
               PROVE  WakeInv'
    OBVIOUS
  <2>1. Accepted(setup)
    BY SetupKept
  <2>2. Conversation(setup)
    BY <2>1 DEF Accepted
  <2> QED BY <2>1, <2>2, WakeStep DEF WakeAll, GotAll
<1> QED BY <1>1, <1>2, TalkInvariant, GotInvariant, PTL DEF Spec

(***************************************************************************)
(* No conversation is ever left suspended with nothing to resume it, if    *)
(* its peers cooperate and no attempt to connect is lost: one that was     *)
(* lost goes to the pool, and its next user waits on it for ever.          *)
(***************************************************************************)
THEOREM ConversationsWake ==
  Spec => [](Conversation(setup) /\ "lost" \notin Faults => Wakes)
<1>1. /\ Conversation(setup) => TalkAll
      /\ Conversation(setup) => GotInv
      /\ Accepted(setup) => WakeInv
      => (Conversation(setup) /\ "lost" \notin Faults => Wakes)
  <2> SUFFICES ASSUME Conversation(setup) => TalkAll, Conversation(setup) => GotInv,
                      Accepted(setup) => WakeInv, Conversation(setup), "lost" \notin Faults,
                      Cooperative, at = "epoll", gen = "live"
               PROVE  \/ resolving
                      \/ timer # {}
                      \/ Attached /\ (edge \/ owed > 0 \/ tcp = "connecting")
    BY DEF Wakes, CallsReturn
  <2>1. Accepted(setup)
    BY DEF Accepted, Cooperative, Faults
  <2>2. WakeAll
    BY <2>1 DEF WakeAll, GotAll
  <2>3. LastCall \in Speaking \cup Between /\ WakeParts /\ TalkParts
    BY <2>2, WakeFacts
  <2>4. LastCall = "send" => Attached
    BY <2>3 DEF TalkParts, SendParts
  <2> QED BY <2>3, <2>4 DEF WakeParts, ConnectWakes, SendWakes, Speaking
<1> QED BY <1>1, TalkInvariant, GotInvariant, WakeInvariant, PTL

=============================================================================
