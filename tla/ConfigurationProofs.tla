------------------------- MODULE ConfigurationProofs -------------------------
(***************************************************************************)
(* Proofs about Configuration, for any tree of contexts, any set of phases *)
(* and any order in which nginx merges the contexts.                       *)
(***************************************************************************)
EXTENDS Configuration, Induction, TLAPS

-----------------------------------------------------------------------------
(* The innermost script.                                                   *)

\* What Innermost(p) says of a context, f being what it says of the others.
InnermostOf(f, l, p) ==
  IF own[l][p] \in {"inline", "file"} THEN l
  ELSE IF l = Root THEN NULL ELSE f[Parent[l]]

\* The contexts that are merged after n merges: the root needs none.
MergedAfter(n) == {Root} \cup {Order[i] : i \in 1 .. n}

\* The next context to be merged is not yet, and the one around it is.
LEMMA NextMerged ==
  ASSUME NEW n \in Nat, n < Len(Order)
  PROVE  /\ Order[n + 1] \in Level \ {Root}
         /\ Order[n + 1] \notin MergedAfter(n)
         /\ Parent[Order[n + 1]] \in MergedAfter(n)
         /\ MergedAfter(n + 1) = MergedAfter(n) \cup {Order[n + 1]}
         /\ \A l \in MergedAfter(n) \ {Root} : Parent[l] \in MergedAfter(n)
<1>1. Len(Order) \in Nat /\ \A i \in 1 .. Len(Order) : Order[i] \in Level \ {Root}
  BY ConfigurationAssumption
<1>2. Order[n + 1] \in Level \ {Root}
  BY <1>1
<1>3. Order[n + 1] \notin MergedAfter(n)
  BY <1>1, <1>2, OrderAssumption DEF MergedAfter
<1>4. \A i \in 1 .. (n + 1) : Parent[Order[i]] \in MergedAfter(n)
  BY <1>1, OrderAssumption DEF MergedAfter
<1>5. MergedAfter(n + 1) = MergedAfter(n) \cup {Order[n + 1]}
  BY <1>1 DEF MergedAfter
<1>6. \A l \in MergedAfter(n) \ {Root} : Parent[l] \in MergedAfter(n)
  BY <1>4 DEF MergedAfter
<1> QED  BY <1>1, <1>2, <1>3, <1>4, <1>5, <1>6

\* Once all are merged, every context is.
LEMMA AllMerged == MergedAfter(Len(Order)) = Level
BY ConfigurationAssumption, OrderAssumption DEF MergedAfter

(***************************************************************************)
(* The search outwards ends, since every context but the root has one      *)
(* around it that comes earlier in Order: by induction over Order, some    *)
(* function satisfies the equation that defines Innermost(p), and so does  *)
(* Innermost(p).                                                           *)
(***************************************************************************)
LEMMA InnermostEquation ==
  ASSUME NEW p
  PROVE  Innermost(p) = [l \in Level |-> InnermostOf(Innermost(p), l, p)]
<1> DEFINE Solves(g, n) == \A l \in MergedAfter(n) : g[l] = InnermostOf(g, l, p)
           Solved == {n \in Nat : n <= Len(Order) =>
                        \E g \in [Level -> Level \cup {NULL}] : Solves(g, n)}
<1>1. 0 \in Solved
  <2> DEFINE g == [l \in Level |->
                    IF own[Root][p] \in {"inline", "file"} THEN Root ELSE NULL]
  <2>1. MergedAfter(0) = {Root} /\ Root \in Level
    BY ConfigurationAssumption DEF MergedAfter
  <2>2. g \in [Level -> Level \cup {NULL}] /\ Solves(g, 0)
    BY <2>1 DEF InnermostOf
  <2> QED  BY <2>2
<1>2. ASSUME NEW n \in Nat, n \in Solved PROVE n + 1 \in Solved
  <2> SUFFICES ASSUME n + 1 <= Len(Order)
               PROVE  \E h \in [Level -> Level \cup {NULL}] : Solves(h, n + 1)
    OBVIOUS
  <2>1. n < Len(Order) /\ n <= Len(Order)
    BY ConfigurationAssumption
  <2>2. PICK g \in [Level -> Level \cup {NULL}] : Solves(g, n)
    BY <1>2, <2>1
  <2> DEFINE conf == Order[n + 1]
             h == [g EXCEPT ![conf] = InnermostOf(g, conf, p)]
  <2>3. /\ conf \in Level \ {Root} /\ conf \notin MergedAfter(n)
        /\ Parent[conf] \in MergedAfter(n)
        /\ MergedAfter(n + 1) = MergedAfter(n) \cup {conf}
        /\ \A l \in MergedAfter(n) \ {Root} : Parent[l] \in MergedAfter(n)
    BY <2>1, NextMerged
  <2>4. Parent[conf] \in Level
    BY <2>3, ConfigurationAssumption
  <2> HIDE DEF conf
  <2>5. \A l \in Level : h[l] = IF l = conf THEN InnermostOf(g, conf, p) ELSE g[l]
    OBVIOUS
  <2>6. h \in [Level -> Level \cup {NULL}]
    BY <2>3, <2>4 DEF InnermostOf
  <2>7. MergedAfter(n) \subseteq Level
    BY <2>1, ConfigurationAssumption DEF MergedAfter
  <2> HIDE DEF h
  <2>8. \A l \in MergedAfter(n + 1) : InnermostOf(h, l, p) = InnermostOf(g, l, p)
    BY <2>3, <2>4, <2>5, <2>7 DEF InnermostOf
  <2>9. Solves(h, n + 1)
    BY <2>2, <2>3, <2>5, <2>7, <2>8
  <2> QED  BY <2>6, <2>9
<1>3. Len(Order) \in Nat /\ Len(Order) <= Len(Order)
  BY ConfigurationAssumption
<1>4. Len(Order) \in Solved
  <2> HIDE DEF Solved
  <2> QED  BY <1>1, <1>2, <1>3, NatSetInduction
<1>5. PICK g \in [Level -> Level \cup {NULL}] : \A l \in Level : g[l] = InnermostOf(g, l, p)
  BY <1>3, <1>4, AllMerged
<1>6. g = [l \in Level |-> InnermostOf(g, l, p)]
  BY <1>5
<1> QED  BY <1>6, Zenon DEF Innermost, InnermostOf

-----------------------------------------------------------------------------
(***************************************************************************)
(* The inductive invariant.  A file handler has its file from the start,   *)
(* whereas an inline handler may have to wait for the merge to get inline  *)
(* code.  A worker compiles nothing before the contexts are merged, so     *)
(* that the script of a context stays the one whose function it compiled.  *)
(***************************************************************************)
FileHandlerHasFile ==
  \A l \in Level, p \in Phase \cap Inheriting :
    handler[l][p] = "file" => code[l][p] # NULL

IInv ==
  /\ TypeOK
  /\ HandlerHasCode
  /\ FileHandlerHasFile
  /\ DefinedOnce
  /\ stage = "parse" => merged = 0
  /\ stage # "run" => compiled = Everywhere(FALSE)

\* A context that is not merged has what its own directive gave it.
AsParsed(l, p) ==
  /\ handler[l][p] = CASE own[l][p] = "none" -> NULL
                       [] own[l][p] = "logblock" -> "inline"
                       [] OTHER -> own[l][p]
  /\ inline[l][p] = IF own[l][p] = "inline" THEN l ELSE NULL

\* A merged one has the innermost script, if that is an inline one.
AsInherited(l, p) ==
  LET m == Innermost(p)[l]
  IN  m # NULL /\ own[m][p] = "inline" => handler[l][p] = "inline" /\ inline[l][p] = m

(***************************************************************************)
(* What every context has at any point of the merge: the context that is   *)
(* merged next is still as parsed, the one around it has inherited.        *)
(***************************************************************************)
InheritedScripts ==
  /\ stage = "parse" =>
       \A l \in Level, p \in Phase \cap Inheriting : AsParsed(l, p)
  /\ stage = "merge" =>
       \A l \in Level \ MergedAfter(merged), p \in Phase \cap Inheriting : AsParsed(l, p)
  /\ stage \in {"merge", "run"} =>
       \A l \in MergedAfter(merged), p \in Phase \cap Inheriting : AsInherited(l, p)
  /\ stage = "run" => merged = Len(Order)

\* A merge writes the context and, for the other phases, the one around it.
LEMMA OrderStep ==
  ASSUME TypeOK, stage = "merge", merged < Len(Order)
  PROVE  /\ Order[merged + 1] \in Level \ {Root}
         /\ Parent[Order[merged + 1]] \in Level
         /\ merged + 1 \in 0 .. Len(Order)
<1>1. merged \in Nat /\ Len(Order) \in Nat /\ merged + 1 \in 1 .. Len(Order)
  BY ConfigurationAssumption DEF TypeOK
<1>2. Order[merged + 1] \in Level \ {Root}
  BY <1>1, ConfigurationAssumption
<1> QED  BY <1>1, <1>2, ConfigurationAssumption

\* Initially no context has a script.
LEMMA InitIInv == Init => IInv
<1> SUFFICES ASSUME Init PROVE IInv
  OBVIOUS
<1>1. TypeOK
  BY ConfigurationAssumption DEF Init, TypeOK, Everywhere
<1>2. HandlerHasCode
  BY ConfigurationAssumption DEF Init, HandlerHasCode, Everywhere
<1>3. DefinedOnce
  BY DEF Init, DefinedOnce, Everywhere
<1>4. FileHandlerHasFile
  BY ConfigurationAssumption DEF Init, FileHandlerHasFile, Everywhere
<1> QED  BY <1>1, <1>2, <1>3, <1>4 DEF IInv, Init

\* During the parse only http has what it will have.
LEMMA SettledInParse == merged = 0 => Settled = {Root}
BY DEF Settled

\* Filing a script files its handler, too; a log block is never http's.
LEMMA DirectiveStep ==
  ASSUME IInv, NEW l \in Level, NEW p \in Phase,
         InlineDirective(l, p) \/ FileDirective(l, p) \/ BlockDirective(l, p)
  PROVE  IInv'
<1> USE DEF IInv
<1>0. stage = "parse" /\ merged = 0 /\ UNCHANGED merged
  BY DEF InlineDirective, FileDirective, BlockDirective, FileInline, FileCode, File,
         Duplicated, vars
<1>1. CASE UNCHANGED vars
  BY <1>1 DEF vars, confVars, workerVars, TypeOK, HandlerHasCode, FileHandlerHasFile,
              DefinedOnce, Settled
<1>2. CASE Duplicated
  BY <1>0, <1>2 DEF Duplicated, confVars, workerVars, TypeOK, HandlerHasCode,
                    FileHandlerHasFile, DefinedOnce, Settled
<1>3. CASE FileInline(l, p)
  <2>1. TypeOK'
    BY <1>3 DEF TypeOK, FileInline, File, workerVars
  <2>2. HandlerHasCode'
    BY <1>0, <1>3, SettledInParse, ConfigurationAssumption
    DEF TypeOK, HandlerHasCode, FileInline, File, Settled
  <2>3. DefinedOnce' /\ compiled' = Everywhere(FALSE)
    BY <1>0, <1>3 DEF FileInline, File, workerVars, DefinedOnce, Everywhere
  <2>4. FileHandlerHasFile'
    BY <1>3 DEF TypeOK, FileHandlerHasFile, FileInline, File
  <2> QED  BY <1>0, <2>1, <2>2, <2>3, <2>4
<1>4. ASSUME NEW kind, NEW handled, FileCode(l, p, kind, handled),
             \/ kind = "file" /\ handled = "file"
             \/ kind = "logblock" /\ handled = "inline" /\ l # Root
      PROVE  IInv'
  <2>1. TypeOK'
    BY <1>4 DEF TypeOK, FileCode, File, workerVars
  <2>2. FileHandlerHasFile'
    BY <1>4, ConfigurationAssumption DEF TypeOK, FileHandlerHasFile, FileCode, File
  <2>3. HandlerHasCode'
    <3>1. Root \in Level /\ Settled = {Root} /\ Settled' = {Root}
      BY <1>0, SettledInParse, ConfigurationAssumption DEF Settled
    <3>2. ASSUME NEW q \in Phase \cap Inheriting, handler'[Root][q] = "inline"
          PROVE  inline'[Root][q] # NULL
      <4>1. handler[Root][q] = "inline"
        BY <1>4, <3>1, <3>2 DEF TypeOK, FileCode, File
      <4> QED  BY <1>4, <3>1, <4>1 DEF HandlerHasCode, FileCode
    <3> QED  BY <2>2, <3>1, <3>2 DEF HandlerHasCode, FileHandlerHasFile
  <2>4. DefinedOnce' /\ compiled' = Everywhere(FALSE)
    BY <1>0, <1>4 DEF FileCode, File, workerVars, DefinedOnce, Everywhere
  <2> QED  BY <1>0, <2>1, <2>2, <2>3, <2>4
<1>5. l \in Location => l # Root
  BY ConfigurationAssumption
<1> QED
  BY <1>1, <1>2, <1>3, <1>4, <1>5 DEF InlineDirective, FileDirective, BlockDirective

(***************************************************************************)
(* A merged context has the handler either with inline code of its own, or *)
(* with the one around it, which is merged and so has the code it needs.   *)
(***************************************************************************)
LEMMA MergeStep == ASSUME IInv, MergeLocConf PROVE IInv'
<1> USE DEF IInv
<1> DEFINE conf == Order[merged + 1]
           prev == Parent[conf]
<1>0. stage = "merge" /\ stage' = stage /\ UNCHANGED <<enabled, own, defined>>
  BY DEF MergeLocConf
<1>1. conf \in Level \ {Root} /\ prev \in Level /\ merged' \in 0 .. Len(Order)
  BY OrderStep DEF MergeLocConf
<1>2. MergeScripts(prev, conf)
  BY DEF MergeLocConf
<1>3. compiled' = [compiled EXCEPT ![prev] = compiled[conf]]
  BY DEF MergeLocConf
<1> HIDE DEF conf, prev
<1>4. compiled = Everywhere(FALSE) /\ compiled' = Everywhere(FALSE)
  BY <1>0, <1>1, <1>3 DEF Everywhere
<1>5. TypeOK'
  <2>1. code' \in [Level -> [Phase -> Level \cup {NULL}]]
    BY <1>1, <1>2 DEF TypeOK, MergeScripts, Inherit
  <2>2. inline' \in [Level -> [Phase -> Level \cup {NULL}]]
    BY <1>1, <1>2 DEF TypeOK, MergeScripts, Inherit
  <2>3. handler' \in [Level -> [Phase -> {"inline", "file", NULL}]]
    BY <1>1, <1>2 DEF TypeOK, MergeScripts, MergedHandler
  <2> QED  BY <1>0, <1>1, <1>4, <2>1, <2>2, <2>3 DEF TypeOK
<1>a. ASSUME NEW l \in Level, l # conf, NEW p \in Phase \cap Inheriting
      PROVE  handler'[l][p] = handler[l][p] /\ code'[l][p] = code[l][p] /\
             inline'[l][p] = inline[l][p]
  <2>1. handler'[l][p] = handler[l][p] /\ code'[l][p] = code[l][p]
    BY <1>1, <1>2, <1>a DEF MergeScripts, TypeOK
  <2>2. inline'[l][p] = inline[l][p]
    BY <1>1, <1>2, <1>a DEF MergeScripts, TypeOK
  <2> QED  BY <2>1, <2>2
<1>b. ASSUME NEW p \in Phase \cap Inheriting
      PROVE  /\ handler'[conf][p] = MergedHandler(prev, conf, p)
             /\ code'[conf][p] = Inherit(code, prev, conf, p)
             /\ inline'[conf][p] = Inherit(inline, prev, conf, p)
  <2>1. /\ handler'[conf][p] = MergedHandler(prev, conf, p)
        /\ code'[conf][p] = Inherit(code, prev, conf, p)
    BY <1>1, <1>2 DEF MergeScripts, TypeOK
  <2>2. inline'[conf][p] = Inherit(inline, prev, conf, p)
    BY <1>1, <1>2 DEF MergeScripts, TypeOK
  <2> QED  BY <2>1, <2>2
<1>c. FileHandlerHasFile'
  <2> SUFFICES ASSUME NEW l \in Level, NEW p \in Phase \cap Inheriting,
                      handler'[l][p] = "file"
               PROVE  code'[l][p] # NULL
    BY DEF FileHandlerHasFile
  <2>1. CASE l # conf
    BY <1>a, <2>1 DEF FileHandlerHasFile
  <2>2. CASE l = conf
    BY <1>1, <1>b, <2>2 DEF FileHandlerHasFile, MergedHandler, Inherit
  <2> QED  BY <2>1, <2>2
<1>d. prev \in Settled /\ Settled' = Settled \cup {conf} /\ Settled' \subseteq Level
  <2>1. merged \in Nat /\ merged < Len(Order) /\ merged' = merged + 1
    BY DEF MergeLocConf, TypeOK
  <2>2. Settled = MergedAfter(merged) /\ Settled' = MergedAfter(merged + 1)
    BY <2>1 DEF Settled, MergedAfter
  <2>3. MergedAfter(merged + 1) \subseteq Level
    BY <2>1, ConfigurationAssumption DEF MergedAfter
  <2> QED  BY <2>1, <2>2, <2>3, NextMerged DEF conf, prev
<1>6. HandlerHasCode'
  <2> SUFFICES ASSUME NEW l \in Settled', NEW p \in Phase \cap Inheriting,
                      handler'[l][p] = "inline"
               PROVE  inline'[l][p] # NULL
    BY <1>c, <1>d DEF HandlerHasCode, FileHandlerHasFile
  <2>1. CASE l # conf
    BY <1>a, <1>d, <2>1 DEF HandlerHasCode
  <2>2. CASE l = conf
    BY <1>b, <1>d, <2>2 DEF HandlerHasCode, MergedHandler, Inherit
  <2> QED  BY <2>1, <2>2
<1>7. DefinedOnce'
  BY <1>0, <1>4 DEF DefinedOnce, Everywhere
<1> QED  BY <1>0, <1>5, <1>6, <1>7, <1>4, <1>c

\* The first request of a context defines its function, if nobody has.
LEMMA CompileStep ==
  ASSUME IInv, NEW l \in Level, NEW p \in Phase, CompileInline(l, p)
  PROVE  IInv'
<1> USE DEF IInv
<1>1. inline[l][p] \in Level /\ stage = "run"
  BY DEF CompileInline, TypeOK, RunsInline
<1>2. TypeOK'
  BY <1>1 DEF CompileInline, TypeOK, Define, confVars
<1>3. HandlerHasCode' /\ FileHandlerHasFile'
  BY DEF CompileInline, HandlerHasCode, FileHandlerHasFile, Settled, confVars
<1>4. DefinedOnce'
  <2> SUFFICES ASSUME NEW m \in Level, NEW q \in Phase, compiled'[m][q]
               PROVE  inline'[m][q] # NULL /\ defined'[inline'[m][q]][q] = 1
    BY DEF DefinedOnce
  <2>1. CASE m = l /\ q = p
    BY <1>1, <2>1 DEF CompileInline, Define, TypeOK, confVars
  <2>2. CASE ~(m = l /\ q = p)
    <3>1. compiled[m][q] /\ inline' = inline
      BY <2>2 DEF CompileInline, TypeOK, confVars
    <3>2. inline[m][q] \in Level /\ defined[inline[m][q]][q] = 1
      BY <3>1 DEF DefinedOnce, TypeOK
    <3>3. defined' = [defined EXCEPT ![inline[l][p]][p] = IF @ = 0 THEN 1 ELSE @]
      BY DEF CompileInline, Define
    <3>4. defined'[inline[m][q]][q] = 1
      BY <1>1, <3>2, <3>3 DEF TypeOK
    <3> QED  BY <3>1, <3>2, <3>4, ConfigurationAssumption
  <2> QED  BY <2>1, <2>2
<1> QED  BY <1>1, <1>2, <1>3, <1>4 DEF CompileInline, confVars

\* Every step keeps the invariant.
LEMMA NextIInv == IInv /\ [Next]_vars => IInv'
<1> SUFFICES ASSUME IInv, [Next]_vars PROVE IInv'
  OBVIOUS
<1>1. ASSUME NEW l \in Level, NEW p \in Phase,
             InlineDirective(l, p) \/ FileDirective(l, p) \/ BlockDirective(l, p)
      PROVE  IInv'
  BY <1>1, DirectiveStep
<1>2. ASSUME NEW l \in Level, NEW p \in Phase, CompileInline(l, p) PROVE IInv'
  BY <1>2, CompileStep
<1>3. CASE ParseEnds
  BY <1>3 DEF ParseEnds, IInv, TypeOK, HandlerHasCode, FileHandlerHasFile,
              DefinedOnce, Settled, confVars, workerVars
<1>4. CASE MergeLocConf
  BY <1>4, MergeStep
<1>5. CASE PostConfiguration
  BY <1>5 DEF PostConfiguration, IInv, TypeOK, HandlerHasCode, FileHandlerHasFile,
              DefinedOnce, Settled, confVars, workerVars
<1>6. CASE UNCHANGED vars
  BY <1>6 DEF IInv, TypeOK, HandlerHasCode, FileHandlerHasFile, DefinedOnce, Settled,
              vars, confVars, workerVars
<1> QED  BY <1>1, <1>2, <1>3, <1>4, <1>5, <1>6 DEF Next, Done

\* The invariant holds in every reachable state.
LEMMA Invariance == Spec => []IInv
BY InitIInv, NextIInv, PTL DEF Spec

(***************************************************************************)
(* Every step keeps what the contexts have inherited.                      *)
(***************************************************************************)

\* A directive gives a context its script, in the parse only.
LEMMA DirectiveScripts ==
  ASSUME IInv, InheritedScripts, NEW l \in Level, NEW p \in Phase,
         InlineDirective(l, p) \/ FileDirective(l, p) \/ BlockDirective(l, p)
  PROVE  InheritedScripts'
<1>0. stage = "parse" /\ merged = 0 /\ UNCHANGED merged
  BY DEF InlineDirective, FileDirective, BlockDirective, FileInline, FileCode, File,
         Duplicated, vars, IInv
<1>1. CASE UNCHANGED vars
  <2>1. UNCHANGED <<handler, inline, own, stage, merged>>
    BY <1>1 DEF vars, confVars, workerVars
  <2> QED  BY <1>0, <2>1 DEF InheritedScripts, AsParsed
<1>2. CASE Duplicated
  BY <1>2 DEF Duplicated, InheritedScripts
<1>3. ASSUME NEW kind, NEW handled, File(l, p, kind, handled),
             \/ kind = "inline" /\ handled = "inline" /\ inline' = [inline EXCEPT ![l][p] = l]
             \/ kind = "file" /\ handled = "file" /\ inline' = inline
             \/ kind = "logblock" /\ handled = "inline" /\ inline' = inline
      PROVE  InheritedScripts'
  <2>1. /\ handler' = [handler EXCEPT ![l][p] = handled]
        /\ own' = [own EXCEPT ![l][p] = kind]
        /\ handler[l][p] = NULL /\ stage' = stage
    BY <1>3 DEF File
  <2>2. ASSUME NEW m \in Level, NEW q \in Phase \cap Inheriting PROVE AsParsed(m, q)'
    <3>1. AsParsed(m, q)
      BY <1>0 DEF InheritedScripts
    <3>2. CASE m = l /\ q = p
      <4>1. handler'[m][q] = handled /\ own'[m][q] = kind
        BY <2>1, <3>2 DEF IInv, TypeOK
      <4>2. /\ own[m][q] \in {"inline", "file", "logblock", "none"}
            /\ NULL \notin {"inline", "file"}
        BY ConfigurationAssumption DEF IInv, TypeOK
      <4>3. inline[m][q] = NULL
        BY <2>1, <3>1, <3>2, <4>2 DEF AsParsed
      <4>4. inline'[m][q] = IF kind = "inline" THEN l ELSE NULL
        BY <1>3, <3>2, <4>3 DEF IInv, TypeOK
      <4> QED  BY <1>3, <3>2, <4>1, <4>4 DEF AsParsed
    <3>3. CASE ~(m = l /\ q = p)
      <4>1. handler'[m][q] = handler[m][q] /\ own'[m][q] = own[m][q]
        BY <2>1, <3>3 DEF IInv, TypeOK
      <4>2. inline'[m][q] = inline[m][q]
        BY <1>3, <3>3 DEF IInv, TypeOK
      <4> QED  BY <3>1, <4>1, <4>2 DEF AsParsed
    <3> QED  BY <3>2, <3>3
  <2> QED  BY <1>0, <2>1, <2>2 DEF InheritedScripts
<1> QED
  BY <1>1, <1>2, <1>3
  DEF InlineDirective, FileDirective, BlockDirective, FileInline, FileCode

(***************************************************************************)
(* The merge of a context keeps its own inline script; without a directive *)
(* it takes what the one around it has, which is the innermost of that one *)
(* and so its own.                                                         *)
(***************************************************************************)
LEMMA MergeInherits == ASSUME IInv, InheritedScripts, MergeLocConf PROVE InheritedScripts'
<1> DEFINE conf == Order[merged + 1]
           prev == Parent[conf]
<1>0. /\ stage = "merge" /\ stage' = stage /\ own' = own /\ merged' = merged + 1
      /\ merged \in Nat /\ merged < Len(Order)
  BY DEF MergeLocConf, IInv, TypeOK
<1>1. /\ conf \in Level \ {Root} /\ conf \notin MergedAfter(merged)
      /\ prev \in MergedAfter(merged)
      /\ MergedAfter(merged + 1) = MergedAfter(merged) \cup {conf}
  BY <1>0, NextMerged
<1>2. MergeScripts(prev, conf) /\ prev \in Level
  BY OrderStep DEF MergeLocConf, IInv
<1> HIDE DEF conf, prev
<1>3. ASSUME NEW l \in Level, l # conf, NEW p \in Phase \cap Inheriting
      PROVE  handler'[l][p] = handler[l][p] /\ inline'[l][p] = inline[l][p]
  <2>1. handler'[l][p] = handler[l][p]
    BY <1>1, <1>2, <1>3 DEF MergeScripts, IInv, TypeOK
  <2>2. inline'[l][p] = inline[l][p]
    BY <1>1, <1>2, <1>3 DEF MergeScripts, IInv, TypeOK
  <2> QED  BY <2>1, <2>2
<1>4. ASSUME NEW p \in Phase \cap Inheriting
      PROVE  /\ handler'[conf][p] = MergedHandler(prev, conf, p)
             /\ inline'[conf][p] = Inherit(inline, prev, conf, p)
  <2>1. handler'[conf][p] = MergedHandler(prev, conf, p)
    BY <1>1, <1>2 DEF MergeScripts, IInv, TypeOK
  <2>2. inline'[conf][p] = Inherit(inline, prev, conf, p)
    BY <1>1, <1>2 DEF MergeScripts, IInv, TypeOK
  <2> QED  BY <2>1, <2>2
<1>5. ASSUME NEW l \in Level \ MergedAfter(merged'), NEW p \in Phase \cap Inheriting
      PROVE  AsParsed(l, p)'
  <2>1. l # conf /\ AsParsed(l, p)
    BY <1>0, <1>1, <1>5 DEF InheritedScripts
  <2>2. handler'[l][p] = handler[l][p] /\ inline'[l][p] = inline[l][p]
    BY <1>3, <2>1
  <2> QED  BY <1>0, <2>1, <2>2 DEF AsParsed
<1>6. \A p : Innermost(p)' = Innermost(p)
  BY <1>0 DEF Innermost
<1>7. \A l \in MergedAfter(merged) : l \in Level
  BY <1>0, ConfigurationAssumption DEF MergedAfter
<1>8. ASSUME NEW l \in MergedAfter(merged'), NEW p \in Phase \cap Inheriting
      PROVE  AsInherited(l, p)'
  <2>1. CASE l # conf
    <3>1. l \in MergedAfter(merged) /\ l \in Level
      BY <1>0, <1>1, <1>7, <1>8, <2>1
    <3>2. AsInherited(l, p)
      BY <1>0, <3>1 DEF InheritedScripts
    <3>3. handler'[l][p] = handler[l][p] /\ inline'[l][p] = inline[l][p]
      BY <1>3, <2>1, <3>1
    <3> QED  BY <1>0, <1>6, <3>2, <3>3 DEF AsInherited
  <2>2. CASE l = conf
    <3> DEFINE m == Innermost(p)[conf]
    <3> SUFFICES ASSUME m # NULL, own[m][p] = "inline"
                 PROVE  handler'[conf][p] = "inline" /\ inline'[conf][p] = m
      BY <1>0, <1>6, <2>2 DEF AsInherited
    <3>1. AsParsed(conf, p)
      BY <1>0, <1>1 DEF InheritedScripts
    <3>2. m = InnermostOf(Innermost(p), conf, p)
      BY <1>1, InnermostEquation
    <3>3. NULL \notin Level
      BY ConfigurationAssumption
    <3> HIDE DEF m
    <3>4. CASE own[conf][p] \in {"inline", "file"}
      <4>1. m = conf
        BY <3>2, <3>4 DEF InnermostOf
      <4>2. handler[conf][p] = "inline" /\ inline[conf][p] = conf
        BY <3>1, <4>1 DEF AsParsed
      <4> QED  BY <1>1, <1>4, <3>3, <4>1, <4>2 DEF MergedHandler, Inherit
    <3>5. CASE own[conf][p] \notin {"inline", "file"}
      <4>1. m = Innermost(p)[prev]
        BY <1>1, <3>2, <3>5 DEF InnermostOf, prev
      <4>2. inline[conf][p] = NULL
        BY <3>1, <3>5 DEF AsParsed
      <4>3. AsInherited(prev, p)
        BY <1>0, <1>1 DEF InheritedScripts
      <4>4. handler[prev][p] = "inline" /\ inline[prev][p] = m
        BY <4>1, <4>3 DEF AsInherited
      <4> QED  BY <1>4, <4>2, <4>4 DEF MergedHandler, Inherit
    <3> QED  BY <3>4, <3>5
  <2> QED  BY <2>1, <2>2
<1> QED  BY <1>0, <1>5, <1>8 DEF InheritedScripts

\* When the parse ends, http has inherited all there is: its own.
LEMMA ParseEndsScripts == ASSUME IInv, InheritedScripts, ParseEnds PROVE InheritedScripts'
<1>1. /\ stage = "parse" /\ stage' = "merge" /\ merged = 0
      /\ UNCHANGED <<handler, inline, own, merged>>
  BY DEF ParseEnds, confVars, IInv
<1>2. \A l \in Level, p \in Phase \cap Inheriting : AsParsed(l, p)
  BY <1>1 DEF InheritedScripts
<1>3. MergedAfter(merged) = {Root} /\ Root \in Level
  BY <1>1, ConfigurationAssumption DEF MergedAfter
<1>4. ASSUME NEW p \in Phase \cap Inheriting PROVE AsInherited(Root, p)
  <2>1. Innermost(p)[Root] = InnermostOf(Innermost(p), Root, p)
    BY <1>3, InnermostEquation
  <2>2. AsParsed(Root, p)
    BY <1>2, <1>3
  <2> QED  BY <2>1, <2>2 DEF InnermostOf, AsParsed, AsInherited
<1>5. \A p \in Phase \cap Inheriting : AsInherited(Root, p)'
  BY <1>1, <1>4 DEF AsInherited, Innermost
<1>6. \A l \in Level, p \in Phase \cap Inheriting : AsParsed(l, p)'
  BY <1>1, <1>2 DEF AsParsed
<1> QED  BY <1>1, <1>3, <1>5, <1>6 DEF InheritedScripts

\* Every step keeps what the contexts have inherited.
LEMMA NextInheritedScripts ==
  IInv /\ InheritedScripts /\ [Next]_vars => InheritedScripts'
<1> SUFFICES ASSUME IInv, InheritedScripts, [Next]_vars PROVE InheritedScripts'
  OBVIOUS
<1>1. ASSUME NEW l \in Level, NEW p \in Phase,
             InlineDirective(l, p) \/ FileDirective(l, p) \/ BlockDirective(l, p)
      PROVE  InheritedScripts'
  BY <1>1, DirectiveScripts
<1>a. ASSUME UNCHANGED <<handler, inline, own>>, NEW l, NEW p
      PROVE  AsParsed(l, p)' = AsParsed(l, p) /\ AsInherited(l, p)' = AsInherited(l, p)
  BY <1>a DEF AsParsed, AsInherited, Innermost
<1>2. ASSUME stage' = stage, UNCHANGED <<handler, inline, own, merged>>
      PROVE  InheritedScripts'
  BY <1>a, <1>2 DEF InheritedScripts
<1>3. ASSUME NEW l \in Level, NEW p \in Phase, CompileInline(l, p)
      PROVE  InheritedScripts'
  BY <1>2, <1>3 DEF CompileInline, confVars
<1>4. CASE ParseEnds
  BY <1>4, ParseEndsScripts
<1>5. CASE MergeLocConf
  BY <1>5, MergeInherits
<1>6. CASE PostConfiguration
  <2>1. /\ stage = "merge" /\ stage' = "run" /\ merged = Len(Order)
        /\ UNCHANGED <<handler, inline, own, merged>>
    BY <1>6 DEF PostConfiguration, confVars
  <2>2. \A l \in MergedAfter(merged), p \in Phase \cap Inheriting : AsInherited(l, p)
    BY <2>1 DEF InheritedScripts
  <2>3. \A l \in MergedAfter(merged), p \in Phase \cap Inheriting : AsInherited(l, p)'
    BY <1>a, <2>1, <2>2
  <2> QED  BY <2>1, <2>3 DEF InheritedScripts
<1>7. CASE UNCHANGED vars
  BY <1>2, <1>7 DEF vars, confVars
<1> QED  BY <1>1, <1>3, <1>4, <1>5, <1>6, <1>7 DEF Next, Done

\* Initially no context has a script nor a directive.
LEMMA InitInheritedScripts == Init => InheritedScripts
BY DEF Init, InheritedScripts, AsParsed, Everywhere

-----------------------------------------------------------------------------

\* The variables keep their types.
THEOREM TypeCorrect == Spec => []TypeOK
BY Invariance, PTL DEF IInv

(***************************************************************************)
(* In any configuration, after any number of merges, a merged context with *)
(* an inline handler has inline code and one with a file handler a file:   *)
(* ngx_http_php_merge_loc_conf takes the handler of the context around it, *)
(* which is merged, whenever there is no inline code, and so also for a    *)
(* log_by_php_block.                                                       *)
(***************************************************************************)
THEOREM HandlersHaveCode == Spec => []HandlerHasCode
BY Invariance, PTL DEF IInv

(***************************************************************************)
(* In any tree of contexts, once nginx runs, the inline script that a      *)
(* context runs is that of its innermost directive: the merge of a context *)
(* comes after that of the one around it, and takes its inline script with *)
(* its handler.  A log_by_php_block does not count, and never runs.        *)
(***************************************************************************)
THEOREM InnermostScriptRuns == Spec => []InnermostInlineRuns
<1>1. IInv /\ InheritedScripts => InnermostInlineRuns
  BY AllMerged DEF InheritedScripts, AsInherited, InnermostInlineRuns
<1>2. Spec => []InheritedScripts
  BY Invariance, InitInheritedScripts, NextInheritedScripts, PTL DEF Spec
<1> QED  BY <1>1, <1>2, Invariance, PTL

(***************************************************************************)
(* A context that has compiled its script finds its function defined,      *)
(* once, however many contexts share the script.                           *)
(***************************************************************************)
THEOREM FunctionsDefinedOnce == Spec => []DefinedOnce
BY Invariance, PTL DEF IInv

(***************************************************************************)
(* ngx_http_php_merge_loc_conf changes no script but those of the context  *)
(* it merges, in the phases whose scripts are inherited.                   *)
(***************************************************************************)
THEOREM MergesLeaveParents == Spec => MergeLeavesParent
<1>1. IInv /\ [Next]_vars =>
        [\A l \in Level, p \in Phase \cap Inheriting :
           merged' > merged /\ l # Order[merged'] =>
             handler'[l][p] = handler[l][p] /\ inline'[l][p] = inline[l][p]]_vars
  <2> SUFFICES ASSUME IInv, Next, NEW l \in Level, NEW p \in Phase \cap Inheriting,
                      merged' > merged, l # Order[merged']
               PROVE  handler'[l][p] = handler[l][p] /\ inline'[l][p] = inline[l][p]
    OBVIOUS
  <2>1. merged' # merged
    BY DEF IInv, TypeOK
  <2>2. MergeLocConf
    BY <2>1 DEF Next, InlineDirective, FileDirective, BlockDirective, FileInline, FileCode,
                File, Duplicated, CompileInline, ParseEnds, PostConfiguration, Done, vars
  <2>3. /\ Order[merged + 1] \in Level /\ Parent[Order[merged + 1]] \in Level
        /\ l # Order[merged + 1]
    BY <2>2, OrderStep DEF MergeLocConf, IInv
  <2>4. handler'[l][p] = handler[l][p]
    BY <2>2, <2>3 DEF MergeLocConf, MergeScripts, IInv, TypeOK
  <2>5. inline'[l][p] = inline[l][p]
    BY <2>2, <2>3 DEF MergeLocConf, MergeScripts, IInv, TypeOK
  <2> QED  BY <2>4, <2>5
<1> QED  BY <1>1, Invariance, PTL DEF Spec, MergeLeavesParent

=============================================================================
