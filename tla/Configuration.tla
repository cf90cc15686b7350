---------------------------- MODULE Configuration ----------------------------
(***************************************************************************)
(* The scripts of a configuration: how the directives of a context file    *)
(* them (src/ngx_http_php_directive.c), how each context inherits from the *)
(* one around it (ngx_http_php_merge_loc_conf) and how a worker compiles   *)
(* them on their first use.                                                *)
(*                                                                         *)
(* A context has at most one script of a kind in a phase, so that a script *)
(* is known by the context whose directive it is.                          *)
(***************************************************************************)
EXTENDS Integers, Sequences

CONSTANTS
  Level,    (* the contexts: http, server, the locations and their ifs      *)
  Root,     (* http                                                         *)
  Parent,   (* the context around each of the others                        *)
  Location, (* the locations and ifs, where block directives are allowed    *)
  Order,    (* the order in which nginx merges the contexts but the root    *)
  Phase,    (* the phases looked at                                         *)
  NULL      (* NGX_CONF_UNSET_PTR, or no handler                            *)

Inheriting == {"rewrite", "access", "content", "log", "header_filter",
               "body_filter"}
WithFiles == {"rewrite", "access", "content", "log"}

ASSUME ConfigurationAssumption ==
  /\ Root \in Level
  /\ Parent \in [Level \ {Root} -> Level]
  /\ Location \subseteq Level \ {Root}
  /\ Order \in Seq(Level \ {Root})
  /\ Phase \subseteq Inheriting \cup {"opcode", "stack"}
  /\ NULL \notin Level \cup {"inline", "file"}

(***************************************************************************)
(* nginx merges every context once, and one around it first.               *)
(***************************************************************************)
ASSUME OrderAssumption ==
  /\ \A i, j \in 1 .. Len(Order) : Order[i] = Order[j] => i = j
  /\ \A l \in Level \ {Root} : \E i \in 1 .. Len(Order) : Order[i] = l
  /\ \A i \in 1 .. Len(Order) :
       Parent[Order[i]] # Root =>
         \E j \in 1 .. (i - 1) : Order[j] = Parent[Order[i]]

VARIABLES
  handler,  (* [Level -> [Phase -> "inline", "file" or NULL]]               *)
  code,     (* [Level -> [Phase -> script file]], e.g. plcf->content_code   *)
  inline,   (* [Level -> [Phase -> script]], e.g. plcf->content_inline_code *)
  enabled,  (* pmcf->enabled_*_handler                                      *)
  own,      (* history: the directive a context has for a phase, "none",    *)
            (* "inline", "file", or "logblock": a block of the log phase    *)
  stage,    (* "parse", "merge", "run", or "failed": nginx does not start   *)
  merged,   (* how many contexts are merged                                 *)
  compiled, (* plcf->enabled_*_inline_compile                               *)
  defined   (* how often the function of a script was defined in the worker *)

confVars == <<handler, code, inline, enabled>>
workerVars == <<compiled, defined>>
vars == <<confVars, own, stage, merged, workerVars>>

Everywhere(x) == [l \in Level |-> [p \in Phase |-> x]]

Init ==
  /\ handler = Everywhere(NULL)
  /\ code = Everywhere(NULL)
  /\ inline = Everywhere(NULL)
  /\ enabled = {}
  /\ own = Everywhere("none")
  /\ stage = "parse"
  /\ merged = 0
  /\ compiled = Everywhere(FALSE)
  /\ defined = Everywhere(0)

-----------------------------------------------------------------------------
(* Directives.                                                             *)

\* "is duplicated": nginx gives up.
Duplicated ==
  /\ stage' = "failed"
  /\ UNCHANGED <<confVars, own, merged, workerVars>>

\* A context gets its one directive for the phase, with a handler.
File(l, p, kind, handled) ==
  /\ handler[l][p] = NULL
  /\ handler' = [handler EXCEPT ![l][p] = handled]
  /\ enabled' = enabled \cup {p}
  /\ own' = [own EXCEPT ![l][p] = kind]
  /\ UNCHANGED <<stage, merged, workerVars>>

\* The script is filed as inline code.
FileInline(l, p) ==
  /\ File(l, p, "inline", "inline")
  /\ inline' = [inline EXCEPT ![l][p] = l]
  /\ UNCHANGED code

\* The script is filed as the name of a file.
FileCode(l, p, kind, handled) ==
  /\ File(l, p, kind, handled)
  /\ code' = [code EXCEPT ![l][p] = l]
  /\ UNCHANGED inline

\* ..._by_php.
InlineDirective(l, p) ==
  /\ stage = "parse"
  /\ FileInline(l, p) \/ (handler[l][p] # NULL /\ Duplicated)

\* ..._by_php_file.
FileDirective(l, p) ==
  /\ stage = "parse"
  /\ p \in WithFiles
  /\ FileCode(l, p, "file", "file") \/ (handler[l][p] # NULL /\ Duplicated)

(***************************************************************************)
(* ..._by_php_block: ngx_php_conf_parse reads the block and calls the      *)
(* handler; its "is duplicated" is not NGX_CONF_ERROR, and gets lost.  The *)
(* block of the log phase is filed as the name of a file, but with the     *)
(* handler for inline code.                                                *)
(***************************************************************************)
BlockDirective(l, p) ==
  /\ stage = "parse"
  /\ l \in Location /\ p \in Inheriting
  /\ \/ p # "log" /\ FileInline(l, p)
     \/ p = "log" /\ FileCode(l, p, "logblock", "inline")
     \/ handler[l][p] # NULL /\ UNCHANGED vars

ParseEnds ==
  /\ stage = "parse"
  /\ stage' = "merge"
  /\ UNCHANGED <<confVars, own, merged, workerVars>>

-----------------------------------------------------------------------------
(* ngx_http_php_merge_loc_conf.                                            *)

\* Mutant of Inherit: nothing is inherited.
InheritNothing(f, prev, conf, p) == f[conf][p]

\* Mutant of Inherit: what is around a context overrides it.
InheritOuter(f, prev, conf, p) ==
  IF f[prev][p] = NULL THEN f[conf][p] ELSE f[prev][p]

\* What a context has, or else what the one around it has.
Inherit(f, prev, conf, p) == IF f[conf][p] = NULL THEN f[prev][p] ELSE f[conf][p]

\* The handler is inherited with the inline script, whatever it was.
MergedHandler(prev, conf, p) ==
  IF inline[conf][p] = NULL THEN handler[prev][p] ELSE handler[conf][p]

\* Mutant of MergeScripts: the enclosing context is written.
MergeScriptsUpward(prev, conf) ==
  /\ inline' = [inline EXCEPT ![prev] = inline[conf]]
  /\ UNCHANGED <<code, handler>>

\* The other scripts, opcode and stack, go to the enclosing context.
MergeScripts(prev, conf) ==
  /\ code' = [code EXCEPT ![conf] =
       [p \in Phase |-> IF p \in Inheriting THEN Inherit(code, prev, conf, p) ELSE @[p]]]
  /\ inline' = [l \in Level |-> [p \in Phase |->
       CASE l = conf /\ p \in Inheriting -> Inherit(inline, prev, conf, p)
         [] l = prev /\ p \notin Inheriting -> inline[conf][p]
         [] OTHER -> inline[l][p]]]
  /\ handler' = [handler EXCEPT ![conf] =
       [p \in Phase |-> IF p \in Inheriting THEN MergedHandler(prev, conf, p) ELSE @[p]]]

MergeLocConf ==
  LET conf == Order[merged + 1]
      prev == Parent[conf]
  IN  /\ stage = "merge"
      /\ merged < Len(Order)
      /\ merged' = merged + 1
      /\ MergeScripts(prev, conf)
      /\ compiled' = [compiled EXCEPT ![prev] = compiled[conf]]
      /\ UNCHANGED <<enabled, own, stage, defined>>

\* ngx_http_php_init: the handlers of the enabled phases are registered.
PostConfiguration ==
  /\ stage = "merge"
  /\ merged = Len(Order)
  /\ stage' = "run"
  /\ UNCHANGED <<confVars, own, merged, workerVars>>

-----------------------------------------------------------------------------
(* A request.  The phase's handler is called if it is registered.          *)

\* Does a request of this context run the inline script?
RunsInline(l, p) ==
  /\ stage = "run"
  /\ p \in enabled
  /\ p \in Inheriting
  /\ handler[l][p] = "inline"

\* Mutant of Define: without the test for function_exists.
DefineAgain(p, script) ==
  defined' = [defined EXCEPT ![script][p] = @ + 1]

Define(p, script) ==
  defined' = [defined EXCEPT ![script][p] = IF @ = 0 THEN 1 ELSE @]

(***************************************************************************)
(* The first request of a context evaluates the script's definition.       *)
(***************************************************************************)
CompileInline(l, p) ==
  /\ RunsInline(l, p)
  /\ ~compiled[l][p]
  /\ inline[l][p] # NULL
  /\ Define(p, inline[l][p])
  /\ compiled' = [compiled EXCEPT ![l][p] = TRUE]
  /\ UNCHANGED <<confVars, own, stage, merged>>

Done == stage \in {"failed", "run"} /\ UNCHANGED vars

Next ==
  \/ \E l \in Level, p \in Phase :
       \/ InlineDirective(l, p)
       \/ FileDirective(l, p)
       \/ BlockDirective(l, p)
       \/ CompileInline(l, p)
  \/ ParseEnds
  \/ MergeLocConf
  \/ PostConfiguration
  \/ Done

Spec == Init /\ [][Next]_vars

-----------------------------------------------------------------------------

TypeOK ==
  /\ handler \in [Level -> [Phase -> {"inline", "file", NULL}]]
  /\ code \in [Level -> [Phase -> Level \cup {NULL}]]
  /\ inline \in [Level -> [Phase -> Level \cup {NULL}]]
  /\ enabled \subseteq Phase
  /\ own \in [Level -> [Phase -> {"inline", "file", "logblock", "none"}]]
  /\ stage \in {"parse", "merge", "run", "failed"}
  /\ merged \in 0 .. Len(Order)
  /\ compiled \in [Level -> [Phase -> BOOLEAN]]
  /\ defined \in [Level -> [Phase -> 0 .. 1]]

\* The contexts that have inherited what they do not say.
Settled == {Root} \cup {Order[i] : i \in 1 .. merged}

(***************************************************************************)
(* A handler never runs without its script.  Once a context is merged, its *)
(* inline handler has inline code and its file handler a file, so that no  *)
(* routine dereferences NGX_CONF_UNSET_PTR.  (Before, the block of a log   *)
(* phase is an inline handler without inline code: the merge mends it.)    *)
(***************************************************************************)
HandlerHasCode ==
  \A l \in Settled, p \in Phase \cap Inheriting :
    /\ handler[l][p] = "inline" => inline[l][p] # NULL
    /\ handler[l][p] = "file" => code[l][p] # NULL

(***************************************************************************)
(* The innermost context around l, itself included, with a directive for p *)
(* that counts: the block of a log phase does not.                         *)
(***************************************************************************)
Innermost(p) ==
  LET innermost[l \in Level] ==
        IF own[l][p] \in {"inline", "file"} THEN l
        ELSE IF l = Root THEN NULL
        ELSE innermost[Parent[l]]
  IN  innermost

(***************************************************************************)
(* The innermost inline script is the one that runs: a context overrides   *)
(* what is around it and inherits what it does not say, as nginx's own     *)
(* directives do.  A log_by_php_block does not count: the inline script    *)
(* around it runs.                                                         *)
(***************************************************************************)
InnermostInlineRuns ==
  stage = "run" =>
    \A l \in Level, p \in Phase \cap Inheriting :
      LET m == Innermost(p)[l]
      IN  m # NULL /\ own[m][p] = "inline" =>
            handler[l][p] = "inline" /\ inline[l][p] = m

(***************************************************************************)
(* Merging a context does not change the scripts of the one around it,     *)
(* which others still inherit.                                             *)
(***************************************************************************)
MergeLeavesParent ==
  [][\A l \in Level, p \in Phase \cap Inheriting :
       merged' > merged /\ l # Order[merged'] =>
         handler'[l][p] = handler[l][p] /\ inline'[l][p] = inline[l][p]]_vars

(***************************************************************************)
(* The function of a script is defined once in a worker, also if several   *)
(* contexts inherit the script, and before any of them calls it.           *)
(***************************************************************************)
DefinedOnce ==
  \A l \in Level, p \in Phase :
    compiled[l][p] => inline[l][p] # NULL /\ defined[inline[l][p]][p] = 1

=============================================================================
