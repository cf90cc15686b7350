------------------------------- MODULE Fields --------------------------------
(***************************************************************************)
(* What a script is told of the fields of its request: ngx_query_args and  *)
(* ngx_post_args make an array of `a=1&b=2' (src/php/impl/php_ngx_core.c), *)
(* and ngx_cookie_get looks a cookie up in `a=1; b=2'                      *)
(* (src/php/impl/php_ngx_cookie.c).  All go over the text once, and cut    *)
(* out the name at each `=' and the value at each separator.               *)
(***************************************************************************)
EXTENDS Integers, Sequences, SequencesExt

CONSTANTS
  Letter,    (* the characters of names and values                         *)
  Lower,     (* the lower case of each of them                             *)
  Name,      (* names of fields, sequences of letters                      *)
  Value,     (* their values                                               *)
  MaxFields  (* bound: fields of a request                                 *)

Call == {"query_args", "post_args", "cookie_get"}

ASSUME FieldsAssumption ==
  /\ Letter \cap {"=", "&", ";", " "} = {}
  /\ Lower \in [Letter -> Letter]
  /\ Name \subseteq Seq(Letter) \ {<<>>}
  /\ Value \subseteq Seq(Letter)
  /\ MaxFields \in Nat

Field == [name : Name, value : Value]

VARIABLES
  call,      (* the function called                                        *)
  fields,    (* what the client sent, in order                             *)
  wanted,    (* the argument of ngx_cookie_get                             *)
  chain,     (* the buffers of the request's body                          *)
  text,      (* the text the function goes over                            *)
  buf,       (* the index of its next character, and ...                   *)
  p,         (* ... of the name or value that began last                   *)
  key,       (* query_key, post_key                                        *)
  flag,      (* parsing_value, or found                                    *)
  result,    (* the array: a function from names to values                 *)
  state      (* "called", "parsing" or "done"                              *)

inputVars == <<call, fields, wanted, chain>>
vars == <<inputVars, text, buf, p, key, flag, result, state>>

-----------------------------------------------------------------------------
(* What the client sends.                                                  *)

\* The fields with sep between them, as a URL, a form or a header has them.
Joined(fs, sep) ==
  FlattenSeq([k \in DOMAIN fs |->
    (IF k = 1 THEN <<>> ELSE sep) \o fs[k].name \o <<"=">> \o fs[k].value])

\* The body of a request comes in one buffer, or in two.
Chains(body) ==
  {<<body>>} \cup {<<SubSeq(body, 1, n), SubSeq(body, n + 1, Len(body))>> : n \in 1 .. Len(body)}

Init ==
  /\ call \in Call
  /\ fields \in UNION {[1 .. n -> Field] : n \in 0 .. MaxFields}
  /\ wanted \in IF call = "cookie_get" THEN Name ELSE {<<>>}
  /\ chain \in IF call = "post_args" THEN Chains(Joined(fields, <<"&">>)) ELSE {<<>>}
  /\ text = <<>>
  /\ buf = 1 /\ p = 1
  /\ key = <<>>
  /\ flag = FALSE
  /\ result = <<>>
  /\ state = "called"

-----------------------------------------------------------------------------

More == state = "parsing" /\ buf <= Len(text)

\* From the beginning of the name or value to the character before buf.
Token == SubSeq(text, p, buf - 1)

Starts(t) ==
  /\ text' = t
  /\ state' = "parsing"
  /\ UNCHANGED <<inputVars, buf, p, key, flag, result>>

QueryArgs ==
  /\ state = "called"
  /\ call = "query_args"
  /\ Starts(Joined(fields, <<"&">>))

\* Mutant of PostArgs: only the first buffer is copied.
PostArgsFirst ==
  /\ state = "called"
  /\ call = "post_args"
  /\ Starts(chain[1])

\* The buffers of the body are copied into one.
PostArgs ==
  /\ state = "called"
  /\ call = "post_args"
  /\ Starts(FlattenSeq(chain))

CookieGet ==
  /\ state = "called"
  /\ call = "cookie_get"
  /\ \E sep \in {<<";">>, <<";", " ">>} : Starts(Joined(fields, sep))

-----------------------------------------------------------------------------
(* ngx_query_args, ngx_post_args.                                          *)

Args == call \in {"query_args", "post_args"}

\* The last step of the loop: the character at i is skipped, but no `&'.
SkipUnless(stop, i) ==
  buf' = IF i <= Len(text) /\ text[i] # stop THEN i + 1 ELSE i

Stored == [name \in {key} \cup DOMAIN result |-> IF name = key THEN Token ELSE result[name]]

ArgsName ==
  /\ Args /\ More
  /\ text[buf] = "="
  /\ key' = Token
  /\ p' = buf + 1
  /\ flag' = TRUE
  /\ SkipUnless("&", buf + 1)
  /\ UNCHANGED <<inputVars, text, result, state>>

\* Mutant of ArgsValue: the next name begins where the value did.
ArgsValueKeeping ==
  /\ Args /\ More
  /\ text[buf] = "&"
  /\ result' = Stored
  /\ flag' = FALSE
  /\ SkipUnless("&", buf + 1)
  /\ UNCHANGED <<inputVars, text, p, key, state>>

ArgsValue ==
  /\ Args /\ More
  /\ text[buf] = "&"
  /\ result' = Stored
  /\ p' = buf + 1
  /\ flag' = FALSE
  /\ SkipUnless("&", buf + 1)
  /\ UNCHANGED <<inputVars, text, key, state>>

ArgsOther ==
  /\ Args /\ More
  /\ text[buf] \notin {"=", "&"}
  /\ buf' = buf + 1
  /\ UNCHANGED <<inputVars, text, p, key, flag, result, state>>

\* The last value has no separator behind it.
ArgsEnd ==
  /\ Args /\ state = "parsing" /\ ~More
  /\ result' = IF flag THEN Stored ELSE result
  /\ state' = "done"
  /\ UNCHANGED <<inputVars, text, buf, p, key, flag>>

-----------------------------------------------------------------------------
(* ngx_cookie_get: its result is the value of one field, filed here under  *)
(* the name that was asked for.                                            *)

Cookie == call = "cookie_get"

\* ngx_tolower.
Folded(ch) == IF ch \in Letter THEN Lower[ch] ELSE ch

\* ngx_strncasecmp, as far as the name that was asked for goes.
BeginsLike(name) ==
  /\ Len(wanted) <= Len(name)
  /\ \A i \in 1 .. Len(wanted) : Folded(wanted[i]) = Folded(name[i])

SameName == BeginsLike(Token)

\* The value after `=' may be empty: a `;' is not skipped.
CookieName ==
  /\ Cookie /\ More
  /\ text[buf] = "="
  /\ key' = Token
  /\ flag' = (flag \/ SameName)
  /\ p' = buf + 1
  /\ SkipUnless(";", buf + 1)
  /\ UNCHANGED <<inputVars, text, result, state>>

Found == result' = [name \in {wanted} |-> Token] /\ state' = "done"

CookieFound ==
  /\ Cookie /\ More
  /\ text[buf] = ";"
  /\ flag
  /\ Found
  /\ UNCHANGED <<inputVars, text, buf, p, key, flag>>

\* Mutant of CookieNext: the blank after the separator is not skipped.
CookieNextBlank ==
  /\ Cookie /\ More
  /\ text[buf] = ";"
  /\ ~flag
  /\ p' = buf + 1
  /\ buf' = IF buf + 1 <= Len(text) THEN buf + 2 ELSE buf + 1
  /\ UNCHANGED <<inputVars, text, key, flag, result, state>>

\* The next name begins after the blank, and its first character is skipped.
CookieNext ==
  /\ Cookie /\ More
  /\ text[buf] = ";"
  /\ ~flag
  /\ LET blank == buf + 1 <= Len(text) /\ text[buf + 1] = " "
         i == IF blank THEN buf + 2 ELSE buf + 1
     IN  /\ p' = i
         /\ buf' = IF i <= Len(text) THEN i + 1 ELSE i
  /\ UNCHANGED <<inputVars, text, key, flag, result, state>>

CookieOther ==
  /\ Cookie /\ More
  /\ text[buf] \notin {"=", ";"}
  /\ buf' = buf + 1
  /\ UNCHANGED <<inputVars, text, p, key, flag, result, state>>

CookieEnd ==
  /\ Cookie /\ state = "parsing" /\ ~More
  /\ IF flag THEN Found ELSE state' = "done" /\ UNCHANGED result
  /\ UNCHANGED <<inputVars, text, buf, p, key, flag>>

-----------------------------------------------------------------------------

Done == state = "done" /\ UNCHANGED vars

Next ==
  \/ QueryArgs \/ PostArgs \/ CookieGet
  \/ ArgsName \/ ArgsValue \/ ArgsOther \/ ArgsEnd
  \/ CookieName \/ CookieFound \/ CookieNext \/ CookieOther \/ CookieEnd
  \/ Done

Spec == Init /\ [][Next]_vars

-----------------------------------------------------------------------------

LastNamed(name) == CHOOSE k \in DOMAIN fields :
  fields[k].name = name /\ \A j \in DOMAIN fields : fields[j].name = name => j <= k

(***************************************************************************)
(* A script gets the fields the client sent: each name once, with the      *)
(* value it was last given, however the body was cut into buffers.         *)
(***************************************************************************)
ArgsAreFields ==
  Args /\ state = "done" =>
    result = [name \in {fields[k].name : k \in DOMAIN fields} |->
                fields[LastNamed(name)].value]

Named == {k \in DOMAIN fields : fields[k].name = wanted}

\* Other cookies, whose names begin like the one that is wanted, or are
\* like it but for their case.
Alike == {k \in DOMAIN fields : fields[k].name # wanted /\ BeginsLike(fields[k].name)}

(***************************************************************************)
(* ngx_cookie_get returns the first cookie of that name and nothing if     *)
(* there is none, unless it meets one before whose name begins like it, in *)
(* capitals or not: that one it takes for it.                              *)
(***************************************************************************)
CookieIsField ==
  Cookie /\ state = "done" /\ (\A j \in Alike : \E k \in Named : k < j) =>
    IF Named = {} THEN result = <<>>
    ELSE \E k \in Named : /\ \A j \in Named : k <= j
                         /\ result = [name \in {wanted} |-> fields[k].value]

=============================================================================
