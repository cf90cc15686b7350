----------------------------- MODULE BlockParser -----------------------------
(***************************************************************************)
(* How the script of a ..._by_php_block directive is read from nginx.conf  *)
(* (src/ngx_php_conf_file.c): character by character up to the brace that  *)
(* closes the block, through a buffer that nginx's own reader has filled   *)
(* and partly read, and that is moved and refilled when it is exhausted.   *)
(***************************************************************************)
EXTENDS Integers, Sequences, FiniteSets

CONSTANTS
  Files,  (* configuration files: sequences of characters                   *)
  Buffer  (* NGX_CONF_BUFFER                                                *)

\* Only braces matter.
Char == {"{", "}", "x"}

ASSUME BlockParserAssumption ==
  /\ Files \subseteq Seq(Char)
  /\ Buffer \in Nat \ {0}

VARIABLES
  file,    (* the file                                                      *)
  mem,     (* the buffer: [0 .. Buffer - 1 -> Char]                         *)
  pos,     (* b->pos, the next character, ...                               *)
  last,    (* ... b->last, the end of what was read, ...                    *)
  start,   (* ... and the beginning of the block, as indices of the buffer  *)
  offset,  (* file.offset: what was read of the file                        *)
  deep,    (* the braces open inside the block                              *)
  rc,      (* "reading", or what ngx_php_conf_read_token returns: "block",  *)
           (* "eof" or "error"                                              *)
  code,    (* the script                                                    *)
  first    (* history: where the block begins in the file                   *)

vars == <<file, mem, pos, last, start, offset, deep, rc, code, first>>

\* The characters of the file up to the next one to be read.
Position == offset - last + pos

\* What the buffer holds after the last n characters before offset were read.
Holds(m, n, o) == \A i \in 0 .. n - 1 : m[i] = file[o - n + i + 1]

(***************************************************************************)
(* nginx has read up to the block's opening brace, and as much of the file *)
(* as the buffer holds.                                                    *)
(***************************************************************************)
Init ==
  /\ file \in Files
  /\ offset \in 0 .. Len(file)
  /\ last \in 0 .. Buffer
  /\ last <= offset
  /\ last = Buffer \/ offset = Len(file)
  /\ mem \in [0 .. Buffer - 1 -> Char]
  /\ Holds(mem, last, offset)
  /\ \A i \in last .. Buffer - 1 : mem[i] = "x"
  /\ pos \in 1 .. last
  /\ mem[pos - 1] = "{"
  /\ start = pos
  /\ first = Position
  /\ deep = 0
  /\ rc = "reading"
  /\ code = <<>>

-----------------------------------------------------------------------------
(* ngx_php_conf_read_token.                                                *)

Exhausted == rc = "reading" /\ pos >= last

\* NGX_CONF_FILE_DONE.
FileDone ==
  /\ Exhausted
  /\ offset >= Len(file)
  /\ rc' = "eof"
  /\ UNCHANGED <<file, mem, pos, last, start, offset, deep, code, first>>

\* Mutant of TooLong: one character too early.
TooLongEarly ==
  /\ Exhausted
  /\ offset < Len(file)
  /\ pos - start >= Buffer - 1
  /\ rc' = "error"
  /\ UNCHANGED <<file, mem, pos, last, start, offset, deep, code, first>>

\* "too long parameter": the block fills the buffer.
TooLong ==
  /\ Exhausted
  /\ offset < Len(file)
  /\ pos - start = Buffer
  /\ rc' = "error"
  /\ UNCHANGED <<file, mem, pos, last, start, offset, deep, code, first>>

Smaller(a, b) == IF a < b THEN a ELSE b

\* Mutant of Moved: the block read so far is not moved.
MovedNothing(len, size) ==
  [i \in 0 .. Buffer - 1 |->
     IF i \in len .. len + size - 1 THEN file[offset + i - len + 1] ELSE mem[i]]

\* The block read so far, and size characters more.
Moved(len, size) ==
  [i \in 0 .. Buffer - 1 |->
     IF i < len THEN mem[start + i]
     ELSE IF i < len + size THEN file[offset + i - len + 1]
     ELSE mem[i]]

\* The buffer is moved to begin with the block and filled from the file.
Refill ==
  LET len == pos - start
      size == Smaller(Len(file) - offset, Buffer - len)
  IN  /\ Exhausted
      /\ offset < Len(file)
      /\ len # Buffer
      /\ mem' = Moved(len, size)
      /\ pos' = len
      /\ last' = len + size
      /\ start' = 0
      /\ offset' = offset + size
      /\ UNCHANGED <<file, deep, rc, code, first>>

Reads(ch) ==
  /\ rc = "reading"
  /\ pos < last
  /\ mem[pos] = ch
  /\ pos' = pos + 1
  /\ UNCHANGED <<file, mem, last, start, offset, first>>

Other == Reads("x") /\ UNCHANGED <<deep, rc, code>>

Open == Reads("{") /\ deep' = deep + 1 /\ UNCHANGED <<rc, code>>

CloseInner ==
  /\ Reads("}")
  /\ deep > 0
  /\ deep' = deep - 1
  /\ UNCHANGED <<rc, code>>

\* Mutant of Text: with the closing brace.
TextWithBrace == [i \in 1 .. pos - start + 1 |-> mem[start + i - 1]]

\* ngx_cpystrn: the block, without the brace at pos.
Text == [i \in 1 .. pos - start |-> mem[start + i - 1]]

\* NGX_CONF_BLOCK_DONE.
BlockDone ==
  /\ Reads("}")
  /\ deep = 0
  /\ code' = Text
  /\ rc' = "block"
  /\ UNCHANGED deep

Done == rc # "reading" /\ UNCHANGED vars

Next ==
  \/ FileDone
  \/ TooLong
  \/ Refill
  \/ Other
  \/ Open
  \/ CloseInner
  \/ BlockDone
  \/ Done

Spec == Init /\ [][Next]_vars

-----------------------------------------------------------------------------

TypeOK ==
  /\ file \in Files
  /\ mem \in [0 .. Buffer - 1 -> Char]
  /\ last \in 0 .. Buffer
  /\ pos \in 0 .. last
  /\ start \in 0 .. pos
  /\ offset \in 0 .. Len(file)
  /\ deep \in Nat
  /\ rc \in {"reading", "block", "eof", "error"}
  /\ code \in Seq(Char)
  /\ first \in 0 .. Len(file)

(***************************************************************************)
(* The buffer is a window on the file, from the block's beginning to what  *)
(* was read of it, whatever was moved: so nginx, too, goes on reading at   *)
(* the right character when the block is done.                             *)
(***************************************************************************)
WindowTrue ==
  /\ offset - last + start = first
  /\ \A i \in start .. last - 1 : mem[i] = file[offset - last + i + 1]

\* How often ch occurs in the block up to the character n of the file.
Count(ch, n) == Cardinality({i \in first + 1 .. n : file[i] = ch})

\* The braces of the block that are open there.
Depth(n) == Count("{", n) - Count("}", n)

Balanced(n) == \A j \in first .. n : Depth(j) >= 0

\* The character n of the file is the brace that closes the block.
Closes(n) ==
  /\ n \in first + 1 .. Len(file)
  /\ Balanced(n - 1)
  /\ Depth(n) < 0

(***************************************************************************)
(* A block that is read ends at its closing brace, and the script is what  *)
(* the file has before it, wherever the buffer ended meanwhile.            *)
(***************************************************************************)
BlockRead ==
  rc = "block" =>
    /\ Closes(Position)
    /\ code = SubSeq(file, first + 1, Position - 1)

(***************************************************************************)
(* No block is refused that is closed and fits into the buffer, however    *)
(* little room nginx had left of it.                                       *)
(***************************************************************************)
BlockRefused ==
  rc \in {"eof", "error"} => ~\E n \in 1 .. Len(file) : Closes(n) /\ n - first <= Buffer

=============================================================================
