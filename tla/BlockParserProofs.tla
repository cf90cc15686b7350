-------------------------- MODULE BlockParserProofs --------------------------
(***************************************************************************)
(* Proofs about BlockParser, for any files and any size of the buffer.     *)
(***************************************************************************)
EXTENDS BlockParser, FiniteSetTheorems, TLAPS

\* The parser has counted the braces, and none of them closed the block.
BracesCounted ==
  /\ deep = Depth(Position)
  /\ Balanced(Position)

(***************************************************************************)
(* The inductive invariant: what is counted while the block is read        *)
(* decides what is returned when its end is met.                           *)
(***************************************************************************)
IInv ==
  /\ TypeOK
  /\ WindowTrue
  /\ rc = "reading" => BracesCounted
  /\ BlockRead
  /\ BlockRefused

-----------------------------------------------------------------------------
(* Counting.                                                               *)

LEMMA CountType ==
  ASSUME NEW ch, NEW n \in Int, first \in Nat
  PROVE  /\ IsFiniteSet({i \in first + 1 .. n : file[i] = ch})
         /\ Count(ch, n) \in Nat
<1>1. IsFiniteSet(first + 1 .. n)
  BY FS_Interval
<1>2. IsFiniteSet({i \in first + 1 .. n : file[i] = ch})
  BY <1>1, FS_Subset
<1> QED  BY <1>2, FS_CardinalityType DEF Count

\* At its beginning the block has no braces.
LEMMA CountNone ==
  ASSUME NEW ch, first \in Nat
  PROVE  Count(ch, first) = 0
<1>1. {i \in first + 1 .. first : file[i] = ch} = {}
  OBVIOUS
<1> QED  BY <1>1, FS_EmptySet DEF Count

\* A character more counts if it is the one that is counted.
LEMMA CountStep ==
  ASSUME NEW ch, NEW n \in Nat, first \in Nat, first <= n
  PROVE  /\ file[n + 1] = ch => Count(ch, n + 1) = Count(ch, n) + 1
         /\ file[n + 1] # ch => Count(ch, n + 1) = Count(ch, n)
<1> DEFINE S(k) == {i \in first + 1 .. k : file[i] = ch}
<1>0. \A k : Count(ch, k) = Cardinality(S(k))
  BY DEF Count
<1>1. IsFiniteSet(S(n)) /\ Cardinality(S(n)) \in Nat
  <2>1. n \in Int
    OBVIOUS
  <2>2. IsFiniteSet(S(n))
    BY <2>1, CountType
  <2> QED  BY <2>2, FS_CardinalityType
<1>2. n + 1 \notin S(n)
  OBVIOUS
<1>3. CASE file[n + 1] = ch
  <2>1. S(n + 1) = S(n) \cup {n + 1}
    BY <1>3
  <2>2. Cardinality(S(n) \cup {n + 1}) = Cardinality(S(n)) + 1
    BY <1>1, <1>2, FS_AddElement
  <2> HIDE DEF S
  <2> QED  BY <1>0, <1>1, <1>3, <2>1, <2>2
<1>4. CASE file[n + 1] # ch
  <2>1. S(n + 1) = S(n)
    BY <1>4
  <2> HIDE DEF S
  <2> QED  BY <1>0, <1>1, <1>4, <2>1
<1> QED  BY <1>3, <1>4

LEMMA DepthFirst ==
  ASSUME first \in Nat
  PROVE  Depth(first) = 0
<1> DEFINE o == Count("{", first)
           c == Count("}", first)
<1>1. o = 0 /\ c = 0
  BY CountNone
<1>2. Depth(first) = o - c
  BY DEF Depth
<1> HIDE DEF o, c
<1> QED  BY <1>1, <1>2

LEMMA DepthType ==
  ASSUME NEW n \in Int, first \in Nat
  PROVE  Depth(n) \in Int
<1> DEFINE o == Count("{", n)
           c == Count("}", n)
<1>1. o \in Nat /\ c \in Nat
  BY CountType
<1>2. Depth(n) = o - c
  BY DEF Depth
<1> HIDE DEF o, c
<1> QED  BY <1>1, <1>2

LEMMA DepthStep ==
  ASSUME NEW n \in Nat, first \in Nat, first <= n
  PROVE  /\ file[n + 1] = "{" => Depth(n + 1) = Depth(n) + 1
         /\ file[n + 1] = "}" => Depth(n + 1) = Depth(n) - 1
         /\ file[n + 1] = "x" => Depth(n + 1) = Depth(n)
<1> DEFINE o == Count("{", n)
           c == Count("}", n)
           o1 == Count("{", n + 1)
           c1 == Count("}", n + 1)
<1>1. o \in Nat /\ c \in Nat
  <2>1. n \in Int
    OBVIOUS
  <2> QED  BY <2>1, CountType
<1>2. /\ file[n + 1] = "{" => o1 = o + 1
      /\ file[n + 1] # "{" => o1 = o
  BY CountStep
<1>3. /\ file[n + 1] = "}" => c1 = c + 1
      /\ file[n + 1] # "}" => c1 = c
  BY CountStep
<1>4. Depth(n) = o - c /\ Depth(n + 1) = o1 - c1
  BY DEF Depth
<1> HIDE DEF o, c, o1, c1
<1>5. ASSUME file[n + 1] = "{" PROVE Depth(n + 1) = Depth(n) + 1
  <2>1. o1 = o + 1 /\ c1 = c
    BY <1>2, <1>3, <1>5, Zenon
  <2> QED  BY <1>1, <1>4, <2>1
<1>6. ASSUME file[n + 1] = "}" PROVE Depth(n + 1) = Depth(n) - 1
  <2>1. o1 = o /\ c1 = c + 1
    BY <1>2, <1>3, <1>6, Zenon
  <2> QED  BY <1>1, <1>4, <2>1
<1>7. ASSUME file[n + 1] = "x" PROVE Depth(n + 1) = Depth(n)
  <2>1. o1 = o /\ c1 = c
    BY <1>2, <1>3, <1>7, Zenon
  <2> QED  BY <1>1, <1>4, <2>1
<1> QED  BY <1>5, <1>6, <1>7, Zenon

\* What is counted is the file, from the place where the block begins.
LEMMA DepthSame ==
  ASSUME UNCHANGED <<file, first>>
  PROVE  \A n : Depth(n)' = Depth(n)
BY DEF Depth, Count

LEMMA BalancedSame ==
  ASSUME UNCHANGED <<file, first>>
  PROVE  \A n : Balanced(n)' <=> Balanced(n)
BY DepthSame DEF Balanced

\* So is the brace that closes it.
LEMMA ClosesSame ==
  ASSUME UNCHANGED <<file, first>>
  PROVE  \A n : Closes(n)' <=> Closes(n)
BY DepthSame, BalancedSame DEF Closes

-----------------------------------------------------------------------------
(* The window.                                                             *)

\* The types, as the provers need them.
LEMMA Numbers ==
  ASSUME TypeOK
  PROVE  /\ file \in Seq(Char) /\ Len(file) \in Nat
         /\ Buffer \in Nat /\ Buffer > 0
         /\ last \in Nat /\ last <= Buffer
         /\ pos \in Nat /\ pos <= last
         /\ start \in Nat /\ start <= pos
         /\ offset \in Nat /\ offset <= Len(file)
         /\ first \in Nat /\ first <= Len(file)
         /\ deep \in Nat
<1>1. file \in Seq(Char) /\ Len(file) \in Nat /\ Buffer \in Nat /\ Buffer > 0
  BY BlockParserAssumption DEF TypeOK
<1>2. last \in Nat /\ last <= Buffer /\ pos \in Nat /\ pos <= last
  BY <1>1 DEF TypeOK
<1> QED  BY <1>1, <1>2 DEF TypeOK

\* Where the parser is in the file, and in the block.
LEMMA PositionOf ==
  ASSUME TypeOK, WindowTrue
  PROVE  /\ Position \in first .. Len(file)
         /\ Position - first = pos - start
         /\ pos = last => Position = offset
         /\ pos < last => Position + 1 <= Len(file) /\ mem[pos] = file[Position + 1]
<1>1. offset - last + start = first
  BY DEF WindowTrue
<1>2. pos < last => mem[pos] = file[offset - last + pos + 1]
  <2> SUFFICES ASSUME pos < last PROVE mem[pos] = file[offset - last + pos + 1]
    OBVIOUS
  <2>1. pos \in start .. last - 1
    BY Numbers
  <2> QED  BY <2>1 DEF WindowTrue
<1> QED  BY <1>1, <1>2, Numbers DEF Position

\* The brace that closes the block is still ahead.
LEMMA ClosesAhead ==
  ASSUME BracesCounted, Position \in Nat, first \in Nat, Len(file) \in Nat,
         NEW n \in Int, Closes(n)
  PROVE  n > Position
<1> SUFFICES ASSUME n <= Position PROVE FALSE
  OBVIOUS
<1>1. n \in first .. Position
  BY DEF Closes
<1>2. Depth(n) >= 0
  BY <1>1 DEF BracesCounted, Balanced
<1>3. Depth(n) < 0
  BY DEF Closes
<1>4. Depth(n) \in Int
  BY DepthType
<1> QED  BY <1>2, <1>3, <1>4

\* What is known of a state in which the parser still reads.
LEMMA Reading ==
  ASSUME IInv, rc = "reading"
  PROVE  /\ TypeOK
         /\ WindowTrue
         /\ BracesCounted
         /\ deep \in Nat
         /\ Position \in Nat
         /\ first \in Nat
         /\ first <= Position
<1>1. TypeOK /\ WindowTrue /\ BracesCounted
  BY DEF IInv
<1> QED  BY <1>1, Numbers, PositionOf

-----------------------------------------------------------------------------
(* The steps.                                                              *)

LEMMA InitIInv == Init => IInv
<1> SUFFICES ASSUME Init PROVE IInv
  OBVIOUS
<1>0. file \in Files
  BY DEF Init
<1>1. file \in Seq(Char) /\ Len(file) \in Nat /\ Buffer \in Nat
  BY <1>0, BlockParserAssumption
<1>2. TypeOK
  <2>1. last \in 0 .. Buffer /\ offset \in 0 .. Len(file)
    BY DEF Init
  <2>2. pos \in 1 .. last /\ first = offset - last + pos /\ last <= offset
    BY DEF Init, Position
  <2>3. first \in 0 .. Len(file) /\ pos \in 0 .. last /\ start \in 0 .. pos
    <3>1. last \in Nat /\ offset \in Nat /\ pos \in Nat /\ pos >= 1
      BY <1>1, <2>1, <2>2
    <3>2. start = pos
      BY DEF Init
    <3> QED  BY <1>1, <2>1, <2>2, <3>1, <3>2
  <2>4. code \in Seq(Char) /\ deep \in Nat
    <3>1. code = <<>> /\ deep = 0
      BY DEF Init
    <3> QED  BY <3>1
  <2> QED  BY <1>1, <2>1, <2>3, <2>4 DEF Init, TypeOK
<1>3. WindowTrue
  <2>1. offset - last + start = first
    BY <1>2, Numbers DEF Init, Position
  <2>2. \A i \in 0 .. last - 1 : mem[i] = file[offset - last + i + 1]
    BY DEF Init, Holds
  <2>3. start .. last - 1 \subseteq 0 .. last - 1
    BY <1>2, Numbers
  <2> QED  BY <2>1, <2>2, <2>3 DEF WindowTrue
<1>4. BracesCounted
  <2>1. first \in Nat /\ Position = first /\ deep = 0
    BY <1>2, Numbers DEF Init
  <2>2. Depth(first) = 0
    BY <2>1, DepthFirst
  <2>3. \A j \in first .. first : j = first
    BY <2>1
  <2> QED  BY <2>1, <2>2, <2>3 DEF BracesCounted, Balanced
<1> QED  BY <1>2, <1>3, <1>4 DEF IInv, BlockRead, BlockRefused, Init

\* The end of the file refuses no block that the file closes.
LEMMA FileDoneStep ==
  ASSUME IInv, FileDone
  PROVE  IInv'
<1>1. rc = "reading" /\ pos >= last /\ offset >= Len(file)
  BY DEF FileDone, Exhausted
<1>2. /\ TypeOK /\ WindowTrue /\ BracesCounted
      /\ Position \in Nat /\ first \in Nat /\ Position = offset
  <2>1. TypeOK /\ WindowTrue /\ BracesCounted
    BY <1>1, Reading
  <2>2. pos = last
    BY <1>1, <2>1, Numbers
  <2> QED  BY <1>1, <2>1, <2>2, Reading, PositionOf
<1>3. TypeOK' /\ WindowTrue'
  BY <1>2 DEF FileDone, TypeOK, WindowTrue
<1>4. ~ \E n \in 1 .. Len(file) : Closes(n)
  <2> SUFFICES ASSUME NEW n \in 1 .. Len(file), Closes(n) PROVE FALSE
    OBVIOUS
  <2>1. n > Position
    BY <1>2, ClosesAhead, Numbers
  <2> QED  BY <1>1, <1>2, <2>1, Numbers
<1>5. BlockRefused'
  BY <1>4, ClosesSame DEF BlockRefused, FileDone
<1> QED  BY <1>3, <1>5 DEF IInv, BlockRead, FileDone

\* Nor does the end of the buffer, if the block would fit into it.
LEMMA TooLongStep ==
  ASSUME IInv, TooLong
  PROVE  IInv'
<1>1. rc = "reading" /\ pos >= last /\ pos - start = Buffer
  BY DEF TooLong, Exhausted
<1>2. /\ TypeOK /\ WindowTrue /\ BracesCounted
      /\ Position \in Nat /\ first \in Nat /\ Position - first = Buffer
  BY <1>1, Reading, PositionOf
<1>3. TypeOK' /\ WindowTrue'
  BY <1>2 DEF TooLong, TypeOK, WindowTrue
<1>4. ~ \E n \in 1 .. Len(file) : Closes(n) /\ n - first <= Buffer
  <2> SUFFICES ASSUME NEW n \in 1 .. Len(file), Closes(n), n - first <= Buffer
               PROVE  FALSE
    OBVIOUS
  <2>1. n > Position
    BY <1>2, ClosesAhead, Numbers
  <2> QED  BY <1>2, <2>1, Numbers
<1>5. BlockRefused'
  BY <1>4, ClosesSame DEF BlockRefused, TooLong
<1> QED  BY <1>3, <1>5 DEF IInv, BlockRead, TooLong

\* A refill moves the window and leaves the parser where it is in the file.
LEMMA RefillStep ==
  ASSUME IInv, Refill
  PROVE  IInv'
<1> DEFINE len == pos - start
           size == Smaller(Len(file) - offset, Buffer - len)
<1>1. /\ rc = "reading" /\ pos >= last /\ offset < Len(file) /\ len # Buffer
      /\ mem' = Moved(len, size) /\ pos' = len /\ last' = len + size
      /\ start' = 0 /\ offset' = offset + size
      /\ UNCHANGED <<file, deep, rc, code, first>>
  BY DEF Refill, Exhausted
<1>2. TypeOK /\ WindowTrue /\ BracesCounted
  BY <1>1, Reading
<1>3. /\ len \in Nat /\ size \in Nat /\ len + size <= Buffer
      /\ offset + size <= Len(file) /\ pos = last
      /\ offset - len = offset - last + start
      /\ offset - len = first
  <2>1. pos = last /\ len \in Nat /\ len <= Buffer /\ len # Buffer
    BY <1>1, <1>2, Numbers
  <2>2. Len(file) - offset \in Nat /\ Buffer - len \in Nat
    BY <1>1, <1>2, <2>1, Numbers
  <2>3. /\ size \in Nat
        /\ size <= Len(file) - offset
        /\ size <= Buffer - len
    BY <2>2 DEF Smaller
  <2>4. offset - last + start = first
    BY <1>2 DEF WindowTrue
  <2> HIDE DEF size
  <2> QED  BY <1>2, <2>1, <2>2, <2>3, <2>4, Numbers
<1>3a. /\ start \in Nat /\ pos \in Nat /\ pos <= Buffer /\ offset \in Nat
       /\ Len(file) \in Nat /\ Buffer \in Nat
  BY <1>2, Numbers
<1> HIDE DEF len, size
<1>4. TypeOK'
  <2>1. Moved(len, size) \in [0 .. Buffer - 1 -> Char]
    <3> SUFFICES ASSUME NEW i \in 0 .. Buffer - 1
                 PROVE  Moved(len, size)[i] \in Char
      BY DEF Moved
    <3>1. CASE i < len
      <4>1. start + i \in 0 .. Buffer - 1
        <5>1. i \in Nat /\ i < pos - start
          BY <1>3, <3>1 DEF len
        <5> QED  BY <1>3a, <5>1
      <4> QED  BY <1>2, <3>1, <4>1 DEF Moved, TypeOK
    <3>2. CASE ~(i < len) /\ i < len + size
      <4>1. offset + i - len + 1 \in 1 .. Len(file)
        <5>1. i \in Nat
          OBVIOUS
        <5> QED  BY <1>3, <1>3a, <3>2, <5>1
      <4> QED  BY <1>2, <3>2, <4>1, Numbers DEF Moved
    <3>3. CASE ~(i < len) /\ ~(i < len + size)
      BY <1>2, <3>3 DEF Moved, TypeOK
    <3> QED  BY <3>1, <3>2, <3>3
  <2>2. len + size \in 0 .. Buffer /\ len \in 0 .. len + size /\ 0 \in 0 .. len
    BY <1>2, <1>3, Numbers
  <2>3. offset + size \in 0 .. Len(file)
    BY <1>2, <1>3, Numbers
  <2> QED  BY <1>1, <1>2, <2>1, <2>2, <2>3 DEF TypeOK
<1>5. WindowTrue'
  <2>1. (offset + size) - (len + size) + 0 = first
    BY <1>2, <1>3, Numbers
  <2>2. ASSUME NEW i \in 0 .. len + size - 1
        PROVE  Moved(len, size)[i] = file[(offset + size) - (len + size) + i + 1]
    <3>1. i \in 0 .. Buffer - 1 /\ (offset + size) - (len + size) + i + 1 = first + i + 1
      BY <1>2, <1>3, <2>1, Numbers
    <3>2. CASE i < len
      <4>1. start + i \in start .. last - 1
        <5>1. i \in Nat /\ i < pos - start
          BY <1>3, <3>2 DEF len
        <5> QED  BY <1>2, <1>3, <5>1, Numbers
      <4>2. mem[start + i] = file[offset - last + (start + i) + 1]
        BY <1>2, <4>1 DEF WindowTrue
      <4>3. offset - last + (start + i) + 1 = first + i + 1
        BY <1>2, <1>3, Numbers
      <4> QED  BY <3>1, <3>2, <4>2, <4>3 DEF Moved
    <3>3. CASE ~(i < len)
      <4>1. offset + i - len + 1 = first + i + 1 /\ i < len + size
        BY <1>2, <1>3, Numbers
      <4> QED  BY <3>1, <3>3, <4>1 DEF Moved
    <3> QED  BY <3>2, <3>3
  <2>3. offset' - last' + start' = first'
    BY <1>1, <2>1
  <2>4. ASSUME NEW i \in start' .. last' - 1
        PROVE  mem'[i] = file'[offset' - last' + i + 1]
    <3>1. i \in 0 .. len + size - 1
      <4>1. start' = 0 /\ last' = len + size
        BY <1>1, Zenon
      <4> QED  BY <1>3, <4>1
    <3>2. Moved(len, size)[i] = file[(offset + size) - (len + size) + i + 1]
      BY <2>2, <3>1
    <3>3. mem'[i] = Moved(len, size)[i] /\ file' = file
      BY <1>1, Zenon
    <3>4. offset' - last' + i + 1 = (offset + size) - (len + size) + i + 1
      BY <1>1
    <3> QED  BY <3>2, <3>3, <3>4, Zenon
  <2> QED  BY <2>3, <2>4 DEF WindowTrue
<1>6. Position' = Position
  BY <1>1, <1>2, <1>3, Numbers DEF Position
<1>7. BracesCounted'
  BY <1>1, <1>2, <1>6, DepthSame, BalancedSame DEF BracesCounted
<1> QED  BY <1>1, <1>4, <1>5, <1>7 DEF IInv, BlockRead, BlockRefused

\* What a step that reads a character does to the parser's place.
LEMMA ReadsStep ==
  ASSUME IInv, rc = "reading", NEW ch \in Char, Reads(ch)
  PROVE  /\ TypeOK /\ WindowTrue /\ BracesCounted /\ WindowTrue'
         /\ Position \in Nat /\ first \in Nat /\ first <= Position
         /\ Position' = Position + 1 /\ Position + 1 <= Len(file)
         /\ file[Position + 1] = ch
         /\ pos' \in 0 .. last /\ start \in 0 .. pos'
<1>1. /\ pos < last /\ mem[pos] = ch /\ pos' = pos + 1
      /\ UNCHANGED <<file, mem, last, start, offset, first>>
  BY DEF Reads
<1>2. /\ TypeOK /\ WindowTrue /\ BracesCounted
      /\ Position \in Nat /\ first \in Nat /\ first <= Position
  BY Reading
<1>3. Position + 1 <= Len(file) /\ file[Position + 1] = ch
  BY <1>1, <1>2, PositionOf
<1>4. Position' = Position + 1 /\ pos' \in 0 .. last /\ start \in 0 .. pos'
  BY <1>1, <1>2, Numbers DEF Position
<1>5. WindowTrue'
  BY <1>1, <1>2 DEF WindowTrue
<1> QED  BY <1>2, <1>3, <1>4, <1>5

\* A character that does not close the block is counted.
LEMMA CharacterStep ==
  ASSUME IInv, Other \/ Open \/ CloseInner
  PROVE  IInv'
<1>1. /\ rc = "reading" /\ rc' = "reading" /\ code' = code
      /\ UNCHANGED <<file, mem, last, start, offset, first>>
  BY DEF Other, Open, CloseInner, Reads
<1>2. PICK ch \in Char :
        /\ Reads(ch)
        /\ deep' \in Nat
        /\ ch = "x" => deep' = deep
        /\ ch = "{" => deep' = deep + 1
        /\ ch = "}" => deep' = deep - 1
  <2>1. deep \in Nat
    BY <1>1, Reading
  <2>2. CASE Other
    <3>1. Reads("x") /\ "x" \in Char
      BY <2>2 DEF Other, Char
    <3>2. deep' = deep
      BY <2>2 DEF Other
    <3>3. deep' \in Nat
      BY <2>1, <3>2
    <3> QED  BY <3>1, <3>2, <3>3, Zenon
  <2>3. CASE Open
    <3>1. Reads("{") /\ "{" \in Char
      BY <2>3 DEF Open, Char
    <3>2. deep' = deep + 1
      BY <2>3 DEF Open
    <3>3. deep' \in Nat
      BY <2>1, <3>2
    <3> QED  BY <3>1, <3>2, <3>3, Zenon
  <2>4. CASE CloseInner
    <3>1. Reads("}") /\ "}" \in Char
      BY <2>4 DEF CloseInner, Char
    <3>2. deep' = deep - 1 /\ deep > 0
      BY <2>4 DEF CloseInner
    <3>3. deep' \in Nat
      BY <2>1, <3>2
    <3> QED  BY <3>1, <3>2, <3>3, Zenon
  <2> QED  BY <2>2, <2>3, <2>4
<1>3. /\ TypeOK /\ WindowTrue /\ BracesCounted /\ WindowTrue'
      /\ Position \in Nat /\ first \in Nat /\ first <= Position
      /\ Position' = Position + 1
      /\ file[Position + 1] = ch
      /\ pos' \in 0 .. last /\ start \in 0 .. pos'
  BY <1>1, <1>2, ReadsStep
<1>4. TypeOK'
  BY <1>1, <1>2, <1>3 DEF TypeOK
<1>5. Depth(Position + 1) = deep'
  <2>1. deep = Depth(Position) /\ deep \in Nat
    BY <1>3 DEF BracesCounted, TypeOK
  <2>2. CASE ch = "x"
    BY <1>2, <1>3, <2>1, <2>2, DepthStep
  <2>3. CASE ch = "{"
    BY <1>2, <1>3, <2>1, <2>3, DepthStep
  <2>4. CASE ch = "}"
    BY <1>2, <1>3, <2>1, <2>4, DepthStep
  <2> QED  BY <2>2, <2>3, <2>4 DEF Char
<1>6. Balanced(Position + 1)
  <2> SUFFICES ASSUME NEW j \in first .. Position + 1 PROVE Depth(j) >= 0
    BY DEF Balanced
  <2>1. CASE j \in first .. Position
    BY <1>3, <2>1 DEF BracesCounted, Balanced
  <2>2. CASE j = Position + 1
    <3>1. Depth(j) = deep' /\ deep' \in Nat
      BY <1>2, <1>5, <2>2, Zenon
    <3> QED  BY <3>1
  <2> QED  BY <1>3, <2>1, <2>2
<1>7. BracesCounted'
  BY <1>1, <1>3, <1>5, <1>6, DepthSame, BalancedSame DEF BracesCounted
<1> QED  BY <1>1, <1>3, <1>4, <1>7 DEF IInv, BlockRead, BlockRefused

\* The brace that closes the block: what was read is the script.
LEMMA BlockDoneStep ==
  ASSUME IInv, BlockDone
  PROVE  IInv'
<1>1. /\ rc = "reading" /\ Reads("}") /\ "}" \in Char
      /\ UNCHANGED <<file, mem, last, start, offset, deep, first>>
  BY DEF BlockDone, Reads, Char
<1>2. deep = 0 /\ rc' = "block" /\ code' = Text
  BY DEF BlockDone
<1>3. /\ TypeOK /\ WindowTrue /\ BracesCounted /\ WindowTrue'
      /\ Position \in Nat /\ first \in Nat /\ first <= Position
      /\ Position' = Position + 1 /\ Position + 1 <= Len(file)
      /\ pos' \in 0 .. last /\ start \in 0 .. pos'
  BY <1>1, ReadsStep
<1>4. Closes(Position + 1)
  <2>1. Depth(Position) = 0
    BY <1>2, <1>3 DEF BracesCounted
  <2>2. Depth(Position + 1) = Depth(Position) - 1
    <3>1. file[Position + 1] = "}"
      BY <1>1, ReadsStep
    <3> QED  BY <1>3, <3>1, DepthStep
  <2>3. Depth(Position + 1) < 0
    BY <2>1, <2>2
  <2>4. Balanced((Position + 1) - 1)
    <3>1. (Position + 1) - 1 = Position
      BY <1>3
    <3> QED  BY <1>3, <3>1 DEF BracesCounted
  <2>5. Position + 1 \in first + 1 .. Len(file)
    BY <1>3, Numbers
  <2> QED  BY <2>3, <2>4, <2>5 DEF Closes
<1>5. Text \in Seq(Char) /\ Text = SubSeq(file, first + 1, Position)
  <2>1. Position - first = pos - start
    BY <1>3, PositionOf
  <2>2. ASSUME NEW i \in 1 .. pos - start
        PROVE  mem[start + i - 1] = file[first + i] /\ file[first + i] \in Char
    <3>1. start + i - 1 \in start .. last - 1
      BY <1>3, Numbers
    <3>2. mem[start + i - 1] = file[offset - last + (start + i - 1) + 1]
      BY <1>3, <3>1 DEF WindowTrue
    <3>3. offset - last + start = first
      BY <1>3 DEF WindowTrue
    <3>4. i \in Nat /\ i >= 1 /\ i <= Position - first
      BY <1>3, <2>1, Numbers
    <3>5. offset - last + (start + i - 1) + 1 = first + i
      <4>1. offset \in Nat /\ last \in Nat /\ start \in Nat /\ first \in Nat
        BY <1>3, Numbers
      <4> QED  BY <3>3, <3>4, <4>1
    <3>6. first + i \in 1 .. Len(file)
      BY <1>3, <3>4, Numbers
    <3> QED  BY <1>3, <3>2, <3>5, <3>6, Numbers
  <2>3. Text \in Seq(Char)
    <3>1. pos - start \in Nat
      BY <1>3, Numbers
    <3>2. Text \in [1 .. pos - start -> Char]
      BY <2>2 DEF Text
    <3> QED  BY <3>1, <3>2
  <2>4. Text = [i \in 1 .. Position - first |-> file[first + i]]
    BY <2>1, <2>2 DEF Text
  <2>5. SubSeq(file, first + 1, Position) = [i \in 1 .. Position - first |-> file[first + i]]
    BY <1>3, Numbers
  <2> QED  BY <2>3, <2>4, <2>5
<1>6. TypeOK'
  BY <1>1, <1>2, <1>3, <1>5 DEF TypeOK
<1>7. BlockRead'
  <2>1. Closes(Position)'
    BY <1>1, <1>3, <1>4, ClosesSame
  <2>2. Position' - 1 = Position
    BY <1>3
  <2> QED  BY <1>1, <1>2, <1>5, <2>1, <2>2 DEF BlockRead
<1> QED  BY <1>2, <1>3, <1>6, <1>7 DEF IInv, BlockRefused

-----------------------------------------------------------------------------

LEMMA IInvStep == IInv /\ [Next]_vars => IInv'
<1> SUFFICES ASSUME IInv, [Next]_vars PROVE IInv'
  OBVIOUS
<1>1. CASE UNCHANGED vars
  <2>1. UNCHANGED <<file, mem, pos, last, start, offset, deep, rc, code, first>>
    BY <1>1 DEF vars
  <2>2. Position' = Position
    BY <2>1 DEF Position
  <2>3. TypeOK' /\ WindowTrue'
    BY <2>1 DEF IInv, TypeOK, WindowTrue
  <2>4. (rc = "reading" => BracesCounted)'
    BY <2>1, <2>2, DepthSame, BalancedSame DEF IInv, BracesCounted
  <2>5. BlockRead' /\ BlockRefused'
    BY <2>1, <2>2, ClosesSame DEF IInv, BlockRead, BlockRefused
  <2> QED  BY <2>3, <2>4, <2>5 DEF IInv
<1>2. CASE Done
  BY <1>1, <1>2 DEF Done
<1>3. CASE FileDone
  BY <1>3, FileDoneStep
<1>4. CASE TooLong
  BY <1>4, TooLongStep
<1>5. CASE Refill
  BY <1>5, RefillStep
<1>6. CASE Other \/ Open \/ CloseInner
  BY <1>6, CharacterStep
<1>7. CASE BlockDone
  BY <1>7, BlockDoneStep
<1> QED  BY <1>1, <1>2, <1>3, <1>4, <1>5, <1>6, <1>7 DEF Next

(***************************************************************************)
(* The parser's indices stay inside the buffer and the file.               *)
(***************************************************************************)
THEOREM TypeCorrect == Spec => []TypeOK
<1>1. IInv => TypeOK
  BY DEF IInv
<1> QED  BY InitIInv, IInvStep, <1>1, PTL DEF Spec

(***************************************************************************)
(* The buffer shows the file from the block's beginning, through every     *)
(* refill.                                                                 *)
(***************************************************************************)
THEOREM WindowIsTrue == Spec => []WindowTrue
<1>1. IInv => WindowTrue
  BY DEF IInv
<1> QED  BY InitIInv, IInvStep, <1>1, PTL DEF Spec

(***************************************************************************)
(* The script of a block is the text before its closing brace, for every   *)
(* file and every size of the buffer.                                      *)
(***************************************************************************)
THEOREM BlocksAreRead == Spec => []BlockRead
<1>1. IInv => BlockRead
  BY DEF IInv
<1> QED  BY InitIInv, IInvStep, <1>1, PTL DEF Spec

(***************************************************************************)
(* Only a block that the file does not close, or that is longer than the   *)
(* buffer, is refused.                                                     *)
(***************************************************************************)
THEOREM BlocksAreRefused == Spec => []BlockRefused
<1>1. IInv => BlockRefused
  BY DEF IInv
<1> QED  BY InitIInv, IInvStep, <1>1, PTL DEF Spec

=============================================================================
