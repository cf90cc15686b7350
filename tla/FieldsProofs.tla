----------------------------- MODULE FieldsProofs ------------------------------
(***************************************************************************)
(* Proofs about Fields, for any alphabet, any names and values and any     *)
(* number of fields.                                                       *)
(***************************************************************************)
EXTENDS Fields, Induction, SequenceTheorems, TLAPS

-----------------------------------------------------------------------------
(* What FlattenSeq makes of a sequence of sequences.                       *)

\* The characters of a concatenation.
LEMMA Concatenation ==
  ASSUME NEW S, NEW s \in Seq(S), NEW t \in Seq(S)
  PROVE  /\ s \o t \in Seq(S)
         /\ Len(s) \in Nat /\ Len(t) \in Nat
         /\ Len(s \o t) = Len(s) + Len(t)
         /\ \A i \in 1 .. Len(s) : (s \o t)[i] = s[i]
         /\ \A i \in 1 .. Len(t) : (s \o t)[Len(s) + i] = t[i]
OBVIOUS

(***************************************************************************)
(* Its recursive function exists: flat[i] is the first i sequences, one    *)
(* after another.                                                          *)
(***************************************************************************)
LEMMA Flattening ==
  ASSUME NEW S, NEW seqs \in Seq(Seq(S)), Len(seqs) # 0
  PROVE  \E flat \in [1 .. Len(seqs) -> Seq(S)] :
           /\ flat[1] = seqs[1]
           /\ \A i \in 2 .. Len(seqs) : flat[i] = flat[i - 1] \o seqs[i]
           /\ FlattenSeq(seqs) = flat[Len(seqs)]
<1> DEFINE I == 1 .. Len(seqs)
           Equation(g, i) == g[i] = IF i = 1 THEN seqs[i] ELSE g[i - 1] \o seqs[i]
           Solution(n) == \E g \in [I -> Seq(S)] : \A i \in 1 .. n : Equation(g, i)
           Solved == {n \in Nat : n <= Len(seqs) => Solution(n)}
<1>0. /\ Len(seqs) \in Nat \ {0}
      /\ \A i \in I : seqs[i] \in Seq(S)
      /\ 1 \in I
  OBVIOUS
<1>1. Solution(0)
  <2>1. [i \in I |-> seqs[1]] \in [I -> Seq(S)]
    BY <1>0
  <2> QED  BY <2>1
<1>2. ASSUME NEW n \in Nat, Solution(n), n + 1 <= Len(seqs) PROVE Solution(n + 1)
  <2>1. PICK g \in [I -> Seq(S)] : \A i \in 1 .. n : Equation(g, i)
    BY <1>2
  <2> DEFINE next == IF n + 1 = 1 THEN seqs[1] ELSE g[n] \o seqs[n + 1]
             h == [g EXCEPT ![n + 1] = next]
  <2>2. n + 1 \in I /\ (n # 0 => n \in I)
    BY <1>0, <1>2
  <2>3. next \in Seq(S)
    <3>1. CASE n = 0
      BY <1>0, <3>1
    <3>2. CASE n # 0
      <4>1. g[n] \in Seq(S) /\ seqs[n + 1] \in Seq(S)
        BY <1>0, <2>2, <3>2
      <4>2. g[n] \o seqs[n + 1] \in Seq(S)
        BY <4>1, ConcatProperties
      <4> QED  BY <3>2, <4>2
    <3> QED  BY <3>1, <3>2
  <2>4. next = IF n + 1 = 1 THEN seqs[n + 1] ELSE g[n + 1 - 1] \o seqs[n + 1]
    BY n + 1 - 1 = n
  <2> HIDE DEF next
  <2>5. h \in [I -> Seq(S)]
    BY <2>3
  <2>6. h[n + 1] = next /\ \A i \in I : i # n + 1 => h[i] = g[i]
    BY <2>2
  <2> HIDE DEF h
  <2>7. ASSUME NEW i \in 1 .. (n + 1) PROVE Equation(h, i)
    <3>1. CASE i = n + 1
      <4>1. n + 1 # 1 => h[n + 1 - 1] = g[n + 1 - 1]
        BY <2>2, <2>6
      <4> QED  BY <2>4, <2>6, <3>1, <4>1
    <3>2. CASE i # n + 1
      <4>1. i \in 1 .. n /\ i \in I /\ (i # 1 => i - 1 \in I /\ i - 1 # n + 1)
        BY <2>2, <3>2
      <4>2. Equation(g, i)
        BY <2>1, <4>1
      <4>3. h[i] = g[i] /\ (i # 1 => h[i - 1] = g[i - 1])
        BY <2>6, <3>2, <4>1
      <4> QED  BY <4>2, <4>3
    <3> QED  BY <3>1, <3>2
  <2> QED  BY <2>5, <2>7
<1>3. \A n \in Nat : n \in Solved
  <2> HIDE DEF Solution
  <2>1. 0 \in Solved
    BY <1>1
  <2>2. \A n \in Nat : n \in Solved => n + 1 \in Solved
    BY <1>0, <1>2
  <2> HIDE DEF Solved
  <2> QED  BY <2>1, <2>2, NatSetInduction
<1>4. Solution(Len(seqs))
  <2> HIDE DEF Solution
  <2> QED  BY <1>0, <1>3
<1>5. PICK g \in [I -> Seq(S)] : \A i \in 1 .. Len(seqs) : Equation(g, i)
  BY <1>4
<1> DEFINE flat == CHOOSE f : f = [i \in 1 .. Len(seqs) |->
                     IF i = 1 THEN seqs[i] ELSE f[i - 1] \o seqs[i]]
<1>6. g = [i \in 1 .. Len(seqs) |-> IF i = 1 THEN seqs[i] ELSE g[i - 1] \o seqs[i]]
  BY <1>5
<1>7. flat = [i \in 1 .. Len(seqs) |-> IF i = 1 THEN seqs[i] ELSE flat[i - 1] \o seqs[i]]
  BY <1>6, Zenon
<1>8. FlattenSeq(seqs) = flat[Len(seqs)]
  BY <1>0, Zenon DEF FlattenSeq
<1> HIDE DEF flat
<1>9. /\ flat[1] = seqs[1]
      /\ \A i \in I : i # 1 => flat[i] = flat[i - 1] \o seqs[i]
  <2>1. \A i \in I : flat[i] = IF i = 1 THEN seqs[i] ELSE flat[i - 1] \o seqs[i]
    BY <1>7, Zenon
  <2> QED  BY <1>0, <2>1
<1> DEFINE Typed == {n \in Nat : n + 1 \in I => flat[n + 1] \in Seq(S)}
<1>10. 0 \in Typed
  BY <1>0, <1>9
<1>11. ASSUME NEW n \in Nat, n \in Typed PROVE n + 1 \in Typed
  <2> SUFFICES ASSUME NEW i \in I, i = n + 1 + 1 PROVE flat[i] \in Seq(S)
    OBVIOUS
  <2>0. i # 1 /\ i - 1 = n + 1 /\ n + 1 \in I
    BY <1>0
  <2>1. flat[i] = flat[n + 1] \o seqs[i]
    BY <1>9, <2>0
  <2>2. flat[n + 1] \in Seq(S) /\ seqs[i] \in Seq(S)
    BY <1>0, <1>11, <2>0
  <2> QED  BY <2>1, <2>2, Concatenation
<1>12. \A i \in I : flat[i] \in Seq(S)
  <2>1. \A n \in Nat : n \in Typed
    <3> HIDE DEF Typed
    <3> QED  BY <1>10, <1>11, NatSetInduction
  <2>2. \A i \in I : i - 1 \in Nat /\ i - 1 + 1 = i
    BY <1>0
  <2> QED  BY <2>1, <2>2
<1>13. flat \in [I -> Seq(S)]
  BY <1>7, <1>12
<1>14. \A i \in 2 .. Len(seqs) : i \in I /\ i # 1
  BY <1>0
<1> QED  BY <1>8, <1>9, <1>13, <1>14

\* t is the n sequences of seqs one after another, start[k] characters before the k-th.
Located(seqs, n, t, start) ==
  /\ start \in [1 .. n -> Nat]
  /\ start[1] = 0
  /\ \A k \in 1 .. (n - 1) : start[k + 1] = start[k] + Len(seqs[k])
  /\ Len(t) = start[n] + Len(seqs[n])
  /\ \A k \in 1 .. n :
       /\ start[k] + Len(seqs[k]) <= Len(t)
       /\ \A i \in 1 .. Len(seqs[k]) : t[start[k] + i] = seqs[k][i]

(***************************************************************************)
(* Where each of the sequences is in the result.                           *)
(***************************************************************************)
LEMMA Flattened ==
  ASSUME NEW S, NEW seqs \in Seq(Seq(S)), Len(seqs) # 0
  PROVE  /\ FlattenSeq(seqs) \in Seq(S)
         /\ \E start : Located(seqs, Len(seqs), FlattenSeq(seqs), start)
<1>1. PICK flat \in [1 .. Len(seqs) -> Seq(S)] :
        /\ flat[1] = seqs[1]
        /\ \A i \in 2 .. Len(seqs) : flat[i] = flat[i - 1] \o seqs[i]
        /\ FlattenSeq(seqs) = flat[Len(seqs)]
  BY Flattening
<1>2. Len(seqs) \in Nat \ {0} /\ \A i \in 1 .. Len(seqs) : seqs[i] \in Seq(S)
  OBVIOUS
<1> DEFINE start == [k \in 1 .. Len(seqs) |-> IF k = 1 THEN 0 ELSE Len(flat[k - 1])]
<1>3. start \in [1 .. Len(seqs) -> Nat] /\ start[1] = 0
  BY <1>2
<1>a. ASSUME NEW k \in 1 .. Len(seqs), k # 1
      PROVE  /\ k - 1 \in 1 .. Len(seqs)
             /\ Len(flat[k]) = Len(flat[k - 1]) + Len(seqs[k])
             /\ \A i \in 1 .. Len(flat[k - 1]) : flat[k][i] = flat[k - 1][i]
             /\ \A i \in 1 .. Len(seqs[k]) : flat[k][Len(flat[k - 1]) + i] = seqs[k][i]
  <2>1. k - 1 \in 1 .. Len(seqs) /\ k \in 2 .. Len(seqs)
    BY <1>2, <1>a
  <2>2. flat[k] = flat[k - 1] \o seqs[k]
    BY <1>1, <2>1
  <2>3. flat[k - 1] \in Seq(S) /\ seqs[k] \in Seq(S)
    BY <1>2, <2>1
  <2>4. /\ Len(flat[k - 1] \o seqs[k]) = Len(flat[k - 1]) + Len(seqs[k])
        /\ \A i \in 1 .. Len(flat[k - 1]) : (flat[k - 1] \o seqs[k])[i] = flat[k - 1][i]
        /\ \A i \in 1 .. Len(seqs[k]) :
             (flat[k - 1] \o seqs[k])[Len(flat[k - 1]) + i] = seqs[k][i]
    <3>1. \A s, t \in Seq(S) : /\ Len(s \o t) = Len(s) + Len(t)
                               /\ \A i \in 1 .. Len(s) : (s \o t)[i] = s[i]
                               /\ \A i \in 1 .. Len(t) : (s \o t)[Len(s) + i] = t[i]
      BY Concatenation
    <3> HIDE DEF start
    <3> QED  BY <2>3, <3>1, Zenon
  <2> QED  BY <2>1, <2>2, <2>4, Zenon
<1>4. ASSUME NEW k \in 1 .. Len(seqs)
      PROVE  /\ Len(flat[k]) = start[k] + Len(seqs[k])
             /\ \A i \in 1 .. Len(seqs[k]) : flat[k][start[k] + i] = seqs[k][i]
  <2>1. CASE k = 1
    BY <1>1, <1>2, <2>1
  <2>2. CASE k # 1
    BY <1>a, <2>2
  <2> QED  BY <2>1, <2>2
<1>5. \A k \in 1 .. (Len(seqs) - 1) : start[k + 1] = start[k] + Len(seqs[k])
  <2> SUFFICES ASSUME NEW k \in 1 .. (Len(seqs) - 1)
               PROVE  start[k + 1] = start[k] + Len(seqs[k])
    OBVIOUS
  <2>1. k \in 1 .. Len(seqs) /\ k + 1 \in 1 .. Len(seqs) /\ k + 1 # 1 /\ k + 1 - 1 = k
    BY <1>2
  <2>2. start[k + 1] = Len(flat[k])
    BY <2>1
  <2> HIDE DEF start
  <2> QED  BY <1>4, <2>1, <2>2
<1> HIDE DEF start
<1>b. \A k \in 1 .. Len(seqs) : Len(flat[k]) \in Nat
  BY <1>2
<1> DEFINE Extended(k, j) == /\ Len(flat[k]) <= Len(flat[j])
                             /\ \A i \in 1 .. Len(flat[k]) : flat[j][i] = flat[k][i]
           Grown == {d \in Nat : \A k, j \in 1 .. Len(seqs) : j = k + d => Extended(k, j)}
<1>6. 0 \in Grown
  <2> SUFFICES ASSUME NEW k \in 1 .. Len(seqs) PROVE Extended(k, k)
    OBVIOUS
  <2> QED  BY <1>b
<1>7. ASSUME NEW d \in Nat, d \in Grown PROVE d + 1 \in Grown
  <2> SUFFICES ASSUME NEW k \in 1 .. Len(seqs), NEW j \in 1 .. Len(seqs), j = k + (d + 1)
               PROVE  Extended(k, j)
    OBVIOUS
  <2>1. j # 1 /\ j - 1 = k + d
    BY <1>2
  <2>2. /\ j - 1 \in 1 .. Len(seqs)
        /\ Len(flat[j]) = Len(flat[j - 1]) + Len(seqs[j])
        /\ \A i \in 1 .. Len(flat[j - 1]) : flat[j][i] = flat[j - 1][i]
    BY <1>a, <2>1
  <2>3. Extended(k, j - 1)
    BY <1>7, <2>1, <2>2
  <2>4. Len(flat[k]) \in Nat /\ Len(flat[j - 1]) \in Nat /\ Len(seqs[j]) \in Nat
    BY <1>2, <1>b, <2>2
  <2>5. Len(flat[k]) <= Len(flat[j - 1])
    BY <2>3, Zenon
  <2>6. Len(flat[k]) <= Len(flat[j])
    <3>1. Len(flat[j]) = Len(flat[j - 1]) + Len(seqs[j])
      BY <2>2, Zenon
    <3>2. \A a, b, c \in Nat : a <= b => a <= b + c
      OBVIOUS
    <3> QED  BY <2>4, <2>5, <3>1, <3>2, Zenon
  <2>7. \A i \in 1 .. Len(flat[k]) : i \in 1 .. Len(flat[j - 1])
    BY <2>4, <2>5
  <2>8. \A i \in 1 .. Len(flat[k]) : flat[j][i] = flat[k][i]
    BY <2>2, <2>3, <2>7, Zenon
  <2> QED  BY <2>6, <2>8
<1>8. \A d \in Nat : d \in Grown
  <2> HIDE DEF Grown
  <2> QED  BY <1>6, <1>7, NatSetInduction
<1>9. ASSUME NEW k \in 1 .. Len(seqs) PROVE Extended(k, Len(seqs))
  <2>1. Len(seqs) - k \in Nat /\ Len(seqs) = k + (Len(seqs) - k) /\ Len(seqs) \in 1 .. Len(seqs)
    BY <1>2
  <2>2. Len(seqs) - k \in Grown
    BY <1>8, <2>1
  <2> HIDE DEF Extended
  <2> QED  BY <2>1, <2>2
<1>10. Len(seqs) \in 1 .. Len(seqs)
  BY <1>2
<1>11. ASSUME NEW k \in 1 .. Len(seqs)
       PROVE  /\ start[k] + Len(seqs[k]) <= Len(FlattenSeq(seqs))
              /\ \A i \in 1 .. Len(seqs[k]) : FlattenSeq(seqs)[start[k] + i] = seqs[k][i]
  <2>1. Extended(k, Len(seqs)) /\ FlattenSeq(seqs) = flat[Len(seqs)]
    BY <1>1, <1>9
  <2>2. start[k] \in Nat /\ Len(seqs[k]) \in Nat
    <3>1. seqs[k] \in Seq(S)
      BY <1>2
    <3>2. Len(seqs[k]) \in Nat
      BY <3>1, LenProperties, Zenon
    <3> QED  BY <1>3, <3>2
  <2>3. \A i \in 1 .. Len(seqs[k]) : start[k] + i \in 1 .. Len(flat[k])
    BY <1>4, <2>2
  <2> QED  BY <1>4, <2>1, <2>3
<1>12. Located(seqs, Len(seqs), FlattenSeq(seqs), start)
  BY <1>1, <1>3, <1>4, <1>5, <1>10, <1>11 DEF Located
<1> QED  BY <1>1, <1>10, <1>12

-----------------------------------------------------------------------------
(* The text that a function goes over.                                     *)

Chars == Letter \cup {"=", "&", ";", " "}
Separator == {<<"&">>, <<";">>, <<";", " ">>}

\* The number of characters up to the end of a field's name, and its value.
NameEnd(fs, at, k) == at[k] + Len(fs[k].name)
ValueEnd(fs, at, k) == NameEnd(fs, at, k) + 1 + Len(fs[k].value)

(***************************************************************************)
(* t is the fields fs with sep between them: at[k] characters, the name of *)
(* the field k, `=', its value, and sep if there is another field.         *)
(***************************************************************************)
Layout(t, fs, sep, at) ==
  /\ Len(t) = IF Len(fs) = 0 THEN 0 ELSE ValueEnd(fs, at, Len(fs))
  /\ Len(fs) # 0 => at[1] = 0
  /\ \A k \in 1 .. Len(fs) :
       /\ \A i \in 1 .. Len(fs[k].name) : t[at[k] + i] = fs[k].name[i]
       /\ t[NameEnd(fs, at, k) + 1] = "="
       /\ \A i \in 1 .. Len(fs[k].value) : t[NameEnd(fs, at, k) + 1 + i] = fs[k].value[i]
       /\ ValueEnd(fs, at, k) <= Len(t)
  /\ \A k \in 1 .. (Len(fs) - 1) :
       /\ \A i \in 1 .. Len(sep) : t[ValueEnd(fs, at, k) + i] = sep[i]
       /\ at[k + 1] = ValueEnd(fs, at, k) + Len(sep)

\* A field with pre before it.
IsPart(part, pre, name, value) ==
  /\ Len(part) = Len(pre) + Len(name) + 1 + Len(value)
  /\ \A i \in 1 .. Len(pre) : part[i] = pre[i]
  /\ \A i \in 1 .. Len(name) : part[Len(pre) + i] = name[i]
  /\ part[Len(pre) + Len(name) + 1] = "="
  /\ \A i \in 1 .. Len(value) : part[Len(pre) + Len(name) + 1 + i] = value[i]

\* What Joined makes of a field.
LEMMA PartLayout ==
  ASSUME NEW S, NEW pre \in Seq(S), NEW name \in Seq(S), NEW value \in Seq(S), "=" \in S
  PROVE  /\ pre \o name \o <<"=">> \o value \in Seq(S)
         /\ IsPart(pre \o name \o <<"=">> \o value, pre, name, value)
<1> DEFINE part == pre \o name \o <<"=">> \o value
<1> DEFINE a == pre \o name
           b == a \o <<"=">>
<1>1. /\ a \in Seq(S) /\ Len(pre) \in Nat /\ Len(name) \in Nat
      /\ Len(a) = Len(pre) + Len(name)
      /\ \A i \in 1 .. Len(pre) : a[i] = pre[i]
      /\ \A i \in 1 .. Len(name) : a[Len(pre) + i] = name[i]
  BY Concatenation
<1> HIDE DEF a
<1>2. <<"=">> \in Seq(S) /\ Len(<<"=">>) = 1 /\ <<"=">>[1] = "="
  OBVIOUS
<1>0. \A s, t \in Seq(S) : /\ s \o t \in Seq(S)
                           /\ Len(s) \in Nat /\ Len(t) \in Nat
                           /\ Len(s \o t) = Len(s) + Len(t)
                           /\ \A i \in 1 .. Len(s) : (s \o t)[i] = s[i]
                           /\ \A i \in 1 .. Len(t) : (s \o t)[Len(s) + i] = t[i]
  BY Concatenation
<1>3. /\ b \in Seq(S) /\ Len(b) = Len(a) + 1
      /\ \A i \in 1 .. Len(a) : b[i] = a[i]
      /\ b[Len(a) + 1] = "="
  <2>1. /\ b \in Seq(S) /\ Len(b) = Len(a) + Len(<<"=">>)
        /\ \A i \in 1 .. Len(a) : b[i] = a[i]
        /\ \A i \in 1 .. Len(<<"=">>) : b[Len(a) + i] = <<"=">>[i]
    BY <1>0, <1>1, <1>2, Zenon
  <2>2. 1 \in 1 .. Len(<<"=">>)
    BY <1>2
  <2> HIDE DEF b
  <2>3. b[Len(a) + 1] = "="
    BY <1>2, <2>1, <2>2, Zenon
  <2> QED  BY <1>2, <2>1, <2>3, Zenon
<1> HIDE DEF b
<1>4. part = b \o value
  BY DEF a, b
<1> HIDE DEF part
<1>5. /\ part \in Seq(S) /\ Len(value) \in Nat
      /\ Len(part) = Len(b) + Len(value)
      /\ \A i \in 1 .. Len(b) : part[i] = b[i]
      /\ \A i \in 1 .. Len(value) : part[Len(b) + i] = value[i]
  <2>1. /\ b \o value \in Seq(S) /\ Len(value) \in Nat
        /\ Len(b \o value) = Len(b) + Len(value)
        /\ \A i \in 1 .. Len(b) : (b \o value)[i] = b[i]
        /\ \A i \in 1 .. Len(value) : (b \o value)[Len(b) + i] = value[i]
    BY <1>0, <1>3, Zenon
  <2> QED  BY <1>4, <2>1
<1>6. Len(b) = Len(pre) + Len(name) + 1
  BY <1>1, <1>3
<1>7. \A i \in 1 .. (Len(pre) + Len(name)) : part[i] = a[i]
  <2>1. \A i \in 1 .. (Len(pre) + Len(name)) : i \in 1 .. Len(a) /\ i \in 1 .. Len(b)
    BY <1>1, <1>6
  <2> QED  BY <1>3, <1>5, <2>1, Zenon
<1>8. \A i \in 1 .. Len(pre) : i \in 1 .. (Len(pre) + Len(name))
  BY <1>1
<1>9. \A i \in 1 .. Len(name) : Len(pre) + i \in 1 .. (Len(pre) + Len(name))
  BY <1>1
<1>10. part[Len(pre) + Len(name) + 1] = "="
  <2>1. Len(a) + 1 \in 1 .. Len(b)
    BY <1>1, <1>3
  <2> QED  BY <1>1, <1>3, <1>5, <2>1, Zenon
<1>11. Len(part) = Len(pre) + Len(name) + 1 + Len(value)
  BY <1>5, <1>6
<1>12. IsPart(part, pre, name, value)
  BY <1>1, <1>5, <1>6, <1>7, <1>8, <1>9, <1>10, <1>11 DEF IsPart
<1> QED  BY <1>5, <1>12 DEF part

\* A separator has one or two characters, and none of a name or value.
LEMMA SeparatorType ==
  ASSUME NEW sep \in Separator
  PROVE  /\ sep \in Seq(Chars) /\ Len(sep) \in {1, 2}
         /\ sep[1] \in {"&", ";"}
         /\ (Len(sep) = 2 => sep[1] = ";" /\ sep[2] = " ")
<1>1. "&" \in Chars /\ ";" \in Chars /\ " " \in Chars
  BY DEF Chars
<1>2. /\ <<"&">> \in Seq(Chars) /\ Len(<<"&">>) = 1
      /\ <<";">> \in Seq(Chars) /\ Len(<<";">>) = 1
      /\ <<";", " ">> \in Seq(Chars) /\ Len(<<";", " ">>) = 2
  <2>1. \A c \in Chars : <<c>> \in Seq(Chars) /\ Len(<<c>>) = 1
    OBVIOUS
  <2>2. \A c, d \in Chars : <<c, d>> \in Seq(Chars) /\ Len(<<c, d>>) = 2
    OBVIOUS
  <2> QED  BY <1>1, <2>1, <2>2, Zenon
<1>3. <<"&">>[1] = "&" /\ <<";">>[1] = ";" /\ <<";", " ">>[1] = ";" /\ <<";", " ">>[2] = " "
  OBVIOUS
<1>4. sep = <<"&">> \/ sep = <<";">> \/ sep = <<";", " ">>
  BY DEF Separator
<1> QED  BY <1>2, <1>3, <1>4

\* Names and values have letters only, and names at least one.
LEMMA FieldType ==
  ASSUME NEW f \in Field
  PROVE  /\ f.name \in Seq(Letter) /\ f.name \in Seq(Chars) /\ Len(f.name) \in Nat \ {0}
         /\ f.value \in Seq(Letter) /\ f.value \in Seq(Chars) /\ Len(f.value) \in Nat
         /\ \A i \in 1 .. Len(f.name) : f.name[i] \notin {"=", "&", ";", " "}
         /\ \A i \in 1 .. Len(f.value) : f.value[i] \notin {"=", "&", ";", " "}
<1>1. f.name \in Seq(Letter) /\ f.value \in Seq(Letter) /\ f.name # <<>>
  BY FieldsAssumption DEF Field
<1>2. \A s \in Seq(Letter) : /\ Len(s) \in Nat /\ s \in Seq(Chars)
                             /\ s # <<>> => Len(s) # 0
                             /\ \A i \in 1 .. Len(s) : s[i] \in Letter
  <2> SUFFICES ASSUME NEW s \in Seq(Letter)
               PROVE  /\ Len(s) \in Nat /\ s \in Seq(Chars)
                      /\ s # <<>> => Len(s) # 0
                      /\ \A i \in 1 .. Len(s) : s[i] \in Letter
    OBVIOUS
  <2>1. Len(s) \in Nat /\ s \in [1 .. Len(s) -> Letter]
    BY LenProperties
  <2>2. Letter \subseteq Chars
    BY DEF Chars
  <2>3. s \in [1 .. Len(s) -> Chars]
    BY <2>1, <2>2
  <2>4. s \in Seq(Chars)
    BY <2>1, <2>3
  <2> QED  BY <2>1, <2>4
<1>3. Letter \cap {"=", "&", ";", " "} = {}
  BY FieldsAssumption
<1> QED  BY <1>1, <1>2, <1>3

(***************************************************************************)
(* What Joined makes of any fields is laid out so.                         *)
(***************************************************************************)
LEMMA JoinedLayout ==
  ASSUME NEW n \in Nat, NEW fs \in [1 .. n -> Field], NEW sep \in Separator
  PROVE  /\ Joined(fs, sep) \in Seq(Chars)
         /\ \E at \in [1 .. n -> Nat] : Layout(Joined(fs, sep), fs, sep, at)
<1> DEFINE Pre(k) == IF k = 1 THEN <<>> ELSE sep
           seqs == [k \in DOMAIN fs |->
             (IF k = 1 THEN <<>> ELSE sep) \o fs[k].name \o <<"=">> \o fs[k].value]
           t == Joined(fs, sep)
<1>1. Len(fs) = n /\ DOMAIN fs = 1 .. n /\ fs \in Seq(Field)
  OBVIOUS
<1>2. t = FlattenSeq(seqs)
  BY DEF Joined
<1>3. /\ sep \in Seq(Chars) /\ Len(sep) \in Nat /\ "=" \in Chars
      /\ \A k \in 1 .. n : Pre(k) \in Seq(Chars) /\ Len(Pre(k)) = IF k = 1 THEN 0 ELSE Len(sep)
  <2>1. sep \in Seq(Chars) /\ Len(sep) \in {1, 2} /\ "=" \in Chars
    BY SeparatorType DEF Chars
  <2>2. <<>> \in Seq(Chars) /\ Len(<<>>) = 0
    OBVIOUS
  <2> QED  BY <2>1, <2>2
<1>4. \A k \in 1 .. n :
        /\ fs[k].name \in Seq(Chars) /\ Len(fs[k].name) \in Nat
        /\ fs[k].value \in Seq(Chars) /\ Len(fs[k].value) \in Nat
  BY FieldType
<1>5. \A k \in 1 .. n : seqs[k] = Pre(k) \o fs[k].name \o <<"=">> \o fs[k].value
  BY <1>1
<1>6. DOMAIN seqs = 1 .. n
  BY <1>1
<1> HIDE DEF Pre, seqs, t
<1>7. ASSUME NEW k \in 1 .. n
      PROVE  seqs[k] \in Seq(Chars) /\ IsPart(seqs[k], Pre(k), fs[k].name, fs[k].value)
  <2>1. Pre(k) \in Seq(Chars) /\ fs[k].name \in Seq(Chars) /\ fs[k].value \in Seq(Chars)
    BY <1>3, <1>4
  <2> DEFINE part == Pre(k) \o fs[k].name \o <<"=">> \o fs[k].value
  <2>2. part \in Seq(Chars) /\ IsPart(part, Pre(k), fs[k].name, fs[k].value)
    BY <1>3, <2>1, PartLayout
  <2>3. seqs[k] = part
    BY <1>5
  <2> HIDE DEF part
  <2> QED  BY <2>2, <2>3
<1>8. seqs \in Seq(Seq(Chars)) /\ Len(seqs) = n
  <2>1. seqs = [k \in 1 .. n |-> seqs[k]]
    BY <1>1 DEF seqs
  <2>2. seqs \in [1 .. n -> Seq(Chars)]
    BY <1>7, <2>1
  <2> QED  BY <2>2
<1>9. CASE n = 0
  <2>1. t = <<>>
    BY <1>2, <1>8, <1>9 DEF FlattenSeq
  <2>2. Layout(t, fs, sep, [k \in 1 .. n |-> 0])
    BY <1>1, <1>9, <2>1 DEF Layout
  <2> QED  BY <2>1, <2>2 DEF t
<1>10. CASE n # 0
  <2>1. t \in Seq(Chars) /\ \E start : Located(seqs, n, t, start)
    <3>1. Len(seqs) # 0
      BY <1>8, <1>10
    <3>2. /\ FlattenSeq(seqs) \in Seq(Chars)
          /\ \E start : Located(seqs, Len(seqs), FlattenSeq(seqs), start)
      BY <1>8, <3>1, Flattened
    <3> QED  BY <1>2, <1>8, <3>2
  <2>a. PICK start : Located(seqs, n, t, start)
    BY <2>1
  <2> DEFINE at == [k \in 1 .. n |-> start[k] + Len(Pre(k))]
  <2>2. at \in [1 .. n -> Nat]
    <3>1. \A k \in 1 .. n : Len(Pre(k)) \in Nat
      BY <1>3
    <3>2. start \in [1 .. n -> Nat]
      BY <2>a DEF Located
    <3> QED  BY <3>1, <3>2
  <2>3. \A k \in 1 .. n : at[k] = start[k] + Len(Pre(k))
    OBVIOUS
  <2> HIDE DEF at
  <2>4. ASSUME NEW k \in 1 .. n
        PROVE  /\ start[k] + Len(seqs[k]) = ValueEnd(fs, at, k)
               /\ ValueEnd(fs, at, k) <= Len(t)
               /\ \A i \in 1 .. Len(fs[k].name) : t[at[k] + i] = fs[k].name[i]
               /\ t[NameEnd(fs, at, k) + 1] = "="
               /\ \A i \in 1 .. Len(fs[k].value) :
                    t[NameEnd(fs, at, k) + 1 + i] = fs[k].value[i]
               /\ \A i \in 1 .. Len(Pre(k)) : t[start[k] + i] = Pre(k)[i]
    <3> DEFINE x == Len(Pre(k))
               y == Len(fs[k].name)
               z == Len(fs[k].value)
    <3>1. x \in Nat /\ y \in Nat /\ z \in Nat /\ start[k] \in Nat
      <4>1. x \in Nat /\ y \in Nat /\ z \in Nat
        BY <1>3, <1>4
      <4>2. start[k] \in Nat
        BY <1>3, <1>4, <2>a DEF Located
      <4> QED  BY <4>1, <4>2
    <3>2. /\ at[k] = start[k] + x /\ Len(seqs[k]) = x + y + 1 + z
          /\ start[k] + Len(seqs[k]) <= Len(t)
          /\ \A i \in 1 .. Len(seqs[k]) : t[start[k] + i] = seqs[k][i]
          /\ \A i \in 1 .. x : seqs[k][i] = Pre(k)[i]
          /\ \A i \in 1 .. y : seqs[k][x + i] = fs[k].name[i]
          /\ seqs[k][x + y + 1] = "="
          /\ \A i \in 1 .. z : seqs[k][x + y + 1 + i] = fs[k].value[i]
      BY <1>7, <2>a, <2>3 DEF Located, IsPart
    <3> HIDE DEF x, y, z
    <3>9. at[k] = start[k] + x /\ Len(seqs[k]) = x + y + 1 + z
      BY <3>2, Zenon
    <3> DEFINE Offsets(w, l, q, c, d, e) ==
                 /\ w + l = q + d + 1 + e
                 /\ \A i \in 1 .. c : i \in 1 .. l
                 /\ \A i \in 1 .. d : c + i \in 1 .. l /\ w + (c + i) = q + i
                 /\ c + d + 1 \in 1 .. l
                 /\ w + (c + d + 1) = q + d + 1
                 /\ \A i \in 1 .. e : /\ c + d + 1 + i \in 1 .. l
                                      /\ w + (c + d + 1 + i) = q + d + 1 + i
    <3>a. \A w, c, d, e \in Nat : \A l, q :
            q = w + c /\ l = c + d + 1 + e => Offsets(w, l, q, c, d, e)
      OBVIOUS
    <3>b. Offsets(start[k], Len(seqs[k]), at[k], x, y, z)
      <4> HIDE DEF Offsets
      <4> QED  BY <3>1, <3>9, <3>a, Zenon
    <3>8. /\ \A i \in 1 .. x : t[start[k] + i] = Pre(k)[i]
          /\ \A i \in 1 .. y : t[at[k] + i] = fs[k].name[i]
          /\ t[at[k] + y + 1] = "="
          /\ \A i \in 1 .. z : t[at[k] + y + 1 + i] = fs[k].value[i]
      BY <3>2, <3>b, Zenon
    <3> QED  BY <3>2, <3>b, <3>8, Zenon DEF NameEnd, ValueEnd, x, y, z
  <2>5. n \in 1 .. n /\ 1 \in 1 .. n
    BY <1>10
  <2>6. at[1] = 0
    BY <1>3, <2>a, <2>3, <2>5 DEF Located
  <2>7. ASSUME NEW k \in 1 .. (n - 1)
        PROVE  /\ \A i \in 1 .. Len(sep) : t[ValueEnd(fs, at, k) + i] = sep[i]
               /\ at[k + 1] = ValueEnd(fs, at, k) + Len(sep)
    <3>1. k \in 1 .. n /\ k + 1 \in 1 .. n /\ k + 1 # 1
      OBVIOUS
    <3>2. Pre(k + 1) = sep
      BY <3>1 DEF Pre
    <3>3. start[k + 1] = ValueEnd(fs, at, k)
      BY <2>a, <2>4, <3>1, Zenon DEF Located
    <3>4. at[k + 1] = start[k + 1] + Len(sep)
      BY <2>3, <3>1, <3>2, Zenon
    <3>5. \A i \in 1 .. Len(sep) : t[start[k + 1] + i] = sep[i]
      BY <2>4, <3>1, <3>2, Zenon
    <3> QED  BY <3>3, <3>4, <3>5, Zenon
  <2>8. Layout(t, fs, sep, at)
    BY <1>1, <1>10, <2>a, <2>4, <2>5, <2>6, <2>7, Zenon DEF Layout, Located
  <2> QED  BY <2>1, <2>2, <2>8 DEF t
<1> QED  BY <1>9, <1>10

-----------------------------------------------------------------------------
(* The readers.                                                            *)

Special == {"=", "&", ";", " "}

(***************************************************************************)
(* The text around the field k, up to the first character of the next.     *)
(***************************************************************************)
LEMMA AroundField ==
  ASSUME NEW n \in Nat, fields \in [1 .. n -> Field], NEW sep \in Separator,
         NEW at \in [1 .. n -> Nat], text \in Seq(Chars), Layout(text, fields, sep, at),
         NEW k \in 1 .. n
  PROVE  /\ at[k] \in Nat /\ NameEnd(fields, at, k) \in Nat /\ ValueEnd(fields, at, k) \in Nat
         /\ Len(text) \in Nat
         /\ at[k] < NameEnd(fields, at, k)
         /\ NameEnd(fields, at, k) < ValueEnd(fields, at, k)
         /\ ValueEnd(fields, at, k) <= Len(text)
         /\ \A b \in (at[k] + 1) .. NameEnd(fields, at, k) : text[b] \notin Special
         /\ text[NameEnd(fields, at, k) + 1] = "="
         /\ \A b \in (NameEnd(fields, at, k) + 2) .. ValueEnd(fields, at, k) :
              text[b] \notin Special
         /\ SubSeq(text, at[k] + 1, NameEnd(fields, at, k)) = fields[k].name
         /\ SubSeq(text, NameEnd(fields, at, k) + 2, ValueEnd(fields, at, k)) = fields[k].value
         /\ k = n => ValueEnd(fields, at, k) = Len(text)
<1> DEFINE name == fields[k].name
           value == fields[k].value
           a == at[k]
           e == NameEnd(fields, at, k)
           v == ValueEnd(fields, at, k)
<1>1. /\ name \in Seq(Chars) /\ Len(name) \in Nat \ {0}
      /\ value \in Seq(Chars) /\ Len(value) \in Nat
      /\ \A i \in 1 .. Len(name) : name[i] \notin Special
      /\ \A i \in 1 .. Len(value) : value[i] \notin Special
  BY FieldType DEF Special
<1>2. a \in Nat /\ e = a + Len(name) /\ v = e + 1 + Len(value) /\ Len(text) \in Nat
  BY LenProperties DEF NameEnd, ValueEnd
<1>3. Len(fields) = n
  OBVIOUS
<1>4. /\ \A i \in 1 .. Len(name) : text[a + i] = name[i]
      /\ text[e + 1] = "="
      /\ \A i \in 1 .. Len(value) : text[e + 1 + i] = value[i]
      /\ v <= Len(text)
      /\ k = n => v = Len(text)
  <2>1. n # 0 /\ k \in 1 .. Len(fields)
    BY <1>3
  <2>2. k = n => v = Len(text)
    BY <1>3, <2>1, Zenon DEF Layout
  <2>3. /\ \A i \in 1 .. Len(name) : text[a + i] = name[i]
        /\ text[e + 1] = "="
        /\ \A i \in 1 .. Len(value) : text[e + 1 + i] = value[i]
        /\ v <= Len(text)
    BY <2>1, Zenon DEF Layout
  <2> QED  BY <2>2, <2>3
<1> HIDE DEF name, value, a, e, v
<1>5. e \in Nat /\ v \in Nat /\ a < e /\ e < v
  BY <1>1, <1>2
<1>6. \A b \in (a + 1) .. e : text[b] \notin Special
  <2> SUFFICES ASSUME NEW b \in (a + 1) .. e PROVE text[b] \notin Special
    OBVIOUS
  <2>1. b - a \in 1 .. Len(name) /\ a + (b - a) = b
    BY <1>1, <1>2
  <2> QED  BY <1>1, <1>4, <2>1
<1>7. \A b \in (e + 2) .. v : text[b] \notin Special
  <2> SUFFICES ASSUME NEW b \in (e + 2) .. v PROVE text[b] \notin Special
    OBVIOUS
  <2>1. b - e - 1 \in 1 .. Len(value) /\ e + 1 + (b - e - 1) = b
    BY <1>1, <1>2, <1>5
  <2> QED  BY <1>1, <1>4, <2>1
<1>8. \A i \in 1 .. Len(text) : text[i] \in Chars
  BY LenProperties
<1>9. SubSeq(text, a + 1, e) = name
  <2>1. \A i \in (a + 1) .. e : i \in 1 .. Len(text)
    BY <1>2, <1>4, <1>5
  <2>2. a + 1 \in Int /\ e \in Int /\ a + 1 <= e /\ e - (a + 1) + 1 = Len(name)
    BY <1>1, <1>2
  <2>3. /\ SubSeq(text, a + 1, e) \in Seq(Chars)
        /\ Len(SubSeq(text, a + 1, e)) = Len(name)
        /\ \A i \in 1 .. Len(name) : SubSeq(text, a + 1, e)[i] = text[a + 1 + i - 1]
    BY <1>8, <2>1, <2>2, SubSeqProperties
  <2>4. \A i \in 1 .. Len(name) : a + 1 + i - 1 = a + i
    BY <1>2
  <2>5. \A i \in 1 .. Len(name) : SubSeq(text, a + 1, e)[i] = name[i]
    BY <1>4, <2>3, <2>4
  <2> QED  BY <1>1, <2>3, <2>5, SeqEqual
<1>10. SubSeq(text, e + 2, v) = value
  <2>1. \A i \in (e + 2) .. v : i \in 1 .. Len(text)
    BY <1>2, <1>4, <1>5
  <2>2. e + 2 \in Int /\ v \in Int /\ v - (e + 2) + 1 = Len(value)
        /\ Len(value) = IF e + 2 <= v THEN v - (e + 2) + 1 ELSE 0
    BY <1>1, <1>2, <1>5
  <2>3. /\ SubSeq(text, e + 2, v) \in Seq(Chars)
        /\ Len(SubSeq(text, e + 2, v)) = Len(value)
        /\ \A i \in 1 .. Len(value) : SubSeq(text, e + 2, v)[i] = text[e + 2 + i - 1]
    BY <1>8, <2>1, <2>2, SubSeqProperties
  <2>4. \A i \in 1 .. Len(value) : e + 2 + i - 1 = e + 1 + i
    BY <1>5
  <2>5. \A i \in 1 .. Len(value) : SubSeq(text, e + 2, v)[i] = value[i]
    BY <1>4, <2>3, <2>4
  <2> QED  BY <1>1, <2>3, <2>5, SeqEqual
<1> QED  BY <1>2, <1>4, <1>5, <1>6, <1>7, <1>9, <1>10 DEF name, value, a, e, v

\* The separator behind the field k, and where the next one begins.
LEMMA BehindField ==
  ASSUME NEW n \in Nat, fields \in [1 .. n -> Field], NEW sep \in Separator,
         NEW at \in [1 .. n -> Nat], text \in Seq(Chars), Layout(text, fields, sep, at),
         NEW k \in 1 .. n, k # n
  PROVE  /\ k + 1 \in 1 .. n
         /\ text[ValueEnd(fields, at, k) + 1] = sep[1]
         /\ Len(sep) = 2 => text[ValueEnd(fields, at, k) + 2] = " "
         /\ at[k + 1] = ValueEnd(fields, at, k) + Len(sep)
         /\ at[k + 1] + 1 <= Len(text)
         /\ text[at[k + 1] + 1] \notin Special
         /\ ValueEnd(fields, at, k) + Len(sep) < Len(text)
<1>1. k \in 1 .. (n - 1) /\ k + 1 \in 1 .. n /\ Len(fields) = n
  OBVIOUS
<1>2. /\ \A i \in 1 .. Len(sep) : text[ValueEnd(fields, at, k) + i] = sep[i]
      /\ at[k + 1] = ValueEnd(fields, at, k) + Len(sep)
  BY <1>1, Zenon DEF Layout
<1>3. Len(sep) \in {1, 2} /\ (Len(sep) = 2 => sep[2] = " ")
  BY SeparatorType
<1>4. /\ at[k + 1] \in Nat /\ NameEnd(fields, at, k + 1) \in Nat
      /\ ValueEnd(fields, at, k + 1) \in Nat /\ Len(text) \in Nat
      /\ at[k + 1] < NameEnd(fields, at, k + 1)
      /\ NameEnd(fields, at, k + 1) < ValueEnd(fields, at, k + 1)
      /\ ValueEnd(fields, at, k + 1) <= Len(text)
      /\ \A b \in (at[k + 1] + 1) .. NameEnd(fields, at, k + 1) : text[b] \notin Special
  BY <1>1, AroundField
<1>5. at[k + 1] + 1 <= Len(text) /\ at[k + 1] < Len(text)
  BY <1>4
<1>6. at[k + 1] + 1 \in (at[k + 1] + 1) .. NameEnd(fields, at, k + 1)
  BY <1>4
<1>7. 1 \in 1 .. Len(sep) /\ (Len(sep) = 2 => 2 \in 1 .. Len(sep))
  <2>1. 1 \in 1 .. 1 /\ 1 \in 1 .. 2 /\ 2 \in 1 .. 2
    OBVIOUS
  <2> QED  BY <1>3, <2>1, Zenon
<1> QED  BY <1>1, <1>2, <1>3, <1>4, <1>5, <1>6, <1>7

\* The name, or the value, of the field k is being read.
InName(at, k) ==
  /\ flag = FALSE
  /\ p = at[k] + 1
  /\ buf \in p .. (NameEnd(fields, at, k) + 1)
InValue(at, k) ==
  /\ p = NameEnd(fields, at, k) + 2
  /\ buf \in p .. (ValueEnd(fields, at, k) + 1)
  /\ key = fields[k].name

\* The array has the first k fields, the last one if several have one name.
ArrayOf(k) ==
  /\ result = [name \in DOMAIN result |-> result[name]]
  /\ DOMAIN result = {fields[j].name : j \in 1 .. k}
  /\ \A name \in DOMAIN result : \E j \in 1 .. k :
       /\ fields[j].name = name /\ result[name] = fields[j].value
       /\ \A i \in 1 .. k : fields[i].name = name => i <= j

\* None of the fields before the k-th has the name wanted or begins like it.
NoneBefore(k) == \A j \in 1 .. (k - 1) : ~BeginsLike(fields[j].name)

\* Where ngx_query_args and ngx_post_args are among n fields.
ReadingArgs(at, n) ==
  \/ n = 0 /\ buf = 1 /\ flag = FALSE /\ ArrayOf(0)
  \/ \E k \in 1 .. n : InName(at, k) /\ ArrayOf(k - 1)
  \/ \E k \in 1 .. n : flag = TRUE /\ InValue(at, k) /\ ArrayOf(k - 1)

\* Where ngx_cookie_get is.
ReadingCookie(at, n) ==
  /\ result = <<>>
  /\ \/ n = 0 /\ buf = 1 /\ flag = FALSE
     \/ \E k \in 1 .. n : InName(at, k) /\ NoneBefore(k)
     \/ \E k \in 1 .. n : /\ InValue(at, k) /\ NoneBefore(k)
                          /\ flag = BeginsLike(fields[k].name)

\* What ngx_cookie_get has returned.
CookieRead(n) ==
  \/ result = <<>> /\ NoneBefore(n + 1)
  \/ \E k \in 1 .. n : /\ NoneBefore(k) /\ BeginsLike(fields[k].name)
                       /\ result = [name \in {wanted} |-> fields[k].value]

\* The text is the fields that were sent, whichever separator they were sent with.
TextOf(n, sep, at) ==
  /\ sep \in Separator
  /\ at \in [1 .. n -> Nat]
  /\ text \in Seq(Chars)
  /\ Layout(text, fields, sep, at)
  /\ sep[1] = IF Args THEN "&" ELSE ";"

(***************************************************************************)
(* The inductive invariant: the reader is in the name or the value of some *)
(* field, and has stored, or looked at, those before it.                   *)
(***************************************************************************)
IInv ==
  \E n \in Nat :
    /\ fields \in [1 .. n -> Field]
    /\ call \in Call
    /\ call = "post_args" => chain \in Chains(Joined(fields, <<"&">>))
    /\ state \in {"called", "parsing", "done"}
    /\ state = "called" => buf = 1 /\ p = 1 /\ flag = FALSE /\ result = <<>>
    /\ state = "parsing" =>
         \E sep, at : /\ TextOf(n, sep, at)
                      /\ Args => ReadingArgs(at, n)
                      /\ Cookie => ReadingCookie(at, n)
    /\ state = "done" => (Args => ArrayOf(n)) /\ (Cookie => CookieRead(n))

\* A call is of the one kind or the other.
LEMMA Calls == call \in Call => (Args <=> ~Cookie)
BY DEF Call, Args, Cookie

LEMMA InitIInv == Init => IInv
<1> SUFFICES ASSUME Init PROVE IInv
  OBVIOUS
<1>1. PICK n \in 0 .. MaxFields : fields \in [1 .. n -> Field]
  BY DEF Init
<1>2. MaxFields \in Nat
  BY FieldsAssumption, Zenon
<1>3. n \in Nat
  BY <1>1, <1>2
<1> QED  BY <1>1, <1>3 DEF Init, IInv

(***************************************************************************)
(* A character of the name is followed by another one or by `=', and then  *)
(* the name has been read.                                                 *)
(***************************************************************************)
LEMMA NameRead ==
  ASSUME NEW n \in Nat, fields \in [1 .. n -> Field], NEW sep, NEW at, TextOf(n, sep, at),
         NEW k \in 1 .. n, InName(at, k)
  PROVE  /\ buf \in Nat /\ buf <= Len(text)
         /\ \/ buf <= NameEnd(fields, at, k) /\ text[buf] \notin Special
            \/ /\ buf = NameEnd(fields, at, k) + 1 /\ text[buf] = "="
               /\ Token = fields[k].name
<1> DEFINE a == at[k]
           e == NameEnd(fields, at, k)
           v == ValueEnd(fields, at, k)
<1>1. /\ a \in Nat /\ e \in Nat /\ v \in Nat /\ Len(text) \in Nat
      /\ a < e /\ e < v /\ v <= Len(text)
      /\ \A b \in (a + 1) .. e : text[b] \notin Special
      /\ text[e + 1] = "="
      /\ SubSeq(text, a + 1, e) = fields[k].name
  BY AroundField DEF TextOf
<1>2. p = a + 1 /\ buf \in p .. (e + 1)
  BY DEF InName
<1> HIDE DEF a, e, v
<1>3. buf \in Nat /\ buf <= Len(text)
  BY <1>1, <1>2
<1>4. buf \in (a + 1) .. e \/ (buf = e + 1 /\ buf - 1 = e)
  BY <1>1, <1>2
<1>5. buf \in (a + 1) .. e => buf <= e
  BY <1>1
<1> QED  BY <1>1, <1>2, <1>3, <1>4, <1>5 DEF Token, e

(***************************************************************************)
(* A character of the value is followed by another one, or by a separator  *)
(* or the end of the text, and then the value has been read.               *)
(***************************************************************************)
LEMMA ValueRead ==
  ASSUME NEW n \in Nat, fields \in [1 .. n -> Field], NEW sep, NEW at, TextOf(n, sep, at),
         NEW k \in 1 .. n, InValue(at, k)
  PROVE  /\ buf \in Nat /\ Len(text) \in Nat
         /\ \/ /\ buf <= ValueEnd(fields, at, k) /\ buf <= Len(text)
               /\ text[buf] \notin Special
            \/ /\ buf = ValueEnd(fields, at, k) + 1 /\ Token = fields[k].value
               /\ \/ k # n /\ buf <= Len(text) /\ text[buf] = sep[1]
                  \/ k = n /\ buf = Len(text) + 1
<1> DEFINE e == NameEnd(fields, at, k)
           v == ValueEnd(fields, at, k)
<1>1. /\ e \in Nat /\ v \in Nat /\ Len(text) \in Nat
      /\ e < v /\ v <= Len(text)
      /\ \A b \in (e + 2) .. v : text[b] \notin Special
      /\ SubSeq(text, e + 2, v) = fields[k].value
      /\ k = n => v = Len(text)
  BY AroundField DEF TextOf
<1>2. p = e + 2 /\ buf \in p .. (v + 1)
  BY DEF InValue
<1>3. k # n => text[v + 1] = sep[1] /\ v < Len(text)
  <2> SUFFICES ASSUME k # n PROVE text[v + 1] = sep[1] /\ v < Len(text)
    OBVIOUS
  <2>1. text[v + 1] = sep[1] /\ v + Len(sep) < Len(text) /\ sep \in Separator
    BY BehindField DEF TextOf
  <2>2. Len(sep) \in {1, 2}
    BY <2>1, SeparatorType
  <2> QED  BY <1>1, <2>1, <2>2
<1> HIDE DEF e, v
<1>4. buf \in Nat
  BY <1>1, <1>2
<1>5. (buf \in (e + 2) .. v /\ buf <= v /\ buf <= Len(text)) \/ (buf = v + 1 /\ buf - 1 = v)
  BY <1>1, <1>2
<1>6. v < Len(text) => v + 1 <= Len(text)
  BY <1>1
<1> QED  BY <1>1, <1>2, <1>3, <1>4, <1>5, <1>6 DEF Token, v

\* SkipUnless skips the first character of a value, if it has one.
LEMMA ValueBegins ==
  ASSUME NEW n \in Nat, fields \in [1 .. n -> Field], NEW sep, NEW at, TextOf(n, sep, at),
         NEW k \in 1 .. n, InName(at, k), text[buf] = "=",
         key' = Token, p' = buf + 1, SkipUnless(sep[1], buf + 1), UNCHANGED fields
  PROVE  InValue(at, k)'
<1> DEFINE e == NameEnd(fields, at, k)
           v == ValueEnd(fields, at, k)
<1>1. buf = e + 1 /\ Token = fields[k].name
  BY NameRead DEF Special
<1>2. /\ e \in Nat /\ v \in Nat /\ Len(text) \in Nat /\ e < v /\ v <= Len(text)
      /\ k = n => v = Len(text)
  BY AroundField DEF TextOf
<1>3. k # n => text[v + 1] = sep[1]
  BY BehindField DEF TextOf
<1>4. buf' = IF e + 2 <= Len(text) /\ text[e + 2] # sep[1] THEN e + 3 ELSE e + 2
  <2>1. buf + 1 = e + 2 /\ buf + 1 + 1 = e + 3
    BY <1>1, <1>2
  <2> QED  BY <2>1 DEF SkipUnless
<1> HIDE DEF e, v
<1>5. buf' \in (e + 2) .. (v + 1)
  <2>1. CASE e + 2 <= v
    BY <1>2, <1>4, <2>1
  <2>2. CASE e + 2 = v + 1
    BY <1>2, <1>3, <1>4, <2>2
  <2> QED  BY <1>2, <2>1, <2>2
<1>6. p' = e + 2
  BY <1>1, <1>2
<1>7. key' = fields[k].name
  BY <1>1
<1>8. NameEnd(fields, at, k)' = e /\ ValueEnd(fields, at, k)' = v /\ fields' = fields
  BY DEF NameEnd, ValueEnd, e, v
<1> QED  BY <1>5, <1>6, <1>7, <1>8 DEF InValue

\* Storing the field k replaces the one stored before under its name, if any.
LEMMA StoreField ==
  ASSUME NEW n \in Nat, fields \in [1 .. n -> Field], NEW k \in 1 .. n, ArrayOf(k - 1),
         key = fields[k].name, Token = fields[k].value, result' = Stored, UNCHANGED fields
  PROVE  ArrayOf(k)'
<1> DEFINE name == fields[k].name
<1>0. k - 1 \in Nat /\ \A j : j \in 1 .. k <=> j = k \/ j \in 1 .. (k - 1)
  OBVIOUS
<1>1. Stored = [x \in {name} \cup DOMAIN result |->
                  IF x = name THEN fields[k].value ELSE result[x]]
  BY DEF Stored
<1>2. DOMAIN result = {fields[j].name : j \in 1 .. (k - 1)}
  BY DEF ArrayOf
<1> HIDE DEF name
<1>3. /\ result' = [x \in DOMAIN result' |-> result'[x]]
      /\ DOMAIN result' = {name} \cup DOMAIN result
      /\ \A x \in DOMAIN result' : result'[x] = IF x = name THEN fields[k].value ELSE result[x]
  BY <1>1
<1>4. DOMAIN result' = {fields[j].name : j \in 1 .. k}
  BY <1>0, <1>2, <1>3 DEF name
<1>5. ASSUME NEW x \in DOMAIN result'
      PROVE  \E j \in 1 .. k : /\ fields[j].name = x /\ result'[x] = fields[j].value
                               /\ \A i \in 1 .. k : fields[i].name = x => i <= j
  <2>1. CASE x = name
    <3>1. k \in 1 .. k /\ \A i \in 1 .. k : i <= k
      OBVIOUS
    <3> QED  BY <1>3, <1>5, <2>1, <3>1 DEF name
  <2>2. CASE x # name
    <3>1. x \in DOMAIN result /\ result'[x] = result[x]
      BY <1>3, <1>5, <2>2
    <3>2. PICK j \in 1 .. (k - 1) :
            /\ fields[j].name = x /\ result[x] = fields[j].value
            /\ \A i \in 1 .. (k - 1) : fields[i].name = x => i <= j
      BY <3>1 DEF ArrayOf
    <3> QED  BY <1>0, <2>2, <3>1, <3>2 DEF name
  <2> QED  BY <2>1, <2>2
<1>6. fields' = fields
  OBVIOUS
<1>7. DOMAIN result' = {fields'[j].name : j \in 1 .. k}
  BY <1>4, <1>6
<1>8. \A x \in DOMAIN result' :
        \E j \in 1 .. k : /\ fields'[j].name = x /\ result'[x] = fields'[j].value
                          /\ \A i \in 1 .. k : fields'[i].name = x => i <= j
  BY <1>5, <1>6
<1> QED  BY <1>3, <1>7, <1>8, Zenon DEF ArrayOf

\* A step inside the text of the request leaves it.
LEMMA SameText ==
  ASSUME NEW n, NEW sep, NEW at, TextOf(n, sep, at), UNCHANGED <<inputVars, text>>
  PROVE  TextOf(n, sep, at)' /\ UNCHANGED <<call, fields, wanted, chain>>
<1>1. UNCHANGED <<call, fields, wanted, chain, text>>
  BY DEF inputVars
<1>2. Args' = Args
  BY <1>1 DEF Args
<1>3. Layout(text, fields, sep, at)'
  <2>1. Layout(text, fields, sep, at)
    BY DEF TextOf
  <2> QED  BY <1>1, <2>1
<1> QED  BY <1>1, <1>2, <1>3 DEF TextOf

\* The buffers of a body, one after another, are the body.
LEMMA ChainFlattens ==
  ASSUME NEW S, NEW body \in Seq(S), NEW c \in Chains(body)
  PROVE  FlattenSeq(c) = body
<1>1. CASE c = <<body>>
  <2>1. c \in Seq(Seq(S)) /\ Len(c) = 1 /\ c[1] = body
    BY <1>1
  <2>2. Len(c) # 0
    BY <2>1
  <2>3. PICK flat \in [1 .. Len(c) -> Seq(S)] : flat[1] = c[1] /\ FlattenSeq(c) = flat[Len(c)]
    BY <2>1, <2>2, Flattening
  <2> QED  BY <2>1, <2>3
<1>2. ASSUME NEW i \in 1 .. Len(body),
             c = <<SubSeq(body, 1, i), SubSeq(body, i + 1, Len(body))>>
      PROVE  FlattenSeq(c) = body
  <2>1. SubSeq(body, 1, i) \in Seq(S) /\ SubSeq(body, i + 1, Len(body)) \in Seq(S)
    OBVIOUS
  <2>2. /\ c \in Seq(Seq(S)) /\ Len(c) = 2
        /\ c[1] = SubSeq(body, 1, i) /\ c[2] = SubSeq(body, i + 1, Len(body))
    BY <1>2, <2>1
  <2>3. Len(c) # 0 /\ 2 \in 2 .. 2
    BY <2>2
  <2>4. PICK flat \in [1 .. Len(c) -> Seq(S)] :
          /\ flat[1] = c[1]
          /\ \A j \in 2 .. Len(c) : flat[j] = flat[j - 1] \o c[j]
          /\ FlattenSeq(c) = flat[Len(c)]
    BY <2>2, <2>3, Flattening
  <2>5. FlattenSeq(c) = c[1] \o c[2]
    <3>1. 2 \in 2 .. Len(c) /\ 2 - 1 = 1
      BY <2>2
    <3>2. flat[2] = flat[2 - 1] \o c[2]
      BY <2>4, <3>1, Zenon
    <3> QED  BY <2>2, <2>4, <3>1, <3>2
  <2>6. SubSeq(body, 1, i) \o SubSeq(body, i + 1, Len(body)) = SubSeq(body, 1, Len(body))
    <3>1. 1 \in 1 .. Len(body) + 1 /\ i \in 1 - 1 .. Len(body) /\ Len(body) \in i .. Len(body)
      BY <1>2
    <3> QED  BY <3>1, ConcatAdjacentSubSeq
  <2>7. SubSeq(body, 1, Len(body)) = body
    BY SubSeqFull
  <2> QED  BY <2>2, <2>5, <2>6, <2>7
<1> QED  BY <1>1, <1>2 DEF Chains

(***************************************************************************)
(* The calls find the fields laid out in the text, at the first of them.   *)
(***************************************************************************)
LEMMA StartsStep ==
  ASSUME IInv, QueryArgs \/ PostArgs \/ CookieGet
  PROVE  IInv'
<1>1. PICK n \in Nat :
        /\ fields \in [1 .. n -> Field]
        /\ call \in Call
        /\ call = "post_args" => chain \in Chains(Joined(fields, <<"&">>))
        /\ state = "called" => buf = 1 /\ p = 1 /\ flag = FALSE /\ result = <<>>
  BY DEF IInv
<1>2. ASSUME NEW sep \in Separator, Starts(Joined(fields, sep)),
             sep[1] = IF Args THEN "&" ELSE ";", state = "called"
      PROVE  IInv'
  <2>1. /\ text' = Joined(fields, sep) /\ state' = "parsing"
        /\ UNCHANGED <<call, fields, wanted, chain, buf, p, key, flag, result>>
    BY <1>2 DEF Starts, inputVars
  <2>2. Joined(fields, sep) \in Seq(Chars)
    BY <1>1, JoinedLayout
  <2>3. PICK at \in [1 .. n -> Nat] : Layout(Joined(fields, sep), fields, sep, at)
    BY <1>1, JoinedLayout
  <2>4. Layout(text, fields, sep, at)'
    BY <2>1, <2>3 DEF Layout, NameEnd, ValueEnd
  <2>5. TextOf(n, sep, at)'
    BY <1>2, <2>1, <2>2, <2>4 DEF TextOf, Args
  <2>6. buf = 1 /\ p = 1 /\ flag = FALSE /\ result = <<>>
    BY <1>1, <1>2
  <2>7. CASE n = 0
    <3>1. ArrayOf(0)'
      <4>1. result' = <<>> /\ 1 .. 0 = {}
        BY <2>1, <2>6
      <4>2. <<>> = [x \in DOMAIN <<>> |-> <<>>[x]] /\ DOMAIN <<>> = {}
        OBVIOUS
      <4>3. {fields'[j].name : j \in 1 .. 0} = {}
        BY <4>1
      <4> QED  BY <4>1, <4>2, <4>3 DEF ArrayOf
    <3>2. ReadingArgs(at, n)' /\ ReadingCookie(at, n)'
      BY <2>1, <2>6, <2>7, <3>1 DEF ReadingArgs, ReadingCookie
    <3> QED  BY <1>1, <2>1, <2>5, <3>2 DEF IInv
  <2>8. CASE n # 0
    <3>1. 1 \in 1 .. n /\ Len(fields) # 0
      BY <1>1, <2>8
    <3>2. at[1] = 0
      BY <2>3, <3>1 DEF Layout
    <3>3. NameEnd(fields, at, 1) \in Nat
      <4>1. fields[1] \in Field
        BY <1>1, <3>1
      <4>2. Len(fields[1].name) \in Nat
        BY <4>1, FieldType
      <4> QED  BY <3>2, <4>2 DEF NameEnd
    <3>4. InName(at, 1)'
      <4>1. NameEnd(fields, at, 1)' = NameEnd(fields, at, 1)
        BY <2>1 DEF NameEnd
      <4>2. 1 \in 1 .. (NameEnd(fields, at, 1) + 1)
        BY <3>3
      <4> QED  BY <2>1, <2>6, <3>2, <4>1, <4>2 DEF InName
    <3>5. ArrayOf(1 - 1)'
      <4>1. result' = <<>> /\ 1 .. (1 - 1) = {}
        BY <2>1, <2>6
      <4>2. <<>> = [x \in DOMAIN <<>> |-> <<>>[x]] /\ DOMAIN <<>> = {}
        OBVIOUS
      <4>3. {fields'[j].name : j \in 1 .. (1 - 1)} = {}
        BY <4>1
      <4> QED  BY <4>1, <4>2, <4>3 DEF ArrayOf
    <3>6. NoneBefore(1)'
      <4>1. 1 .. (1 - 1) = {}
        OBVIOUS
      <4> QED  BY <4>1 DEF NoneBefore
    <3>7. ReadingArgs(at, n)' /\ ReadingCookie(at, n)'
      BY <2>1, <2>6, <3>1, <3>4, <3>5, <3>6 DEF ReadingArgs, ReadingCookie
    <3> QED  BY <1>1, <2>1, <2>5, <3>7 DEF IInv
  <2> QED  BY <2>7, <2>8
<1>3. CASE QueryArgs
  <2>1. <<"&">> \in Separator /\ <<"&">>[1] = "&"
    BY DEF Separator
  <2> QED  BY <1>2, <1>3, <2>1 DEF QueryArgs, Args
<1>4. CASE PostArgs
  <2>1. <<"&">> \in Separator /\ <<"&">>[1] = "&"
    BY DEF Separator
  <2>2. FlattenSeq(chain) = Joined(fields, <<"&">>)
    <3> DEFINE body == Joined(fields, <<"&">>)
    <3>1. body \in Seq(Chars)
      BY <1>1, <2>1, JoinedLayout
    <3>2. chain \in Chains(body)
      BY <1>1, <1>4 DEF PostArgs
    <3> HIDE DEF body
    <3>3. FlattenSeq(chain) = body
      BY <3>1, <3>2, ChainFlattens
    <3> QED  BY <3>3 DEF body
  <2> QED  BY <1>2, <1>4, <2>1, <2>2 DEF PostArgs, Args
<1>5. CASE CookieGet
  <2>1. /\ <<";">> \in Separator /\ <<";">>[1] = ";"
        /\ <<";", " ">> \in Separator /\ <<";", " ">>[1] = ";"
    BY DEF Separator
  <2>2. state = "called" /\ ~Args
    BY <1>5 DEF CookieGet, Args
  <2>3. PICK sep \in {<<";">>, <<";", " ">>} : Starts(Joined(fields, sep))
    BY <1>5 DEF CookieGet
  <2> QED  BY <1>2, <2>1, <2>2, <2>3
<1> QED  BY <1>3, <1>4, <1>5

\* The next character of a name or value is in it, or the first one behind it.
LEMMA NextCharacter ==
  ASSUME NEW n \in Nat, fields \in [1 .. n -> Field], NEW sep, NEW at, TextOf(n, sep, at),
         NEW k \in 1 .. n, buf' = buf + 1, UNCHANGED <<fields, p, key>>
  PROVE  /\ InName(at, k) /\ buf <= NameEnd(fields, at, k) /\ flag' = flag => InName(at, k)'
         /\ InValue(at, k) /\ buf <= ValueEnd(fields, at, k) => InValue(at, k)'
<1> DEFINE e == NameEnd(fields, at, k)
           v == ValueEnd(fields, at, k)
<1>1. at[k] \in Nat /\ e \in Nat /\ v \in Nat
  BY AroundField DEF TextOf
<1>2. NameEnd(fields, at, k)' = e /\ ValueEnd(fields, at, k)' = v /\ fields' = fields
  BY DEF NameEnd, ValueEnd
<1>3. \A b, c, d \in Nat : b \in c .. (d + 1) /\ b <= d => b + 1 \in c .. (d + 1)
  OBVIOUS
<1>4. ASSUME InName(at, k), buf <= e, flag' = flag PROVE InName(at, k)'
  <2>1. buf \in p .. (e + 1) /\ p \in Nat /\ buf \in Nat
    BY <1>1, <1>4 DEF InName
  <2> HIDE DEF e
  <2>2. buf' \in p .. (e + 1)
    BY <1>1, <1>3, <1>4, <2>1
  <2> QED  BY <1>2, <1>4, <2>2 DEF InName
<1>5. ASSUME InValue(at, k), buf <= v PROVE InValue(at, k)'
  <2>1. buf \in p .. (v + 1) /\ p \in Nat /\ buf \in Nat
    BY <1>1, <1>5 DEF InValue
  <2> HIDE DEF v
  <2>2. buf' \in p .. (v + 1)
    BY <1>1, <1>3, <1>5, <2>1
  <2> QED  BY <1>2, <1>5, <2>2 DEF InValue
<1> QED  BY <1>4, <1>5

(***************************************************************************)
(* Behind the separator, the name of the next field begins; its first      *)
(* character is skipped.                                                   *)
(***************************************************************************)
LEMMA NameBegins ==
  ASSUME NEW n \in Nat, fields \in [1 .. n -> Field], NEW sep, NEW at, TextOf(n, sep, at),
         NEW k \in 1 .. n, at[k] < Len(text), text[at[k] + 1] \notin Special,
         p' = at[k] + 1, buf' = at[k] + 2, flag' = FALSE, UNCHANGED fields
  PROVE  InName(at, k)'
<1> DEFINE e == NameEnd(fields, at, k)
<1>1. at[k] \in Nat /\ e \in Nat /\ at[k] < e
  BY AroundField DEF TextOf
<1>2. NameEnd(fields, at, k)' = e
  BY DEF NameEnd
<1> HIDE DEF e
<1>3. buf' \in p' .. (e + 1)
  BY <1>1
<1> QED  BY <1>2, <1>3 DEF InName

(***************************************************************************)
(* ngx_query_args and ngx_post_args read the next character.               *)
(***************************************************************************)
LEMMA ArgsStep ==
  ASSUME IInv, ArgsName \/ ArgsValue \/ ArgsOther \/ ArgsEnd
  PROVE  IInv'
<1>1. Args /\ state = "parsing" /\ UNCHANGED <<inputVars, text>>
  BY DEF ArgsName, ArgsValue, ArgsOther, ArgsEnd, More
<1>2. PICK n \in Nat :
        /\ fields \in [1 .. n -> Field]
        /\ call \in Call
        /\ call = "post_args" => chain \in Chains(Joined(fields, <<"&">>))
        /\ \E sep, at : TextOf(n, sep, at) /\ ReadingArgs(at, n)
  BY <1>1 DEF IInv
<1>3. PICK sep, at : TextOf(n, sep, at) /\ ReadingArgs(at, n)
  BY <1>2
<1>4. TextOf(n, sep, at)' /\ UNCHANGED <<call, fields, wanted, chain>>
  BY <1>1, <1>3, SameText
<1>5. Args' /\ ~Cookie'
  BY <1>1, <1>2, <1>4, Calls DEF Args, Cookie
<1>6. ASSUME state' = "parsing", ReadingArgs(at, n)' PROVE IInv'
  BY <1>2, <1>4, <1>5, <1>6 DEF IInv
<1>7. ASSUME state' = "done", ArrayOf(n)' PROVE IInv'
  BY <1>2, <1>4, <1>5, <1>7 DEF IInv
<1>8. ASSUME NEW j, ArrayOf(j), UNCHANGED result PROVE ArrayOf(j)'
  BY <1>4, <1>8 DEF ArrayOf
<1>9. sep[1] = "&" /\ Len(sep) = 1 /\ Len(fields) = n /\ Len(text) \in Nat
  <2>1. sep \in Separator /\ sep[1] = "&" /\ text \in Seq(Chars)
    BY <1>1, <1>3 DEF TextOf
  <2>2. Len(sep) = 1
    BY <2>1, SeparatorType
  <2>3. Len(fields) = n
    BY <1>2
  <2>4. Len(text) \in Nat
    BY <2>1
  <2> QED  BY <2>1, <2>2, <2>3, <2>4
<1>10. CASE n = 0 /\ buf = 1 /\ flag = FALSE /\ ArrayOf(0)
  <2>1. Len(text) = 0
    BY <1>3, <1>9, <1>10 DEF TextOf, Layout
  <2>2. ArgsEnd
    <3>1. ~(buf <= Len(text))
      BY <1>10, <2>1
    <3> QED  BY <3>1 DEF ArgsName, ArgsValue, ArgsOther, More
  <2>3. UNCHANGED result /\ state' = "done"
    BY <1>10, <2>2 DEF ArgsEnd
  <2> QED  BY <1>7, <1>8, <1>10, <2>3
<1>11. ASSUME NEW k \in 1 .. n, InName(at, k), ArrayOf(k - 1) PROVE IInv'
  <2>1. /\ buf \in Nat /\ buf <= Len(text)
        /\ \/ buf <= NameEnd(fields, at, k) /\ text[buf] \notin Special
           \/ buf = NameEnd(fields, at, k) + 1 /\ text[buf] = "=" /\ Token = fields[k].name
    BY <1>2, <1>3, <1>11, NameRead
  <2>2. ~ArgsEnd /\ More
    BY <1>1, <2>1 DEF ArgsEnd, More
  <2>3. CASE buf <= NameEnd(fields, at, k) /\ text[buf] \notin Special
    <3>1. /\ buf' = buf + 1 /\ UNCHANGED <<p, key, flag, result, state>>
      BY <2>2, <2>3 DEF ArgsName, ArgsValue, ArgsOther, Special
    <3>2. InName(at, k)'
      BY <1>2, <1>3, <1>4, <1>11, <2>3, <3>1, NextCharacter
    <3> QED  BY <1>1, <1>6, <1>8, <1>11, <3>1, <3>2 DEF ReadingArgs
  <2>4. CASE text[buf] = "="
    <3>1. /\ key' = Token /\ p' = buf + 1 /\ flag' = TRUE
          /\ SkipUnless("&", buf + 1) /\ UNCHANGED <<result, state>>
      BY <2>2, <2>4 DEF ArgsName, ArgsValue, ArgsOther
    <3>2. SkipUnless(sep[1], buf + 1)
      BY <1>9, <3>1
    <3>3. InValue(at, k)'
      BY <1>2, <1>3, <1>4, <1>11, <2>4, <3>1, <3>2, ValueBegins
    <3> QED  BY <1>1, <1>6, <1>8, <1>11, <3>1, <3>3 DEF ReadingArgs
  <2> QED  BY <2>1, <2>3, <2>4
<1>12. ASSUME NEW k \in 1 .. n, flag = TRUE, InValue(at, k), ArrayOf(k - 1) PROVE IInv'
  <2>1. /\ buf \in Nat /\ Len(text) \in Nat
        /\ \/ /\ buf <= ValueEnd(fields, at, k) /\ buf <= Len(text)
              /\ text[buf] \notin Special
           \/ /\ buf = ValueEnd(fields, at, k) + 1 /\ Token = fields[k].value
              /\ \/ k # n /\ buf <= Len(text) /\ text[buf] = sep[1]
                 \/ k = n /\ buf = Len(text) + 1
    BY <1>2, <1>3, <1>12, ValueRead
  <2>2. key = fields[k].name
    BY <1>12 DEF InValue
  <2>3. CASE /\ buf <= ValueEnd(fields, at, k) /\ buf <= Len(text)
             /\ text[buf] \notin Special
    <3>1. /\ buf' = buf + 1 /\ UNCHANGED <<p, key, flag, result, state>>
      BY <2>3 DEF ArgsName, ArgsValue, ArgsOther, ArgsEnd, More, Special
    <3>2. InValue(at, k)'
      BY <1>2, <1>3, <1>4, <1>12, <2>3, <3>1, NextCharacter
    <3> QED  BY <1>1, <1>6, <1>8, <1>12, <3>1, <3>2 DEF ReadingArgs
  <2>4. CASE /\ buf = ValueEnd(fields, at, k) + 1 /\ Token = fields[k].value
             /\ k # n /\ buf <= Len(text) /\ text[buf] = sep[1]
    <3>1. /\ result' = Stored /\ p' = buf + 1 /\ flag' = FALSE
          /\ SkipUnless("&", buf + 1) /\ UNCHANGED state
      BY <1>9, <2>4 DEF ArgsName, ArgsValue, ArgsOther, ArgsEnd, More
    <3>2. ArrayOf(k)'
      BY <1>2, <1>4, <1>12, <2>2, <2>4, <3>1, StoreField
    <3>3. /\ k + 1 \in 1 .. n
          /\ at[k + 1] = ValueEnd(fields, at, k) + Len(sep)
          /\ at[k + 1] + 1 <= Len(text)
          /\ text[at[k + 1] + 1] \notin Special
      BY <1>2, <1>3, <2>4, BehindField DEF TextOf
    <3>4. ValueEnd(fields, at, k) \in Nat
      BY <1>2, <1>3, AroundField DEF TextOf
    <3>5. /\ at[k + 1] = buf /\ buf + 1 <= Len(text) /\ text[buf + 1] # "&"
          /\ at[k + 1] < Len(text)
      <4>1. at[k + 1] = buf
        BY <1>9, <2>4, <3>3, <3>4
      <4>2. buf + 1 <= Len(text) => buf < Len(text)
        BY <1>9, <2>1
      <4> QED  BY <3>3, <4>1, <4>2 DEF Special
    <3>6. buf' = at[k + 1] + 2
      BY <2>1, <3>1, <3>5 DEF SkipUnless
    <3>7. InName(at, k + 1)'
      BY <1>2, <1>3, <1>4, <3>1, <3>3, <3>5, <3>6, NameBegins
    <3>8. k + 1 - 1 = k
      OBVIOUS
    <3>9. ReadingArgs(at, n)'
      BY <3>2, <3>3, <3>7, <3>8 DEF ReadingArgs
    <3> QED  BY <1>1, <1>6, <3>1, <3>9
  <2>5. CASE /\ buf = ValueEnd(fields, at, k) + 1 /\ Token = fields[k].value
             /\ k = n /\ buf = Len(text) + 1
    <3>1. ~More
      BY <2>1, <2>5 DEF More
    <3>2. result' = Stored /\ state' = "done"
      BY <1>12, <3>1 DEF ArgsName, ArgsValue, ArgsOther, ArgsEnd
    <3>3. ArrayOf(k)'
      BY <1>2, <1>4, <1>12, <2>2, <2>5, <3>2, StoreField
    <3> QED  BY <1>7, <2>5, <3>2, <3>3
  <2> QED  BY <2>1, <2>3, <2>4, <2>5
<1> QED  BY <1>3, <1>10, <1>11, <1>12 DEF ReadingArgs

\* Up to a field that is not the one, none has been.
LEMMA NoneBeforeNext ==
  ASSUME NEW k \in Nat, NoneBefore(k), ~BeginsLike(fields[k].name)
  PROVE  NoneBefore(k + 1)
<1>1. \A j \in 1 .. (k + 1 - 1) : j = k \/ j \in 1 .. (k - 1)
  OBVIOUS
<1> QED  BY <1>1 DEF NoneBefore

(***************************************************************************)
(* Behind the separator of cookies, after its blank if it has one, is the  *)
(* name of the next cookie.                                                *)
(***************************************************************************)
LEMMA BlankSkipped ==
  ASSUME NEW n \in Nat, fields \in [1 .. n -> Field], NEW sep, NEW at, TextOf(n, sep, at),
         NEW k \in 1 .. n, k # n, buf = ValueEnd(fields, at, k) + 1
  PROVE  /\ k + 1 \in 1 .. n /\ at[k + 1] \in Nat
         /\ at[k + 1] < Len(text) /\ text[at[k + 1] + 1] \notin Special
         /\ (IF buf + 1 <= Len(text) /\ text[buf + 1] = " " THEN buf + 2 ELSE buf + 1)
              = at[k + 1] + 1
<1> DEFINE v == ValueEnd(fields, at, k)
           a == at[k + 1]
           l == Len(text)
<1>1. /\ k + 1 \in 1 .. n
      /\ Len(sep) = 2 => text[v + 2] = " "
      /\ a = v + Len(sep)
      /\ text[a + 1] \notin Special
      /\ v + Len(sep) < l
  BY BehindField DEF TextOf
<1>2. Len(sep) \in {1, 2}
  BY SeparatorType DEF TextOf
<1>3. v \in Nat /\ l \in Nat
  BY AroundField DEF TextOf
<1>4. buf = v + 1
  OBVIOUS
<1> HIDE DEF v, a, l
<1>5. CASE Len(sep) = 2
  <2>1. a = v + 2 /\ v + 2 < l /\ text[v + 2] = " "
    BY <1>1, <1>5
  <2>a. \A w, m \in Nat : w + 2 < m => /\ w + 2 \in Nat /\ w + 2 <= m
                                       /\ w + 1 + 1 = w + 2 /\ w + 1 + 2 = w + 3
                                       /\ w + 2 + 1 = w + 3
    OBVIOUS
  <2>2. a \in Nat /\ a < l /\ buf + 1 = v + 2 /\ buf + 2 = v + 3 /\ a + 1 = v + 3 /\ v + 2 <= l
    BY <1>3, <1>4, <2>1, <2>a, Zenon
  <2> QED  BY <1>1, <2>1, <2>2 DEF a, l
<1>6. CASE Len(sep) = 1
  <2>1. a = v + 1 /\ v + 1 < l
    BY <1>1, <1>6
  <2>2. a \in Nat /\ a < l /\ buf + 1 = a + 1
    BY <1>3, <1>4, <2>1
  <2>3. text[a + 1] # " "
    BY <1>1 DEF Special
  <2> QED  BY <1>1, <2>1, <2>2, <2>3 DEF a, l
<1> QED  BY <1>2, <1>5, <1>6

\* What is asked for and what was sent stay.
LEMMA SameQuestion ==
  ASSUME UNCHANGED <<fields, wanted>>
  PROVE  /\ \A k : BeginsLike(fields[k].name)' = BeginsLike(fields[k].name)
         /\ \A j : NoneBefore(j)' = NoneBefore(j)
BY DEF BeginsLike, Folded, NoneBefore

(***************************************************************************)
(* ngx_cookie_get reads the next character.                                *)
(***************************************************************************)
LEMMA CookieStep ==
  ASSUME IInv, CookieName \/ CookieFound \/ CookieNext \/ CookieOther \/ CookieEnd
  PROVE  IInv'
<1>1. Cookie /\ state = "parsing" /\ UNCHANGED <<inputVars, text>>
  BY DEF CookieName, CookieFound, CookieNext, CookieOther, CookieEnd, More
<1>2. PICK n \in Nat :
        /\ fields \in [1 .. n -> Field]
        /\ call \in Call
        /\ call = "post_args" => chain \in Chains(Joined(fields, <<"&">>))
        /\ \E sep, at : TextOf(n, sep, at) /\ ReadingCookie(at, n)
  BY <1>1 DEF IInv
<1>3. PICK sep, at : TextOf(n, sep, at) /\ ReadingCookie(at, n)
  BY <1>2
<1>4. TextOf(n, sep, at)' /\ UNCHANGED <<call, fields, wanted, chain>>
  BY <1>1, <1>3, SameText
<1>5. Cookie' /\ ~Args' /\ ~Args
  BY <1>1, <1>2, <1>4, Calls DEF Args, Cookie
<1>6. ASSUME state' = "parsing", ReadingCookie(at, n)' PROVE IInv'
  BY <1>2, <1>4, <1>5, <1>6 DEF IInv
<1>7. ASSUME state' = "done", CookieRead(n)' PROVE IInv'
  BY <1>2, <1>4, <1>5, <1>7 DEF IInv
<1>8. /\ \A j : NoneBefore(j)' = NoneBefore(j)
      /\ \A k : BeginsLike(fields[k].name)' = BeginsLike(fields[k].name)
  BY <1>4, SameQuestion
<1>9. /\ sep \in Separator /\ sep[1] = ";" /\ Len(sep) \in {1, 2}
      /\ Len(fields) = n /\ Len(text) \in Nat /\ result = <<>>
  <2>1. sep \in Separator /\ sep[1] = ";" /\ text \in Seq(Chars)
    BY <1>3, <1>5 DEF TextOf
  <2>2. Len(sep) \in {1, 2}
    BY <2>1, SeparatorType
  <2>3. Len(fields) = n
    BY <1>2
  <2>4. Len(text) \in Nat
    BY <2>1, LenProperties, Zenon
  <2> QED  BY <1>3, <2>1, <2>2, <2>3, <2>4 DEF ReadingCookie
<1>10. CASE n = 0 /\ buf = 1 /\ flag = FALSE
  <2>1. Len(text) = 0
    BY <1>3, <1>9, <1>10 DEF TextOf, Layout
  <2>2. ~(buf <= Len(text))
    BY <1>10, <2>1
  <2>3. result' = <<>> /\ state' = "done"
    BY <1>9, <1>10, <2>2 DEF CookieName, CookieFound, CookieNext, CookieOther, CookieEnd, More
  <2>4. NoneBefore(n + 1)
    BY <1>10 DEF NoneBefore
  <2> QED  BY <1>7, <1>8, <2>3, <2>4 DEF CookieRead
<1>11. ASSUME NEW k \in 1 .. n, InName(at, k), NoneBefore(k) PROVE IInv'
  <2>1. /\ buf \in Nat /\ buf <= Len(text)
        /\ \/ buf <= NameEnd(fields, at, k) /\ text[buf] \notin Special
           \/ buf = NameEnd(fields, at, k) + 1 /\ text[buf] = "=" /\ Token = fields[k].name
    BY <1>2, <1>3, <1>11, NameRead
  <2>2. ~CookieEnd /\ More /\ flag = FALSE
    BY <1>1, <1>11, <2>1 DEF CookieEnd, More, InName
  <2>3. CASE buf <= NameEnd(fields, at, k) /\ text[buf] \notin Special
    <3>1. /\ buf' = buf + 1 /\ UNCHANGED <<p, key, flag, result, state>>
      BY <2>2, <2>3 DEF CookieName, CookieFound, CookieNext, CookieOther, Special
    <3>2. InName(at, k)'
      BY <1>2, <1>3, <1>4, <1>11, <2>3, <3>1, NextCharacter
    <3> QED  BY <1>1, <1>6, <1>8, <1>9, <1>11, <3>1, <3>2 DEF ReadingCookie
  <2>4. CASE text[buf] = "="
    <3>0. Token = fields[k].name
      BY <2>1, <2>4 DEF Special
    <3>1. /\ key' = Token /\ p' = buf + 1 /\ flag' = (flag \/ SameName)
          /\ SkipUnless(";", buf + 1) /\ UNCHANGED <<result, state>>
      BY <2>2, <2>4 DEF CookieName, CookieFound, CookieNext, CookieOther
    <3>2. SkipUnless(sep[1], buf + 1)
      BY <1>9, <3>1
    <3>3. InValue(at, k)'
      BY <1>2, <1>3, <1>4, <1>11, <2>4, <3>1, <3>2, ValueBegins
    <3>4. flag' = BeginsLike(fields[k].name)
      BY <2>2, <3>0, <3>1 DEF SameName, BeginsLike
    <3>5. flag' = BeginsLike(fields[k].name)'
      BY <1>8, <3>4
    <3> QED  BY <1>1, <1>6, <1>8, <1>9, <1>11, <3>1, <3>3, <3>5 DEF ReadingCookie
  <2> QED  BY <2>1, <2>3, <2>4
<1>12. ASSUME NEW k \in 1 .. n, InValue(at, k), NoneBefore(k),
              flag = BeginsLike(fields[k].name)
       PROVE  IInv'
  <2>1. /\ buf \in Nat /\ Len(text) \in Nat
        /\ \/ /\ buf <= ValueEnd(fields, at, k) /\ buf <= Len(text)
              /\ text[buf] \notin Special
           \/ /\ buf = ValueEnd(fields, at, k) + 1 /\ Token = fields[k].value
              /\ \/ k # n /\ buf <= Len(text) /\ text[buf] = sep[1]
                 \/ k = n /\ buf = Len(text) + 1
    BY <1>2, <1>3, <1>12, ValueRead
  <2>2. ASSUME flag, Token = fields[k].value, Found PROVE IInv'
    <3>1. result' = [name \in {wanted'} |-> fields'[k].value] /\ state' = "done"
      BY <1>4, <2>2 DEF Found
    <3>2. BeginsLike(fields[k].name)'
      BY <1>8, <1>12, <2>2
    <3>3. CookieRead(n)'
      BY <1>8, <1>12, <3>1, <3>2 DEF CookieRead
    <3> QED  BY <1>7, <3>1, <3>3
  <2>3. CASE /\ buf <= ValueEnd(fields, at, k) /\ buf <= Len(text)
             /\ text[buf] \notin Special
    <3>1. /\ buf' = buf + 1 /\ UNCHANGED <<p, key, flag, result, state>>
      BY <2>3 DEF CookieName, CookieFound, CookieNext, CookieOther, CookieEnd, More, Special
    <3>2. InValue(at, k)'
      BY <1>2, <1>3, <1>4, <1>12, <2>3, <3>1, NextCharacter
    <3>3. flag' = BeginsLike(fields[k].name)'
      BY <1>8, <1>12, <3>1
    <3> QED  BY <1>1, <1>6, <1>8, <1>9, <1>12, <3>1, <3>2, <3>3 DEF ReadingCookie
  <2>4. CASE /\ buf = ValueEnd(fields, at, k) + 1 /\ Token = fields[k].value
             /\ k # n /\ buf <= Len(text) /\ text[buf] = sep[1]
    <3>1. CASE flag
      <4>1. Found
        BY <1>9, <2>4, <3>1
        DEF CookieName, CookieFound, CookieNext, CookieOther, CookieEnd, More
      <4> QED  BY <2>2, <2>4, <3>1, <4>1
    <3>2. CASE ~flag
      <4>1. CookieNext
        BY <1>9, <2>4, <3>2
        DEF CookieName, CookieFound, CookieNext, CookieOther, CookieEnd, More
      <4> DEFINE blank == buf + 1 <= Len(text) /\ text[buf + 1] = " "
                 i == IF blank THEN buf + 2 ELSE buf + 1
      <4>2. /\ k + 1 \in 1 .. n /\ at[k + 1] \in Nat
            /\ at[k + 1] < Len(text) /\ text[at[k + 1] + 1] \notin Special
            /\ i = at[k + 1] + 1
        BY <1>2, <1>3, <2>4, BlankSkipped
      <4>5. p' = i /\ buf' = IF i <= Len(text) THEN i + 1 ELSE i
        BY <4>1 DEF CookieNext
      <4>6. flag' = FALSE /\ UNCHANGED <<result, state>>
        BY <1>12, <3>2, <4>1 DEF CookieNext, BeginsLike
      <4> HIDE DEF i, blank
      <4>7. \A a, l \in Nat : a < l => a + 1 <= l /\ a + 1 + 1 = a + 2
        OBVIOUS
      <4>8. p' = at[k + 1] + 1 /\ buf' = at[k + 1] + 2
        BY <1>9, <4>2, <4>5, <4>7, Zenon
      <4>9. InName(at, k + 1)'
        BY <1>2, <1>3, <1>4, <4>2, <4>6, <4>8, NameBegins
      <4>10. NoneBefore(k + 1)
        BY <1>12, <3>2, NoneBeforeNext
      <4> QED  BY <1>1, <1>6, <1>8, <1>9, <4>2, <4>6, <4>9, <4>10 DEF ReadingCookie
    <3> QED  BY <3>1, <3>2
  <2>5. CASE /\ buf = ValueEnd(fields, at, k) + 1 /\ Token = fields[k].value
             /\ k = n /\ buf = Len(text) + 1
    <3>1. ~More
      BY <2>1, <2>5 DEF More
    <3>2. CookieEnd
      BY <3>1 DEF CookieName, CookieFound, CookieNext, CookieOther
    <3>3. CASE flag
      BY <2>2, <2>5, <3>2, <3>3 DEF CookieEnd
    <3>4. CASE ~flag
      <4>1. state' = "done" /\ result' = <<>>
        BY <1>9, <3>2, <3>4 DEF CookieEnd
      <4>2. NoneBefore(n + 1)
        BY <1>12, <2>5, <3>4, NoneBeforeNext
      <4> QED  BY <1>7, <1>8, <4>1, <4>2 DEF CookieRead
    <3> QED  BY <3>3, <3>4
  <2> QED  BY <2>1, <2>3, <2>4, <2>5
<1> QED  BY <1>3, <1>10, <1>11, <1>12 DEF ReadingCookie

\* Every step keeps the invariant.
LEMMA NextIInv == IInv /\ [Next]_vars => IInv'
<1> SUFFICES ASSUME IInv, [Next]_vars PROVE IInv'
  OBVIOUS
<1>1. CASE QueryArgs \/ PostArgs \/ CookieGet
  BY <1>1, StartsStep
<1>2. CASE ArgsName \/ ArgsValue \/ ArgsOther \/ ArgsEnd
  BY <1>2, ArgsStep
<1>3. CASE CookieName \/ CookieFound \/ CookieNext \/ CookieOther \/ CookieEnd
  BY <1>3, CookieStep
<1>4. CASE UNCHANGED vars
  <2>1. UNCHANGED <<call, fields, wanted, chain, text, buf, p, key, flag, result, state>>
    BY <1>4 DEF vars, inputVars
  <2>2. \A n, sep, at : TextOf(n, sep, at) => TextOf(n, sep, at)'
    BY <2>1, SameText DEF inputVars
  <2>3. \A at, n : ReadingArgs(at, n)' = ReadingArgs(at, n)
    BY <2>1 DEF ReadingArgs, InName, InValue, ArrayOf, NameEnd, ValueEnd
  <2>4. \A at, n : ReadingCookie(at, n)' = ReadingCookie(at, n)
    BY <2>1, SameQuestion DEF ReadingCookie, InName, InValue, NameEnd, ValueEnd
  <2>5. \A n : ArrayOf(n)' = ArrayOf(n) /\ CookieRead(n)' = CookieRead(n)
    BY <2>1, SameQuestion DEF ArrayOf, CookieRead
  <2> QED  BY <2>1, <2>2, <2>3, <2>4, <2>5 DEF IInv, Args, Cookie
<1> QED  BY <1>1, <1>2, <1>3, <1>4 DEF Next, Done

LEMMA Invariance == Spec => []IInv
BY InitIInv, NextIInv, PTL DEF Spec

-----------------------------------------------------------------------------

(***************************************************************************)
(* For any fields and any cut of the body into buffers, ngx_query_args and *)
(* ngx_post_args return each name once, with the value it was given last.  *)
(***************************************************************************)
THEOREM ArgsCorrect == Spec => []ArgsAreFields
<1>1. IInv => ArgsAreFields
  <2> SUFFICES ASSUME IInv, Args, state = "done"
               PROVE  result = [name \in {fields[k].name : k \in DOMAIN fields} |->
                                  fields[LastNamed(name)].value]
    BY DEF ArgsAreFields
  <2>1. PICK n \in Nat : fields \in [1 .. n -> Field] /\ ArrayOf(n)
    BY DEF IInv
  <2>2. DOMAIN fields = 1 .. n
    BY <2>1
  <2>3. DOMAIN result = {fields[k].name : k \in DOMAIN fields}
    BY <2>1, <2>2 DEF ArrayOf
  <2>4. ASSUME NEW name \in DOMAIN result
        PROVE  result[name] = fields[LastNamed(name)].value
    <3> DEFINE LastOne(k) == /\ fields[k].name = name
                             /\ \A j \in DOMAIN fields : fields[j].name = name => j <= k
    <3>1. PICK j \in 1 .. n : LastOne(j) /\ result[name] = fields[j].value
      BY <2>1, <2>2 DEF ArrayOf
    <3>2. LastNamed(name) \in DOMAIN fields /\ LastOne(LastNamed(name))
      <4>1. LastNamed(name) = CHOOSE k \in DOMAIN fields : LastOne(k)
        BY Zenon DEF LastNamed
      <4>2. \E k \in DOMAIN fields : LastOne(k)
        BY <2>2, <3>1
      <4> HIDE DEF LastOne
      <4> QED  BY <4>1, <4>2, Zenon
    <3>3. LastNamed(name) = j
      BY <2>2, <3>1, <3>2
    <3> QED  BY <3>1, <3>3
  <2>5. result = [name \in DOMAIN result |-> result[name]]
    BY <2>1 DEF ArrayOf
  <2> QED  BY <2>3, <2>4, <2>5
<1> QED  BY <1>1, Invariance, PTL

(***************************************************************************)
(* For any cookies, with or without blanks between them, ngx_cookie_get    *)
(* returns the first of that name, unless one whose name begins like it,   *)
(* in capitals or not, comes before; and nothing if there is neither.      *)
(***************************************************************************)
THEOREM CookieCorrect == Spec => []CookieIsField
<1>1. IInv => CookieIsField
  <2> SUFFICES ASSUME IInv, Cookie, state = "done",
                      \A j \in Alike : \E k \in Named : k < j
               PROVE  IF Named = {} THEN result = <<>>
                      ELSE \E k \in Named :
                             /\ \A j \in Named : k <= j
                             /\ result = [name \in {wanted} |-> fields[k].value]
    BY DEF CookieIsField
  <2>1. PICK n \in Nat : fields \in [1 .. n -> Field] /\ CookieRead(n)
    BY DEF IInv
  <2>2. Named \subseteq 1 .. n /\ Alike \subseteq 1 .. n
    BY <2>1 DEF Named, Alike
  <2>3. \A k \in Named : BeginsLike(fields[k].name)
    BY DEF Named, BeginsLike
  <2>4. \A k \in 1 .. n : BeginsLike(fields[k].name) => k \in Named \/ k \in Alike
    BY <2>1 DEF Named, Alike
  <2>5. CASE result = <<>> /\ NoneBefore(n + 1)
    <3>1. \A j \in 1 .. n : ~BeginsLike(fields[j].name)
      BY <2>5 DEF NoneBefore
    <3> QED  BY <2>2, <2>3, <2>5, <3>1
  <2>6. ASSUME NEW k \in 1 .. n, NoneBefore(k), BeginsLike(fields[k].name),
               result = [name \in {wanted} |-> fields[k].value]
        PROVE  \E i \in Named : /\ \A j \in Named : i <= j
                                /\ result = [name \in {wanted} |-> fields[i].value]
    <3>1. \A j \in Named : j \in Nat /\ ~(j < k)
      BY <2>2, <2>3, <2>6 DEF NoneBefore
    <3>2. k \in Named
      BY <2>4, <2>6, <3>1
    <3> QED  BY <2>6, <3>1, <3>2
  <2> QED  BY <2>1, <2>5, <2>6 DEF CookieRead
<1> QED  BY <1>1, Invariance, PTL

=============================================================================
