------------------------------ MODULE Induction ------------------------------
(***************************************************************************)
(* Induction over the natural numbers, for sets rather than predicates,    *)
(* from the pigeonhole principle: a set of naturals that is not empty and  *)
(* that has the predecessor of each of its elements cannot be finite.      *)
(***************************************************************************)
EXTENDS Integers, FiniteSetTheorems, TLAPS

(***************************************************************************)
(* A set with 0 and the successor of each of its numbers has all numbers.  *)
(* If k were missing, n -> n - 1 would map the missing numbers up to k one *)
(* to one to themselves without k.                                         *)
(***************************************************************************)
LEMMA NatSetInduction ==
  ASSUME NEW P, 0 \in P, \A n \in Nat : n \in P => n + 1 \in P
  PROVE  \A n \in Nat : n \in P
<1> SUFFICES ASSUME NEW k \in Nat, k \notin P PROVE FALSE
  OBVIOUS
<1> DEFINE S == {n \in 0 .. k : n \notin P}
           down == [n \in S |-> n - 1]
<1>1. S \subseteq 0 .. k /\ k \in S
  OBVIOUS
<1>2. IsFiniteSet(S) /\ Cardinality(S) \in Nat
  <2> HIDE DEF S
  <2>1. IsFiniteSet(0 .. k)
    BY FS_Interval
  <2>2. IsFiniteSet(S)
    BY <1>1, <2>1, FS_Subset
  <2> QED  BY <2>2, FS_CardinalityType
<1>3. \A n \in S : n - 1 \in S \ {k}
  OBVIOUS
<1>4. down \in [S -> S \ {k}]
  BY <1>3
<1>5. IsFiniteSet(S \ {k}) /\ Cardinality(S \ {k}) = Cardinality(S) - 1
  BY <1>1, <1>2, FS_RemoveElement
<1>6. \E m, n \in S : m # n /\ down[m] = down[n]
  <2> HIDE DEF S, down
  <2> QED  BY <1>2, <1>4, <1>5, FS_PigeonHole
<1> QED  BY <1>6

=============================================================================
