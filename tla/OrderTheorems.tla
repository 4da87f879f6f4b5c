---------------------------- MODULE OrderTheorems ----------------------------
(* Facts about Max and Min of FiniteSetsExt, which are CHOOSE expressions:  *)
(* they denote a greatest or least element only where one exists; and about *)
(* the elements of a sequence.                                              *)
EXTENDS Integers, Sequences, FiniteSetsExt, WellFoundedInduction, TLAPS

\* Every non-empty set of naturals has a least element.
LEMMA LeastNatural ==
    ASSUME NEW S \in SUBSET Nat, S # {}
    PROVE  \E x \in S : \A y \in S : x <= y
<1> DEFINE R == OpToRel(<, Nat)
<1>1. PICK x \in S : \A y \in S : ~(<<y, x>> \in R)
  BY NatLessThanWellFounded, WFMin, Zenon
<1>2. \A y \in S : ~(y < x)
  BY <1>1 DEF OpToRel
<1> QED BY <1>2

\* Max and Min of two naturals.
LEMMA PairBounds ==
    ASSUME NEW a \in Nat, NEW b \in Nat
    PROVE  /\ Max({a, b}) \in {a, b} /\ a <= Max({a, b}) /\ b <= Max({a, b})
           /\ Min({a, b}) \in {a, b} /\ Min({a, b}) <= a /\ Min({a, b}) <= b
<1>1. \E x \in {a, b} : \A y \in {a, b} : x >= y
  OBVIOUS
<1>2. \E x \in {a, b} : \A y \in {a, b} : x =< y
  OBVIOUS
<1>3. Max({a, b}) \in {a, b} /\ \A y \in {a, b} : Max({a, b}) >= y
  BY <1>1 DEF Max
<1>4. Min({a, b}) \in {a, b} /\ \A y \in {a, b} : Min({a, b}) =< y
  BY <1>2 DEF Min
<1> QED BY <1>3, <1>4

\* Min of a non-empty set of naturals.
LEMMA MinBounds ==
    ASSUME NEW S \in SUBSET Nat, S # {}
    PROVE  Min(S) \in S /\ \A y \in S : Min(S) <= y
<1>1. \E x \in S : \A y \in S : x =< y
  BY LeastNatural
<1> QED BY <1>1 DEF Min

\* Max of a non-empty set of positions of a sequence.
LEMMA MaxPosition ==
    ASSUME NEW n \in Nat, NEW S \in SUBSET (1..n), S # {}
    PROVE  Max(S) \in S /\ \A y \in S : Max(S) >= y
<1> DEFINE D == {n - i : i \in S}
<1>1. D \in SUBSET Nat /\ D # {}
  <2>1. \A i \in S : n - i \in Nat
    OBVIOUS
  <2> QED BY <2>1
<1>2. PICK d \in D : \A y \in D : d <= y
  BY <1>1, LeastNatural
<1>3. PICK i \in S : d = n - i
  BY <1>2
<1>4. \A j \in S : i >= j
  BY <1>2, <1>3
<1>5. \E x \in S : \A y \in S : x >= y
  BY <1>4
<1> QED BY <1>5 DEF Max

\* Max of a non-empty set of naturals that has a bound.
LEMMA BoundedMax ==
    ASSUME NEW S \in SUBSET Nat, S # {}, NEW b \in Nat, \A x \in S : x <= b
    PROVE  Max(S) \in S /\ \A y \in S : Max(S) >= y
<1> DEFINE D == {b - x : x \in S}
<1>1. D \in SUBSET Nat /\ D # {}
  <2>1. \A x \in S : b - x \in Nat
    OBVIOUS
  <2> QED BY <2>1
<1>2. PICK d \in D : \A y \in D : d <= y
  BY <1>1, LeastNatural
<1>3. PICK x \in S : d = b - x
  BY <1>2
<1>4. \A y \in S : x >= y
  BY <1>2, <1>3
<1>5. \E z \in S : \A y \in S : z >= y
  BY <1>4
<1> QED BY <1>5 DEF Max

\* The elements of a sequence over S.
LEMMA SeqElements ==
    ASSUME NEW S, NEW s \in Seq(S)
    PROVE  /\ DOMAIN s = 1..Len(s) /\ Len(s) \in Nat
           /\ \A i \in DOMAIN s : s[i] \in S
  OBVIOUS

\* The elements of a sequence with one more at its end (immutables_.append).
LEMMA AppendElements ==
    ASSUME NEW S, NEW s \in Seq(S), NEW x \in S
    PROVE  /\ Append(s, x) \in Seq(S)
           /\ DOMAIN Append(s, x) = 1..(Len(s) + 1)
           /\ Append(s, x)[Len(s) + 1] = x
           /\ \A i \in DOMAIN s : Append(s, x)[i] = s[i]
  OBVIOUS

\* Appending leaves the first element of a sequence where it is.
LEMMA AppendHead ==
    ASSUME NEW S, NEW s \in Seq(S), NEW x \in S, s # <<>>
    PROVE  Append(s, x) # <<>> /\ Head(Append(s, x)) = Head(s)
  OBVIOUS

\* The elements of a sequence without its first (immutables_.removeAt(0)).
LEMMA TailElements ==
    ASSUME NEW S, NEW s \in Seq(S), s # <<>>
    PROVE  /\ Head(s) = s[1] /\ Head(s) \in S /\ 1 \in DOMAIN s
           /\ Tail(s) \in Seq(S)
           /\ DOMAIN Tail(s) = 1..(Len(s) - 1)
           /\ \A i \in DOMAIN Tail(s) : Tail(s)[i] = s[i + 1] /\ i + 1 \in DOMAIN s
  OBVIOUS
=============================================================================
