----------------------------- MODULE DataLemmas -----------------------------
(* What the proofs need of naturals, finite sets and lists: the elements   *)
(* the CHOOSEs of the embargo timer, of the registry scan and of the       *)
(* packet's listing find, and what becomes of a list of any values.        *)
EXTENDS FiniteSetsExt, FiniteSetTheorems, SequenceTheorems, WellFoundedInduction, TLAPS

(* A set of naturals has a least element; one bounded above, a greatest.   *)
LEMMA Least ==
  ASSUME NEW S \in SUBSET Nat, S # {}
  PROVE  \E x \in S : \A y \in S : x <= y
<1>1. PICK x \in S : \A y \in S : ~ (<<y, x>> \in OpToRel(<, Nat))
  BY NatLessThanWellFounded, WFMin
<1>2. \A y \in S : <<y, x>> \in OpToRel(<, Nat) <=> y < x
  BY DEF OpToRel
<1>3. \A y \in S : ~ (y < x)
  BY <1>1, <1>2
<1>4. \A y \in S : x <= y
  BY <1>3
<1>. QED  BY <1>4

LEMMA Greatest ==
  ASSUME NEW n \in Nat, NEW S \in SUBSET (0..n), S # {}
  PROVE  \E x \in S : \A y \in S : y <= x
<1>. DEFINE T == {n - x : x \in S}
<1>1. T \in SUBSET Nat /\ T # {}
  <2>1. PICK z \in S : TRUE
    OBVIOUS
  <2>2. n - z \in T
    OBVIOUS
  <2>3. \A x \in S : n - x \in Nat
    OBVIOUS
  <2>. QED  BY <2>2, <2>3
<1>2. PICK t \in T : \A u \in T : t <= u
  BY <1>1, Least
<1>3. PICK x \in S : t = n - x
  OBVIOUS
<1>4. \A y \in S : y <= x
  BY <1>2, <1>3
<1>. QED  BY <1>4

(* A finite set of naturals that is not empty has a greatest element.      *)
LEMMA GreatestOfFinite ==
  ASSUME NEW S \in SUBSET Nat, IsFiniteSet(S), S # {}
  PROVE  \E x \in S : \A y \in S : y <= x
<1>1. PICK n \in Nat : \E f : ExistsBijection(1..n, S)
  BY FS_CardinalityType, FS_NatBijection
<1>2. PICK f : f \in Bijection(1..n, S)
  BY <1>1, FS_CardinalityType, FS_NatBijection DEF ExistsBijection
<1>3. f \in [1..n -> S] /\ \A y \in S : \E i \in 1..n : f[i] = y
  BY <1>2 DEF Bijection, Surjection, Injection
<1>. DEFINE Bounded(k) == \E b \in Nat : \A i \in 1..k : f[i] <= b
            Bad == {k \in 0..n : ~Bounded(k)}
<1>4. Bad = {}
  <2>. SUFFICES ASSUME Bad # {} PROVE FALSE
    OBVIOUS
  <2>1. PICK k \in Bad : \A j \in Bad : k <= j
    <3>1. Bad \in SUBSET Nat
      BY <1>1
    <3>. HIDE DEF Bad
    <3>. QED  BY <3>1, Least
  <2>2. k \in 0..n /\ ~Bounded(k)
    BY <2>1
  <2>3. Bounded(0)
    <3>1. \A i \in 1..0 : f[i] <= 0
      OBVIOUS
    <3>. QED  BY <3>1
  <2>4. k \in 1..n
    BY <1>1, <2>2, <2>3
  <2>5. k - 1 \in 0..n /\ ~(k <= k - 1)
    BY <1>1, <2>4
  <2>6. Bounded(k - 1)
    <3>. HIDE DEF Bounded
    <3>. QED  BY <2>1, <2>5
  <2>7. PICK b \in Nat : \A i \in 1..(k - 1) : f[i] <= b
    BY <2>6
  <2>8. ASSUME NEW i \in 1..k PROVE f[i] \in Nat
    <3>1. i \in 1..n
      BY <1>1, <2>4
    <3>2. f[i] \in S
      BY <1>3, <3>1
    <3>. QED  BY <3>2
  <2>9. f[k] \in Nat
    BY <1>1, <2>4, <2>8
  <2>10. ASSUME NEW i \in 1..k PROVE f[i] <= b + f[k]
    <3>1. i = k \/ i \in 1..(k - 1)
      BY <1>1, <2>4
    <3>. QED  BY <2>7, <2>8, <2>9, <3>1
  <2>11. b + f[k] \in Nat
    BY <2>7, <2>9
  <2>. QED  BY <2>2, <2>10, <2>11
<1>5. PICK b \in Nat : \A i \in 1..n : f[i] <= b
  <2>1. n \in 0..n
    BY <1>1
  <2>2. Bounded(n)
    <3>. HIDE DEF Bounded
    <3>. QED  BY <1>4, <2>1
  <2>. QED  BY <2>2
<1>6. S \subseteq 0..b
  BY <1>3, <1>5
<1>. QED  BY <1>6, Greatest

(* Min of the community modules, on naturals.                              *)
LEMMA MinIs ==
  ASSUME NEW S \in SUBSET Nat, S # {}
  PROVE  Min(S) \in S /\ \A y \in S : Min(S) <= y
BY Least DEF Min

-----------------------------------------------------------------------------
(* What Append and EXCEPT make of a list of any values.                    *)
LEMMA Appended ==
  ASSUME NEW s, s \in Seq(Range(s)), NEW x
  PROVE  /\ Append(s, x) \in Seq(Range(Append(s, x)))
         /\ Len(Append(s, x)) = Len(s) + 1 /\ Append(s, x)[Len(s) + 1] = x
         /\ \A i \in 1..Len(s) : Append(s, x)[i] = s[i]
<1>1. s \in Seq(Range(s) \cup {x}) /\ x \in Range(s) \cup {x}
  BY SeqMonotonic
<1>2. Append(s, x) \in Seq(Range(s) \cup {x})
  BY <1>1, AppendProperties
<1>3. Append(s, x) \in Seq(Range(Append(s, x)))
  BY <1>2, SeqOfRange
<1>. QED  BY <1>1, <1>3, AppendProperties

(* An entry of a list is replaced, and nothing else.                       *)
LEMMA Replaced ==
  ASSUME NEW s, s \in Seq(Range(s)), NEW i \in 1..Len(s), NEW x, NEW t, t = [s EXCEPT ![i] = x]
  PROVE  /\ t \in Seq(Range(t)) /\ Len(t) = Len(s)
         /\ t[i] = x /\ \A j \in 1..Len(s) : j # i => t[j] = s[j]
<1>1. s \in Seq(Range(s) \cup {x}) /\ x \in Range(s) \cup {x}
  BY SeqMonotonic
<1>2. /\ t \in Seq(Range(s) \cup {x}) /\ Len(t) = Len(s)
      /\ \A j \in 1..Len(s) : t[j] = IF j = i THEN x ELSE s[j]
  BY <1>1, ExceptSeq
<1>3. t \in Seq(Range(t))
  BY <1>2, SeqOfRange
<1>. QED  BY <1>2, <1>3

=============================================================================
