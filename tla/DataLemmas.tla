----------------------------- MODULE DataLemmas -----------------------------
(***************************************************************************)
(* Lemmas that the proofs of several modules need: about sequences (their   *)
(* parts, numbers that rise in them, how often a value occurs), induction,  *)
(* and folds over finite sets.                                             *)
(***************************************************************************)
EXTENDS Integers, SequencesExt, SequenceTheorems, FiniteSetTheorems,
        WellFoundedInduction, TLAPS

LEMMA HeadTailConcat ==
    ASSUME NEW S, NEW s \in Seq(S), s # <<>>
    PROVE  s = <<Head(s)>> \o Tail(s)
<1> DEFINE t == <<Head(s)>> \o Tail(s)
<1>1. Head(s) = s[1] /\ Head(s) \in S /\ Tail(s) \in Seq(S) /\ <<Head(s)>> \in Seq(S)
  BY HeadTailProperties
<1>2. /\ t \in Seq(S) /\ Len(t) = 1 + Len(Tail(s))
      /\ \A i \in 1 .. 1 + Len(Tail(s)) : t[i] = IF i <= 1 THEN Head(s) ELSE Tail(s)[i - 1]
  BY <1>1, ConcatProperties
<1>3. Len(s) \in Nat \ {0} /\ Len(Tail(s)) = Len(s) - 1
      /\ \A i \in 1 .. Len(Tail(s)) : Tail(s)[i] = s[i + 1]
  BY HeadTailProperties, EmptySeq
<1> HIDE DEF t
<1>4. \A i \in 1 .. Len(s) : s[i] = t[i]
  BY <1>1, <1>2, <1>3
<1> QED BY <1>2, <1>3, <1>4, SeqEqual DEF t

LEMMA ConcatParts ==
    ASSUME NEW S, NEW s \in Seq(S), NEW t \in Seq(S)
    PROVE  /\ s \o t \in Seq(S) /\ Len(s \o t) = Len(s) + Len(t)
           /\ DOMAIN (s \o t) = 1 .. (Len(s) + Len(t))
           /\ \A i \in 1 .. Len(s) : (s \o t)[i] = s[i]
           /\ \A i \in 1 .. Len(t) : (s \o t)[i + Len(s)] = t[i]
           /\ Len(s) \in Nat /\ Len(t) \in Nat
           /\ DOMAIN s = 1..Len(s) /\ DOMAIN t = 1..Len(t)
  OBVIOUS

\* Every place of a concatenation is one of the first or of the second part.
LEMMA PlaceInParts ==
    ASSUME NEW k \in Nat, NEW m \in Nat, NEW i \in 1 .. (k + m)
    PROVE  i \in 1..k \/ \E j \in 1..m : i = j + k
<1>1. CASE i > k
  <2>1. i - k \in 1..m /\ i = (i - k) + k
    BY <1>1
  <2> QED BY <2>1
<1> QED BY <1>1

\* The numbers in a sequence rise.
Rising(s) == \A i, j \in DOMAIN s : i < j => s[i] < s[j]

\* All numbers of one set are below all of another.
Below(S, T) == \A x \in S, y \in T : x < y

LEMMA RisingConcat ==
    ASSUME NEW s \in Seq(Nat), NEW t \in Seq(Nat)
    PROVE  Rising(s \o t) <=> Rising(s) /\ Rising(t) /\ Below(Range(s), Range(t))
<1> DEFINE u == s \o t
<1>1. /\ DOMAIN u = 1 .. (Len(s) + Len(t))
      /\ \A i \in 1 .. Len(s) : u[i] = s[i]
      /\ \A i \in 1 .. Len(t) : u[i + Len(s)] = t[i]
      /\ Len(s) \in Nat /\ Len(t) \in Nat
      /\ DOMAIN s = 1..Len(s) /\ DOMAIN t = 1..Len(t)
  BY ConcatParts
<1>2. Range(s) = {s[i] : i \in 1..Len(s)} /\ Range(t) = {t[i] : i \in 1..Len(t)}
  BY RangeEquality
<1> HIDE DEF u
<1>3. ASSUME Rising(u) PROVE Rising(s) /\ Rising(t) /\ Below(Range(s), Range(t))
  <2>1. Rising(s)
    BY <1>1, <1>3 DEF Rising
  <2>2. ASSUME NEW i \in 1..Len(t), NEW j \in 1..Len(t), i < j PROVE t[i] < t[j]
    <3>1. i + Len(s) \in DOMAIN u /\ j + Len(s) \in DOMAIN u /\ i + Len(s) < j + Len(s)
      BY <1>1, <2>2
    <3>2. u[i + Len(s)] < u[j + Len(s)]
      BY <1>3, <3>1 DEF Rising
    <3> QED BY <1>1, <3>2
  <2>3. ASSUME NEW i \in 1..Len(s), NEW j \in 1..Len(t) PROVE s[i] < t[j]
    <3>1. i \in DOMAIN u /\ j + Len(s) \in DOMAIN u /\ i < j + Len(s)
      BY <1>1
    <3>2. u[i] < u[j + Len(s)]
      BY <1>3, <3>1 DEF Rising
    <3> QED BY <1>1, <3>2
  <2> QED BY <1>1, <1>2, <2>1, <2>2, <2>3 DEF Rising, Below
<1>4. ASSUME Rising(s), Rising(t), Below(Range(s), Range(t)) PROVE Rising(u)
  <2> SUFFICES ASSUME NEW i \in 1 .. (Len(s) + Len(t)), NEW j \in 1 .. (Len(s) + Len(t)), i < j
               PROVE  u[i] < u[j]
    BY <1>1 DEF Rising
  <2>1. CASE i \in 1..Len(s) /\ j \in 1..Len(s)
    BY <1>1, <1>4, <2>1 DEF Rising
  <2>2. ASSUME i \in 1..Len(s), NEW l \in 1..Len(t), j = l + Len(s) PROVE u[i] < u[j]
    BY <1>1, <1>2, <1>4, <2>2 DEF Below
  <2>3. ASSUME NEW k \in 1..Len(t), i = k + Len(s), NEW l \in 1..Len(t), j = l + Len(s)
        PROVE  u[i] < u[j]
    <3>1. k < l
      BY <1>1, <2>3
    <3> QED BY <1>1, <1>4, <2>3, <3>1 DEF Rising
  <2>4. ~(j \in 1..Len(s) /\ i \notin 1..Len(s))
    BY <1>1
  <2>5. /\ i \in 1..Len(s) \/ \E k \in 1..Len(t) : i = k + Len(s)
        /\ j \in 1..Len(s) \/ \E k \in 1..Len(t) : j = k + Len(s)
    BY <1>1, PlaceInParts
  <2> QED BY <2>1, <2>2, <2>3, <2>4, <2>5
<1> QED BY <1>3, <1>4 DEF u

LEMMA RisingOne ==
    ASSUME NEW n \in Nat
    PROVE  <<n>> \in Seq(Nat) /\ Rising(<<n>>) /\ Range(<<n>>) = {n}
  BY DEF Rising, Range

\* Where a value occurs in a sequence.
Occurs(s, n) == {i \in DOMAIN s : s[i] = n}

LEMMA OccursType ==
    ASSUME NEW S, NEW s \in Seq(S), NEW n
    PROVE  /\ IsFiniteSet(Occurs(s, n)) /\ Cardinality(Occurs(s, n)) \in Nat
           /\ n \notin Range(s) => Cardinality(Occurs(s, n)) = 0
<1>1. DOMAIN s = 1..Len(s) /\ Len(s) \in Nat
  BY LenProperties
<1>2. IsFiniteSet(1..Len(s))
  BY <1>1, FS_Interval
<1>3. Occurs(s, n) \subseteq 1..Len(s)
  BY <1>1 DEF Occurs
<1>4. IsFiniteSet(Occurs(s, n))
  BY <1>2, <1>3, FS_Subset
<1>5. n \notin Range(s) => Occurs(s, n) = {}
  BY DEF Occurs, Range
<1> QED BY <1>4, <1>5, FS_CardinalityType, FS_EmptySet

\* A sequence in which a value occurs once at most adds one at most.
LEMMA OccursConcat ==
    ASSUME NEW S, NEW s \in Seq(S), NEW t \in Seq(S), NEW n,
           \A i, j \in DOMAIN t : t[i] = n /\ t[j] = n => i = j
    PROVE  /\ Cardinality(Occurs(s \o t, n)) \in Nat
           /\ Cardinality(Occurs(s \o t, n)) <= Cardinality(Occurs(s, n)) + 1
           /\ n \notin Range(t) => Occurs(s \o t, n) = Occurs(s, n)
<1> DEFINE u == s \o t
           k == Len(s)
<1>1. /\ DOMAIN u = 1 .. (k + Len(t))
      /\ \A i \in 1..k : u[i] = s[i]
      /\ \A i \in 1..Len(t) : u[i + k] = t[i]
      /\ k \in Nat /\ Len(t) \in Nat
      /\ DOMAIN s = 1..k /\ DOMAIN t = 1..Len(t)
  BY ConcatParts
<1>2. IsFiniteSet(Occurs(s, n)) /\ Cardinality(Occurs(s, n)) \in Nat
  BY OccursType
<1>u. u \in Seq(S)
  BY ConcatParts
<1>3. Cardinality(Occurs(u, n)) \in Nat
  <2> HIDE DEF u
  <2> QED BY <1>u, OccursType
<1> HIDE DEF u, k
<1>4. Range(t) = {t[i] : i \in 1..Len(t)}
  BY RangeEquality
<1>5. ASSUME n \notin Range(t) PROVE Occurs(u, n) = Occurs(s, n)
  <2>1. ASSUME NEW i \in 1 .. (k + Len(t)), u[i] = n PROVE i \in 1..k
    <3>1. ASSUME NEW j \in 1..Len(t), i = j + k PROVE FALSE
      BY <1>1, <1>4, <1>5, <2>1, <3>1
    <3> QED BY <1>1, <3>1, PlaceInParts
  <2>2. 1..k \subseteq 1 .. (k + Len(t))
    BY <1>1
  <2> QED BY <1>1, <2>1, <2>2 DEF Occurs
<1>6. ASSUME n \in Range(t)
      PROVE  Cardinality(Occurs(u, n)) <= Cardinality(Occurs(s, n)) + 1
  <2>1. PICK j \in 1..Len(t) : t[j] = n
    BY <1>4, <1>6
  <2>2. \A l \in 1..Len(t) : t[l] = n => l = j
    BY <1>1, <2>1
  <2> DEFINE T == Occurs(s, n)
  <2>3. Occurs(u, n) \subseteq T \cup {j + k}
    <3>1. ASSUME NEW i \in 1 .. (k + Len(t)), u[i] = n
          PROVE  i \in T \cup {j + k}
      <4>1. CASE i \in 1..k
        BY <1>1, <3>1, <4>1 DEF Occurs
      <4>2. ASSUME NEW l \in 1..Len(t), i = l + k PROVE i = j + k
        BY <1>1, <2>2, <3>1, <4>2
      <4> QED BY <1>1, <4>1, <4>2, PlaceInParts
    <3> QED BY <1>1, <3>1 DEF Occurs
  <2>4. IsFiniteSet(T) /\ Cardinality(T) \in Nat
    BY <1>2
  <2> HIDE DEF T
  <2>5. /\ IsFiniteSet(T \cup {j + k})
        /\ Cardinality(T \cup {j + k}) = IF j + k \in T THEN Cardinality(T) ELSE Cardinality(T) + 1
    BY <2>4, FS_AddElement
  <2>6. Cardinality(Occurs(u, n)) <= Cardinality(T \cup {j + k})
    BY <2>3, <2>5, FS_Subset
  <2>7. Cardinality(T \cup {j + k}) <= Cardinality(T) + 1 /\ Cardinality(T \cup {j + k}) \in Nat
    BY <2>4, <2>5
  <2> QED BY <1>3, <2>4, <2>6, <2>7 DEF T
<1>7. Cardinality(Occurs(u, n)) <= Cardinality(Occurs(s, n)) + 1
  <2>1. CASE n \in Range(t)
    BY <1>6, <2>1
  <2>2. CASE n \notin Range(t)
    BY <1>2, <1>5, <2>2
  <2> QED BY <2>1, <2>2
<1> QED BY <1>3, <1>5, <1>7 DEF u

(***************************************************************************)
(* Induction, with the set of what has been shown in the place of the      *)
(* library's predicate, and what folds need of it.                         *)
(***************************************************************************)

LEMMA FromNumberToNumber ==
    ASSUME NEW T, 0 \in T, \A n \in Nat : n \in T => n + 1 \in T
    PROVE  Nat \subseteq T
<1> SUFFICES ASSUME Nat \ T # {} PROVE FALSE
  OBVIOUS
<1>1. PICK m \in Nat \ T : \A k \in Nat \ T : <<k, m>> \notin OpToRel(<, Nat)
  <2>1. IsWellFoundedOn(OpToRel(<, Nat), Nat)
    BY NatLessThanWellFounded
  <2>2. Nat \ T \subseteq Nat
    OBVIOUS
  <2> QED BY <2>1, <2>2, WFMin, Zenon
<1>2. \A k \in Nat \ T : ~(k < m)
  BY <1>1, Zenon DEF OpToRel
<1>3. m \in Nat /\ m # 0
  BY <1>1
<1>5. m - 1 \in Nat /\ m = (m - 1) + 1 /\ m - 1 < m
  BY <1>3
<1>4. m - 1 \in T
  BY <1>2, <1>5
<1> QED BY <1>1, <1>4, <1>5

LEMMA FromSetToSet ==
    ASSUME NEW S, IsFiniteSet(S), NEW T, {} \in T,
           \A s \in SUBSET S : s # {} => \E x \in s : s \ {x} \in T => s \in T
    PROVE  SUBSET S \subseteq T
<1> DEFINE Done == {n \in Nat : \A s \in SUBSET S : Cardinality(s) = n => s \in T}
<1>1. \A s \in SUBSET S : IsFiniteSet(s) /\ Cardinality(s) \in Nat
  BY FS_Subset, FS_CardinalityType
<1>2. 0 \in Done
  BY <1>1, FS_EmptySet
<1>3. ASSUME NEW n \in Nat, n \in Done PROVE n + 1 \in Done
  <2> SUFFICES ASSUME NEW s \in SUBSET S, Cardinality(s) = n + 1 PROVE s \in T
    OBVIOUS
  <2>1. s # {}
    BY <1>1, FS_EmptySet
  <2>2. PICK x \in s : s \ {x} \in T => s \in T
    BY <2>1
  <2>3. Cardinality(s \ {x}) = Cardinality(s) - 1
    BY <1>1, FS_RemoveElement
  <2>4. Cardinality(s \ {x}) = n
    BY <1>3, <2>3
  <2> QED BY <1>3, <2>2, <2>4
<1> HIDE DEF Done
<1>4. Nat \subseteq Done
  BY <1>2, <1>3, FromNumberToNumber
<1> QED BY <1>1, <1>4 DEF Done

\* g is what F makes of the elements of each subset of S, taken in the order in
\* which C chooses them.
FoldsAll(g, S, base, F, C) ==
    \A s \in SUBSET S : g[s] = IF s = {} THEN base ELSE F[<<C[s], g[s \ {C[s]}]>>]

\* A finite set can be gone through, an element at a time.
LEMMA FoldExists ==
    ASSUME NEW S, IsFiniteSet(S), NEW A, NEW base \in A, NEW F \in [S \X A -> A], NEW C,
           \A s \in SUBSET S : s # {} => C[s] \in s
    PROVE  \E g \in [SUBSET S -> A] : FoldsAll(g, S, base, F, C)
<1> DEFINE Right(g, s) == g[s] = IF s = {} THEN base ELSE F[<<C[s], g[s \ {C[s]}]>>]
           Done == {n \in Nat : \E g \in [SUBSET S -> A] :
                        \A s \in SUBSET S : Cardinality(s) <= n => Right(g, s)}
<1>1. \A s \in SUBSET S : IsFiniteSet(s) /\ Cardinality(s) \in Nat /\ Cardinality(s) <= Cardinality(S)
  BY FS_Subset, FS_CardinalityType
<1>2. 0 \in Done
  <2> DEFINE g == [s \in SUBSET S |-> base]
  <2>1. \A s \in SUBSET S : Cardinality(s) <= 0 => s = {}
    BY <1>1, FS_EmptySet
  <2>2. g \in [SUBSET S -> A] /\ \A s \in SUBSET S : Cardinality(s) <= 0 => Right(g, s)
    BY <2>1
  <2> HIDE DEF g, Right
  <2> QED BY <2>2
<1>3. ASSUME NEW n \in Nat, n \in Done PROVE n + 1 \in Done
  <2>1. PICK g \in [SUBSET S -> A] : \A s \in SUBSET S : Cardinality(s) <= n => Right(g, s)
    BY <1>3
  <2> DEFINE h == [s \in SUBSET S |-> IF s = {} THEN base ELSE F[<<C[s], g[s \ {C[s]}]>>]]
  <2>2. h \in [SUBSET S -> A]
    <3>1. ASSUME NEW s \in SUBSET S, s # {} PROVE F[<<C[s], g[s \ {C[s]}]>>] \in A
      <4>1. C[s] \in S /\ g[s \ {C[s]}] \in A
        BY <2>1, <3>1
      <4> QED BY <4>1
    <3> QED BY <3>1
  <2>3. ASSUME NEW s \in SUBSET S, Cardinality(s) <= n PROVE h[s] = g[s]
    BY <2>1, <2>3
  <2>4. ASSUME NEW s \in SUBSET S, Cardinality(s) <= n + 1, s # {}
        PROVE  h[s \ {C[s]}] = g[s \ {C[s]}]
    <3>1. C[s] \in s /\ s \ {C[s]} \in SUBSET S
      BY <2>4
    <3>2. Cardinality(s \ {C[s]}) <= n
      BY <1>1, <2>4, <3>1, FS_RemoveElement
    <3> QED BY <2>3, <3>1, <3>2
  <2>5. \A s \in SUBSET S : Cardinality(s) <= n + 1 => Right(h, s)
    BY <2>4
  <2> HIDE DEF h, Right
  <2> QED BY <2>2, <2>5
<1> HIDE DEF Done
<1>4. Nat \subseteq Done
  BY <1>2, <1>3, FromNumberToNumber
<1>5. PICK g \in [SUBSET S -> A] :
          \A s \in SUBSET S : Cardinality(s) <= Cardinality(S) => Right(g, s)
  BY <1>4, FS_CardinalityType DEF Done
<1> QED BY <1>1, <1>5 DEF FoldsAll
=============================================================================
