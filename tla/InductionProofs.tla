-------------------------- MODULE InductionProofs --------------------------
(***************************************************************************)
(* Induction over numbers, stated for sets: to show a property of every    *)
(* number, show that the set of the numbers that have it is closed.        *)
(***************************************************************************)
EXTENDS Integers, Sequences, SequencesExt, WellFoundedInduction, TLAPS

LEMMA LeastNumber ==
  ASSUME NEW T \in SUBSET Nat, T # {}
  PROVE  \E x \in T : \A y \in T : x <= y
<1>1. PICK R : R = OpToRel(<, Nat)
  OBVIOUS
<1>2. IsWellFoundedOn(R, Nat)
  BY <1>1, NatLessThanWellFounded
<1>3. PICK x \in T : \A y \in T : ~(<<y, x>> \in R)
  BY <1>2, WFMin
<1>4. \A y \in T : ~(y < x)
  BY <1>1, <1>3 DEF OpToRel
<1> QED BY <1>4

LEMMA Induct ==
  ASSUME NEW S, 0 \in S, \A n \in Nat : n \in S => n + 1 \in S
  PROVE  Nat \subseteq S
<1>1. SUFFICES ASSUME NEW n \in Nat, n \notin S PROVE FALSE
  OBVIOUS
<1>2. PICK T : T = {k \in Nat : k \notin S}
  OBVIOUS
<1>3. PICK x \in T : \A y \in T : x <= y
  BY <1>1, <1>2, LeastNumber
<1>4. x # 0 /\ x - 1 \in Nat /\ x - 1 \notin T
  BY <1>2, <1>3
<1>5. x - 1 \in S
  BY <1>2, <1>4
<1>6. x - 1 + 1 \in S
  BY <1>4, <1>5
<1> QED BY <1>2, <1>6

-----------------------------------------------------------------------------
(* FlattenSeq, one sequence at a time.                                     *)

IsFlatten(f, s, n) ==
    f = [i \in 1..n |-> IF i = 1 THEN s[i] ELSE f[i - 1] \o s[i]]

LEMMA FlattenExists ==
  ASSUME NEW s, NEW n \in Nat
  PROVE  \E f : IsFlatten(f, s, n)
<1> DEFINE S == {m \in Nat : \E f : IsFlatten(f, s, m)}
<1>1. 0 \in S
  <2>1. PICK f : f = [i \in 1..0 |-> s[i]]
    OBVIOUS
  <2>2. IsFlatten(f, s, 0)
    BY <2>1 DEF IsFlatten
  <2> QED BY <2>2
<1>2. ASSUME NEW m \in Nat, m \in S PROVE m + 1 \in S
  <2>1. PICK f : f = [i \in 1..m |-> IF i = 1 THEN s[i] ELSE f[i - 1] \o s[i]]
    BY <1>2 DEF IsFlatten
  <2>2. PICK g : g = [i \in 1..m + 1 |-> IF i = m + 1 /\ i # 1 THEN f[m] \o s[i]
                                         ELSE IF i = 1 THEN s[i] ELSE f[i]]
    OBVIOUS
  <2>3. ASSUME NEW i \in 1..m + 1
        PROVE  g[i] = IF i = 1 THEN s[i] ELSE g[i - 1] \o s[i]
    <3>1. CASE i = 1
      BY <2>2, <3>1
    <3>2. CASE i # 1
      <4>1. i - 1 \in 1..m /\ i - 1 \in 1..m + 1
        BY <3>2
      <4>2. g[i - 1] = f[i - 1]
        <5>1. CASE i - 1 = 1
          <6>1. i - 1 # m + 1 \/ i - 1 = 1
            BY <5>1
          <6> QED BY <2>1, <2>2, <4>1, <5>1
        <5>2. CASE i - 1 # 1
          <6>1. i - 1 # m + 1
            BY <4>1
          <6> QED BY <2>2, <4>1, <5>2, <6>1
        <5> QED BY <5>1, <5>2
      <4>3. g[i] = f[i - 1] \o s[i]
        <5>1. CASE i = m + 1
          <6>1. i - 1 = m
            BY <5>1
          <6> QED BY <2>2, <3>2, <5>1, <6>1
        <5>2. CASE i # m + 1
          <6>1. i \in 1..m
            BY <5>2
          <6>2. g[i] = f[i]
            BY <2>2, <3>2, <5>2
          <6> QED BY <2>1, <3>2, <6>1, <6>2
        <5> QED BY <5>1, <5>2
      <4> QED BY <3>2, <4>2, <4>3
    <3> QED BY <3>1, <3>2
  <2>4. g = [i \in 1..m + 1 |-> IF i = 1 THEN s[i] ELSE g[i - 1] \o s[i]]
    <3>1. g = [i \in 1..m + 1 |-> g[i]]
      BY <2>2
    <3> HIDE <2>2
    <3> QED BY <2>3, <3>1, Zenon
  <2>5. IsFlatten(g, s, m + 1)
    BY <2>4, Zenon DEF IsFlatten
  <2> QED BY <2>5
<1>3. n \in S
  <2> HIDE DEF S
  <2> QED BY <1>1, <1>2, Induct
<1> QED BY <1>3

LEMMA FlattenIs ==
  ASSUME NEW s, Len(s) \in Nat, Len(s) # 0
  PROVE  \E f : IsFlatten(f, s, Len(s)) /\ FlattenSeq(s) = f[Len(s)]
<1> DEFINE u == CHOOSE f : IsFlatten(f, s, Len(s))
<1>1. FlattenSeq(s) = u[Len(s)]
  BY DEF FlattenSeq, IsFlatten
<1>2. \E f : IsFlatten(f, s, Len(s))
  BY FlattenExists
<1> QED BY <1>1, <1>2

Agree(s, t, n) == \A i \in 1..n : s[i] = t[i]

(* A prefix of a sequence is flattened to a prefix of what it gives.       *)
LEMMA FlattenPrefix ==
  ASSUME NEW s, NEW t, NEW n \in Nat, NEW m \in Nat, n <= m, Agree(s, t, n),
         NEW f, IsFlatten(f, s, n), NEW g, IsFlatten(g, t, m)
  PROVE  Agree(f, g, n)
<1> USE DEF Agree
<1> DEFINE S == {i \in Nat : i \in 1..n => f[i] = g[i]}
<1>1. 0 \in S
  OBVIOUS
<1>2. ASSUME NEW k \in Nat, k \in S PROVE k + 1 \in S
  <2> SUFFICES ASSUME k + 1 \in 1..n PROVE f[k + 1] = g[k + 1]
    OBVIOUS
  <2>1. PICK i : i = k + 1
    OBVIOUS
  <2>2. i \in 1..n /\ i \in 1..m /\ i - 1 = k
    BY <2>1
  <2>3. f[i] = IF i = 1 THEN s[i] ELSE f[i - 1] \o s[i]
    BY <2>2 DEF IsFlatten
  <2>4. g[i] = IF i = 1 THEN t[i] ELSE g[i - 1] \o t[i]
    BY <2>2 DEF IsFlatten
  <2>5. i # 1 => f[i - 1] = g[i - 1]
    BY <1>2, <2>2
  <2>6. f[i] = g[i]
    BY <2>2, <2>3, <2>4, <2>5
  <2> QED BY <2>1, <2>6
<1>3. Nat \subseteq S
  <2> HIDE DEF S
  <2> QED BY <1>1, <1>2, Induct
<1> QED BY <1>3

LEMMA EmptySequence == ASSUME NEW T, NEW s \in Seq(T), Len(s) = 0 PROVE s = << >>
OBVIOUS

LEMMA FlattenEmpty == FlattenSeq(<< >>) = << >>
BY DEF FlattenSeq

LEMMA FlattenAppend ==
  ASSUME NEW T, NEW s \in Seq(Seq(T)), NEW x \in Seq(T)
  PROVE  FlattenSeq(Append(s, x)) = FlattenSeq(s) \o x
<1>1. PICK t : t = Append(s, x)
  OBVIOUS
<1>2. PICK n : n = Len(s)
  OBVIOUS
<1>3. PICK m : m = n + 1
  OBVIOUS
<1>4. n \in Nat /\ m \in Nat /\ Len(t) = m /\ t[m] = x /\ Agree(s, t, n)
  BY <1>1, <1>2, <1>3 DEF Agree
<1>5. PICK g : IsFlatten(g, t, m) /\ FlattenSeq(t) = g[m]
  BY <1>3, <1>4, FlattenIs
<1>6. CASE n = 0
  <2>1. s = << >>
    BY <1>2, <1>6, EmptySequence
  <2>2. g[m] = x
    BY <1>3, <1>4, <1>5, <1>6 DEF IsFlatten
  <2> QED BY <1>1, <1>5, <2>1, <2>2, FlattenEmpty
<1>7. CASE n # 0
  <2>1. PICK f : IsFlatten(f, s, n) /\ FlattenSeq(s) = f[n]
    BY <1>2, <1>4, <1>7, FlattenIs
  <2>2. f[n] = g[n]
    <3>1. n \in 1..n /\ n <= m
      BY <1>3, <1>4, <1>7
    <3>2. Agree(f, g, n)
      BY <1>4, <1>5, <2>1, <3>1, FlattenPrefix
    <3> QED BY <3>1, <3>2 DEF Agree
  <2>3. g[m] = g[n] \o x
    <3>1. m \in 1..m /\ m # 1 /\ m - 1 = n
      BY <1>3, <1>4, <1>7
    <3>2. g[m] = IF m = 1 THEN t[m] ELSE g[m - 1] \o t[m]
      BY <1>5, <3>1 DEF IsFlatten
    <3> QED BY <1>4, <3>1, <3>2
  <2> QED BY <1>1, <1>5, <2>1, <2>2, <2>3
<1> QED BY <1>6, <1>7

LEMMA FlattenType ==
  ASSUME NEW T, NEW s \in Seq(Seq(T))
  PROVE  FlattenSeq(s) \in Seq(T)
<1>1. CASE Len(s) = 0
  <2>1. s = << >>
    BY <1>1, EmptySequence
  <2>2. << >> \in Seq(T)
    OBVIOUS
  <2> QED BY <2>1, <2>2, FlattenEmpty, Zenon
<1>2. CASE Len(s) # 0
  <2>1. PICK f : IsFlatten(f, s, Len(s)) /\ FlattenSeq(s) = f[Len(s)]
    BY <1>2, FlattenIs
  <2> DEFINE S == {i \in Nat : i \in 1..Len(s) => f[i] \in Seq(T)}
  <2>2. 0 \in S
    OBVIOUS
  <2>3. ASSUME NEW k \in Nat, k \in S PROVE k + 1 \in S
    <3> SUFFICES ASSUME k + 1 \in 1..Len(s) PROVE f[k + 1] \in Seq(T)
      OBVIOUS
    <3>1. PICK i : i = k + 1
      OBVIOUS
    <3>2. i \in 1..Len(s) /\ i - 1 = k /\ s[i] \in Seq(T)
      BY <3>1
    <3>3. f[i] = IF i = 1 THEN s[i] ELSE f[i - 1] \o s[i]
      BY <2>1, <3>2 DEF IsFlatten
    <3>4. i # 1 => f[i - 1] \in Seq(T)
      BY <2>3, <3>2
    <3>5. f[i] \in Seq(T)
      BY <3>2, <3>3, <3>4
    <3> QED BY <3>1, <3>5
  <2>4. Nat \subseteq S
    <3> HIDE DEF S
    <3> QED BY <2>2, <2>3, Induct
  <2> QED BY <1>2, <2>1, <2>4
<1> QED BY <1>1, <1>2
=============================================================================
