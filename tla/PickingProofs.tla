---------------------------- MODULE PickingProofs ----------------------------
(***************************************************************************)
(* What is picked out of a list is a list of those entries, each once and  *)
(* in their order.                                                         *)
(***************************************************************************)
EXTENDS Picking, FiniteSetTheorems, SequenceTheorems, TLAPS

\* p lists the entries of s at the places in S, each once and in their order.
Lists(p, s, S) ==
  \E f \in [1..Len(p) -> S] :
    /\ \A k \in 1..Len(p) : p[k] = s[f[k]]
    /\ \A k, l \in 1..Len(p) : f[k] = f[l] => k = l
    /\ \A i \in S : \E k \in 1..Len(p) : f[k] = i
    /\ \A k, l \in 1..Len(p) : k < l => f[k] < f[l]

LEMMA PickedShape ==
  ASSUME NEW n \in Nat, NEW S \in SUBSET (1..n), NEW X, NEW s, \A i \in S : s[i] \in X
  PROVE  Picked(s, S) \in Seq(X) /\ Lists(Picked(s, S), s, S)
  <1>. DEFINE m == Cardinality(S)
              below(i) == {j \in S : j <= i}
              place(i) == Cardinality(below(i))
              at == [i \in S |-> place(i)]
              f == [k \in 1..m |-> CHOOSE i \in S : place(i) = k]
  <1>1. \A T \in SUBSET S : IsFiniteSet(T) /\ Cardinality(T) \in Nat /\ Cardinality(T) <= m
    <2>1. IsFiniteSet(S)
      <3>1. IsFiniteSet(1..n)
        BY FS_Interval
      <3>. QED BY <3>1, FS_Subset
    <2>. QED BY <2>1, FS_Subset, FS_CardinalityType
  <1>2. \A i \in S : below(i) \in SUBSET S /\ i \in below(i)
    OBVIOUS
  <1>3. \A i \in S : place(i) \in 1..m
    <2>. SUFFICES ASSUME NEW i \in S PROVE place(i) \in 1..m
      OBVIOUS
    <2>1. IsFiniteSet(below(i)) /\ place(i) \in Nat /\ place(i) <= m /\ m \in Nat
      BY <1>1, <1>2
    <2>2. place(i) # 0
      BY <1>2, <2>1, FS_EmptySet
    <2>. HIDE DEF place, m
    <2>. QED BY <2>1, <2>2
  <1>4. \A i, j \in S : i < j => place(i) # place(j)
    <2>. SUFFICES ASSUME NEW i \in S, NEW j \in S, i < j PROVE place(i) # place(j)
      OBVIOUS
    <2>1. below(i) \in SUBSET below(j) /\ j \notin below(i) /\ j \in below(j)
      <3>1. (\A l \in S : l <= i => l <= j) /\ ~(j <= i) /\ j <= j
        OBVIOUS
      <3>. QED BY <3>1, Zenon
    <2>2. IsFiniteSet(below(j))
      BY <1>1, <1>2
    <2>. HIDE DEF below
    <2>. QED BY <2>1, <2>2, FS_Subset
  <1>5. at \in Injection(S, 1..m)
    <2>1. at \in [S -> 1..m]
      BY <1>3
    <2>2. \A i, j \in S : at[i] = at[j] => i = j
      <3>. SUFFICES ASSUME NEW i \in S, NEW j \in S, i # j PROVE place(i) # place(j)
        BY DEF at
      <3>1. i < j \/ j < i
        OBVIOUS
      <3>. QED BY <1>4, <3>1
    <2>. HIDE DEF at, m
    <2>. QED BY <2>1, <2>2 DEF Injection, IsInjective
  <1>6. \A k \in 1..m : \E i \in S : place(i) = k
    <2>1. m \in Nat
      BY <1>1
    <2>2. IsFiniteSet(1..m) /\ Cardinality(1..m) = m
      BY <2>1, FS_Interval
    <2>3. at \in Surjection(S, 1..m)
      <3>. HIDE DEF at
      <3>. QED BY <1>5, <2>2, FS_Injection
    <2>4. \A k \in 1..m : \E i \in S : at[i] = k
      <3>. HIDE DEF at
      <3>. QED BY <2>3 DEF Surjection
    <2>. QED BY <2>4 DEF at
  <1>7. \A k \in 1..m : f[k] \in S /\ place(f[k]) = k
    <2>. HIDE DEF place, m
    <2>. QED BY <1>6
  <1>8. Picked(s, S) = [k \in 1..m |-> s[f[k]]]
    <2>1. Picked(s, S) = [k \in 1..m |-> s[CHOOSE i \in S : place(i) = k]]
      BY Zenon DEF Picked
    <2>2. \A k \in 1..m : f[k] = CHOOSE i \in S : place(i) = k
      OBVIOUS
    <2>. HIDE DEF f, m, place
    <2>. QED BY <2>1, <2>2
  <1>9. m \in Nat /\ Picked(s, S) \in [1..m -> X]
    <2>1. m \in Nat
      BY <1>1
    <2>. HIDE DEF f, m
    <2>. QED BY <1>7, <1>8, <2>1
  <1>10. Picked(s, S) \in Seq(X) /\ Len(Picked(s, S)) = m
    <2>. HIDE DEF m
    <2>. QED BY <1>9, SeqDef, LenProperties
  <1>11. f \in [1..m -> S] /\ \A k, l \in 1..m : f[k] = f[l] => k = l
    BY <1>7 DEF f
  <1>12. \A i \in S : \E k \in 1..m : f[k] = i
    <2>. SUFFICES ASSUME NEW i \in S PROVE f[place(i)] = i
      BY <1>3
    <2>1. place(i) \in 1..m
      BY <1>3
    <2>2. f[place(i)] \in S /\ place(f[place(i)]) = place(i)
      BY <1>7, <2>1
    <2>. HIDE DEF f, place
    <2>3. at[f[place(i)]] = at[i]
      BY <2>2 DEF at
    <2>4. \A j \in S : at[j] = at[i] => j = i
      <3>. HIDE DEF at
      <3>. QED BY <1>5 DEF Injection, IsInjective
    <2>. QED BY <2>2, <2>3, <2>4
  <1>13. \A k \in 1..m : Picked(s, S)[k] = s[f[k]]
    <2>. HIDE DEF f, m
    <2>. QED BY <1>8
  <1>14. \A i, j \in S : i < j => place(i) <= place(j)
    <2>. SUFFICES ASSUME NEW i \in S, NEW j \in S, i < j PROVE place(i) <= place(j)
      OBVIOUS
    <2>1. below(i) \in SUBSET below(j)
      <3>1. \A l \in S : l <= i => l <= j
        OBVIOUS
      <3>. QED BY <3>1, Zenon
    <2>2. IsFiniteSet(below(j))
      BY <1>1, <1>2
    <2>. HIDE DEF below
    <2>. QED BY <2>1, <2>2, FS_Subset
  <1>15. \A k, l \in 1..m : k < l => f[k] < f[l]
    <2>. SUFFICES ASSUME NEW k \in 1..m, NEW l \in 1..m, k < l PROVE f[k] < f[l]
      OBVIOUS
    <2>1. f[k] \in S /\ f[l] \in S /\ place(f[k]) = k /\ place(f[l]) = l
      BY <1>7
    <2>2. f[k] \in 1..n /\ f[l] \in 1..n
      <3>. HIDE DEF f
      <3>. QED BY <2>1
    <2>3. f[k] # f[l]
      <3>. HIDE DEF f
      <3>1. f[k] = f[l] => k = l
        BY <1>11
      <3>. QED BY <3>1
    <2>4. f[l] < f[k] => l <= k
      <3>. DEFINE a == f[k]  b == f[l]
      <3>1. b < a => place(b) <= place(a)
        BY <1>14, <2>1
      <3>. HIDE DEF f, place
      <3>. QED BY <2>1, <3>1
    <2>. HIDE DEF f
    <2>. QED BY <2>2, <2>3, <2>4
  <1>. HIDE DEF f, m
  <1>. QED BY <1>10, <1>11, <1>12, <1>13, <1>15 DEF Lists
=============================================================================
