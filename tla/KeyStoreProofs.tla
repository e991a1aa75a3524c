---------------------------- MODULE KeyStoreProofs ----------------------------
(***************************************************************************)
(* Proofs about KeyStore: what holds for any ids, and what holds where no  *)
(* id holds the prefix of a key.                                           *)
(***************************************************************************)
EXTENDS KeyStore, SequenceTheorems, FiniteSetTheorems, WellFoundedInduction, TLAPS

Alphabet == {Colon, Semicolon, "__centroid_metadata", "__centroids", "__document_metadata",
             "__documents", "a", "b", "centroids", "documents"}
Keys == Seq(Alphabet)

\* The ids for which keys are unambiguous.
AllUnambiguous == \A id \in DocIds \cup CentroidIds : Unambiguous(id)

\* The centroids whose keys have their member behind the first colon.
NoColons == \A c \in CentroidIds : Colon \notin ToSet(c)

-----------------------------------------------------------------------------
\* The order of keys.

LEMMA Punctuation ==
    LET others == {"__centroid_metadata", "__centroids", "__document_metadata", "__documents",
                   "a", "b", "centroids", "documents"}
    IN  Colon # Semicolon /\ Colon \notin others /\ Semicolon \notin others
BY Zenon DEF Colon, Semicolon

LEMMA SymbolAt ==
    /\ Symbols[1] = Colon /\ Symbols[2] = Semicolon /\ Symbols[3] = "__centroid_metadata"
    /\ Symbols[4] = "__centroids" /\ Symbols[5] = "__document_metadata"
    /\ Symbols[6] = "__documents" /\ Symbols[7] = "a" /\ Symbols[8] = "b"
    /\ Symbols[9] = "centroids" /\ Symbols[10] = "documents"
    /\ DOMAIN Symbols = 1..10
BY DEF Symbols

LEMMA SymbolsAre == ToSet(Symbols) = Alphabet
<1>1. \A i \in 1..10 : i = 1 \/ i = 2 \/ i = 3 \/ i = 4 \/ i = 5 \/ i = 6 \/ i = 7 \/ i = 8
                       \/ i = 9 \/ i = 10
    OBVIOUS
<1>2. ToSet(Symbols) = {Symbols[i] : i \in 1..10}
    BY SymbolAt DEF ToSet
<1>3. \A s \in Alphabet : \E i \in 1..10 : Symbols[i] = s
  <2> SUFFICES ASSUME NEW s \in Alphabet
               PROVE  \E i \in 1..10 : Symbols[i] = s
    OBVIOUS
  <2>1. /\ 1 \in 1..10 /\ 2 \in 1..10 /\ 3 \in 1..10 /\ 4 \in 1..10 /\ 5 \in 1..10
        /\ 6 \in 1..10 /\ 7 \in 1..10 /\ 8 \in 1..10 /\ 9 \in 1..10 /\ 10 \in 1..10
    OBVIOUS
  <2> QED
    BY <2>1, SymbolAt, Zenon DEF Alphabet
<1>4. \A i \in 1..10 : Symbols[i] \in Alphabet
    BY <1>1, SymbolAt DEF Alphabet
<1> QED
    BY <1>2, <1>3, <1>4

\* Different symbols have different ranks, and nothing sorts between a colon and a semicolon.
LEMMA Ranks ==
    /\ \A s \in Alphabet : Rank[s] \in Int /\ Rank[s] >= 1
    /\ \A s, t \in Alphabet : Rank[s] = Rank[t] => s = t
    /\ Rank[Colon] < Rank[Semicolon] /\ \A s \in Alphabet : Rank[s] < Rank[Semicolon] => s = Colon
<1>1. \A i \in 1..10 : i = 1 \/ i = 2 \/ i = 3 \/ i = 4 \/ i = 5 \/ i = 6 \/ i = 7 \/ i = 8
                       \/ i = 9 \/ i = 10
    OBVIOUS
<1>2. ToSet(Symbols) = {Symbols[i] : i \in 1..10}
    BY SymbolAt DEF ToSet
<1>3. \A s \in Alphabet : \E i \in 1..10 : Symbols[i] = s
    BY <1>2, SymbolsAre
<1>5. ToSet(Symbols) = Alphabet
    BY SymbolsAre
<1>6. \A s \in Alphabet : Rank[s] = CHOOSE i \in 1..10 : Symbols[i] = s
    BY <1>5, SymbolAt DEF Rank
<1>7. \A s \in Alphabet : Rank[s] \in 1..10 /\ Symbols[Rank[s]] = s
    BY <1>3, <1>6
<1>8. \A i \in 1..10 : (Symbols[i] = Colon => i = 1) /\ (Symbols[i] = Semicolon => i = 2)
    BY <1>1, SymbolAt, Punctuation
<1>9. Colon \in Alphabet /\ Semicolon \in Alphabet
    BY DEF Alphabet
<1>10. \A s \in Alphabet : Rank[s] \in Int /\ Rank[s] >= 1
    BY <1>7
<1>11. \A s, t \in Alphabet : Rank[s] = Rank[t] => s = t
    BY <1>7, Zenon
<1>12. Rank[Colon] = 1 /\ Rank[Semicolon] = 2
    BY <1>7, <1>8, <1>9, Zenon
<1>13. ASSUME NEW s \in Alphabet, Rank[s] < Rank[Semicolon]
       PROVE  s = Colon
  <2>1. Rank[s] \in Int /\ Rank[s] >= 1 /\ Rank[s] < 2
    BY <1>10, <1>12, <1>13
  <2>2. Rank[s] = 1
    BY <2>1
  <2> QED
    BY <1>9, <1>11, <1>12, <2>2
<1>14. Rank[Colon] < Rank[Semicolon]
    BY <1>12
<1> QED
    BY <1>10, <1>11, <1>13, <1>14

LEMMA KeyTypes ==
    ASSUME NEW k \in Keys
    PROVE  /\ Len(k) \in Nat
           /\ \A i \in 1..Len(k) : k[i] \in Alphabet /\ Rank[k[i]] \in Int
<1>1. Len(k) \in Nat /\ \A i \in 1..Len(k) : k[i] \in Alphabet
    BY DEF Keys
<1>2. \A s \in Alphabet : Rank[s] \in Int
    BY Ranks, Zenon
<1> QED
    BY <1>1, <1>2

LEMMA Irreflexive == \A k \in Keys : ~Less(k, k)
BY KeyTypes DEF Less

LEMMA Transitive ==
    ASSUME NEW k \in Keys, NEW l \in Keys, NEW m \in Keys, Less(k, l), Less(l, m)
    PROVE  Less(k, m)
<1> USE KeyTypes
<1>1. PICK i \in 1..Len(l) : /\ \A n \in 1..(i - 1) : n <= Len(k) /\ k[n] = l[n]
                             /\ i <= Len(k) => Rank[k[i]] < Rank[l[i]]
    BY DEF Less
<1>2. PICK j \in 1..Len(m) : /\ \A n \in 1..(j - 1) : n <= Len(l) /\ l[n] = m[n]
                             /\ j <= Len(l) => Rank[l[j]] < Rank[m[j]]
    BY DEF Less
<1>3. CASE i < j
  <2>1. i \in 1..Len(m) /\ l[i] = m[i]
    BY <1>2, <1>3
  <2>2. \A n \in 1..(i - 1) : n <= Len(k) /\ k[n] = m[n]
    BY <1>1, <1>2, <1>3
  <2> QED
    BY <1>1, <2>1, <2>2 DEF Less
<1>4. CASE j < i
  <2>1. j <= Len(k) /\ k[j] = l[j] /\ j <= Len(l)
    BY <1>1, <1>4
  <2>2. \A n \in 1..(j - 1) : n <= Len(k) /\ k[n] = m[n]
    BY <1>1, <1>2, <1>4
  <2> QED
    BY <1>2, <2>1, <2>2 DEF Less
<1>5. CASE i = j
  <2>1. \A n \in 1..(i - 1) : n <= Len(k) /\ k[n] = m[n]
    BY <1>1, <1>2, <1>5
  <2>2. i <= Len(k) => Rank[k[i]] < Rank[m[i]]
    <3> SUFFICES ASSUME i <= Len(k)
                 PROVE  Rank[k[i]] < Rank[m[i]]
      OBVIOUS
    <3>1. Rank[k[i]] \in Int /\ Rank[l[i]] \in Int /\ Rank[m[i]] \in Int
      BY <1>1, <1>2, <1>5
    <3>2. Rank[k[i]] < Rank[l[i]] /\ Rank[l[i]] < Rank[m[i]]
      BY <1>1, <1>2, <1>5
    <3> QED
      BY <3>1, <3>2
  <2> QED
    BY <1>5, <2>1, <2>2 DEF Less
<1> QED
    BY <1>3, <1>4, <1>5

LEMMA LeastNat ==
    ASSUME NEW S \in SUBSET Nat, S # {}
    PROVE  \E x \in S : \A y \in S : x <= y
<1>1. \E x \in S : \A y \in S : ~(<<y, x>> \in OpToRel(<, Nat))
    BY NatLessThanWellFounded, WFMin
<1>2. PICK x \in S : \A y \in S : ~(<<y, x>> \in OpToRel(<, Nat))
    BY <1>1
<1>3. \A y \in S : ~(y < x)
    BY <1>2 DEF OpToRel
<1> QED
    BY <1>3

LEMMA Total ==
    ASSUME NEW k \in Keys, NEW l \in Keys, k # l
    PROVE  Less(k, l) \/ Less(l, k)
<1> USE KeyTypes
<1> DEFINE agree(n) == n <= Len(k) /\ n <= Len(l) /\ k[n] = l[n]
           differ == {n \in Nat : n >= 1 /\ ~agree(n)}
<1>1. Len(k) + 1 \in differ
    OBVIOUS
<1>2. PICK i \in differ : \A n \in differ : i <= n
    BY <1>1, LeastNat
<1>3. \A n \in 1..(i - 1) : agree(n)
    BY <1>2
<1>4. CASE i <= Len(k) /\ i <= Len(l)
  <2>0. i \in 1..Len(k) /\ i \in 1..Len(l) /\ k[i] # l[i]
    BY <1>2, <1>4
  <2>1. Rank[k[i]] \in Int /\ Rank[l[i]] \in Int /\ Rank[k[i]] # Rank[l[i]]
    BY <2>0, Ranks
  <2>2. CASE Rank[k[i]] < Rank[l[i]]
    BY <1>2, <1>3, <1>4, <2>2 DEF Less
  <2>3. CASE Rank[l[i]] < Rank[k[i]]
    BY <1>2, <1>3, <1>4, <2>3 DEF Less
  <2> QED
    BY <2>1, <2>2, <2>3
<1>5. CASE i <= Len(k) /\ ~(i <= Len(l))
    BY <1>2, <1>3, <1>5 DEF Less
<1>6. CASE i <= Len(l) /\ ~(i <= Len(k))
    BY <1>2, <1>3, <1>6 DEF Less
<1>7. CASE ~(i <= Len(k)) /\ ~(i <= Len(l))
  <2>1. Len(k) = i - 1 /\ Len(l) = i - 1
    <3>1. i = 1 \/ agree(i - 1)
      BY <1>2, <1>3
    <3> QED
      BY <1>2, <1>7, <3>1
  <2>2. \A n \in 1..Len(k) : k[n] = l[n]
    BY <1>3, <2>1
  <2>3. k = l
    BY <2>1, <2>2, SeqEqual DEF Keys
  <2> QED
    BY <2>3
<1> QED
    BY <1>4, <1>5, <1>6, <1>7

\* Every position below the number of the keys is that of one of them.
LEMMA SortedAt ==
    ASSUME NEW S \in SUBSET Keys, IsFiniteSet(S)
    PROVE  /\ DOMAIN Sorted(S) = 1..Cardinality(S)
           /\ \A i \in 1..Cardinality(S) :
                 Sorted(S)[i] \in S /\ Cardinality({l \in S : Less(l, Sorted(S)[i])}) = i - 1
           /\ \A k \in S : \E i \in 1..Cardinality(S) : Sorted(S)[i] = k
<1> DEFINE below(k) == {l \in S : Less(l, k)}
           n == Cardinality(S)
           position == [k \in S |-> Cardinality(below(k)) + 1]
<1>1. n \in Nat
    BY FS_CardinalityType
<1>2. ASSUME NEW k \in S
      PROVE  /\ IsFiniteSet(below(k))
             /\ Cardinality(below(k)) \in Nat
             /\ Cardinality(below(k)) < n
  <2>1. below(k) \subseteq S /\ k \notin below(k)
    BY Irreflexive
  <2>2. IsFiniteSet(below(k)) /\ Cardinality(below(k)) <= n
        /\ (n = Cardinality(below(k)) => S = below(k))
    BY <2>1, FS_Subset
  <2>3. Cardinality(below(k)) \in Nat
    BY <2>2, FS_CardinalityType
  <2>4. n # Cardinality(below(k))
    BY <2>1, <2>2
  <2> QED
    BY <1>1, <2>2, <2>3, <2>4
<1>3. ASSUME NEW k \in S, NEW l \in S, Less(k, l)
      PROVE  Cardinality(below(k)) # Cardinality(below(l))
  <2>1. below(k) \subseteq below(l)
    BY <1>3, Transitive
  <2>2. k \in below(l) /\ k \notin below(k)
    BY <1>3, Irreflexive
  <2>3. IsFiniteSet(below(l))
    BY <1>2
  <2>4. Cardinality(below(l)) = Cardinality(below(k)) => below(l) = below(k)
    BY <2>1, <2>3, FS_Subset
  <2> QED
    BY <2>2, <2>4
<1>4. \A k, l \in S : Cardinality(below(k)) = Cardinality(below(l)) => k = l
  <2> SUFFICES ASSUME NEW k \in S, NEW l \in S, k # l
               PROVE  Cardinality(below(k)) # Cardinality(below(l))
    OBVIOUS
  <2>1. Less(k, l) \/ Less(l, k)
    BY Total
  <2> QED
    BY <1>3, <2>1
<1>5. \A k \in S : /\ position[k] = Cardinality(below(k)) + 1
                   /\ position[k] \in 1..n /\ Cardinality(below(k)) = position[k] - 1
  <2> SUFFICES ASSUME NEW k \in S
               PROVE  /\ position[k] = Cardinality(below(k)) + 1
                      /\ position[k] \in 1..n /\ Cardinality(below(k)) = position[k] - 1
    OBVIOUS
  <2>1. Cardinality(below(k)) \in Nat /\ Cardinality(below(k)) < n
    BY <1>2
  <2>2. position[k] = Cardinality(below(k)) + 1
    OBVIOUS
  <2> HIDE DEF below, position, n
  <2> QED
    BY <1>1, <2>1, <2>2
<1>6. position \in Injection(S, 1..n)
  <2>1. \A k \in S : position[k] \in 1..n
    BY <1>5
  <2>2. \A k, l \in S : position[k] = position[l] => k = l
    <3> HIDE DEF below, position, n
    <3> QED
      BY <1>5, <1>4
  <2> QED
    BY <2>1, <2>2 DEF Injection, IsInjective
<1>7. IsFiniteSet(1..n) /\ Cardinality(1..n) = n
  <2>1. 1 \in Int /\ n \in Int
    BY <1>1
  <2>2. IsFiniteSet(1..n) /\ Cardinality(1..n) = IF 1 > n THEN 0 ELSE n - 1 + 1
    BY <2>1, FS_Interval
  <2> QED
    BY <1>1, <2>2
<1>8. position \in Surjection(S, 1..n)
    BY <1>6, <1>7, FS_Injection
<1>9. \A i \in 1..n : \E k \in S : Cardinality(below(k)) = i - 1
  <2>1. \A i \in 1..n : \E k \in S : position[k] = i
    BY <1>8 DEF Surjection
  <2> HIDE DEF below, position, n
  <2> QED
    BY <1>5, <2>1
<1>10. /\ DOMAIN Sorted(S) = 1..n
      /\ \A i \in 1..n : /\ Sorted(S)[i] \in S
                         /\ Cardinality(below(Sorted(S)[i])) = i - 1
  <2>1. Sorted(S) = [i \in 1..n |-> CHOOSE k \in S : Cardinality(below(k)) = i - 1]
    BY DEF Sorted
  <2> HIDE DEF below, n
  <2> QED
    BY <1>9, <2>1
<1>11. ASSUME NEW k \in S
       PROVE  \E i \in 1..n : Sorted(S)[i] = k
  <2>1. position[k] \in 1..n /\ Cardinality(below(k)) = position[k] - 1
    BY <1>5
  <2> HIDE DEF below, position, n
  <2> QED
    BY <1>4, <1>10, <2>1
<1> QED
    BY <1>10, <1>11

LEMMA SortedHasAll ==
    ASSUME NEW S \in SUBSET Keys, IsFiniteSet(S)
    PROVE  ToSet(Sorted(S)) = S
BY SortedAt DEF ToSet

\* The sorted keys are in order, and a sequence of keys in order is that of its elements.
Increasing(t) == t \in Seq(Keys) /\ \A i, j \in 1..Len(t) : i < j => Less(t[i], t[j])

LEMMA SortedIncreases ==
    ASSUME NEW S \in SUBSET Keys, IsFiniteSet(S)
    PROVE  /\ Increasing(Sorted(S)) /\ Sorted(S) \in Seq(S)
           /\ Len(Sorted(S)) = Cardinality(S) /\ Len(Sorted(S)) \in Nat
<1> DEFINE t == Sorted(S)
           n == Cardinality(S)
           below(k) == {l \in S : Less(l, k)}
<1>1. n \in Nat
    BY FS_CardinalityType
<1>2. DOMAIN t = 1..n /\ \A i \in 1..n : t[i] \in S /\ Cardinality(below(t[i])) = i - 1
    BY SortedAt
<1>3. t \in Seq(S) /\ Len(t) = n
  <2> DEFINE f(i) == CHOOSE k \in S : Cardinality({l \in S : Less(l, k)}) = i - 1
  <2>1. t = [i \in 1..n |-> f(i)]
    BY DEF Sorted
  <2> HIDE DEF t, n, f
  <2>2. \A i \in 1..n : f(i) \in S
    BY <1>2, <2>1
  <2> QED
    BY <1>1, <2>1, <2>2
<1>4. t \in Seq(Keys)
    BY <1>3, SeqMonotonic
<1> HIDE DEF t, n
<1>5. ASSUME NEW i \in 1..n, NEW j \in 1..n, i < j
      PROVE  Less(t[i], t[j])
  <2>1. t[i] \in S /\ t[j] \in S /\ t[i] \in Keys /\ t[j] \in Keys
        /\ Cardinality(below(t[i])) = i - 1 /\ Cardinality(below(t[j])) = j - 1
    BY <1>2
  <2>2. t[i] # t[j]
    BY <1>1, <1>5, <2>1
  <2>3. ~Less(t[j], t[i])
    <3> SUFFICES ASSUME Less(t[j], t[i])
                 PROVE  FALSE
      OBVIOUS
    <3>1. below(t[j]) \subseteq below(t[i])
      BY <2>1, Transitive
    <3>2. IsFiniteSet(below(t[i]))
      BY FS_Subset
    <3>3. Cardinality(below(t[j])) <= Cardinality(below(t[i]))
      BY <3>1, <3>2, FS_Subset
    <3> HIDE DEF below
    <3> QED
      BY <1>1, <1>5, <2>1, <3>3
  <2> QED
    BY <2>1, <2>2, <2>3, Total
<1> QED
    BY <1>1, <1>3, <1>4, <1>5 DEF Increasing, t, n

LEMMA IncreasingIsSorted ==
    ASSUME NEW t, Increasing(t)
    PROVE  t = Sorted(ToSet(t)) /\ IsFiniteSet(ToSet(t)) /\ ToSet(t) \in SUBSET Keys
           /\ Len(t) = Cardinality(ToSet(t))
<1> DEFINE S == ToSet(t)
           n == Len(t)
           below(k) == {l \in S : Less(l, k)}
<1>1. n \in Nat /\ DOMAIN t = 1..n /\ t \in Seq(Keys) /\ \A i \in 1..n : t[i] \in Keys
    BY DEF Increasing
<1>2. S = {t[i] : i \in 1..n} /\ S \in SUBSET Keys
    BY <1>1 DEF ToSet
<1>3. \A i, j \in 1..n : i < j => Less(t[i], t[j])
    BY DEF Increasing
<1> HIDE DEF S, n
<1>4. \A i, j \in 1..n : i # j => t[i] # t[j]
  <2> SUFFICES ASSUME NEW i \in 1..n, NEW j \in 1..n, i # j
               PROVE  t[i] # t[j]
    OBVIOUS
  <2>1. Less(t[i], t[j]) \/ Less(t[j], t[i])
    BY <1>1, <1>3
  <2> QED
    BY <1>1, <2>1, Irreflexive
<1>5. ASSUME NEW m \in 0..n
      PROVE  IsFiniteSet({t[i] : i \in 1..m}) /\ Cardinality({t[i] : i \in 1..m}) = m
  <2> DEFINE T == {t[i] : i \in 1..m}
             f == [i \in 1..m |-> t[i]]
  <2>1. IsFiniteSet(1..m) /\ Cardinality(1..m) = m
    <3>1. 1 \in Int /\ m \in Int /\ (1 > m => m = 0)
      BY <1>1
    <3>2. IsFiniteSet(1..m) /\ Cardinality(1..m) = IF 1 > m THEN 0 ELSE m - 1 + 1
      BY <3>1, FS_Interval
    <3> QED
      BY <3>1, <3>2
  <2>2. \A i \in 1..m : i \in 1..n
    BY <1>1
  <2>3. f \in Bijection(1..m, T)
    <3>1. \A i, j \in 1..m : f[i] = f[j] => i = j
      BY <1>4, <2>2
    <3>2. f \in [1..m -> T] /\ \A y \in T : \E i \in 1..m : f[i] = y
      OBVIOUS
    <3> QED
      BY <3>1, <3>2 DEF Bijection, Injection, Surjection, IsInjective
  <2>4. ExistsBijection(1..m, T)
    BY <2>3 DEF ExistsBijection
  <2> QED
    BY <2>1, <2>4, FS_Bijection
<1>6. IsFiniteSet(S) /\ Cardinality(S) = n
  <2>1. n \in 0..n
    BY <1>1
  <2> QED
    BY <1>2, <1>5, <2>1
<1>7. ASSUME NEW i \in 1..n
      PROVE  below(t[i]) = {t[j] : j \in 1..(i - 1)}
  <2>1. ASSUME NEW j \in 1..n
        PROVE  Less(t[j], t[i]) <=> j \in 1..(i - 1)
    <3>1. CASE j < i
      BY <1>1, <1>3, <3>1
    <3>2. CASE j = i
      <4>1. ~Less(t[j], t[i]) /\ j \notin 1..(i - 1)
        BY <1>1, <3>2, Irreflexive
      <4> QED
        BY <4>1
    <3>3. CASE i < j
      <4>1. Less(t[i], t[j])
        BY <1>3, <3>3
      <4>2. t[i] \in Keys /\ t[j] \in Keys
        BY <1>1
      <4>3. ~Less(t[j], t[i])
        BY <4>1, <4>2, Irreflexive, Transitive
      <4> QED
        BY <1>1, <3>3, <4>3
    <3> QED
      BY <1>1, <3>1, <3>2, <3>3
  <2>2. \A j \in 1..(i - 1) : j \in 1..n
    BY <1>1
  <2> QED
    BY <1>2, <2>1, <2>2
<1>8. \A i \in 1..n : Cardinality(below(t[i])) = i - 1
  <2> SUFFICES ASSUME NEW i \in 1..n
               PROVE  Cardinality(below(t[i])) = i - 1
    OBVIOUS
  <2>1. i - 1 \in 0..n
    BY <1>1
  <2> QED
    BY <1>5, <1>7, <2>1
<1> HIDE DEF below
<1>9. ASSUME NEW i \in 1..n
      PROVE  (CHOOSE k \in S : Cardinality(below(k)) = i - 1) = t[i]
  <2>1. t[i] \in S /\ Cardinality(below(t[i])) = i - 1
    BY <1>2, <1>8
  <2>2. ASSUME NEW k \in S, Cardinality(below(k)) = i - 1
        PROVE  k = t[i]
    <3>1. PICK j \in 1..n : k = t[j]
      BY <1>2
    <3>2. Cardinality(below(k)) = j - 1
      BY <1>8, <3>1
    <3>3. j = i
      BY <1>1, <2>2, <3>2
    <3> QED
      BY <3>1, <3>3
  <2> QED
    BY <2>1, <2>2
<1>10. Sorted(S) = [i \in 1..n |-> CHOOSE k \in S : Cardinality(below(k)) = i - 1]
    BY <1>6 DEF Sorted, below
<1>11. Sorted(S) = [i \in 1..n |-> t[i]]
    BY <1>9, <1>10
<1>12. t = [i \in 1..n |-> t[i]]
    BY <1>1
<1> QED
    BY <1>2, <1>6, <1>11, <1>12 DEF S, n

-----------------------------------------------------------------------------
\* Prefixes, and the forms of keys.

StartsWith(k, p) == Len(p) <= Len(k) /\ \A i \in 1..Len(p) : k[i] = p[i]

LEMMA OneMore ==
    ASSUME NEW p \in Keys, NEW s \in Alphabet
    PROVE  /\ p \o <<s>> \in Keys
           /\ Len(p \o <<s>>) = Len(p) + 1
           /\ \A i \in 1..Len(p) : (p \o <<s>>)[i] = p[i]
           /\ (p \o <<s>>)[Len(p) + 1] = s
BY DEF Keys

\* The keys from the one that ends with the colon to the one that ends with the semicolon are
\* those that start with the former.
LEMMA PrefixRange ==
    ASSUME NEW p \in Keys, NEW k \in Keys
    PROVE  ~Less(k, p \o <<Colon>>) /\ Less(k, p \o <<Semicolon>>) <=> StartsWith(k, p \o <<Colon>>)
<1> DEFINE lo == p \o <<Colon>>
           hi == p \o <<Semicolon>>
           n == Len(p) + 1
<1>1. Colon \in Alphabet /\ Semicolon \in Alphabet
    BY DEF Alphabet
<1>2. /\ Len(lo) = n /\ Len(hi) = n /\ n \in Int /\ n >= 1
      /\ lo[n] = Colon /\ hi[n] = Semicolon
      /\ \A i \in 1..(n - 1) : lo[i] = hi[i]
  <2>1. Len(p) \in Nat
    BY KeyTypes
  <2> QED
    BY <1>1, <2>1, OneMore
<1>3. lo \in Keys /\ hi \in Keys /\ Len(k) \in Nat
    BY <1>1, OneMore, KeyTypes
<1>4. Rank[Colon] < Rank[Semicolon]
    BY Ranks
<1>5. \A i \in 1..n : Rank[lo[i]] \in Int
    BY <1>2, <1>3, KeyTypes
<1> HIDE DEF lo, hi, n
<1>6. ASSUME StartsWith(k, lo)
      PROVE  ~Less(k, lo) /\ Less(k, hi)
  <2>1. n <= Len(k) /\ \A i \in 1..n : k[i] = lo[i]
    BY <1>2, <1>6 DEF StartsWith
  <2>2. ~Less(k, lo)
    BY <1>2, <1>5, <2>1 DEF Less
  <2>3. n \in 1..Len(hi) /\ \A j \in 1..(n - 1) : j <= Len(k) /\ k[j] = hi[j]
    BY <1>2, <1>3, <2>1
  <2>4. Rank[k[n]] < Rank[hi[n]]
    <3>1. k[n] = Colon /\ hi[n] = Semicolon
      BY <1>2, <2>1
    <3> QED
      BY <1>4, <3>1
  <2> QED
    BY <2>2, <2>3, <2>4 DEF Less
<1>7. ASSUME ~Less(k, lo), Less(k, hi)
      PROVE  StartsWith(k, lo)
  <2>1. PICK i \in 1..n : /\ \A j \in 1..(i - 1) : j <= Len(k) /\ k[j] = hi[j]
                          /\ i <= Len(k) => Rank[k[i]] < Rank[hi[i]]
    BY <1>2, <1>7 DEF Less
  <2>2. \A j \in 1..(i - 1) : j <= Len(k) /\ k[j] = lo[j]
    BY <1>2, <2>1
  <2>3. i = n
    <3> SUFFICES ASSUME i # n
                 PROVE  FALSE
      OBVIOUS
    <3>1. i \in 1..Len(lo) /\ hi[i] = lo[i]
      BY <1>2
    <3> QED
      BY <1>7, <2>1, <2>2, <3>1 DEF Less
  <2>4. n <= Len(k)
    BY <1>2, <1>3, <1>7, <2>2, <2>3 DEF Less
  <2>5. k[n] = Colon
    <3>1. k[n] \in Alphabet /\ Rank[k[n]] < Rank[Semicolon]
      BY <1>2, <1>3, <2>1, <2>3, <2>4, KeyTypes
    <3> QED
      BY <3>1, Ranks
  <2> QED
    BY <1>2, <2>2, <2>3, <2>4, <2>5 DEF StartsWith
<1> QED
    BY <1>6, <1>7 DEF lo, hi

LEMMA PrefixKeys ==
    ASSUME NEW h, NEW s, DOMAIN s \in SUBSET Keys, IsFiniteSet(DOMAIN s), NEW p \in Keys
    PROVE  ToSet(iterPrefix(h, s, p)) = {k \in DOMAIN s : StartsWith(k, p \o <<Colon>>)}
<1> DEFINE S == {k \in DOMAIN s : ~Less(k, p \o <<Colon>>) /\ Less(k, p \o <<Semicolon>>)}
<1>1. iterPrefix(h, s, p) = Sorted(S)
    BY DEF iterPrefix, iterRange
<1>2. IsFiniteSet(S) /\ S \subseteq Keys
    BY FS_Subset
<1>3. ToSet(Sorted(S)) = S
    BY <1>2, SortedHasAll
<1>4. S = {k \in DOMAIN s : StartsWith(k, p \o <<Colon>>)}
    BY PrefixRange
<1> QED
    BY <1>1, <1>3, <1>4

\* A key has an id, or nothing, before its word and its colon, and a member behind them.
KeyOf(x, w, y) == Key(x \o <<w>>, y)
PrefixOf(x, w) == (x \o <<w>>) \o <<Colon>>

LEMMA WordTypes == Words \subseteq Alphabet /\ Colon \in Alphabet /\ Colon \notin Words
BY Punctuation DEF Words, Alphabet

LEMMA PrefixOfAt ==
    ASSUME NEW x \in Keys, NEW w \in Words
    PROVE  /\ x \o <<w>> \in Keys /\ PrefixOf(x, w) \in Keys
           /\ Len(x) \in Nat /\ Len(PrefixOf(x, w)) = Len(x) + 2
           /\ \A i \in 1..Len(x) : PrefixOf(x, w)[i] = x[i]
           /\ PrefixOf(x, w)[Len(x) + 1] = w
           /\ PrefixOf(x, w)[Len(x) + 2] = Colon
<1>1. x \in Keys /\ w \in Alphabet /\ Colon \in Alphabet /\ Len(x) \in Nat
    BY WordTypes, KeyTypes
<1>2. /\ x \o <<w>> \in Keys /\ Len(x \o <<w>>) = Len(x) + 1
      /\ \A i \in 1..Len(x) : (x \o <<w>>)[i] = x[i]
      /\ (x \o <<w>>)[Len(x) + 1] = w
    BY <1>1, OneMore
<1> DEFINE xw == x \o <<w>>
<1>3. PrefixOf(x, w) = xw \o <<Colon>>
    BY DEF PrefixOf
<1> HIDE DEF xw
<1>4. /\ xw \o <<Colon>> \in Keys /\ Len(xw \o <<Colon>>) = Len(xw) + 1
      /\ \A i \in 1..Len(xw) : (xw \o <<Colon>>)[i] = xw[i]
      /\ (xw \o <<Colon>>)[Len(xw) + 1] = Colon
    BY <1>1, <1>2, OneMore DEF xw
<1>5. Len(xw) = Len(x) + 1
    BY <1>2 DEF xw
<1>6. \A i \in 1..(Len(x) + 1) : (xw \o <<Colon>>)[i] = xw[i]
    BY <1>4, <1>5
<1>7. \A i \in 1..Len(x) : i \in 1..(Len(x) + 1)
    BY <1>1
<1>8. Len(x) + 1 \in 1..(Len(x) + 1) /\ Len(xw) + 1 = Len(x) + 2
    BY <1>1, <1>5
<1> QED
    BY <1>1, <1>2, <1>3, <1>4, <1>6, <1>7, <1>8 DEF xw

LEMMA KeyOfAt ==
    ASSUME NEW x \in Keys, NEW w \in Words, NEW y \in Keys
    PROVE  /\ KeyOf(x, w, y) \in Keys
           /\ Len(y) \in Nat /\ Len(KeyOf(x, w, y)) = Len(PrefixOf(x, w)) + Len(y)
           /\ \A i \in 1..Len(PrefixOf(x, w)) : KeyOf(x, w, y)[i] = PrefixOf(x, w)[i]
           /\ \A i \in 1..Len(y) : KeyOf(x, w, y)[Len(PrefixOf(x, w)) + i] = y[i]
<1> DEFINE p == PrefixOf(x, w)
<1>1. p \in Keys /\ y \in Keys
    BY PrefixOfAt
<1>2. KeyOf(x, w, y) = p \o y
    BY DEF KeyOf, Key, PrefixOf
<1>3. Len(p) \in Nat /\ Len(y) \in Nat
    BY <1>1, KeyTypes
<1> HIDE DEF p
<1> QED
    BY <1>1, <1>2, <1>3 DEF Keys, p

\* An id that holds no prefix: none of its words has a colon behind it.
Ids == {x \in Keys : Unambiguous(x)}

LEMMA StartsItsPrefix ==
    ASSUME NEW x \in Keys, NEW w \in Words, NEW y \in Keys
    PROVE  StartsWith(KeyOf(x, w, y), PrefixOf(x, w))
<1>1. Len(PrefixOf(x, w)) \in Nat /\ Len(y) \in Nat
      /\ Len(KeyOf(x, w, y)) = Len(PrefixOf(x, w)) + Len(y)
    BY PrefixOfAt, KeyOfAt, KeyTypes
<1>2. Len(PrefixOf(x, w)) <= Len(KeyOf(x, w, y))
    BY <1>1
<1>3. \A i \in 1..Len(PrefixOf(x, w)) : KeyOf(x, w, y)[i] = PrefixOf(x, w)[i]
    BY KeyOfAt
<1> QED
    BY <1>2, <1>3, Zenon DEF StartsWith

\* A prefix that is longer than the id of a key starts with it only where it holds a prefix.
LEMMA NoLongerId ==
    ASSUME NEW x \in Keys, NEW w \in Words, NEW u \in Keys, NEW v \in Words, NEW k,
           \A i \in 1..(Len(x) + 2) : k[i] = PrefixOf(x, w)[i],
           \A i \in 1..(Len(u) + 2) : k[i] = PrefixOf(u, v)[i],
           Len(u) < Len(x)
    PROVE  ~Unambiguous(x)
<1> DEFINE n == Len(u)
           m == Len(x)
<1>1. /\ n \in Nat /\ m \in Nat /\ n < m
      /\ PrefixOf(u, v)[n + 1] = v /\ PrefixOf(u, v)[n + 2] = Colon
      /\ PrefixOf(x, w)[m + 1] = w /\ \A i \in 1..m : PrefixOf(x, w)[i] = x[i]
    BY PrefixOfAt
<1>2. w # Colon
    BY WordTypes
<1> HIDE DEF n, m
<1>3. /\ n + 1 \in 1..(n + 2) /\ n + 2 \in 1..(n + 2)
      /\ n + 1 \in 1..(m + 2) /\ n + 2 \in 1..(m + 2) /\ m + 1 \in 1..(m + 2)
      /\ n + 1 \in 1..m
    BY <1>1
<1>4. k[n + 1] = v /\ k[n + 2] = Colon /\ k[m + 1] = w
    BY <1>1, <1>3 DEF n, m
<1>5. n + 2 # m + 1
    BY <1>2, <1>4
<1>6. n + 2 \in 1..m /\ n + 1 \in 1..(m - 1) /\ (n + 1) + 1 = n + 2
    BY <1>1, <1>5
<1>7. \A i \in 1..m : k[i] = PrefixOf(x, w)[i]
    BY <1>1 DEF m
<1>8. x[n + 1] = v /\ x[n + 2] = Colon
    BY <1>1, <1>3, <1>4, <1>6, <1>7
<1> QED
    BY <1>6, <1>8, Zenon DEF Unambiguous, m

\* The range of a prefix has no key of another id or another kind, though ids may hold a colon
\* and be prefixes of each other, if neither id holds a prefix.
LEMMA OwnPrefix ==
    ASSUME NEW x \in Ids, NEW w \in Words, NEW u \in Ids, NEW v \in Words, NEW y \in Keys
    PROVE  StartsWith(KeyOf(u, v, y), PrefixOf(x, w)) <=> x = u /\ w = v
<1> DEFINE k == KeyOf(u, v, y)
<1>0. x \in Keys /\ u \in Keys /\ Unambiguous(x) /\ Unambiguous(u)
    BY DEF Ids
<1>1. ASSUME StartsWith(k, PrefixOf(x, w))
      PROVE  x = u /\ w = v
  <2>0. /\ Len(x) \in Nat /\ Len(PrefixOf(x, w)) = Len(x) + 2
        /\ Len(u) \in Nat /\ Len(PrefixOf(u, v)) = Len(u) + 2
        /\ PrefixOf(x, w)[Len(x) + 1] = w /\ PrefixOf(u, v)[Len(u) + 1] = v
    BY <1>0, PrefixOfAt
  <2>1. Len(x) + 2 <= Len(k) /\ \A i \in 1..(Len(x) + 2) : k[i] = PrefixOf(x, w)[i]
    BY <1>1, <2>0 DEF StartsWith
  <2>2. \A i \in 1..(Len(u) + 2) : k[i] = PrefixOf(u, v)[i]
    <3>1. \A i \in 1..Len(PrefixOf(u, v)) : k[i] = PrefixOf(u, v)[i]
      BY <1>0, KeyOfAt
    <3> QED
      BY <2>0, <3>1
  <2> HIDE DEF k
  <2>3. ~(Len(u) < Len(x))
    BY <1>0, <2>1, <2>2, NoLongerId
  <2>4. ~(Len(x) < Len(u))
    BY <1>0, <2>1, <2>2, NoLongerId
  <2>5. Len(x) = Len(u)
    BY <2>0, <2>3, <2>4
  <2>6. w = v
    <3>1. Len(u) + 1 \in 1..(Len(u) + 2)
      BY <2>0
    <3> QED
      BY <2>0, <2>1, <2>2, <2>5, <3>1
  <2>7. \A i \in 1..Len(x) : x[i] = u[i]
    <3> SUFFICES ASSUME NEW i \in 1..Len(x)
                 PROVE  x[i] = u[i]
      OBVIOUS
    <3>1. i \in 1..(Len(x) + 2) /\ i \in 1..(Len(u) + 2) /\ i \in 1..Len(u)
      BY <2>0, <2>5
    <3>2. PrefixOf(x, w)[i] = x[i] /\ PrefixOf(u, v)[i] = u[i]
      BY <1>0, <3>1, PrefixOfAt
    <3> QED
      BY <2>1, <2>2, <3>1, <3>2
  <2>8. x = u
    BY <1>0, <2>5, <2>7, SeqEqual DEF Keys
  <2> QED
    BY <2>6, <2>8
<1>2. ASSUME x = u, w = v
      PROVE  StartsWith(k, PrefixOf(x, w))
    BY <1>0, <1>2, StartsItsPrefix
<1> QED
    BY <1>1, <1>2

\* Different things have different keys.
LEMMA KeysDiffer ==
    ASSUME NEW x \in Ids, NEW w \in Words, NEW y \in Keys,
           NEW u \in Ids, NEW v \in Words, NEW z \in Keys, KeyOf(x, w, y) = KeyOf(u, v, z)
    PROVE  x = u /\ w = v /\ y = z
<1>1. x = u /\ w = v
  <2>1. StartsWith(KeyOf(u, v, z), PrefixOf(u, v))
    BY StartsItsPrefix DEF Ids
  <2>2. StartsWith(KeyOf(x, w, y), PrefixOf(u, v))
    BY <2>1
  <2> QED
    BY <2>2, OwnPrefix
<1>2. PrefixOf(x, w) \in Keys /\ y \in Keys /\ z \in Keys
    BY PrefixOfAt DEF Ids
<1>3. KeyOf(x, w, y) = PrefixOf(x, w) \o y /\ KeyOf(u, v, z) = PrefixOf(x, w) \o z
    BY <1>1 DEF KeyOf, Key, PrefixOf
<1>4. y = z
    BY <1>2, <1>3, ConcatSimplifications DEF Keys
<1> QED
    BY <1>1, <1>4

-----------------------------------------------------------------------------
\* The keys that the stores hold.

DocKey(d) == Key(DocumentsPrefix, d)
CentroidKey(c) == Key(CentroidsPrefix, c)
LinkKey(c, d) == Key(CentroidDocumentPrefix(c), d)
BackKey(d, c) == Key(DocumentCentroidsPrefix(d), c)

MetaKey(c, name) == Key(CentroidMetadataPrefix(c), name)

LEMMA IdTypes ==
    /\ DocIds \subseteq Keys /\ CentroidIds \subseteq Keys /\ MetadataNames \subseteq Keys
    /\ << >> \in Keys /\ <<"a">> \in Keys
    /\ {"documents", "centroids", "__documents", "__centroids", "__document_metadata",
        "__centroid_metadata"} \subseteq Words
<1>1. DocIds \cup CentroidIds \subseteq Keys
    BY IdsAssumption, SymbolsAre DEF Keys
<1>2. << >> \in Keys /\ <<"a">> \in Keys /\ <<"b">> \in Keys
    BY DEF Keys, Alphabet
<1>3. {"documents", "centroids", "__documents", "__centroids", "__document_metadata",
       "__centroid_metadata"} \subseteq Words
    BY DEF Words
<1> QED
    BY <1>1, <1>2, <1>3 DEF MetadataNames

LEMMA IdsAreIds ==
    ASSUME AllUnambiguous
    PROVE  DocIds \subseteq Ids /\ CentroidIds \subseteq Ids /\ << >> \in Ids
<1>1. Unambiguous(<< >>)
    BY DEF Unambiguous
<1> QED
    BY <1>1, IdTypes DEF AllUnambiguous, Ids

LEMMA KeyForms ==
    /\ \A d : DocKey(d) = KeyOf(<< >>, "documents", d)
    /\ \A c : CentroidKey(c) = KeyOf(<< >>, "centroids", c)
    /\ \A c, d : LinkKey(c, d) = KeyOf(c, "__documents", d)
    /\ \A c, d : BackKey(d, c) = KeyOf(d, "__centroids", c)
    /\ \A d : CreatedTimeKey(d) = KeyOf(d, "__document_metadata", <<"a">>)
    /\ \A c, name : MetaKey(c, name) = KeyOf(c, "__centroid_metadata", name)
<1>1. << >> \o <<"documents">> = <<"documents">> /\ << >> \o <<"centroids">> = <<"centroids">>
    OBVIOUS
<1> QED
    BY <1>1, Zenon DEF DocKey, CentroidKey, LinkKey, BackKey, CreatedTimeKey, KeyOf,
               DocumentsPrefix, CentroidsPrefix, CentroidDocumentPrefix, DocumentCentroidsPrefix,
               DocumentMetadataPrefix, CentroidMetadataPrefix, MetaKey, created_time

\* Two of these keys are the same only when they are of one kind and of the same ids.
LEMMA KeysApart ==
    ASSUME AllUnambiguous
    PROVE  /\ \A d, e \in DocIds : /\ DocKey(d) = DocKey(e) => d = e
                                   /\ DocKey(d) # CreatedTimeKey(e)
           /\ \A c, b \in CentroidIds : CentroidKey(c) = CentroidKey(b) => c = b
           /\ \A c \in CentroidIds, d \in DocIds :
                 CentroidKey(c) \notin {DocKey(d), CreatedTimeKey(d)}
           /\ \A c, b \in CentroidIds, d, e \in DocIds :
                 /\ LinkKey(c, d) = LinkKey(b, e) => c = b /\ d = e
                 /\ BackKey(d, c) = BackKey(e, b) => c = b /\ d = e
                 /\ LinkKey(c, d) \notin {DocKey(e), CentroidKey(b), BackKey(e, b),
                                          CreatedTimeKey(e)}
                 /\ BackKey(d, c) \notin {DocKey(e), CentroidKey(b), CreatedTimeKey(e)}
<1> USE IdTypes, IdsAreIds, KeyForms
<1>1. ASSUME NEW d \in DocIds, NEW e \in DocIds
      PROVE  (DocKey(d) = DocKey(e) => d = e) /\ DocKey(d) # CreatedTimeKey(e)
    BY KeysDiffer
<1>2. ASSUME NEW c \in CentroidIds, NEW b \in CentroidIds
      PROVE  CentroidKey(c) = CentroidKey(b) => c = b
    BY KeysDiffer
<1>3. ASSUME NEW c \in CentroidIds, NEW d \in DocIds
      PROVE  CentroidKey(c) \notin {DocKey(d), CreatedTimeKey(d)}
    BY KeysDiffer
<1>4. ASSUME NEW c \in CentroidIds, NEW b \in CentroidIds, NEW d \in DocIds, NEW e \in DocIds
      PROVE  /\ LinkKey(c, d) = LinkKey(b, e) => c = b /\ d = e
             /\ BackKey(d, c) = BackKey(e, b) => c = b /\ d = e
             /\ LinkKey(c, d) \notin {DocKey(e), CentroidKey(b), BackKey(e, b), CreatedTimeKey(e)}
             /\ BackKey(d, c) \notin {DocKey(e), CentroidKey(b), CreatedTimeKey(e)}
  <2>1. LinkKey(c, d) = LinkKey(b, e) => c = b /\ d = e
    BY KeysDiffer
  <2>2. BackKey(d, c) = BackKey(e, b) => c = b /\ d = e
    BY KeysDiffer
  <2>3. LinkKey(c, d) \notin {DocKey(e), CentroidKey(b), BackKey(e, b), CreatedTimeKey(e)}
    BY KeysDiffer
  <2>4. BackKey(d, c) \notin {DocKey(e), CentroidKey(b), CreatedTimeKey(e)}
    BY KeysDiffer
  <2> QED
    BY <2>1, <2>2, <2>3, <2>4
<1> QED
    BY <1>1, <1>2, <1>3, <1>4

\* No key of metadata is that of a document, of a centroid or of a link.
LEMMA MetadataApart ==
    ASSUME AllUnambiguous, NEW c \in CentroidIds, NEW name \in MetadataNames
    PROVE  /\ \A d \in DocIds : MetaKey(c, name) # DocKey(d)
           /\ \A b \in CentroidIds : MetaKey(c, name) # CentroidKey(b)
           /\ \A b \in CentroidIds, d \in DocIds :
                 MetaKey(c, name) \notin {LinkKey(b, d), BackKey(d, b)}
<1> USE IdTypes, IdsAreIds, KeyForms
<1>1. \A d \in DocIds : MetaKey(c, name) # DocKey(d)
    BY KeysDiffer
<1>2. \A b \in CentroidIds : MetaKey(c, name) # CentroidKey(b)
    BY KeysDiffer
<1>3. ASSUME NEW b \in CentroidIds, NEW d \in DocIds
      PROVE  MetaKey(c, name) \notin {LinkKey(b, d), BackKey(d, b)}
    BY KeysDiffer
<1> QED
    BY <1>1, <1>2, <1>3

\* What the ranges that a deletion takes have of each kind of key.
LEMMA RangesApart ==
    ASSUME AllUnambiguous, NEW x \in Ids, NEW w \in Words \ {"documents", "centroids"}
    PROVE  /\ \A d \in DocIds : ~StartsWith(DocKey(d), PrefixOf(x, w))
           /\ \A c \in CentroidIds : ~StartsWith(CentroidKey(c), PrefixOf(x, w))
           /\ \A c \in CentroidIds, d \in DocIds :
                 /\ StartsWith(LinkKey(c, d), PrefixOf(x, w)) <=> x = c /\ w = "__documents"
                 /\ StartsWith(BackKey(d, c), PrefixOf(x, w)) <=> x = d /\ w = "__centroids"
<1> USE IdTypes, IdsAreIds, KeyForms
<1>1. \A d \in DocIds : ~StartsWith(DocKey(d), PrefixOf(x, w))
    BY OwnPrefix
<1>2. \A c \in CentroidIds : ~StartsWith(CentroidKey(c), PrefixOf(x, w))
    BY OwnPrefix
<1>3. \A c \in CentroidIds, d \in DocIds :
         StartsWith(LinkKey(c, d), PrefixOf(x, w)) <=> x = c /\ w = "__documents"
    BY OwnPrefix
<1>4. \A c \in CentroidIds, d \in DocIds :
         StartsWith(BackKey(d, c), PrefixOf(x, w)) <=> x = d /\ w = "__centroids"
    BY OwnPrefix
<1> QED
    BY <1>1, <1>2, <1>3, <1>4

\* A key that an operation writes.
Written(k) ==
    \/ \E d \in DocIds : k \in {DocKey(d), CreatedTimeKey(d)}
    \/ \E c \in CentroidIds, d \in DocIds : k \in {LinkKey(c, d), BackKey(d, c)}
    \/ \E c \in CentroidIds : k = CentroidKey(c)
    \/ \E c \in CentroidIds, name \in MetadataNames : k = MetaKey(c, name)

\* A store holds these keys, finitely many.
Holds(s, D) ==
    /\ DOMAIN s = D /\ D \in SUBSET Keys /\ IsFiniteSet(D)
    /\ \A k \in D : Written(k)

Held == DOMAIN rocks

\* Both stores hold the same keys.
StoreInv == \A h \in Handles : Holds(db[h], Held)

LEMMA WrittenKey ==
    ASSUME NEW k, Written(k)
    PROVE  k \in Keys
<1> USE IdTypes, KeyForms
<1>1. \A x \in Keys, w \in Words, y \in Keys : KeyOf(x, w, y) \in Keys
    BY KeyOfAt
<1> QED
    BY <1>1 DEF Written

LEMMA PutHolds ==
    ASSUME NEW h, NEW s, NEW D, Holds(s, D), NEW k, NEW v, Written(k)
    PROVE  Holds(put(h, s, k, v), D \cup {k})
<1>1. DOMAIN put(h, s, k, v) = D \cup {k}
  <2>1. CASE h = "InMemoryRockHandle" /\ k \in DOMAIN s
    BY <2>1 DEF put, Holds
  <2>2. CASE ~(h = "InMemoryRockHandle" /\ k \in DOMAIN s)
    BY <2>2 DEF put, Holds
  <2> QED
    BY <2>1, <2>2
<1>2. IsFiniteSet(D \cup {k}) /\ D \cup {k} \in SUBSET Keys
    BY FS_AddElement, WrittenKey DEF Holds
<1> QED
    BY <1>1, <1>2 DEF Holds

LEMMA DelHolds ==
    ASSUME NEW s, NEW D, Holds(s, D), NEW S
    PROVE  Holds(del(s, S), D \ S)
<1>1. DOMAIN del(s, S) = D \ S
    BY DEF del, Holds
<1>2. IsFiniteSet(D \ S) /\ D \ S \in SUBSET Keys
    BY FS_Subset DEF Holds
<1> QED
    BY <1>1, <1>2 DEF Holds

HeldUnder(x, w) == {k \in Held : StartsWith(k, PrefixOf(x, w))}

\* What the two stores hold after a step that has the same effect on the keys of both.
LEMMA BothStores ==
    ASSUME NEW D, \A h \in Handles : Holds(db'[h], D)
    PROVE  StoreInv' /\ Held' = D
<1>1. Held' = D
    BY DEF Holds, Held, rocks, Handles
<1> QED
    BY <1>1 DEF StoreInv

LEMMA UnderPrefix ==
    ASSUME StoreInv, NEW h \in Handles
    PROVE  /\ \A d \in DocIds :
                /\ ToSet(iterPrefix(h, db[h], DocumentCentroidsPrefix(d)))
                     = HeldUnder(d, "__centroids")
                /\ ToSet(iterPrefix(h, db[h], DocumentMetadataPrefix(d)))
                     = HeldUnder(d, "__document_metadata")
           /\ \A c \in CentroidIds :
                /\ ToSet(iterPrefix(h, db[h], CentroidDocumentPrefix(c)))
                     = HeldUnder(c, "__documents")
                /\ ToSet(iterPrefix(h, db[h], CentroidMetadataPrefix(c)))
                     = HeldUnder(c, "__centroid_metadata")
<1>1. ASSUME NEW x \in Keys, NEW w \in Words
      PROVE  ToSet(iterPrefix(h, db[h], x \o <<w>>)) = HeldUnder(x, w)
  <2>1. x \o <<w>> \in Keys
    BY PrefixOfAt
  <2>2. DOMAIN db[h] \in SUBSET Keys /\ IsFiniteSet(DOMAIN db[h]) /\ DOMAIN db[h] = Held
    BY DEF StoreInv, Holds
  <2> QED
    BY <2>1, <2>2, PrefixKeys DEF HeldUnder, PrefixOf
<1> QED
    BY <1>1, IdTypes DEF DocumentCentroidsPrefix, DocumentMetadataPrefix,
                         CentroidDocumentPrefix, CentroidMetadataPrefix

LEMMA SavesDocument ==
    ASSUME StoreInv, NEW d \in DocIds, NEW v
    PROVE  /\ saveDocument(d, v) =>
                 StoreInv' /\ Held' = Held \cup {DocKey(d), CreatedTimeKey(d)}
           /\ saveNewDocument(d, v) =>
                 /\ StoreInv'
                 /\ Held' = IF DocKey(d) \in Held THEN Held
                            ELSE Held \cup {DocKey(d), CreatedTimeKey(d)}
<1>1. Written(DocKey(d)) /\ Written(CreatedTimeKey(d))
    BY DEF Written
<1> DEFINE saved(h) == put(h, put(h, db[h], DocKey(d), v), CreatedTimeKey(d), v)
<1>2. ASSUME NEW h \in Handles
      PROVE  Holds(db[h], Held) /\ Holds(saved(h), Held \cup {DocKey(d), CreatedTimeKey(d)})
  <2>1. Holds(db[h], Held)
    BY DEF StoreInv
  <2>2. Holds(put(h, db[h], DocKey(d), v), Held \cup {DocKey(d)})
    BY <1>1, <2>1, PutHolds
  <2>3. Holds(saved(h), (Held \cup {DocKey(d)}) \cup {CreatedTimeKey(d)})
    BY <1>1, <2>2, PutHolds
  <2>4. (Held \cup {DocKey(d)}) \cup {CreatedTimeKey(d)}
          = Held \cup {DocKey(d), CreatedTimeKey(d)}
    OBVIOUS
  <2> HIDE DEF saved
  <2> QED
    BY <2>1, <2>3, <2>4
<1>3. ASSUME saveDocument(d, v)
      PROVE  StoreInv' /\ Held' = Held \cup {DocKey(d), CreatedTimeKey(d)}
  <2>1. \A h \in Handles : db'[h] = saved(h)
    BY <1>3 DEF saveDocument, Run, DocKey
  <2> HIDE DEF saved
  <2> QED
    BY <1>2, <2>1, BothStores
<1>4. ASSUME saveNewDocument(d, v)
      PROVE  /\ StoreInv'
             /\ Held' = IF DocKey(d) \in Held THEN Held
                        ELSE Held \cup {DocKey(d), CreatedTimeKey(d)}
  <2>1. \A h \in Handles : db'[h] = IF DocKey(d) \in DOMAIN db[h] THEN db[h] ELSE saved(h)
    BY <1>4 DEF saveNewDocument, Run, DocKey, doesDocumentExist, exists
  <2> HIDE DEF saved
  <2>2. ASSUME NEW h \in Handles
        PROVE  Holds(db'[h], IF DocKey(d) \in Held THEN Held
                             ELSE Held \cup {DocKey(d), CreatedTimeKey(d)})
    <3>1. DOMAIN db[h] = Held
      BY DEF StoreInv, Holds
    <3> QED
      BY <1>2, <2>1, <3>1
  <2> QED
    BY <2>2, BothStores
<1> QED
    BY <1>3, <1>4

LEMMA DeletesDocument ==
    ASSUME StoreInv, NEW d \in DocIds, deleteDocument(d)
    PROVE  /\ StoreInv'
           /\ Held' = IF DocKey(d) \notin Held THEN Held
                      ELSE Held \ ({DocKey(d)} \cup HeldUnder(d, "__centroids")
                                               \cup HeldUnder(d, "__document_metadata"))
<1> DEFINE gone == {DocKey(d)} \cup HeldUnder(d, "__centroids")
                               \cup HeldUnder(d, "__document_metadata")
<1>1. ASSUME NEW h \in Handles
      PROVE  Holds(db'[h], IF DocKey(d) \notin Held THEN Held ELSE Held \ gone)
  <2>1. Holds(db[h], Held) /\ DOMAIN db[h] = Held
    BY DEF StoreInv, Holds
  <2>2. db'[h] = IF DocKey(d) \notin DOMAIN db[h] THEN db[h] ELSE del(db[h], gone)
    BY UnderPrefix DEF deleteDocument, Run, DocKey, doesDocumentExist, exists
  <2> HIDE DEF gone
  <2> QED
    BY <2>1, <2>2, DelHolds
<1> QED
    BY <1>1, BothStores

LEMMA SavesCentroid ==
    ASSUME StoreInv, NEW c \in CentroidIds
    PROVE  /\ \A v : saveCentroid(c, v) => StoreInv' /\ Held' = Held \cup {CentroidKey(c)}
           /\ createNewCentroid(c) => StoreInv' /\ Held' = Held \cup {CentroidKey(c)}
<1>1. ASSUME NEW h \in Handles, NEW v
      PROVE  /\ Holds(db[h], Held) /\ DOMAIN db[h] = Held
             /\ Holds(put(h, db[h], CentroidKey(c), v), Held \cup {CentroidKey(c)})
  <2>1. Written(CentroidKey(c))
    BY DEF Written
  <2>2. Holds(db[h], Held)
    BY DEF StoreInv
  <2>3. DOMAIN db[h] = Held
    BY <2>2 DEF Holds
  <2> QED
    BY <2>1, <2>2, <2>3, PutHolds
<1>2. ASSUME NEW v, saveCentroid(c, v)
      PROVE  StoreInv' /\ Held' = Held \cup {CentroidKey(c)}
  <2>1. \A h \in Handles : db'[h] = put(h, db[h], CentroidKey(c), v)
    BY <1>2 DEF saveCentroid, Run, CentroidKey
  <2>2. \A h \in Handles : Holds(db'[h], Held \cup {CentroidKey(c)})
    BY <1>1, <2>1, Zenon
  <2> QED
    BY <2>2, BothStores
<1>3. ASSUME createNewCentroid(c)
      PROVE  StoreInv' /\ Held' = Held \cup {CentroidKey(c)}
  <2>1. \A h \in Handles : db'[h] = IF CentroidKey(c) \in DOMAIN db[h] THEN db[h]
                                    ELSE put(h, db[h], CentroidKey(c), 0)
    BY <1>3 DEF createNewCentroid, Run, CentroidKey, doesCentroidExist, exists
  <2>2. ASSUME NEW h \in Handles
        PROVE  Holds(db'[h], Held \cup {CentroidKey(c)})
    <3>1. CentroidKey(c) \in Held => Held \cup {CentroidKey(c)} = Held
      OBVIOUS
    <3> QED
      BY <1>1, <2>1, <3>1
  <2> QED
    BY <2>2, BothStores
<1> QED
    BY <1>2, <1>3

LEMMA DeletesCentroid ==
    ASSUME StoreInv, NEW c \in CentroidIds, deleteCentroid(c)
    PROVE  /\ StoreInv'
           /\ Held' = IF CentroidKey(c) \notin Held THEN Held
                      ELSE Held \ ({CentroidKey(c)} \cup HeldUnder(c, "__documents")
                                                    \cup HeldUnder(c, "__centroid_metadata"))
<1> DEFINE gone == {CentroidKey(c)} \cup HeldUnder(c, "__documents")
                                    \cup HeldUnder(c, "__centroid_metadata")
<1>1. ASSUME NEW h \in Handles
      PROVE  Holds(db'[h], IF CentroidKey(c) \notin Held THEN Held ELSE Held \ gone)
  <2>1. Holds(db[h], Held) /\ DOMAIN db[h] = Held
    BY DEF StoreInv, Holds
  <2>2. db'[h] = IF CentroidKey(c) \notin DOMAIN db[h] THEN db[h] ELSE del(db[h], gone)
    BY UnderPrefix DEF deleteCentroid, Run, CentroidKey, doesCentroidExist, exists
  <2> HIDE DEF gone
  <2> QED
    BY <2>1, <2>2, DelHolds
<1> QED
    BY <1>1, BothStores

LEMMA ChangesLinks ==
    ASSUME StoreInv, NEW c \in CentroidIds, NEW d \in DocIds
    PROVE  /\ addDocumentToCentroid(c, d) =>
                 /\ StoreInv'
                 /\ Held' = IF \/ CentroidKey(c) \notin Held \/ DocKey(d) \notin Held
                               \/ LinkKey(c, d) \in Held
                            THEN Held ELSE Held \cup {LinkKey(c, d), BackKey(d, c)}
           /\ removeDocumentFromCentroid(c, d) =>
                 /\ StoreInv'
                 /\ Held' = IF CentroidKey(c) \notin Held \/ DocKey(d) \notin Held THEN Held
                            ELSE Held \ {BackKey(d, c), LinkKey(c, d)}
<1>1. Written(LinkKey(c, d)) /\ Written(BackKey(d, c))
    BY DEF Written
<1> DEFINE added(h) == put(h, put(h, db[h], LinkKey(c, d), 1), BackKey(d, c), 1)
           removed(h) == del(db[h], {BackKey(d, c), LinkKey(c, d)})
<1>2. ASSUME NEW h \in Handles
      PROVE  /\ Holds(db[h], Held) /\ DOMAIN db[h] = Held
             /\ Holds(added(h), Held \cup {LinkKey(c, d), BackKey(d, c)})
             /\ Holds(removed(h), Held \ {BackKey(d, c), LinkKey(c, d)})
  <2>1. Holds(db[h], Held) /\ DOMAIN db[h] = Held
    BY DEF StoreInv, Holds
  <2>2. Holds(put(h, db[h], LinkKey(c, d), 1), Held \cup {LinkKey(c, d)})
    BY <1>1, <2>1, PutHolds
  <2>3. Holds(added(h), (Held \cup {LinkKey(c, d)}) \cup {BackKey(d, c)})
    BY <1>1, <2>2, PutHolds
  <2>4. Holds(removed(h), Held \ {BackKey(d, c), LinkKey(c, d)})
    BY <2>1, DelHolds
  <2>5. (Held \cup {LinkKey(c, d)}) \cup {BackKey(d, c)} = Held \cup {LinkKey(c, d), BackKey(d, c)}
    OBVIOUS
  <2> HIDE DEF added, removed
  <2> QED
    BY <2>1, <2>3, <2>4, <2>5
<1>3. ASSUME addDocumentToCentroid(c, d)
      PROVE  \A h \in Handles :
                db'[h] = IF \/ CentroidKey(c) \notin DOMAIN db[h] \/ DocKey(d) \notin DOMAIN db[h]
                            \/ LinkKey(c, d) \in DOMAIN db[h]
                         THEN db[h] ELSE added(h)
    BY <1>3 DEF addDocumentToCentroid, Run, CentroidKey, DocKey, LinkKey, BackKey,
                doesCentroidExist, doesDocumentExist, exists
<1>4. ASSUME removeDocumentFromCentroid(c, d)
      PROVE  \A h \in Handles :
                db'[h] = IF CentroidKey(c) \notin DOMAIN db[h] \/ DocKey(d) \notin DOMAIN db[h]
                         THEN db[h] ELSE removed(h)
    BY <1>4 DEF removeDocumentFromCentroid, Run, CentroidKey, DocKey, LinkKey, BackKey,
                doesCentroidExist, doesDocumentExist, exists
<1> HIDE DEF added, removed
<1>5. ASSUME addDocumentToCentroid(c, d)
      PROVE  /\ StoreInv'
             /\ Held' = IF \/ CentroidKey(c) \notin Held \/ DocKey(d) \notin Held
                           \/ LinkKey(c, d) \in Held
                        THEN Held ELSE Held \cup {LinkKey(c, d), BackKey(d, c)}
    BY <1>2, <1>3, <1>5, BothStores
<1>6. ASSUME removeDocumentFromCentroid(c, d)
      PROVE  /\ StoreInv'
             /\ Held' = IF CentroidKey(c) \notin Held \/ DocKey(d) \notin Held THEN Held
                        ELSE Held \ {BackKey(d, c), LinkKey(c, d)}
    BY <1>2, <1>4, <1>6, BothStores
<1> QED
    BY <1>5, <1>6

LEMMA SetsMetadata ==
    ASSUME StoreInv, NEW c \in CentroidIds, NEW name \in MetadataNames, NEW v,
           setCentroidMetadata(c, name, v)
    PROVE  StoreInv' /\ Held' = Held \cup {MetaKey(c, name)}
<1>1. Written(MetaKey(c, name))
    BY DEF Written
<1>2. ASSUME NEW h \in Handles
      PROVE  Holds(db'[h], Held \cup {MetaKey(c, name)})
  <2>1. db'[h] = put(h, db[h], MetaKey(c, name), v)
    BY DEF setCentroidMetadata, Run, MetaKey
  <2>2. Holds(db[h], Held)
    BY DEF StoreInv
  <2> QED
    BY <1>1, <2>1, <2>2, PutHolds
<1> QED
    BY <1>2, BothStores

LEMMA NextStores == StoreInv /\ [Next]_vars => StoreInv'
<1> SUFFICES ASSUME StoreInv, [Next]_vars
             PROVE  StoreInv'
    OBVIOUS
<1>1. CASE UNCHANGED vars
    BY <1>1 DEF vars, StoreInv, Held, rocks
<1>2. CASE Next
    BY <1>2, SavesDocument, DeletesDocument, SavesCentroid, SetsMetadata, DeletesCentroid,
       ChangesLinks DEF Next
<1> QED
    BY <1>1, <1>2

LEMMA InitStores == Init => StoreInv /\ Held = {}
<1> SUFFICES ASSUME Init
             PROVE  StoreInv /\ Held = {}
    OBVIOUS
<1>1. DOMAIN << >> = {}
    OBVIOUS
<1>2. \A h \in Handles : db[h] = << >>
    BY DEF Init
<1>3. IsFiniteSet({})
    BY FS_EmptySet
<1>4. Held = {}
    BY <1>1, <1>2 DEF Held, rocks, Handles
<1> QED
    BY <1>1, <1>2, <1>3, <1>4 DEF StoreInv, Holds

\* The store of the tests holds the keys that RocksDB holds, for any ids, whatever they hold, and
\* any calls: what a call does to the keys depends on the keys alone, and never on a value that
\* the store of the tests did not write over.
THEOREM StandsIn == Spec => []SameKeysInBoth
<1>1. StoreInv => SameKeysInBoth
    BY DEF StoreInv, Holds, Held, Handles, SameKeysInBoth
<1> QED
    BY <1>1, InitStores, NextStores, PTL DEF Spec

-----------------------------------------------------------------------------
\* The refinement: what a step does to the keys is what a step of DocumentStore does to its sets.

LEMMA Abstraction ==
    /\ documents = {d \in DocIds : DocKey(d) \in Held}
    /\ centroids = {c \in CentroidIds : CentroidKey(c) \in Held}
    /\ members = [c \in CentroidIds |-> {d \in DocIds : LinkKey(c, d) \in Held}]
    /\ users = [d \in DocIds |-> {c \in CentroidIds : BackKey(d, c) \in Held}]
BY DEF documents, centroids, members, users, DocKey, CentroidKey, LinkKey,
       BackKey, Held, doesDocumentExist, doesCentroidExist, exists

LEMMA AbstractionNext ==
    /\ documents' = {d \in DocIds : DocKey(d) \in Held'}
    /\ centroids' = {c \in CentroidIds : CentroidKey(c) \in Held'}
    /\ members' = [c \in CentroidIds |-> {d \in DocIds : LinkKey(c, d) \in Held'}]
    /\ users' = [d \in DocIds |-> {c \in CentroidIds : BackKey(d, c) \in Held'}]
BY DEF documents, centroids, members, users, DocKey, CentroidKey, LinkKey,
       BackKey, Held, doesDocumentExist, doesCentroidExist, exists

LEMMA SameHeld ==
    ASSUME Held' = Held
    PROVE  UNCHANGED Store!vars
BY Abstraction, AbstractionNext DEF Store!vars

LEMMA MapsSaveDocument ==
    ASSUME AllUnambiguous, NEW d \in DocIds, Held' = Held \cup {DocKey(d), CreatedTimeKey(d)}
    PROVE  Store!saveDocument(d)
<1> USE Abstraction, AbstractionNext
<1>1. documents' = documents \cup {d}
    BY KeysApart
<1>2. centroids' = centroids
    BY KeysApart
<1>3. members' = members
    BY KeysApart
<1>4. users' = users
    BY KeysApart
<1> QED
    BY <1>1, <1>2, <1>3, <1>4 DEF Store!saveDocument

LEMMA MapsDeleteDocument ==
    ASSUME AllUnambiguous, NEW d \in DocIds, DocKey(d) \in Held,
           Held' = Held \ ({DocKey(d)} \cup HeldUnder(d, "__centroids")
                                       \cup HeldUnder(d, "__document_metadata"))
    PROVE  Store!deleteDocument(d)
<1> USE Abstraction, AbstractionNext
<1>0. /\ d \in Ids /\ "__centroids" \in Words \ {"documents", "centroids"}
      /\ "__document_metadata" \in Words \ {"documents", "centroids"}
    BY IdTypes, IdsAreIds
<1>1. d \in documents /\ documents' = documents \ {d}
  <2>1. \A e \in DocIds : DocKey(e) \in Held' <=> DocKey(e) \in Held /\ e # d
    BY <1>0, KeysApart, RangesApart DEF HeldUnder
  <2> QED
    BY <2>1
<1>2. centroids' = centroids
  <2>1. \A c \in CentroidIds : CentroidKey(c) \in Held' <=> CentroidKey(c) \in Held
    BY <1>0, KeysApart, RangesApart DEF HeldUnder
  <2> QED
    BY <2>1
<1>3. members' = members
  <2>1. \A c \in CentroidIds, e \in DocIds : LinkKey(c, e) \in Held' <=> LinkKey(c, e) \in Held
    BY <1>0, KeysApart, RangesApart DEF HeldUnder
  <2> QED
    BY <2>1
<1>4. users' = [users EXCEPT ![d] = {}]
  <2>1. \A c \in CentroidIds, e \in DocIds :
           BackKey(e, c) \in Held' <=> BackKey(e, c) \in Held /\ e # d
    BY <1>0, KeysApart, RangesApart DEF HeldUnder
  <2> QED
    BY <2>1
<1> QED
    BY <1>1, <1>2, <1>3, <1>4 DEF Store!deleteDocument

LEMMA MapsCreateCentroid ==
    ASSUME AllUnambiguous, NEW c \in CentroidIds, Held' = Held \cup {CentroidKey(c)}
    PROVE  Store!createNewCentroid(c)
<1> USE Abstraction, AbstractionNext
<1>1. documents' = documents
    BY KeysApart
<1>2. centroids' = centroids \cup {c}
    BY KeysApart
<1>3. members' = members
    BY KeysApart
<1>4. users' = users
    BY KeysApart
<1> QED
    BY <1>1, <1>2, <1>3, <1>4 DEF Store!createNewCentroid

LEMMA MapsDeleteCentroid ==
    ASSUME AllUnambiguous, NEW c \in CentroidIds, CentroidKey(c) \in Held,
           Held' = Held \ ({CentroidKey(c)} \cup HeldUnder(c, "__documents")
                                            \cup HeldUnder(c, "__centroid_metadata"))
    PROVE  Store!deleteCentroid(c)
<1> USE Abstraction, AbstractionNext
<1>0. /\ c \in Ids /\ "__documents" \in Words \ {"documents", "centroids"}
      /\ "__centroid_metadata" \in Words \ {"documents", "centroids"}
    BY IdTypes, IdsAreIds
<1>1. documents' = documents
  <2>1. \A d \in DocIds : DocKey(d) \in Held' <=> DocKey(d) \in Held
    BY <1>0, KeysApart, RangesApart DEF HeldUnder
  <2> QED
    BY <2>1
<1>2. c \in centroids /\ centroids' = centroids \ {c}
  <2>1. \A b \in CentroidIds : CentroidKey(b) \in Held' <=> CentroidKey(b) \in Held /\ b # c
    BY <1>0, KeysApart, RangesApart DEF HeldUnder
  <2> QED
    BY <2>1
<1>3. members' = [members EXCEPT ![c] = {}]
  <2>1. \A b \in CentroidIds, d \in DocIds :
           LinkKey(b, d) \in Held' <=> LinkKey(b, d) \in Held /\ b # c
    BY <1>0, KeysApart, RangesApart DEF HeldUnder
  <2> QED
    BY <2>1
<1>4. users' = users
  <2>1. \A b \in CentroidIds, d \in DocIds : BackKey(d, b) \in Held' <=> BackKey(d, b) \in Held
    BY <1>0, KeysApart, RangesApart DEF HeldUnder
  <2> QED
    BY <2>1
<1> QED
    BY <1>1, <1>2, <1>3, <1>4 DEF Store!deleteCentroid

LEMMA MapsAdd ==
    ASSUME AllUnambiguous, NEW c \in CentroidIds, NEW d \in DocIds,
           CentroidKey(c) \in Held, DocKey(d) \in Held,
           LinkKey(c, d) \notin Held, Held' = Held \cup {LinkKey(c, d), BackKey(d, c)}
    PROVE  Store!addDocumentToCentroid(c, d)
<1> USE Abstraction, AbstractionNext
<1>1. documents' = documents /\ d \in documents
    BY KeysApart
<1>2. centroids' = centroids /\ c \in centroids
    BY KeysApart
<1>3. members' = [members EXCEPT ![c] = @ \cup {d}] /\ d \notin members[c]
  <2>1. \A b \in CentroidIds, e \in DocIds :
           LinkKey(b, e) \in Held' <=> LinkKey(b, e) \in Held \/ (b = c /\ e = d)
    BY KeysApart
  <2> QED
    BY <2>1
<1>4. users' = [users EXCEPT ![d] = @ \cup {c}]
  <2>1. \A b \in CentroidIds, e \in DocIds :
           BackKey(e, b) \in Held' <=> BackKey(e, b) \in Held \/ (b = c /\ e = d)
    BY KeysApart
  <2> QED
    BY <2>1
<1> QED
    BY <1>1, <1>2, <1>3, <1>4 DEF Store!addDocumentToCentroid

LEMMA MapsRemove ==
    ASSUME AllUnambiguous, NEW c \in CentroidIds, NEW d \in DocIds,
           CentroidKey(c) \in Held, DocKey(d) \in Held,
           Held' = Held \ {BackKey(d, c), LinkKey(c, d)}
    PROVE  Store!removeDocumentFromCentroid(c, d)
<1> USE Abstraction, AbstractionNext
<1>1. documents' = documents /\ d \in documents
    BY KeysApart
<1>2. centroids' = centroids /\ c \in centroids
    BY KeysApart
<1>3. members' = [members EXCEPT ![c] = @ \ {d}]
  <2>1. \A b \in CentroidIds, e \in DocIds :
           LinkKey(b, e) \in Held' <=> LinkKey(b, e) \in Held /\ ~(b = c /\ e = d)
    BY KeysApart
  <2> QED
    BY <2>1
<1>4. users' = [users EXCEPT ![d] = @ \ {c}]
  <2>1. \A b \in CentroidIds, e \in DocIds :
           BackKey(e, b) \in Held' <=> BackKey(e, b) \in Held /\ ~(b = c /\ e = d)
    BY KeysApart
  <2> QED
    BY <2>1
<1> QED
    BY <1>1, <1>2, <1>3, <1>4 DEF Store!removeDocumentFromCentroid

LEMMA MapsMetadata ==
    ASSUME AllUnambiguous, NEW c \in CentroidIds, NEW name \in MetadataNames,
           Held' = Held \cup {MetaKey(c, name)}
    PROVE  UNCHANGED Store!vars
<1> USE Abstraction, AbstractionNext
<1>1. documents' = documents /\ centroids' = centroids
    BY MetadataApart
<1>2. members' = members
    BY MetadataApart
<1>3. users' = users
    BY MetadataApart
<1> QED
    BY <1>1, <1>2, <1>3 DEF Store!vars

LEMMA NextMaps ==
    ASSUME AllUnambiguous, StoreInv, [Next]_vars
    PROVE  [Store!Next]_Store!vars
<1>1. CASE UNCHANGED vars
    BY <1>1, SameHeld DEF vars, Held, rocks
<1>2. ASSUME NEW d \in DocIds, NEW v, saveDocument(d, v) \/ saveNewDocument(d, v)
      PROVE  [Store!Next]_Store!vars
    BY <1>2, SavesDocument, SameHeld, MapsSaveDocument DEF Store!Next
<1>3. ASSUME NEW d \in DocIds, deleteDocument(d)
      PROVE  [Store!Next]_Store!vars
    BY <1>3, DeletesDocument, SameHeld, MapsDeleteDocument DEF Store!Next
<1>4. ASSUME NEW c \in CentroidIds, createNewCentroid(c) \/ \E v : saveCentroid(c, v)
      PROVE  [Store!Next]_Store!vars
    BY <1>4, SavesCentroid, MapsCreateCentroid DEF Store!Next
<1>5. ASSUME NEW c \in CentroidIds, NEW name \in MetadataNames, NEW v,
             setCentroidMetadata(c, name, v)
      PROVE  [Store!Next]_Store!vars
    BY <1>5, SetsMetadata, MapsMetadata
<1>6. ASSUME NEW c \in CentroidIds, deleteCentroid(c)
      PROVE  [Store!Next]_Store!vars
    BY <1>6, DeletesCentroid, SameHeld, MapsDeleteCentroid DEF Store!Next
<1>7. ASSUME NEW c \in CentroidIds, NEW d \in DocIds,
             addDocumentToCentroid(c, d) \/ removeDocumentFromCentroid(c, d)
      PROVE  [Store!Next]_Store!vars
    BY <1>7, ChangesLinks, SameHeld, MapsAdd, MapsRemove DEF Store!Next
<1> QED
    BY <1>1, <1>2, <1>3, <1>4, <1>5, <1>6, <1>7 DEF Next

\* Where no id holds a prefix, whether ids hold colons or words or are prefixes of each other, the
\* store behaves as the sets of DocumentStore: no key is mistaken for another, and a range deleted
\* with a document or a centroid has all the keys that go with it and no other.  Nothing in the
\* code has clients choose such ids: with others it fails, as for the document
\* a__centroids:b, whose keys go with those of the links of the document a.
THEOREM KeysAreSets ==
    ASSUME AllUnambiguous
    PROVE  Spec => ImplementsStore
<1>1. Init => Store!Init
  <2> SUFFICES ASSUME Held = {}
               PROVE  Store!Init
    BY InitStores
  <2> QED
    BY Abstraction DEF Store!Init
<1>2. StoreInv /\ [Next]_vars => [Store!Next]_Store!vars
    BY NextMaps
<1> QED
    BY <1>1, <1>2, InitStores, NextStores, PTL DEF Spec, ImplementsStore, Store!Spec

-----------------------------------------------------------------------------
\* The order of the keys of one prefix, and what is cut out of them.

\* Keys with the same beginning are ordered by the rest.
LEMMA LessAfter ==
    ASSUME NEW p \in Keys, NEW y \in Keys, NEW z \in Keys
    PROVE  Less(p \o y, p \o z) <=> Less(y, z)
<1> DEFINE k == p \o y
           l == p \o z
           n == Len(p)
<1>1. n \in Nat /\ Len(y) \in Nat /\ Len(z) \in Nat
    BY KeyTypes
<1>2. /\ Len(k) = n + Len(y) /\ Len(l) = n + Len(z)
      /\ \A i \in 1..n : k[i] = p[i] /\ l[i] = p[i] /\ Rank[p[i]] \in Int
      /\ \A i \in 1..Len(y) : k[n + i] = y[i]
      /\ \A i \in 1..Len(z) : l[n + i] = z[i]
  <2>1. \A i \in 1..n : Rank[p[i]] \in Int
    BY KeyTypes
  <2> QED
    BY <1>1, <2>1 DEF Keys
<1> HIDE DEF k, l, n
<1>3. ASSUME Less(y, z)
      PROVE  Less(k, l)
  <2>1. PICK i \in 1..Len(z) : /\ \A j \in 1..(i - 1) : j <= Len(y) /\ y[j] = z[j]
                               /\ i <= Len(y) => Rank[y[i]] < Rank[z[i]]
    BY <1>3 DEF Less
  <2> DEFINE m == n + i
  <2>2. m = n + i /\ m \in 1..Len(l) /\ l[m] = z[i]
    BY <1>1, <1>2
  <2> HIDE DEF m
  <2>3. m <= Len(k) => Rank[k[m]] < Rank[l[m]]
    <3>1. m <= Len(k) => i \in 1..Len(y) /\ i <= Len(y)
      BY <1>1, <1>2, <2>2
    <3> QED
      BY <1>2, <2>1, <2>2, <3>1
  <2>4. ASSUME NEW j \in 1..(m - 1)
        PROVE  j <= Len(k) /\ k[j] = l[j]
    <3>1. CASE j <= n
      <4>1. j \in 1..n /\ j <= Len(k)
        BY <1>1, <1>2, <3>1
      <4> QED
        BY <1>2, <4>1
    <3>2. CASE j > n
      <4>1. j - n \in 1..(i - 1) /\ j - n \in 1..Len(z) /\ n + (j - n) = j
        BY <1>1, <2>2, <3>2
      <4>2. j - n <= Len(y) /\ y[j - n] = z[j - n]
        BY <2>1, <4>1
      <4>3. j - n \in 1..Len(y) /\ j <= Len(k)
        BY <1>1, <1>2, <4>1, <4>2
      <4> QED
        BY <1>2, <4>1, <4>2, <4>3
    <3> QED
      BY <1>1, <3>1, <3>2
  <2> QED
    BY <2>2, <2>3, <2>4 DEF Less
<1>4. ASSUME Less(k, l)
      PROVE  Less(y, z)
  <2>1. PICK i \in 1..Len(l) : /\ \A j \in 1..(i - 1) : j <= Len(k) /\ k[j] = l[j]
                               /\ i <= Len(k) => Rank[k[i]] < Rank[l[i]]
    BY <1>4 DEF Less
  <2>2. i > n
    <3> SUFFICES ASSUME i <= n
                 PROVE  FALSE
      BY <1>1, <1>2
    <3>1. i \in 1..n /\ i <= Len(k)
      BY <1>1, <1>2
    <3> QED
      BY <1>2, <2>1, <3>1
  <2> DEFINE m == i - n
  <2>3. m \in 1..Len(z) /\ n + m = i
    BY <1>1, <1>2, <2>2
  <2>4. m <= Len(y) => Rank[y[m]] < Rank[z[m]]
    <3>1. m <= Len(y) => m \in 1..Len(y) /\ i <= Len(k)
      BY <1>1, <1>2, <2>3
    <3> QED
      BY <1>2, <2>1, <2>3, <3>1
  <2>5. ASSUME NEW j \in 1..(m - 1)
        PROVE  j <= Len(y) /\ y[j] = z[j]
    <3>1. n + j \in 1..(i - 1) /\ j \in 1..Len(z)
      BY <1>1, <2>3
    <3>2. n + j <= Len(k) /\ k[n + j] = l[n + j]
      BY <2>1, <3>1
    <3>3. j \in 1..Len(y)
      BY <1>1, <1>2, <3>1, <3>2
    <3> QED
      BY <1>2, <3>1, <3>2, <3>3
  <2> HIDE DEF m
  <2> QED
    BY <2>3, <2>4, <2>5 DEF Less
<1> QED
    BY <1>3, <1>4 DEF k, l

\* Ids without a colon.
Plain == {x \in Keys : \A i \in 1..Len(x) : x[i] # Colon}

\* What follows the first colon of a key is its member.
LEMMA MemberOfKey ==
    ASSUME NEW x \in Plain, NEW w \in Words, NEW y \in Keys
    PROVE  Member(KeyOf(x, w, y)) = y
<1> DEFINE k == KeyOf(x, w, y)
           p == PrefixOf(x, w)
           n == Len(x) + 2
<1>0. x \in Keys /\ w # Colon
    BY WordTypes DEF Plain
<1>1. /\ p \in Keys /\ Len(x) \in Nat /\ Len(p) = n /\ p[n] = Colon /\ p[Len(x) + 1] = w
      /\ \A i \in 1..Len(x) : p[i] # Colon
    BY <1>0, PrefixOfAt DEF Plain
<1>2. /\ k \in Keys /\ Len(y) \in Nat /\ Len(k) = n + Len(y) /\ Len(k) \in Nat
      /\ \A i \in 1..n : k[i] = p[i]
      /\ \A i \in 1..Len(y) : k[n + i] = y[i]
  <2>1. /\ k \in Keys /\ Len(y) \in Nat /\ Len(k) = Len(p) + Len(y)
        /\ \A i \in 1..Len(p) : k[i] = p[i]
        /\ \A i \in 1..Len(y) : k[Len(p) + i] = y[i]
    BY <1>0, KeyOfAt
  <2>2. Len(k) \in Nat
    BY <2>1, KeyTypes
  <2> HIDE DEF k, p, n
  <2> QED
    BY <1>1, <2>1, <2>2
<1>3. DOMAIN k = 1..Len(k)
    BY <1>2 DEF Keys
<1> HIDE DEF k, p
<1>4. \A i \in 1..(n - 1) : k[i] # Colon
  <2> SUFFICES ASSUME NEW i \in 1..(n - 1)
               PROVE  k[i] # Colon
    OBVIOUS
  <2>1. i \in 1..n /\ (i \in 1..Len(x) \/ i = Len(x) + 1)
    BY <1>1
  <2> QED
    BY <1>0, <1>1, <1>2, <2>1
<1>5. n \in DOMAIN k /\ k[n] = Colon
    BY <1>1, <1>2, <1>3
<1>6. \A i \in DOMAIN k : k[i] = Colon /\ (\A j \in 1..(i - 1) : k[j] # Colon) => i = n
  <2> SUFFICES ASSUME NEW i \in DOMAIN k, k[i] = Colon, \A j \in 1..(i - 1) : k[j] # Colon
               PROVE  i = n
    OBVIOUS
  <2>1. i \in Nat /\ i >= 1 /\ n \in Nat /\ n >= 1
    BY <1>1, <1>2, <1>3
  <2>2. ~(i < n)
    BY <1>4, <2>1
  <2>3. ~(n < i)
    BY <1>5, <2>1
  <2> QED
    BY <2>1, <2>2, <2>3
<1>7. (CHOOSE i \in DOMAIN k : k[i] = Colon /\ \A j \in 1..(i - 1) : k[j] # Colon) = n
    BY <1>4, <1>5, <1>6
<1>8. Member(k) = SubSeq(k, 1 + n, Len(k))
    BY <1>7 DEF Member
<1>9. /\ SubSeq(k, 1 + n, Len(k)) \in Keys /\ Len(SubSeq(k, 1 + n, Len(k))) = Len(y)
      /\ \A i \in 1..Len(y) : SubSeq(k, 1 + n, Len(k))[i] = y[i]
  <2>1. n \in Nat
    BY <1>1
  <2> HIDE DEF n
  <2>2. SubSeq(k, 1 + n, Len(k)) \in Keys
    BY <1>2, <2>1 DEF Keys
  <2> DEFINE f == [i \in 1..Len(y) |-> k[i + (1 + n) - 1]]
  <2>3. SubSeq(k, 1 + n, Len(k)) = f
    BY <1>2, <2>1
  <2>4. \A i \in 1..Len(y) : i + (1 + n) - 1 = n + i
    BY <2>1
  <2>5. Len(f) = Len(y)
    BY <1>2
  <2>6. \A i \in 1..Len(y) : f[i] = y[i]
    BY <1>2, <2>4
  <2> HIDE DEF f
  <2> QED
    BY <2>2, <2>3, <2>5, <2>6
<1>10. y \in Keys
    OBVIOUS
<1>11. SubSeq(k, 1 + n, Len(k)) = y
    BY <1>9, <1>10, SeqEqual DEF Keys
<1> QED
    BY <1>8, <1>11 DEF k

\* The keys of a prefix and some members.
KeysOf(x, w, S) == {KeyOf(x, w, y) : y \in S}

\* The members of the sorted keys of a prefix are the sorted members.
LEMMA MembersOfSorted ==
    ASSUME NEW x \in Plain, NEW w \in Words, NEW S \in SUBSET Keys, IsFiniteSet(KeysOf(x, w, S))
    PROVE  /\ Members(Sorted(KeysOf(x, w, S))) = Sorted(S) /\ IsFiniteSet(S)
           /\ Len(Sorted(S)) = Len(Sorted(KeysOf(x, w, S)))
<1> DEFINE K == KeysOf(x, w, S)
           t == Sorted(K)
           n == Len(t)
           u == Members(t)
<1>0. x \in Keys
    BY DEF Plain
<1>1. K \in SUBSET Keys
    BY <1>0, KeyOfAt DEF KeysOf
<1>2. Increasing(t) /\ t \in Seq(K) /\ ToSet(t) = K /\ n \in Nat
    BY <1>1, SortedIncreases, SortedHasAll
<1>3. DOMAIN t = 1..n /\ \A i \in 1..n : t[i] \in K
    BY <1>2
<1>4. K = {KeyOf(x, w, y) : y \in S}
    BY DEF KeysOf
<1> HIDE DEF K, t, n
<1>5. \A i \in 1..n : u[i] \in S /\ t[i] = KeyOf(x, w, u[i])
  <2> SUFFICES ASSUME NEW i \in 1..n
               PROVE  u[i] \in S /\ t[i] = KeyOf(x, w, u[i])
    OBVIOUS
  <2>1. PICK y \in S : t[i] = KeyOf(x, w, y)
    BY <1>3, <1>4
  <2>2. u[i] = Member(t[i])
    BY <1>3 DEF Members
  <2>3. u[i] = y
    BY <2>1, <2>2, MemberOfKey
  <2> QED
    BY <2>1, <2>3
<1>6. u = [i \in 1..n |-> Member(t[i])]
    BY <1>3 DEF Members
<1> HIDE DEF u
<1>7. u \in Seq(Keys) /\ Len(u) = n /\ DOMAIN u = 1..n
  <2>1. \A i \in 1..n : Member(t[i]) \in Keys
    BY <1>5, <1>6
  <2> QED
    BY <1>2, <1>6, <2>1
<1>8. \A i, j \in 1..n : i < j => Less(u[i], u[j])
  <2> SUFFICES ASSUME NEW i \in 1..n, NEW j \in 1..n, i < j
               PROVE  Less(u[i], u[j])
    OBVIOUS
  <2>1. Less(t[i], t[j])
    BY <1>2 DEF Increasing, n
  <2>2. u[i] \in Keys /\ u[j] \in Keys /\ PrefixOf(x, w) \in Keys
    BY <1>0, <1>5, PrefixOfAt
  <2>3. t[i] = PrefixOf(x, w) \o u[i] /\ t[j] = PrefixOf(x, w) \o u[j]
    BY <1>5 DEF KeyOf, Key, PrefixOf
  <2> QED
    BY <2>1, <2>2, <2>3, LessAfter
<1>9. Increasing(u)
    BY <1>7, <1>8 DEF Increasing
<1>10. ToSet(u) = S
  <2>1. ToSet(u) = {u[i] : i \in 1..n}
    BY <1>7 DEF ToSet
  <2>2. ASSUME NEW y \in S
        PROVE  \E i \in 1..n : u[i] = y
    <3>1. KeyOf(x, w, y) \in ToSet(t)
      BY <1>2, <1>4
    <3>2. PICK i \in 1..n : t[i] = KeyOf(x, w, y)
      BY <1>3, <3>1 DEF ToSet
    <3>3. u[i] = y
      BY <1>6, <3>2, MemberOfKey
    <3> QED
      BY <3>3
  <2> QED
    BY <1>5, <2>1, <2>2
<1>11. u = Sorted(S) /\ IsFiniteSet(S)
    BY <1>9, <1>10, IncreasingIsSorted
<1> QED
    BY <1>7, <1>11 DEF u, t, K, n

-----------------------------------------------------------------------------
\* Pages.

\* A negative number is greater than the number of ids once it is taken for a size_t.
LEMMA SizeOf ==
    ASSUME NEW i \in Counts
    PROVE  /\ i \in Int /\ size_t(i) \in Nat
           /\ i >= 0 => size_t(i) = i
           /\ i < 0 => 2 * size_t(i) >= 2^SizeBits
<1> DEFINE M == 2^SizeBits
<1>1. M \in Nat /\ i \in Int /\ -M <= 2 * i /\ 2 * i < M
    BY CountsAssumption
<1>2. size_t(i) = i % M
    BY DEF size_t
<1> HIDE DEF M
<1>3. CASE i >= 0
  <2>1. i % M = i
    BY <1>1, <1>3
  <2> QED
    BY <1>1, <1>2, <1>3, <2>1
<1>4. CASE i < 0
  <2>1. i + M \in Nat /\ i + M < M /\ M > 0
    BY <1>1, <1>4
  <2>2. i % M = i + M
    BY <1>1, <1>4, <2>1
  <2>3. 2 * (i + M) >= M
    BY <1>1
  <2> QED
    BY <1>1, <1>2, <1>4, <2>1, <2>2, <2>3 DEF M
<1> QED
    BY <1>1, <1>3, <1>4

LEMMA MinOfTwo ==
    ASSUME NEW a \in Int, NEW b \in Int
    PROVE  Min({a, b}) = IF a <= b THEN a ELSE b
<1>1. \E x \in {a, b} : \A y \in {a, b} : x =< y
    OBVIOUS
<1>2. Min({a, b}) \in {a, b} /\ \A y \in {a, b} : Min({a, b}) =< y
    BY <1>1 DEF Min
<1> QED
    BY <1>2

\* As many keys as there may be ids.
Countable(S) == S \in SUBSET Keys /\ IsFiniteSet(S) /\ 2 * Cardinality(S) < 2^SizeBits

LEMMA NothingBehind ==
    ASSUME NEW t, NEW a \in Int, NEW b \in Int, b < a
    PROVE  SubSeq(t, a, b) = << >>
OBVIOUS

LEMMA PageCases ==
    ASSUME NEW S, NEW o \in Int, NEW n \in Int
    PROVE  /\ o < 0 \/ n = 0 => Page(S, o, n) = << >>
           /\ o >= 0 /\ n < 0 => Page(S, o, n) = SubSeq(Sorted(S), o + 1, Len(Sorted(S)))
           /\ o >= 0 /\ n > 0 =>
                 Page(S, o, n) = SubSeq(Sorted(S), o + 1, Min({Len(Sorted(S)), o + n}))
<1> DEFINE all == Sorted(S)
           slice(e) == SubSeq(all, o + 1, e)
<1>1. Page(S, o, n) = IF o < 0 \/ n = 0 THEN << >>
                      ELSE slice(IF n < 0 THEN Len(all) ELSE Min({Len(all), o + n}))
    BY Zenon DEF Page
<1>2. /\ o >= 0 /\ n < 0 => ~(o < 0 \/ n = 0)
      /\ o >= 0 /\ n > 0 => ~(o < 0 \/ n = 0) /\ ~(n < 0)
    OBVIOUS
<1> HIDE DEF slice
<1>3. /\ o < 0 \/ n = 0 => Page(S, o, n) = << >>
      /\ o >= 0 /\ n < 0 => Page(S, o, n) = slice(Len(all))
      /\ o >= 0 /\ n > 0 => Page(S, o, n) = slice(Min({Len(all), o + n}))
    BY <1>1, <1>2, Zenon
<1> QED
    BY <1>3, Zenon DEF slice

\* The slice that the two counters of iterPrefixFromOffset cut out.
LEMMA OffsetPage ==
    ASSUME NEW S, Countable(S), NEW o \in Counts, NEW n \in Counts
    PROVE  SubSeq(Sorted(S), size_t(o) + 1, Min({Len(Sorted(S)), size_t(o) + size_t(n)}))
              = Page(S, o, n)
<1> DEFINE all == Sorted(S)
           m == Len(all)
           end == Min({m, size_t(o) + size_t(n)})
           M == 2^SizeBits
<1>1. m \in Nat /\ 2 * m < M
    BY SortedIncreases DEF Countable
<1>2. /\ o \in Int /\ size_t(o) \in Nat /\ (o >= 0 => size_t(o) = o) /\ (o < 0 => 2 * size_t(o) >= M)
      /\ n \in Int /\ size_t(n) \in Nat /\ (n >= 0 => size_t(n) = n) /\ (n < 0 => 2 * size_t(n) >= M)
    BY SizeOf
<1>3. end = IF m <= size_t(o) + size_t(n) THEN m ELSE size_t(o) + size_t(n)
    BY <1>1, <1>2, MinOfTwo
<1>4. M \in Nat
    BY CountsAssumption
<1> HIDE DEF all, m, M, end
<1>6. CASE o < 0 \/ n = 0
  <2>1. end \in Int /\ size_t(o) + 1 \in Int /\ end < size_t(o) + 1
    BY <1>1, <1>2, <1>3, <1>4, <1>6
  <2>2. SubSeq(all, size_t(o) + 1, end) = << >>
    BY <2>1, NothingBehind
  <2>3. Page(S, o, n) = << >>
    BY <1>2, <1>6, PageCases
  <2> QED
    BY <2>2, <2>3, Zenon DEF all, m, end
<1>7. CASE o >= 0 /\ n < 0
  <2>1. end = m /\ size_t(o) = o
    BY <1>1, <1>2, <1>3, <1>4, <1>7
  <2>2. Page(S, o, n) = SubSeq(all, o + 1, m)
    BY <1>2, <1>7, PageCases, Zenon DEF all, m
  <2> QED
    BY <2>1, <2>2, Zenon DEF all, m, end
<1>8. CASE o >= 0 /\ n > 0
  <2>1. size_t(o) = o /\ size_t(n) = n
    BY <1>2, <1>8
  <2>2. Page(S, o, n) = SubSeq(all, o + 1, Min({m, o + n}))
    BY <1>2, <1>8, PageCases, Zenon DEF all, m
  <2> QED
    BY <2>1, <2>2, Zenon DEF all, m, end
<1>9. (o < 0 \/ n = 0) \/ (o >= 0 /\ n < 0) \/ (o >= 0 /\ n > 0)
    BY <1>2
<1> QED
    BY <1>6, <1>7, <1>8, <1>9, Zenon

\* The slice that a limit cuts out, and the one where zero is no limit.
LEMMA LimitPage ==
    ASSUME NEW S, Countable(S), NEW n \in Counts
    PROVE  /\ SubSeq(Sorted(S), 1, Min({Len(Sorted(S)), size_t(n)})) = Page(S, 0, n)
           /\ (IF size_t(n) > 0 THEN SubSeq(Sorted(S), 1, Min({Len(Sorted(S)), size_t(n)}))
               ELSE Sorted(S)) = Page(S, 0, IF n = 0 THEN -1 ELSE n)
<1> DEFINE all == Sorted(S)
           m == Len(all)
           end == Min({m, size_t(n)})
           M == 2^SizeBits
           slice == SubSeq(all, 1, end)
<1>1. m \in Nat /\ 2 * m < M /\ all \in Seq(S)
    BY SortedIncreases DEF Countable
<1>2. n \in Int /\ size_t(n) \in Nat /\ (n >= 0 => size_t(n) = n) /\ (n < 0 => 2 * size_t(n) >= M)
    BY SizeOf
<1>3. end = IF m <= size_t(n) THEN m ELSE size_t(n)
    BY <1>1, <1>2, MinOfTwo
<1>4. M \in Nat /\ M > 0
    BY <1>1, CountsAssumption
<1>5. SubSeq(all, 1, m) = all
    BY <1>1
<1>6. 0 + 1 = 1 /\ 0 + n = n /\ 0 >= 0 /\ 0 \in Int /\ -1 \in Int /\ -1 < 0
    BY <1>2
<1> HIDE DEF all, m, M, end
<1>7. CASE n = 0
  <2>1. end = 0 /\ ~(size_t(n) > 0)
    BY <1>1, <1>2, <1>3, <1>7
  <2>2. slice = << >>
    BY <2>1, NothingBehind
  <2>3. Page(S, 0, n) = << >>
    BY <1>2, <1>6, <1>7, PageCases
  <2>4. Page(S, 0, -1) = all
    <3>1. Page(S, 0, -1) = SubSeq(all, 0 + 1, m)
      BY <1>6, PageCases, Zenon DEF all, m
    <3> QED
      BY <1>5, <1>6, <3>1, Zenon
  <2>5. (IF n = 0 THEN -1 ELSE n) = -1
    BY <1>7
  <2> QED
    BY <2>1, <2>2, <2>3, <2>4, <2>5, Zenon DEF all, m, end
<1>8. CASE n < 0
  <2>1. end = m /\ size_t(n) > 0
    BY <1>1, <1>2, <1>3, <1>4, <1>8
  <2>2. Page(S, 0, n) = SubSeq(all, 0 + 1, m)
    BY <1>2, <1>6, <1>8, PageCases, Zenon DEF all, m
  <2>3. (IF n = 0 THEN -1 ELSE n) = n
    BY <1>2, <1>8
  <2>4. Page(S, 0, n) = slice
    BY <1>6, <2>1, <2>2, Zenon
  <2> QED
    BY <2>1, <2>3, <2>4, Zenon DEF all, m, end
<1>9. CASE n > 0
  <2>1. size_t(n) = n /\ size_t(n) > 0
    BY <1>2, <1>9
  <2>2. Page(S, 0, n) = SubSeq(all, 0 + 1, Min({m, 0 + n}))
    BY <1>2, <1>6, <1>9, PageCases, Zenon DEF all, m
  <2>3. (IF n = 0 THEN -1 ELSE n) = n
    BY <1>2, <1>9
  <2>4. Page(S, 0, n) = slice
    BY <1>6, <2>1, <2>2, Zenon DEF end
  <2> QED
    BY <2>1, <2>3, <2>4, Zenon DEF all, m, end
<1>10. n = 0 \/ n < 0 \/ n > 0
    BY <1>2
<1> QED
    BY <1>7, <1>8, <1>9, <1>10, Zenon

LEMMA MembersOfSlice ==
    ASSUME NEW t \in Seq(Keys), NEW a \in Nat, a >= 1, NEW b \in Int, b <= Len(t)
    PROVE  Members(SubSeq(t, a, b)) = SubSeq(Members(t), a, b)
<1> DEFINE u == SubSeq(t, a, b)
           n == IF a <= b THEN b - a + 1 ELSE 0
<1>0. Len(t) \in Nat /\ DOMAIN t = 1..Len(t) /\ n \in Nat
    OBVIOUS
<1>1. u = [i \in 1..n |-> t[i + a - 1]]
    BY <1>0
<1>2. SubSeq(Members(t), a, b) = [i \in 1..n |-> Members(t)[i + a - 1]]
    BY <1>0
<1>3. \A i \in 1..n : i + a - 1 \in 1..Len(t)
    BY <1>0
<1> HIDE DEF u, n
<1>4. DOMAIN u = 1..n /\ \A i \in 1..n : u[i] = t[i + a - 1]
    BY <1>1
<1>5. Members(u) = [i \in 1..n |-> Member(t[i + a - 1])]
    BY <1>4 DEF Members
<1>6. \A i \in 1..n : Members(t)[i + a - 1] = Member(t[i + a - 1])
    BY <1>0, <1>3 DEF Members
<1> QED
    BY <1>2, <1>5, <1>6 DEF u

-----------------------------------------------------------------------------
\* Listings.

LEMMA KeysBetween ==
    ASSUME StoreInv, NEW x \in Plain, NEW w \in Words, NEW S \in SUBSET Keys,
           HeldUnder(x, w) = KeysOf(x, w, S)
    PROVE  /\ iterPrefix("RockHandle", rocks, x \o <<w>>) = Sorted(KeysOf(x, w, S))
           /\ IsFiniteSet(KeysOf(x, w, S))
<1> DEFINE p == x \o <<w>>
           T == {k \in Held : ~Less(k, p \o <<Colon>>) /\ Less(k, p \o <<Semicolon>>)}
<1>1. p \in Keys
    BY PrefixOfAt DEF Plain
<1>2. Held \in SUBSET Keys /\ IsFiniteSet(Held)
    BY DEF StoreInv, Holds, Handles
<1>3. iterPrefix("RockHandle", rocks, p) = Sorted(T)
    BY Zenon DEF iterPrefix, iterRange, Held
<1>4. T = HeldUnder(x, w)
    BY <1>1, <1>2, PrefixRange DEF HeldUnder, PrefixOf
<1>5. IsFiniteSet(HeldUnder(x, w))
    BY <1>2, FS_Subset DEF HeldUnder
<1> QED
    BY <1>3, <1>4, <1>5

\* The keys from that of a member, whether the store has it or not.
LEMMA KeysFrom ==
    ASSUME StoreInv, NEW x \in Plain, NEW w \in Words, NEW S \in SUBSET Keys,
           HeldUnder(x, w) = KeysOf(x, w, S), NEW m \in Keys
    PROVE  iterRange("RockHandle", rocks, Key(x \o <<w>>, m), (x \o <<w>>) \o <<Semicolon>>)
              = Sorted(KeysOf(x, w, {y \in S : ~Less(y, m)}))
<1> DEFINE p == x \o <<w>>
           lo == p \o <<Colon>>
           hi == p \o <<Semicolon>>
           from == KeyOf(x, w, m)
           T == {k \in Held : ~Less(k, from) /\ Less(k, hi)}
<1>0. x \in Keys /\ lo = PrefixOf(x, w)
    BY DEF Plain, PrefixOf
<1>1. p \in Keys /\ lo \in Keys /\ from \in Keys /\ m \in Keys
    BY <1>0, PrefixOfAt, KeyOfAt
<1>2. Held \in SUBSET Keys
    BY DEF StoreInv, Holds, Handles
<1>3. iterRange("RockHandle", rocks, Key(p, m), hi) = Sorted(T)
    BY Zenon DEF iterRange, Held, KeyOf
<1>4. \A k \in Keys : ~Less(k, lo) /\ Less(k, hi) <=> StartsWith(k, lo)
    BY <1>1, PrefixRange
<1>5. StartsWith(from, lo)
  <2>1. StartsWith(KeyOf(x, w, m), PrefixOf(x, w))
    BY <1>0, StartsItsPrefix
  <2> QED
    BY <1>0, <2>1, Zenon
<1>6. \A y \in S : Less(KeyOf(x, w, y), from) <=> Less(y, m)
  <2> SUFFICES ASSUME NEW y \in S
               PROVE  Less(KeyOf(x, w, y), from) <=> Less(y, m)
    OBVIOUS
  <2>1. y \in Keys
    OBVIOUS
  <2>2. KeyOf(x, w, y) = lo \o y /\ from = lo \o m
    BY DEF KeyOf, Key
  <2> HIDE DEF lo, from
  <2> QED
    BY <1>1, <2>1, <2>2, LessAfter
<1> HIDE DEF p, lo, hi, from
<1>7. ASSUME NEW k \in Keys, Less(k, lo)
      PROVE  Less(k, from)
  <2>1. ~Less(from, lo)
    BY <1>1, <1>4, <1>5
  <2>2. from = lo \/ Less(lo, from)
    BY <1>1, <2>1, Total
  <2> QED
    BY <1>1, <1>7, <2>2, Transitive
<1>8. \A k \in Held : k \in T <=> k \in HeldUnder(x, w) /\ ~Less(k, from)
    BY <1>0, <1>2, <1>4, <1>7 DEF HeldUnder
<1>9. HeldUnder(x, w) \subseteq Held /\ HeldUnder(x, w) = {KeyOf(x, w, y) : y \in S}
    BY DEF HeldUnder, KeysOf
<1>10. T = KeysOf(x, w, {y \in S : ~Less(y, m)})
  <2>1. T = {k \in HeldUnder(x, w) : ~Less(k, from)}
    BY <1>8, <1>9
  <2> HIDE DEF T
  <2> QED
    BY <1>6, <1>9, <2>1 DEF KeysOf
<1> QED
    BY <1>3, <1>10 DEF p, hi

\* What is listed under a prefix is the sorted list of some ids, and its pages.
Lists(p, S) ==
    /\ Members(iterPrefix("RockHandle", rocks, p)) = Sorted(S)
    /\ \A o, n \in Counts :
          Members(iterPrefixFromOffset("RockHandle", rocks, p, size_t(o), size_t(n)))
             = Page(S, o, n)
    /\ \A m \in Keys, n \in Counts :
          Members(iterPrefixFromMember("RockHandle", rocks, p, m, size_t(n))) = PageFrom(S, m, n)

LEMMA Listed ==
    ASSUME StoreInv, NEW x \in Plain, NEW w \in Words, NEW S \in SUBSET Keys,
           HeldUnder(x, w) = KeysOf(x, w, S), Countable(S)
    PROVE  Lists(x \o <<w>>, S)
<1> DEFINE p == x \o <<w>>
           K == KeysOf(x, w, S)
<1>0. x \in Keys
    BY DEF Plain
<1>1. iterPrefix("RockHandle", rocks, p) = Sorted(K) /\ IsFiniteSet(K)
    BY KeysBetween
<1>2. \A R \in SUBSET S : KeysOf(x, w, R) \subseteq K /\ KeysOf(x, w, R) \in SUBSET Keys
    BY <1>0, KeyOfAt DEF KeysOf
<1>3. ASSUME NEW R \in SUBSET S
      PROVE  /\ Members(Sorted(KeysOf(x, w, R))) = Sorted(R) /\ Countable(R)
             /\ Sorted(KeysOf(x, w, R)) \in Seq(Keys) /\ Len(Sorted(KeysOf(x, w, R))) \in Nat
             /\ Len(Sorted(KeysOf(x, w, R))) = Len(Sorted(R))
  <2>1. IsFiniteSet(KeysOf(x, w, R))
    BY <1>1, <1>2, FS_Subset
  <2>2. R \in SUBSET Keys
    OBVIOUS
  <2>3. /\ Members(Sorted(KeysOf(x, w, R))) = Sorted(R) /\ IsFiniteSet(R)
        /\ Len(Sorted(R)) = Len(Sorted(KeysOf(x, w, R)))
    BY <2>1, <2>2, MembersOfSorted
  <2>4. Increasing(Sorted(KeysOf(x, w, R))) /\ Len(Sorted(KeysOf(x, w, R))) \in Nat
    BY <1>2, <2>1, SortedIncreases
  <2>5. Sorted(KeysOf(x, w, R)) \in Seq(Keys)
    BY <2>4 DEF Increasing
  <2>6. Countable(R)
    <3>1. Cardinality(R) <= Cardinality(S) /\ Cardinality(R) \in Nat /\ Cardinality(S) \in Nat
          /\ 2 * Cardinality(S) < 2^SizeBits /\ 2^SizeBits \in Nat
      BY <2>3, FS_Subset, FS_CardinalityType, CountsAssumption DEF Countable
    <3>2. 2 * Cardinality(R) < 2^SizeBits
      BY <3>1
    <3> QED
      BY <2>2, <2>3, <3>2 DEF Countable
  <2> QED
    BY <2>3, <2>4, <2>5, <2>6
<1>4. S \in SUBSET S
    OBVIOUS
<1>5. Members(Sorted(K)) = Sorted(S) /\ Sorted(K) \in Seq(Keys) /\ Len(Sorted(K)) \in Nat
      /\ Len(Sorted(K)) = Len(Sorted(S))
    BY <1>3, <1>4
<1>6. ASSUME NEW o \in Counts, NEW n \in Counts
      PROVE  Members(iterPrefixFromOffset("RockHandle", rocks, p, size_t(o), size_t(n)))
                = Page(S, o, n)
  <2> DEFINE a == size_t(o) + 1
             b == Min({Len(Sorted(K)), size_t(o) + size_t(n)})
  <2>1. size_t(o) \in Nat /\ size_t(n) \in Nat
    BY SizeOf
  <2>2. a \in Nat /\ a >= 1 /\ b \in Int /\ b <= Len(Sorted(K))
    <3> HIDE DEF K
    <3>1. size_t(o) + size_t(n) \in Int
      BY <2>1
    <3>2. b = IF Len(Sorted(K)) <= size_t(o) + size_t(n) THEN Len(Sorted(K))
              ELSE size_t(o) + size_t(n)
      BY <1>5, <3>1, MinOfTwo
    <3> HIDE DEF b
    <3> QED
      BY <1>5, <2>1, <3>1, <3>2
  <2>3. iterPrefixFromOffset("RockHandle", rocks, p, size_t(o), size_t(n)) = SubSeq(Sorted(K), a, b)
    BY <1>1, Zenon DEF iterPrefixFromOffset
  <2>4. SubSeq(Sorted(S), a, b) = Page(S, o, n)
    BY <1>5, OffsetPage, Zenon
  <2> HIDE DEF a, b, K
  <2>5. Members(SubSeq(Sorted(K), a, b)) = SubSeq(Members(Sorted(K)), a, b)
    BY <1>5, <2>2, MembersOfSlice
  <2> QED
    BY <1>5, <2>3, <2>4, <2>5, Zenon
<1>7. ASSUME NEW m \in Keys, NEW n \in Counts
      PROVE  Members(iterPrefixFromMember("RockHandle", rocks, p, m, size_t(n)))
                = PageFrom(S, m, n)
  <2> DEFINE R == {y \in S : ~Less(y, m)}
             L == KeysOf(x, w, R)
             b == Min({Len(Sorted(L)), size_t(n)})
  <2>1. size_t(n) \in Nat
    BY SizeOf
  <2>2. R \in SUBSET S
    OBVIOUS
  <2>3. Members(Sorted(L)) = Sorted(R) /\ Countable(R) /\ Sorted(L) \in Seq(Keys)
        /\ Len(Sorted(L)) \in Nat /\ Len(Sorted(L)) = Len(Sorted(R))
    BY <1>3, <2>2
  <2>4. iterRange("RockHandle", rocks, Key(p, m), p \o <<Semicolon>>) = Sorted(L)
    BY KeysFrom
  <2>5. iterPrefixFromMember("RockHandle", rocks, p, m, size_t(n)) = SubSeq(Sorted(L), 1, b)
    BY <2>4, Zenon DEF iterPrefixFromMember
  <2>6. PageFrom(S, m, n) = Page(R, 0, n)
    BY Zenon DEF PageFrom
  <2> HIDE DEF R, L, K
  <2>7. b \in Int /\ b <= Len(Sorted(L))
    BY <2>1, <2>3, MinOfTwo
  <2>8. SubSeq(Sorted(R), 1, b) = Page(R, 0, n)
    BY <2>3, LimitPage, Zenon
  <2> HIDE DEF b
  <2>9. Members(SubSeq(Sorted(L), 1, b)) = SubSeq(Members(Sorted(L)), 1, b)
    BY <2>3, <2>7, MembersOfSlice
  <2> QED
    BY <2>3, <2>5, <2>6, <2>8, <2>9, Zenon
<1> QED
    BY <1>1, <1>5, <1>6, <1>7, Zenon DEF Lists

\* The ids that each kind of key of the store stands for.
LEMMA KindsOfKeys ==
    ASSUME AllUnambiguous, StoreInv
    PROVE  /\ HeldUnder(<< >>, "documents") = KeysOf(<< >>, "documents", documents)
           /\ HeldUnder(<< >>, "centroids") = KeysOf(<< >>, "centroids", centroids)
           /\ \A c \in CentroidIds :
                 HeldUnder(c, "__documents") = KeysOf(c, "__documents", members[c])
           /\ \A d \in DocIds :
                 HeldUnder(d, "__centroids") = KeysOf(d, "__centroids", users[d])
<1> USE IdTypes, IdsAreIds, KeyForms
<1>1. \A k \in Held : Written(k)
    BY DEF StoreInv, Holds, Handles, rocks
<1>2. ASSUME NEW k \in Held
      PROVE  \/ \E d \in DocIds : k \in {DocKey(d), CreatedTimeKey(d)}
             \/ \E c \in CentroidIds, d \in DocIds : k \in {LinkKey(c, d), BackKey(d, c)}
             \/ \E c \in CentroidIds : k = CentroidKey(c)
             \/ \E c \in CentroidIds, name \in MetadataNames : k = MetaKey(c, name)
    BY <1>1 DEF Written
<1>3. HeldUnder(<< >>, "documents") = KeysOf(<< >>, "documents", documents)
  <2>1. ASSUME NEW k \in HeldUnder(<< >>, "documents")
        PROVE  \E d \in DocIds : k = DocKey(d)
    BY <1>2, OwnPrefix DEF HeldUnder
  <2>2. \A d \in DocIds : StartsWith(DocKey(d), PrefixOf(<< >>, "documents"))
    BY OwnPrefix
  <2> QED
    BY <2>1, <2>2, Abstraction DEF HeldUnder, KeysOf
<1>4. HeldUnder(<< >>, "centroids") = KeysOf(<< >>, "centroids", centroids)
  <2>1. ASSUME NEW k \in HeldUnder(<< >>, "centroids")
        PROVE  \E c \in CentroidIds : k = CentroidKey(c)
    BY <1>2, OwnPrefix DEF HeldUnder
  <2>2. \A c \in CentroidIds : StartsWith(CentroidKey(c), PrefixOf(<< >>, "centroids"))
    BY OwnPrefix
  <2> QED
    BY <2>1, <2>2, Abstraction DEF HeldUnder, KeysOf
<1>5. ASSUME NEW c \in CentroidIds
      PROVE  HeldUnder(c, "__documents") = KeysOf(c, "__documents", members[c])
  <2>1. ASSUME NEW k \in HeldUnder(c, "__documents")
        PROVE  \E d \in DocIds : k = LinkKey(c, d)
    BY <1>2, OwnPrefix DEF HeldUnder
  <2>2. \A d \in DocIds : StartsWith(LinkKey(c, d), PrefixOf(c, "__documents"))
    BY OwnPrefix
  <2>3. members[c] = {d \in DocIds : LinkKey(c, d) \in Held}
    BY Abstraction
  <2> QED
    BY <2>1, <2>2, <2>3 DEF HeldUnder, KeysOf
<1>6. ASSUME NEW d \in DocIds
      PROVE  HeldUnder(d, "__centroids") = KeysOf(d, "__centroids", users[d])
  <2>1. ASSUME NEW k \in HeldUnder(d, "__centroids")
        PROVE  \E c \in CentroidIds : k = BackKey(d, c)
    BY <1>2, OwnPrefix DEF HeldUnder
  <2>2. \A c \in CentroidIds : StartsWith(BackKey(d, c), PrefixOf(d, "__centroids"))
    BY OwnPrefix
  <2>3. users[d] = {c \in CentroidIds : BackKey(d, c) \in Held}
    BY Abstraction
  <2> QED
    BY <2>1, <2>2, <2>3 DEF HeldUnder, KeysOf
<1> QED
    BY <1>3, <1>4, <1>5, <1>6

LEMMA IdsCountable ==
    /\ \A S \in SUBSET DocIds : Countable(S) /\ S \in SUBSET Keys
    /\ \A S \in SUBSET CentroidIds : Countable(S) /\ S \in SUBSET Keys
<1>1. ASSUME NEW T \in {DocIds, CentroidIds}, NEW S \in SUBSET T
      PROVE  Countable(S) /\ S \in SUBSET Keys
  <2>1. IsFiniteSet(T) /\ 2 * Cardinality(T) < 2^SizeBits /\ 2^SizeBits \in Nat
    BY CountsAssumption
  <2>2. IsFiniteSet(S) /\ Cardinality(S) <= Cardinality(T)
    BY <2>1, FS_Subset
  <2>3. Cardinality(S) \in Nat /\ Cardinality(T) \in Nat
    BY <2>1, <2>2, FS_CardinalityType
  <2>4. 2 * Cardinality(S) < 2^SizeBits
    <3> DEFINE M == 2^SizeBits
    <3>1. M \in Nat /\ 2 * Cardinality(T) < M
      BY <2>1
    <3> HIDE DEF M
    <3>2. 2 * Cardinality(S) < M
      BY <2>2, <2>3, <3>1
    <3> QED
      BY <3>2 DEF M
  <2>5. S \in SUBSET Keys
    BY IdTypes
  <2> QED
    BY <2>2, <2>4, <2>5 DEF Countable
<1> QED
    BY <1>1

LEMMA PlainIds ==
    /\ << >> \in Plain
    /\ NoColons => CentroidIds \subseteq Plain
<1>1. ASSUME NoColons, NEW c \in CentroidIds
      PROVE  c \in Plain
  <2>1. c \in Keys /\ Colon \notin ToSet(c)
    BY <1>1, IdTypes DEF NoColons
  <2>2. DOMAIN c = 1..Len(c)
    BY <2>1 DEF Keys
  <2> QED
    BY <2>1, <2>2 DEF Plain, ToSet
<1>2. << >> \in Plain
    BY IdTypes DEF Plain
<1> QED
    BY <1>1, <1>2

\* A document is in a centroid when a key leads from it to the centroid.
LEMMA InAny ==
    ASSUME AllUnambiguous, StoreInv, NEW d \in DocIds
    PROVE  isDocumentInAnyCentroid("RockHandle", rocks, d) <=> users[d] # {}
<1> DEFINE t == iterPrefix("RockHandle", rocks, DocumentCentroidsPrefix(d))
           S == {k \in Held : /\ ~Less(k, DocumentCentroidsPrefix(d) \o <<Colon>>)
                              /\ Less(k, DocumentCentroidsPrefix(d) \o <<Semicolon>>)}
<1>1. ToSet(t) = HeldUnder(d, "__centroids")
    BY UnderPrefix DEF Handles, rocks
<1>2. HeldUnder(d, "__centroids") = {KeyOf(d, "__centroids", c) : c \in users[d]}
    BY KindsOfKeys DEF KeysOf
<1>3. t \in Seq(S)
  <2>1. t = Sorted(S)
    BY Zenon DEF iterPrefix, iterRange, Held
  <2>2. Held \in SUBSET Keys /\ IsFiniteSet(Held)
    BY DEF StoreInv, Holds, Handles
  <2>3. S \in SUBSET Keys /\ IsFiniteSet(S)
    BY <2>2, FS_Subset
  <2> QED
    BY <2>1, <2>3, SortedIncreases
<1> HIDE DEF t, S
<1>4. t = << >> <=> ToSet(t) = {}
  <2>1. Len(t) \in Nat /\ DOMAIN t = 1..Len(t) /\ (t = << >> <=> Len(t) = 0)
    BY <1>3
  <2>2. ToSet(t) = {t[i] : i \in 1..Len(t)}
    BY <2>1 DEF ToSet
  <2>3. Len(t) # 0 => 1 \in 1..Len(t)
    BY <2>1
  <2>4. Len(t) = 0 => 1..Len(t) = {}
    BY <2>1
  <2> QED
    BY <2>1, <2>2, <2>3, <2>4
<1> QED
    BY <1>1, <1>2, <1>4 DEF isDocumentInAnyCentroid, t

-----------------------------------------------------------------------------
\* The loop of listUnusedDocuments.

LEMMA NatInductive ==
    ASSUME NEW T, 0 \in T, \A n \in Nat : n \in T => n + 1 \in T
    PROVE  Nat \subseteq T
<1> SUFFICES ASSUME Nat \ T # {}
             PROVE  FALSE
    OBVIOUS
<1>1. PICK x \in Nat \ T : \A y \in Nat \ T : x <= y
    BY LeastNat
<1>2. x \in Nat /\ x \notin T /\ x # 0
    BY <1>1
<1>3. x - 1 \in Nat /\ ~(x <= x - 1) /\ (x - 1) + 1 = x
    BY <1>2
<1>4. x - 1 \in T
    BY <1>1, <1>3
<1> QED
    BY <1>2, <1>3, <1>4

\* kept of Unused, for the ids up to a position.
Keeps(f, ids, n) ==
    f = [i \in 0..n |-> IF i = 0 THEN << >>
                        ELSE IF isDocumentInAnyCentroid("RockHandle", rocks, ids[i]) THEN f[i - 1]
                        ELSE Append(f[i - 1], ids[i])]

LEMMA KeepsExists ==
    ASSUME NEW ids, NEW n \in Nat
    PROVE  \E f : Keeps(f, ids, n)
<1> DEFINE used(d) == isDocumentInAnyCentroid("RockHandle", rocks, d)
           next(s, d) == IF used(d) THEN s ELSE Append(s, d)
           T == {m \in Nat : \E f : f = [i \in 0..m |-> IF i = 0 THEN << >>
                                                        ELSE next(f[i - 1], ids[i])]}
<1> HIDE DEF next
<1>1. 0 \in T
  <2> DEFINE g == [i \in 0..0 |-> << >>]
  <2>1. g = [i \in 0..0 |-> IF i = 0 THEN << >> ELSE next(g[i - 1], ids[i])]
    OBVIOUS
  <2> QED
    BY <2>1
<1>2. ASSUME NEW m \in Nat, m \in T
      PROVE  m + 1 \in T
  <2>1. PICK f : f = [i \in 0..m |-> IF i = 0 THEN << >> ELSE next(f[i - 1], ids[i])]
    BY <1>2
  <2> DEFINE g == [i \in 0..(m + 1) |-> IF i = m + 1 THEN next(f[m], ids[i]) ELSE f[i]]
  <2>2. ASSUME NEW i \in 0..(m + 1)
        PROVE  g[i] = IF i = 0 THEN << >> ELSE next(g[i - 1], ids[i])
    <3>1. CASE i = m + 1
      <4>1. i - 1 \in 0..(m + 1) /\ i - 1 # m + 1 /\ i - 1 = m /\ i # 0
        BY <3>1
      <4> QED
        BY <3>1, <4>1
    <3>2. CASE i # m + 1
      <4>1. i \in 0..m /\ (i # 0 => i - 1 \in 0..(m + 1) /\ i - 1 # m + 1)
        BY <3>2
      <4>2. f[i] = IF i = 0 THEN << >> ELSE next(f[i - 1], ids[i])
        BY <2>1, <4>1
      <4> QED
        BY <3>2, <4>1, <4>2
    <3> QED
      BY <3>1, <3>2
  <2>3. g = [i \in 0..(m + 1) |-> IF i = 0 THEN << >> ELSE next(g[i - 1], ids[i])]
    BY <2>2
  <2> HIDE DEF g
  <2> QED
    BY <2>3
<1>3. n \in T
  <2> HIDE DEF T
  <2> QED
    BY <1>1, <1>2, NatInductive
<1> QED
    BY <1>3 DEF Keeps, next

LEMMA UnusedKeeps ==
    ASSUME NEW ids, Len(ids) \in Nat
    PROVE  \E f : Keeps(f, ids, Len(ids)) /\ Unused("RockHandle", rocks, ids) = f[Len(ids)]
<1> DEFINE g == CHOOSE f : f = [i \in 0..Len(ids) |->
                  IF i = 0 THEN << >>
                  ELSE IF isDocumentInAnyCentroid("RockHandle", rocks, ids[i]) THEN f[i - 1]
                  ELSE Append(f[i - 1], ids[i])]
<1>1. \E f : Keeps(f, ids, Len(ids))
    BY KeepsExists
<1>2. Keeps(g, ids, Len(ids))
    BY <1>1, Zenon DEF Keeps
<1>3. Unused("RockHandle", rocks, ids) = g[Len(ids)]
    BY Zenon DEF Unused
<1> QED
    BY <1>2, <1>3, Zenon

LEMMA AppendIncreases ==
    ASSUME NEW t, Increasing(t), NEW e \in Keys, \A k \in ToSet(t) : Less(k, e)
    PROVE  Increasing(Append(t, e)) /\ ToSet(Append(t, e)) = ToSet(t) \cup {e}
<1> DEFINE u == Append(t, e)
           n == Len(t)
<1>1. t \in Seq(Keys) /\ n \in Nat /\ DOMAIN t = 1..n
    BY DEF Increasing
<1>2. /\ u \in Seq(Keys) /\ Len(u) = n + 1 /\ DOMAIN u = 1..(n + 1) /\ u[n + 1] = e
      /\ \A i \in 1..n : u[i] = t[i]
    BY <1>1
<1>3. \A i, j \in 1..n : i < j => Less(t[i], t[j])
    BY DEF Increasing
<1>4. ToSet(t) = {t[i] : i \in 1..n} /\ ToSet(u) = {u[i] : i \in 1..(n + 1)}
    BY <1>1, <1>2 DEF ToSet
<1> HIDE DEF u, n
<1>5. \A i \in 1..(n + 1) : i \in 1..n \/ i = n + 1
    BY <1>1
<1>6. \A i \in 1..n : i \in 1..(n + 1)
    BY <1>1
<1>7. n + 1 \in 1..(n + 1)
    BY <1>1
<1>8. ToSet(u) = ToSet(t) \cup {e}
    BY <1>2, <1>4, <1>5, <1>6, <1>7
<1>9. ASSUME NEW i \in 1..(n + 1), NEW j \in 1..(n + 1), i < j
      PROVE  Less(u[i], u[j])
  <2>1. i \in 1..n
    BY <1>1, <1>9
  <2>2. CASE j \in 1..n
    BY <1>2, <1>3, <1>9, <2>1, <2>2
  <2>3. CASE j = n + 1
    BY <1>2, <1>4, <2>1, <2>3
  <2> QED
    BY <1>5, <2>2, <2>3
<1>10. Increasing(u)
    BY <1>2, <1>9 DEF Increasing
<1> QED
    BY <1>8, <1>10 DEF u

\* The ids that are kept of sorted ids are in order.
LEMMA KeptSorted ==
    ASSUME NEW ids, Increasing(ids), NEW f, Keeps(f, ids, Len(ids))
    PROVE  /\ Increasing(f[Len(ids)])
           /\ ToSet(f[Len(ids)])
                = {d \in ToSet(ids) : ~isDocumentInAnyCentroid("RockHandle", rocks, d)}
<1> DEFINE used(d) == isDocumentInAnyCentroid("RockHandle", rocks, d)
           n == Len(ids)
           upTo(i) == {j \in 1..i : ~used(ids[j])}
           T == {i \in Nat : i <= n => Increasing(f[i]) /\ ToSet(f[i]) = {ids[j] : j \in upTo(i)}}
<1>1. n \in Nat /\ DOMAIN ids = 1..n /\ \A i \in 1..n : ids[i] \in Keys
    BY DEF Increasing
<1>2. \A i, j \in 1..n : i < j => Less(ids[i], ids[j])
    BY DEF Increasing
<1>3. \A i \in 0..n : f[i] = IF i = 0 THEN << >> ELSE IF used(ids[i]) THEN f[i - 1]
                             ELSE Append(f[i - 1], ids[i])
    BY DEF Keeps
<1> HIDE DEF used, n
<1>4. 0 \in T
  <2>1. f[0] = << >>
    BY <1>1, <1>3
  <2>2. Increasing(<< >>) /\ ToSet(<< >>) = {}
    BY DEF Increasing, ToSet
  <2>3. upTo(0) = {}
    OBVIOUS
  <2> HIDE DEF upTo
  <2> QED
    BY <2>1, <2>2, <2>3
<1>5. ASSUME NEW i \in Nat, i \in T
      PROVE  i + 1 \in T
  <2> SUFFICES ASSUME i + 1 <= n
               PROVE  /\ Increasing(f[i + 1])
                      /\ ToSet(f[i + 1]) = {ids[j] : j \in upTo(i + 1)}
    OBVIOUS
  <2>1. i <= n /\ i + 1 \in 0..n /\ i + 1 \in 1..n /\ i + 1 # 0 /\ (i + 1) - 1 = i
    BY <1>1
  <2>2. Increasing(f[i]) /\ ToSet(f[i]) = {ids[j] : j \in upTo(i)}
    BY <1>5, <2>1
  <2>3. f[i + 1] = IF used(ids[i + 1]) THEN f[i] ELSE Append(f[i], ids[i + 1])
    BY <1>3, <2>1
  <2>4. upTo(i + 1) = IF used(ids[i + 1]) THEN upTo(i) ELSE upTo(i) \cup {i + 1}
    <3>1. \A j : j \in 1..(i + 1) <=> j \in 1..i \/ j = i + 1
      OBVIOUS
    <3> QED
      BY <3>1
  <2>5. \A k \in ToSet(f[i]) : Less(k, ids[i + 1])
    <3>1. \A j \in upTo(i) : j \in 1..n /\ j < i + 1
      BY <1>1, <2>1
    <3> HIDE DEF upTo
    <3> QED
      BY <1>2, <2>1, <2>2, <3>1
  <2> HIDE DEF upTo
  <2>6. CASE used(ids[i + 1])
    BY <2>2, <2>3, <2>4, <2>6
  <2>7. CASE ~used(ids[i + 1])
    <3>1. /\ Increasing(Append(f[i], ids[i + 1]))
          /\ ToSet(Append(f[i], ids[i + 1])) = ToSet(f[i]) \cup {ids[i + 1]}
      BY <1>1, <2>1, <2>2, <2>5, AppendIncreases
    <3>2. {ids[j] : j \in upTo(i) \cup {i + 1}} = {ids[j] : j \in upTo(i)} \cup {ids[i + 1]}
      OBVIOUS
    <3>3. f[i + 1] = Append(f[i], ids[i + 1]) /\ upTo(i + 1) = upTo(i) \cup {i + 1}
      BY <2>3, <2>4, <2>7
    <3> QED
      BY <2>2, <3>1, <3>2, <3>3, Zenon
  <2> QED
    BY <2>6, <2>7
<1>6. n \in T
  <2>1. \A i \in Nat : i \in T => i + 1 \in T
    BY <1>5
  <2> HIDE DEF T
  <2>2. Nat \subseteq T
    BY <1>4, <2>1, NatInductive
  <2> QED
    BY <1>1, <2>2
<1>7. Increasing(f[n]) /\ ToSet(f[n]) = {ids[j] : j \in upTo(n)}
    BY <1>1, <1>6
<1>8. {ids[j] : j \in upTo(n)} = {d \in ToSet(ids) : ~used(d)}
  <2>1. ToSet(ids) = {ids[j] : j \in 1..n}
    BY <1>1 DEF ToSet
  <2> QED
    BY <2>1
<1> QED
    BY <1>7, <1>8 DEF used, n

LEMMA UnusedSorted ==
    ASSUME AllUnambiguous, StoreInv
    PROVE  Unused("RockHandle", rocks, Sorted(documents))
              = Sorted({d \in documents : users[d] = {}})
<1> DEFINE ids == Sorted(documents)
           used(d) == isDocumentInAnyCentroid("RockHandle", rocks, d)
<1>1. documents \in SUBSET DocIds
    BY DEF documents
<1>2. documents \in SUBSET Keys /\ IsFiniteSet(documents)
    BY <1>1, IdsCountable DEF Countable
<1>3. Increasing(ids) /\ Len(ids) \in Nat /\ ToSet(ids) = documents
    BY <1>2, SortedIncreases, SortedHasAll
<1>4. PICK f : Keeps(f, ids, Len(ids)) /\ Unused("RockHandle", rocks, ids) = f[Len(ids)]
    BY <1>3, UnusedKeeps
<1>5. Increasing(f[Len(ids)]) /\ ToSet(f[Len(ids)]) = {d \in ToSet(ids) : ~used(d)}
    BY <1>3, <1>4, KeptSorted
<1>6. {d \in ToSet(ids) : ~used(d)} = {d \in documents : users[d] = {}}
    BY <1>1, <1>3, InAny
<1>7. f[Len(ids)] = Sorted(ToSet(f[Len(ids)]))
    BY <1>5, IncreasingIsSorted
<1> QED
    BY <1>4, <1>5, <1>6, <1>7, Zenon

\* The listings of documents, of centroids and of the documents of a centroid that exists.
LEMMA ListsOfIds ==
    ASSUME AllUnambiguous, StoreInv
    PROVE  /\ listAllDocuments("RockHandle", rocks) = Sorted(documents)
           /\ listAllCentroids("RockHandle", rocks) = Sorted(centroids)
           /\ \A o, n \in Counts :
                 /\ future_listDocumentRange(rocks, o, n) = Page(documents, o, n)
                 /\ future_listCentroidRange(rocks, o, n) = Page(centroids, o, n)
           /\ \A n \in Counts, d \in DocIds :
                 future_listDocumentRangeFromID(rocks, d, n) = PageFrom(documents, d, n)
           /\ \A n \in Counts, c \in CentroidIds :
                 future_listCentroidRangeFromID(rocks, c, n) = PageFrom(centroids, c, n)
<1>1. << >> \in Plain /\ "documents" \in Words /\ "centroids" \in Words
    BY PlainIds, IdTypes
<1>2. << >> \o <<"documents">> = DocumentsPrefix /\ << >> \o <<"centroids">> = CentroidsPrefix
    BY DEF DocumentsPrefix, CentroidsPrefix
<1>3. /\ documents \in SUBSET Keys /\ Countable(documents)
      /\ centroids \in SUBSET Keys /\ Countable(centroids)
    BY IdsCountable DEF documents, centroids
<1>4. DocIds \subseteq Keys /\ CentroidIds \subseteq Keys
    BY IdTypes
<1>5. Lists(DocumentsPrefix, documents)
  <2>1. HeldUnder(<< >>, "documents") = KeysOf(<< >>, "documents", documents)
    BY KindsOfKeys
  <2>2. Lists(<< >> \o <<"documents">>, documents)
    BY <1>1, <1>3, <2>1, Listed, Zenon
  <2> QED
    BY <1>2, <2>2, Zenon
<1>6. Lists(CentroidsPrefix, centroids)
  <2>1. HeldUnder(<< >>, "centroids") = KeysOf(<< >>, "centroids", centroids)
    BY KindsOfKeys
  <2>2. Lists(<< >> \o <<"centroids">>, centroids)
    BY <1>1, <1>3, <2>1, Listed, Zenon
  <2> QED
    BY <1>2, <2>2, Zenon
<1>7. /\ listAllDocuments("RockHandle", rocks) = Sorted(documents)
      /\ listAllCentroids("RockHandle", rocks) = Sorted(centroids)
    BY <1>5, <1>6, Zenon DEF Lists, listAllDocuments, listAllCentroids
<1>8. \A o, n \in Counts :
         /\ future_listDocumentRange(rocks, o, n) = Page(documents, o, n)
         /\ future_listCentroidRange(rocks, o, n) = Page(centroids, o, n)
    BY <1>5, <1>6, Zenon DEF Lists, future_listDocumentRange, listDocumentRangeFromOffset,
                             future_listCentroidRange, listCentroidRangeFromOffset
<1>9. \A n \in Counts, d \in DocIds :
         future_listDocumentRangeFromID(rocks, d, n) = PageFrom(documents, d, n)
    BY <1>4, <1>5, Zenon DEF Lists, future_listDocumentRangeFromID, listDocumentRangeFromId
<1>10. \A n \in Counts, c \in CentroidIds :
          future_listCentroidRangeFromID(rocks, c, n) = PageFrom(centroids, c, n)
    BY <1>4, <1>6, Zenon DEF Lists, future_listCentroidRangeFromID, listCentroidRangeFromId
<1> QED
    BY <1>7, <1>8, <1>9, <1>10

LEMMA ListsOfMembers ==
    ASSUME AllUnambiguous, NoColons, StoreInv, NEW c \in centroids
    PROVE  /\ listAllDocumentsForCentroid("RockHandle", rocks, c) = Sorted(members[c])
           /\ \A o, n \in Counts :
                 future_listCentroidDocumentRange(rocks, c, o, n) = Page(members[c], o, n)
           /\ \A n \in Counts, d \in DocIds :
                 future_listCentroidDocumentRangeFromID(rocks, c, d, n) = PageFrom(members[c], d, n)
<1>1. c \in CentroidIds /\ doesCentroidExist(rocks, c)
    BY DEF centroids
<1>2. c \in Plain /\ "__documents" \in Words /\ DocIds \subseteq Keys
    BY <1>1, PlainIds, IdTypes
<1>3. members[c] \in SUBSET Keys /\ Countable(members[c])
    BY <1>1, IdsCountable DEF members
<1>4. c \o <<"__documents">> = CentroidDocumentPrefix(c)
    BY DEF CentroidDocumentPrefix
<1>5. Lists(CentroidDocumentPrefix(c), members[c])
  <2>1. HeldUnder(c, "__documents") = KeysOf(c, "__documents", members[c])
    BY <1>1, KindsOfKeys
  <2>2. Lists(c \o <<"__documents">>, members[c])
    BY <1>2, <1>3, <2>1, Listed, Zenon
  <2> QED
    BY <1>4, <2>2, Zenon
<1>6. \A docs : OrMissing(rocks, c, docs) = docs
    BY <1>1, Zenon DEF OrMissing
<1>7. listAllDocumentsForCentroid("RockHandle", rocks, c) = Sorted(members[c])
    BY <1>5, <1>6, Zenon DEF Lists, listAllDocumentsForCentroid, listAllDocumentsForCentroidRaw
<1>8. \A o, n \in Counts :
         future_listCentroidDocumentRange(rocks, c, o, n) = Page(members[c], o, n)
    BY <1>5, <1>6, Zenon DEF Lists, future_listCentroidDocumentRange, listCentroidDocumentRangeFromOffset,
                             listCentroidDocumentRangeFromOffsetRaw
<1>9. \A n \in Counts, d \in DocIds :
         future_listCentroidDocumentRangeFromID(rocks, c, d, n) = PageFrom(members[c], d, n)
    BY <1>2, <1>5, <1>6, Zenon DEF Lists, future_listCentroidDocumentRangeFromID,
           listCentroidDocumentRangeFromDocumentId, listCentroidDocumentRangeFromDocumentIdRaw
<1> QED
    BY <1>7, <1>8, <1>9

\* Where no id holds a prefix and no centroid's id a colon, for any contents of the store and any
\* offsets and counts, a listing is that slice of the sorted ids: the range of a prefix has the
\* keys of one kind and one id and no other, they are in the order of their members, what follows
\* the first colon is the member even where it holds colons, and a negative count or offset is
\* beyond every list once it is a size_t.  With other ids it fails: the document documents:a is listed twice,
\* and the documents of the centroid a:b under ids that are cut at its colon.
THEOREM ListingsAreExact ==
    ASSUME AllUnambiguous, NoColons
    PROVE  Spec => []ListingsAreSlices
<1>1. StoreInv => ListingsAreSlices
  <2> SUFFICES ASSUME StoreInv
               PROVE  ListingsAreSlices
    OBVIOUS
  <2> DEFINE inside(c) == {d \in DocIds : doesCentroidHaveDocument(rocks, c, d) = TRUE}
             unused == {d \in documents :
                          \A c \in CentroidIds :
                             ~exists(rocks, Key(DocumentCentroidsPrefix(d), c))}
  <2>1. \A c \in centroids : inside(c) = members[c]
    <3> SUFFICES ASSUME NEW c \in centroids
                 PROVE  inside(c) = members[c]
      OBVIOUS
    <3>1. c \in CentroidIds /\ doesCentroidExist(rocks, c)
      BY DEF centroids
    <3>2. \A d : doesCentroidHaveDocument(rocks, c, d) = TRUE
                   <=> exists(rocks, Key(CentroidDocumentPrefix(c), d))
      BY <3>1 DEF doesCentroidHaveDocument
    <3>3. members[c] = {d \in DocIds : exists(rocks, Key(CentroidDocumentPrefix(c), d))}
      BY <3>1 DEF members
    <3> QED
      BY <3>2, <3>3
  <2>2. unused = {d \in documents : users[d] = {}}
    <3>1. documents \in SUBSET DocIds
      BY DEF documents
    <3>2. \A d \in DocIds :
             users[d] = {c \in CentroidIds : exists(rocks, Key(DocumentCentroidsPrefix(d), c))}
      BY DEF users
    <3> QED
      BY <3>1, <3>2
  <2>3. ASSUME NEW n \in Counts
        PROVE  future_listUnusedDocuments(rocks, n) = Page(unused, 0, IF n = 0 THEN -1 ELSE n)
    <3> DEFINE all == Unused("RockHandle", rocks, listAllDocuments("RockHandle", rocks))
    <3>1. all = Sorted(unused)
      BY <2>2, ListsOfIds, UnusedSorted, Zenon
    <3>2. future_listUnusedDocuments(rocks, n)
            = IF size_t(n) > 0 THEN SubSeq(all, 1, Min({Len(all), size_t(n)})) ELSE all
      BY Zenon DEF future_listUnusedDocuments, listUnusedDocuments
    <3>3. Countable(unused)
      <4>1. unused \in SUBSET DocIds
        BY DEF documents
      <4> QED
        BY <4>1, IdsCountable
    <3> HIDE DEF unused, all
    <3>4. (IF size_t(n) > 0 THEN SubSeq(Sorted(unused), 1, Min({Len(Sorted(unused)), size_t(n)}))
           ELSE Sorted(unused)) = Page(unused, 0, IF n = 0 THEN -1 ELSE n)
      BY <3>3, LimitPage, Zenon
    <3> QED
      BY <3>1, <3>2, <3>4, Zenon
  <2>4. ASSUME NEW c \in centroids
        PROVE  /\ listAllDocumentsForCentroid("RockHandle", rocks, c) = Sorted(inside(c))
               /\ \A o, n \in Counts :
                     future_listCentroidDocumentRange(rocks, c, o, n) = Page(inside(c), o, n)
               /\ \A n \in Counts, d \in DocIds :
                     future_listCentroidDocumentRangeFromID(rocks, c, d, n)
                        = PageFrom(inside(c), d, n)
    <3>1. inside(c) = members[c]
      BY <2>1
    <3> HIDE DEF inside
    <3> QED
      BY <3>1, ListsOfMembers, Zenon
  <2> HIDE DEF inside, unused
  <2>5. /\ listAllDocuments("RockHandle", rocks) = Sorted(documents)
        /\ listAllCentroids("RockHandle", rocks) = Sorted(centroids)
        /\ \A c \in centroids :
             listAllDocumentsForCentroid("RockHandle", rocks, c) = Sorted(inside(c))
        /\ \A n \in Counts :
             /\ future_listUnusedDocuments(rocks, n) = Page(unused, 0, IF n = 0 THEN -1 ELSE n)
             /\ \A o \in Counts :
                   /\ future_listDocumentRange(rocks, o, n) = Page(documents, o, n)
                   /\ future_listCentroidRange(rocks, o, n) = Page(centroids, o, n)
                   /\ \A c \in centroids :
                         future_listCentroidDocumentRange(rocks, c, o, n) = Page(inside(c), o, n)
             /\ \A d \in DocIds :
                   /\ future_listDocumentRangeFromID(rocks, d, n) = PageFrom(documents, d, n)
                   /\ \A c \in centroids :
                         future_listCentroidDocumentRangeFromID(rocks, c, d, n)
                            = PageFrom(inside(c), d, n)
             /\ \A c \in CentroidIds :
                   future_listCentroidRangeFromID(rocks, c, n) = PageFrom(centroids, c, n)
    BY <2>3, <2>4, ListsOfIds, Zenon
  <2> QED
    BY <2>5, Zenon DEF ListingsAreSlices, inside, unused, future_listAllDocuments,
          future_listAllCentroids, future_listAllDocumentsForCentroid
<1> QED
    BY <1>1, InitStores, NextStores, PTL DEF Spec

\* Two pages of one list, the second where the first ends, are one longer page.
LEMMA PagesJoin ==
    ASSUME NEW S \in SUBSET Keys, IsFiniteSet(S),
           NEW o \in Nat, NEW n \in Nat, NEW m \in Nat, n > 0, m > 0
    PROVE  Page(S, o, n) \o Page(S, o + n, m) = Page(S, o, n + m)
<1> DEFINE all == Sorted(S)
           size == Len(all)
           end(k) == Min({size, k})
<1>1. all \in Seq(S) /\ size \in Nat
    BY SortedIncreases
<1>2. \A k \in Nat : end(k) = IF size <= k THEN size ELSE k
    BY <1>1, MinOfTwo
<1>3. /\ o \in Int /\ n \in Int /\ m \in Int /\ o + n \in Nat /\ n + m \in Nat
      /\ o + n + m = o + (n + m) /\ n + m > 0 /\ o >= 0 /\ o + n >= 0
      /\ o + n \in Int /\ n + m \in Int /\ o + (n + m) \in Nat
    OBVIOUS
<1>4. Page(S, o, n) = SubSeq(all, o + 1, end(o + n))
    BY <1>3, PageCases, Zenon
<1>5. Page(S, o + n, m) = SubSeq(all, o + n + 1, end(o + (n + m)))
  <2> DEFINE k == o + n
  <2>1. k \in Int /\ k >= 0 /\ k + m = o + (n + m)
    BY <1>3
  <2> HIDE DEF k
  <2>2. Page(S, k, m) = SubSeq(all, k + 1, end(k + m))
    BY <1>3, <2>1, PageCases, Zenon
  <2>3. Page(S, k, m) = SubSeq(all, k + 1, end(o + (n + m)))
    BY <2>1, <2>2, Zenon
  <2> QED
    BY <2>3 DEF k
<1>6. Page(S, o, n + m) = SubSeq(all, o + 1, end(o + (n + m)))
    BY <1>3, PageCases, Zenon
<1> HIDE DEF all, size, end
<1>7. CASE o + n <= size
  <2> DEFINE k == o + n
             e == end(o + (n + m))
  <2>1. end(o + n) = k /\ k \in Nat /\ k = o + n
    BY <1>1, <1>2, <1>3, <1>7
  <2>2. e \in o + n .. size
    BY <1>1, <1>2, <1>3, <1>7
  <2>3. SubSeq(all, o + 1, k) \o SubSeq(all, k + 1, e) = SubSeq(all, o + 1, e)
    <3>1. o + 1 \in 1..(size + 1) /\ k \in (o + 1) - 1 .. size /\ e \in k..size
      BY <1>1, <1>7, <2>2
    <3> HIDE DEF e, k
    <3> QED
      BY <1>1, <3>1, ConcatAdjacentSubSeq DEF size
  <2> QED
    BY <1>4, <1>5, <1>6, <2>1, <2>3, Zenon
<1>8. CASE o + n > size
  <2>1. end(o + n) = size /\ end(o + (n + m)) = size
    BY <1>1, <1>2, <1>3, <1>8
  <2>2. SubSeq(all, o + n + 1, size) = << >>
    <3>1. o + n + 1 \in Int /\ size \in Int /\ size < o + n + 1
      BY <1>1, <1>8
    <3> QED
      BY <3>1, NothingBehind
  <2>3. SubSeq(all, o + 1, size) \o << >> = SubSeq(all, o + 1, size)
    <3> DEFINE t == SubSeq(all, o + 1, size)
    <3>1. t \in Seq(S)
      <4>1. \A i \in o + 1 .. size : all[i] \in S
        BY <1>1 DEF size
      <4>2. o + 1 \in Int /\ size \in Int
        BY <1>1
      <4> HIDE DEF t
      <4>3. SubSeq(all, o + 1, size) \in Seq(S)
        BY <4>1, <4>2, SubSeqProperties, Zenon
      <4> QED
        BY <4>3 DEF t
    <3> HIDE DEF t
    <3>2. t \o << >> = t
      BY <3>1
    <3> QED
      BY <3>2 DEF t
  <2> QED
    BY <1>4, <1>5, <1>6, <2>1, <2>2, <2>3, Zenon
<1> QED
    BY <1>1, <1>7, <1>8

\* Two pages of documents, of centroids or of the documents of a centroid that exists, the
\* second from where the first ends, are the page that one request for both counts gets.
PagesCompose ==
    \A o, n, m \in Counts :
       o >= 0 /\ n > 0 /\ m > 0 /\ o + n \in Counts /\ n + m \in Counts =>
          /\ future_listDocumentRange(rocks, o, n) \o future_listDocumentRange(rocks, o + n, m)
                = future_listDocumentRange(rocks, o, n + m)
          /\ future_listCentroidRange(rocks, o, n) \o future_listCentroidRange(rocks, o + n, m)
                = future_listCentroidRange(rocks, o, n + m)
          /\ \A c \in centroids :
                future_listCentroidDocumentRange(rocks, c, o, n)
                   \o future_listCentroidDocumentRange(rocks, c, o + n, m)
                   = future_listCentroidDocumentRange(rocks, c, o, n + m)

\* In every state that the store can reach, if no id holds a prefix and no centroid's id a colon, a
\* client that asks for the next page where the last one ended gets every id in order, none twice
\* and none left out: the offset and count of a request, converted to size_t, count members and
\* not keys.
THEOREM PagedReading ==
    ASSUME AllUnambiguous, NoColons
    PROVE  Spec => []PagesCompose
<1>1. StoreInv => PagesCompose
  <2> SUFFICES ASSUME StoreInv PROVE PagesCompose
    OBVIOUS
  <2> SUFFICES ASSUME NEW o \in Counts, NEW n \in Counts, NEW m \in Counts,
                      o >= 0, n > 0, m > 0, o + n \in Counts, n + m \in Counts
               PROVE  /\ future_listDocumentRange(rocks, o, n)
                            \o future_listDocumentRange(rocks, o + n, m)
                            = future_listDocumentRange(rocks, o, n + m)
                      /\ future_listCentroidRange(rocks, o, n)
                            \o future_listCentroidRange(rocks, o + n, m)
                            = future_listCentroidRange(rocks, o, n + m)
                      /\ \A c \in centroids :
                            future_listCentroidDocumentRange(rocks, c, o, n)
                               \o future_listCentroidDocumentRange(rocks, c, o + n, m)
                               = future_listCentroidDocumentRange(rocks, c, o, n + m)
    BY Zenon DEF PagesCompose
  <2> DEFINE k == o + n
             l == n + m
  <2>1. o \in Nat /\ n \in Nat /\ m \in Nat /\ k \in Counts /\ l \in Counts
    BY CountsAssumption
  <2>2. ASSUME NEW S, Countable(S)
        PROVE  Page(S, o, n) \o Page(S, k, m) = Page(S, o, l)
    <3>1. S \in SUBSET Keys /\ IsFiniteSet(S)
      BY <2>2 DEF Countable
    <3> QED
      BY <2>1, <3>1, PagesJoin
  <2>3. Countable(documents) /\ Countable(centroids)
    BY IdsCountable DEF documents, centroids
  <2> HIDE DEF k, l
  <2>4. future_listDocumentRange(rocks, o, n) \o future_listDocumentRange(rocks, k, m)
           = future_listDocumentRange(rocks, o, l)
    BY <2>1, <2>2, <2>3, ListsOfIds, Zenon
  <2>5. future_listCentroidRange(rocks, o, n) \o future_listCentroidRange(rocks, k, m)
           = future_listCentroidRange(rocks, o, l)
    BY <2>1, <2>2, <2>3, ListsOfIds, Zenon
  <2>6. ASSUME NEW c \in centroids
        PROVE  future_listCentroidDocumentRange(rocks, c, o, n)
                  \o future_listCentroidDocumentRange(rocks, c, k, m)
                  = future_listCentroidDocumentRange(rocks, c, o, l)
    <3>1. members[c] \in SUBSET DocIds
      BY DEF members, centroids
    <3>2. Countable(members[c])
      BY <3>1, IdsCountable
    <3>3. \A p, q \in Counts :
             future_listCentroidDocumentRange(rocks, c, p, q) = Page(members[c], p, q)
      BY ListsOfMembers
    <3> QED
      BY <2>1, <2>2, <3>2, <3>3, Zenon
  <2> QED
    BY <2>4, <2>5, <2>6, Zenon DEF k, l
<1> QED
    BY <1>1, InitStores, NextStores, PTL DEF Spec
=============================================================================
