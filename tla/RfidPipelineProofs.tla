------------------------- MODULE RfidPipelineProofs -------------------------
(***************************************************************************)
(* Proofs about RfidPipeline for every set of events, batches and EPCs and *)
(* every setting: the ledger agrees with the outbox, batches with the      *)
(* ledger, the worker's memory is undone exactly, and an item is where its *)
(* evidence says.                                                          *)
(***************************************************************************)
EXTENDS RfidPipeline, FiniteSetTheorems, SequenceTheorems, NaturalsInduction, TLAPS

-----------------------------------------------------------------------------
(* Lemmas about finite sets of times and about sequences.                   *)

\* The latest of some times is one of them and none is later.
LEMMA LatestIsLast ==
    ASSUME NEW S \in SUBSET Nat, IsFiniteSet(S), S # {}
    PROVE  Latest(S) \in S /\ \A u \in S : u <= Latest(S)
<1> DEFINE After(x) == {y \in S : y > x}
           T == {Cardinality(After(x)) : x \in S}
<1>1. \A x \in S : IsFiniteSet(After(x)) /\ Cardinality(After(x)) \in Nat
    <2> TAKE x \in S
    <2>1. After(x) \in SUBSET S
        OBVIOUS
    <2>2. IsFiniteSet(After(x))
        BY <2>1, FS_Subset
    <2> QED BY <2>2, FS_CardinalityType
<1>2. PICK m \in T : \A y \in T : ~ (<<y, m>> \in OpToRel(<, Nat))
    <2>1. T \subseteq Nat /\ T # {}
        BY <1>1
    <2>2. IsWellFoundedOn(OpToRel(<, Nat), Nat)
        BY NatLessThanWellFounded
    <2> QED BY <2>1, <2>2, WFMin
<1>3. PICK x \in S : m = Cardinality(After(x))
    OBVIOUS
<1>4. \A u \in S : u <= x
    <2> SUFFICES ASSUME NEW u \in S, u > x PROVE FALSE
        OBVIOUS
    <2>1. After(u) \in SUBSET After(x)
        <3> SUFFICES ASSUME NEW y \in S, y > u PROVE y > x
            OBVIOUS
        <3>1. y \in Nat /\ u \in Nat /\ x \in Nat
            OBVIOUS
        <3> QED BY <3>1
    <2>2. Cardinality(After(u)) < Cardinality(After(x))
        <3>1. u \in After(x) /\ u \notin After(u)
            OBVIOUS
        <3>2. /\ Cardinality(After(u)) <= Cardinality(After(x))
              /\ Cardinality(After(x)) = Cardinality(After(u)) => After(x) = After(u)
            BY <1>1, <2>1, FS_Subset
        <3>3. Cardinality(After(u)) # Cardinality(After(x))
            BY <3>1, <3>2
        <3>4. Cardinality(After(u)) \in Nat /\ Cardinality(After(x)) \in Nat
            BY <1>1
        <3> HIDE DEF After
        <3> QED BY <3>2, <3>3, <3>4
    <2>3. Cardinality(After(u)) \in T /\ m \in Nat /\ Cardinality(After(u)) \in Nat
        BY <1>1
    <2>4. ~ (<<Cardinality(After(u)), m>> \in OpToRel(<, Nat))
        BY <1>2, <2>3
    <2> QED BY <1>3, <2>2, <2>3, <2>4 DEF OpToRel
<1> QED BY <1>4 DEF Latest

LEMMA EntriesOf ==
    ASSUME NEW T, NEW s \in Seq(T)
    PROVE  /\ DOMAIN s = 1..Len(s) /\ Len(s) \in Nat
           /\ Entries(s) \subseteq T
           /\ Entries(s) = {s[i] : i \in 1..Len(s)}
           /\ s \in Seq(Entries(s))
<1>1. Len(s) \in Nat /\ s \in [1..Len(s) -> T] /\ DOMAIN s = 1..Len(s)
    BY LenProperties
<1>2. s \in [1..Len(s) -> Entries(s)]
    BY <1>1 DEF Entries
<1>3. s \in Seq(Entries(s))
    BY <1>1, <1>2, SeqDef
<1> QED BY <1>1, <1>3 DEF Entries

Distinct(s) == \A i, j \in DOMAIN s : s[i] = s[j] => i = j

KeptAt(s, S) == {i \in DOMAIN s : s[i] \in S}

\* The entries of a filtered sequence sit at different positions of the whole one,
\* those that hold an entry of the set.
LEMMA FilterPositions ==
    ASSUME NEW T, NEW s \in Seq(T), NEW S
    PROVE  /\ Cardinality(KeptAt(s, S)) \in 0..Len(s)
           /\ \E p \in [1..Cardinality(KeptAt(s, S)) -> KeptAt(s, S)] :
                /\ Filter(s, S) = [n \in 1..Cardinality(KeptAt(s, S)) |-> s[p[n]]]
                /\ \A m, n \in 1..Cardinality(KeptAt(s, S)) : p[m] = p[n] => m = n
                /\ \A i \in KeptAt(s, S) :
                        \E n \in 1..Cardinality(KeptAt(s, S)) : p[n] = i
<1> DEFINE kept == {i \in DOMAIN s : s[i] \in S}
           N == Cardinality(kept)
           Low(i) == {j \in kept : j < i}
           at(n) == CHOOSE i \in kept : Cardinality(Low(i)) = n - 1
           rank == [i \in kept |-> Cardinality(Low(i)) + 1]
           p == [n \in 1..N |-> at(n)]
<1>1. kept \in SUBSET (1..Len(s)) /\ Len(s) \in Nat
    BY EntriesOf
<1>2. IsFiniteSet(kept) /\ N \in 0..Len(s)
    <2>1. IsFiniteSet(1..Len(s)) /\ Cardinality(1..Len(s)) = Len(s)
        BY <1>1, FS_Interval
    <2>2. IsFiniteSet(kept) /\ N <= Len(s)
        BY <1>1, <2>1, FS_Subset
    <2> QED BY <1>1, <2>2, FS_CardinalityType
<1>3. Filter(s, S) = [n \in 1..N |-> s[at(n)]]
    BY DEF Filter
<1>4. \A i \in kept : IsFiniteSet(Low(i)) /\ Cardinality(Low(i)) \in 0..(N - 1)
    <2> SUFFICES ASSUME NEW i \in kept
                 PROVE  IsFiniteSet(Low(i)) /\ Cardinality(Low(i)) \in 0..(N - 1)
        OBVIOUS
    <2>1. Low(i) \in SUBSET kept /\ i \notin Low(i)
        BY <1>1
    <2>2. /\ IsFiniteSet(Low(i)) /\ Cardinality(Low(i)) <= N
          /\ N = Cardinality(Low(i)) => kept = Low(i)
        BY <1>2, <2>1, FS_Subset
    <2>3. Cardinality(Low(i)) \in Nat
        BY <2>2, FS_CardinalityType
    <2>4. Cardinality(Low(i)) # N
        BY <2>1, <2>2
    <2> HIDE DEF Low, N, kept
    <2> QED BY <1>1, <1>2, <2>2, <2>3, <2>4
<1>5. \A i, k \in kept : i < k => Cardinality(Low(i)) < Cardinality(Low(k))
    <2> SUFFICES ASSUME NEW i \in kept, NEW k \in kept, i < k
                 PROVE  Cardinality(Low(i)) < Cardinality(Low(k))
        OBVIOUS
    <2>1. Low(i) \in SUBSET Low(k) /\ i \in Low(k) /\ i \notin Low(i)
        BY <1>1
    <2>2. /\ Cardinality(Low(i)) <= Cardinality(Low(k))
          /\ Cardinality(Low(k)) = Cardinality(Low(i)) => Low(k) = Low(i)
        BY <1>4, <2>1, FS_Subset
    <2>3. Cardinality(Low(i)) # Cardinality(Low(k))
        BY <2>1, <2>2
    <2> HIDE DEF Low, kept, N
    <2>4. Cardinality(Low(i)) \in Nat /\ Cardinality(Low(k)) \in Nat
        BY <1>4
    <2> QED BY <2>2, <2>3, <2>4
<1>6. rank \in Injection(kept, 1..N)
    <2>1. rank \in [kept -> 1..N]
        <3> HIDE DEF Low, kept, N
        <3>1. \A i \in kept : Cardinality(Low(i)) + 1 \in 1..N
            BY <1>2, <1>4
        <3> QED BY <3>1
    <2>2. \A i, k \in kept : rank[i] = rank[k] => i = k
        <3> SUFFICES ASSUME NEW i \in kept, NEW k \in kept, rank[i] = rank[k]
                     PROVE  i = k
            OBVIOUS
        <3>1. i \in Nat /\ k \in Nat
            BY <1>1
        <3> HIDE DEF kept, Low
        <3>2. Cardinality(Low(i)) = Cardinality(Low(k)) /\ Cardinality(Low(i)) \in Int
            <4>1. Cardinality(Low(i)) + 1 = Cardinality(Low(k)) + 1
                OBVIOUS
            <4>2. Cardinality(Low(i)) \in 0..(N - 1) /\ Cardinality(Low(k)) \in 0..(N - 1)
                BY <1>4
            <4> HIDE DEF N
            <4> QED BY <4>1, <4>2
        <3>3. ~(i < k) /\ ~(k < i)
            BY <1>5, <3>2
        <3> QED BY <3>1, <3>3
    <2> HIDE DEF rank
    <2> QED BY <2>1, <2>2 DEF Injection, IsInjective
<1>7. rank \in Surjection(kept, 1..N)
    <2>1. IsFiniteSet(1..N) /\ Cardinality(1..N) = N
        <3> HIDE DEF N
        <3> QED BY <1>2, FS_Interval
    <2> HIDE DEF rank, kept
    <2> QED BY <1>6, <2>1, FS_Injection
<1>8. \A n \in 1..N : \E i \in kept : Cardinality(Low(i)) = n - 1
    <2> SUFFICES ASSUME NEW n \in 1..N
                 PROVE  \E i \in kept : Cardinality(Low(i)) = n - 1
        OBVIOUS
    <2>1. PICK i \in kept : rank[i] = n
        <3> HIDE DEF rank, kept, N
        <3> QED BY <1>7 DEF Surjection
    <2>2. Cardinality(Low(i)) + 1 = n /\ Cardinality(Low(i)) \in Nat
        <3>1. Cardinality(Low(i)) \in 0..(N - 1)
            BY <1>4
        <3> HIDE DEF kept, Low, N
        <3> QED BY <2>1, <3>1
    <2> HIDE DEF Low, kept, N
    <2> QED BY <2>2
<1>9. \A n \in 1..N : at(n) \in kept /\ Cardinality(Low(at(n))) = n - 1
    <2> HIDE DEF Low, kept, N
    <2> QED BY <1>8
<1>10. p \in [1..N -> kept] /\ \A n \in 1..N : p[n] = at(n)
    <2> HIDE DEF kept, N, at
    <2> QED BY <1>9
<1>11. \A m, n \in 1..N : p[m] = p[n] => m = n
    <2> SUFFICES ASSUME NEW m \in 1..N, NEW n \in 1..N, p[m] = p[n]
                 PROVE  m = n
        OBVIOUS
    <2>1. at(m) = at(n)
        BY <1>10
    <2>2. m - 1 = n - 1
        BY <1>9, <2>1
    <2> HIDE DEF N, p
    <2> QED BY <2>2
<1>12. \A i \in kept : \E n \in 1..N : p[n] = i
    <2> SUFFICES ASSUME NEW i \in kept
                 PROVE  \E n \in 1..N : p[n] = i
        OBVIOUS
    <2> DEFINE n == Cardinality(Low(i)) + 1
    <2>1. n \in 1..N
        <3>1. Cardinality(Low(i)) \in 0..(N - 1)
            BY <1>4
        <3> HIDE DEF Low, N
        <3> QED BY <1>2, <3>1
    <2>2. at(n) \in kept /\ Cardinality(Low(at(n))) = Cardinality(Low(i))
        <3>1. at(n) \in kept /\ Cardinality(Low(at(n))) = n - 1
            BY <1>9, <2>1
        <3>2. Cardinality(Low(i)) \in 0..(N - 1)
            BY <1>4
        <3> HIDE DEF Low, N, at, kept
        <3> QED BY <3>1, <3>2
    <2>3. at(n) = i
        <3> DEFINE k == at(n)
        <3>1. i \in Nat /\ k \in Nat /\ k \in kept /\ Cardinality(Low(k)) = Cardinality(Low(i))
              /\ Cardinality(Low(i)) \in Int
            <4>1. i \in Nat /\ k \in Nat
                BY <1>1, <2>2
            <4>2. Cardinality(Low(i)) \in 0..(N - 1)
                BY <1>4
            <4> HIDE DEF N, Low, k
            <4> QED BY <4>1, <4>2, <2>2 DEF k
        <3> HIDE DEF k, kept, Low
        <3>2. ~(i < k) /\ ~(k < i)
            BY <1>5, <3>1
        <3>3. k = i
            BY <3>1, <3>2
        <3> QED BY <3>3 DEF k
    <2> QED BY <1>10, <2>1, <2>3
<1>13. Filter(s, S) = [n \in 1..N |-> s[p[n]]]
    <2> HIDE DEF N, at, kept
    <2> QED BY <1>3, <1>10
<1>14. kept = KeptAt(s, S)
    BY DEF KeptAt
<1> HIDE DEF p, kept
<1> QED BY <1>2, <1>10, <1>11, <1>12, <1>13, <1>14

LEMMA FilterFacts ==
    ASSUME NEW T, NEW s \in Seq(T), NEW S
    PROVE  /\ Filter(s, S) \in Seq(T)
           /\ Len(Filter(s, S)) <= Len(s)
           /\ Entries(Filter(s, S)) = Entries(s) \cap S
           /\ Distinct(s) => Distinct(Filter(s, S))
<1> DEFINE kept == KeptAt(s, S)
           N == Cardinality(kept)
<1>1. N \in 0..Len(s)
    BY FilterPositions
<1>2. PICK p \in [1..N -> kept] :
            /\ Filter(s, S) = [n \in 1..N |-> s[p[n]]]
            /\ \A m, n \in 1..N : p[m] = p[n] => m = n
            /\ \A i \in kept : \E n \in 1..N : p[n] = i
    BY FilterPositions
<1> DEFINE f == Filter(s, S)
<1>3. /\ DOMAIN s = 1..Len(s) /\ Len(s) \in Nat
      /\ \A i \in 1..Len(s) : s[i] \in T
    BY EntriesOf, ElementOfSeq
<1> HIDE DEF N
<1>4. f = [n \in 1..N |-> s[p[n]]] /\ N \in Nat
    BY <1>1, <1>2, <1>3
<1>5. \A n \in 1..N : p[n] \in DOMAIN s /\ s[p[n]] \in T /\ s[p[n]] \in S
    BY <1>2, <1>3 DEF KeptAt
<1> HIDE DEF f
<1>6. f \in [1..N -> T]
    BY <1>4, <1>5
<1>7. f \in Seq(T) /\ Len(f) = N /\ DOMAIN f = 1..N
    BY <1>4, <1>6, SeqDef
<1>8. Entries(f) = Entries(s) \cap S
    <2>1. Entries(f) = {s[p[n]] : n \in 1..N}
        BY <1>4, <1>7 DEF Entries
    <2>2. \A n \in 1..N : s[p[n]] \in Entries(s) \cap S
        BY <1>5 DEF Entries
    <2>3. \A x \in Entries(s) \cap S : \E n \in 1..N : x = s[p[n]]
        <3> SUFFICES ASSUME NEW x \in Entries(s) \cap S
                     PROVE  \E n \in 1..N : x = s[p[n]]
            OBVIOUS
        <3>1. PICK i \in DOMAIN s : s[i] = x
            BY DEF Entries
        <3>2. i \in kept
            BY <3>1 DEF KeptAt
        <3> QED BY <1>2, <3>1, <3>2
    <2> QED BY <2>1, <2>2, <2>3
<1>9. Distinct(s) => Distinct(f)
    <2> SUFFICES ASSUME Distinct(s), NEW m \in 1..N, NEW n \in 1..N, f[m] = f[n]
                 PROVE  m = n
        BY <1>7 DEF Distinct
    <2>1. s[p[m]] = s[p[n]] /\ p[m] \in DOMAIN s /\ p[n] \in DOMAIN s
        BY <1>4, <1>5
    <2>2. p[m] = p[n]
        BY <2>1 DEF Distinct
    <2> QED BY <1>2, <2>2
<1> QED BY <1>1, <1>3, <1>7, <1>8, <1>9 DEF f

\* Nothing is dropped from a sequence whose entries are all in the set.
LEMMA FilterAll ==
    ASSUME NEW T, NEW s \in Seq(T), NEW S, Entries(s) \subseteq S
    PROVE  Filter(s, S) = s
<1> DEFINE kept == {i \in DOMAIN s : s[i] \in S}
           Low(i) == {j \in kept : j < i}
           at(n) == CHOOSE i \in kept : Cardinality(Low(i)) = n - 1
<1>1. DOMAIN s = 1..Len(s) /\ Len(s) \in Nat /\ s = [i \in 1..Len(s) |-> s[i]]
    BY EntriesOf, LenProperties
<1>2. kept = 1..Len(s)
    BY <1>1 DEF Entries
<1>3. Cardinality(kept) = Len(s)
    <2>1. Cardinality(1..Len(s)) = Len(s)
        BY <1>1, FS_Interval
    <2> HIDE DEF kept
    <2> QED BY <1>2, <2>1
<1>4. \A i \in 1..Len(s) : Cardinality(Low(i)) = i - 1
    <2> SUFFICES ASSUME NEW i \in 1..Len(s) PROVE Cardinality(Low(i)) = i - 1
        OBVIOUS
    <2>1. Low(i) = 1..(i - 1)
        BY <1>1, <1>2
    <2>2. Cardinality(1..(i - 1)) = i - 1
        BY <1>1, FS_Interval
    <2> QED BY <2>1, <2>2
<1>5. Filter(s, S) = [n \in 1..Cardinality(kept) |-> s[at(n)]]
    BY DEF Filter
<1> HIDE DEF Low, kept
<1>6. \A n \in 1..Len(s) : at(n) = n
    <2> SUFFICES ASSUME NEW n \in 1..Len(s) PROVE at(n) = n
        OBVIOUS
    <2>1. n \in kept /\ Cardinality(Low(n)) = n - 1
        BY <1>2, <1>4
    <2>2. \A i \in kept : Cardinality(Low(i)) = n - 1 => i = n
        BY <1>1, <1>2, <1>4
    <2> QED BY <2>1, <2>2
<1> HIDE DEF at
<1>7. Filter(s, S) = [n \in 1..Len(s) |-> s[n]]
    BY <1>3, <1>5, <1>6
<1> QED BY <1>1, <1>7

\* A sequence of different entries is as long as they are many.
LEMMA DistinctLength ==
    ASSUME NEW T, NEW s \in Seq(T), Distinct(s)
    PROVE  IsFiniteSet(Entries(s)) /\ Cardinality(Entries(s)) = Len(s)
<1>1. DOMAIN s = 1..Len(s) /\ Len(s) \in Nat /\ Entries(s) = {s[i] : i \in 1..Len(s)}
    BY EntriesOf
<1>2. s \in [1..Len(s) -> Entries(s)]
    BY <1>1, LenProperties
<1>3. s \in Bijection(1..Len(s), Entries(s))
    BY <1>1, <1>2 DEF Distinct, Bijection, Injection, Surjection, IsInjective
<1>4. IsFiniteSet(1..Len(s)) /\ Cardinality(1..Len(s)) = Len(s)
    BY <1>1, FS_Interval
<1>5. ExistsBijection(1..Len(s), Entries(s))
    BY <1>3 DEF ExistsBijection
<1> QED BY <1>4, <1>5, FS_Bijection

LEMMA AppendEntries ==
    ASSUME NEW T, NEW s \in Seq(T), NEW x \in T
    PROVE  /\ Append(s, x) \in Seq(T) /\ Len(Append(s, x)) = Len(s) + 1
           /\ Entries(Append(s, x)) = Entries(s) \cup {x}
           /\ (Distinct(s) /\ x \notin Entries(s)) => Distinct(Append(s, x))
<1>1. DOMAIN s = 1..Len(s) /\ Len(s) \in Nat
    BY EntriesOf
<1> DEFINE a == Append(s, x)
<1>2. /\ a \in Seq(T) /\ Len(a) = Len(s) + 1 /\ a[Len(s) + 1] = x
      /\ \A i \in 1..Len(s) : a[i] = s[i]
    BY AppendProperties
<1>3. DOMAIN a = 1..(Len(s) + 1)
    BY <1>2, EntriesOf
<1> HIDE DEF a
<1>4. Entries(a) = Entries(s) \cup {x}
    <2>1. \A i \in 1..(Len(s) + 1) : i \in 1..Len(s) \/ i = Len(s) + 1
        BY <1>1
    <2>2. \A i \in 1..Len(s) : i \in 1..(Len(s) + 1)
        BY <1>1
    <2>3. Len(s) + 1 \in 1..(Len(s) + 1)
        BY <1>1
    <2> QED BY <1>1, <1>2, <1>3, <2>1, <2>2, <2>3, Zenon DEF Entries
<1>5. (Distinct(s) /\ x \notin Entries(s)) => Distinct(a)
    <2> SUFFICES ASSUME Distinct(s), x \notin Entries(s),
                        NEW i \in 1..(Len(s) + 1), NEW j \in 1..(Len(s) + 1), a[i] = a[j]
                 PROVE  i = j
        BY <1>3 DEF Distinct
    <2>1. \A k \in 1..Len(s) : a[k] # x
        BY <1>1, <1>2 DEF Entries
    <2>2. CASE i \in 1..Len(s) /\ j \in 1..Len(s)
        BY <1>1, <1>2, <2>2 DEF Distinct
    <2>3. CASE i = Len(s) + 1 \/ j = Len(s) + 1
        BY <1>1, <1>2, <2>1, <2>3
    <2> QED BY <1>1, <2>2, <2>3
<1> QED BY <1>2, <1>4, <1>5 DEF a

LEMMA ConcatEntries ==
    ASSUME NEW T, NEW s \in Seq(T), NEW t \in Seq(T)
    PROVE  /\ s \o t \in Seq(T) /\ Len(s \o t) = Len(s) + Len(t)
           /\ Entries(s \o t) = Entries(s) \cup Entries(t)
           /\ (Distinct(s) /\ Distinct(t) /\ Entries(s) \cap Entries(t) = {})
                => Distinct(s \o t)
<1>1. /\ DOMAIN s = 1..Len(s) /\ Len(s) \in Nat
      /\ DOMAIN t = 1..Len(t) /\ Len(t) \in Nat
    BY EntriesOf
<1> DEFINE c == s \o t
           m == Len(s)
           n == Len(t)
<1>2. /\ c \in Seq(T) /\ Len(c) = m + n
      /\ \A i \in 1..(m + n) : c[i] = IF i <= m THEN s[i] ELSE t[i - m]
    BY ConcatProperties
<1>3. DOMAIN c = 1..(m + n)
    BY <1>2, EntriesOf
<1> HIDE DEF c, m, n
<1>4. DOMAIN s = 1..m /\ DOMAIN t = 1..n /\ m \in Nat /\ n \in Nat
    BY <1>1 DEF m, n
<1>5. \A i \in 1..m : i \in 1..(m + n) /\ c[i] = s[i]
    BY <1>2, <1>4
<1>6. \A j \in 1..n : (m + j) \in 1..(m + n) /\ c[m + j] = t[j]
    BY <1>2, <1>4
<1>7. \A i \in 1..(m + n) : i \in 1..m \/ \E j \in 1..n : i = m + j
    <2> SUFFICES ASSUME NEW i \in 1..(m + n), i \notin 1..m
                 PROVE  \E j \in 1..n : i = m + j
        OBVIOUS
    <2>1. (i - m) \in 1..n /\ i = m + (i - m)
        BY <1>4
    <2> QED BY <2>1
<1>8. Entries(c) = Entries(s) \cup Entries(t)
    <2>1. \A x \in Entries(c) : x \in Entries(s) \/ x \in Entries(t)
        <3> SUFFICES ASSUME NEW i \in 1..(m + n)
                     PROVE  c[i] \in Entries(s) \/ c[i] \in Entries(t)
            BY <1>3 DEF Entries
        <3>1. CASE i \in 1..m
            BY <1>4, <1>5, <3>1 DEF Entries
        <3>2. CASE i \notin 1..m
            <4>1. PICK j \in 1..n : i = m + j
                BY <1>7, <3>2
            <4> QED BY <1>4, <1>6, <4>1 DEF Entries
        <3> QED BY <3>1, <3>2
    <2>2. \A i \in 1..m : s[i] \in Entries(c)
        BY <1>3, <1>5 DEF Entries
    <2>3. \A j \in 1..n : t[j] \in Entries(c)
        BY <1>3, <1>6 DEF Entries
    <2> QED BY <1>4, <2>1, <2>2, <2>3 DEF Entries
<1>9. (Distinct(s) /\ Distinct(t) /\ Entries(s) \cap Entries(t) = {}) => Distinct(c)
    <2> SUFFICES ASSUME Distinct(s), Distinct(t), Entries(s) \cap Entries(t) = {},
                        NEW i \in 1..(m + n), NEW j \in 1..(m + n), c[i] = c[j]
                 PROVE  i = j
        BY <1>3 DEF Distinct
    <2>1. \A k \in 1..m, l \in 1..n : s[k] # t[l]
        BY <1>4 DEF Entries
    <2>2. CASE i \in 1..m /\ j \in 1..m
        BY <1>4, <1>5, <2>2 DEF Distinct
    <2>3. CASE i \notin 1..m /\ j \notin 1..m
        <3>1. PICK k \in 1..n : i = m + k
            BY <1>7, <2>3
        <3>2. PICK l \in 1..n : j = m + l
            BY <1>7, <2>3
        <3>3. t[k] = t[l]
            BY <1>6, <3>1, <3>2
        <3> QED BY <1>4, <3>1, <3>2, <3>3 DEF Distinct
    <2>4. CASE i \in 1..m /\ j \notin 1..m
        BY <1>5, <1>6, <1>7, <2>1, <2>4
    <2>5. CASE i \notin 1..m /\ j \in 1..m
        BY <1>5, <1>6, <1>7, <2>1, <2>5
    <2> QED BY <2>2, <2>3, <2>4, <2>5
<1> QED BY <1>2, <1>8, <1>9 DEF c, m, n

LEMMA TailEntries ==
    ASSUME NEW T, NEW s \in Seq(T), s # <<>>
    PROVE  /\ Tail(s) \in Seq(T) /\ Len(Tail(s)) = Len(s) - 1 /\ s[1] \in Entries(s)
           /\ Distinct(s) => /\ Entries(Tail(s)) = Entries(s) \ {s[1]}
                             /\ Distinct(Tail(s))
<1>1. DOMAIN s = 1..Len(s) /\ Len(s) \in Nat \ {0}
    BY EntriesOf, EmptySeq
<1> DEFINE t == Tail(s)
           n == Len(s)
<1>2. /\ t \in Seq(T) /\ Len(t) = n - 1
      /\ \A i \in 1..(n - 1) : t[i] = s[i + 1]
    BY HeadTailProperties
<1>3. DOMAIN t = 1..(n - 1)
    BY <1>2, EntriesOf
<1> HIDE DEF t, n
<1>4. n \in Nat \ {0} /\ DOMAIN s = 1..n
    BY <1>1 DEF n
<1>5. \A i \in 1..(n - 1) : (i + 1) \in 1..n /\ i + 1 # 1 /\ 1 \in 1..n
    BY <1>4
<1>6. ASSUME Distinct(s) PROVE Entries(t) = Entries(s) \ {s[1]}
    <2>1. \A i \in 1..(n - 1) : t[i] \in Entries(s) /\ t[i] # s[1]
        BY <1>2, <1>4, <1>5, <1>6 DEF Entries, Distinct
    <2>2. \A i \in 1..n : s[i] = s[1] \/ s[i] \in Entries(t)
        <3> SUFFICES ASSUME NEW i \in 1..n, i # 1 PROVE s[i] \in Entries(t)
            OBVIOUS
        <3>1. (i - 1) \in 1..(n - 1) /\ (i - 1) + 1 = i
            BY <1>4
        <3>2. t[i - 1] = s[i]
            BY <1>2, <3>1
        <3> QED BY <1>3, <3>1, <3>2 DEF Entries
    <2> QED BY <1>3, <1>4, <2>1, <2>2 DEF Entries
<1>7. ASSUME Distinct(s) PROVE Distinct(t)
    <2> SUFFICES ASSUME NEW i \in 1..(n - 1), NEW j \in 1..(n - 1), t[i] = t[j]
                 PROVE  i = j
        BY <1>3 DEF Distinct
    <2>1. i + 1 = j + 1
        BY <1>2, <1>4, <1>5, <1>7 DEF Distinct
    <2> QED BY <2>1
<1>8. s[1] \in Entries(s)
    BY <1>4 DEF Entries
<1> QED BY <1>2, <1>6, <1>7, <1>8 DEF t, n

LEMMA OldestEntries ==
    ASSUME NEW T, NEW s \in Seq(T)
    PROVE  /\ Oldest(s) \in Seq(T) /\ Distinct(Oldest(s))
           /\ s = <<>> => Entries(Oldest(s)) = {}
           /\ s # <<>> => Entries(Oldest(s)) = {s[1]} /\ s[1] \in Entries(s)
<1>1. DOMAIN s = 1..Len(s) /\ Len(s) \in Nat
    BY EntriesOf
<1>2. CASE s = <<>>
    <2>1. Oldest(s) = <<>>
        BY <1>2, SubSeqEmpty DEF Oldest
    <2>2. Entries(<<>>) = {} /\ Distinct(<<>>) /\ <<>> \in Seq(T)
        BY EmptySeq DEF Entries, Distinct
    <2> QED BY <1>2, <2>1, <2>2
<1>3. CASE s # <<>>
    <2>1. Len(s) \in Nat \ {0} /\ 1 \in DOMAIN s
        BY <1>1, <1>3, EmptySeq
    <2>2. Oldest(s) = SubSeq(s, 1, 1)
        BY <1>3 DEF Oldest
    <2>3. \A i \in 1..1 : s[i] \in T
        BY <1>1, <2>1, ElementOfSeq
    <2>4. /\ SubSeq(s, 1, 1) \in Seq(T) /\ Len(SubSeq(s, 1, 1)) = 1
          /\ \A i \in 1..(1 - 1 + 1) : SubSeq(s, 1, 1)[i] = s[1 + i - 1]
        BY <2>3, SubSeqProperties
    <2> DEFINE o == SubSeq(s, 1, 1)
    <2>5. DOMAIN o = 1..1 /\ o[1] = s[1]
        BY <2>4, EntriesOf
    <2> HIDE DEF o
    <2>6. Entries(o) = {s[1]} /\ Distinct(o)
        BY <2>5 DEF Entries, Distinct
    <2>7. s[1] \in Entries(s)
        BY <2>1 DEF Entries
    <2> QED BY <1>3, <2>2, <2>4, <2>6, <2>7 DEF o
<1> QED BY <1>2, <1>3

LEMMA BoundedEntries ==
    ASSUME NEW T, NEW s \in Seq(T), NEW limit \in Nat \ {0},
           Distinct(s), Len(s) <= limit + 1
    PROVE  /\ Bounded(s, limit) \in Seq(T) /\ Len(Bounded(s, limit)) <= limit
           /\ Distinct(Bounded(s, limit))
           /\ Len(s) <= limit => Entries(Bounded(s, limit)) = Entries(s)
           /\ Len(s) > limit => Entries(Bounded(s, limit)) = Entries(s) \ {s[1]}
<1>1. Len(s) \in Nat
    BY EntriesOf
<1>2. CASE Len(s) > limit
    <2>1. s # <<>>
        BY <1>1, <1>2, EmptySeq
    <2>2. Bounded(s, limit) = Tail(s)
        BY <1>2 DEF Bounded
    <2> QED BY <1>1, <1>2, <2>1, <2>2, TailEntries
<1>3. CASE Len(s) <= limit
    <2>1. Bounded(s, limit) = s
        BY <1>1, <1>3 DEF Bounded
    <2> QED BY <1>1, <1>3, <2>1
<1> QED BY <1>1, <1>2, <1>3

\* Where some entries are put into a sequence does not matter to what it holds.
LEMMA InsertedEntries ==
    ASSUME NEW T, NEW s \in Seq(T), NEW n \in Seq(T), NEW at \in 0..Len(s)
    PROVE  LET r == SubSeq(s, 1, at) \o n \o SubSeq(s, at + 1, Len(s)) IN
           r \in Seq(T) /\ Entries(r) = Entries(s) \cup Entries(n)
<1> DEFINE low == SubSeq(s, 1, at)
           high == SubSeq(s, at + 1, Len(s))
<1>1. DOMAIN s = 1..Len(s) /\ Len(s) \in Nat
    BY EntriesOf
<1>2. low \in Seq(T) /\ high \in Seq(T)
    <2>1. \A i \in 1..at : s[i] \in T
        BY <1>1, ElementOfSeq
    <2>2. \A i \in (at + 1)..Len(s) : s[i] \in T
        BY <1>1, ElementOfSeq
    <2> QED BY <1>1, <2>1, <2>2, SubSeqProperties
<1>3. s = low \o high
    <2>1. at \in (1 - 1)..Len(s) /\ 1 \in 1..(Len(s) + 1) /\ Len(s) \in at..Len(s)
        BY <1>1
    <2> QED BY <2>1, SubSeqFull, ConcatAdjacentSubSeq
<1> HIDE DEF low, high
<1>4. Entries(s) = Entries(low) \cup Entries(high)
    BY <1>2, <1>3, ConcatEntries
<1> DEFINE mid == low \o n
<1>5. mid \in Seq(T) /\ Entries(mid) = Entries(low) \cup Entries(n)
    BY <1>2, ConcatEntries
<1> HIDE DEF mid
<1>6. mid \o high \in Seq(T) /\ Entries(mid \o high) = Entries(mid) \cup Entries(high)
    BY <1>2, <1>5, ConcatEntries
<1>7. Entries(mid \o high) = Entries(s) \cup Entries(n)
    BY <1>4, <1>5, <1>6
<1> QED BY <1>6, <1>7 DEF low, high, mid

-----------------------------------------------------------------------------
(* What a step does to the tables of the ledger: five kinds of step.        *)

tableVars == <<ledgerVars, accepted, outbox>>

\* The worker ends e's transaction, or the one that gives it up.
Finishes(e, status, d) ==
    /\ Working(e)
    /\ AdvanceBatch(e, status, d)
    /\ Publish(e)
    /\ d = "DUPLICATE" => Duplicate(e)
    /\ \/ status = "PROCESSED" /\ d \in Disposition /\ UNCHANGED quarantine
       \/ status = "REJECTED" /\ d \in Reason
            /\ quarantine' = [quarantine EXCEPT ![e] = IF @ = None THEN d ELSE @]
    /\ UNCHANGED accepted

\* The kinds of step.
TableStep ==
    \/ \E b \in Batch, es \in Requests, at \in 0..Cardinality(Event) :
            AcceptObservationBatch(b, es, at)
    \/ \E e \in Event, status \in Final, d \in Disposition \cup Reason :
            Finishes(e, status, d)
    \/ \E e \in Event : AttemptFails(e)
    \/ \E e \in Event : Replay(e)
    \/ UNCHANGED tableVars

LEMMA RejectionReasonType ==
    ASSUME NEW e \in Event, RejectionReason(e) # None
    PROVE  RejectionReason(e) \in Reason
BY DEF RejectionReason, Reason, None

LEMMA NextTouchesTables ==
    ASSUME [Next]_vars
    PROVE  TableStep
<1>1. ASSUME NEW e \in Event, NEW ack \in BOOLEAN, ObserveRejected(e, ack)
      PROVE  Finishes(e, "REJECTED", RejectionReason(e)) /\ RejectionReason(e) \in Reason
    BY <1>1, RejectionReasonType
    DEF ObserveRejected, Finishes, Quarantine, NoEvidence, EndTransaction, Reason
<1>2. ASSUME NEW e \in Event, NEW ack \in BOOLEAN, ObserveIgnored(e, ack)
      PROVE  \E d \in Disposition : Finishes(e, "PROCESSED", d)
    BY <1>2 DEF ObserveIgnored, Ignored, Finishes, NoEvidence, EndTransaction
<1>3. ASSUME NEW e \in Event, NEW ack \in BOOLEAN, ObserveAmbiguous(e, ack)
      PROVE  Finishes(e, "PROCESSED", "AMBIGUOUS")
    BY <1>3 DEF ObserveAmbiguous, Finishes, EndTransaction, Current, Disposition
<1>4. ASSUME NEW e \in Event, NEW ack \in BOOLEAN, NEW z \in Zone,
             ObserveSameZone(e, z, ack) \/ ObserveMove(e, z, ack)
      PROVE  Finishes(e, "PROCESSED", "PROCESSED")
    BY <1>4 DEF ObserveSameZone, ObserveMove, Finishes, EndTransaction, Current, Disposition
<1>5. ASSUME NEW e \in Event, AttemptsExhausted(e)
      PROVE  Finishes(e, "REJECTED", "PROCESSING_ATTEMPTS_EXHAUSTED")
    BY <1>5 DEF AttemptsExhausted, Finishes, Quarantine, Reason
<1>6. "PROCESSED" \in Final /\ "REJECTED" \in Final
    BY DEF Final
<1>7. /\ "AMBIGUOUS" \in Disposition /\ "PROCESSED" \in Disposition
      /\ "PROCESSING_ATTEMPTS_EXHAUSTED" \in Reason
    BY DEF Disposition, Reason
<1>8. ASSUME NEW e \in Event, NEW ack \in BOOLEAN, ProcessObservation(e, ack)
      PROVE  \E status \in Final, d \in Disposition \cup Reason : Finishes(e, status, d)
    BY <1>1, <1>2, <1>3, <1>4, <1>6, <1>7, <1>8 DEF ProcessObservation
<1>9. CASE Handle
    BY <1>5, <1>6, <1>7, <1>8, <1>9 DEF Handle, TableStep
<1>10. CASE UNCHANGED vars
    BY <1>10 DEF vars, TableStep, tableVars
<1>11. CASE BeginPass \/ (\E e \in Event : AttemptUncounted(e)) \/ WorkerRestarts
            \/ (\E c \in Epc, at \in Time : BindEpc(c, at)) \/ DeviceStatusChanges
            \/ (\E c \in Epc : AcceptAuthoritativeRemoval(c))
    BY <1>11 DEF BeginPass, AttemptUncounted, WorkerRestarts, BindEpc, DeviceStatusChanges,
        AcceptAuthoritativeRemoval, TableStep, tableVars
<1>12. CASE \E b \in Batch, es \in Requests, at \in 0..Cardinality(Event) :
                AcceptObservationBatch(b, es, at)
    BY <1>12 DEF TableStep
<1>13. CASE \E e \in Event : Replay(e)
    BY <1>13 DEF TableStep
<1> QED BY <1>9, <1>10, <1>11, <1>12, <1>13 DEF Next

-----------------------------------------------------------------------------
(* The ledger and the outbox.                                               *)

\* The part of TypeOK about them.
TablesOK ==
    /\ ledger \in [Event -> EventStatus \cup {None}]
    /\ outcome \in [Event -> Disposition \cup Reason \cup {None}]
    /\ quarantine \in [Event -> Reason \cup {None}]
    /\ accepted \in Seq(Event)
    /\ outbox \in [Event -> Row]

\* An event has an outbox row once it is in the ledger, and a fresh one until then;
\* a row in wait has attempts left; a rejected event says why.
RowsFollowLedger ==
    \A e \in Event :
        /\ ledger[e] # None <=> e \in Entries(accepted)
        /\ ledger[e] = None => outbox[e] = NewRow
        /\ ~outbox[e].published => outbox[e].attempts < MaxAttempts
        /\ ledger[e] = "REJECTED" => outcome[e] \in Reason

LedgerInv == TablesOK /\ RowsFollowLedger /\ LedgerMatchesOutbox

LEMMA LedgerInit == Init => LedgerInv
<1> SUFFICES ASSUME Init PROVE LedgerInv
    OBVIOUS
<1>1. TablesOK
    BY PipelineAssumption, EmptySeq DEF Init, TablesOK, Row, NewRow, EventStatus, Final, None
<1>2. Entries(<<>>) = {}
    BY DEF Entries
<1>3. RowsFollowLedger /\ LedgerMatchesOutbox
    BY <1>2, PipelineAssumption
    DEF Init, RowsFollowLedger, LedgerMatchesOutbox, Unpublished, NewRow, None
<1> QED BY <1>1, <1>3 DEF LedgerInv

\* The rows of the events a batch brings.
LEMMA AcceptedRows ==
    ASSUME LedgerInv, NEW b \in Batch, NEW es \in Requests,
           NEW at \in 0..Cardinality(Event), AcceptObservationBatch(b, es, at)
    PROVE  /\ accepted' \in Seq(Event)
           /\ \A e \in Event : e \in Entries(accepted')
                    <=> e \in Entries(accepted) \/ e \in Entries(es)
           /\ ledger' = [e \in Event |-> IF ledger[e] = None /\ e \in Entries(es)
                                         THEN "PENDING" ELSE ledger[e]]
<1> DEFINE fresh == {e \in Event : ledger[e] = None}
           new == Filter(es, fresh)
<1>1. es \in Seq(Event)
    BY PipelineAssumption
<1>2. new \in Seq(Event) /\ Entries(new) = Entries(es) \cap fresh
    BY <1>1, FilterFacts
<1>3. /\ at <= Len(accepted)
      /\ accepted' = SubSeq(accepted, 1, at) \o new
                        \o SubSeq(accepted, at + 1, Len(accepted))
      /\ ledger' = [e \in Event |-> IF e \in Entries(new) THEN "PENDING" ELSE ledger[e]]
    BY DEF AcceptObservationBatch
<1> HIDE DEF new
<1>4. accepted \in Seq(Event) /\ Len(accepted) \in Nat
    BY EntriesOf DEF LedgerInv, TablesOK
<1>5. at \in 0..Len(accepted)
    <2>1. IsFiniteSet(Event)
        BY PipelineAssumption
    <2> QED BY <1>3, <1>4, <2>1, FS_CardinalityType
<1>6. accepted' \in Seq(Event) /\ Entries(accepted') = Entries(accepted) \cup Entries(new)
    BY <1>2, <1>3, <1>4, <1>5, InsertedEntries
<1>7. \A e \in Event : ledger[e] # None => e \in Entries(accepted)
    BY DEF LedgerInv, RowsFollowLedger
<1>8. \A e \in Event : e \in Entries(accepted')
                    <=> e \in Entries(accepted) \/ e \in Entries(es)
    BY <1>2, <1>6, <1>7
<1>9. \A e \in Event : e \in Entries(new) <=> ledger[e] = None /\ e \in Entries(es)
    BY <1>2
<1> QED BY <1>3, <1>6, <1>8, <1>9

LEMMA LedgerAccept ==
    ASSUME LedgerInv, NEW b \in Batch, NEW es \in Requests,
           NEW at \in 0..Cardinality(Event), AcceptObservationBatch(b, es, at)
    PROVE  LedgerInv'
<1>1. UNCHANGED <<outcome, quarantine, outbox>>
    BY DEF AcceptObservationBatch, envVars
<1>2. /\ accepted' \in Seq(Event)
      /\ \A e \in Event : e \in Entries(accepted')
                    <=> e \in Entries(accepted) \/ e \in Entries(es)
      /\ ledger' = [e \in Event |-> IF ledger[e] = None /\ e \in Entries(es)
                                    THEN "PENDING" ELSE ledger[e]]
    BY AcceptedRows
<1>3. TablesOK'
    BY <1>1, <1>2 DEF LedgerInv, TablesOK, EventStatus
<1>4. \A e \in Event : ledger'[e] = ledger[e]
                       \/ (ledger[e] = None /\ ledger'[e] = "PENDING" /\ e \in Entries(es))
    BY <1>2
<1>5. \A e \in Event : e \in Entries(es) => ledger'[e] # None
    BY <1>2 DEF None
<1>6. RowsFollowLedger'
    <2> SUFFICES ASSUME NEW e \in Event
                 PROVE  /\ ledger'[e] # None <=> e \in Entries(accepted')
                        /\ ledger'[e] = None => outbox[e] = NewRow
                        /\ ~outbox[e].published => outbox[e].attempts < MaxAttempts
                        /\ ledger'[e] = "REJECTED" => outcome[e] \in Reason
        BY <1>1 DEF RowsFollowLedger
    <2>1. /\ ledger[e] # None <=> e \in Entries(accepted)
          /\ ledger[e] = None => outbox[e] = NewRow
          /\ ~outbox[e].published => outbox[e].attempts < MaxAttempts
          /\ ledger[e] = "REJECTED" => outcome[e] \in Reason
        BY DEF LedgerInv, RowsFollowLedger
    <2> QED BY <1>2, <1>4, <1>5, <2>1 DEF None
<1>7. LedgerMatchesOutbox'
    <2> SUFFICES ASSUME NEW e \in Event
                 PROVE  ledger'[e] = "PENDING" <=> e \in Entries(accepted') /\ ~outbox[e].published
        BY <1>1 DEF LedgerMatchesOutbox, Unpublished
    <2>1. /\ ledger[e] # None <=> e \in Entries(accepted)
          /\ ledger[e] = None => ~outbox[e].published
          /\ ledger[e] = "PENDING" <=> e \in Entries(accepted) /\ ~outbox[e].published
        BY DEF LedgerInv, RowsFollowLedger, LedgerMatchesOutbox, Unpublished, NewRow
    <2> QED BY <1>2, <1>4, <1>5, <2>1 DEF None
<1> QED BY <1>3, <1>6, <1>7 DEF LedgerInv

LEMMA LedgerFinishes ==
    ASSUME LedgerInv, NEW e \in Event, NEW status \in Final,
           NEW d \in Disposition \cup Reason, Finishes(e, status, d)
    PROVE  LedgerInv'
<1>1. /\ ledger[e] = "PENDING"
      /\ ledger' = [ledger EXCEPT ![e] = status]
      /\ outcome' = [outcome EXCEPT ![e] = d]
      /\ outbox' = [outbox EXCEPT ![e].published = TRUE, ![e].attempts = @ + 1]
      /\ accepted' = accepted
    BY DEF Finishes, Working, AdvanceBatch, Publish
<1>2. TablesOK
    BY DEF LedgerInv
<1>3. outbox[e] \in Row /\ ~outbox[e].published /\ outbox[e].attempts < MaxAttempts
    BY <1>1, <1>2 DEF LedgerInv, LedgerMatchesOutbox, Unpublished, RowsFollowLedger, TablesOK
<1> DEFINE published == [outbox[e] EXCEPT !.published = TRUE]
           row == [published EXCEPT !.attempts = @ + 1]
<1>4. row \in Row /\ row.published = TRUE
    <2>1. published \in Row /\ published.published = TRUE
            /\ published.attempts = outbox[e].attempts
        BY <1>3 DEF Row
    <2>2. published.attempts + 1 \in 0..MaxAttempts
        BY <1>3, <2>1, PipelineAssumption DEF Row
    <2> HIDE DEF published
    <2> QED BY <2>1, <2>2 DEF Row
<1>5. outbox' = [outbox EXCEPT ![e] = row]
    BY <1>1, <1>2 DEF TablesOK
<1> HIDE DEF row
<1>6. row.published = TRUE
    BY <1>4
<1>7. quarantine' \in [Event -> Reason \cup {None}]
    <2>1. CASE UNCHANGED quarantine
        BY <1>2, <2>1 DEF TablesOK
    <2>2. CASE /\ d \in Reason
               /\ quarantine' = [quarantine EXCEPT ![e] = IF @ = None THEN d ELSE @]
        BY <1>2, <2>2 DEF TablesOK
    <2> QED BY <2>1, <2>2 DEF Finishes
<1>8. status # None /\ status # "PENDING" /\ status \in EventStatus
    BY DEF Final, None, EventStatus
<1>9. TablesOK'
    BY <1>1, <1>2, <1>4, <1>5, <1>7, <1>8 DEF TablesOK
<1>10. status = "REJECTED" => d \in Reason
    BY DEF Finishes
<1>11. ASSUME NEW f \in Event, f # e
       PROVE  ledger'[f] = ledger[f] /\ outcome'[f] = outcome[f] /\ outbox'[f] = outbox[f]
    BY <1>1, <1>2, <1>5, <1>11 DEF TablesOK
<1>12. ledger'[e] = status /\ outcome'[e] = d /\ outbox'[e] = row
    BY <1>1, <1>2, <1>5 DEF TablesOK
<1>13. e \in Entries(accepted)
    BY <1>1 DEF LedgerInv, RowsFollowLedger, None
<1>14. RowsFollowLedger'
    <2> SUFFICES ASSUME NEW f \in Event
                 PROVE  /\ ledger'[f] # None <=> f \in Entries(accepted)
                        /\ ledger'[f] = None => outbox'[f] = NewRow
                        /\ ~outbox'[f].published => outbox'[f].attempts < MaxAttempts
                        /\ ledger'[f] = "REJECTED" => outcome'[f] \in Reason
        BY <1>1 DEF RowsFollowLedger
    <2>1. CASE f = e
        BY <1>6, <1>8, <1>10, <1>12, <1>13, <2>1
    <2>2. CASE f # e
        BY <1>11, <2>2 DEF LedgerInv, RowsFollowLedger
    <2> QED BY <2>1, <2>2
<1>15. LedgerMatchesOutbox'
    <2> SUFFICES ASSUME NEW f \in Event
                 PROVE  ledger'[f] = "PENDING" <=> f \in Entries(accepted) /\ ~outbox'[f].published
        BY <1>1 DEF LedgerMatchesOutbox, Unpublished
    <2>1. CASE f = e
        BY <1>6, <1>8, <1>12, <2>1
    <2>2. CASE f # e
        BY <1>11, <2>2 DEF LedgerInv, LedgerMatchesOutbox, Unpublished
    <2> QED BY <2>1, <2>2
<1> QED BY <1>9, <1>14, <1>15 DEF LedgerInv

LEMMA LedgerAttemptFails ==
    ASSUME LedgerInv, NEW e \in Event, AttemptFails(e)
    PROVE  LedgerInv'
<1>1. /\ ledger[e] = "PENDING" /\ outbox[e].attempts + 1 < MaxAttempts
      /\ outbox' = [outbox EXCEPT ![e] = FailedOnce(@)]
      /\ UNCHANGED <<ledger, outcome, quarantine, accepted>>
    BY DEF AttemptFails, Working, ledgerVars
<1>2. TablesOK /\ outbox[e] \in Row
    BY DEF LedgerInv, TablesOK
<1> DEFINE row == FailedOnce(outbox[e])
<1>3. row \in Row /\ row.published = outbox[e].published /\ row.attempts < MaxAttempts
    BY <1>1, <1>2, PipelineAssumption DEF FailedOnce, Row
<1>4. outbox'[e] = row /\ \A f \in Event : f # e => outbox'[f] = outbox[f]
    BY <1>1, <1>2 DEF TablesOK
<1>5. outbox' \in [Event -> Row]
    BY <1>1, <1>2, <1>3 DEF TablesOK
<1> HIDE DEF row
<1>6. TablesOK'
    BY <1>1, <1>2, <1>5 DEF TablesOK
<1>7. RowsFollowLedger'
    BY <1>1, <1>3, <1>4 DEF LedgerInv, RowsFollowLedger, None
<1>8. LedgerMatchesOutbox'
    BY <1>1, <1>3, <1>4 DEF LedgerInv, LedgerMatchesOutbox, Unpublished
<1> QED BY <1>6, <1>7, <1>8 DEF LedgerInv

LEMMA LedgerReplay ==
    ASSUME LedgerInv, NEW e \in Event, Replay(e)
    PROVE  LedgerInv'
<1>1. /\ ledger[e] = "REJECTED"
      /\ ledger' = [ledger EXCEPT ![e] = "PENDING"]
      /\ outcome' = [outcome EXCEPT ![e] = "REPLAY_QUEUED"]
      /\ outbox' = [outbox EXCEPT ![e] = [NewRow EXCEPT !.replayed = outcome[e]]]
      /\ UNCHANGED <<quarantine, accepted>>
    BY DEF Replay, Replayable
<1> DEFINE row == [NewRow EXCEPT !.replayed = outcome[e]]
<1>2. TablesOK /\ outcome[e] \in Reason /\ e \in Entries(accepted)
    BY <1>1 DEF LedgerInv, RowsFollowLedger, None
<1>3. row \in Row /\ row.published = FALSE /\ row.attempts < MaxAttempts
    <2>1. 0 \in 0..MaxAttempts /\ 0 < MaxAttempts
        BY PipelineAssumption
    <2>2. NewRow \in Row /\ NewRow.published = FALSE /\ NewRow.attempts = 0
        BY <2>1 DEF NewRow, Row
    <2> QED BY <1>2, <2>1, <2>2 DEF Row
<1> HIDE DEF row
<1>4. /\ outbox'[e] = row /\ ledger'[e] = "PENDING"
      /\ \A f \in Event : f # e => /\ outbox'[f] = outbox[f] /\ ledger'[f] = ledger[f]
                                   /\ outcome'[f] = outcome[f]
    BY <1>1, <1>2 DEF TablesOK, row
<1>5. TablesOK'
    BY <1>1, <1>2, <1>3 DEF TablesOK, EventStatus, Disposition, row
<1>6. RowsFollowLedger'
    BY <1>1, <1>2, <1>3, <1>4 DEF LedgerInv, RowsFollowLedger, None
<1>7. LedgerMatchesOutbox'
    BY <1>1, <1>2, <1>3, <1>4 DEF LedgerInv, LedgerMatchesOutbox, Unpublished
<1> QED BY <1>5, <1>6, <1>7 DEF LedgerInv

LEMMA LedgerNext ==
    ASSUME LedgerInv, TableStep
    PROVE  LedgerInv'
<1>1. CASE UNCHANGED tableVars
    BY <1>1 DEF tableVars, ledgerVars, LedgerInv, TablesOK, RowsFollowLedger,
        LedgerMatchesOutbox, Unpublished
<1> QED BY <1>1, LedgerAccept, LedgerFinishes, LedgerAttemptFails, LedgerReplay DEF TableStep

\* The ledger and the outbox never disagree (LedgerMatchesOutbox), whatever the
\* devices post, the worker meets and the operator replays.
THEOREM LedgerAgrees == Spec => []LedgerMatchesOutbox
<1>1. LedgerInv /\ [Next]_vars => LedgerInv'
    BY NextTouchesTables, LedgerNext
<1>2. LedgerInv => LedgerMatchesOutbox
    BY DEF LedgerInv
<1> QED BY LedgerInit, <1>1, <1>2, PTL DEF Spec

\* No step takes up a processed event again.
LEMMA ProcessedStep ==
    ASSUME LedgerInv, [Next]_vars, NEW e \in Event, ledger[e] = "PROCESSED"
    PROVE  ledger'[e] = "PROCESSED" /\ outcome'[e] = outcome[e]
<1>1. TablesOK
    BY DEF LedgerInv
<1>2. ASSUME NEW b \in Batch, NEW es \in Requests, NEW at \in 0..Cardinality(Event),
             AcceptObservationBatch(b, es, at)
      PROVE  ledger'[e] = "PROCESSED" /\ outcome'[e] = outcome[e]
    BY <1>2, AcceptedRows DEF AcceptObservationBatch, None
<1>3. ASSUME NEW f \in Event, NEW status \in Final,
             NEW d \in Disposition \cup Reason, Finishes(f, status, d)
      PROVE  ledger'[e] = "PROCESSED" /\ outcome'[e] = outcome[e]
    BY <1>1, <1>3 DEF Finishes, Working, AdvanceBatch, TablesOK
<1>4. ASSUME NEW f \in Event, AttemptFails(f)
      PROVE  ledger'[e] = "PROCESSED" /\ outcome'[e] = outcome[e]
    BY <1>4 DEF AttemptFails, ledgerVars
<1>5. ASSUME NEW f \in Event, Replay(f)
      PROVE  ledger'[e] = "PROCESSED" /\ outcome'[e] = outcome[e]
    BY <1>1, <1>5 DEF Replay, Replayable, TablesOK
<1>6. CASE UNCHANGED tableVars
    BY <1>6 DEF tableVars, ledgerVars
<1>7. TableStep
    BY NextTouchesTables
<1> QED BY <1>2, <1>3, <1>4, <1>5, <1>6, <1>7 DEF TableStep

\* A processed event stays processed (ProcessedIsFinal).
THEOREM ProcessedStays == Spec => ProcessedIsFinal
<1> DEFINE Step == \A e \in Event : ledger[e] = "PROCESSED" =>
                        /\ ledger'[e] = "PROCESSED"
                        /\ outcome'[e] = outcome[e]
<1>1. LedgerInv /\ [Next]_vars => LedgerInv'
    BY NextTouchesTables, LedgerNext
<1>2. LedgerInv /\ [Next]_vars => [Step]_vars
    BY ProcessedStep
<1> HIDE DEF Step
<1>3. Spec => [][Step]_vars
    BY LedgerInit, <1>1, <1>2, PTL DEF Spec
<1>4. [][Step]_vars => ProcessedIsFinal
    BY PTL DEF Step, ProcessedIsFinal
<1> QED BY <1>3, <1>4

-----------------------------------------------------------------------------
(* The batches.                                                             *)

LinkRow == [Event -> EventStatus \cup {None}]

Delivered(ls) == {e \in Event : ls[e] # None}

Completed == {"COMPLETED", "COMPLETED_WITH_ERRORS"}

\* What the counters and the status of a batch say of its links.
CountsTell(bt, ls) ==
    /\ bt.accepted = Cardinality(Delivered(ls))
    /\ bt.processed = LinksIn(ls, "PROCESSED")
    /\ bt.rejected = LinksIn(ls, "REJECTED")
    /\ Delivered(ls) # {} => (bt.status \in Completed <=> LinksIn(ls, "PENDING") = 0)
    /\ bt.status = "COMPLETED" => LinksIn(ls, "REJECTED") = 0

\* A link copies the ledger, and every batch tells of its links.
BatchInv ==
    /\ LedgerInv
    /\ links \in [Batch -> LinkRow]
    /\ batch \in [Batch -> Counters]
    /\ \A b \in Batch : \A e \in Event : links[b][e] \in {None, ledger[e]}
    /\ \A b \in Batch : CountsTell(batch[b], links[b])

LEMMA DisjointUnion ==
    ASSUME NEW S, NEW T, IsFiniteSet(S), IsFiniteSet(T), S \cap T = {}
    PROVE  /\ IsFiniteSet(S \cup T)
           /\ Cardinality(S) \in Nat /\ Cardinality(T) \in Nat
           /\ Cardinality(S \cup T) = Cardinality(S) + Cardinality(T)
<1>1. Cardinality(S) \in Nat /\ Cardinality(T) \in Nat
    BY FS_CardinalityType
<1>2. Cardinality(S \cap T) = 0
    BY FS_EmptySet
<1>3. /\ IsFiniteSet(S \cup T)
      /\ Cardinality(S \cup T) = Cardinality(S) + Cardinality(T) - Cardinality(S \cap T)
    BY FS_Union
<1> QED BY <1>1, <1>2, <1>3

LEMMA LinkCounts ==
    ASSUME NEW ls \in LinkRow
    PROVE  /\ LinksIn(ls, "PENDING") \in Nat
           /\ LinksIn(ls, "PROCESSED") \in Nat
           /\ LinksIn(ls, "REJECTED") \in Nat
           /\ Cardinality(Delivered(ls)) \in Nat
           /\ Cardinality(Delivered(ls)) = LinksIn(ls, "PENDING")
                    + LinksIn(ls, "PROCESSED") + LinksIn(ls, "REJECTED")
<1> DEFINE At(st) == {e \in Event : ls[e] = st}
           open == At("PENDING")
           done == At("PROCESSED")
           refused == At("REJECTED")
<1>1. \A st : IsFiniteSet(At(st)) /\ Cardinality(At(st)) \in Nat
    <2> TAKE st
    <2>1. At(st) \in SUBSET Event /\ IsFiniteSet(Event)
        BY PipelineAssumption
    <2>2. IsFiniteSet(At(st))
        BY <2>1, FS_Subset
    <2> QED BY <2>2, FS_CardinalityType
<1>2. /\ IsFiniteSet(open) /\ IsFiniteSet(done) /\ IsFiniteSet(refused)
      /\ Cardinality(open) \in Nat /\ Cardinality(done) \in Nat /\ Cardinality(refused) \in Nat
    BY <1>1
<1>3. Delivered(ls) = (open \cup done) \cup refused
    BY DEF Delivered, LinkRow, EventStatus, Final, None
<1>4. open \cap done = {} /\ (open \cup done) \cap refused = {}
    OBVIOUS
<1>5. \A st : LinksIn(ls, st) = Cardinality(At(st))
    BY DEF LinksIn
<1>6. /\ LinksIn(ls, "PENDING") = Cardinality(open)
      /\ LinksIn(ls, "PROCESSED") = Cardinality(done)
      /\ LinksIn(ls, "REJECTED") = Cardinality(refused)
    BY <1>5
<1> HIDE DEF open, done, refused
<1>7. IsFiniteSet(open \cup done) /\ Cardinality(open \cup done) = Cardinality(open) + Cardinality(done)
    BY <1>2, <1>4, DisjointUnion
<1> DEFINE both == open \cup done
<1> HIDE DEF both
<1>8. Cardinality(both \cup refused) = Cardinality(both) + Cardinality(refused)
    <2>1. IsFiniteSet(both) /\ both \cap refused = {}
        BY <1>4, <1>7 DEF both
    <2> QED BY <1>2, <2>1, DisjointUnion
<1>9. Cardinality(Delivered(ls)) = Cardinality(open) + Cardinality(done) + Cardinality(refused)
    BY <1>3, <1>7, <1>8 DEF both
<1> QED BY <1>2, <1>6, <1>9

\* A recount tells the truth, whatever the counters were.
LEMMA RecountTells ==
    ASSUME NEW ls \in LinkRow, NEW bt \in Counters,
           bt.accepted = Cardinality(Delivered(ls)),
           Delivered(ls) # {}, bt.status \notin Completed
    PROVE  Recounted(bt, ls) \in Counters /\ CountsTell(Recounted(bt, ls), ls)
<1> DEFINE one == [bt EXCEPT !.processed = LinksIn(ls, "PROCESSED")]
           c == [one EXCEPT !.rejected = LinksIn(ls, "REJECTED")]
           accounted == LinksIn(ls, "PROCESSED") + LinksIn(ls, "REJECTED")
<1>1. /\ LinksIn(ls, "PENDING") \in Nat /\ LinksIn(ls, "PROCESSED") \in Nat
      /\ LinksIn(ls, "REJECTED") \in Nat
      /\ Cardinality(Delivered(ls)) = LinksIn(ls, "PENDING") + accounted
    BY LinkCounts
<1>2. /\ one \in Counters /\ one.processed = LinksIn(ls, "PROCESSED")
      /\ one.accepted = bt.accepted /\ one.status = bt.status
    BY <1>1 DEF Counters
<1> HIDE DEF one
<1>3. /\ c \in Counters /\ c.processed = LinksIn(ls, "PROCESSED")
      /\ c.rejected = LinksIn(ls, "REJECTED")
      /\ c.accepted = bt.accepted /\ c.status = bt.status
    BY <1>1, <1>2 DEF Counters
<1>4. c = Counted(bt, ls)
    BY DEF Counted, one
<1> HIDE DEF c
<1> DEFINE status == IF accounted = c.accepted
                     THEN IF c.rejected > 0 THEN "COMPLETED_WITH_ERRORS" ELSE "COMPLETED"
                     ELSE IF accounted > 0 THEN "PROCESSING" ELSE c.status
           r == [c EXCEPT !.status = status]
<1>5. r = Recounted(bt, ls)
    <2>1. c.processed + c.rejected = accounted
        BY <1>3
    <2>2. c = [c EXCEPT !.status = c.status]
        BY <1>3 DEF Counters
    <2> QED BY <1>4, <2>1, <2>2 DEF Recounted
<1>6. status \in BatchStatus \cup {None}
    BY <1>3 DEF Counters, BatchStatus
<1>7. status \in Completed <=> LinksIn(ls, "PENDING") = 0
    BY <1>1, <1>3 DEF Completed
<1>8. status = "COMPLETED" => LinksIn(ls, "REJECTED") = 0
    BY <1>1, <1>3 DEF Completed
<1> HIDE DEF status
<1>9. /\ r \in Counters /\ r.accepted = c.accepted /\ r.processed = c.processed
      /\ r.rejected = c.rejected /\ r.status = status
    BY <1>3, <1>6 DEF Counters
<1>10. CountsTell(r, ls)
    BY <1>3, <1>7, <1>8, <1>9 DEF CountsTell
<1> QED BY <1>5, <1>9, <1>10

LEMMA BatchInit == Init => BatchInv
<1> SUFFICES ASSUME Init PROVE BatchInv
    OBVIOUS
<1> DEFINE ls == [e \in Event |-> None]
<1>1. ls \in LinkRow /\ \A e \in Event : ls[e] = None
    BY DEF LinkRow
<1>2. links = [b \in Batch |-> ls] /\ batch = [b \in Batch |-> NoBatch]
    BY DEF Init
<1> HIDE DEF ls
<1>3. Delivered(ls) = {} /\ Cardinality(Delivered(ls)) = 0
    BY <1>1, FS_EmptySet DEF Delivered
<1>4. LinksIn(ls, "PROCESSED") = 0 /\ LinksIn(ls, "REJECTED") = 0
    BY <1>3, LinkCounts, <1>1
<1>5. CountsTell(NoBatch, ls) /\ NoBatch \in Counters
    BY <1>3, <1>4 DEF CountsTell, NoBatch, Counters
<1> QED BY <1>1, <1>2, <1>5, LedgerInit DEF BatchInv

LEMMA BatchAccept ==
    ASSUME BatchInv, NEW b \in Batch, NEW es \in Requests,
           NEW at \in 0..Cardinality(Event), AcceptObservationBatch(b, es, at)
    PROVE  BatchInv'
<1>1. LedgerInv /\ LedgerInv'
    BY LedgerAccept DEF BatchInv
<1>2. /\ es \in Seq(Event) /\ Distinct(es) /\ es # <<>>
    BY PipelineAssumption DEF Distinct
<1>3. ledger' = [e \in Event |-> IF ledger[e] = None /\ e \in Entries(es)
                                THEN "PENDING" ELSE ledger[e]]
    BY <1>1, AcceptedRows
<1> DEFINE ls == [e \in Event |-> IF e \in Entries(es) THEN ledger'[e] ELSE None]
           opened == [NoBatch EXCEPT !.status = "ACCEPTED"]
           bt == [opened EXCEPT !.accepted = Len(es)]
<1>4. links' = [links EXCEPT ![b] = ls] /\ batch' = [batch EXCEPT ![b] = Recounted(bt, links'[b])]
    BY DEF AcceptObservationBatch
<1>5. \A e \in Event : ls[e] = IF e \in Entries(es) THEN ledger'[e] ELSE None
    OBVIOUS
<1>6. ls \in LinkRow
    BY <1>1 DEF LedgerInv, TablesOK, LinkRow
<1> HIDE DEF ls
<1>7. links'[b] = ls /\ batch'[b] = Recounted(bt, ls)
    BY <1>4 DEF BatchInv
<1>8. Delivered(ls) = Entries(es)
    <2>1. Entries(es) \subseteq Event
        BY <1>2, EntriesOf
    <2>2. \A e \in Event : e \in Entries(es) => ledger'[e] # None
        BY <1>3 DEF None
    <2> QED BY <1>5, <2>1, <2>2 DEF Delivered
<1>9. Cardinality(Delivered(ls)) = Len(es) /\ Delivered(ls) # {} /\ Len(es) \in Nat
    <2>1. Len(es) \in Nat \ {0} /\ Cardinality(Entries(es)) = Len(es)
        BY <1>2, DistinctLength, EmptySeq
    <2> QED BY <1>8, <2>1, FS_EmptySet
<1>10. bt \in Counters /\ bt.accepted = Len(es) /\ bt.status \notin Completed
    <2>1. opened \in Counters /\ opened.status = "ACCEPTED"
        BY DEF NoBatch, Counters, BatchStatus
    <2> HIDE DEF opened
    <2> QED BY <1>9, <2>1 DEF Counters, Completed
<1> HIDE DEF bt
<1>11. Recounted(bt, ls) \in Counters /\ CountsTell(Recounted(bt, ls), ls)
    BY <1>6, <1>9, <1>10, RecountTells
<1>12. links' \in [Batch -> LinkRow] /\ batch' \in [Batch -> Counters]
    BY <1>4, <1>6, <1>7, <1>11 DEF BatchInv
<1>13. ASSUME NEW x \in Batch, NEW e \in Event
       PROVE  links'[x][e] \in {None, ledger'[e]}
    <2>1. CASE x = b
        BY <1>5, <1>7, <2>1
    <2>2. CASE x # b
        <3>1. links'[x] = links[x] /\ links[x][e] \in {None, ledger[e]}
            BY <1>4, <2>2 DEF BatchInv
        <3>2. ledger[e] = None \/ ledger'[e] = ledger[e]
            BY <1>3
        <3> QED BY <3>1, <3>2
    <2> QED BY <2>1, <2>2
<1>14. ASSUME NEW x \in Batch PROVE CountsTell(batch'[x], links'[x])
    <2>1. CASE x = b
        BY <1>7, <1>11, <2>1
    <2>2. CASE x # b
        BY <1>4, <2>2 DEF BatchInv
    <2> QED BY <2>1, <2>2
<1> QED BY <1>1, <1>12, <1>13, <1>14 DEF BatchInv

\* Where an event's status changes, it changes on every batch that delivered it.
LEMMA RelinkedRows ==
    ASSUME BatchInv, NEW e \in Event, NEW status \in EventStatus,
           ledger[e] # None, ledger' = [ledger EXCEPT ![e] = status],
           links' = Relinked(e, status)
    PROVE  /\ links' \in [Batch -> LinkRow]
           /\ \A b \in Batch : \A f \in Event : links'[b][f] \in {None, ledger'[f]}
           /\ \A b \in Batch : links[b][e] = None => links'[b] = links[b]
           /\ \A b \in Batch : links[b][e] # None =>
                /\ links'[b] = [links[b] EXCEPT ![e] = status]
                /\ links[b][e] = ledger[e]
                /\ Delivered(links'[b]) = Delivered(links[b])
                /\ e \in Delivered(links[b])
<1>1. ledger \in [Event -> EventStatus \cup {None}] /\ links \in [Batch -> LinkRow]
    BY DEF BatchInv, LedgerInv, TablesOK
<1>2. links' = [b \in Batch |-> IF links[b][e] = None THEN links[b]
                               ELSE [links[b] EXCEPT ![e] = status]]
    BY DEF Relinked
<1>3. status # None
    BY DEF EventStatus, Final, None
<1>4. \A b \in Batch : \A f \in Event : links[b][f] \in {None, ledger[f]}
    BY DEF BatchInv
<1>5. ASSUME NEW b \in Batch, links[b][e] # None
      PROVE  /\ links'[b] = [links[b] EXCEPT ![e] = status]
             /\ links'[b] \in LinkRow
             /\ links'[b][e] = status /\ \A f \in Event : f # e => links'[b][f] = links[b][f]
    <2>1. links'[b] = [links[b] EXCEPT ![e] = status] /\ links[b] \in LinkRow
        BY <1>1, <1>2, <1>5
    <2> QED BY <2>1 DEF LinkRow
<1>6. ASSUME NEW b \in Batch, links[b][e] = None PROVE links'[b] = links[b]
    BY <1>2, <1>6
<1>7. links' \in [Batch -> LinkRow]
    <2>1. \A b \in Batch : links'[b] \in LinkRow
        BY <1>1, <1>5, <1>6
    <2> QED BY <1>2, <2>1
<1>8. ledger'[e] = status /\ \A f \in Event : f # e => ledger'[f] = ledger[f]
    BY <1>1
<1>9. ASSUME NEW b \in Batch, NEW f \in Event PROVE links'[b][f] \in {None, ledger'[f]}
    <2>1. CASE links[b][e] = None
        BY <1>4, <1>6, <1>8, <2>1
    <2>2. CASE links[b][e] # None
        BY <1>4, <1>5, <1>8, <2>2
    <2> QED BY <2>1, <2>2
<1>10. ASSUME NEW b \in Batch, links[b][e] # None
       PROVE  Delivered(links'[b]) = Delivered(links[b]) /\ e \in Delivered(links[b])
    BY <1>3, <1>5, <1>10 DEF Delivered
<1>11. ASSUME NEW b \in Batch, links[b][e] # None PROVE links[b][e] = ledger[e]
    BY <1>4, <1>11
<1> QED BY <1>5, <1>6, <1>7, <1>9, <1>10, <1>11

LEMMA BatchFinishes ==
    ASSUME BatchInv, NEW e \in Event, NEW status \in Final,
           NEW d \in Disposition \cup Reason, Finishes(e, status, d)
    PROVE  BatchInv'
<1>1. /\ ledger[e] = "PENDING" /\ ledger' = [ledger EXCEPT ![e] = status]
      /\ links' = Relinked(e, status)
      /\ batch' = [b \in Batch |-> IF links[b][e] = None THEN batch[b]
                                   ELSE Recounted(batch[b], links'[b])]
    BY DEF Finishes, Working, AdvanceBatch
<1>2. LedgerInv'
    BY LedgerFinishes DEF BatchInv
<1>3. status \in EventStatus /\ ledger[e] # None
    BY <1>1 DEF EventStatus, None
<1>4. /\ links' \in [Batch -> LinkRow]
      /\ \A b \in Batch : \A f \in Event : links'[b][f] \in {None, ledger'[f]}
      /\ \A b \in Batch : links[b][e] = None => links'[b] = links[b]
      /\ \A b \in Batch : links[b][e] # None =>
            /\ links[b][e] = "PENDING"
            /\ Delivered(links'[b]) = Delivered(links[b]) /\ e \in Delivered(links[b])
    BY <1>1, <1>3, RelinkedRows
<1>5. \A b \in Batch : batch[b] \in Counters /\ links[b] \in LinkRow /\ CountsTell(batch[b], links[b])
    BY DEF BatchInv
<1>6. ASSUME NEW b \in Batch
      PROVE  batch'[b] \in Counters /\ CountsTell(batch'[b], links'[b])
    <2>1. CASE links[b][e] = None
        BY <1>1, <1>4, <1>5, <2>1
    <2>2. CASE links[b][e] # None
        <3>1. batch'[b] = Recounted(batch[b], links'[b])
            BY <1>1, <2>2
        <3>2. LinksIn(links[b], "PENDING") # 0
            <4> DEFINE open == {f \in Event : links[b][f] = "PENDING"}
            <4>1. e \in open /\ open \in SUBSET Event
                BY <1>4, <2>2
            <4>2. IsFiniteSet(open)
                BY <4>1, PipelineAssumption, FS_Subset
            <4>3. Cardinality(open) # 0
                BY <4>1, <4>2, FS_EmptySet
            <4> QED BY <4>3 DEF LinksIn
        <3>3. batch[b].status \notin Completed
            BY <1>4, <1>5, <2>2, <3>2 DEF CountsTell
        <3>4. batch[b].accepted = Cardinality(Delivered(links'[b])) /\ Delivered(links'[b]) # {}
            BY <1>4, <1>5, <2>2 DEF CountsTell
        <3> QED BY <1>4, <1>5, <3>1, <3>3, <3>4, RecountTells
    <2> QED BY <2>1, <2>2
<1>7. batch' \in [Batch -> Counters]
    BY <1>1, <1>6
<1> QED BY <1>2, <1>4, <1>6, <1>7 DEF BatchInv

LEMMA BatchReplay ==
    ASSUME BatchInv, NEW e \in Event, Replay(e)
    PROVE  BatchInv'
<1>1. /\ ledger[e] = "REJECTED" /\ ledger' = [ledger EXCEPT ![e] = "PENDING"]
      /\ links' = Relinked(e, "PENDING")
      /\ batch' = [b \in Batch |-> IF links[b][e] = None THEN batch[b]
                    ELSE [Counted(batch[b], links'[b]) EXCEPT !.status = "PROCESSING"]]
    BY DEF Replay, Replayable
<1>2. LedgerInv'
    BY LedgerReplay DEF BatchInv
<1>3. "PENDING" \in EventStatus /\ ledger[e] # None
    BY <1>1 DEF EventStatus, None
<1>4. /\ links' \in [Batch -> LinkRow]
      /\ \A b \in Batch : \A f \in Event : links'[b][f] \in {None, ledger'[f]}
      /\ \A b \in Batch : links[b][e] = None => links'[b] = links[b]
      /\ \A b \in Batch : links[b][e] # None =>
            /\ links'[b] = [links[b] EXCEPT ![e] = "PENDING"]
            /\ Delivered(links'[b]) = Delivered(links[b]) /\ e \in Delivered(links[b])
    BY <1>1, <1>3, RelinkedRows
<1>5. \A b \in Batch : batch[b] \in Counters /\ links[b] \in LinkRow /\ CountsTell(batch[b], links[b])
    BY DEF BatchInv
<1>6. ASSUME NEW b \in Batch
      PROVE  batch'[b] \in Counters /\ CountsTell(batch'[b], links'[b])
    <2>1. CASE links[b][e] = None
        BY <1>1, <1>4, <1>5, <2>1
    <2>2. CASE links[b][e] # None
        <3> DEFINE ls == links'[b]
                   one == [batch[b] EXCEPT !.processed = LinksIn(ls, "PROCESSED")]
                   c == [one EXCEPT !.rejected = LinksIn(ls, "REJECTED")]
                   r == [c EXCEPT !.status = "PROCESSING"]
        <3>1. batch'[b] = r
            BY <1>1, <2>2 DEF Counted
        <3>2. ls \in LinkRow /\ LinksIn(ls, "PENDING") # 0
            <4> DEFINE open == {f \in Event : ls[f] = "PENDING"}
            <4>1. e \in open /\ open \in SUBSET Event
                BY <1>4, <1>5, <2>2 DEF LinkRow
            <4>2. IsFiniteSet(open)
                BY <4>1, PipelineAssumption, FS_Subset
            <4>3. Cardinality(open) # 0
                BY <4>1, <4>2, FS_EmptySet
            <4>4. LinksIn(ls, "PENDING") = Cardinality(open)
                BY DEF LinksIn
            <4> HIDE DEF open
            <4> QED BY <1>4, <4>3, <4>4
        <3>3. batch[b] \in Counters /\ batch[b].accepted = Cardinality(Delivered(ls))
            BY <1>4, <1>5, <2>2 DEF CountsTell
        <3> HIDE DEF ls
        <3>4. LinksIn(ls, "PROCESSED") \in Nat /\ LinksIn(ls, "REJECTED") \in Nat
            BY <3>2, LinkCounts
        <3>5. /\ one \in Counters /\ one.processed = LinksIn(ls, "PROCESSED")
              /\ one.accepted = Cardinality(Delivered(ls))
            BY <3>3, <3>4 DEF Counters
        <3> HIDE DEF one
        <3>6. /\ c \in Counters /\ c.processed = LinksIn(ls, "PROCESSED")
              /\ c.rejected = LinksIn(ls, "REJECTED")
              /\ c.accepted = Cardinality(Delivered(ls))
            BY <3>4, <3>5 DEF Counters
        <3> HIDE DEF c
        <3>7. /\ r \in Counters /\ r.processed = LinksIn(ls, "PROCESSED")
              /\ r.rejected = LinksIn(ls, "REJECTED") /\ r.status = "PROCESSING"
              /\ r.accepted = Cardinality(Delivered(ls))
            BY <3>6 DEF Counters, BatchStatus
        <3> HIDE DEF r
        <3>8. CountsTell(r, ls)
            BY <3>2, <3>7 DEF CountsTell, Completed
        <3> QED BY <3>1, <3>7, <3>8 DEF ls
    <2> QED BY <2>1, <2>2
<1>7. batch' \in [Batch -> Counters]
    BY <1>1, <1>6
<1> QED BY <1>2, <1>4, <1>6, <1>7 DEF BatchInv

LEMMA BatchNext ==
    ASSUME BatchInv, TableStep
    PROVE  BatchInv'
<1>1. LedgerInv'
    BY LedgerNext DEF BatchInv
<1>2. CASE (\E e \in Event : AttemptFails(e)) \/ UNCHANGED tableVars
    BY <1>1, <1>2 DEF AttemptFails, tableVars, ledgerVars, BatchInv
<1> QED BY <1>2, BatchAccept, BatchFinishes, BatchReplay DEF TableStep

LEMMA BatchesTell == BatchInv => BatchesTellTheTruth
<1> SUFFICES ASSUME BatchInv, NEW b \in Batch
             PROVE  LET its == {e \in Event : links[b][e] # None}
                        with(s) == Cardinality({e \in its : ledger[e] = s})
                    IN  /\ batch[b].accepted = Cardinality(its)
                        /\ batch[b].processed = with("PROCESSED")
                        /\ batch[b].rejected = with("REJECTED")
                        /\ its # {} =>
                            (batch[b].status \in {"COMPLETED", "COMPLETED_WITH_ERRORS"}
                                <=> with("PENDING") = 0)
                        /\ batch[b].status = "COMPLETED" => with("REJECTED") = 0
    BY DEF BatchesTellTheTruth
<1> DEFINE its == {e \in Event : links[b][e] # None}
           With(s) == {e \in its : ledger[e] = s}
<1>1. CountsTell(batch[b], links[b]) /\ \A e \in Event : links[b][e] \in {None, ledger[e]}
    BY DEF BatchInv
<1>2. its = Delivered(links[b])
    BY DEF Delivered
<1>3. \A s : s # None => With(s) = {e \in Event : links[b][e] = s}
    BY <1>1
<1>4. /\ Cardinality(With("PENDING")) = LinksIn(links[b], "PENDING")
      /\ Cardinality(With("PROCESSED")) = LinksIn(links[b], "PROCESSED")
      /\ Cardinality(With("REJECTED")) = LinksIn(links[b], "REJECTED")
    BY <1>3 DEF LinksIn, None
<1> HIDE DEF its, With
<1>5. /\ batch[b].accepted = Cardinality(its)
      /\ batch[b].processed = Cardinality(With("PROCESSED"))
      /\ batch[b].rejected = Cardinality(With("REJECTED"))
      /\ its # {} => (batch[b].status \in {"COMPLETED", "COMPLETED_WITH_ERRORS"}
                        <=> Cardinality(With("PENDING")) = 0)
      /\ batch[b].status = "COMPLETED" => Cardinality(With("REJECTED")) = 0
    BY <1>1, <1>2, <1>4 DEF CountsTell, Completed
<1> QED BY <1>5 DEF its, With

\* Every batch that delivered an event tells the truth about it (BatchesTellTheTruth),
\* for every number of batches that share events.
THEOREM BatchesAreRight == Spec => []BatchesTellTheTruth
<1>1. BatchInv /\ [Next]_vars => BatchInv'
    BY NextTouchesTables, BatchNext
<1> QED BY BatchInit, <1>1, BatchesTell, PTL DEF Spec

-----------------------------------------------------------------------------
(* The worker's memory.                                                     *)

IdsOK(ids) == ids \in Seq(Event) /\ Distinct(ids) /\ Len(ids) <= MaxEventIds

WindowRow == [epc: Epc, reads: Seq(Event)]

\* One window per EPC.
Keyed(ws) ==
    /\ ws \in Seq(WindowRow) /\ Distinct(ws)
    /\ \A v, w \in Entries(ws) : v.epc = w.epc => v = w

WindowsOK(ws) == Keyed(ws) /\ Len(ws) <= MaxEpcs

MemoryOK(m) == IdsOK(m.ids) /\ WindowsOK(m.windows)

\* Remembering an event evicts at most the oldest id.
LEMMA Remembered ==
    ASSUME NEW ids, IdsOK(ids), NEW e \in Event
    PROVE  /\ IdsOK(RememberEvent(ids, e))
           /\ Entries(RememberEvent(ids, e)) \subseteq Entries(ids) \cup {e}
           /\ Entries(ids) \ Entries(Oldest(ids)) \subseteq Entries(RememberEvent(ids, e))
<1> DEFINE d == Drop(ids, e)
           a == Append(d, e)
           r == RememberEvent(ids, e)
<1>1. ids \in Seq(Event) /\ Distinct(ids) /\ Len(ids) <= MaxEventIds /\ Len(ids) \in Nat
    BY EntriesOf DEF IdsOK
<1>2. MaxEventIds \in Nat \ {0}
    BY LimitsAssumption
<1>3. d \in Seq(Event) /\ Entries(d) = Entries(ids) \ {e} /\ Distinct(d) /\ Len(d) <= Len(ids)
    BY <1>1, FilterFacts DEF Drop
<1>4. e \notin Entries(ids) => d = ids
    BY <1>1, FilterAll DEF Drop
<1>5. r = Bounded(a, MaxEventIds)
    BY DEF RememberEvent
<1> HIDE DEF d, r
<1>6. /\ a \in Seq(Event) /\ Len(a) = Len(d) + 1 /\ Distinct(a)
      /\ Entries(a) = Entries(ids) \cup {e}
    BY <1>3, AppendEntries
<1>7. Len(d) \in Nat
    BY <1>3, EntriesOf
<1>8. CASE e \in Entries(ids)
    <2>1. Len(a) = Len(ids)
        <3>1. Entries(a) = Entries(ids)
            BY <1>6, <1>8
        <3> HIDE DEF a
        <3> QED BY <1>1, <1>6, <3>1, DistinctLength
    <2> HIDE DEF a
    <2>2. /\ r \in Seq(Event) /\ Len(r) <= MaxEventIds /\ Distinct(r)
          /\ Entries(r) = Entries(a)
        BY <1>1, <1>2, <1>5, <1>6, <2>1, BoundedEntries
    <2> QED BY <1>6, <2>2 DEF IdsOK, r
<1>9. CASE e \notin Entries(ids)
    <2>1. a = Append(ids, e)
        BY <1>4, <1>9
    <2>2. Len(a) = Len(ids) + 1
        BY <1>4, <1>6, <1>9
    <2>3. CASE Len(a) <= MaxEventIds
        <3> HIDE DEF a
        <3>1. /\ r \in Seq(Event) /\ Len(r) <= MaxEventIds /\ Distinct(r)
              /\ Entries(r) = Entries(a)
            BY <1>1, <1>2, <1>5, <1>6, <2>2, <2>3, BoundedEntries
        <3> QED BY <1>6, <3>1 DEF IdsOK, r
    <2>4. CASE Len(a) > MaxEventIds
        <3>1. ids # <<>>
            BY <1>1, <1>2, <2>2, <2>4, EmptySeq
        <3>2. a[1] = ids[1]
            <4>1. 1 \in 1..Len(ids)
                BY <1>1, <3>1, EmptySeq
            <4> QED BY <1>1, <2>1, <4>1, AppendProperties
        <3>3. Entries(Oldest(ids)) = {ids[1]} /\ ids[1] \in Entries(ids)
            BY <1>1, <3>1, OldestEntries
        <3> HIDE DEF a
        <3>4. /\ r \in Seq(Event) /\ Len(r) <= MaxEventIds /\ Distinct(r)
              /\ Entries(r) = Entries(a) \ {a[1]}
            BY <1>1, <1>2, <1>5, <1>6, <2>2, <2>4, BoundedEntries
        <3> QED BY <1>6, <3>2, <3>3, <3>4 DEF IdsOK, r
    <2> QED BY <1>1, <1>2, <2>2, <2>3, <2>4
<1> QED BY <1>8, <1>9

\* Whatever that did to the ids is undone.
LEMMA IdsRestored ==
    ASSUME NEW ids, IdsOK(ids), NEW e \in Event, NEW saved,
           saved.known = (e \in Entries(ids)), saved.oldestId = Oldest(ids)
    PROVE  LET r == RestoreIds(RememberEvent(ids, e), e, saved) IN
           IdsOK(r) /\ Entries(r) = Entries(ids)
<1> DEFINE m == RememberEvent(ids, e)
           o == Oldest(ids)
           back == IF e \in Entries(ids) /\ e \notin Entries(m) THEN <<e>> ELSE <<>>
           gone == Entries(o) \cup (IF e \in Entries(ids) THEN {} ELSE {e})
           all == m \o back
           kept == Filter(all, Event \ gone)
           r == o \o kept
<1>1. /\ IdsOK(m) /\ Entries(m) \subseteq Entries(ids) \cup {e}
      /\ Entries(ids) \ Entries(o) \subseteq Entries(m)
    BY Remembered
<1>2. RestoreIds(m, e, saved) = r
    BY DEF RestoreIds
<1>3. ids \in Seq(Event) /\ Distinct(ids) /\ Len(ids) <= MaxEventIds
    BY DEF IdsOK
<1> HIDE DEF m, o
<1>4. o \in Seq(Event) /\ Distinct(o) /\ Entries(o) \subseteq Entries(ids)
    BY <1>3, OldestEntries DEF o
<1>5. /\ back \in Seq(Event) /\ Distinct(back)
      /\ Entries(back) = IF e \in Entries(ids) /\ e \notin Entries(m) THEN {e} ELSE {}
    <2>1. <<>> \in Seq(Event) /\ Distinct(<<>>) /\ Entries(<<>>) = {}
        BY EmptySeq DEF Distinct, Entries
    <2>2. <<e>> \in Seq(Event) /\ DOMAIN <<e>> = {1} /\ <<e>>[1] = e
        OBVIOUS
    <2>3. /\ <<e>> \in Seq(Event) /\ Distinct(<<e>>) /\ Entries(<<e>>) = {e}
        BY <2>2 DEF Distinct, Entries
    <2> QED BY <2>1, <2>3
<1> HIDE DEF back
<1>6. all \in Seq(Event) /\ Distinct(all) /\ Entries(all) = Entries(m) \cup Entries(back)
    BY <1>1, <1>5, ConcatEntries DEF IdsOK
<1> HIDE DEF all
<1>7. kept \in Seq(Event) /\ Distinct(kept) /\ Entries(kept) = Entries(all) \cap (Event \ gone)
    BY <1>6, FilterFacts
<1> HIDE DEF kept
<1>8. Entries(o) \cap Entries(kept) = {}
    BY <1>7
<1>9. r \in Seq(Event) /\ Distinct(r) /\ Entries(r) = Entries(o) \cup Entries(kept)
    BY <1>4, <1>7, <1>8, ConcatEntries
<1>10. Entries(ids) \subseteq Event
    BY <1>3, EntriesOf
<1> HIDE DEF r
<1>11. Entries(r) = Entries(ids)
    BY <1>1, <1>4, <1>5, <1>6, <1>7, <1>9, <1>10
<1>12. Len(r) = Len(ids)
    BY <1>3, <1>9, <1>11, DistinctLength
<1>13. IdsOK(r)
    BY <1>3, <1>9, <1>12 DEF IdsOK
<1> QED BY <1>2, <1>11, <1>13 DEF m

\* What may have become of the windows ws by the time e's attempt raised: the one
\* of e's EPC c aside, no more than the oldest is missing and none is new.
Disturbed(ws, c, r) ==
    /\ Keyed(r)
    /\ \A w \in Entries(r) : w.epc # c => w \in Entries(ws)
    /\ \A w \in Entries(ws) : w.epc # c => w \in Entries(r) \cup Entries(Oldest(ws))

LEMMA Added ==
    ASSUME NEW ws, WindowsOK(ws), NEW row \in WindowRow
    PROVE  LET r == Bounded(Append(DropWindow(ws, row.epc), row), MaxEpcs) IN
           /\ WindowsOK(r) /\ Disturbed(ws, row.epc, r)
           /\ \A w \in Entries(r) : w = row \/ w \in Entries(ws)
<1> DEFINE c == row.epc
           others == {w \in Entries(ws) : w.epc # c}
           d == DropWindow(ws, c)
           a == Append(d, row)
           r == Bounded(a, MaxEpcs)
<1>1. /\ ws \in Seq(WindowRow) /\ Distinct(ws) /\ Len(ws) <= MaxEpcs /\ Len(ws) \in Nat
      /\ \A v, w \in Entries(ws) : v.epc = w.epc => v = w
    BY EntriesOf DEF WindowsOK, Keyed
<1>2. MaxEpcs \in Nat \ {0}
    BY LimitsAssumption
<1>3. d \in Seq(WindowRow) /\ Entries(d) = others /\ Distinct(d) /\ Len(d) <= Len(ws)
    BY <1>1, FilterFacts DEF DropWindow
<1>4. others = Entries(ws) => d = ws
    BY <1>1, FilterAll DEF DropWindow
<1>5. Entries(ws) \subseteq WindowRow
    BY <1>1, EntriesOf
<1> HIDE DEF d
<1>6. row \notin others
    OBVIOUS
<1>7. /\ a \in Seq(WindowRow) /\ Len(a) = Len(d) + 1 /\ Distinct(a)
      /\ Entries(a) = others \cup {row}
    BY <1>3, <1>6, AppendEntries
<1>8. Len(d) \in Nat /\ Len(a) <= MaxEpcs + 1
    BY <1>1, <1>2, <1>3, <1>7, EntriesOf
<1>9. \A v, w \in others \cup {row} : v.epc = w.epc => v = w
    BY <1>1
<1>10. CASE Len(a) <= MaxEpcs
    <2> HIDE DEF a
    <2>1. /\ r \in Seq(WindowRow) /\ Len(r) <= MaxEpcs /\ Distinct(r)
          /\ Entries(r) = others \cup {row}
        BY <1>2, <1>7, <1>8, <1>10, BoundedEntries
    <2> HIDE DEF r
    <2>2. WindowsOK(r)
        BY <1>9, <2>1 DEF WindowsOK, Keyed
    <2>3. Disturbed(ws, c, r) /\ \A w \in Entries(r) : w = row \/ w \in Entries(ws)
        BY <2>1, <2>2 DEF Disturbed, WindowsOK
    <2> QED BY <2>2, <2>3 DEF r, a, d
<1>11. CASE Len(a) > MaxEpcs
    <2>1. others = Entries(ws)
        <3> SUFFICES ASSUME others # Entries(ws) PROVE FALSE
            OBVIOUS
        <3>1. PICK w \in Entries(ws) : w.epc = c
            OBVIOUS
        <3>2. others = Entries(ws) \ {w}
            BY <1>1, <3>1
        <3> HIDE DEF a, others
        <3>3. IsFiniteSet(Entries(ws)) /\ Cardinality(Entries(ws)) = Len(ws)
            BY <1>1, DistinctLength
        <3>4. Cardinality(others) = Len(ws) - 1
            BY <3>1, <3>2, <3>3, FS_RemoveElement
        <3>5. Len(d) = Cardinality(others)
            BY <1>3, DistinctLength
        <3> QED BY <1>1, <1>2, <1>7, <1>8, <1>11, <3>4, <3>5
    <2>2. a = Append(ws, row) /\ Len(a) = Len(ws) + 1
        BY <1>4, <1>7, <2>1
    <2>3. ws # <<>>
        BY <1>1, <1>2, <1>11, <2>2, EmptySeq
    <2>4. a[1] = ws[1]
        <3>1. 1 \in 1..Len(ws)
            BY <1>1, <2>3, EmptySeq
        <3> QED BY <1>1, <2>2, <3>1, AppendProperties
    <2>5. Entries(Oldest(ws)) = {ws[1]} /\ ws[1] \in Entries(ws)
        BY <1>1, <2>3, OldestEntries
    <2> HIDE DEF a
    <2>6. /\ r \in Seq(WindowRow) /\ Len(r) <= MaxEpcs /\ Distinct(r)
          /\ Entries(r) = (others \cup {row}) \ {ws[1]}
        BY <1>2, <1>7, <1>8, <1>11, <2>4, BoundedEntries
    <2> HIDE DEF r
    <2>7. WindowsOK(r)
        BY <1>9, <2>6 DEF WindowsOK, Keyed
    <2>8. Disturbed(ws, c, r) /\ \A w \in Entries(r) : w = row \/ w \in Entries(ws)
        BY <2>5, <2>6, <2>7 DEF Disturbed, WindowsOK
    <2> QED BY <2>7, <2>8 DEF r, a, d
<1> QED BY <1>1, <1>2, <1>8, <1>10, <1>11

LEMMA WindowPut ==
    ASSUME NEW r, Keyed(r), NEW w \in WindowRow
    PROVE  /\ Keyed(PutWindow(r, w))
           /\ Entries(PutWindow(r, w)) = {v \in Entries(r) : v.epc # w.epc} \cup {w}
<1> DEFINE others == {v \in Entries(r) : v.epc # w.epc}
<1>1. /\ r \in Seq(WindowRow) /\ Distinct(r) /\ DOMAIN r = 1..Len(r) /\ Len(r) \in Nat
      /\ \A u, v \in Entries(r) : u.epc = v.epc => u = v
    BY EntriesOf DEF Keyed
<1>2. CASE WindowFor(r, w.epc) = {}
    <2>1. PutWindow(r, w) = Append(r, w)
        BY <1>2 DEF PutWindow
    <2>2. others = Entries(r) /\ w \notin Entries(r)
        BY <1>2 DEF WindowFor
    <2>3. /\ Append(r, w) \in Seq(WindowRow) /\ Distinct(Append(r, w))
          /\ Entries(Append(r, w)) = Entries(r) \cup {w}
        BY <1>1, <2>2, AppendEntries
    <2>4. \A u, v \in others \cup {w} : u.epc = v.epc => u = v
        BY <1>1
    <2> QED BY <2>1, <2>2, <2>3, <2>4 DEF Keyed
<1>3. CASE WindowFor(r, w.epc) # {}
    <2> DEFINE q == [i \in 1..Len(r) |-> IF r[i].epc = w.epc THEN w ELSE r[i]]
    <2>1. PutWindow(r, w) = q
        BY <1>1, <1>3 DEF PutWindow
    <2>2. PICK k \in 1..Len(r) : r[k].epc = w.epc
        BY <1>1, <1>3 DEF WindowFor, Entries
    <2>3. \A i \in 1..Len(r) : r[i] \in WindowRow /\ r[i] \in Entries(r)
        BY <1>1, ElementOfSeq DEF Entries
    <2>4. \A i \in 1..Len(r) : i # k => r[i].epc # w.epc
        BY <1>1, <2>2, <2>3 DEF Distinct
    <2>5. q[k] = w /\ \A i \in 1..Len(r) : i # k => q[i] = r[i]
        BY <2>2, <2>4
    <2>6. q \in [1..Len(r) -> WindowRow]
        BY <2>3
    <2> HIDE DEF q
    <2>7. q \in Seq(WindowRow) /\ DOMAIN q = 1..Len(r)
        BY <1>1, <2>6, SeqDef
    <2>8. Entries(q) = others \cup {w}
        <3>1. \A i \in 1..Len(r) : q[i] \in others \cup {w}
            BY <2>3, <2>4, <2>5
        <3>2. w \in Entries(q)
            BY <2>2, <2>5, <2>7 DEF Entries
        <3>3. \A v \in others : v \in Entries(q)
            <4> SUFFICES ASSUME NEW i \in 1..Len(r), r[i].epc # w.epc
                         PROVE  r[i] \in Entries(q)
                BY <1>1 DEF Entries
            <4>1. q[i] = r[i]
                BY <2>2, <2>5
            <4> QED BY <2>7, <4>1 DEF Entries
        <3> QED BY <2>7, <3>1, <3>2, <3>3 DEF Entries
    <2>9. Distinct(q)
        <3> SUFFICES ASSUME NEW i \in 1..Len(r), NEW j \in 1..Len(r), q[i] = q[j]
                     PROVE  i = j
            BY <2>7 DEF Distinct
        <3>1. CASE i # k /\ j # k
            BY <1>1, <2>5, <3>1 DEF Distinct
        <3>2. CASE i = k /\ j # k
            BY <2>4, <2>5, <3>2
        <3>3. CASE i # k /\ j = k
            BY <2>4, <2>5, <3>3
        <3> QED BY <3>1, <3>2, <3>3
    <2>10. \A u, v \in others \cup {w} : u.epc = v.epc => u = v
        BY <1>1
    <2> QED BY <2>1, <2>7, <2>8, <2>9, <2>10 DEF Keyed
<1> QED BY <1>2, <1>3

\* However the attempt disturbed the windows, they are put back.
LEMMA WindowsRestored ==
    ASSUME NEW ws, WindowsOK(ws), NEW e \in Event, NEW r, Disturbed(ws, EpcOf[e], r),
           NEW saved, saved.window = WindowFor(ws, EpcOf[e]), saved.oldestWindow = Oldest(ws)
    PROVE  /\ WindowsOK(RestoreWindows(r, e, saved))
           /\ Entries(RestoreWindows(r, e, saved)) = Entries(ws)
<1> DEFINE c == EpcOf[e]
           its == WindowFor(ws, c)
           o == Oldest(ws)
           own == IF its = {} THEN r ELSE PutWindow(r, The(its))
           gone == {w.epc : w \in Entries(o)} \cup (IF its = {} THEN {c} ELSE {})
           stay == {w \in Entries(own) : w.epc \notin gone}
           kept == Filter(own, stay)
           q == o \o kept
<1>1. RestoreWindows(r, e, saved) = q
    BY DEF RestoreWindows
<1>2. /\ ws \in Seq(WindowRow) /\ Distinct(ws) /\ Len(ws) <= MaxEpcs
      /\ \A v, w \in Entries(ws) : v.epc = w.epc => v = w
      /\ Entries(ws) \subseteq WindowRow
    BY EntriesOf DEF WindowsOK, Keyed
<1>3. /\ Keyed(r)
      /\ \A w \in Entries(r) : w.epc # c => w \in Entries(ws)
      /\ \A w \in Entries(ws) : w.epc # c => w \in Entries(r) \cup Entries(o)
    BY DEF Disturbed
<1>4. o \in Seq(WindowRow) /\ Distinct(o) /\ Entries(o) \subseteq Entries(ws)
    BY <1>2, OldestEntries
<1> HIDE DEF o
<1>5. /\ Keyed(own) /\ \A w \in Entries(own) : w.epc \notin gone => w \in Entries(ws)
      /\ \A w \in Entries(ws) : w.epc \notin gone => w \in Entries(own)
    <2>1. CASE its = {}
        <3>1. own = r /\ c \in gone
            BY <2>1
        <3>2. \A w \in Entries(o) : w.epc \in gone
            OBVIOUS
        <3> HIDE DEF own, gone
        <3> QED BY <1>3, <3>1, <3>2
    <2>2. CASE its # {}
        <3>1. own = PutWindow(r, The(its)) /\ The(its) \in its
            BY <2>2 DEF The
        <3>2. The(its) \in Entries(ws) /\ The(its).epc = c
            BY <3>1 DEF WindowFor
        <3>3. The(its) \in WindowRow
            BY <1>2, <3>2
        <3>4. Keyed(own) /\ Entries(own) = {v \in Entries(r) : v.epc # c} \cup {The(its)}
            BY <1>3, <3>1, <3>2, <3>3, WindowPut
        <3>5. \A w \in Entries(o) : w.epc \in gone
            OBVIOUS
        <3>6. \A w \in Entries(ws) : w.epc = c => w = The(its)
            BY <1>2, <3>2
        <3> HIDE DEF own, gone, its
        <3> QED BY <1>3, <3>2, <3>4, <3>5, <3>6
    <2> QED BY <2>1, <2>2
<1> HIDE DEF own
<1>6. own \in Seq(WindowRow) /\ Distinct(own)
    BY <1>5 DEF Keyed
<1>7. kept \in Seq(WindowRow) /\ Distinct(kept) /\ Entries(kept) = Entries(own) \cap stay
    BY <1>6, FilterFacts
<1> HIDE DEF kept
<1>8. Entries(kept) = {w \in Entries(own) : w.epc \notin gone}
    BY <1>7
<1>9. \A w \in Entries(o) : w.epc \in gone
    OBVIOUS
<1>10. Entries(o) \cap Entries(kept) = {}
    <2> HIDE DEF gone
    <2> QED BY <1>8, <1>9
<1>11. q \in Seq(WindowRow) /\ Distinct(q) /\ Entries(q) = Entries(o) \cup Entries(kept)
    BY <1>4, <1>7, <1>10, ConcatEntries
<1> HIDE DEF q
<1>12. \A w \in Entries(ws) : w.epc \in gone => w \in Entries(o)
    <2> SUFFICES ASSUME NEW w \in Entries(ws), w.epc \in gone PROVE w \in Entries(o)
        OBVIOUS
    <2>1. CASE \E v \in Entries(o) : v.epc = w.epc
        BY <1>2, <1>4, <2>1
    <2>2. CASE its = {} /\ w.epc = c
        BY <2>2 DEF WindowFor
    <2> QED BY <2>1, <2>2
<1>13. Entries(q) = Entries(ws)
    <2> HIDE DEF gone
    <2> QED BY <1>4, <1>5, <1>8, <1>11, <1>12
<1>14. Len(q) = Len(ws)
    BY <1>2, <1>11, <1>13, DistinctLength
<1>15. WindowsOK(q)
    BY <1>2, <1>11, <1>13, <1>14 DEF WindowsOK, Keyed
<1> QED BY <1>1, <1>13, <1>15

\* The reads of a window once e is added: what had been there and e, close to each
\* other in time.
LEMMA RetainedReads ==
    ASSUME NEW ws, WindowsOK(ws), NEW e \in Event, NEW t
    PROVE  LET reads == Retained(ws, e, t) IN
           /\ reads \in Seq(Event)
           /\ \A x, y \in Entries(reads) : ObservedAt[x] <= ObservedAt[y] + Window
           /\ \A x \in Entries(reads) :
                x = e \/ \E w \in Entries(ws) : w.epc = EpcOf[e] /\ x \in Entries(w.reads)
           /\ (\A w \in Entries(ws) : Distinct(w.reads) /\ e \notin Entries(w.reads))
                => Distinct(reads)
<1> DEFINE its == WindowFor(ws, EpcOf[e])
           old == IF its = {} THEN <<>> ELSE The(its).reads
           all == Append(old, e)
           close == {r \in Entries(all) :
                        /\ ObservedAt[r] >= t
                        /\ \A x \in Entries(all) : ObservedAt[x] <= ObservedAt[r] + Window}
           reads == Filter(all, close)
<1>1. Retained(ws, e, t) = reads
    BY DEF Retained
<1>2. Entries(ws) \subseteq WindowRow
    BY EntriesOf DEF WindowsOK, Keyed
<1>3. <<>> \in Seq(Event) /\ Entries(<<>>) = {} /\ Distinct(<<>>)
    BY EmptySeq DEF Entries, Distinct
<1>4. \/ old = <<>>
      \/ \E w \in Entries(ws) : w.epc = EpcOf[e] /\ old = w.reads /\ w \in WindowRow
    <2>1. its # {} => The(its) \in its
        BY DEF The
    <2>2. its # {} => The(its) \in Entries(ws) /\ The(its).epc = EpcOf[e]
        BY <2>1 DEF WindowFor
    <2> QED BY <1>2, <2>2
<1> HIDE DEF old
<1>5. old \in Seq(Event)
    BY <1>3, <1>4 DEF WindowRow
<1>6. all \in Seq(Event) /\ Entries(all) = Entries(old) \cup {e}
        /\ (Distinct(old) /\ e \notin Entries(old) => Distinct(all))
    BY <1>5, AppendEntries
<1> HIDE DEF all
<1>7. /\ reads \in Seq(Event) /\ Entries(reads) = Entries(all) \cap close
      /\ Distinct(all) => Distinct(reads)
    BY <1>6, FilterFacts
<1> HIDE DEF reads
<1>8. \A x, y \in Entries(reads) : ObservedAt[x] <= ObservedAt[y] + Window
    BY <1>7
<1>9. \A x \in Entries(reads) : x = e \/ x \in Entries(old)
    BY <1>6, <1>7
<1>10. \A x \in Entries(reads) :
            x = e \/ \E w \in Entries(ws) : w.epc = EpcOf[e] /\ x \in Entries(w.reads)
    BY <1>3, <1>4, <1>9
<1>11. (\A w \in Entries(ws) : Distinct(w.reads) /\ e \notin Entries(w.reads)) => Distinct(reads)
    BY <1>3, <1>4, <1>6, <1>7
<1> QED BY <1>1, <1>7, <1>8, <1>10, <1>11

LEMMA EvidenceRow ==
    ASSUME MemoryOK(memory), NEW e \in Event
    PROVE  LET row == [epc |-> EpcOf[e], reads |-> Evidence(e)] IN
           /\ row \in WindowRow
           /\ WindowsOK(EvidenceAdded(e))
           /\ Disturbed(memory.windows, EpcOf[e], EvidenceAdded(e))
           /\ \A w \in Entries(EvidenceAdded(e)) : w = row \/ w \in Entries(memory.windows)
<1> DEFINE row == [epc |-> EpcOf[e], reads |-> Evidence(e)]
<1>1. Evidence(e) \in Seq(Event)
    BY RetainedReads DEF Evidence, MemoryOK
<1>2. row \in WindowRow /\ row.epc = EpcOf[e]
    BY <1>1, ObservationAssumption DEF WindowRow
<1>3. EvidenceAdded(e) =
        Bounded(Append(DropWindow(memory.windows, row.epc), row), MaxEpcs)
    BY DEF EvidenceAdded, Add, Evidence
<1> HIDE DEF row
<1>4. /\ WindowsOK(EvidenceAdded(e)) /\ Disturbed(memory.windows, EpcOf[e], EvidenceAdded(e))
      /\ \A w \in Entries(EvidenceAdded(e)) : w = row \/ w \in Entries(memory.windows)
    BY <1>2, <1>3, Added DEF MemoryOK
<1> QED BY <1>2, <1>4 DEF row

LEMMA HalfDoneWindows ==
    ASSUME MemoryOK(memory), NEW e \in Event, NEW ws \in {memory.windows, EvidenceAdded(e)}
    PROVE  WindowsOK(ws) /\ Disturbed(memory.windows, EpcOf[e], ws)
<1>1. CASE ws = memory.windows
    BY <1>1 DEF MemoryOK, WindowsOK, Disturbed
<1>2. CASE ws = EvidenceAdded(e)
    BY <1>2, EvidenceRow
<1> QED BY <1>1, <1>2

LEMMA TouchedOK ==
    ASSUME MemoryOK(memory), NEW e \in Event, NEW ws \in {memory.windows, EvidenceAdded(e)}
    PROVE  /\ MemoryOK(Touched(e, ws))
           /\ Entries(Touched(e, ws).ids) \subseteq Entries(memory.ids) \cup {e}
<1>1. Touched(e, ws).ids = RememberEvent(memory.ids, e) /\ Touched(e, ws).windows = ws
    BY DEF Touched
<1>2. /\ IdsOK(RememberEvent(memory.ids, e))
      /\ Entries(RememberEvent(memory.ids, e)) \subseteq Entries(memory.ids) \cup {e}
    BY Remembered DEF MemoryOK
<1>3. WindowsOK(ws)
    BY HalfDoneWindows
<1> QED BY <1>1, <1>2, <1>3 DEF MemoryOK

\* What the attempt did to the memory is undone.
LEMMA AttemptUndone ==
    ASSUME MemoryOK(memory), NEW e \in Event, NEW m \in HalfDone(e)
    PROVE  MemoryOK(RolledBack(e, m)) /\ Contents(RolledBack(e, m)) = Contents(memory)
<1> DEFINE saved == Checkpoint(memory, e)
           q == RolledBack(e, m)
<1>1. PICK ws \in {memory.windows, EvidenceAdded(e)} : m = Touched(e, ws)
    BY DEF HalfDone
<1>2. m.ids = RememberEvent(memory.ids, e) /\ m.windows = ws
    BY <1>1 DEF Touched
<1>3. /\ saved.known = (e \in Entries(memory.ids)) /\ saved.oldestId = Oldest(memory.ids)
      /\ saved.window = WindowFor(memory.windows, EpcOf[e])
      /\ saved.oldestWindow = Oldest(memory.windows)
    BY DEF Checkpoint
<1>4. q.ids = RestoreIds(m.ids, e, saved) /\ q.windows = RestoreWindows(m.windows, e, saved)
    BY DEF RolledBack, Restore
<1> HIDE DEF saved, q
<1>5. IdsOK(q.ids) /\ Entries(q.ids) = Entries(memory.ids)
    BY <1>2, <1>3, <1>4, IdsRestored DEF MemoryOK
<1>6. WindowsOK(q.windows) /\ Entries(q.windows) = Entries(memory.windows)
    BY <1>2, <1>3, <1>4, HalfDoneWindows, WindowsRestored DEF MemoryOK
<1>7. MemoryOK(q) /\ Contents(q) = Contents(memory)
    BY <1>5, <1>6 DEF MemoryOK, Contents
<1> QED BY <1>7 DEF q

\* What a step does to the memory: nothing, everything forgotten, an attempt undone,
\* the event remembered, and its read added to the evidence.
MemoryStep ==
    \/ UNCHANGED memory
    \/ memory' = EmptyMemory
    \/ \E e \in Event : \E m \in HalfDone(e) : memory' = RolledBack(e, m)
    \/ \E e \in Event, status \in Final, d \in Disposition \cup Reason :
            Finishes(e, status, d) /\ memory' = Touched(e, memory.windows)
    \/ \E e \in Event, d \in Disposition :
            Finishes(e, "PROCESSED", d) /\ memory' = Touched(e, EvidenceAdded(e))

LEMMA EndsMemory ==
    ASSUME NEW e \in Event, NEW ack \in BOOLEAN,
           NEW ws \in {memory.windows, EvidenceAdded(e)}, EndTransaction(e, ws, ack)
    PROVE  \/ memory' = Touched(e, ws)
           \/ \E m \in HalfDone(e) : memory' = RolledBack(e, m)
BY DEF EndTransaction, HalfDone

LEMMA NextTouchesMemory ==
    ASSUME [Next]_vars
    PROVE  MemoryStep
<1>1. /\ "PROCESSED" \in Final /\ "REJECTED" \in Final
      /\ "AMBIGUOUS" \in Disposition /\ "PROCESSED" \in Disposition
    BY DEF Final, Disposition
<1>2. ASSUME NEW e \in Event, NEW ack \in BOOLEAN, ObserveRejected(e, ack)
      PROVE  MemoryStep
    <2>1. Finishes(e, "REJECTED", RejectionReason(e)) /\ RejectionReason(e) \in Reason
        BY <1>2, RejectionReasonType
        DEF ObserveRejected, Finishes, Quarantine, NoEvidence, EndTransaction, Reason
    <2>2. EndTransaction(e, memory.windows, ack)
        BY <1>2 DEF ObserveRejected, NoEvidence
    <2> QED BY <1>1, <2>1, <2>2, EndsMemory DEF MemoryStep
<1>3. ASSUME NEW e \in Event, NEW ack \in BOOLEAN, ObserveIgnored(e, ack)
      PROVE  MemoryStep
    <2>1. \E d \in Disposition : Finishes(e, "PROCESSED", d)
        BY <1>3 DEF ObserveIgnored, Ignored, Finishes, NoEvidence, EndTransaction
    <2>2. EndTransaction(e, memory.windows, ack)
        BY <1>3 DEF ObserveIgnored, NoEvidence
    <2> QED BY <1>1, <2>1, <2>2, EndsMemory DEF MemoryStep
<1>4. ASSUME NEW e \in Event, NEW ack \in BOOLEAN, NEW d \in {"AMBIGUOUS", "PROCESSED"},
             Current(e), AdvanceBatch(e, "PROCESSED", d), UNCHANGED quarantine,
             EndTransaction(e, EvidenceAdded(e), ack)
      PROVE  MemoryStep
    <2>1. Finishes(e, "PROCESSED", d) /\ d \in Disposition
        BY <1>1, <1>4 DEF Finishes, EndTransaction, Current
    <2> QED BY <1>4, <2>1, EndsMemory DEF MemoryStep
<1>5. ASSUME NEW e \in Event, NEW ack \in BOOLEAN, ProcessObservation(e, ack)
      PROVE  MemoryStep
    BY <1>2, <1>3, <1>4, <1>5
    DEF ProcessObservation, ObserveAmbiguous, ObserveSameZone, ObserveMove
<1>6. ASSUME NEW e \in Event,
             AttemptFails(e) \/ AttemptsExhausted(e) \/ AttemptUncounted(e)
      PROVE  MemoryStep
    BY <1>6 DEF AttemptFails, AttemptsExhausted, AttemptUncounted, ForgetAttempt, MemoryStep
<1>7. CASE Handle
    BY <1>5, <1>6, <1>7 DEF Handle
<1>8. CASE UNCHANGED vars
    BY <1>8 DEF vars, MemoryStep
<1>9. CASE WorkerRestarts
    BY <1>9 DEF WorkerRestarts, MemoryStep
<1>10. CASE BeginPass \/ DeviceStatusChanges \/ (\E e \in Event : Replay(e))
            \/ (\E c \in Epc, at \in Time : BindEpc(c, at))
            \/ (\E c \in Epc : AcceptAuthoritativeRemoval(c))
            \/ (\E b \in Batch, es \in Requests, at \in 0..Cardinality(Event) :
                    AcceptObservationBatch(b, es, at))
    BY <1>10 DEF BeginPass, BindEpc, DeviceStatusChanges, Replay,
        AcceptAuthoritativeRemoval, AcceptObservationBatch, MemoryStep
<1> QED BY <1>6, <1>7, <1>8, <1>9, <1>10 DEF Next

LEMMA EmptyMemoryOK ==
    MemoryOK(EmptyMemory) /\ EmptyMemory.ids = <<>> /\ EmptyMemory.windows = <<>>
<1>1. /\ <<>> \in Seq(Event) /\ <<>> \in Seq(WindowRow) /\ Len(<<>>) = 0
      /\ Distinct(<<>>) /\ Entries(<<>>) = {}
    BY EmptySeq DEF Entries, Distinct
<1>2. 0 <= MaxEventIds /\ 0 <= MaxEpcs
    BY LimitsAssumption
<1> QED BY <1>1, <1>2 DEF EmptyMemory, MemoryOK, IdsOK, WindowsOK, Keyed

LEMMA MemoryNext ==
    ASSUME MemoryOK(memory), MemoryStep
    PROVE  MemoryOK(memory')
BY EmptyMemoryOK, TouchedOK, AttemptUndone DEF MemoryStep

LEMMA MemoryNextOK ==
    ASSUME MemoryOK(memory), [Next]_vars
    PROVE  MemoryOK(memory)'
BY MemoryNext, NextTouchesMemory DEF MemoryOK, IdsOK, WindowsOK, Keyed

\* Whatever the attempt had done to the memory, evictions included, its restore
\* puts back what the memory held (RestoreUndoes).
THEOREM AttemptsLeaveNoTrace == Spec => []RestoreUndoes
<1>1. Init => MemoryOK(memory)
    BY EmptyMemoryOK DEF Init
<1>2. MemoryOK(memory) /\ [Next]_vars => MemoryOK(memory)'
    BY MemoryNextOK
<1>3. MemoryOK(memory) => RestoreUndoes
    BY AttemptUndone DEF RestoreUndoes
<1> QED BY <1>1, <1>2, <1>3, PTL DEF Spec

-----------------------------------------------------------------------------
(* No event is its own duplicate.                                           *)

\* An id the worker remembers is of an event it has settled, and one that a replay
\* has queued again since carries the mark of the replay.
SettledIds ==
    \A e \in Entries(memory.ids) :
        ledger[e] # None /\ (ledger[e] = "PENDING" => Replayed(e))

DuplicateInv == LedgerInv /\ MemoryOK(memory) /\ SettledIds /\ NeverItsOwnDuplicate

\* A step of the tables leaves an event settled that is, or marks it as replayed.
LEMMA StaysSettled ==
    ASSUME LedgerInv, TableStep, NEW e \in Event,
           ledger[e] # None, ledger[e] = "PENDING" => Replayed(e)
    PROVE  ledger'[e] # None /\ (ledger'[e] = "PENDING" => Replayed(e)')
<1>1. TablesOK
    BY DEF LedgerInv
<1>2. ASSUME NEW b \in Batch, NEW es \in Requests, NEW at \in 0..Cardinality(Event),
             AcceptObservationBatch(b, es, at)
      PROVE  ledger'[e] = ledger[e] /\ outbox' = outbox
    BY <1>2, AcceptedRows DEF AcceptObservationBatch
<1>3. ASSUME NEW f \in Event, NEW status \in Final,
             NEW d \in Disposition \cup Reason, Finishes(f, status, d)
      PROVE  ledger'[e] # None /\ (ledger'[e] = "PENDING" => Replayed(e)')
    <2>1. CASE e = f
        BY <1>1, <1>3, <2>1 DEF Finishes, AdvanceBatch, TablesOK, Final, None
    <2>2. CASE e # f
        <3>1. ledger'[e] = ledger[e] /\ outbox'[e] = outbox[e]
            BY <1>1, <1>3, <2>2 DEF Finishes, AdvanceBatch, Publish, TablesOK
        <3> QED BY <3>1 DEF Replayed
    <2> QED BY <2>1, <2>2
<1>4. ASSUME NEW f \in Event, AttemptFails(f)
      PROVE  ledger'[e] = ledger[e] /\ outbox'[e].replayed = outbox[e].replayed
    <2>1. ledger' = ledger /\ outbox' = [outbox EXCEPT ![f] = FailedOnce(@)]
        BY <1>4 DEF AttemptFails, ledgerVars
    <2>2. \A row \in Row : FailedOnce(row).replayed = row.replayed
        BY DEF FailedOnce, Row
    <2> QED BY <1>1, <2>1, <2>2 DEF TablesOK
<1>5. ASSUME NEW f \in Event, Replay(f)
      PROVE  ledger'[e] # None /\ (ledger'[e] = "PENDING" => Replayed(e)')
    <2>1. /\ ledger[f] = "REJECTED"
          /\ ledger' = [ledger EXCEPT ![f] = "PENDING"]
          /\ outbox' = [outbox EXCEPT ![f] = [NewRow EXCEPT !.replayed = outcome[f]]]
        BY <1>5 DEF Replay, Replayable
    <2>2. CASE e = f
        <3>1. outcome[f] \in Reason
            BY <2>1 DEF LedgerInv, RowsFollowLedger
        <3>2. outbox'[e] = [NewRow EXCEPT !.replayed = outcome[f]]
            BY <1>1, <2>1, <2>2 DEF TablesOK
        <3>3. outbox'[e].replayed # None
            BY <3>1, <3>2 DEF NewRow, Reason, None
        <3>4. ledger'[e] = "PENDING"
            BY <1>1, <2>1, <2>2 DEF TablesOK
        <3> QED BY <3>3, <3>4 DEF Replayed, None
    <2>3. CASE e # f
        BY <1>1, <2>1, <2>3 DEF TablesOK, Replayed
    <2> QED BY <2>2, <2>3
<1>6. CASE UNCHANGED tableVars
    BY <1>6 DEF tableVars, ledgerVars, Replayed
<1> QED BY <1>2, <1>3, <1>4, <1>5, <1>6 DEF TableStep, Replayed

LEMMA SettledIdsNext ==
    ASSUME DuplicateInv, [Next]_vars
    PROVE  SettledIds'
<1>1. LedgerInv /\ TablesOK /\ MemoryOK(memory) /\ SettledIds /\ TableStep
    BY NextTouchesTables DEF DuplicateInv, LedgerInv
<1>2. Entries(memory.ids) \subseteq Event
    BY <1>1, EntriesOf DEF MemoryOK, IdsOK
<1>3. SUFFICES ASSUME NEW e \in Entries(memory'.ids)
               PROVE  ledger'[e] # None /\ (ledger'[e] = "PENDING" => Replayed(e)')
    BY DEF SettledIds, Replayed
<1>4. CASE e \in Entries(memory.ids)
    BY <1>1, <1>2, <1>4, StaysSettled DEF SettledIds
<1>5. ASSUME NEW f \in Event, NEW status \in Final, NEW d, Finishes(f, status, d),
             NEW ws \in {memory.windows, EvidenceAdded(f)}, memory' = Touched(f, ws)
      PROVE  ledger'[e] # None /\ (ledger'[e] = "PENDING" => Replayed(e)')
    <2>1. e \in Entries(memory.ids) \cup {f}
        BY <1>1, <1>5, TouchedOK
    <2>2. CASE e = f
        BY <1>1, <1>5, <2>2 DEF Finishes, AdvanceBatch, TablesOK, Final, None
    <2> QED BY <1>4, <2>1, <2>2
<1>6. CASE UNCHANGED memory
    BY <1>4, <1>6
<1>7. CASE memory' = EmptyMemory
    BY <1>7, EmptyMemoryOK DEF Entries
<1>8. CASE \E f \in Event : \E m \in HalfDone(f) : memory' = RolledBack(f, m)
    <2>1. Contents(memory') = Contents(memory)
        BY <1>1, <1>8, AttemptUndone
    <2>2. Entries(memory'.ids) = Entries(memory.ids)
        BY <2>1 DEF Contents
    <2> QED BY <1>4, <2>2
<1>9. "PROCESSED" \in Final
    BY DEF Final
<1>10. MemoryStep
    BY NextTouchesMemory
<1> QED BY <1>5, <1>6, <1>7, <1>8, <1>9, <1>10 DEF MemoryStep

LEMMA DuplicateNext ==
    ASSUME DuplicateInv, [Next]_vars
    PROVE  DuplicateInv'
<1>1. LedgerInv /\ TablesOK /\ MemoryOK(memory) /\ SettledIds /\ TableStep
    BY NextTouchesTables DEF DuplicateInv, LedgerInv
<1>2. LedgerInv' /\ MemoryOK(memory)' /\ SettledIds'
    BY <1>1, LedgerNext, MemoryNextOK, SettledIdsNext
<1>3. \A e \in Event : outcome[e] # "DUPLICATE"
    BY DEF DuplicateInv, NeverItsOwnDuplicate
<1>4. ASSUME NEW f \in Event, NEW status \in Final,
             NEW d \in Disposition \cup Reason, Finishes(f, status, d)
      PROVE  \A e \in Event : outcome'[e] # "DUPLICATE"
    <2>1. outcome' = [outcome EXCEPT ![f] = d] /\ ledger[f] = "PENDING"
        BY <1>4 DEF Finishes, AdvanceBatch, Working
    <2>2. ~Duplicate(f)
        BY <1>1, <2>1 DEF SettledIds, Duplicate, IsDuplicate
    <2>3. d # "DUPLICATE"
        BY <1>4, <2>2 DEF Finishes
    <2> QED BY <1>1, <1>3, <2>1, <2>3 DEF TablesOK
<1>5. ASSUME NEW f \in Event, Replay(f)
      PROVE  \A e \in Event : outcome'[e] # "DUPLICATE"
    BY <1>1, <1>3, <1>5 DEF Replay, TablesOK
<1>6. \A e \in Event : outcome'[e] # "DUPLICATE"
    BY <1>1, <1>3, <1>4, <1>5
    DEF TableStep, AcceptObservationBatch, AttemptFails, tableVars, ledgerVars
<1> QED BY <1>2, <1>6 DEF DuplicateInv, NeverItsOwnDuplicate

\* Every accepted event gets a real outcome (NeverItsOwnDuplicate): neither a retried
\* attempt nor a replay meets its own id in the worker's memory.
THEOREM NoOwnDuplicate == Spec => []NeverItsOwnDuplicate
<1>1. Init => DuplicateInv
    <2> SUFFICES ASSUME Init PROVE DuplicateInv
        OBVIOUS
    <2>1. LedgerInv /\ MemoryOK(memory)
        BY LedgerInit, EmptyMemoryOK DEF Init
    <2>2. Entries(memory.ids) = {}
        BY EmptyMemoryOK DEF Init, Entries
    <2>3. NeverItsOwnDuplicate
        BY DEF Init, NeverItsOwnDuplicate, None
    <2> QED BY <2>1, <2>2, <2>3 DEF DuplicateInv, SettledIds
<1>2. DuplicateInv /\ [Next]_vars => DuplicateInv'
    BY DuplicateNext
<1>3. DuplicateInv => NeverItsOwnDuplicate
    BY DEF DuplicateInv
<1> QED BY <1>1, <1>2, <1>3, PTL DEF Spec

-----------------------------------------------------------------------------
(* The evidence and the location of an item.                                *)

LEMMA LatestOf ==
    ASSUME NEW S, IsFiniteSet(S), S # {}, NEW f \in [S -> Nat]
    PROVE  /\ \E x \in S : Latest({f[y] : y \in S}) = f[x]
           /\ \A x \in S : f[x] <= Latest({f[y] : y \in S})
<1> DEFINE T == {f[y] : y \in S}
<1>1. f \in Surjection(S, T)
    BY DEF Surjection
<1>2. IsFiniteSet(T)
    BY <1>1, FS_Surjection
<1>3. T \in SUBSET Nat /\ T # {}
    OBVIOUS
<1> HIDE DEF T
<1>4. Latest(T) \in T /\ \A u \in T : u <= Latest(T)
    BY <1>2, <1>3, LatestIsLast
<1> QED BY <1>4 DEF T

LEMMA LatestOfTwo ==
    ASSUME NEW a \in Nat, NEW b \in Nat
    PROVE  Latest({a, b}) \in {a, b} /\ a <= Latest({a, b}) /\ b <= Latest({a, b})
<1> DEFINE T == {a, b}
<1>1. IsFiniteSet({a}) /\ IsFiniteSet({a} \cup {b}) /\ {a} \cup {b} = T
    BY FS_Singleton, FS_AddElement
<1>2. T \in SUBSET Nat /\ T # {} /\ a \in T /\ b \in T
    OBVIOUS
<1> HIDE DEF T
<1>3. Latest(T) \in T /\ \A u \in T : u <= Latest(T)
    BY <1>1, <1>2, LatestIsLast
<1> QED BY <1>2, <1>3 DEF T

\* Some set of every smaller size is inside a finite one.
LEMMA SubsetOfSize ==
    ASSUME NEW S, IsFiniteSet(S), NEW n \in Nat, n <= Cardinality(S)
    PROVE  \E T \in SUBSET S : IsFiniteSet(T) /\ Cardinality(T) = n
<1> DEFINE N == Cardinality(S)
<1>1. N \in Nat /\ ExistsBijection(1..N, S)
    BY FS_CardinalityType
<1> HIDE DEF N
<1>2. PICK f \in Bijection(1..N, S) : TRUE
    BY <1>1 DEF ExistsBijection
<1> DEFINE T == {f[i] : i \in 1..n}
           g == [i \in 1..n |-> f[i]]
<1>3. \A i \in 1..n : i \in 1..N
    BY <1>1 DEF N
<1>4. f \in [1..N -> S] /\ \A i, j \in 1..N : f[i] = f[j] => i = j
    BY <1>2 DEF Bijection, Injection, IsInjective
<1>5. T \in SUBSET S
    BY <1>3, <1>4
<1>6. g \in [1..n -> T] /\ \A i \in 1..n : g[i] = f[i]
    OBVIOUS
<1> HIDE DEF g
<1>7. g \in Bijection(1..n, T)
    <2>1. \A i, j \in 1..n : g[i] = g[j] => i = j
        BY <1>3, <1>4, <1>6
    <2>2. \A t \in T : \E i \in 1..n : g[i] = t
        BY <1>6
    <2> HIDE DEF T
    <2> QED BY <1>6, <2>1, <2>2 DEF Bijection, Injection, Surjection, IsInjective
<1> HIDE DEF T
<1>8. IsFiniteSet(1..n) /\ Cardinality(1..n) = n
    BY FS_Interval
<1>9. IsFiniteSet(T) /\ Cardinality(T) = n
    BY <1>7, <1>8, FS_Bijection DEF ExistsBijection
<1> QED BY <1>5, <1>9

ItemsOK == item \in [Epc -> Item]

\* The watermark of an item is no older than anything processed about it.
LEMMA WatermarkIsLast ==
    ASSUME ItemsOK, NEW c \in Epc
    PROVE  /\ Watermark(c) \in Nat
           /\ \A e \in Event : (EpcOf[e] = c /\ ledger[e] = "PROCESSED")
                                    => ObservedAt[e] <= Watermark(c)
<1> DEFINE its == {x \in Event : EpcOf[x] = c /\ ledger[x] = "PROCESSED"}
           at == [e \in its |-> ObservedAt[e]]
           seen == {ObservedAt[e] : e \in its}
           times == {0, item[c].lastObserved} \cup seen
<1>1. item[c].lastObserved \in Nat
    BY DEF ItemsOK, Item
<1>2. IsFiniteSet(its)
    <2>1. its \in SUBSET Event /\ IsFiniteSet(Event)
        BY PipelineAssumption
    <2> QED BY <2>1, FS_Subset
<1>3. at \in Surjection(its, seen)
    BY DEF Surjection
<1>4. IsFiniteSet(seen) /\ seen \in SUBSET Nat
    <2>1. seen \in SUBSET Nat
        BY ObservationAssumption
    <2> HIDE DEF its, at, seen
    <2> QED BY <1>2, <1>3, <2>1, FS_Surjection
<1>5. IsFiniteSet({0, item[c].lastObserved})
    <2> DEFINE own == item[c].lastObserved
    <2>1. {0, own} = {0} \cup {own}
        OBVIOUS
    <2> HIDE DEF own
    <2>2. IsFiniteSet({0}) /\ IsFiniteSet({0} \cup {own})
        BY FS_Singleton, FS_AddElement
    <2> QED BY <2>1, <2>2 DEF own
<1>6. IsFiniteSet(times) /\ times \in SUBSET Nat /\ times # {}
    <2>1. times \in SUBSET Nat /\ times # {}
        BY <1>1, <1>4
    <2> HIDE DEF seen
    <2> QED BY <1>4, <1>5, <2>1, FS_Union
<1>7. Watermark(c) = Latest(times)
    BY DEF Watermark
<1>8. \A e \in its : ObservedAt[e] \in times
    OBVIOUS
<1> HIDE DEF times
<1>9. Latest(times) \in times /\ \A u \in times : u <= Latest(times)
    BY <1>6, LatestIsLast
<1> QED BY <1>6, <1>7, <1>8, <1>9

LEMMA ReadsOfZone ==
    ASSUME NEW reads \in Seq(Event), NEW z
    PROVE  /\ ReadsAt(reads, z) \subseteq DOMAIN reads
           /\ IsFiniteSet(ReadsAt(reads, z)) /\ ReadCount(reads, z) \in Nat
           /\ \A i \in DOMAIN reads : reads[i] \in Event /\ reads[i] \in Entries(reads)
<1>1. DOMAIN reads = 1..Len(reads) /\ Len(reads) \in Nat
    BY EntriesOf
<1>2. ReadsAt(reads, z) \in SUBSET (1..Len(reads))
    BY <1>1 DEF ReadsAt
<1>3. IsFiniteSet(1..Len(reads))
    BY <1>1, FS_Interval
<1>4. IsFiniteSet(ReadsAt(reads, z)) /\ ReadCount(reads, z) \in Nat
    BY <1>2, <1>3, FS_Subset, FS_CardinalityType DEF ReadCount
<1> QED BY <1>1, <1>2, <1>4, ElementOfSeq DEF Entries

\* A zone is stable with enough reads, and decided at the latest of them.
LEMMA StableZoneReads ==
    ASSUME NEW reads \in Seq(Event), NEW z \in StableZones(reads) \ {NoZone}
    PROVE  /\ z \in Zone /\ ConfirmationReads <= ReadCount(reads, z)
           /\ \E i \in ReadsAt(reads, z) : DecidedAt(reads, z) = ObservedAt[reads[i]]
<1>1. z \in Leading(reads) /\ ~(ReadCount(reads, z) < ConfirmationReads)
    BY DEF StableZones
<1>2. z \in Zone
    BY <1>1 DEF Leading
<1>3. ReadCount(reads, z) \in Nat /\ ConfirmationReads \in Nat \ {0}
    BY ReadsOfZone, LimitsAssumption
<1>4. ConfirmationReads <= ReadCount(reads, z) /\ ReadCount(reads, z) # 0
    BY <1>1, <1>3
<1> DEFINE its == ReadsAt(reads, z)
           at == [i \in its |-> ObservedAt[reads[i]]]
<1>5. IsFiniteSet(its) /\ its # {}
    <2>1. IsFiniteSet(its)
        BY ReadsOfZone
    <2> QED BY <1>4, <2>1, FS_EmptySet DEF ReadCount
<1>6. at \in [its -> Nat]
    BY ReadsOfZone, ObservationAssumption
<1>7. \A i \in its : at[i] = ObservedAt[reads[i]]
    OBVIOUS
<1>8. DecidedAt(reads, z) = Latest({at[i] : i \in its})
    BY DEF DecidedAt
<1> HIDE DEF its, at
<1>9. \E i \in its : Latest({at[j] : j \in its}) = at[i]
    BY <1>5, <1>6, LatestOf
<1> QED BY <1>2, <1>4, <1>7, <1>8, <1>9 DEF its

\* The reads in the memory are different processed ones of the window's EPC.
ProcessedReads ==
    \A w \in Entries(memory.windows) :
        /\ Distinct(w.reads)
        /\ \A r \in Entries(w.reads) : EpcOf[r] = w.epc /\ ledger[r] = "PROCESSED"

EvidenceInv ==
    LedgerInv /\ MemoryOK(memory) /\ ItemsOK /\ ProcessedReads /\ LocationIsConfirmed

\* What the worker decides from: different reads of the item, close to each other in
\* time, that are processed but for the one in hand.
LEMMA EvidenceReads ==
    ASSUME MemoryOK(memory), ProcessedReads, NEW e \in Event, ledger[e] = "PENDING"
    PROVE  /\ Evidence(e) \in Seq(Event) /\ Distinct(Evidence(e))
           /\ \A x, y \in Entries(Evidence(e)) : ObservedAt[x] <= ObservedAt[y] + Window
           /\ \A x \in Entries(Evidence(e)) :
                EpcOf[x] = EpcOf[e] /\ (x = e \/ ledger[x] = "PROCESSED")
<1> DEFINE ws == memory.windows
           reads == Retained(ws, e, EvidenceStart(e))
<1>1. WindowsOK(ws)
    BY DEF MemoryOK
<1>2. \A w \in Entries(ws) : Distinct(w.reads) /\ e \notin Entries(w.reads)
    BY DEF ProcessedReads
<1>3. /\ reads \in Seq(Event)
      /\ \A x, y \in Entries(reads) : ObservedAt[x] <= ObservedAt[y] + Window
      /\ \A x \in Entries(reads) :
            x = e \/ \E w \in Entries(ws) : w.epc = EpcOf[e] /\ x \in Entries(w.reads)
      /\ Distinct(reads)
    BY <1>1, <1>2, RetainedReads
<1>4. Evidence(e) = reads
    BY DEF Evidence
<1>5. \A x \in Entries(reads) : EpcOf[x] = EpcOf[e] /\ (x = e \/ ledger[x] = "PROCESSED")
    <2> HIDE DEF reads
    <2> QED BY <1>3 DEF ProcessedReads
<1> QED BY <1>3, <1>4, <1>5

LEMMA ProcessedReadsNext ==
    ASSUME EvidenceInv, [Next]_vars
    PROVE  ProcessedReads'
<1>1. LedgerInv /\ TablesOK /\ MemoryOK(memory) /\ ProcessedReads
    BY DEF EvidenceInv, LedgerInv
<1> DEFINE Good(w) == /\ Distinct(w.reads)
                      /\ \A r \in Entries(w.reads) :
                            EpcOf[r] = w.epc /\ ledger'[r] = "PROCESSED"
<1>2. SUFFICES \A w \in Entries(memory'.windows) : Good(w)
    BY DEF ProcessedReads
<1>3. \A w \in Entries(memory.windows) : Good(w)
    <2> SUFFICES ASSUME NEW w \in Entries(memory.windows) PROVE Good(w)
        OBVIOUS
    <2>1. w.reads \in Seq(Event)
        <3>1. Entries(memory.windows) \subseteq WindowRow
            BY <1>1, EntriesOf DEF MemoryOK, WindowsOK, Keyed
        <3> QED BY <3>1 DEF WindowRow
    <2>2. Entries(w.reads) \subseteq Event
        BY <2>1, EntriesOf
    <2>3. \A r \in Entries(w.reads) : EpcOf[r] = w.epc /\ ledger[r] = "PROCESSED"
        BY <1>1 DEF ProcessedReads
    <2>4. \A r \in Entries(w.reads) : ledger'[r] = "PROCESSED"
        BY <1>1, <2>2, <2>3, ProcessedStep
    <2> QED BY <1>1, <2>3, <2>4 DEF ProcessedReads
<1>4. ASSUME NEW e \in Event, NEW d, Finishes(e, "PROCESSED", d),
             memory' = Touched(e, EvidenceAdded(e))
      PROVE  \A w \in Entries(memory'.windows) : Good(w)
    <2> DEFINE row == [epc |-> EpcOf[e], reads |-> Evidence(e)]
    <2>1. ledger[e] = "PENDING" /\ ledger'[e] = "PROCESSED"
        BY <1>1, <1>4 DEF Finishes, Working, AdvanceBatch, TablesOK
    <2>2. /\ Evidence(e) \in Seq(Event) /\ Distinct(Evidence(e))
          /\ \A x \in Entries(Evidence(e)) :
                EpcOf[x] = EpcOf[e] /\ (x = e \/ ledger[x] = "PROCESSED")
        BY <1>1, <2>1, EvidenceReads
    <2>3. Entries(Evidence(e)) \subseteq Event
        BY <2>2, EntriesOf
    <2>4. \A x \in Entries(Evidence(e)) : ledger'[x] = "PROCESSED"
        BY <1>1, <2>1, <2>2, <2>3, ProcessedStep
    <2>5. row.epc = EpcOf[e] /\ row.reads = Evidence(e)
        OBVIOUS
    <2>6. \A w \in Entries(EvidenceAdded(e)) : w = row \/ w \in Entries(memory.windows)
        BY <1>1, EvidenceRow
    <2>7. memory'.windows = EvidenceAdded(e)
        BY <1>4 DEF Touched
    <2> HIDE DEF row
    <2>8. Good(row)
        BY <2>2, <2>4, <2>5
    <2> HIDE DEF Good
    <2> QED BY <1>3, <2>6, <2>7, <2>8
<1> HIDE DEF Good
<1>5. CASE UNCHANGED memory
    BY <1>3, <1>5
<1>6. CASE memory' = EmptyMemory
    BY <1>6, EmptyMemoryOK DEF Entries
<1>7. CASE \E f \in Event : \E m \in HalfDone(f) : memory' = RolledBack(f, m)
    <2>1. Contents(memory') = Contents(memory)
        BY <1>1, <1>7, AttemptUndone
    <2>2. Entries(memory'.windows) = Entries(memory.windows)
        BY <2>1 DEF Contents
    <2> QED BY <1>3, <2>2
<1>8. CASE \E e \in Event, status \in Final, d \in Disposition \cup Reason :
                Finishes(e, status, d) /\ memory' = Touched(e, memory.windows)
    BY <1>3, <1>8 DEF Touched
<1>9. MemoryStep
    BY NextTouchesMemory
<1> QED BY <1>4, <1>5, <1>6, <1>7, <1>8, <1>9 DEF MemoryStep

\* What moves an item: the worker's decision for its zone.
Moved(e, z) ==
    /\ Working(e) /\ AdvanceBatch(e, "PROCESSED", "PROCESSED")
    /\ z \in Decisions(e)
    /\ item' = [item EXCEPT ![EpcOf[e]].zone = z,
                            ![EpcOf[e]].lastObserved = SeenUntil(e, z)]

\* What else a step does to the items: a refresh of the time, a removal.
ItemStep ==
    \/ UNCHANGED item
    \/ \E e \in Event, z \in Zone : Moved(e, z)
    \/ \E e \in Event, at \in Nat :
            \E it \in Refreshed(item[EpcOf[e]], at) : item' = [item EXCEPT ![EpcOf[e]] = it]
    \/ \E c \in Epc : item' = [item EXCEPT ![c].zone = NoZone, ![c].removed = TRUE]

LEMMA SeenUntilType ==
    ASSUME MemoryOK(memory), ProcessedReads, NEW e \in Event, ledger[e] = "PENDING",
           NEW z \in Decisions(e)
    PROVE  SeenUntil(e, z) \in Nat
<1>1. Evidence(e) \in Seq(Event) /\ z \in StableZones(Evidence(e)) \ {NoZone}
    BY EvidenceReads DEF Decisions
<1>2. PICK i \in ReadsAt(Evidence(e), z) :
            DecidedAt(Evidence(e), z) = ObservedAt[Evidence(e)[i]]
    BY <1>1, StableZoneReads
<1>3. Evidence(e)[i] \in Event
    BY <1>1, <1>2, ReadsOfZone
<1>4. DecidedAt(Evidence(e), z) \in Nat /\ ObservedAt[e] \in Nat
    BY <1>2, <1>3, ObservationAssumption
<1> QED BY <1>4, LatestOfTwo DEF SeenUntil

LEMMA NextTouchesItems ==
    ASSUME MemoryOK(memory), ProcessedReads, [Next]_vars
    PROVE  ItemStep
<1>1. ASSUME NEW e \in Event, NEW ack \in BOOLEAN, ObserveAmbiguous(e, ack)
      PROVE  ItemStep
    <2>1. ObservedAt[e] \in Nat
        BY ObservationAssumption
    <2>2. \E it \in Refreshed(item[EpcOf[e]], ObservedAt[e]) :
                item' = [item EXCEPT ![EpcOf[e]] = it]
        BY <1>1 DEF ObserveAmbiguous
    <2> QED BY <2>1, <2>2 DEF ItemStep
<1>2. ASSUME NEW e \in Event, NEW ack \in BOOLEAN, NEW z \in Zone, ObserveSameZone(e, z, ack)
      PROVE  ItemStep
    <2>1. SeenUntil(e, z) \in Nat
        BY <1>2, SeenUntilType DEF ObserveSameZone, Current, Working
    <2>2. \E it \in Refreshed(item[EpcOf[e]], SeenUntil(e, z)) :
                item' = [item EXCEPT ![EpcOf[e]] = it]
        BY <1>2 DEF ObserveSameZone
    <2> QED BY <2>1, <2>2 DEF ItemStep
<1>3. ASSUME NEW e \in Event, NEW ack \in BOOLEAN, NEW z \in Zone, ObserveMove(e, z, ack)
      PROVE  ItemStep
    BY <1>3 DEF ObserveMove, Current, Moved, ItemStep
<1>4. ASSUME NEW e \in Event, NEW ack \in BOOLEAN, ProcessObservation(e, ack)
      PROVE  ItemStep
    BY <1>1, <1>2, <1>3, <1>4
    DEF ProcessObservation, ObserveIgnored, ObserveRejected, NoEvidence, ItemStep
<1>5. ASSUME NEW e \in Event,
             AttemptFails(e) \/ AttemptsExhausted(e) \/ AttemptUncounted(e)
      PROVE  ItemStep
    BY <1>5 DEF AttemptFails, AttemptsExhausted, AttemptUncounted, ItemStep
<1>6. CASE Handle
    BY <1>4, <1>5, <1>6 DEF Handle
<1>7. CASE UNCHANGED vars
    BY <1>7 DEF vars, ItemStep
<1>8. CASE \E c \in Epc : AcceptAuthoritativeRemoval(c)
    BY <1>8 DEF AcceptAuthoritativeRemoval, ItemStep
<1>9. CASE BeginPass \/ DeviceStatusChanges \/ (\E e \in Event : Replay(e)) \/ WorkerRestarts
            \/ (\E c \in Epc, at \in Time : BindEpc(c, at))
            \/ (\E b \in Batch, es \in Requests, at \in 0..Cardinality(Event) :
                    AcceptObservationBatch(b, es, at))
    BY <1>9 DEF BeginPass, BindEpc, DeviceStatusChanges, Replay, WorkerRestarts,
        AcceptObservationBatch, ItemStep
<1> QED BY <1>5, <1>6, <1>7, <1>8, <1>9 DEF Next

LEMMA ItemsNext ==
    ASSUME ItemsOK, MemoryOK(memory), ProcessedReads, [Next]_vars
    PROVE  ItemsOK'
<1>1. ItemStep
    BY NextTouchesItems
<1>2. ASSUME NEW e \in Event, NEW z \in Zone, Moved(e, z)
      PROVE  ItemsOK'
    <2> DEFINE c == EpcOf[e]
               at == SeenUntil(e, z)
    <2>1. c \in Epc /\ item[c] \in Item
        BY ObservationAssumption DEF ItemsOK
    <2>2. at \in Nat
        BY <1>2, SeenUntilType DEF Moved, Working
    <2>3. item' = [item EXCEPT ![c].zone = z, ![c].lastObserved = at]
        BY <1>2 DEF Moved
    <2> HIDE DEF c, at
    <2>4. item' \in [Epc -> Item]
        <3> DEFINE first == [item EXCEPT ![c].zone = z]
        <3>1. first \in [Epc -> Item]
            BY <2>1 DEF ItemsOK, Item
        <3>2. item' = [first EXCEPT ![c].lastObserved = at]
            BY <2>3
        <3> HIDE DEF first
        <3> QED BY <2>1, <2>2, <3>1, <3>2 DEF Item
    <2> QED BY <2>4 DEF ItemsOK
<1>3. ASSUME NEW e \in Event, NEW at \in Nat, NEW it \in Refreshed(item[EpcOf[e]], at),
             item' = [item EXCEPT ![EpcOf[e]] = it]
      PROVE  ItemsOK'
    <2>1. EpcOf[e] \in Epc /\ item[EpcOf[e]] \in Item
        BY ObservationAssumption DEF ItemsOK
    <2> DEFINE own == item[EpcOf[e]]
    <2>2. own.lastObserved \in Nat
        BY <2>1 DEF Item
    <2>3. Latest({own.lastObserved, at}) \in Nat
        <3> DEFINE t == own.lastObserved
        <3>1. t \in Nat
            BY <2>2
        <3> HIDE DEF t
        <3>2. Latest({t, at}) \in Nat
            BY <3>1, LatestOfTwo
        <3> QED BY <3>2 DEF t
    <2> HIDE DEF own
    <2>4. it \in {own, [own EXCEPT !.lastObserved = Latest({own.lastObserved, at})]}
        BY <1>3 DEF Refreshed, own
    <2>5. own \in Item
        BY <2>1 DEF own
    <2>6. it \in Item
        BY <2>3, <2>4, <2>5 DEF Item
    <2> QED BY <1>3, <2>1, <2>6 DEF ItemsOK
<1>4. ASSUME NEW c \in Epc, item' = [item EXCEPT ![c].zone = NoZone, ![c].removed = TRUE]
      PROVE  ItemsOK'
    <2> DEFINE first == [item EXCEPT ![c].zone = NoZone]
    <2>1. first \in [Epc -> Item]
        BY DEF ItemsOK, Item
    <2>2. item' = [first EXCEPT ![c].removed = TRUE]
        BY <1>4
    <2> HIDE DEF first
    <2> QED BY <2>1, <2>2 DEF ItemsOK, Item
<1>5. CASE UNCHANGED item
    BY <1>5 DEF ItemsOK
<1> QED BY <1>1, <1>2, <1>3, <1>4, <1>5 DEF ItemStep

\* The zone of an item stays, is given up, or is one the worker decided for.
LEMMA ZoneStep ==
    ASSUME ItemsOK, ItemStep, NEW c \in Epc
    PROVE  \/ item'[c].zone \in {item[c].zone, NoZone}
           \/ \E e \in Event, z \in Zone :
                Moved(e, z) /\ EpcOf[e] = c /\ item'[c].zone = z
<1>1. CASE UNCHANGED item
    BY <1>1
<1>2. ASSUME NEW e \in Event, NEW z \in Zone, Moved(e, z)
      PROVE  item'[c].zone = item[c].zone \/ (EpcOf[e] = c /\ item'[c].zone = z)
    <2>1. CASE EpcOf[e] = c
        BY <1>2, <2>1 DEF Moved, ItemsOK, Item
    <2>2. CASE EpcOf[e] # c
        BY <1>2, <2>2 DEF Moved, ItemsOK
    <2> QED BY <2>1, <2>2
<1>3. ASSUME NEW e \in Event, NEW at \in Nat, NEW it \in Refreshed(item[EpcOf[e]], at),
             item' = [item EXCEPT ![EpcOf[e]] = it]
      PROVE  item'[c].zone = item[c].zone
    <2>1. it.zone = item[EpcOf[e]].zone
        BY ObservationAssumption DEF Refreshed, ItemsOK, Item
    <2>2. CASE EpcOf[e] = c
        BY <1>3, <2>1, <2>2 DEF ItemsOK
    <2>3. CASE EpcOf[e] # c
        BY <1>3, <2>3 DEF ItemsOK
    <2> QED BY <2>2, <2>3
<1>4. ASSUME NEW d \in Epc, item' = [item EXCEPT ![d].zone = NoZone, ![d].removed = TRUE]
      PROVE  item'[c].zone \in {item[c].zone, NoZone}
    <2>1. CASE d = c
        BY <1>4, <2>1 DEF ItemsOK, Item
    <2>2. CASE d # c
        BY <1>4, <2>2 DEF ItemsOK
    <2> QED BY <2>1, <2>2
<1> QED BY <1>1, <1>2, <1>3, <1>4 DEF ItemStep

\* Enough processed reads of an item, close to each other, put it in a zone.
Confirmed(c, z, processed) ==
    \E es \in SUBSET {e \in Event : EpcOf[e] = c /\ ZoneOf[e] = z /\ e \in processed} :
        /\ Cardinality(es) = ConfirmationReads
        /\ \A e, f \in es : ObservedAt[e] <= ObservedAt[f] + Window

Processed == {e \in Event : ledger[e] = "PROCESSED"}

LEMMA LocationIs ==
    LocationIsConfirmed
        <=> \A c \in Epc : item[c].zone # NoZone => Confirmed(c, item[c].zone, Processed)
<1>1. \A c : {e \in Event : EpcOf[e] = c /\ ZoneOf[e] = item[c].zone /\ e \in Processed}
             = {e \in Event : /\ EpcOf[e] = c
                              /\ ZoneOf[e] = item[c].zone
                              /\ ledger[e] = "PROCESSED"}
    BY DEF Processed
<1> QED BY <1>1 DEF LocationIsConfirmed, Confirmed

LEMMA ConfirmedStays ==
    ASSUME NEW P, NEW Q, P \subseteq Q, NEW c, NEW z, Confirmed(c, z, P)
    PROVE  Confirmed(c, z, Q)
BY DEF Confirmed

\* A decision rests on enough reads.
LEMMA DecisionIsConfirmed ==
    ASSUME NEW reads \in Seq(Event), Distinct(reads), NEW c, NEW P,
           NEW z \in StableZones(reads) \ {NoZone},
           \A x, y \in Entries(reads) : ObservedAt[x] <= ObservedAt[y] + Window,
           \A x \in Entries(reads) : EpcOf[x] = c /\ x \in P
    PROVE  Confirmed(c, z, P)
<1> DEFINE its == ReadsAt(reads, z)
<1>1. /\ its \subseteq DOMAIN reads /\ IsFiniteSet(its)
      /\ \A i \in DOMAIN reads : reads[i] \in Event /\ reads[i] \in Entries(reads)
    BY ReadsOfZone
<1>2. ConfirmationReads <= Cardinality(its) /\ ConfirmationReads \in Nat
    BY StableZoneReads, LimitsAssumption DEF ReadCount
<1>3. \A i \in its : ZoneOf[reads[i]] = z
    BY DEF ReadsAt
<1> HIDE DEF its
<1>4. PICK T \in SUBSET its : IsFiniteSet(T) /\ Cardinality(T) = ConfirmationReads
    BY <1>1, <1>2, SubsetOfSize
<1> DEFINE es == {reads[i] : i \in T}
           g == [i \in T |-> reads[i]]
<1>5. \A i \in T : i \in its /\ reads[i] \in Event /\ reads[i] \in Entries(reads)
    BY <1>1, <1>4
<1>6. g \in Bijection(T, es)
    <2>1. g \in [T -> es] /\ \A x \in es : \E i \in T : g[i] = x
        OBVIOUS
    <2>2. \A i, j \in T : g[i] = g[j] => i = j
        BY <1>1, <1>4 DEF Distinct
    <2> HIDE DEF g, es
    <2> QED BY <2>1, <2>2 DEF Bijection, Injection, Surjection, IsInjective
<1>7. Cardinality(es) = ConfirmationReads
    <2> HIDE DEF g, es
    <2> QED BY <1>4, <1>6, FS_Bijection DEF ExistsBijection
<1>8. es \in SUBSET {e \in Event : EpcOf[e] = c /\ ZoneOf[e] = z /\ e \in P}
    BY <1>3, <1>5
<1>9. \A e, f \in es : ObservedAt[e] <= ObservedAt[f] + Window
    BY <1>5
<1> HIDE DEF es
<1> QED BY <1>7, <1>8, <1>9 DEF Confirmed

\* After a move, e's read is processed with the rest of the evidence for it.
LEMMA MovedOn ==
    ASSUME EvidenceInv, [Next]_vars, NEW e \in Event, NEW z \in Zone, Moved(e, z)
    PROVE  /\ Evidence(e) \in Seq(Event) /\ Distinct(Evidence(e))
           /\ z \in StableZones(Evidence(e)) \ {NoZone}
           /\ \A x, y \in Entries(Evidence(e)) : ObservedAt[x] <= ObservedAt[y] + Window
           /\ \A x \in Entries(Evidence(e)) :
                x \in Event /\ EpcOf[x] = EpcOf[e] /\ ledger'[x] = "PROCESSED"
<1>1. LedgerInv /\ TablesOK /\ MemoryOK(memory) /\ ProcessedReads
    BY DEF EvidenceInv, LedgerInv
<1>2. ledger[e] = "PENDING" /\ ledger'[e] = "PROCESSED"
    BY <1>1 DEF Moved, Working, AdvanceBatch, TablesOK
<1>3. /\ Evidence(e) \in Seq(Event) /\ Distinct(Evidence(e))
      /\ \A x, y \in Entries(Evidence(e)) : ObservedAt[x] <= ObservedAt[y] + Window
      /\ \A x \in Entries(Evidence(e)) :
            EpcOf[x] = EpcOf[e] /\ (x = e \/ ledger[x] = "PROCESSED")
    BY <1>1, <1>2, EvidenceReads
<1>4. Entries(Evidence(e)) \subseteq Event
    BY <1>3, EntriesOf
<1>5. \A x \in Entries(Evidence(e)) : ledger'[x] = "PROCESSED"
    BY <1>1, <1>2, <1>3, <1>4, ProcessedStep
<1>6. z \in StableZones(Evidence(e)) \ {NoZone}
    BY DEF Moved, Decisions
<1> QED BY <1>3, <1>4, <1>5, <1>6

LEMMA EvidenceNext ==
    ASSUME EvidenceInv, [Next]_vars
    PROVE  EvidenceInv'
<1>1. LedgerInv /\ MemoryOK(memory) /\ ItemsOK /\ ProcessedReads /\ LocationIsConfirmed
    BY DEF EvidenceInv
<1>2. LedgerInv' /\ MemoryOK(memory)' /\ ItemsOK' /\ ProcessedReads'
    BY <1>1, NextTouchesTables, LedgerNext, MemoryNextOK, ItemsNext, ProcessedReadsNext
<1>3. Processed \subseteq Processed'
    BY <1>1, ProcessedStep DEF Processed
<1>4. ASSUME NEW c \in Epc, item'[c].zone # NoZone
      PROVE  Confirmed(c, item'[c].zone, Processed')
    <2>1. CASE item'[c].zone = item[c].zone
        <3>1. Confirmed(c, item[c].zone, Processed)
            BY <1>1, <1>4, <2>1, LocationIs
        <3> QED BY <1>3, <2>1, <3>1, ConfirmedStays
    <2>2. ASSUME NEW e \in Event, NEW z \in Zone, Moved(e, z), EpcOf[e] = c,
                 item'[c].zone = z
          PROVE  Confirmed(c, item'[c].zone, Processed')
        <3> DEFINE reads == Evidence(e)
                   P == {x \in Event : ledger'[x] = "PROCESSED"}
        <3>1. /\ reads \in Seq(Event) /\ Distinct(reads)
              /\ z \in StableZones(reads) \ {NoZone}
              /\ \A x, y \in Entries(reads) : ObservedAt[x] <= ObservedAt[y] + Window
              /\ \A x \in Entries(reads) : EpcOf[x] = c /\ x \in P
            BY <2>2, MovedOn
        <3>2. P = Processed'
            BY DEF Processed
        <3> HIDE DEF reads, P
        <3>3. Confirmed(c, z, P)
            BY <3>1, DecisionIsConfirmed
        <3> QED BY <2>2, <3>2, <3>3
    <2>3. ItemStep
        BY <1>1, NextTouchesItems
    <2> QED BY <1>1, <1>4, <2>1, <2>2, <2>3, ZoneStep
<1>5. LocationIsConfirmed'
    <2>1. \A c \in Epc : item'[c].zone # NoZone => Confirmed(c, item'[c].zone, Processed')
        BY <1>4
    <2>2. \A c : {e \in Event : EpcOf[e] = c /\ ZoneOf[e] = item'[c].zone /\ e \in Processed'}
                 = {e \in Event : /\ EpcOf[e] = c
                                  /\ ZoneOf[e] = item'[c].zone
                                  /\ ledger'[e] = "PROCESSED"}
        BY DEF Processed
    <2> QED BY <2>1, <2>2 DEF LocationIsConfirmed, Confirmed
<1> QED BY <1>2, <1>5 DEF EvidenceInv

LEMMA EvidenceInit == Init => EvidenceInv
<1> SUFFICES ASSUME Init PROVE EvidenceInv
    OBVIOUS
<1>1. LedgerInv /\ MemoryOK(memory)
    BY LedgerInit, EmptyMemoryOK DEF Init
<1>2. NoItem \in Item /\ NoItem.zone = NoZone
    BY DEF NoItem, Item
<1>3. ItemsOK /\ LocationIsConfirmed
    BY <1>2 DEF Init, ItemsOK, LocationIsConfirmed
<1>4. ProcessedReads
    BY EmptyMemoryOK DEF Init, ProcessedReads, Entries
<1> QED BY <1>1, <1>3, <1>4 DEF EvidenceInv

\* An item is where enough distinct processed reads, close to each other in time, saw
\* it (LocationIsConfirmed).
THEOREM LocationsAreConfirmed == Spec => []LocationIsConfirmed
<1>1. EvidenceInv => LocationIsConfirmed
    BY DEF EvidenceInv
<1> QED BY EvidenceInit, EvidenceNext, <1>1, PTL DEF Spec

\* A move rests on evidence as recent as anything processed about the item before
\* (MovesFollowTheNewestEvidence), however the stored time lags behind.
THEOREM MovesAreRecent == Spec => MovesFollowTheNewestEvidence
<1> DEFINE Step == \A c \in Epc :
        (item'[c].zone # item[c].zone /\ item'[c].zone # NoZone) =>
            \E e \in Event :
                /\ EpcOf[e] = c /\ ZoneOf[e] = item'[c].zone
                /\ ledger'[e] = "PROCESSED"
                /\ \A f \in Event :
                    (EpcOf[f] = c /\ ledger[f] = "PROCESSED")
                        => ObservedAt[f] <= ObservedAt[e]
<1>1. ASSUME EvidenceInv, [Next]_vars PROVE Step
    <2> SUFFICES ASSUME NEW c \in Epc, item'[c].zone # item[c].zone, item'[c].zone # NoZone
                 PROVE  \E e \in Event :
                            /\ EpcOf[e] = c /\ ZoneOf[e] = item'[c].zone
                            /\ ledger'[e] = "PROCESSED"
                            /\ \A f \in Event :
                                (EpcOf[f] = c /\ ledger[f] = "PROCESSED")
                                    => ObservedAt[f] <= ObservedAt[e]
        OBVIOUS
    <2>1. ItemsOK /\ MemoryOK(memory) /\ ProcessedReads
        BY <1>1 DEF EvidenceInv
    <2>2. ItemStep
        BY <1>1, <2>1, NextTouchesItems
    <2>3. PICK e \in Event, z \in Zone : Moved(e, z) /\ EpcOf[e] = c /\ item'[c].zone = z
        BY <2>1, <2>2, ZoneStep
    <2> DEFINE reads == Evidence(e)
    <2>4. /\ reads \in Seq(Event) /\ z \in StableZones(reads) \ {NoZone}
          /\ \A x \in Entries(reads) : EpcOf[x] = c /\ ledger'[x] = "PROCESSED"
        BY <1>1, <2>3, MovedOn
    <2>5. DecidedAt(reads, z) >= Watermark(c)
        BY <2>3 DEF Moved, Decisions
    <2> HIDE DEF reads
    <2>6. PICK i \in ReadsAt(reads, z) : DecidedAt(reads, z) = ObservedAt[reads[i]]
        BY <2>4, StableZoneReads
    <2>7. reads[i] \in Event /\ reads[i] \in Entries(reads) /\ ZoneOf[reads[i]] = z
        BY <2>4, <2>6, ReadsOfZone DEF ReadsAt
    <2>8. /\ Watermark(c) \in Nat
          /\ \A f \in Event : (EpcOf[f] = c /\ ledger[f] = "PROCESSED")
                                    => ObservedAt[f] <= Watermark(c)
        BY <2>1, WatermarkIsLast
    <2>9. ASSUME NEW f \in Event, EpcOf[f] = c, ledger[f] = "PROCESSED"
          PROVE  ObservedAt[f] <= ObservedAt[reads[i]]
        <3>1. ObservedAt[f] \in Nat /\ ObservedAt[reads[i]] \in Nat
            BY <2>7, ObservationAssumption
        <3>2. ObservedAt[f] <= Watermark(c) /\ ObservedAt[reads[i]] >= Watermark(c)
            BY <2>5, <2>6, <2>8, <2>9
        <3> QED BY <2>8, <3>1, <3>2
    <2> QED BY <2>3, <2>4, <2>7, <2>9
<1>2. EvidenceInv /\ [Next]_vars => [Step]_vars
    BY <1>1
<1> HIDE DEF Step
<1>3. Spec => [][Step]_vars
    BY EvidenceInit, EvidenceNext, <1>2, PTL DEF Spec
<1>4. [][Step]_vars => MovesFollowTheNewestEvidence
    BY PTL DEF Step, MovesFollowTheNewestEvidence
<1> QED BY <1>3, <1>4

-----------------------------------------------------------------------------
(* The types of everything else.                                            *)

RestOK ==
    /\ todo \in Seq(Event)
    /\ binding \in [Epc -> Time \cup {0}]
    /\ deviceActive \in BOOLEAN
    /\ restarts \in 0..MaxRestarts /\ replays \in 0..MaxReplays

LEMMA RestNext ==
    ASSUME RestOK, LedgerInv, [Next]_vars
    PROVE  RestOK'
<1>1. <<>> \in Seq(Event) /\ (todo # <<>> => Tail(todo) \in Seq(Event))
    BY TailEntries, EmptySeq DEF RestOK
<1>2. CASE BeginPass
    <2>1. accepted \in Seq(Event)
        BY DEF LedgerInv, TablesOK
    <2>2. todo' \in Seq(Event)
        BY <1>2, <2>1, FilterFacts DEF BeginPass
    <2> QED BY <1>2, <2>2 DEF BeginPass, RestOK, envVars
<1>3. ASSUME NEW e \in Event, NEW ack \in BOOLEAN, NEW ws, Working(e),
             EndTransaction(e, ws, ack)
      PROVE  RestOK'
    BY <1>1, <1>3 DEF Working, EndTransaction, RestOK, envVars
<1>4. ASSUME NEW e \in Event, NEW ack \in BOOLEAN, ProcessObservation(e, ack)
      PROVE  RestOK'
    BY <1>3, <1>4 DEF ProcessObservation, ObserveIgnored, ObserveRejected, ObserveAmbiguous,
        ObserveSameZone, ObserveMove, NoEvidence, Current
<1>5. ASSUME NEW e \in Event,
             AttemptFails(e) \/ AttemptsExhausted(e) \/ AttemptUncounted(e)
      PROVE  RestOK'
    BY <1>1, <1>5
    DEF AttemptFails, AttemptsExhausted, AttemptUncounted, Working, RestOK, envVars
<1>6. CASE Handle
    BY <1>4, <1>5, <1>6 DEF Handle
<1>7. CASE WorkerRestarts
    BY <1>1, <1>7, PipelineAssumption DEF WorkerRestarts, RestOK
<1>8. CASE \E e \in Event : Replay(e)
    BY <1>8, PipelineAssumption DEF Replay, RestOK
<1>9. CASE \E c \in Epc, at \in Time : BindEpc(c, at)
    BY <1>9 DEF BindEpc, RestOK
<1>10. CASE DeviceStatusChanges
    BY <1>10, PipelineAssumption DEF DeviceStatusChanges, RestOK
<1>11. CASE UNCHANGED vars
    BY <1>11 DEF vars, RestOK, envVars
<1>12. CASE (\E c \in Epc : AcceptAuthoritativeRemoval(c))
            \/ (\E b \in Batch, es \in Requests, at \in 0..Cardinality(Event) :
                    AcceptObservationBatch(b, es, at))
    BY <1>12 DEF AcceptAuthoritativeRemoval, AcceptObservationBatch, RestOK, envVars
<1> QED BY <1>2, <1>5, <1>6, <1>7, <1>8, <1>9, <1>10, <1>11, <1>12 DEF Next

\* Every variable keeps its type: the tables, the memory within its two limits, and the
\* evidence whose times the items take.
THEOREM TypeCorrect == Spec => []TypeOK
<1>1. Init => BatchInv /\ EvidenceInv /\ RestOK
    <2>1. Init => RestOK
        BY PipelineAssumption, EmptySeq DEF Init, RestOK
    <2> QED BY <2>1, BatchInit, EvidenceInit
<1>2. BatchInv /\ EvidenceInv /\ RestOK /\ [Next]_vars => BatchInv' /\ EvidenceInv' /\ RestOK'
    BY NextTouchesTables, BatchNext, EvidenceNext, RestNext DEF BatchInv
<1>3. BatchInv /\ EvidenceInv /\ RestOK => TypeOK
    BY DEF BatchInv, LedgerInv, TablesOK, LinkRow, EvidenceInv, MemoryOK, IdsOK, WindowsOK,
        Keyed, WindowRow, ItemsOK, RestOK, TypeOK
<1> QED BY <1>1, <1>2, <1>3, PTL DEF Spec

=============================================================================
