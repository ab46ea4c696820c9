----------------------------- MODULE Runtime_proofs -----------------------------
(* The run of a turn, from the delivery to the tools: what is proved of the subagent
   batch, the gateway, the worker pool and the tool loop, for every value of their
   constants. The four modules share no variable and no name; they are extended
   together so that the lemmas about sublists are stated once.

   Sublists     what Pick keeps, and how often an element occurs
   Batch        EachTaskOnce, OutcomeAgrees, FinishedIsFinal
   Gateway      ActiveIffRunning, ClaimsAreSettled
   Pool         StrangersAnswerOnlyAfterFailure
   Tool loop    EveryCallIsAnswered, SpendingIsBounded, NoHopelessRetry,
                WritesAreBarriers *)
EXTENDS SubagentBatch, ToolRuntime, GatewayTurns, WorkerPool,
        FiniteSetTheorems, SequenceTheorems, WellFoundedInduction, TLAPS

-----------------------------------------------------------------------------
(* Sublists. *)

\* The ranks of a finite set of numbers are 1, 2, ... in their order.
LEMMA RanksInOrder ==
    ASSUME NEW I \in SUBSET Nat, IsFiniteSet(I)
    PROVE  /\ Cardinality(I) \in Nat
           /\ \A i \in I : Rank(i, I) \in 1..Cardinality(I)
           /\ \A i, j \in I : i < j => Rank(i, I) < Rank(j, I)
           /\ \A n \in 1..Cardinality(I) : \E i \in I : Rank(i, I) = n
<1> DEFINE upTo(i) == {j \in I : j <= i}
<1>1. \A i \in I : IsFiniteSet(upTo(i)) /\ Cardinality(upTo(i)) <= Cardinality(I)
                   /\ Cardinality(upTo(i)) \in Nat
  <2> TAKE i \in I
  <2>1. upTo(i) \in SUBSET I
    OBVIOUS
  <2> HIDE DEF upTo
  <2> QED
    BY <2>1, FS_Subset, FS_CardinalityType
<1>2. Cardinality(I) \in Nat
  BY FS_CardinalityType
<1>3. \A i \in I : Cardinality(upTo(i)) >= 1
  <2> TAKE i \in I
  <2>1. {i} \in SUBSET upTo(i)
    OBVIOUS
  <2> HIDE DEF upTo
  <2>2. Cardinality({i}) = 1 /\ Cardinality({i}) <= Cardinality(upTo(i))
    BY <1>1, <2>1, FS_Subset, FS_Singleton
  <2> QED
    BY <1>1, <2>2
<1>4. \A i, j \in I : i < j => Cardinality(upTo(i)) < Cardinality(upTo(j))
  <2> SUFFICES ASSUME NEW i \in I, NEW j \in I, i < j
               PROVE  Cardinality(upTo(i)) < Cardinality(upTo(j))
    OBVIOUS
  <2>0. i \in Nat /\ j \in Nat /\ \A k \in I : k \in Nat
    OBVIOUS
  <2>1. upTo(i) \cup {j} \in SUBSET upTo(j) /\ j \notin upTo(i)
    <3>1. \A k \in upTo(i) : k \in upTo(j)
      BY <2>0
    <3>2. j \in upTo(j) /\ j \notin upTo(i)
      BY <2>0
    <3> HIDE DEF upTo
    <3> QED
      BY <3>1, <3>2
  <2> HIDE DEF upTo
  <2>2. Cardinality(upTo(i) \cup {j}) = Cardinality(upTo(i)) + 1
    BY <1>1, <2>1, FS_AddElement
  <2>3. Cardinality(upTo(i) \cup {j}) <= Cardinality(upTo(j))
    BY <1>1, <2>1, FS_Subset
  <2> QED
    BY <1>1, <2>2, <2>3
<1>5. \A n \in 1..Cardinality(I) : \E i \in I : Cardinality(upTo(i)) = n
  <2> DEFINE T == 1..Cardinality(I)
             f == [i \in I |-> Cardinality(upTo(i))]
  <2> HIDE DEF upTo
  <2>1. f \in [I -> T]
    BY <1>1, <1>2, <1>3
  <2>2. \A i, j \in I : f[i] = f[j] => i = j
    <3> SUFFICES ASSUME NEW i \in I, NEW j \in I, i # j PROVE f[i] # f[j]
      OBVIOUS
    <3>1. i < j \/ j < i
      OBVIOUS
    <3> QED
      BY <1>1, <1>4, <3>1
  <2>3. f \in Injection(I, T)
    BY <2>1, <2>2 DEF Injection, IsInjective
  <2>4. IsFiniteSet(T) /\ Cardinality(T) = Cardinality(I)
    <3> DEFINE n == Cardinality(I)
    <3>1. n \in Nat
      BY <1>2
    <3> HIDE DEF n
    <3>2. IsFiniteSet(1..n) /\ Cardinality(1..n) = n
      BY <3>1, FS_Interval
    <3> QED
      BY <3>2 DEF n
  <2> HIDE DEF T, f
  <2>5. f \in Surjection(I, T)
    BY <2>3, <2>4, FS_Injection
  <2>6. \A n \in T : \E i \in I : f[i] = n
    BY <2>5 DEF Surjection
  <2> QED
    BY <2>6 DEF T, f
<1>6. \A i \in I : Rank(i, I) = Cardinality(upTo(i))
  BY DEF Rank
<1> HIDE DEF upTo
<1> QED
  BY <1>1, <1>2, <1>3, <1>4, <1>5, <1>6

\* A choice of positions keeps their elements, and nothing else.
LEMMA PickShape ==
    ASSUME NEW S, NEW s \in Seq(S), NEW I \in SUBSET DOMAIN s
    PROVE  /\ IsFiniteSet(I) /\ Cardinality(I) \in Nat
           /\ Pick(s, I) \in Seq(S) /\ Len(Pick(s, I)) = Cardinality(I)
           /\ DOMAIN Pick(s, I) = 1..Cardinality(I)
           /\ \A i \in I : Rank(i, I) \in 1..Cardinality(I) /\ Pick(s, I)[Rank(i, I)] = s[i]
           /\ \A n \in 1..Cardinality(I) : \E i \in I : Rank(i, I) = n /\ Pick(s, I)[n] = s[i]
<1>1. DOMAIN s = 1..Len(s) /\ Len(s) \in Nat /\ \A i \in DOMAIN s : s[i] \in S
  OBVIOUS
<1>2. IsFiniteSet(I) /\ I \subseteq Nat
  <2>1. IsFiniteSet(1..Len(s))
    BY <1>1, FS_Interval
  <2> QED
    BY <1>1, <2>1, FS_Subset
<1>3. /\ Cardinality(I) \in Nat
      /\ \A i \in I : Rank(i, I) \in 1..Cardinality(I)
      /\ \A i, j \in I : i < j => Rank(i, I) < Rank(j, I)
      /\ \A n \in 1..Cardinality(I) : \E i \in I : Rank(i, I) = n
  BY <1>2, RanksInOrder
<1>4. \A i, j \in I : Rank(i, I) = Rank(j, I) => i = j
  <2> SUFFICES ASSUME NEW i \in I, NEW j \in I, i # j PROVE Rank(i, I) # Rank(j, I)
    OBVIOUS
  <2>1. i < j \/ j < i
    BY <1>2
  <2> QED
    BY <1>3, <2>1
<1> DEFINE at(n) == CHOOSE i \in I : Rank(i, I) = n
<1>5. \A n \in 1..Cardinality(I) : at(n) \in I /\ Rank(at(n), I) = n
  BY <1>3
<1>6. \A i \in I : at(Rank(i, I)) = i
  <2> TAKE i \in I
  <2>1. at(Rank(i, I)) \in I /\ Rank(at(Rank(i, I)), I) = Rank(i, I)
    BY <1>3, <1>5
  <2> HIDE DEF at
  <2> QED
    BY <1>4, <2>1
<1>7. Pick(s, I) = [n \in 1..Cardinality(I) |-> s[at(n)]]
  BY DEF Pick
<1> HIDE DEF at
<1>8. \A n \in 1..Cardinality(I) : s[at(n)] \in S
  BY <1>1, <1>5
<1>9. Pick(s, I) \in Seq(S) /\ Len(Pick(s, I)) = Cardinality(I)
  <2> DEFINE n == Cardinality(I)
             g == [k \in 1..n |-> s[at(k)]]
  <2>1. n \in Nat /\ g \in [1..n -> S]
    BY <1>3, <1>8
  <2> HIDE DEF n
  <2>2. g \in Seq(S) /\ Len(g) = n
    BY <2>1
  <2> QED
    BY <1>7, <2>2 DEF n
<1> QED
  BY <1>2, <1>3, <1>5, <1>6, <1>7, <1>9

\* The numbers up to n are n.
LEMMA UpTo == \A n \in Nat : IsFiniteSet(1..n) /\ Cardinality(1..n) = n
<1> TAKE n \in Nat
<1>1. IsFiniteSet(1..n) /\ Cardinality(1..n) = IF 1 > n THEN 0 ELSE n - 1 + 1
  BY FS_Interval
<1> QED
  BY <1>1

\* A set of numbers that holds whatever is below its elements is an interval: its ranks are
\* the numbers themselves, and those of the rest are shifted.
LEMMA RanksOfInterval ==
    ASSUME NEW n \in Nat, NEW k \in 0..n
    PROVE  /\ IsFiniteSet(1..k) /\ Cardinality(1..k) = k
           /\ \A i \in 1..k : Rank(i, 1..k) = i
           /\ IsFiniteSet((1..n) \ (1..k)) /\ Cardinality((1..n) \ (1..k)) = n - k
           /\ \A i \in (1..n) \ (1..k) : Rank(i, (1..n) \ (1..k)) = i - k
<1>1. k \in Nat /\ k <= n /\ 1 \in Int
  OBVIOUS
<1>2. IsFiniteSet(1..k) /\ Cardinality(1..k) = k
  BY <1>1, FS_Interval
<1>3. ASSUME NEW i \in 1..k PROVE Rank(i, 1..k) = i
  <2>1. {j \in 1..k : j <= i} = 1..i /\ i \in Nat /\ i >= 1
    BY <1>1
  <2>2. Cardinality(1..i) = i
    BY <1>1, <2>1, FS_Interval
  <2> QED
    BY <2>1, <2>2 DEF Rank
<1>4. (1..n) \ (1..k) = (k + 1)..n
  BY <1>1
<1>5. IsFiniteSet((k + 1)..n) /\ Cardinality((k + 1)..n) = n - k
  <2>1. k + 1 \in Int /\ n \in Int
    BY <1>1
  <2>2. IsFiniteSet((k + 1)..n) /\ Cardinality((k + 1)..n) = IF k + 1 > n THEN 0 ELSE n - (k + 1) + 1
    BY <2>1, FS_Interval
  <2>3. (IF k + 1 > n THEN 0 ELSE n - (k + 1) + 1) = n - k
    BY <1>1
  <2> QED
    BY <2>2, <2>3
<1>6. ASSUME NEW i \in (k + 1)..n PROVE Rank(i, (k + 1)..n) = i - k
  <2>1. {j \in (k + 1)..n : j <= i} = (k + 1)..i /\ i \in Int /\ k + 1 \in Int /\ k + 1 <= i
    BY <1>1
  <2>2. Cardinality((k + 1)..i) = i - (k + 1) + 1
    BY <2>1, FS_Interval
  <2>3. Rank(i, (k + 1)..n) = Cardinality((k + 1)..i)
    BY <2>1 DEF Rank
  <2>4. i - (k + 1) + 1 = i - k
    BY <1>1, <2>1
  <2> QED
    BY <2>2, <2>3, <2>4
<1> QED
  BY <1>2, <1>3, <1>4, <1>5, <1>6

\* Picking a prefix, or what is left by one, is SubSeq.
LEMMA PickPrefix ==
    ASSUME NEW S, NEW s \in Seq(S), NEW k \in 0..Len(s)
    PROVE  /\ Pick(s, 1..k) \in Seq(S) /\ Len(Pick(s, 1..k)) = k
           /\ \A i \in 1..k : Pick(s, 1..k)[i] = s[i]
           /\ Pick(s, (1..Len(s)) \ (1..k)) \in Seq(S)
           /\ Len(Pick(s, (1..Len(s)) \ (1..k))) = Len(s) - k
           /\ \A i \in 1..(Len(s) - k) : Pick(s, (1..Len(s)) \ (1..k))[i] = s[k + i]
<1> DEFINE n == Len(s)
           I == 1..k
           R == (1..n) \ (1..k)
<1>1. n \in Nat /\ k \in 0..n /\ k \in Nat /\ k <= n /\ DOMAIN s = 1..n
  OBVIOUS
<1>2. I \in SUBSET DOMAIN s /\ R \in SUBSET DOMAIN s
  BY <1>1
<1>m. /\ \A i \in 1..k : i \in I
      /\ \A i \in 1..(n - k) : k + i \in R /\ (k + i) - k = i
  BY <1>1
<1> HIDE DEF n
<1>3. /\ Cardinality(I) = k /\ \A i \in I : Rank(i, I) = i
      /\ Cardinality(R) = n - k /\ \A i \in R : Rank(i, R) = i - k
  BY <1>1, RanksOfInterval
<1> HIDE DEF I, R
<1>4. /\ Pick(s, I) \in Seq(S) /\ Len(Pick(s, I)) = Cardinality(I)
      /\ \A i \in I : Pick(s, I)[Rank(i, I)] = s[i]
  BY <1>2, PickShape
<1>5. /\ Pick(s, R) \in Seq(S) /\ Len(Pick(s, R)) = Cardinality(R)
      /\ \A i \in R : Pick(s, R)[Rank(i, R)] = s[i]
  BY <1>2, PickShape
<1>6. \A i \in 1..k : Pick(s, I)[i] = s[i]
  BY <1>3, <1>4, <1>m
<1>7. ASSUME NEW i \in 1..(n - k) PROVE Pick(s, R)[i] = s[k + i]
  <2>1. k + i \in R /\ Rank(k + i, R) = i
    BY <1>3, <1>m
  <2> QED
    BY <1>5, <2>1, Zenon
<1>8. Pick(s, I) \in Seq(S) /\ Len(Pick(s, I)) = k
  BY <1>3, <1>4
<1>9. Pick(s, R) \in Seq(S) /\ Len(Pick(s, R)) = n - k
  BY <1>3, <1>5
<1>10. /\ I = 1..k /\ R = (1..Len(s)) \ (1..k) /\ n = Len(s)
  BY DEF I, R, n
<1> QED
  BY <1>6, <1>7, <1>8, <1>9, <1>10, Zenon

\* An element occurs at most as often as the sequence is long.
LEMMA OccurrencesBound ==
    ASSUME NEW S, NEW s \in Seq(S), NEW x
    PROVE  /\ IsFiniteSet(Positions(s, x)) /\ Positions(s, x) \subseteq 1..Len(s)
           /\ Occurrences(s, x) \in Nat /\ Occurrences(s, x) <= Len(s)
           /\ Len(s) = 0 => Occurrences(s, x) = 0
<1>1. Len(s) \in Nat /\ DOMAIN s = 1..Len(s)
  OBVIOUS
<1>2. IsFiniteSet(1..Len(s)) /\ Cardinality(1..Len(s)) = Len(s)
  BY <1>1, FS_Interval
<1>3. Positions(s, x) \in SUBSET (1..Len(s))
  BY <1>1 DEF Positions
<1>4. IsFiniteSet(Positions(s, x)) /\ Cardinality(Positions(s, x)) <= Len(s)
  BY <1>2, <1>3, FS_Subset
<1>5. Cardinality(Positions(s, x)) \in Nat
  BY <1>4, FS_CardinalityType
<1> QED
  BY <1>1, <1>3, <1>4, <1>5 DEF Occurrences

\* A sublist has the occurrences of an element at the positions it was picked from.
LEMMA OccurrencesOfPick ==
    ASSUME NEW S, NEW s \in Seq(S), NEW I \in SUBSET DOMAIN s, NEW x
    PROVE  /\ IsFiniteSet({i \in I : s[i] = x})
           /\ Occurrences(Pick(s, I), x) = Cardinality({i \in I : s[i] = x})
<1> DEFINE J == {i \in I : s[i] = x}
           P == Positions(Pick(s, I), x)
           f == [i \in J |-> Rank(i, I)]
<1>1. /\ IsFiniteSet(I) /\ Cardinality(I) \in Nat
      /\ DOMAIN Pick(s, I) = 1..Cardinality(I)
      /\ \A i \in I : Rank(i, I) \in 1..Cardinality(I) /\ Pick(s, I)[Rank(i, I)] = s[i]
      /\ \A n \in 1..Cardinality(I) : \E i \in I : Rank(i, I) = n /\ Pick(s, I)[n] = s[i]
  BY PickShape
<1>2. I \subseteq Nat
  <2>1. DOMAIN s = 1..Len(s)
    OBVIOUS
  <2> QED
    BY <2>1
<1>3. \A i, j \in I : Rank(i, I) = Rank(j, I) => i = j
  <2>1. \A i, j \in I : i < j => Rank(i, I) < Rank(j, I)
    BY <1>1, <1>2, RanksInOrder
  <2> SUFFICES ASSUME NEW i \in I, NEW j \in I, i # j PROVE Rank(i, I) # Rank(j, I)
    OBVIOUS
  <2>2. i < j \/ j < i
    BY <1>2
  <2> QED
    BY <1>1, <2>1, <2>2
<1>4. P = {n \in 1..Cardinality(I) : Pick(s, I)[n] = x}
  BY <1>1 DEF Positions
<1>5. J \in SUBSET I /\ \A i \in I : i \in J <=> s[i] = x
  OBVIOUS
<1>6. IsFiniteSet(J)
  BY <1>1, <1>5, FS_Subset
<1> HIDE DEF J, P
<1>7. \A i \in J : Rank(i, I) \in P
  BY <1>1, <1>4, <1>5
<1>8. \A n \in P : \E i \in J : Rank(i, I) = n
  BY <1>1, <1>4, <1>5
<1>9. f \in Bijection(J, P)
  <2>1. f \in [J -> P]
    BY <1>7
  <2>2. \A i, j \in J : f[i] = f[j] => i = j
    BY <1>3, <1>5
  <2>3. \A n \in P : \E i \in J : f[i] = n
    BY <1>8
  <2> HIDE DEF f
  <2> QED
    BY <2>1, <2>2, <2>3 DEF Bijection, Injection, Surjection, IsInjective
<1>10. Cardinality(P) = Cardinality(J)
  BY <1>6, <1>9, FS_Bijection DEF ExistsBijection
<1> QED
  BY <1>6, <1>10 DEF Occurrences, J, P

\* A sublist and the rest of the sequence share the occurrences between them.
LEMMA OccurrencesSplit ==
    ASSUME NEW S, NEW s \in Seq(S), NEW I \in SUBSET DOMAIN s, NEW x
    PROVE  Occurrences(s, x)
             = Occurrences(Pick(s, I), x) + Occurrences(Pick(s, (1..Len(s)) \ I), x)
<1> DEFINE R == (1..Len(s)) \ I
           J == {i \in I : s[i] = x}
           K == {i \in R : s[i] = x}
           P == Positions(s, x)
<1>1. DOMAIN s = 1..Len(s) /\ R \in SUBSET DOMAIN s
  OBVIOUS
<1>2. P \cap J = J /\ P \ J = K
  BY <1>1 DEF Positions
<1>3. IsFiniteSet(P) /\ Cardinality(P) \in Nat
  BY OccurrencesBound DEF Occurrences
<1>4. IsFiniteSet(J) /\ Occurrences(Pick(s, I), x) = Cardinality(J)
  BY OccurrencesOfPick
<1> HIDE DEF R
<1>5. Occurrences(Pick(s, R), x) = Cardinality(K)
  <2>1. R \in SUBSET DOMAIN s
    BY <1>1
  <2> QED
    BY <2>1, OccurrencesOfPick
<1> HIDE DEF J, K, P
<1>6. Cardinality(P \ J) = Cardinality(P) - Cardinality(P \cap J)
  BY <1>3, FS_Difference
<1>7. Cardinality(J) \in Nat
  BY <1>4, FS_CardinalityType
<1>8. Occurrences(s, x) = Cardinality(P)
  BY DEF Occurrences, P
<1>9. Cardinality(K) = Cardinality(P) - Cardinality(J)
  BY <1>2, <1>6
<1>10. Cardinality(P) = Cardinality(J) + Cardinality(K)
  BY <1>3, <1>7, <1>9
<1> QED
  BY <1>4, <1>5, <1>8, <1>10 DEF R

\* Occurrences add up over a concatenation.
LEMMA OccurrencesOfConcat ==
    ASSUME NEW S, NEW a \in Seq(S), NEW b \in Seq(S), NEW x
    PROVE  Occurrences(a \o b, x) = Occurrences(a, x) + Occurrences(b, x)
<1> DEFINE s == a \o b
           k == Len(a)
<1>1. /\ s \in Seq(S) /\ Len(s) = Len(a) + Len(b) /\ Len(a) \in Nat /\ Len(b) \in Nat
      /\ \A i \in 1..Len(a) : s[i] = a[i]
      /\ \A i \in 1..Len(b) : s[Len(a) + i] = b[i]
  BY ConcatProperties
<1>2. k \in 0..Len(s) /\ Len(s) - k = Len(b) /\ 1..k \in SUBSET DOMAIN s
  <2>1. DOMAIN s = 1..Len(s)
    BY <1>1
  <2> HIDE DEF s
  <2> QED
    BY <1>1, <2>1
<1> HIDE DEF s
<1> DEFINE front == Pick(s, 1..k)
           back == Pick(s, (1..Len(s)) \ (1..k))
<1>p. /\ front \in Seq(S) /\ Len(front) = k /\ \A i \in 1..k : front[i] = s[i]
      /\ back \in Seq(S) /\ Len(back) = Len(s) - k
      /\ \A i \in 1..(Len(s) - k) : back[i] = s[k + i]
  <2> HIDE DEF k
  <2>1. k \in 0..Len(s)
    BY <1>2
  <2> QED
    BY <1>1, <2>1, PickPrefix
<1>3. /\ front \in Seq(S) /\ Len(front) = k /\ \A i \in 1..k : front[i] = s[i]
      /\ back \in Seq(S) /\ Len(back) = Len(b)
      /\ \A i \in 1..Len(b) : back[i] = s[k + i]
  BY <1>2, <1>p
<1>4. Occurrences(s, x) = Occurrences(front, x) + Occurrences(back, x)
  BY <1>1, <1>2, OccurrencesSplit
<1> HIDE DEF front, back
<1>5. front = a
  BY <1>1, <1>3, SeqEqual
<1>6. back = b
  BY <1>1, <1>3, SeqEqual
<1> QED
  BY <1>4, <1>5, <1>6 DEF s

\* Of a finite set of numbers, the last: it has the whole set up to it.
LEMMA LastOfAll ==
    ASSUME NEW U \in SUBSET Nat, IsFiniteSet(U), U # {}
    PROVE  \E i \in U : Cardinality({j \in U : j <= i}) = Cardinality(U)
<1>1. Cardinality(U) \in Nat /\ Cardinality(U) # 0
  BY FS_CardinalityType, FS_EmptySet
<1>2. Cardinality(U) \in 1..Cardinality(U)
  BY <1>1
<1> QED
  BY <1>2, RanksInOrder DEF Rank

\* What fails for some number fails for a first one.
LEMMA FirstOfAll ==
    ASSUME NEW U \in SUBSET Nat, U # {}
    PROVE  \E n \in U : \A m \in U : n <= m
<1>1. PICK n \in U : \A m \in U : ~(<<m, n>> \in OpToRel(<, Nat))
  BY NatLessThanWellFounded, WFMin
<1>2. \A m \in U : n <= m
  <2> SUFFICES ASSUME NEW m \in U PROVE n <= m
    OBVIOUS
  <2>1. n \in Nat /\ m \in Nat
    OBVIOUS
  <2>2. ~(m < n)
    BY <1>1, <2>1 DEF OpToRel
  <2> QED
    BY <2>1, <2>2
<1> QED
  BY <1>2
-----------------------------------------------------------------------------
(* Batch. *)

EventType == [child : 0..NumTasks, status : Statuses]

\* A worker awaits a task that was taken, that no other worker awaits, and whose
\* child runs.
Awaited ==
    \A w \in Workers : worker[w] \in Tasks =>
        /\ worker[w] <= cursor
        /\ job.children[worker[w]] = "running"
        /\ \A v \in Workers : worker[v] = worker[w] => v = w

\* The tasks taken are those below the cursor, each once.
TakenOnce == \A t \in Tasks : starts[t] = IF t <= cursor THEN 1 ELSE 0

\* As long as nothing threw, a task that was taken is awaited or recorded everywhere.
Recorded ==
    batch \in {"new", "mapping", "returned"} =>
        \A t \in Tasks : t <= cursor =>
            \/ \E w \in Workers : worker[w] = t
            \/ ended[t] \in Ends /\ results[t] = ended[t] /\ job.children[t] = ended[t]

\* Before the call nothing is taken; while it maps, a worker leaves only when no task
\* is left, and a finished job has no worker.
Phases ==
    /\ batch = "new" => cursor = 0 /\ \A w \in Workers : worker[w] = Ready
    /\ batch = "mapping" => \A w \in Workers : worker[w] = Stopped => cursor = NumTasks
    /\ job.completed \/ batch = "returned" =>
          /\ batch \in {"returned", "rejected"}
          /\ \A w \in Workers : worker[w] = Stopped
    /\ batch = "returned" =>
          /\ cursor = NumTasks
          /\ job.status = FinalStatus(job) /\ job.progress = Progress(job.children)

\* The question of the job is that of a child that needs the user.
Asked ==
    /\ job.askId # 0 => job.children[job.askId] = "needs-user" /\ job.askId <= cursor
    /\ \A t \in Tasks : job.children[t] = "needs-user" => t <= cursor /\ job.askId # 0

Inv == TypeOK /\ Awaited /\ TakenOnce /\ Recorded /\ Phases /\ Asked
-----------------------------------------------------------------------------
(* The operators on jobs. *)

\* There are workers, and no more than tasks.
LEMMA SomeWorkers == NumWorkers \in 1..NumTasks /\ 1 \in Workers /\ NumTasks \in Nat \ {0}
BY BatchAssumption DEF NumWorkers, Workers

\* The progress of a job counts at most the tasks.
LEMMA ProgressType ==
    ASSUME NEW children PROVE Progress(children) \in [Ends -> 0..NumTasks]
<1> SUFFICES ASSUME NEW s \in Ends PROVE Count(children, s) \in 0..NumTasks
  BY DEF Progress
<1>1. IsFiniteSet(Tasks) /\ Cardinality(Tasks) = NumTasks
  BY FS_Interval, SomeWorkers DEF Tasks
<1>2. {t \in Tasks : children[t] = s} \subseteq Tasks
  OBVIOUS
<1>3. /\ IsFiniteSet({t \in Tasks : children[t] = s})
      /\ Cardinality({t \in Tasks : children[t] = s}) <= Cardinality(Tasks)
  BY <1>1, <1>2, FS_Subset
<1> QED
  BY <1>1, <1>3, FS_CardinalityType, SomeWorkers DEF Count

\* Starting a child changes its status and the job's, and nothing else that matters.
LEMMA RunningShape ==
    ASSUME NEW j \in Jobs, NEW t \in Tasks
    PROVE  /\ WithChildRunning(j, t) \in Jobs
           /\ WithChildRunning(j, t).children = [j.children EXCEPT ![t] = "running"]
           /\ WithChildRunning(j, t).askId = j.askId
           /\ WithChildRunning(j, t).completed = j.completed
BY DEF WithChildRunning, Jobs, Statuses, Stages

\* Completing a child records its status and, when it needs the user, its question.
LEMMA DoneShape ==
    ASSUME NEW j \in Jobs, NEW t \in Tasks, NEW s \in Ends
    PROVE  /\ WithChildDone(j, t, s) \in Jobs
           /\ WithChildDone(j, t, s).children = [j.children EXCEPT ![t] = s]
           /\ WithChildDone(j, t, s).askId = IF s = "needs-user" THEN t ELSE j.askId
           /\ WithChildDone(j, t, s).completed = j.completed
<1> DEFINE children == [j.children EXCEPT ![t] = s]
<1>1. Progress(children) \in [Ends -> 0..NumTasks]
  BY ProgressType
<1>2. children \in [Tasks -> Statuses] /\ t \in 0..NumTasks
  BY SomeWorkers DEF Jobs, Statuses, Tasks
<1> HIDE DEF children
<1>3. WithChildDone(j, t, s)
      = [j EXCEPT !.children = children, !.progress = Progress(children),
                  !.askId = IF s = "needs-user" THEN t ELSE @,
                  !.stage = IF s = "needs-user" THEN "paused" ELSE @,
                  !.status = IF s = "needs-user" THEN "needs-user" ELSE @]
  BY DEF WithChildDone, children
<1>4. /\ WithChildDone(j, t, s).children = children
      /\ WithChildDone(j, t, s).askId = IF s = "needs-user" THEN t ELSE j.askId
      /\ WithChildDone(j, t, s).completed = j.completed
  BY <1>3 DEF Jobs
<1>5. WithChildDone(j, t, s) \in Jobs
  BY <1>1, <1>2, <1>3 DEF Jobs, Statuses, Stages, Ends
<1> QED
  BY <1>4, <1>5 DEF children

\* Finishing a job settles its status and progress and keeps its children.
LEMMA FinishedShape ==
    ASSUME NEW j \in Jobs
    PROVE  /\ Finished(j) \in Jobs
           /\ Finished(j).children = j.children
           /\ Finished(j).askId = j.askId
           /\ Finished(j).completed = TRUE
           /\ Finished(j).status = FinalStatus(j)
           /\ Finished(j).progress = Progress(j.children)
<1>1. Progress(j.children) \in [Ends -> 0..NumTasks]
  BY ProgressType
<1>2. FinalStatus(j) \in Ends
  BY DEF FinalStatus, Ends
<1>3. Finished(j) = [j EXCEPT !.status = FinalStatus(j), !.progress = Progress(j.children),
                              !.completed = TRUE,
                              !.stage = IF FinalStatus(j) = "needs-user" THEN "paused"
                                        ELSE "completed"]
  BY DEF Finished
<1> QED
  BY <1>1, <1>2, <1>3 DEF Jobs, Statuses, Stages

\* The status a job is finished with only looks at its children.
LEMMA FinalStatusOfChildren ==
    ASSUME NEW j, NEW k, j.children = k.children
    PROVE  FinalStatus(j) = FinalStatus(k)
BY DEF FinalStatus

\* Events of a job may be appended to a ledger.
LEMMA EventIsTyped ==
    ASSUME NEW j \in Jobs, NEW t \in 0..NumTasks PROVE Event(t, j) \in EventType
BY DEF Event, EventType, Jobs

\* Sequences of one and two elements, which the backends do not type by themselves.
LEMMA ShortSequences ==
    ASSUME NEW S, NEW a \in S, NEW b \in S
    PROVE  <<a>> \in Seq(S) /\ <<a, b>> \in Seq(S)
OBVIOUS

\* A run of the same event after a ledger is a ledger.
LEMMA AppendEvents ==
    ASSUME NEW log \in Seq(EventType), NEW e \in EventType, NEW k \in Nat
    PROVE  log \o [i \in 1..k |-> e] \in Seq(EventType)
<1>1. [i \in 1..k |-> e] \in Seq(EventType)
  BY SeqDef
<1> QED
  BY <1>1, ConcatProperties

\* What a completion does to the job, the histories and the ledger: the worker is
\* ready for its next task, or the append failed and the call is rejected.
LEMMA CompleteStep ==
    ASSUME TypeOK, NEW from \in Jobs, NEW w \in Workers, NEW t \in Tasks, NEW s \in Ends,
           NEW log \in Seq(EventType), NEW tools \in 0..1,
           Complete(w, t, s, from, log, tools)
    PROVE  /\ job' = WithChildDone(from, t, s)
           /\ ended' = [ended EXCEPT ![t] = s]
           /\ ledger' \in Seq(EventType)
           /\ faults' \in 0..MaxFaults
           /\ \/ /\ worker' = [worker EXCEPT ![w] = Ready]
                 /\ results' = [results EXCEPT ![t] = s]
                 /\ batch' = batch
              \/ /\ worker' = [worker EXCEPT ![w] = Stopped]
                 /\ results' = results
                 /\ batch' = "rejected"
<1> DEFINE pause == IF s = "needs-user" THEN 1 ELSE 0
           typed(k) == log \o [i \in 1..k |-> Event(t, job')]
<1>1. job' = WithChildDone(from, t, s) /\ ended' = [ended EXCEPT ![t] = s]
  BY DEF Complete
<1>2. job' \in Jobs /\ t \in 0..NumTasks
  <2>1. WithChildDone(from, t, s) \in Jobs
    BY DoneShape
  <2> QED
    BY <1>1, <2>1, SomeWorkers DEF Tasks
<1>3. ASSUME NEW k \in Nat PROVE typed(k) \in Seq(EventType)
  BY <1>2, EventIsTyped, AppendEvents
<1>4. PICK n \in 1 + pause .. 1 + pause + tools :
        \/ /\ ledger' = typed(n)
           /\ worker' = [worker EXCEPT ![w] = Ready]
           /\ results' = [results EXCEPT ![t] = s]
           /\ UNCHANGED <<batch, faults>>
        \/ /\ Fault /\ Reject(w) /\ UNCHANGED results
           /\ \E k \in 0..n - 1 : ledger' = typed(k)
  BY DEF Complete
<1>5. n \in Nat
  OBVIOUS
<1> HIDE DEF typed
<1>6. CASE /\ ledger' = typed(n)
           /\ worker' = [worker EXCEPT ![w] = Ready]
           /\ results' = [results EXCEPT ![t] = s]
           /\ UNCHANGED <<batch, faults>>
  BY <1>1, <1>3, <1>5, <1>6 DEF TypeOK
<1>7. CASE /\ Fault /\ Reject(w) /\ UNCHANGED results
           /\ \E k \in 0..n - 1 : ledger' = typed(k)
  <2>1. ledger' \in Seq(EventType)
    BY <1>3, <1>5, <1>7
  <2>2. faults' \in 0..MaxFaults
    BY <1>7, BatchAssumption DEF TypeOK, Fault
  <2> QED
    BY <1>1, <1>7, <2>1, <2>2 DEF Reject
<1> QED
  BY <1>4, <1>6, <1>7
-----------------------------------------------------------------------------
(* The invariant. *)

\* Before the call nothing is taken, recorded or asked.
LEMMA InitInv == Init => Inv
<1> SUFFICES ASSUME Init PROVE Inv
  OBVIOUS
<1> USE SomeWorkers
<1>1. TypeOK
  <2>1. NoJob \in Jobs
    BY DEF NoJob, Jobs, Statuses, Stages, Ends
  <2> QED
    BY <2>1, BatchAssumption DEF TypeOK, Init, Tasks
<1>2. Awaited /\ TakenOnce /\ Recorded
  BY DEF Init, Awaited, TakenOnce, Recorded, Tasks, Ready
<1>3. Phases /\ Asked
  BY DEF Init, Phases, Asked, NoJob
<1> QED
  BY <1>1, <1>2, <1>3 DEF Inv

\* Creating the job takes no task, whether its events are appended or not.
LEMMA BeginInv == Inv /\ Begin => Inv'
<1> SUFFICES ASSUME Inv, Begin PROVE Inv'
  OBVIOUS
<1> USE SomeWorkers DEF Inv
<1>1. /\ batch = "new" /\ cursor = 0 /\ \A w \in Workers : worker[w] = Ready
      /\ ~job.completed /\ job \in Jobs
  BY DEF Begin, Phases, TypeOK
<1>2. /\ job' \in Jobs /\ job'.children = job.children /\ job'.askId = job.askId
      /\ ~job'.completed
  <2>1. job' = job \/ job' = WithRunning(job)
    BY DEF Begin
  <2> QED
    BY <1>1, <2>1 DEF WithRunning, Jobs, Statuses, Stages
<1>3. /\ batch' \in {"mapping", "rejected"}
      /\ UNCHANGED <<cursor, launched, worker, results, starts, ended>>
  BY DEF Begin
<1>4. TypeOK'
  <2>1. Event(0, job) \in EventType /\ Event(0, job') \in EventType
    BY <1>1, <1>2, EventIsTyped
  <2> DEFINE first == Event(0, job)
             second == Event(0, job')
  <2> HIDE DEF first, second
  <2>4. ledger \in Seq(EventType) /\ first \in EventType /\ second \in EventType
    BY <2>1 DEF TypeOK, EventType, first, second
  <2>5. ledger' = ledger \/ ledger' = <<first>> \/ ledger' = <<first, second>>
    BY DEF Begin, first, second
  <2>6. <<first>> \in Seq(EventType) /\ <<first, second>> \in Seq(EventType)
    BY <2>4, ShortSequences
  <2>2. ledger' \in Seq(EventType)
    BY <2>4, <2>5, <2>6
  <2>3. faults' \in 0..MaxFaults
    BY BatchAssumption DEF Begin, Fault, TypeOK
  <2> QED
    BY <1>2, <1>3, <2>2, <2>3 DEF TypeOK, EventType
<1>5. Awaited' /\ TakenOnce' /\ Recorded'
  BY <1>1, <1>2, <1>3 DEF Awaited, TakenOnce, Recorded, Tasks, Ready
<1>6. Phases' /\ Asked'
  BY <1>1, <1>2, <1>3 DEF Phases, Asked, Ready, Stopped
<1> QED
  BY <1>4, <1>5, <1>6

\* The call is finished when every worker has left, so that every task was taken.
LEMMA FinishInv == Inv /\ Finish => Inv'
<1> SUFFICES ASSUME Inv, Finish PROVE Inv'
  OBVIOUS
<1> USE SomeWorkers DEF Inv
<1>1. /\ batch = "mapping" /\ \A w \in Workers : worker[w] = Stopped
      /\ job' = Finished(job) /\ job \in Jobs
      /\ UNCHANGED <<cursor, launched, worker, results, starts, ended>>
  BY DEF Finish, TypeOK
<1>2. /\ batch' \in {"returned", "rejected"} /\ cursor = NumTasks
  BY <1>1 DEF Finish, Phases
<1>3. /\ job' \in Jobs /\ job'.children = job.children /\ job'.askId = job.askId
      /\ job'.status = FinalStatus(job) /\ job'.progress = Progress(job.children)
  BY <1>1, FinishedShape
<1>4. TypeOK'
  <2>1. Event(0, job') \in EventType
    BY <1>3, EventIsTyped
  <2>2. ledger' \in Seq(EventType)
    <3>1. ledger \in Seq(EventType)
      BY DEF TypeOK, EventType
    <3>2. ledger' = ledger \/ ledger' = Append(ledger, Event(0, job'))
      BY DEF Finish
    <3> QED
      BY <2>1, <3>1, <3>2
  <2>3. faults' \in 0..MaxFaults
    BY BatchAssumption DEF Finish, Fault, TypeOK
  <2> QED
    BY <1>1, <1>2, <1>3, <2>2, <2>3 DEF TypeOK, EventType
<1>5. Awaited' /\ TakenOnce' /\ Recorded'
  BY <1>1, <1>2, <1>3 DEF Awaited, TakenOnce, Recorded
<1>6. Phases' /\ Asked'
  <2>1. FinalStatus(job') = FinalStatus(job)
    BY <1>3, FinalStatusOfChildren
  <2> QED
    BY <1>1, <1>2, <1>3, <2>1 DEF Phases, Asked
<1> QED
  BY <1>4, <1>5, <1>6

\* What a step of worker w does about task t: the child gets the status c, and the
\* worker goes to x - it awaits the task, is ready again, or has thrown.
Moves(w, t, c, x) ==
    /\ batch # "new"
    /\ \/ worker[w] = t /\ cursor' = cursor /\ starts' = starts
       \/ /\ worker[w] = Ready /\ cursor < NumTasks /\ t = cursor + 1
          /\ cursor' = t /\ starts' = [starts EXCEPT ![t] = @ + 1]
    /\ worker' = [worker EXCEPT ![w] = x]
    /\ job' \in Jobs /\ job'.completed = job.completed
    /\ job'.children = [job.children EXCEPT ![t] = c]
    /\ job'.askId = IF c = "needs-user" THEN t ELSE job.askId
    /\ c \in Ends \cup {"running"}
    /\ \/ /\ x = t /\ c = "running"
          /\ UNCHANGED <<batch, results, ended>>
       \/ /\ x = Ready /\ c \in Ends /\ batch' = batch
          /\ results' = [results EXCEPT ![t] = c] /\ ended' = [ended EXCEPT ![t] = c]
       \/ /\ x = Stopped /\ batch' = "rejected" /\ results' = results
          /\ ended' \in [Tasks -> Ends \cup {None}]
    /\ launched' \in 0..NumWorkers
    /\ ledger' \in Seq(EventType) /\ faults' \in 0..MaxFaults

\* Every such step keeps the invariant.
LEMMA MovesInv ==
    ASSUME Inv, NEW w \in Workers, NEW t \in Tasks, NEW c, NEW x, Moves(w, t, c, x)
    PROVE  Inv'
<1> USE SomeWorkers DEF Inv
<1>1. /\ cursor \in 0..NumTasks /\ cursor' \in 0..NumTasks /\ t <= cursor' /\ t \in 1..NumTasks
      /\ worker[w] \in {t, Ready} /\ cursor <= cursor'
  <2>1. cursor \in 0..NumTasks /\ t \in 1..NumTasks
    BY DEF TypeOK, Tasks
  <2>2. CASE worker[w] = t /\ cursor' = cursor
    <3>1. t <= cursor
      BY <2>2 DEF Awaited
    <3> QED
      BY <2>1, <2>2, <3>1
  <2>3. CASE worker[w] = Ready /\ cursor < NumTasks /\ t = cursor + 1 /\ cursor' = t
    BY <2>1, <2>3
  <2> QED
    BY <2>2, <2>3 DEF Moves
<1>2. \A v \in Workers : v # w => worker[v] # t
  BY <1>1 DEF Moves, Awaited, Tasks, Ready
<1>3. /\ worker[w] # Stopped /\ batch \in {"mapping", "rejected"} /\ ~job.completed
  BY <1>1, SMTT(40) DEF Phases, Ready, Stopped, Moves, TypeOK, Tasks
<1>4. /\ worker' = [worker EXCEPT ![w] = x] /\ worker \in [Workers -> Tasks \cup {Ready, Stopped}]
      /\ x \in {t, Ready, Stopped}
      /\ job'.children = [job.children EXCEPT ![t] = c] /\ job.children \in [Tasks -> Statuses]
      /\ job.askId \in 0..NumTasks
  BY DEF Moves, TypeOK, Jobs
<1>5. TypeOK'
  <2>1. /\ results' \in [Tasks -> Ends \cup {None}] /\ ended' \in [Tasks -> Ends \cup {None}]
        /\ batch' \in {"new", "mapping", "returned", "rejected"}
    BY ZenonT(60) DEF Moves, TypeOK
  <2>2. starts' \in [Tasks -> Nat]
    <3>1. starts \in [Tasks -> Nat] /\ starts[t] + 1 \in Nat
      BY DEF TypeOK
    <3>2. starts' = starts \/ starts' = [starts EXCEPT ![t] = starts[t] + 1]
      BY DEF Moves
    <3> QED
      BY <3>1, <3>2
  <2>3. worker' \in [Workers -> Tasks \cup {Ready, Stopped}]
    BY <1>4
  <2>4. /\ job' \in Jobs /\ launched' \in 0..NumWorkers /\ faults' \in 0..MaxFaults
        /\ ledger' \in Seq([child : 0..NumTasks, status : Statuses])
    BY DEF Moves, EventType
  <2> QED
    BY <1>1, <2>1, <2>2, <2>3, <2>4 DEF TypeOK
<1>6. Awaited'
  <2> SUFFICES ASSUME NEW v \in Workers, worker'[v] \in Tasks
               PROVE  /\ worker'[v] <= cursor'
                      /\ job'.children[worker'[v]] = "running"
                      /\ \A u \in Workers : worker'[u] = worker'[v] => u = v
    BY DEF Awaited
  <2>1. CASE v = w
    <3>1. x = t /\ c = "running"
      BY <1>4, <2>1 DEF Moves, Ready, Stopped, Tasks
    <3> QED
      BY <1>1, <1>2, <1>4, <2>1, <3>1
  <2>2. CASE v # w
    <3>1. worker'[v] = worker[v] /\ worker[v] # t
      BY <1>2, <1>4, <2>2
    <3>2. \A u \in Workers : worker'[u] = worker'[v] => u = v
      <4>1. worker'[w] # worker'[v]
        BY <1>4, <2>2, <3>1 DEF Ready, Stopped, Tasks
      <4> QED
        BY <1>4, <3>1, <4>1 DEF Awaited
    <3> QED
      BY <1>1, <1>4, <3>1, <3>2 DEF Awaited, Tasks
  <2> QED
    BY <2>1, <2>2
<1>7. TakenOnce'
  <2>1. CASE worker[w] = t /\ cursor' = cursor /\ starts' = starts
    BY <2>1 DEF TakenOnce
  <2>2. CASE /\ worker[w] = Ready /\ cursor < NumTasks /\ t = cursor + 1
             /\ cursor' = t /\ starts' = [starts EXCEPT ![t] = @ + 1]
    BY <1>1, <2>2 DEF TakenOnce, TypeOK, Tasks
  <2> QED
    BY <2>1, <2>2 DEF Moves
<1>8. Recorded'
  <2> SUFFICES ASSUME batch' # "rejected", NEW r \in Tasks, r <= cursor'
               PROVE  \/ \E v \in Workers : worker'[v] = r
                      \/ /\ ended'[r] \in Ends /\ results'[r] = ended'[r]
                         /\ job'.children[r] = ended'[r]
    BY DEF Recorded
  <2>1. batch = "mapping"
    BY <1>3 DEF Moves
  <2>2. CASE r = t
    BY <1>4, <2>2 DEF Moves, TypeOK
  <2>3. CASE r # t
    <3>1. r <= cursor
      BY <1>1, <2>3 DEF Moves, Tasks
    <3>2. /\ results'[r] = results[r] /\ ended'[r] = ended[r]
          /\ job'.children[r] = job.children[r]
      BY <1>4, <2>3 DEF Moves, TypeOK
    <3>3. \A v \in Workers : worker[v] = r => worker'[v] = r
      BY <1>1, <1>4, <2>3 DEF Ready, Tasks
    <3> QED
      BY <2>1, <3>1, <3>2, <3>3 DEF Recorded
  <2> QED
    BY <2>2, <2>3
<1>9. Phases'
  <2>1. /\ batch' \in {"mapping", "rejected"} /\ ~job'.completed
        /\ batch' = "mapping" => x # Stopped
    BY <1>3 DEF Moves, Ready, Stopped, Tasks
  <2>2. batch' = "mapping" => batch = "mapping" /\ \A v \in Workers : worker'[v] # Stopped \/ worker[v] = Stopped
    BY <1>3, <1>4, <2>1 DEF Moves
  <2> QED
    BY <1>1, <2>1, <2>2 DEF Phases
<1>10. Asked'
  <2>1. job.askId # t
    BY <1>1 DEF Asked, Awaited, Moves, Ready, Tasks
  <2>2. job'.askId = IF c = "needs-user" THEN t ELSE job.askId
    BY DEF Moves
  <2>3. job'.askId # 0 => job'.children[job'.askId] = "needs-user" /\ job'.askId <= cursor'
    BY <1>1, <1>4, <2>1, <2>2 DEF Asked, Tasks
  <2>4. \A r \in Tasks : job'.children[r] = "needs-user" => r <= cursor' /\ job'.askId # 0
    BY <1>1, <1>4, <2>2 DEF Asked, Tasks
  <2> QED
    BY <2>3, <2>4 DEF Asked
<1> QED
  BY <1>5, <1>6, <1>7, <1>8, <1>9, <1>10

\* A worker ready for a task, in a call that has begun, finds the job open and the
\* next task unasked.
LEMMA Taking ==
    ASSUME Inv, NEW w \in Workers, worker[w] = Ready, cursor < NumTasks
    PROVE  /\ cursor + 1 \in Tasks
           /\ job \in Jobs /\ WithChildRunning(job, cursor + 1) \in Jobs
           /\ ledger \in Seq(EventType)
<1>1. cursor + 1 \in Tasks
  BY SomeWorkers DEF Inv, TypeOK, Tasks
<1>2. job \in Jobs /\ ledger \in Seq(EventType)
  BY DEF Inv, TypeOK, EventType
<1> QED
  BY <1>1, <1>2, RunningShape

\* A child that completes - at once or from its own loop - is such a step, from a job
\* that has the child running.
LEMMA CompleteMoves ==
    ASSUME Inv, NEW w \in Workers, NEW t \in Tasks, NEW s \in Ends, NEW from \in Jobs,
           NEW log \in Seq(EventType), NEW tools \in 0..1,
           Complete(w, t, s, from, log, tools),
           batch # "new", launched' \in 0..NumWorkers,
           from.completed = job.completed, from.askId = job.askId,
           [from.children EXCEPT ![t] = s] = [job.children EXCEPT ![t] = s],
           \/ worker[w] = t /\ cursor' = cursor /\ starts' = starts
           \/ /\ worker[w] = Ready /\ cursor < NumTasks /\ t = cursor + 1
              /\ cursor' = t /\ starts' = [starts EXCEPT ![t] = @ + 1]
    PROVE  \E x : Moves(w, t, s, x)
<1>1. TypeOK
  BY DEF Inv
<1>2. /\ job' = WithChildDone(from, t, s)
      /\ ended' = [ended EXCEPT ![t] = s]
      /\ ledger' \in Seq(EventType)
      /\ faults' \in 0..MaxFaults
      /\ \/ /\ worker' = [worker EXCEPT ![w] = Ready]
            /\ results' = [results EXCEPT ![t] = s]
            /\ batch' = batch
         \/ /\ worker' = [worker EXCEPT ![w] = Stopped]
            /\ results' = results
            /\ batch' = "rejected"
  BY <1>1, CompleteStep
<1>3. /\ job' \in Jobs /\ job'.completed = job.completed
      /\ job'.children = [job.children EXCEPT ![t] = s]
      /\ job'.askId = IF s = "needs-user" THEN t ELSE job.askId
  BY <1>2, DoneShape
<1>4. ended' \in [Tasks -> Ends \cup {None}]
  BY <1>1, <1>2 DEF TypeOK
<1>5. CASE /\ worker' = [worker EXCEPT ![w] = Ready]
           /\ results' = [results EXCEPT ![t] = s]
           /\ batch' = batch
  <2>1. Moves(w, t, s, Ready)
    BY <1>2, <1>3, <1>5 DEF Moves
  <2> QED
    BY <2>1
<1>6. CASE /\ worker' = [worker EXCEPT ![w] = Stopped]
           /\ results' = results
           /\ batch' = "rejected"
  <2>1. Moves(w, t, s, Stopped)
    BY <1>2, <1>3, <1>4, <1>6 DEF Moves
  <2> QED
    BY <2>1
<1> QED
  BY <1>2, <1>5, <1>6

\* Taking a task keeps the invariant, with tools or without.
LEMMA StartChildInv == ASSUME Inv, NEW w \in Workers, StartChild(w) PROVE Inv'
<1> DEFINE t == cursor + 1
           running == WithChildRunning(job, t)
           log == Append(ledger, Event(t, running))
<1>1. /\ batch # "new" /\ worker[w] = Ready /\ cursor < NumTasks
      /\ cursor' = t /\ starts' = [starts EXCEPT ![t] = @ + 1]
      /\ launched' \in 0..NumWorkers
  <2>1. launched \in 0..NumWorkers /\ w \in 1..NumWorkers /\ NumWorkers \in Nat
    BY SomeWorkers DEF Inv, TypeOK, Workers
  <2> QED
    BY <2>1 DEF StartChild, HasTask, Taken, Launch
<1>2. t \in Tasks /\ job \in Jobs /\ running \in Jobs /\ ledger \in Seq(EventType)
  BY <1>1, Taking
<1>3. /\ running.children = [job.children EXCEPT ![t] = "running"]
      /\ running.askId = job.askId /\ running.completed = job.completed
  BY <1>2, RunningShape
<1>4. log \in Seq(EventType)
  <2>1. t \in 0..NumTasks
    BY <1>2, SomeWorkers DEF Tasks
  <2>2. Event(t, running) \in EventType
    BY <1>2, <2>1, EventIsTyped
  <2> QED
    BY <1>2, <2>2
<1>5. CASE Complete(w, t, "needs-user", running, log, 0)
  <2>1. [running.children EXCEPT ![t] = "needs-user"] = [job.children EXCEPT ![t] = "needs-user"]
    BY <1>2, <1>3 DEF Jobs
  <2>2. \E x : Moves(w, t, "needs-user", x)
    <3> HIDE DEF t, running, log
    <3>1. /\ "needs-user" \in Ends /\ 0 \in 0..1
          /\ \/ worker[w] = t /\ cursor' = cursor /\ starts' = starts
             \/ /\ worker[w] = Ready /\ cursor < NumTasks /\ t = cursor + 1
                /\ cursor' = t /\ starts' = [starts EXCEPT ![t] = @ + 1]
      BY <1>1 DEF Ends, t
    <3> QED
      BY <1>1, <1>2, <1>3, <1>4, <1>5, <2>1, <3>1, CompleteMoves
  <2> QED
    BY <1>2, <2>2, MovesInv
<1>6. CASE /\ job' = running /\ ledger' = log
           /\ worker' = [worker EXCEPT ![w] = t]
           /\ UNCHANGED <<batch, results, ended, faults>>
  <2>1. faults' \in 0..MaxFaults
    BY <1>6 DEF Inv, TypeOK
  <2>2. Moves(w, t, "running", t)
    BY <1>1, <1>2, <1>3, <1>4, <1>6, <2>1 DEF Moves
  <2> QED
    BY <1>2, <2>2, MovesInv
<1> QED
  BY <1>5, <1>6 DEF StartChild

\* So does taking a task whose first event cannot be appended.
LEMMA StartFailsInv == ASSUME Inv, NEW w \in Workers, StartFails(w) PROVE Inv'
<1> DEFINE t == cursor + 1
<1>1. /\ batch # "new" /\ worker[w] = Ready /\ cursor < NumTasks
      /\ cursor' = t /\ starts' = [starts EXCEPT ![t] = @ + 1]
      /\ job' = WithChildRunning(job, t)
      /\ worker' = [worker EXCEPT ![w] = Stopped] /\ batch' = "rejected"
      /\ UNCHANGED <<results, ledger, ended>>
  BY DEF StartFails, HasTask, Taken, Reject
<1>2. t \in Tasks /\ job \in Jobs /\ job' \in Jobs /\ ledger \in Seq(EventType)
  BY <1>1, Taking
<1>3. /\ job'.children = [job.children EXCEPT ![t] = "running"]
      /\ job'.askId = job.askId /\ job'.completed = job.completed
  BY <1>1, <1>2, RunningShape
<1>4. launched' \in 0..NumWorkers /\ faults' \in 0..MaxFaults
  <2>1. /\ launched \in 0..NumWorkers /\ w \in 1..NumWorkers /\ NumWorkers \in Nat
        /\ faults \in 0..MaxFaults /\ MaxFaults \in Nat
    BY SomeWorkers, BatchAssumption DEF Inv, TypeOK, Workers
  <2> QED
    BY <2>1 DEF StartFails, Launch, Fault
<1>5. ended \in [Tasks -> Ends \cup {None}]
  BY DEF Inv, TypeOK
<1>6. Moves(w, t, "running", Stopped)
  BY <1>1, <1>2, <1>3, <1>4, <1>5 DEF Moves
<1> QED
  BY <1>2, <1>6, MovesInv

\* So does the end of a child, with its result or with an error.
LEMMA EndChildInv ==
    ASSUME Inv, NEW w \in Workers, NEW s \in Ends, EndChild(w, s) PROVE Inv'
<1> DEFINE t == worker[w]
<1>1. /\ t \in Tasks /\ job \in Jobs /\ ledger \in Seq(EventType) /\ batch # "new"
      /\ launched' \in 0..NumWorkers
  BY DEF EndChild, Inv, TypeOK, Phases, EventType, Tasks, Ready
<1>2. Complete(w, t, s, job, ledger, 1) /\ cursor' = cursor /\ starts' = starts
  BY DEF EndChild
<1>3. \E x : Moves(w, t, s, x)
  <2>1. 1 \in 0..1
    OBVIOUS
  <2> QED
    BY <1>1, <1>2, <2>1, CompleteMoves
<1> QED
  BY <1>1, <1>3, MovesInv

\* An error leaves the child running in the job.
LEMMA ChildThrowsInv == ASSUME Inv, NEW w \in Workers, ChildThrows(w) PROVE Inv'
<1> DEFINE t == worker[w]
<1>1. /\ t \in Tasks /\ job \in Jobs /\ ledger \in Seq(EventType) /\ batch # "new"
      /\ launched \in 0..NumWorkers /\ faults \in 0..MaxFaults
      /\ ended \in [Tasks -> Ends \cup {None}]
      /\ job.children[t] = "running" /\ job.children \in [Tasks -> Statuses]
  BY DEF ChildThrows, Inv, TypeOK, Phases, EventType, Tasks, Ready, Awaited, Jobs
<1>2. job.children = [job.children EXCEPT ![t] = "running"]
  BY <1>1
<1>3. Moves(w, t, "running", Stopped)
  BY <1>1, <1>2 DEF Moves, ChildThrows, Reject
<1> QED
  BY <1>1, <1>3, MovesInv

\* A worker leaves when no task is left, so a call without an error took them all.
LEMMA LeaveInv == ASSUME Inv, NEW w \in Workers, Leave(w) PROVE Inv'
<1> USE SomeWorkers DEF Inv
<1>1. /\ batch # "new" /\ worker[w] = Ready /\ cursor = NumTasks
      /\ worker' = [worker EXCEPT ![w] = Stopped]
      /\ UNCHANGED <<batch, cursor, results, job, ledger, starts, ended, faults>>
  BY DEF Leave, HasTask, TypeOK
<1>2. TypeOK'
  <2>1. launched' \in 0..NumWorkers
    BY DEF Leave, Launch, TypeOK, Workers
  <2>2. worker' \in [Workers -> Tasks \cup {Ready, Stopped}]
    BY <1>1 DEF TypeOK
  <2> QED
    BY <1>1, <2>1, <2>2 DEF TypeOK
<1>3. \A v \in Workers, r \in Tasks : worker'[v] = r <=> worker[v] = r
  BY <1>1 DEF TypeOK, Tasks, Ready, Stopped
<1>4. Awaited'
  BY <1>1, <1>3 DEF Awaited
<1>5. TakenOnce' /\ Recorded' /\ Asked'
  BY <1>1, <1>3 DEF TakenOnce, Recorded, Asked
<1>6. Phases'
  <2>1. batch \in {"mapping", "rejected"} /\ ~job.completed
    BY <1>1 DEF Phases, TypeOK, Ready, Stopped
  <2> QED
    BY <1>1, <2>1 DEF Phases
<1> QED
  BY <1>2, <1>4, <1>5, <1>6

\* The invariant is inductive.
LEMMA NextInv == Inv /\ [Next]_vars => Inv'
<1> SUFFICES ASSUME Inv, [Next]_vars PROVE Inv'
  OBVIOUS
<1>1. CASE Begin
  BY <1>1, BeginInv
<1>2. ASSUME NEW w \in Workers, WorkerStep(w) \/ ChildStep(w) PROVE Inv'
  BY <1>2, StartChildInv, StartFailsInv, EndChildInv, ChildThrowsInv, LeaveInv
     DEF WorkerStep, ChildStep
<1>3. CASE Finish
  BY <1>3, FinishInv
<1>4. CASE UNCHANGED vars
  BY <1>4 DEF vars, Inv, TypeOK, Awaited, TakenOnce, Recorded, Phases, Asked
<1> QED
  BY <1>1, <1>2, <1>3, <1>4 DEF Next

\* The invariant holds in every reachable state.
LEMMA Invariant == Spec => []Inv
BY InitInv, NextInv, PTL DEF Spec
-----------------------------------------------------------------------------
(* The results. *)

\* The call, its workers, the job and the ledger are always well formed
\* (component.ts run, store.ts): in particular no worker awaits, and no job points
\* to, a task that the batch does not have.
THEOREM TypeCorrect == Spec => []TypeOK
<1>1. Inv => TypeOK
  BY DEF Inv
<1> QED
  BY <1>1, Invariant, PTL

\* mapConcurrent runs each task at most once and returns with the result of each in
\* its place (component.ts, mapConcurrent), whatever the order in which children end.
THEOREM EachTaskIsRunOnce == Spec => []EachTaskOnce
<1>1. Inv => EachTaskOnce
  <2> SUFFICES ASSUME Inv PROVE EachTaskOnce
    OBVIOUS
  <2> USE SomeWorkers DEF Inv
  <2>1. \A t \in Tasks : starts[t] <= 1
    BY DEF TakenOnce
  <2>2. ASSUME batch = "returned", NEW t \in Tasks
        PROVE  starts[t] = 1 /\ results[t] = ended[t]
    <3>1. /\ cursor = NumTasks /\ \A w \in Workers : worker[w] = Stopped
      BY <2>2 DEF Phases
    <3>2. t <= cursor /\ \A w \in Workers : worker[w] # t
      BY <3>1 DEF Tasks, Stopped
    <3> QED
      BY <2>2, <3>2 DEF TakenOnce, Recorded
  <2> QED
    BY <2>1, <2>2 DEF EachTaskOnce
<1> QED
  BY <1>1, Invariant, PTL

\* The status, the question and the progress of the job of a returned call are those
\* of the results the parent loop gets (store.ts, finish and finalStatus).
THEOREM OutcomeIsTrue == Spec => []OutcomeAgrees
<1>1. Inv => OutcomeAgrees
  <2> SUFFICES ASSUME Inv, batch = "returned"
               PROVE  /\ job.status = "needs-user" <=> \E t \in Tasks : results[t] = "needs-user"
                      /\ job.status = "completed" <=> \A t \in Tasks : results[t] = "completed"
                      /\ job.status = "needs-user" =>
                           job.askId \in Tasks /\ results[job.askId] = "needs-user"
                      /\ \A s \in Ends : job.progress[s] = Cardinality({t \in Tasks : results[t] = s})
    BY DEF OutcomeAgrees
  <2> USE SomeWorkers DEF Inv
  <2>1. /\ cursor = NumTasks /\ \A w \in Workers : worker[w] = Stopped
        /\ job.status = FinalStatus(job) /\ job.progress = Progress(job.children)
    BY DEF Phases
  <2>2. \A t \in Tasks : results[t] \in Ends /\ results[t] = job.children[t]
    BY <2>1 DEF Recorded, Tasks, Stopped
  <2>3. /\ job.status = "needs-user" <=> \E t \in Tasks : results[t] = "needs-user"
        /\ job.status = "completed" <=> \A t \in Tasks : results[t] = "completed"
    BY <2>1, <2>2 DEF FinalStatus, Ends
  <2>4. ASSUME job.status = "needs-user"
        PROVE  job.askId \in Tasks /\ results[job.askId] = "needs-user"
    <3>1. job.askId \in 0..NumTasks
      BY DEF TypeOK, Jobs
    <3>2. job.askId # 0
      BY <2>2, <2>3, <2>4 DEF Asked
    <3>3. job.askId \in Tasks
      BY <3>1, <3>2 DEF Tasks
    <3> QED
      BY <2>2, <3>2, <3>3 DEF Asked
  <2>5. ASSUME NEW s \in Ends
        PROVE  job.progress[s] = Cardinality({t \in Tasks : results[t] = s})
    <3>1. {t \in Tasks : job.children[t] = s} = {t \in Tasks : results[t] = s}
      BY <2>2
    <3> QED
      BY <2>1, <3>1 DEF Progress, Count
  <2> QED
    BY <2>3, <2>4, <2>5
<1> QED
  BY <1>1, Invariant, PTL

\* Once ExecutionJobStore.finish has closed a job nothing changes it: by then no worker
\* is left that could complete a child (component.ts, mapConcurrent).
THEOREM FinishedJobsAreFinal == Spec => FinishedIsFinal
<1>1. Inv /\ [Next]_vars => [job.completed => job' = job]_vars
  <2> SUFFICES ASSUME Inv, Next, job.completed PROVE job' = job
    BY DEF vars
  <2>1. /\ batch \in {"returned", "rejected"}
        /\ \A w \in Workers : worker[w] = Stopped
    BY DEF Inv, Phases
  <2>2. ~Begin /\ ~Finish
    BY <2>1 DEF Begin, Finish
  <2>3. ASSUME NEW w \in Workers PROVE ~(WorkerStep(w) \/ ChildStep(w))
    <3>1. worker[w] # Ready /\ worker[w] \notin Tasks
      BY <2>1 DEF Ready, Stopped, Tasks
    <3> QED
      BY <3>1 DEF WorkerStep, ChildStep, StartChild, StartFails, EndChild, ChildThrows, Leave
  <2> QED
    BY <2>2, <2>3 DEF Next
<1> QED
  BY <1>1, Invariant, PTL DEF Spec, FinishedIsFinal
-----------------------------------------------------------------------------
(* Gateway. *)

\* An entry of the store when there are n deliveries.
EntryUpTo(n) == [key : Keys, exp : Nat, reply : 0..n]

\* Turns of one request id that run at the same time know of each other.
Besides ==
    \A t, u \in 1..Len(turns) :
        u < t /\ turns[u].req = turns[t].req /\ InProgress(u) => u \in turns[t].beside

\* ActiveIffRunning is inductive, given the types and the turns beside a turn.
GatewayInv == GatewayTypeOK /\ Besides /\ ActiveIffRunning

\* What a turn shares with turns beside it stays shared.
LEMMA SharedStays ==
    ASSUME GatewayTypeOK, Len(turns) <= Len(turns'), Len(turns') \in Nat,
           \A u \in 1..Len(turns) : turns'[u].beside = turns[u].beside,
           NEW t \in 1..Len(turns), Shared(t)
    PROVE  Shared(t)'
<1>1. Len(turns) \in Nat
  BY DEF GatewayTypeOK
<1>2. \A u \in 1..Len(turns) : u \in 1..Len(turns')
  BY <1>1
<1> QED
  BY <1>2 DEF Shared

\* The elements of a list that Pick keeps.
LEMMA EvictExpiredShape ==
    ASSUME GatewayTypeOK
    PROVE  /\ EvictExpired \in Seq(EntryUpTo(Len(turns)))
           /\ \A j \in 1..Len(EvictExpired) : \E i \in 1..Len(entries) : EvictExpired[j] = entries[i]
<1> DEFINE I == {i \in DOMAIN entries : entries[i].exp > now}
<1>1. entries \in Seq(EntryUpTo(Len(turns))) /\ I \in SUBSET DOMAIN entries
  BY DEF GatewayTypeOK, EntryUpTo
<1>2. DOMAIN entries = 1..Len(entries)
  BY <1>1
<1>3. EvictExpired = Pick(entries, I)
  BY DEF EvictExpired
<1> HIDE DEF I
<1>4. /\ EvictExpired \in Seq(EntryUpTo(Len(turns)))
      /\ Len(EvictExpired) = Cardinality(I)
      /\ \A n \in 1..Cardinality(I) : \E i \in I : EvictExpired[n] = entries[i]
  BY <1>1, <1>3, PickShape
<1> QED
  BY <1>1, <1>2, <1>4

\* The store without a key.
LEMMA WithoutShape ==
    ASSUME GatewayTypeOK, NEW k
    PROVE  /\ Without(entries, k) \in Seq(EntryUpTo(Len(turns)))
           /\ Len(Without(entries, k)) <= Len(entries)
           /\ \A j \in 1..Len(Without(entries, k)) :
                 \E i \in 1..Len(entries) :
                    Without(entries, k)[j] = entries[i] /\ entries[i].key # k
<1> DEFINE I == {i \in DOMAIN entries : entries[i].key # k}
<1>1. entries \in Seq(EntryUpTo(Len(turns))) /\ I \in SUBSET DOMAIN entries
  BY DEF GatewayTypeOK, EntryUpTo
<1>2. \A i \in I : i \in DOMAIN entries /\ entries[i].key # k
  OBVIOUS
<1>3. DOMAIN entries = 1..Len(entries) /\ Len(entries) \in Nat
  BY <1>1
<1>4. Without(entries, k) = Pick(entries, I)
  BY DEF Without
<1> HIDE DEF I
<1>5. /\ Without(entries, k) \in Seq(EntryUpTo(Len(turns)))
      /\ Len(Without(entries, k)) = Cardinality(I)
      /\ \A n \in 1..Cardinality(I) : \E i \in I : Without(entries, k)[n] = entries[i]
  BY <1>1, <1>4, PickShape
<1>6. Cardinality(I) <= Len(entries)
  <2>1. IsFiniteSet(1..Len(entries)) /\ Cardinality(1..Len(entries)) = Len(entries)
    BY <1>3, UpTo
  <2> QED
    BY <1>1, <1>3, <2>1, FS_Subset
<1> QED
  BY <1>2, <1>3, <1>5, <1>6

\* Capacity cuts off the oldest entries.
LEMMA CapacityShape ==
    ASSUME GatewayAssumption, NEW S, NEW list \in Seq(S)
    PROVE  /\ EnforceCapacity(list) \in Seq(S)
           /\ Len(EnforceCapacity(list)) <= MaxEntries
           /\ \A j \in 1..Len(EnforceCapacity(list)) :
                 \E i \in 1..Len(list) : EnforceCapacity(list)[j] = list[i]
<1> DEFINE o == Overflow(list)
           short == SubSeq(list, o + 1, Len(list))
<1>1. Len(list) \in Nat /\ MaxEntries \in Nat
  BY DEF GatewayAssumption
<1>2. o \in 0..Len(list) /\ Len(list) - o <= MaxEntries
  BY <1>1 DEF Overflow
<1> HIDE DEF o
<1>3. /\ short \in Seq(S) /\ Len(short) = Len(list) - o
      /\ \A j \in 1..(Len(list) - o) : short[j] = list[o + j]
  BY <1>1, <1>2
<1>4. \A j \in 1..(Len(list) - o) : o + j \in 1..Len(list)
  BY <1>1, <1>2
<1>5. EnforceCapacity(list) = short
  BY DEF EnforceCapacity, o
<1> HIDE DEF short
<1> QED
  BY <1>2, <1>3, <1>4, <1>5

\* tryClaim: what it leaves of the entries, and that it grants the claim of a new key.
LEMMA ClaimShape ==
    ASSUME GatewayAssumption, GatewayTypeOK, NEW k \in Keys
    PROVE  /\ Claim(k).list \in Seq(EntryUpTo(Len(turns)))
           /\ Claim(k).state \in {"running", "replayed", "ignored"}
           /\ (\A i \in 1..Len(entries) : entries[i].key # k) =>
                 /\ Claim(k).state = "running"
                 /\ Len(Claim(k).list) <= MaxEntries
                 /\ \A j \in 1..Len(Claim(k).list) :
                       \/ Claim(k).list[j] = [key |-> k, exp |-> now + Ttl, reply |-> Nil]
                       \/ \E i \in 1..Len(entries) : Claim(k).list[j] = entries[i]
<1> DEFINE live == EvictExpired
           E == EntryUpTo(Len(turns))
           new == [key |-> k, exp |-> now + Ttl, reply |-> Nil]
           fresh == Append(live, new)
           there == Find(live, k)
<1>1. /\ live \in Seq(E) /\ Len(turns) \in Nat /\ now \in Nat
      /\ \A j \in 1..Len(live) : \E i \in 1..Len(entries) : live[j] = entries[i]
  <2>1. /\ live \in Seq(E)
        /\ \A j \in 1..Len(live) : \E i \in 1..Len(entries) : live[j] = entries[i]
    <3> HIDE DEF E
    <3> QED
      BY EvictExpiredShape DEF E
  <2>2. Len(turns) \in Nat /\ now \in Nat
    BY DEF GatewayTypeOK
  <2> QED
    BY <2>1, <2>2
<1>2. new \in E
  BY <1>1 DEF EntryUpTo, Nil, GatewayAssumption
<1>3. there = {i \in 1..Len(live) : live[i].key = k}
  BY DEF Find
<1>4. Claim(k) =
        IF there = {}
        THEN [list |-> EnforceCapacity(fresh), state |-> "running"]
        ELSE [list |-> live,
              state |-> IF live[CHOOSE i \in there : TRUE].reply = Nil THEN "ignored" ELSE "replayed"]
  BY DEF Claim
<1> HIDE DEF live, E, new, there
<1>5. CASE there = {}
  <2>1. /\ fresh \in Seq(E) /\ Len(fresh) = Len(live) + 1 /\ Len(live) \in Nat
        /\ \A i \in 1..Len(live) : fresh[i] = live[i]
        /\ fresh[Len(live) + 1] = new
    BY <1>1, <1>2, AppendProperties
  <2>2. \A i \in 1..Len(fresh) : fresh[i] = new \/ \E j \in 1..Len(live) : fresh[i] = live[j]
    <3> TAKE i \in 1..Len(fresh)
    <3>1. i \in 1..Len(live) \/ i = Len(live) + 1
      BY <2>1
    <3> QED
      BY <2>1, <3>1
  <2> HIDE DEF fresh
  <2>3. /\ EnforceCapacity(fresh) \in Seq(E)
        /\ Len(EnforceCapacity(fresh)) <= MaxEntries
        /\ \A j \in 1..Len(EnforceCapacity(fresh)) :
              \E i \in 1..Len(fresh) : EnforceCapacity(fresh)[j] = fresh[i]
    BY <2>1, CapacityShape
  <2>4. Claim(k).list = EnforceCapacity(fresh) /\ Claim(k).state = "running"
    BY <1>4, <1>5
  <2>5. \A j \in 1..Len(EnforceCapacity(fresh)) :
           \/ EnforceCapacity(fresh)[j] = new
           \/ \E i \in 1..Len(entries) : EnforceCapacity(fresh)[j] = entries[i]
    <3> TAKE j \in 1..Len(EnforceCapacity(fresh))
    <3>1. PICK n \in 1..Len(fresh) : EnforceCapacity(fresh)[j] = fresh[n]
      BY <2>3
    <3>2. CASE fresh[n] = new
      BY <3>1, <3>2
    <3>3. CASE fresh[n] # new
      <4>1. PICK l \in 1..Len(live) : fresh[n] = live[l]
        BY <2>2, <3>3
      <4>2. PICK e \in 1..Len(entries) : live[l] = entries[e]
        BY <1>1
      <4> QED
        BY <3>1, <4>1, <4>2
    <3> QED
      BY <3>2, <3>3
  <2> QED
    BY <2>3, <2>4, <2>5 DEF new, E
<1>6. CASE there # {}
  <2>1. PICK j \in 1..Len(live) : live[j].key = k
    BY <1>3, <1>6
  <2>2. PICK i \in 1..Len(entries) : live[j] = entries[i]
    BY <1>1
  <2>3. Claim(k).list = live /\ Claim(k).state \in {"replayed", "ignored"}
    BY <1>4, <1>6
  <2> QED
    BY <1>1, <2>1, <2>2, <2>3 DEF E
<1> QED
  BY <1>5, <1>6

\* recordReply: the entry of the key has the reply, the others stay.
LEMMA RecordReplyShape ==
    ASSUME GatewayAssumption, GatewayTypeOK, NEW k \in Keys, NEW t \in 1..Len(turns)
    PROVE  /\ RecordReply(k, t) \in Seq(EntryUpTo(Len(turns)))
           /\ Len(RecordReply(k, t)) <= Len(entries) + 1
           /\ \A j \in 1..Len(RecordReply(k, t)) :
                 \/ RecordReply(k, t)[j].key = k /\ RecordReply(k, t)[j].reply = t
                 \/ \E i \in 1..Len(entries) :
                       RecordReply(k, t)[j] = entries[i] /\ entries[i].key # k
<1> DEFINE E == EntryUpTo(Len(turns))
<1>1. entries \in Seq(E) /\ Len(turns) \in Nat /\ now \in Nat
  BY DEF GatewayTypeOK, EntryUpTo
<1>2. CASE Find(entries, k) = {}
  <2> DEFINE new == [key |-> k, exp |-> now + Ttl, reply |-> t]
  <2>1. new \in E
    BY <1>1 DEF EntryUpTo, GatewayAssumption
  <2>2. \A i \in 1..Len(entries) : entries[i].key # k
    BY <1>2 DEF Find
  <2>3. new.key = k /\ new.reply = t
    OBVIOUS
  <2> HIDE DEF new, E
  <2>4. /\ Append(entries, new) \in Seq(E) /\ Len(Append(entries, new)) = Len(entries) + 1
        /\ \A i \in 1..Len(entries) : Append(entries, new)[i] = entries[i]
        /\ Append(entries, new)[Len(entries) + 1] = new /\ Len(entries) \in Nat
    BY <1>1, <2>1, AppendProperties
  <2>5. RecordReply(k, t) = Append(entries, new)
    BY <1>2 DEF RecordReply, new
  <2>6. \A j \in 1..(Len(entries) + 1) : j \in 1..Len(entries) \/ j = Len(entries) + 1
    BY <2>4
  <2>7. Len(RecordReply(k, t)) <= Len(entries) + 1
    BY <2>4, <2>5
  <2>8. ASSUME NEW j \in 1..Len(RecordReply(k, t))
        PROVE  \/ RecordReply(k, t)[j].key = k /\ RecordReply(k, t)[j].reply = t
               \/ \E i \in 1..Len(entries) :
                     RecordReply(k, t)[j] = entries[i] /\ entries[i].key # k
    <3>1. j \in 1..Len(entries) \/ j = Len(entries) + 1
      BY <2>4, <2>5, <2>6
    <3> QED
      BY <2>2, <2>3, <2>4, <2>5, <3>1
  <2> QED
    BY <2>4, <2>5, <2>7, <2>8 DEF E
<1>3. CASE Find(entries, k) # {}
  <2> DEFINE list == [i \in 1..Len(entries) |->
                        IF entries[i].key = k THEN [entries[i] EXCEPT !.reply = t] ELSE entries[i]]
  <2>1. RecordReply(k, t) = list
    BY <1>3 DEF RecordReply
  <2>2. \A i \in 1..Len(entries) :
           /\ list[i] \in E
           /\ \/ list[i].key = k /\ list[i].reply = t
              \/ list[i] = entries[i] /\ entries[i].key # k
    <3> TAKE i \in 1..Len(entries)
    <3>1. entries[i] \in E
      BY <1>1
    <3> QED
      BY <3>1 DEF EntryUpTo
  <2>3. DOMAIN list = 1..Len(entries) /\ Len(entries) \in Nat
    BY <1>1
  <2>4. list \in [1..Len(entries) -> E]
    BY <2>2
  <2> HIDE DEF list, E
  <2>5. list \in Seq(E) /\ Len(list) = Len(entries) /\ Len(list) <= Len(entries) + 1
    BY <2>3, <2>4
  <2> QED
    BY <2>1, <2>2, <2>5 DEF E
<1> QED
  BY <1>2, <1>3

-----------------------------------------------------------------------------
(* The types, and that what is registered runs, and the other way round. *)

\* The types, action by action.
LEMMA GatewayInitType == ASSUME GatewayAssumption, GatewayInit PROVE GatewayInv
<1> 0 \in Nat /\ Len(<<>>) = 0 /\ 0 \in 0..0 /\ 1..0 = {}
  OBVIOUS
<1> QED
  BY DEF GatewayInit, GatewayInv, GatewayTypeOK, Besides, ActiveIffRunning, EntryUpTo, Nil,
         GatewayAssumption

\* Entries made when fewer turns had been delivered are still entries.
LEMMA EntriesGrow ==
    ASSUME NEW m \in Nat, NEW n \in Nat, m <= n, NEW list \in Seq(EntryUpTo(m))
    PROVE  list \in Seq(EntryUpTo(n))
<1>1. 0..m \subseteq 0..n
  OBVIOUS
<1>2. EntryUpTo(m) \subseteq EntryUpTo(n)
  BY <1>1 DEF EntryUpTo
<1> HIDE DEF EntryUpTo
<1> QED
  BY <1>2, SeqMonotonic

LEMMA SendTypes ==
    ASSUME GatewayAssumption, GatewayInv, NEW c \in Connections, NEW m \in Messages,
           NEW r \in Requests, Send(c, m, r)
    PROVE  GatewayInv'
<1> DEFINE t == Len(turns) + 1
           k == Key(m, t)
           claim == Claim(k)
           new == [conn |-> c, msg |-> m, req |-> r, key |-> k, state |-> claim.state,
                   aborted |-> FALSE, ended |-> 0,
                   beside |-> {u \in 1..Len(turns) : turns[u].req = r /\ InProgress(u)}]
<1>1. /\ open \subseteq Connections /\ closed \subseteq Connections
      /\ turns \in Seq(Turn) /\ Len(turns) \in Nat
      /\ activeTurns \in [Requests -> 0..Len(turns)] /\ now \in Nat
  BY DEF GatewayInv, GatewayTypeOK
<1>2. k \in Keys
  BY <1>1 DEF Send, Key, Keys, GatewayAssumption
<1>3. /\ claim.list \in Seq(EntryUpTo(Len(turns)))
      /\ claim.state \in {"running", "replayed", "ignored"}
  BY <1>2, ClaimShape DEF GatewayInv
<1>4. /\ entries' = claim.list /\ turns' = Append(turns, new)
      /\ activeTurns' = [activeTurns EXCEPT ![r] = IF claim.state = "running" THEN t ELSE Nil]
      /\ open' = open /\ closed' = closed /\ now' = now
  BY DEF Send
<1> HIDE DEF k, claim
<1>5. new \in Turn
  BY <1>1, <1>2, <1>3 DEF Turn
<1>6. /\ new.req = r /\ new.state = claim.state /\ ~new.aborted
      /\ \A u \in 1..Len(turns) : turns[u].req = r /\ InProgress(u) => u \in new.beside
  OBVIOUS
<1> HIDE DEF new
<1>7. /\ turns' \in Seq(Turn) /\ Len(turns') = t /\ turns'[t] = new
      /\ \A u \in 1..Len(turns) : turns'[u] = turns[u]
  BY <1>1, <1>4, <1>5, AppendProperties
<1>8. activeTurns' \in [Requests -> 0..t]
  BY <1>1, <1>4 DEF Nil
<1>9. entries' \in Seq(EntryUpTo(t))
  BY <1>1, <1>3, <1>4, EntriesGrow
<1>10. GatewayTypeOK'
  BY <1>1, <1>4, <1>7, <1>8, <1>9 DEF GatewayTypeOK, EntryUpTo
<1>11. \A u \in 1..t : u \in 1..Len(turns) \/ u = t
  BY <1>1
<1>12. ASSUME NEW v \in 1..t, NEW u \in 1..t, u < v, turns'[u].req = turns'[v].req,
              turns'[u].state = "running"
       PROVE  u \in turns'[v].beside
  <2>1. u \in 1..Len(turns)
    BY <1>1, <1>12
  <2>2. turns'[u] = turns[u]
    BY <1>7, <2>1
  <2>3. CASE v = t
    BY <1>6, <1>7, <1>12, <2>1, <2>2, <2>3 DEF InProgress
  <2>4. CASE v \in 1..Len(turns)
    BY <1>7, <1>12, <2>1, <2>2, <2>4 DEF GatewayInv, Besides, InProgress
  <2> QED
    BY <1>11, <2>3, <2>4
<1>13. ASSUME NEW q \in Requests, activeTurns'[q] # Nil
       PROVE  /\ turns'[activeTurns'[q]].state = "running" /\ turns'[activeTurns'[q]].req = q
              /\ ~turns'[activeTurns'[q]].aborted
  <2>1. CASE q = r
    <3>1. claim.state = "running" /\ activeTurns'[q] = t
      BY <1>1, <1>4, <1>13, <2>1
    <3> QED
      BY <1>6, <1>7, <2>1, <3>1
  <2>2. CASE q # r
    <3>1. activeTurns'[q] = activeTurns[q] /\ activeTurns[q] \in 1..Len(turns)
      BY <1>1, <1>4, <1>13, <2>2 DEF Nil
    <3> QED
      BY <1>7, <1>13, <3>1 DEF GatewayInv, ActiveIffRunning, InProgress
  <2> QED
    BY <2>1, <2>2
<1>14. ASSUME NEW u \in 1..t, turns'[u].state = "running", ~turns'[u].aborted, ~Shared(u)'
       PROVE  activeTurns'[turns'[u].req] = u
  <2>1. CASE u = t
    <3>1. claim.state = "running" /\ turns'[u].req = r
      BY <1>6, <1>7, <1>14, <2>1
    <3> QED
      BY <1>1, <1>4, <2>1, <3>1
  <2>2. CASE u \in 1..Len(turns)
    <3>1. turns'[u] = turns[u] /\ turns[u] \in Turn
      BY <1>1, <1>7, <2>2
    <3>2. turns[u].req # r
      <4>1. t \in 1..Len(turns')
        BY <1>1, <1>7
      <4>2. u \notin turns'[t].beside
        BY <1>14, <4>1 DEF Shared
      <4> QED
        BY <1>6, <1>7, <1>14, <2>2, <3>1, <4>2 DEF InProgress
    <3>3. ~Shared(u)
      <4>1. Len(turns) <= Len(turns') /\ Len(turns') \in Nat
        BY <1>1, <1>7
      <4> QED
        BY <1>7, <1>14, <2>2, <4>1, SharedStays DEF GatewayInv
    <3>4. activeTurns[turns[u].req] = u
      BY <1>14, <2>2, <3>1, <3>3 DEF GatewayInv, ActiveIffRunning, InProgress
    <3>5. turns[u].req \in Requests
      BY <3>1 DEF Turn
    <3> QED
      BY <1>1, <1>4, <3>1, <3>2, <3>4, <3>5
  <2> QED
    BY <1>11, <2>1, <2>2
<1>15. Besides'
  BY <1>7, <1>12 DEF Besides, InProgress
<1>16. ActiveIffRunning'
  BY <1>7, <1>13, <1>14 DEF ActiveIffRunning, InProgress
<1> QED
  BY <1>10, <1>15, <1>16 DEF GatewayInv

\* A turn ends, however it does: nothing but its state and its end change in it.
LEMMA EndShape ==
    ASSUME GatewayTypeOK, NEW t \in 1..Len(turns), NEW s \in {"done", "failed"}, End(t, s)
    PROVE  /\ turns' \in Seq(Turn) /\ Len(turns') = Len(turns) /\ Len(turns) \in Nat
           /\ turns'[t].state = s /\ turns'[t].ended = Len(turns)
           /\ \A u \in 1..Len(turns) : u # t => turns'[u] = turns[u]
           /\ \A u \in 1..Len(turns) :
                 /\ turns'[u].req = turns[u].req /\ turns'[u].beside = turns[u].beside
                 /\ turns'[u].key = turns[u].key /\ turns'[u].msg = turns[u].msg
<1>1. /\ turns \in Seq(Turn) /\ Len(turns) \in Nat /\ turns[t] \in Turn
  BY DEF GatewayTypeOK
<1> DEFINE new == [turns[t] EXCEPT !.state = s, !.ended = Len(turns)]
<1>2. turns' = [turns EXCEPT ![t] = new]
  BY <1>1 DEF End, Turn
<1>3. /\ new \in Turn /\ new.req = turns[t].req /\ new.beside = turns[t].beside
      /\ new.state = s /\ new.ended = Len(turns)
      /\ new.key = turns[t].key /\ new.msg = turns[t].msg
  BY <1>1 DEF Turn
<1> HIDE DEF new
<1>4. /\ turns' \in Seq(Turn) /\ Len(turns') = Len(turns) /\ turns'[t] = new
      /\ \A u \in 1..Len(turns) : u # t => turns'[u] = turns[u]
  BY <1>1, <1>2, <1>3, ExceptSeq
<1> QED
  BY <1>1, <1>3, <1>4

LEMMA EndTypes ==
    ASSUME GatewayAssumption, GatewayInv, NEW t \in 1..Len(turns), InProgress(t),
           NEW s \in {"done", "failed"}, End(t, s),
           entries' \in Seq(EntryUpTo(Len(turns))), UNCHANGED <<open, closed, now>>
    PROVE  GatewayInv'
<1>1. /\ turns \in Seq(Turn) /\ Len(turns) \in Nat /\ now \in Nat
      /\ activeTurns \in [Requests -> 0..Len(turns)] /\ turns[t] \in Turn
  BY DEF GatewayInv, GatewayTypeOK
<1>2. /\ turns' \in Seq(Turn) /\ Len(turns') = Len(turns)
      /\ turns'[t].state = s /\ s # "running"
      /\ \A u \in 1..Len(turns) : u # t => turns'[u] = turns[u]
      /\ \A u \in 1..Len(turns) :
            turns'[u].req = turns[u].req /\ turns'[u].beside = turns[u].beside
  BY EndShape DEF GatewayInv
<1>3. /\ activeTurns' = [activeTurns EXCEPT ![turns[t].req] = Nil] /\ turns[t].req \in Requests
      /\ activeTurns' \in [Requests -> 0..Len(turns)]
  <2>1. turns[t].req \in Requests
    BY <1>1 DEF Turn
  <2>2. activeTurns' = [activeTurns EXCEPT ![turns[t].req] = Nil]
    BY DEF End
  <2>3. 0 \in 0..Len(turns)
    BY <1>1
  <2> QED
    BY <1>1, <2>1, <2>2, <2>3 DEF Nil
<1>4. GatewayTypeOK'
  BY <1>1, <1>2, <1>3 DEF GatewayInv, GatewayTypeOK, EntryUpTo
<1>5. Besides'
  BY <1>2 DEF GatewayInv, Besides, InProgress
<1>6. ASSUME NEW q \in Requests, activeTurns'[q] # Nil
      PROVE  /\ turns'[activeTurns'[q]].state = "running" /\ turns'[activeTurns'[q]].req = q
             /\ ~turns'[activeTurns'[q]].aborted
  <2>1. q # turns[t].req /\ activeTurns'[q] = activeTurns[q]
    BY <1>1, <1>3, <1>6
  <2>2. turns[activeTurns[q]].req = q /\ activeTurns[q] \in 1..Len(turns)
    BY <1>1, <1>6, <2>1 DEF GatewayInv, ActiveIffRunning, Nil
  <2>3. turns'[activeTurns[q]] = turns[activeTurns[q]]
    BY <1>2, <2>1, <2>2
  <2> QED
    BY <1>6, <2>1, <2>3 DEF GatewayInv, ActiveIffRunning, InProgress
<1>7. ASSUME NEW u \in 1..Len(turns), turns'[u].state = "running", ~turns'[u].aborted, ~Shared(u)'
      PROVE  activeTurns'[turns'[u].req] = u
  <2>1. u # t /\ turns'[u] = turns[u] /\ turns[u] \in Turn
    BY <1>1, <1>2, <1>7
  <2>2. ~Shared(u)
    <3>1. Len(turns) <= Len(turns') /\ Len(turns') \in Nat
      BY <1>1, <1>2
    <3> QED
      BY <1>2, <1>7, <3>1, SharedStays DEF GatewayInv
  <2>3. turns[u].req # turns[t].req
    <3> SUFFICES ASSUME turns[u].req = turns[t].req PROVE FALSE
      OBVIOUS
    <3>1. InProgress(u)
      BY <1>7, <2>1 DEF InProgress
    <3>2. u < t \/ t < u
      BY <1>1, <2>1
    <3>3. u \in turns[t].beside \/ t \in turns[u].beside
      BY <3>1, <3>2 DEF GatewayInv, Besides
    <3> QED
      BY <2>2, <3>3 DEF Shared
  <2>4. activeTurns[turns[u].req] = u
    BY <1>7, <2>1, <2>2 DEF GatewayInv, ActiveIffRunning, InProgress
  <2>5. turns[u].req \in Requests
    BY <2>1 DEF Turn
  <2> QED
    BY <1>1, <1>3, <2>1, <2>3, <2>4, <2>5
<1>8. ActiveIffRunning'
  BY <1>2, <1>6, <1>7 DEF ActiveIffRunning, InProgress
<1> QED
  BY <1>4, <1>5, <1>8 DEF GatewayInv

LEMMA ReplyTypes ==
    ASSUME GatewayAssumption, GatewayInv, NEW t \in 1..Len(turns), Reply(t)
    PROVE  GatewayInv'
<1>1. turns[t].key \in Keys
  <2>1. turns[t] \in Turn
    BY DEF GatewayInv, GatewayTypeOK
  <2> QED
    BY <2>1 DEF Turn
<1>2. entries' \in Seq(EntryUpTo(Len(turns)))
  BY <1>1, RecordReplyShape DEF Reply, GatewayInv
<1> QED
  BY <1>2, EndTypes DEF Reply

LEMMA FailTypes ==
    ASSUME GatewayAssumption, GatewayInv, NEW t \in 1..Len(turns), Fail(t)
    PROVE  GatewayInv'
<1>1. entries' \in Seq(EntryUpTo(Len(turns)))
  BY WithoutShape DEF Fail, Release, GatewayInv
<1> QED
  BY <1>1, EndTypes DEF Fail

\* An interrupt changes nothing but the flag of the turns it reaches.
LEMMA InterruptShape ==
    ASSUME GatewayTypeOK, NEW c \in Connections, NEW req, NEW msg, Interrupt(c, req, msg)
    PROVE  /\ turns' \in Seq(Turn) /\ Len(turns') = Len(turns) /\ Len(turns) \in Nat
           /\ \A t \in 1..Len(turns) :
                 /\ t \notin Aimed(c, req, msg) => turns'[t] = turns[t]
                 /\ t \in Aimed(c, req, msg) => turns'[t].aborted
                 /\ turns'[t].req = turns[t].req /\ turns'[t].beside = turns[t].beside
                 /\ turns'[t].state = turns[t].state /\ turns'[t].key = turns[t].key
                 /\ turns'[t].msg = turns[t].msg /\ turns'[t].ended = turns[t].ended
<1> DEFINE hit == Aimed(c, req, msg)
<1>1. /\ turns \in Seq(Turn) /\ Len(turns) \in Nat
      /\ \A t \in 1..Len(turns) : turns[t] \in Turn
  BY DEF GatewayTypeOK
<1>2. turns' = [t \in 1..Len(turns) |->
                  IF t \in hit THEN [turns[t] EXCEPT !.aborted = TRUE] ELSE turns[t]]
  BY DEF Interrupt
<1> HIDE DEF hit
<1>3. \A t \in 1..Len(turns) :
         /\ turns'[t] \in Turn /\ (t \notin hit => turns'[t] = turns[t])
         /\ t \in hit => turns'[t].aborted
         /\ turns'[t].req = turns[t].req /\ turns'[t].beside = turns[t].beside
         /\ turns'[t].state = turns[t].state /\ turns'[t].key = turns[t].key
         /\ turns'[t].msg = turns[t].msg /\ turns'[t].ended = turns[t].ended
  <2> TAKE t \in 1..Len(turns)
  <2>1. turns[t] \in Turn /\ turns'[t] = IF t \in hit THEN [turns[t] EXCEPT !.aborted = TRUE]
                                         ELSE turns[t]
    BY <1>1, <1>2
  <2>2. CASE t \notin hit
    BY <2>1, <2>2
  <2>3. CASE t \in hit
    <3> DEFINE new == [turns[t] EXCEPT !.aborted = TRUE]
    <3>1. /\ new \in Turn /\ new.aborted
          /\ new.req = turns[t].req /\ new.beside = turns[t].beside
          /\ new.state = turns[t].state /\ new.key = turns[t].key
          /\ new.msg = turns[t].msg /\ new.ended = turns[t].ended
      BY <2>1 DEF Turn
    <3>2. turns'[t] = new
      BY <2>1, <2>3
    <3> HIDE DEF new
    <3> QED
      BY <2>3, <3>1, <3>2
  <2> QED
    BY <2>2, <2>3
<1>4. turns' \in [1..Len(turns) -> Turn]
  BY <1>2, <1>3
<1>5. turns' \in Seq(Turn) /\ Len(turns') = Len(turns)
  BY <1>1, <1>4
<1> QED
  BY <1>1, <1>3, <1>5 DEF hit

LEMMA InterruptTypes ==
    ASSUME GatewayInv, NEW c \in Connections, NEW req, NEW msg, Interrupt(c, req, msg)
    PROVE  GatewayInv'
<1> DEFINE hit == Aimed(c, req, msg)
<1>1. /\ turns' \in Seq(Turn) /\ Len(turns') = Len(turns) /\ Len(turns) \in Nat
      /\ \A t \in 1..Len(turns) :
            /\ (t \notin hit => turns'[t] = turns[t])
            /\ t \in hit => turns'[t].aborted
            /\ turns'[t].req = turns[t].req /\ turns'[t].beside = turns[t].beside
            /\ turns'[t].state = turns[t].state
  BY InterruptShape DEF GatewayInv
<1>2. /\ activeTurns' = [r \in Requests |-> IF activeTurns[r] \in hit THEN Nil ELSE activeTurns[r]]
      /\ UNCHANGED <<open, closed, entries, now>>
  BY DEF Interrupt
<1> HIDE DEF hit
<1>3. activeTurns \in [Requests -> 0..Len(turns)] /\ turns \in Seq(Turn)
  BY DEF GatewayInv, GatewayTypeOK
<1>4. activeTurns' \in [Requests -> 0..Len(turns)]
  BY <1>1, <1>2, <1>3 DEF Nil
<1>5. GatewayTypeOK'
  BY <1>1, <1>2, <1>4 DEF GatewayInv, GatewayTypeOK
<1>6. Besides'
  BY <1>1 DEF GatewayInv, Besides, InProgress
<1>7. ASSUME NEW q \in Requests, activeTurns'[q] # Nil
      PROVE  /\ turns'[activeTurns'[q]].state = "running" /\ turns'[activeTurns'[q]].req = q
             /\ ~turns'[activeTurns'[q]].aborted
  <2>1. activeTurns'[q] = activeTurns[q] /\ activeTurns[q] \notin hit
    BY <1>2, <1>7
  <2>2. activeTurns[q] \in 1..Len(turns)
    BY <1>1, <1>3, <1>7, <2>1 DEF Nil
  <2>3. turns'[activeTurns[q]] = turns[activeTurns[q]]
    BY <1>1, <2>1, <2>2
  <2> QED
    BY <1>7, <2>1, <2>3 DEF GatewayInv, ActiveIffRunning, InProgress
<1>8. ASSUME NEW u \in 1..Len(turns), turns'[u].state = "running", ~turns'[u].aborted, ~Shared(u)'
      PROVE  activeTurns'[turns'[u].req] = u
  <2>1. u \notin hit /\ turns'[u] = turns[u]
    BY <1>1, <1>8
  <2>2. ~Shared(u)
    <3>1. Len(turns) <= Len(turns') /\ Len(turns') \in Nat
      BY <1>1
    <3> QED
      BY <1>1, <1>8, <3>1, SharedStays DEF GatewayInv
  <2>3. activeTurns[turns[u].req] = u
    BY <1>8, <2>1, <2>2 DEF GatewayInv, ActiveIffRunning, InProgress
  <2>4. turns[u].req \in Requests
    <3>1. turns[u] \in Turn
      BY <1>3
    <3> QED
      BY <3>1 DEF Turn
  <2> QED
    BY <1>2, <2>1, <2>3, <2>4
<1>9. ActiveIffRunning'
  BY <1>1, <1>7, <1>8 DEF ActiveIffRunning, InProgress
<1> QED
  BY <1>5, <1>6, <1>9 DEF GatewayInv

LEMMA GatewayNextInv ==
    ASSUME GatewayAssumption, GatewayInv, [GatewayNext]_gateway PROVE GatewayInv'
<1>1. ASSUME UNCHANGED <<turns, activeTurns, entries>>, open' \subseteq Connections,
             closed' \subseteq Connections, now' \in Nat
      PROVE  GatewayInv'
  <2>1. GatewayTypeOK'
    BY <1>1 DEF GatewayInv, GatewayTypeOK
  <2>2. Besides'
    BY <1>1 DEF GatewayInv, Besides, InProgress
  <2>3. ActiveIffRunning'
    BY <1>1 DEF GatewayInv, ActiveIffRunning, InProgress, Shared
  <2> QED
    BY <2>1, <2>2, <2>3 DEF GatewayInv
<1>2. ASSUME NEW c \in Connections, Connect(c) \/ Close(c) PROVE GatewayInv'
  BY <1>1, <1>2 DEF Connect, Close, GatewayInv, GatewayTypeOK
<1>3. ASSUME Tick \/ UNCHANGED gateway PROVE GatewayInv'
  BY <1>1, <1>3 DEF Tick, gateway, GatewayInv, GatewayTypeOK
<1> QED
  BY <1>2, <1>3, SendTypes, ReplyTypes, FailTypes, InterruptTypes DEF GatewayNext

\* Connections, turns, registrations and the dedup store keep their types for any clients,
\* messages, capacities and times-to-live (socket/control.ts, socket/dedup.store.ts).
THEOREM GatewayTypeCorrect == GatewaySpec => []GatewayTypeOK
<1>1. GatewayInit => GatewayInv
  BY GatewayInitType, GatewayAssumption
<1>2. GatewayInv /\ [GatewayNext]_gateway => GatewayInv'
  BY GatewayNextInv, GatewayAssumption
<1>3. GatewayInv => GatewayTypeOK
  BY DEF GatewayInv
<1> QED
  BY <1>1, <1>2, <1>3, PTL DEF GatewaySpec

\* Whatever the order in which turns start, end and are interrupted, for any number of turns,
\* connections and request ids: an entry of activeTurns is a turn in progress under that id
\* that nobody has aborted, and a turn in progress that nobody has aborted has its entry,
\* unless a turn of its request id ran beside it (handleGatewayMessageSend and
\* handleGatewayMessageInterrupt of socket/control.ts).
THEOREM RegisteredIffRunning == GatewaySpec => []ActiveIffRunning
<1>1. GatewayInit => GatewayInv
  BY GatewayInitType, GatewayAssumption
<1>2. GatewayInv /\ [GatewayNext]_gateway => GatewayInv'
  BY GatewayNextInv, GatewayAssumption
<1>3. GatewayInv => ActiveIffRunning
  BY DEF GatewayInv
<1> QED
  BY <1>1, <1>2, <1>3, PTL DEF GatewaySpec

-----------------------------------------------------------------------------
(* The dedup store. *)

\* The key of a delivery is its own.
OwnKeys == \A t \in 1..Len(turns) : turns[t].key = <<turns[t].msg, t>>

\* What an entry of the store is worth.
Settled(e) ==
    IF e.reply = Nil
    THEN \E t \in 1..Len(turns) : InProgress(t) /\ turns[t].key = e.key
    ELSE turns[e.reply].state = "done" /\ turns[e.reply].key = e.key

\* What makes ClaimsAreSettled inductive, given the types.
StoreInv ==
    /\ OwnKeys
    /\ \A i \in 1..Len(entries) : Settled(entries[i])
    /\ Len(entries) <= MaxEntries + Cardinality(Late)

\* Late replies can be counted.
LEMMA LateIsFinite ==
    ASSUME GatewayTypeOK
    PROVE  /\ IsFiniteSet(Late) /\ Cardinality(Late) \in Nat
           /\ Len(entries) \in Nat /\ Len(turns) \in Nat
<1>1. Len(turns) \in Nat /\ Len(entries) \in Nat
  BY DEF GatewayTypeOK
<1>2. IsFiniteSet(1..Len(turns))
  BY <1>1, UpTo
<1>3. IsFiniteSet(Late)
  BY <1>2, FS_Subset DEF Late
<1> QED
  BY <1>1, <1>3, FS_CardinalityType

\* An entry of the store names a delivery there was.
LEMMA SettledIsKnown ==
    ASSUME GatewayTypeOK, StoreInv, NEW i \in 1..Len(entries)
    PROVE  /\ entries[i].reply # Nil => entries[i].reply \in 1..Len(turns)
           /\ \E t \in 1..Len(turns) : entries[i].key = <<turns[t].msg, t>>
<1>1. entries[i].reply \in 0..Len(turns) /\ Len(turns) \in Nat
  <2>1. entries \in Seq(EntryUpTo(Len(turns))) /\ Len(turns) \in Nat
    BY DEF GatewayTypeOK, EntryUpTo
  <2>2. entries[i] \in EntryUpTo(Len(turns))
    BY <2>1
  <2> QED
    BY <2>1, <2>2 DEF EntryUpTo
<1>2. entries[i].reply # Nil => entries[i].reply \in 1..Len(turns)
  BY <1>1 DEF Nil
<1>3. Settled(entries[i])
  BY DEF StoreInv
<1> QED
  BY <1>2, <1>3 DEF Settled, StoreInv, OwnKeys

\* A claim is granted: its key is new.
LEMMA SendSettles ==
    ASSUME GatewayAssumption, GatewayInv, GatewayTypeOK', StoreInv, NEW c \in Connections,
           NEW m \in Messages, NEW r \in Requests, Send(c, m, r)
    PROVE  /\ StoreInv'
           /\ turns'[Len(turns) + 1].state = "running" /\ Len(turns') = Len(turns) + 1
           /\ \A u \in 1..Len(turns) : turns'[u] = turns[u]
<1> DEFINE t == Len(turns) + 1
           k == Key(m, t)
           claim == Claim(k)
<1>1. turns \in Seq(Turn) /\ Len(turns) \in Nat /\ GatewayTypeOK
  BY DEF GatewayInv, GatewayTypeOK
<1>2. k \in Keys /\ k = <<m, t>>
  BY <1>1 DEF Send, Key, Keys, GatewayAssumption
<1>3. PICK new : /\ turns' = Append(turns, new)
                 /\ new.msg = m /\ new.key = k /\ new.state = claim.state
  BY DEF Send
<1>4. /\ Len(turns') = t /\ turns'[t] = new
      /\ \A u \in 1..Len(turns) : turns'[u] = turns[u]
  <2>1. turns' \in Seq(Turn) /\ DOMAIN turns' = 1..(Len(turns) + 1)
    BY <1>1, <1>3 DEF GatewayTypeOK
  <2> QED
    BY <1>1, <1>3, <2>1
<1>5. entries' = claim.list
  BY DEF Send
<1>6. \A i \in 1..Len(entries) : entries[i].key # k
  <2> TAKE i \in 1..Len(entries)
  <2>1. PICK u \in 1..Len(turns) : entries[i].key = <<turns[u].msg, u>>
    BY <1>1, SettledIsKnown
  <2>2. u # t
    BY <1>1
  <2> QED
    BY <1>2, <2>1, <2>2
<1>7. /\ claim.state = "running" /\ Len(claim.list) <= MaxEntries
      /\ \A j \in 1..Len(claim.list) :
            \/ claim.list[j] = [key |-> k, exp |-> now + Ttl, reply |-> Nil]
            \/ \E i \in 1..Len(entries) : claim.list[j] = entries[i]
  BY <1>1, <1>2, <1>6, ClaimShape
<1> HIDE DEF k, claim
<1>8. \A u \in 1..t : u \in 1..Len(turns) \/ u = t
  BY <1>1
<1>9. t \in 1..t /\ \A u \in 1..Len(turns) : u \in 1..t
  BY <1>1
<1>10. OwnKeys'
  BY <1>2, <1>3, <1>4, <1>8 DEF StoreInv, OwnKeys
<1>11. ASSUME NEW j \in 1..Len(entries') PROVE Settled(entries[j])'
  <2>1. CASE entries'[j] = [key |-> k, exp |-> now + Ttl, reply |-> Nil]
    <3>1. turns'[t].state = "running" /\ turns'[t].key = entries'[j].key
      BY <1>3, <1>4, <1>7, <2>1
    <3> QED
      BY <1>4, <1>9, <2>1, <3>1 DEF Settled, InProgress
  <2>2. ASSUME NEW i \in 1..Len(entries), entries'[j] = entries[i]
        PROVE  Settled(entries[j])'
    <3>1. Settled(entries[i])
      BY DEF StoreInv
    <3>2. entries[i].reply # Nil => entries[i].reply \in 1..Len(turns)
      BY <1>1, SettledIsKnown
    <3>3. CASE entries[i].reply = Nil
      BY <1>4, <1>9, <2>2, <3>1, <3>3 DEF Settled, InProgress
    <3>4. CASE entries[i].reply # Nil
      BY <1>4, <2>2, <3>1, <3>2, <3>4 DEF Settled
    <3> QED
      BY <3>3, <3>4
  <2> QED
    BY <1>5, <1>7, <2>1, <2>2
<1>12. Len(entries') <= MaxEntries + Cardinality(Late')
  <2>1. Cardinality(Late') \in Nat
    <3>1. IsFiniteSet(1..t)
      BY <1>9, UpTo, <1>1
    <3>2. Late' \in SUBSET (1..t)
      BY <1>4 DEF Late
    <3> QED
      BY <3>1, <3>2, FS_Subset, FS_CardinalityType
  <2>3. Len(entries') \in Nat
    BY DEF GatewayTypeOK
  <2>2. MaxEntries \in Nat
    BY DEF GatewayAssumption
  <2> HIDE DEF t
  <2> QED
    BY <1>5, <1>7, <2>1, <2>2, <2>3
<1>13. StoreInv'
  BY <1>10, <1>11, <1>12 DEF StoreInv
<1> QED
  BY <1>3, <1>4, <1>7, <1>13

\* The entries of the turns that do not end stay settled.
LEMMA EndKeeps ==
    ASSUME GatewayTypeOK, StoreInv, NEW t \in 1..Len(turns), InProgress(t),
           NEW s \in {"done", "failed"}, End(t, s),
           NEW i \in 1..Len(entries), entries[i].key # turns[t].key,
           NEW e, e = entries[i]
    PROVE  IF e.reply = Nil
           THEN \E u \in 1..Len(turns') : turns'[u].state = "running" /\ turns'[u].key = e.key
           ELSE turns'[e.reply].state = "done" /\ turns'[e.reply].key = e.key
<1>1. /\ Len(turns') = Len(turns)
      /\ \A u \in 1..Len(turns) : u # t => turns'[u] = turns[u]
  BY EndShape
<1>2. Settled(e)
  BY DEF StoreInv
<1>3. e.reply # Nil => e.reply \in 1..Len(turns)
  BY SettledIsKnown
<1>4. CASE e.reply = Nil
  <2>1. PICK u \in 1..Len(turns) : turns[u].state = "running" /\ turns[u].key = e.key
    BY <1>2, <1>4 DEF Settled, InProgress
  <2>2. u # t
    BY <2>1
  <2> QED
    BY <1>1, <1>4, <2>1, <2>2
<1>5. CASE e.reply # Nil
  <2>1. e.reply # t
    BY <1>2, <1>5 DEF Settled, InProgress
  <2> QED
    BY <1>1, <1>2, <1>3, <1>5, <2>1 DEF Settled
<1> QED
  BY <1>4, <1>5

\* A reply settles its own claim; if that is gone, the store grows by a late reply.
LEMMA ReplySettles ==
    ASSUME GatewayAssumption, GatewayInv, StoreInv, NEW t \in 1..Len(turns), Reply(t)
    PROVE  StoreInv'
<1>1. turns \in Seq(Turn) /\ Len(turns) \in Nat /\ GatewayTypeOK /\ turns[t] \in Turn
  BY DEF GatewayInv, GatewayTypeOK
<1>2. InProgress(t) /\ End(t, "done") /\ entries' = RecordReply(turns[t].key, t)
  BY DEF Reply
<1>3. /\ Len(turns') = Len(turns) /\ turns'[t].state = "done" /\ turns'[t].ended = Len(turns)
      /\ \A u \in 1..Len(turns) : u # t => turns'[u] = turns[u]
      /\ \A u \in 1..Len(turns) : turns'[u].key = turns[u].key /\ turns'[u].msg = turns[u].msg
  BY <1>1, <1>2, EndShape
<1>4. turns[t].key \in Keys
  BY <1>1 DEF Turn
<1>5. /\ Len(entries') <= Len(entries) + 1
      /\ entries' \in Seq(EntryUpTo(Len(turns)))
      /\ \A j \in 1..Len(entries') :
            \/ entries'[j].key = turns[t].key /\ entries'[j].reply = t
            \/ \E i \in 1..Len(entries) : entries'[j] = entries[i] /\ entries[i].key # turns[t].key
  BY <1>1, <1>2, <1>4, RecordReplyShape
<1>6. OwnKeys'
  BY <1>3 DEF StoreInv, OwnKeys
<1>7. ASSUME NEW j \in 1..Len(entries') PROVE Settled(entries[j])'
  <2>1. CASE entries'[j].key = turns[t].key /\ entries'[j].reply = t
    <3>1. t # Nil
      BY DEF Nil
    <3> QED
      BY <1>3, <2>1, <3>1 DEF Settled
  <2>2. ASSUME NEW i \in 1..Len(entries), entries'[j] = entries[i], entries[i].key # turns[t].key
        PROVE  Settled(entries[j])'
    <3>1. IF entries'[j].reply = Nil
          THEN \E u \in 1..Len(turns') :
                  turns'[u].state = "running" /\ turns'[u].key = entries'[j].key
          ELSE turns'[entries'[j].reply].state = "done"
               /\ turns'[entries'[j].reply].key = entries'[j].key
      BY <1>1, <1>2, <2>2, EndKeeps
    <3> QED
      BY <3>1 DEF Settled, InProgress
  <2> QED
    BY <1>5, <2>1, <2>2
<1>8. Len(entries') <= MaxEntries + Cardinality(Late')
  <2>1. /\ IsFiniteSet(Late) /\ Cardinality(Late) \in Nat /\ Len(entries) \in Nat
    BY <1>1, LateIsFinite
  <2>2. t \notin Late
    BY <1>2 DEF Late, InProgress
  <2>3. Late' = Late \cup {t}
    BY <1>3 DEF Late
  <2>4. Cardinality(Late') = Cardinality(Late) + 1
    BY <2>1, <2>2, <2>3, FS_AddElement
  <2>5. Len(entries') \in Nat
    BY <1>5
  <2>6. MaxEntries \in Nat /\ Len(entries) <= MaxEntries + Cardinality(Late)
    BY DEF GatewayAssumption, StoreInv
  <2> QED
    BY <1>5, <2>1, <2>4, <2>5, <2>6
<1> QED
  BY <1>6, <1>7, <1>8 DEF StoreInv

\* A turn that fails takes its claim with it.
LEMMA FailSettles ==
    ASSUME GatewayAssumption, GatewayInv, StoreInv, NEW t \in 1..Len(turns), Fail(t)
    PROVE  StoreInv'
<1>1. turns \in Seq(Turn) /\ Len(turns) \in Nat /\ GatewayTypeOK
  BY DEF GatewayInv, GatewayTypeOK
<1>2. InProgress(t) /\ End(t, "failed") /\ entries' = Without(entries, turns[t].key)
  BY DEF Fail, Release
<1>3. /\ Len(turns') = Len(turns) /\ turns'[t].state = "failed"
      /\ \A u \in 1..Len(turns) : u # t => turns'[u] = turns[u]
      /\ \A u \in 1..Len(turns) : turns'[u].key = turns[u].key /\ turns'[u].msg = turns[u].msg
  BY <1>1, <1>2, EndShape
<1>4. /\ Len(entries') <= Len(entries)
      /\ entries' \in Seq(EntryUpTo(Len(turns)))
      /\ \A j \in 1..Len(entries') :
            \E i \in 1..Len(entries) : entries'[j] = entries[i] /\ entries[i].key # turns[t].key
  BY <1>1, <1>2, WithoutShape
<1>5. OwnKeys'
  BY <1>3 DEF StoreInv, OwnKeys
<1>6. ASSUME NEW j \in 1..Len(entries') PROVE Settled(entries[j])'
  <2>1. PICK i \in 1..Len(entries) : entries'[j] = entries[i] /\ entries[i].key # turns[t].key
    BY <1>4
  <2>2. IF entries'[j].reply = Nil
        THEN \E u \in 1..Len(turns') :
                turns'[u].state = "running" /\ turns'[u].key = entries'[j].key
        ELSE turns'[entries'[j].reply].state = "done"
             /\ turns'[entries'[j].reply].key = entries'[j].key
    BY <1>1, <1>2, <2>1, EndKeeps
  <2> QED
    BY <2>2 DEF Settled, InProgress
<1>7. Len(entries') <= MaxEntries + Cardinality(Late')
  <2>1. Late' = Late
    BY <1>2, <1>3 DEF Late, InProgress
  <2>2. Cardinality(Late) \in Nat /\ Len(entries) \in Nat /\ Len(entries') \in Nat
    BY <1>1, <1>4, LateIsFinite
  <2>3. MaxEntries \in Nat /\ Len(entries) <= MaxEntries + Cardinality(Late)
    BY DEF GatewayAssumption, StoreInv
  <2> QED
    BY <1>4, <2>1, <2>2, <2>3
<1> QED
  BY <1>5, <1>6, <1>7 DEF StoreInv

\* The store, action by action.
LEMMA StoreNext ==
    ASSUME GatewayAssumption, GatewayInv, GatewayTypeOK', StoreInv, [GatewayNext]_gateway
    PROVE  StoreInv'
<1>1. ASSUME UNCHANGED <<turns, entries>> PROVE StoreInv'
  BY <1>1 DEF StoreInv, OwnKeys, Settled, InProgress, Late
<1>2. ASSUME NEW c \in Connections, NEW req, NEW msg, Interrupt(c, req, msg) PROVE StoreInv'
  <2>1. /\ Len(turns') = Len(turns)
        /\ \A t \in 1..Len(turns) :
              /\ turns'[t].state = turns[t].state /\ turns'[t].key = turns[t].key
              /\ turns'[t].msg = turns[t].msg /\ turns'[t].ended = turns[t].ended
    BY <1>2, InterruptShape DEF GatewayInv
  <2>2. entries' = entries
    BY <1>2 DEF Interrupt
  <2>3. OwnKeys'
    BY <2>1 DEF StoreInv, OwnKeys
  <2>4. Late' = Late
    BY <2>1 DEF Late
  <2>5. ASSUME NEW i \in 1..Len(entries') PROVE Settled(entries[i])'
    <3>1. i \in 1..Len(entries) /\ entries'[i] = entries[i] /\ Settled(entries[i])
      BY <2>2 DEF StoreInv
    <3>2. entries[i].reply # Nil => entries[i].reply \in 1..Len(turns)
      BY <3>1, SettledIsKnown DEF GatewayInv
    <3>3. CASE entries[i].reply = Nil
      BY <2>1, <3>1, <3>3 DEF Settled, InProgress
    <3>4. CASE entries[i].reply # Nil
      BY <2>1, <3>1, <3>2, <3>4 DEF Settled
    <3> QED
      BY <3>3, <3>4
  <2> QED
    BY <2>2, <2>3, <2>4, <2>5 DEF StoreInv
<1>3. ASSUME NEW c \in Connections, Connect(c) \/ Close(c) PROVE StoreInv'
  BY <1>1, <1>3 DEF Connect, Close
<1>4. ASSUME Tick \/ UNCHANGED gateway PROVE StoreInv'
  BY <1>1, <1>4 DEF Tick, gateway
<1> QED
  BY <1>2, <1>3, <1>4, SendSettles, ReplySettles, FailSettles DEF GatewayNext

\* The store is empty at first.
LEMMA StoreInitially == ASSUME GatewayAssumption, GatewayInit PROVE StoreInv
<1>1. /\ turns = <<>> /\ entries = <<>>
      /\ Len(<<>>) = 0 /\ 1..0 = {}
  BY DEF GatewayInit
<1>2. Late = {} /\ Cardinality({}) = 0
  BY <1>1, FS_EmptySet DEF Late
<1>3. MaxEntries \in Nat
  BY DEF GatewayAssumption
<1>4. Len(entries) <= MaxEntries + Cardinality(Late)
  BY <1>1, <1>2, <1>3
<1> QED
  BY <1>1, <1>4 DEF StoreInv, OwnKeys

\* However long turns take, for any time-to-live, capacity and number of deliveries: a claim
\* without a reply is that of a turn in progress, a cached reply is that of its delivery, and
\* only replies that came since the last claim are beyond the capacity (tryClaim, recordReply
\* and release of socket/dedup.store.ts, dispatch of socket/module.ts).
THEOREM NoClaimIsLeft == GatewaySpec => []ClaimsAreSettled
<1>1. GatewayInit => GatewayInv /\ StoreInv
  BY GatewayInitType, StoreInitially, GatewayAssumption
<1>2. GatewayInv /\ StoreInv /\ [GatewayNext]_gateway => GatewayInv' /\ StoreInv'
  <2> SUFFICES ASSUME GatewayInv, StoreInv, [GatewayNext]_gateway PROVE GatewayInv' /\ StoreInv'
    OBVIOUS
  <2>1. GatewayInv'
    BY GatewayNextInv, GatewayAssumption
  <2>2. GatewayTypeOK'
    BY <2>1 DEF GatewayInv
  <2> QED
    BY <2>1, <2>2, StoreNext, GatewayAssumption
<1>3. StoreInv => ClaimsAreSettled
  BY DEF StoreInv, ClaimsAreSettled, Settled
<1> QED
  BY <1>1, <1>2, <1>3, PTL DEF GatewaySpec
-----------------------------------------------------------------------------
(* Pool. *)

\* The tasks that run, and sequences without repetitions.
RunningTasks == {t \in PoolTasks : task[t] = "running"}
Distinct(s) == \A i, j \in 1..Len(s) : s[i] = s[j] => i = j

\* The elements of a sequence without repetitions, counted and cut in two.
LEMMA DistinctIsCounted ==
    ASSUME NEW S, NEW s \in Seq(S), Distinct(s)
    PROVE  IsFiniteSet(ToSet(s)) /\ Cardinality(ToSet(s)) = Len(s)
<1>1. Len(s) \in Nat /\ DOMAIN s = 1..Len(s)
  OBVIOUS
<1>2. IsFiniteSet(1..Len(s)) /\ Cardinality(1..Len(s)) = Len(s)
  BY <1>1, FS_Interval
<1>3. ToSet(s) = {s[i] : i \in 1..Len(s)}
  BY <1>1 DEF ToSet
<1>4. s \in Bijection(1..Len(s), ToSet(s))
  <2>1. s = [i \in 1..Len(s) |-> s[i]]
    BY <1>1
  <2>2. s \in [1..Len(s) -> ToSet(s)]
    BY <1>3, <2>1
  <2> QED
    BY <1>3, <2>2 DEF Distinct, Bijection, Injection, Surjection, IsInjective
<1> QED
  BY <1>2, <1>4, FS_Bijection DEF ExistsBijection

\* A sequence without repetitions cut in two.
LEMMA CutInTwo ==
    ASSUME NEW S, NEW s \in Seq(S), Distinct(s), NEW n \in 0..Len(s)
    PROVE  LET front == SubSeq(s, 1, n)
               back == SubSeq(s, n + 1, Len(s))
           IN  /\ front \in Seq(S) /\ back \in Seq(S) /\ Len(front) = n
               /\ Distinct(front) /\ Distinct(back) /\ Len(back) = Len(s) - n
               /\ ToSet(front) \subseteq ToSet(s) /\ ToSet(back) = ToSet(s) \ ToSet(front)
<1> DEFINE front == SubSeq(s, 1, n)
           back == SubSeq(s, n + 1, Len(s))
<1>1. Len(s) \in Nat /\ n \in Nat /\ n <= Len(s) /\ DOMAIN s = 1..Len(s)
  OBVIOUS
<1>2. front \in Seq(S) /\ Len(front) = n /\ \A i \in 1..n : front[i] = s[i]
  BY <1>1
<1>3. /\ back \in Seq(S) /\ Len(back) = Len(s) - n
      /\ \A i \in 1..(Len(s) - n) : back[i] = s[n + i]
  <2>1. n + 1 \in Int /\ Len(s) \in Int /\ \A i \in (n + 1)..Len(s) : s[i] \in S
    BY <1>1
  <2>2. /\ back \in Seq(S) /\ Len(back) = IF n + 1 <= Len(s) THEN Len(s) - (n + 1) + 1 ELSE 0
        /\ \A i \in 1..(Len(s) - (n + 1) + 1) : back[i] = s[(n + 1) + i - 1]
    BY <2>1, SubSeqProperties
  <2>3. /\ (IF n + 1 <= Len(s) THEN Len(s) - (n + 1) + 1 ELSE 0) = Len(s) - n
        /\ Len(s) - (n + 1) + 1 = Len(s) - n
        /\ \A i \in 1..(Len(s) - n) : (n + 1) + i - 1 = n + i
    <3>1. \A k, l \in Nat : k <= l =>
             /\ (IF k + 1 <= l THEN l - (k + 1) + 1 ELSE 0) = l - k
             /\ l - (k + 1) + 1 = l - k
      OBVIOUS
    <3>2. \A i \in 1..(Len(s) - n) : (n + 1) + i - 1 = n + i
      BY <1>1
    <3> QED
      BY <1>1, <3>1, <3>2
  <2> HIDE DEF back
  <2> QED
    BY <2>2, <2>3
<1>4. DOMAIN front = 1..n /\ DOMAIN back = 1..(Len(s) - n)
  BY <1>2, <1>3
<1> HIDE DEF front, back
<1>5. ToSet(front) = {s[i] : i \in 1..n}
  BY <1>2, <1>4 DEF ToSet
<1>6. ToSet(back) = {s[n + i] : i \in 1..(Len(s) - n)}
  BY <1>3, <1>4 DEF ToSet
<1>7. ToSet(s) = {s[i] : i \in 1..Len(s)}
  BY <1>1 DEF ToSet
<1>8. \A i \in 1..n : i \in 1..Len(s)
  BY <1>1
<1>9. \A i \in 1..(Len(s) - n) : n + i \in 1..Len(s) /\ n + i \notin 1..n
  BY <1>1
<1>10. \A i \in 1..Len(s) : i \notin 1..n => i - n \in 1..(Len(s) - n) /\ n + (i - n) = i
  BY <1>1
<1>11. Distinct(front)
  BY <1>2, <1>8 DEF Distinct
<1>12. Distinct(back)
  <2> SUFFICES ASSUME NEW i \in 1..Len(back), NEW j \in 1..Len(back), back[i] = back[j]
               PROVE  i = j
    BY DEF Distinct
  <2>1. n + i = n + j
    BY <1>3, <1>9 DEF Distinct
  <2> QED
    BY <1>1, <1>3, <2>1
<1>13. \A x \in ToSet(back) : x \in ToSet(s) /\ x \notin ToSet(front)
  BY <1>5, <1>6, <1>7, <1>8, <1>9 DEF Distinct
<1>14. \A x \in ToSet(s) : x \notin ToSet(front) => x \in ToSet(back)
  BY <1>5, <1>6, <1>7, <1>10
<1>15. ToSet(front) \subseteq ToSet(s)
  BY <1>5, <1>7, <1>8
<1>16. ToSet(back) = ToSet(s) \ ToSet(front)
  BY <1>13, <1>14
<1>17. /\ front \in Seq(S) /\ back \in Seq(S) /\ Len(front) = n
       /\ Distinct(front) /\ Distinct(back) /\ Len(back) = Len(s) - n
       /\ ToSet(front) \subseteq ToSet(s) /\ ToSet(back) = ToSet(s) \ ToSet(front)
  BY <1>2, <1>3, <1>11, <1>12, <1>15, <1>16
<1> QED
  BY <1>17 DEF front, back

-----------------------------------------------------------------------------
(* The slots. *)

\* What run() or the end of a task hands to drain: the queue, with or without a new task.
MayWait(waiting) ==
    /\ waiting \in Seq(PoolTasks) /\ Distinct(waiting)
    /\ \A t \in ToSet(waiting) : task[t] \in {"new", "queued"}
    /\ \A t \in PoolTasks : task[t] = "queued" => t \in ToSet(waiting)

\* A task has its result when it is settled, and not before.
ResultsAreLast == \A t \in PoolTasks : task[t] # "settled" => result[t] = "none"

\* The slots in use are the running tasks, and who waits for one is in the queue.
Slots ==
    /\ queue \in Seq(PoolTasks) /\ Distinct(queue) /\ active \in 0..MaxConcurrency
    /\ task \in [PoolTasks -> {"new", "refused", "queued", "running", "settled"}]
    /\ result \in [PoolTasks -> {"none", "completed", "failed", "timeout"}]
    /\ SlotsAreCounted /\ ResultsAreLast

\* The limits, apart from the assumption's names.
LEMMA PoolLimits == MaxTasks \in Nat /\ MaxConcurrency \in Nat \ {0} /\ QueueLimit \in Nat \ {0}
BY PoolAssumption, Zenon DEF PoolAssumption

\* The tasks, counted.
LEMMA TasksAreFinite ==
    ASSUME NEW S \in SUBSET PoolTasks
    PROVE  IsFiniteSet(S) /\ Cardinality(S) \in Nat
<1>1. IsFiniteSet(PoolTasks)
  BY PoolLimits, FS_Interval DEF PoolTasks
<1>2. IsFiniteSet(S)
  BY <1>1, FS_Subset
<1> QED
  BY <1>2, FS_CardinalityType

\* What is in a sequence of tasks is a task.
LEMMA TasksInSeq == ASSUME NEW s \in Seq(PoolTasks) PROVE ToSet(s) \subseteq PoolTasks
<1>1. DOMAIN s = 1..Len(s) /\ \A i \in 1..Len(s) : s[i] \in PoolTasks
  OBVIOUS
<1> QED
  BY <1>1 DEF ToSet

\* Who is in the queue waits.
LEMMA QueueMayWait ==
    ASSUME Slots
    PROVE  MayWait(queue)
BY DEF Slots, SlotsAreCounted, MayWait

\* How many of the waiting tasks drain starts.
LEMMA StartedShape ==
    ASSUME NEW waiting \in Seq(PoolTasks), Distinct(waiting),
           NEW busy \in 0..MaxConcurrency
    PROVE  LET started == Started(waiting, busy)
               rest == SubSeq(waiting, Len(started) + 1, Len(waiting))
           IN  /\ started \in Seq(PoolTasks) /\ Distinct(started)
               /\ rest \in Seq(PoolTasks) /\ Distinct(rest)
               /\ ToSet(started) \subseteq ToSet(waiting)
               /\ ToSet(rest) = ToSet(waiting) \ ToSet(started)
               /\ busy + Len(started) \in 0..MaxConcurrency
               /\ rest # <<>> => busy + Len(started) = MaxConcurrency
<1> DEFINE n == IF Len(waiting) <= MaxConcurrency - busy THEN Len(waiting)
                ELSE MaxConcurrency - busy
           started == SubSeq(waiting, 1, n)
           rest == SubSeq(waiting, n + 1, Len(waiting))
<1>1. Len(waiting) \in Nat /\ MaxConcurrency \in Nat /\ busy \in Nat /\ busy <= MaxConcurrency
  BY PoolLimits
<1>2. /\ n \in 0..Len(waiting) /\ n \in Nat /\ busy + n \in 0..MaxConcurrency
      /\ n # Len(waiting) => busy + n = MaxConcurrency
  BY <1>1
<1>3. Started(waiting, busy) = started
  BY DEF Started
<1> HIDE DEF n
<1>4. /\ started \in Seq(PoolTasks) /\ Distinct(started) /\ Len(started) = n
      /\ rest \in Seq(PoolTasks) /\ Distinct(rest) /\ Len(rest) = Len(waiting) - n
      /\ ToSet(started) \subseteq ToSet(waiting)
      /\ ToSet(rest) = ToSet(waiting) \ ToSet(started)
  BY <1>2, CutInTwo
<1> HIDE DEF started
<1>5. rest # <<>> => n # Len(waiting)
  <2> HIDE DEF rest
  <2> QED
    BY <1>1, <1>2, <1>4
<1> QED
  BY <1>2, <1>3, <1>4, <1>5

\* What Proceed does to the sets: some of the waiting tasks, S, take the free slots.
Proceeded(waiting, over, s, unsettled) ==
    /\ Slots'
    /\ \A t \in PoolTasks :
          result'[t] = IF t \in over /\ task[t] = "running" THEN s ELSE result[t]
    /\ \E S \in SUBSET ToSet(waiting) :
          /\ RunningTasks' = (RunningTasks \ over) \cup S
          /\ pending' = unsettled \cup S
          /\ stdin' = stdin \cup IF child' = "running" THEN S ELSE {}

\* The next in the queue takes the slot that got free.
LEMMA ProceedShape ==
    ASSUME Slots, NEW waiting, MayWait(waiting),
           NEW over \in SUBSET PoolTasks, NEW unsettled,
           NEW s \in {"none", "completed", "failed", "timeout"},
           Proceed(waiting, over, s, unsettled)
    PROVE  Proceeded(waiting, over, s, unsettled)
<1> DEFINE leaving == {t \in over : task[t] = "running"}
           busy == active - Cardinality(leaving)
           started == Started(waiting, busy)
           S == ToSet(started)
<1>1. /\ active' = busy + Len(started)
      /\ queue' = SubSeq(waiting, Len(started) + 1, Len(waiting))
      /\ task' = [t \in PoolTasks |-> CASE t \in leaving -> "settled"
                                      [] t \in S -> "running"
                                      [] t \in ToSet(waiting) \ S -> "queued"
                                      [] OTHER -> task[t]]
      /\ result' = [t \in PoolTasks |-> IF t \in leaving THEN s ELSE result[t]]
      /\ pending' = unsettled \cup S
      /\ stdin' = stdin \cup IF child' = "running" THEN S ELSE {}
  BY DEF Proceed
<1>2. /\ task \in [PoolTasks -> {"new", "refused", "queued", "running", "settled"}]
      /\ result \in [PoolTasks -> {"none", "completed", "failed", "timeout"}]
      /\ active = Cardinality(RunningTasks) /\ active \in 0..MaxConcurrency
      /\ MaxConcurrency \in Nat
  BY PoolLimits DEF Slots, SlotsAreCounted, RunningTasks
<1>3. /\ waiting \in Seq(PoolTasks) /\ Distinct(waiting)
      /\ \A t \in ToSet(waiting) : task[t] \in {"new", "queued"}
      /\ \A t \in PoolTasks : task[t] = "queued" => t \in ToSet(waiting)
  BY DEF MayWait
<1>4. leaving \in SUBSET RunningTasks /\ RunningTasks \in SUBSET PoolTasks
  BY DEF RunningTasks
<1>5. \A t \in RunningTasks : t \in leaving <=> t \in over
  BY DEF RunningTasks
<1>6. \A t \in leaving : task[t] = "running"
  OBVIOUS
<1>7. \A t \in PoolTasks : t \in leaving <=> t \in over /\ task[t] = "running"
  OBVIOUS
<1> HIDE DEF leaving
<1>8. /\ IsFiniteSet(RunningTasks) /\ IsFiniteSet(leaving)
      /\ Cardinality(leaving) \in Nat /\ Cardinality(leaving) <= Cardinality(RunningTasks)
      /\ IsFiniteSet(RunningTasks \ leaving)
      /\ Cardinality(RunningTasks \ leaving) = busy
  <2>1. IsFiniteSet(RunningTasks) /\ leaving \in SUBSET PoolTasks
    BY <1>4, TasksAreFinite
  <2>2. IsFiniteSet(leaving) /\ Cardinality(leaving) \in Nat
    BY <2>1, TasksAreFinite
  <2>3. /\ IsFiniteSet(RunningTasks \ leaving)
        /\ Cardinality(RunningTasks \ leaving)
             = Cardinality(RunningTasks) - Cardinality(RunningTasks \cap leaving)
    BY <2>1, FS_Difference
  <2>4. RunningTasks \cap leaving = leaving
    BY <1>4
  <2>5. Cardinality(leaving) <= Cardinality(RunningTasks)
    BY <1>4, <2>1, FS_Subset
  <2> QED
    BY <1>2, <2>1, <2>2, <2>3, <2>4, <2>5
<1>9. busy \in 0..MaxConcurrency
  BY <1>2, <1>8
<1> HIDE DEF busy
<1>10. /\ started \in Seq(PoolTasks) /\ Distinct(started)
       /\ queue' \in Seq(PoolTasks) /\ Distinct(queue')
       /\ S \subseteq ToSet(waiting) /\ ToSet(queue') = ToSet(waiting) \ S
       /\ active' \in 0..MaxConcurrency
       /\ queue' # <<>> => active' = MaxConcurrency
  BY <1>1, <1>3, <1>9, StartedShape
<1>11. ToSet(waiting) \subseteq PoolTasks
  BY <1>3, TasksInSeq
<1>12. IsFiniteSet(S) /\ Cardinality(S) = Len(started)
  BY <1>10, DistinctIsCounted
<1> HIDE DEF started
<1>13. S \cap RunningTasks = {}
  BY <1>3, <1>10 DEF RunningTasks
<1> HIDE DEF S
<1>14. ASSUME NEW t \in PoolTasks
       PROVE  task'[t] = CASE t \in leaving -> "settled"
                           [] t \in S -> "running"
                           [] t \in ToSet(waiting) \ S -> "queued"
                           [] OTHER -> task[t]
  BY <1>1
<1>15. task' \in [PoolTasks -> {"new", "refused", "queued", "running", "settled"}]
  <2>1. \A t \in PoolTasks : task'[t] \in {"new", "refused", "queued", "running", "settled"}
    BY <1>2, <1>14
  <2>2. DOMAIN task' = PoolTasks /\ task' = [t \in DOMAIN task' |-> task'[t]]
    BY <1>1
  <2> QED
    BY <2>1, <2>2
<1>16. \A t \in PoolTasks : t \in leaving => t \notin ToSet(waiting)
  BY <1>3, <1>6
<1>17. \A t \in PoolTasks : task'[t] = "running" <=> (task[t] = "running" /\ t \notin leaving) \/ t \in S
  BY <1>10, <1>14, <1>16, <1>3
<1>18. \A t \in PoolTasks : task'[t] = "queued" <=> t \in ToSet(waiting) \ S
  BY <1>10, <1>14, <1>16, <1>3
<1>19. RunningTasks' = (RunningTasks \ leaving) \cup S
  BY <1>10, <1>11, <1>17 DEF RunningTasks
<1>20. ToSet(queue') = {t \in PoolTasks : task'[t] = "queued"}
  BY <1>10, <1>11, <1>18
<1>21. active' = Cardinality(RunningTasks')
  <2>1. Cardinality((RunningTasks \ leaving) \cup S)
          = Cardinality(RunningTasks \ leaving) + Cardinality(S)
            - Cardinality((RunningTasks \ leaving) \cap S)
    BY <1>8, <1>12, FS_Union
  <2>2. (RunningTasks \ leaving) \cap S = {}
    BY <1>13
  <2>3. Cardinality((RunningTasks \ leaving) \cap S) = 0
    BY <2>2, FS_EmptySet
  <2>4. Len(started) \in Nat /\ busy \in Nat
    BY <1>9, <1>10
  <2> QED
    BY <1>1, <1>8, <1>12, <1>19, <2>1, <2>3, <2>4
<1>22. SlotsAreCounted'
  <2>1. active' = Cardinality({t \in PoolTasks : task'[t] = "running"})
    BY <1>21, Zenon DEF RunningTasks
  <2>2. queue' # <<>> => active' = MaxConcurrency
    BY <1>10
  <2> QED
    BY <1>20, <2>1, <2>2, Zenon DEF SlotsAreCounted
<1>23. \A t \in PoolTasks : result'[t] = IF t \in leaving THEN s ELSE result[t]
  BY <1>1
<1>24. result' \in [PoolTasks -> {"none", "completed", "failed", "timeout"}]
  BY <1>1, <1>2
<1>25. ResultsAreLast'
  <2> SUFFICES ASSUME NEW t \in PoolTasks, task'[t] # "settled" PROVE result'[t] = "none"
    BY DEF ResultsAreLast
  <2>1. t \notin leaving
    <3>1. t \in leaving => task'[t] = "settled"
      BY <1>10, <1>14, <1>16
    <3> QED
      BY <3>1
  <2>2. task[t] # "settled"
    <3>1. ASSUME task[t] = "settled" PROVE task'[t] = "settled"
      <4>1. t \notin ToSet(waiting) /\ t \notin S
        BY <1>3, <1>10, <3>1
      <4> QED
        BY <1>14, <2>1, <3>1, <4>1
    <3> QED
      BY <3>1
  <2> QED
    BY <1>23, <2>1, <2>2 DEF Slots, ResultsAreLast
<1>26. Slots'
  BY <1>10, <1>15, <1>22, <1>24, <1>25, Zenon DEF Slots
<1>27. RunningTasks' = (RunningTasks \ over) \cup S
  BY <1>5, <1>19
<1>28. \A t \in PoolTasks :
          result'[t] = IF t \in over /\ task[t] = "running" THEN s ELSE result[t]
  BY <1>7, <1>23
<1> QED
  BY <1>1, <1>10, <1>26, <1>27, <1>28 DEF Proceeded

-----------------------------------------------------------------------------
(* Whose answer a line is. *)

\* Nothing has failed so far.
AllWell == \A t \in PoolTasks : result[t] \in {"none", "completed"}

\* As long as no task has failed or timed out: who waits is who runs, and every answer on its
\* way is for one of them, of which there is no other and no line left to answer.
Orderly ==
    /\ pending = RunningTasks /\ stdin \subseteq pending
    /\ \A i \in 1..Len(stdout) : stdout[i].of # 0 => stdout[i].of \in pending \ stdin
    /\ \A i, j \in 1..Len(stdout) : stdout[i].of = stdout[j].of /\ stdout[i].of # 0 => i = j
    /\ \A t \in PoolTasks : answerOf[t] \in {t, 0}

\* With the own-promise adapter there is no child to hear from.
OwnHasNoLines == adapter = "own promise" => child # "running" /\ stdin = {} /\ stdout = <<>>

\* The child, its lines and who asked for them.
Ports ==
    /\ adapter \in Adapters /\ pending \subseteq PoolTasks
    /\ child \in {"none", "running", "exited"}
    /\ stdin \subseteq PoolTasks /\ stdout \in Seq(Lines)
    /\ answerOf \in [PoolTasks -> PoolTasks \cup {0}]
    /\ OwnHasNoLines

\* The inductive invariant: the order of the lines is kept as long as nothing failed.
PoolInv == Slots /\ Ports /\ (AllWell => Orderly)

\* A task is a number.
LEMMA TasksAreNumbers == PoolTasks \subseteq Nat /\ 0 \notin PoolTasks
BY PoolLimits DEF PoolTasks

\* A result that is not well stays, and the tasks that end badly are not well.
LEMMA WellBefore ==
    ASSUME Slots, AllWell', NEW over, NEW s,
           \A t \in PoolTasks :
              result'[t] = IF t \in over /\ task[t] = "running" THEN s ELSE result[t]
    PROVE  /\ AllWell
           /\ s \notin {"none", "completed"} => RunningTasks \cap over = {}
<1>1. \A t \in PoolTasks : task[t] = "running" => result[t] = "none"
  BY DEF Slots, ResultsAreLast
<1>2. \A t \in PoolTasks : result'[t] \in {"none", "completed"}
  BY DEF AllWell
<1>3. AllWell
  BY <1>1, <1>2 DEF AllWell
<1>4. ASSUME s \notin {"none", "completed"}, NEW t \in RunningTasks \cap over PROVE FALSE
  BY <1>2, <1>4 DEF RunningTasks
<1> QED
  BY <1>3, <1>4

\* What a step does to the child and its lines before drain fills the slots: who still waits
\* is who still runs, and the lines there are then are for them.
LinesStayInOrder(over, unsettled) ==
    /\ adapter' = adapter /\ child' \in {"none", "running", "exited"}
    /\ adapter = "own promise" => child' # "running" /\ stdout' = <<>>
    /\ stdout' \in Seq(Lines) /\ answerOf' \in [PoolTasks -> PoolTasks \cup {0}]
    /\ AllWell /\ AllWell' =>
          /\ unsettled = RunningTasks \ over /\ stdin \subseteq unsettled
          /\ \A i \in 1..Len(stdout') :
                stdout'[i].of # 0 => stdout'[i].of \in unsettled \ stdin
          /\ \A i, j \in 1..Len(stdout') :
                stdout'[i].of = stdout'[j].of /\ stdout'[i].of # 0 => i = j
          /\ \A t \in PoolTasks : answerOf'[t] \in {t, 0}

\* The end of a task or a call keeps the order.
LEMMA ProceedKeepsOrder ==
    ASSUME PoolInv, NEW waiting, MayWait(waiting), NEW over \in SUBSET PoolTasks,
           NEW unsettled \in SUBSET PoolTasks,
           NEW s \in {"none", "completed", "failed", "timeout"},
           Proceed(waiting, over, s, unsettled), LinesStayInOrder(over, unsettled)
    PROVE  PoolInv'
<1>0. Slots /\ Ports
  BY DEF PoolInv
<1>x. Proceeded(waiting, over, s, unsettled)
  BY <1>0, ProceedShape
<1>1. /\ Slots'
      /\ \A t \in PoolTasks :
            result'[t] = IF t \in over /\ task[t] = "running" THEN s ELSE result[t]
  BY <1>x DEF Proceeded
<1>2. PICK S \in SUBSET ToSet(waiting) :
        /\ RunningTasks' = (RunningTasks \ over) \cup S
        /\ pending' = unsettled \cup S
        /\ stdin' = stdin \cup IF child' = "running" THEN S ELSE {}
  BY <1>x DEF Proceeded
<1>3. S \subseteq PoolTasks
  <2>1. waiting \in Seq(PoolTasks)
    BY DEF MayWait
  <2>2. ToSet(waiting) \subseteq PoolTasks
    BY <2>1, TasksInSeq
  <2> QED
    BY <1>2, <2>2
<1>4. /\ adapter \in Adapters /\ stdin \subseteq PoolTasks /\ OwnHasNoLines
  BY <1>0 DEF Ports
<1>5. pending' \subseteq PoolTasks /\ stdin' \subseteq PoolTasks
  BY <1>2, <1>3, <1>4
<1>6. OwnHasNoLines'
  BY <1>2, <1>4 DEF OwnHasNoLines, LinesStayInOrder
<1>7. Ports'
  BY <1>4, <1>5, <1>6 DEF Ports, LinesStayInOrder
<1>8. S \cap RunningTasks = {}
  BY <1>2 DEF MayWait, RunningTasks
<1>9. ASSUME AllWell' PROVE Orderly'
  <2>1. AllWell
    BY <1>0, <1>1, <1>9, WellBefore
  <2>2. /\ unsettled = RunningTasks \ over /\ stdin \subseteq unsettled
        /\ \A i \in 1..Len(stdout') :
              stdout'[i].of # 0 => stdout'[i].of \in unsettled \ stdin
        /\ \A i, j \in 1..Len(stdout') :
              stdout'[i].of = stdout'[j].of /\ stdout'[i].of # 0 => i = j
        /\ \A t \in PoolTasks : answerOf'[t] \in {t, 0}
    BY <1>9, <2>1 DEF LinesStayInOrder
  <2>3. pending' = RunningTasks' /\ stdin' \subseteq pending'
    BY <1>2, <2>2
  <2>4. unsettled \cap S = {}
    BY <1>8, <2>2
  <2>5. \A x \in unsettled \ stdin : x \in pending' \ stdin'
    BY <1>2, <2>4
  <2> QED
    BY <2>2, <2>3, <2>5 DEF Orderly
<1> QED
  BY <1>1, <1>7, <1>9 DEF PoolInv

\* The invariant, action by action.
LEMMA PoolInitInv == ASSUME PoolInit PROVE PoolInv
<1>1. RunningTasks = {} /\ ToSet(<<>>) = {}
  BY DEF PoolInit, RunningTasks, ToSet
<1>2. {t \in PoolTasks : task[t] = "running"} = {} /\ {t \in PoolTasks : task[t] = "queued"} = {}
  BY DEF PoolInit
<1>3. Slots
  BY <1>1, <1>2, FS_EmptySet, PoolLimits
     DEF PoolInit, Slots, SlotsAreCounted, ResultsAreLast, Distinct
<1>4. Ports
  BY DEF PoolInit, Ports, OwnHasNoLines
<1>5. Orderly
  BY <1>1 DEF PoolInit, Orderly
<1> QED
  BY <1>3, <1>4, <1>5 DEF PoolInv

LEMMA RunInv == ASSUME PoolInv, NEW t \in PoolTasks, Run(t) PROVE PoolInv'
<1>0. Slots /\ Ports /\ task[t] = "new" /\ UNCHANGED <<adapter, stdout, answerOf>>
  BY DEF PoolInv, Run
<1>1. CASE Len(queue) >= QueueLimit
  <2>1. /\ task' = [task EXCEPT ![t] = "refused"]
        /\ UNCHANGED <<queue, active, result, pending, child, stdin>>
    BY <1>1 DEF Run
  <2>2. \A u \in PoolTasks : u # t => task'[u] = task[u]
    BY <1>0, <2>1 DEF Slots
  <2>3. task'[t] = "refused"
    BY <1>0, <2>1 DEF Slots
  <2>4. RunningTasks' = RunningTasks
    BY <1>0, <2>2, <2>3 DEF RunningTasks
  <2>5. {u \in PoolTasks : task'[u] = "queued"} = {u \in PoolTasks : task[u] = "queued"}
    BY <1>0, <2>2, <2>3
  <2>6. {u \in PoolTasks : task'[u] = "running"} = {u \in PoolTasks : task[u] = "running"}
    BY <2>4 DEF RunningTasks
  <2>7. SlotsAreCounted'
    <3>1. SlotsAreCounted
      BY <1>0 DEF Slots
    <3> QED
      BY <2>1, <2>5, <2>6, <3>1 DEF SlotsAreCounted
  <2>8. ResultsAreLast'
    BY <1>0, <2>1, <2>2, <2>3 DEF Slots, ResultsAreLast
  <2>9. task' \in [PoolTasks -> {"new", "refused", "queued", "running", "settled"}]
    BY <1>0, <2>1 DEF Slots
  <2>10. Slots'
    BY <1>0, <2>1, <2>7, <2>8, <2>9 DEF Slots, Distinct
  <2>11. Ports'
    BY <1>0, <2>1 DEF Ports, OwnHasNoLines
  <2>12. AllWell' => Orderly'
    BY <1>0, <2>1, <2>4 DEF PoolInv, AllWell, Orderly
  <2> QED
    BY <2>10, <2>11, <2>12 DEF PoolInv
<1>2. CASE ~(Len(queue) >= QueueLimit)
  <2>1. /\ child' = IF adapter = "shared child" /\ child = "none" THEN "running" ELSE child
        /\ Proceed(Append(queue, t), {}, "none", pending)
    BY <1>2 DEF Run
  <2> DEFINE waiting == Append(queue, t)
  <2>2. /\ queue \in Seq(PoolTasks) /\ Distinct(queue)
        /\ ToSet(queue) = {u \in PoolTasks : task[u] = "queued"}
    BY <1>0 DEF Slots, SlotsAreCounted
  <2>3. /\ waiting \in Seq(PoolTasks) /\ Len(waiting) = Len(queue) + 1 /\ Len(queue) \in Nat
        /\ \A i \in 1..Len(queue) : waiting[i] = queue[i]
        /\ waiting[Len(queue) + 1] = t
    BY <2>2, AppendProperties
  <2> HIDE DEF waiting
  <2>4. /\ DOMAIN waiting = 1..(Len(queue) + 1) /\ DOMAIN queue = 1..Len(queue)
    BY <2>2, <2>3
  <2>5. \A i \in 1..(Len(queue) + 1) : i = Len(queue) + 1 \/ i \in 1..Len(queue)
    BY <2>3
  <2>6. \A i \in 1..Len(queue) : i \in 1..(Len(queue) + 1) /\ queue[i] \in ToSet(queue)
    BY <2>3, <2>4 DEF ToSet
  <2>7. \A u \in ToSet(waiting) : u = t \/ u \in ToSet(queue)
    BY <2>3, <2>4, <2>5, <2>6 DEF ToSet
  <2>8. \A u \in ToSet(queue) : u \in ToSet(waiting)
    BY <2>3, <2>4, <2>6 DEF ToSet
  <2>9. t \notin ToSet(queue)
    BY <1>0, <2>2
  <2>10. Distinct(waiting)
    BY <2>2, <2>3, <2>5, <2>6, <2>9 DEF Distinct
  <2>11. MayWait(waiting)
    BY <1>0, <2>2, <2>3, <2>7, <2>8, <2>10 DEF MayWait
  <2>12. /\ pending \subseteq PoolTasks /\ child' \in {"none", "running", "exited"}
         /\ adapter = "own promise" => child' # "running" /\ stdout' = <<>>
         /\ stdout' \in Seq(Lines) /\ answerOf' \in [PoolTasks -> PoolTasks \cup {0}]
    BY <1>0, <2>1 DEF Ports, OwnHasNoLines
  <2>13. AllWell =>
              /\ pending = RunningTasks \ {} /\ stdin \subseteq pending
              /\ \A i \in 1..Len(stdout') :
                    stdout'[i].of # 0 => stdout'[i].of \in pending \ stdin
              /\ \A i, j \in 1..Len(stdout') :
                    stdout'[i].of = stdout'[j].of /\ stdout'[i].of # 0 => i = j
              /\ \A u \in PoolTasks : answerOf'[u] \in {u, 0}
    BY <1>0 DEF PoolInv, Orderly
  <2>14. Proceed(waiting, {}, "none", pending) /\ {} \in SUBSET PoolTasks
    BY <1>0, <2>1 DEF waiting
  <2>15. LinesStayInOrder({}, pending)
    BY <1>0, <2>12, <2>13 DEF LinesStayInOrder
  <2> QED
    BY <2>11, <2>12, <2>14, <2>15, ProceedKeepsOrder
<1> QED
  BY <1>1, <1>2

LEMMA TimeoutInv == ASSUME PoolInv, NEW t \in PoolTasks, Timeout(t) PROVE PoolInv'
<1>0. Slots /\ Ports /\ task[t] = "running" /\ UNCHANGED <<adapter, child, stdout, answerOf>>
  BY DEF PoolInv, Timeout
<1>1. Proceed(queue, {t}, "timeout", pending) /\ MayWait(queue)
  BY <1>0, QueueMayWait DEF Timeout
<1>2. {t} \in SUBSET PoolTasks /\ pending \in SUBSET PoolTasks
  BY <1>0 DEF Ports
<1>3. Proceeded(queue, {t}, "timeout", pending)
  BY <1>0, <1>1, <1>2, ProceedShape
<1>4. ~AllWell'
  BY <1>0, <1>3 DEF Proceeded, AllWell
<1>5. LinesStayInOrder({t}, pending)
  BY <1>0, <1>4 DEF LinesStayInOrder, Ports, OwnHasNoLines
<1> QED
  BY <1>1, <1>2, <1>5, ProceedKeepsOrder

LEMMA OwnPromiseInv == ASSUME PoolInv, NEW t \in PoolTasks, OwnPromise(t) PROVE PoolInv'
<1>0. /\ Slots /\ Ports /\ adapter = "own promise" /\ t \in pending
      /\ UNCHANGED <<adapter, child, stdout>>
  BY DEF PoolInv, OwnPromise
<1>1. PICK s \in {"completed", "failed"} :
        /\ Proceed(queue, {t}, s, pending \ {t})
        /\ answerOf' = IF s = "completed" /\ task[t] = "running"
                       THEN [answerOf EXCEPT ![t] = t] ELSE answerOf
  BY DEF OwnPromise
<1>2. {t} \in SUBSET PoolTasks /\ pending \ {t} \in SUBSET PoolTasks /\ MayWait(queue)
  BY <1>0, QueueMayWait DEF Ports
<1>3. /\ answerOf \in [PoolTasks -> PoolTasks \cup {0}]
      /\ answerOf' \in [PoolTasks -> PoolTasks \cup {0}]
      /\ \A u \in PoolTasks : answerOf'[u] \in {answerOf[u], u}
  BY <1>0, <1>1 DEF Ports
<1>4. stdin = {} /\ stdout' = <<>> /\ child' # "running"
  BY <1>0 DEF Ports, OwnHasNoLines
<1>5. AllWell /\ AllWell' =>
          /\ pending \ {t} = RunningTasks \ {t} /\ stdin \subseteq pending \ {t}
          /\ \A u \in PoolTasks : answerOf'[u] \in {u, 0}
  BY <1>3, <1>4 DEF PoolInv, Orderly
<1>6. 1..Len(<<>>) = {}
  OBVIOUS
<1>7. LinesStayInOrder({t}, pending \ {t})
  <2>1. adapter' = adapter /\ child' \in {"none", "running", "exited"} /\ stdout' \in Seq(Lines)
    BY <1>0 DEF Ports
  <2> QED
    BY <1>3, <1>4, <1>5, <1>6, <2>1 DEF LinesStayInOrder
<1>8. s \in {"none", "completed", "failed", "timeout"}
  OBVIOUS
<1> QED
  BY <1>1, <1>2, <1>7, <1>8, ProceedKeepsOrder

\* The lines of the child are tasks.
LEMMA LinesAreTyped ==
    ASSUME NEW l \in Lines
    PROVE  l.of \in PoolTasks \cup {0} /\ l.id \in BOOLEAN
           /\ (l.kind # "garbage" => l.of \in PoolTasks)
BY DEF Lines

LEMMA AnswerInv == ASSUME PoolInv, NEW t \in PoolTasks, Answer(t) PROVE PoolInv'
<1>0. /\ Slots /\ Ports /\ child = "running" /\ t \in stdin /\ stdin' = stdin \ {t}
      /\ UNCHANGED <<adapter, queue, active, task, result, pending, child, answerOf>>
  BY DEF PoolInv, Answer
<1>1. PICK line \in {l \in Lines : l.of \in {t, 0}} : stdout' = Append(stdout, line)
  BY DEF Answer
<1>2. /\ stdout' \in Seq(Lines) /\ Len(stdout') = Len(stdout) + 1 /\ Len(stdout) \in Nat
      /\ \A i \in 1..Len(stdout) : stdout'[i] = stdout[i]
      /\ stdout'[Len(stdout) + 1] = line
  <2>1. stdout \in Seq(Lines) /\ line \in Lines
    BY <1>0, <1>1 DEF Ports
  <2> QED
    BY <1>1, <2>1, AppendProperties
<1>3. Slots'
  BY <1>0 DEF Slots, SlotsAreCounted, ResultsAreLast, Distinct
<1>4. adapter # "own promise"
  BY <1>0 DEF Ports, OwnHasNoLines
<1>5. Ports'
  BY <1>0, <1>2, <1>4 DEF Ports, OwnHasNoLines
<1>6. ASSUME AllWell' PROVE Orderly'
  <2>1. Orderly
    BY <1>0, <1>6 DEF PoolInv, AllWell
  <2>2. RunningTasks' = RunningTasks /\ pending' = pending
    BY <1>0 DEF RunningTasks
  <2>3. t \in pending /\ t # 0
    BY <1>0, <2>1, TasksAreNumbers DEF Orderly
  <2>4. \A i \in 1..Len(stdout') : i = Len(stdout) + 1 \/ i \in 1..Len(stdout)
    BY <1>2
  <2>5. \A i \in 1..Len(stdout') : stdout'[i].of # 0 => stdout'[i].of \in pending' \ stdin'
    BY <1>0, <1>1, <1>2, <2>1, <2>3, <2>4 DEF Orderly
  <2>6. \A i \in 1..Len(stdout) : stdout[i].of # 0 => stdout[i].of # t
    BY <1>0, <2>1 DEF Orderly
  <2>7. \A i, j \in 1..Len(stdout') :
           stdout'[i].of = stdout'[j].of /\ stdout'[i].of # 0 => i = j
    <3> SUFFICES ASSUME NEW i \in 1..Len(stdout'), NEW j \in 1..Len(stdout'),
                        stdout'[i].of = stdout'[j].of, stdout'[i].of # 0
                 PROVE  i = j
      OBVIOUS
    <3>1. CASE i \in 1..Len(stdout) /\ j \in 1..Len(stdout)
      BY <1>2, <2>1, <3>1 DEF Orderly
    <3>2. CASE i = Len(stdout) + 1 /\ j \in 1..Len(stdout)
      BY <1>1, <1>2, <2>6, <3>2
    <3>3. CASE i \in 1..Len(stdout) /\ j = Len(stdout) + 1
      BY <1>1, <1>2, <2>6, <3>3
    <3> QED
      BY <2>4, <3>1, <3>2, <3>3
  <2> QED
    BY <1>0, <2>1, <2>2, <2>5, <2>7 DEF Orderly
<1> QED
  BY <1>3, <1>5, <1>6 DEF PoolInv

\* rejectAll leaves nobody waiting; if all goes well, nobody was.
LEMMA RejectAllInv ==
    ASSUME PoolInv, RejectAll, adapter' = adapter, child' \in {"none", "running", "exited"},
           adapter = "own promise" => child' # "running", stdout' \in Seq(Lines),
           \A i \in 1..Len(stdout') : \E j \in 1..Len(stdout) : stdout'[i] = stdout[j],
           adapter = "own promise" => stdout' = <<>>
    PROVE  PoolInv'
<1>0. Slots /\ Ports /\ Proceed(queue, pending, "failed", {}) /\ answerOf' = answerOf
  BY DEF PoolInv, RejectAll
<1>1. pending \in SUBSET PoolTasks /\ {} \in SUBSET PoolTasks /\ MayWait(queue)
  BY <1>0, QueueMayWait DEF Ports
<1>2. Proceeded(queue, pending, "failed", {})
  BY <1>0, <1>1, ProceedShape
<1>3. AllWell /\ AllWell' => RunningTasks \cap pending = {}
  BY <1>0, <1>2, WellBefore DEF Proceeded
<1>4. ASSUME AllWell, AllWell'
      PROVE  /\ {} = RunningTasks \ pending /\ stdin \subseteq {}
             /\ \A i \in 1..Len(stdout') : stdout'[i].of = 0
             /\ \A u \in PoolTasks : answerOf'[u] \in {u, 0}
  <2>1. Orderly
    BY <1>4 DEF PoolInv
  <2>2. pending = {} /\ RunningTasks = {}
    BY <1>3, <1>4, <2>1 DEF Orderly
  <2>3. \A j \in 1..Len(stdout) : stdout[j].of = 0
    BY <2>1, <2>2 DEF Orderly
  <2> QED
    BY <1>0, <2>1, <2>2, <2>3 DEF Orderly
<1>5. LinesStayInOrder(pending, {})
  BY <1>0, <1>4 DEF LinesStayInOrder, Ports
<1> QED
  BY <1>0, <1>1, <1>5, ProceedKeepsOrder

LEMMA ChildExitsInv == ASSUME PoolInv, ChildExits PROVE PoolInv'
<1>1. /\ RejectAll /\ child' = "exited" /\ UNCHANGED <<adapter, stdout>> /\ Ports
  BY DEF ChildExits, PoolInv
<1>2. stdout \in Seq(Lines) /\ (adapter = "own promise" => stdout = <<>>)
  BY <1>1 DEF Ports, OwnHasNoLines
<1> QED
  BY <1>1, <1>2, RejectAllInv

LEMMA HandleLineInv == ASSUME PoolInv, HandleLine PROVE PoolInv'
<1> DEFINE line == Head(stdout)
<1>0. /\ Slots /\ Ports /\ stdout # <<>> /\ stdout' = Tail(stdout) /\ UNCHANGED <<adapter, child>>
  BY DEF PoolInv, HandleLine
<1>1. /\ stdout \in Seq(Lines) /\ child \in {"none", "running", "exited"}
      /\ pending \in SUBSET PoolTasks /\ adapter # "own promise"
      /\ answerOf \in [PoolTasks -> PoolTasks \cup {0}]
  BY <1>0 DEF Ports, OwnHasNoLines
<1>2. /\ Len(stdout) \in Nat \ {0} /\ stdout' \in Seq(Lines) /\ Len(stdout') = Len(stdout) - 1
      /\ \A i \in 1..Len(stdout') : stdout'[i] = stdout[i + 1]
      /\ line = stdout[1] /\ line \in Lines
  <2>0. stdout \in Seq(Lines) /\ stdout # <<>>
    BY <1>0, <1>1
  <2>1. Len(stdout) \in Nat \ {0}
    BY <2>0, EmptySeq
  <2>2. /\ line \in Lines /\ stdout' \in Seq(Lines) /\ Len(stdout') = Len(stdout) - 1
        /\ \A i \in 1..Len(stdout') : stdout'[i] = stdout[i + 1]
    BY <1>0, <1>1, HeadTailProperties
  <2>3. line = stdout[1]
    BY <2>0
  <2> QED
    BY <2>1, <2>2, <2>3
<1>3. \A i \in 1..Len(stdout') : i + 1 \in 1..Len(stdout) /\ i + 1 # 1
  BY <1>2
<1> HIDE DEF line
<1>t. PICK t : t = Addressee(line)
  OBVIOUS
<1>4. CASE line.kind = "garbage" \/ t = 0
  <2>1. RejectAll
    BY <1>4, <1>t DEF HandleLine, line
  <2>2. \A i \in 1..Len(stdout') : \E j \in 1..Len(stdout) : stdout'[i] = stdout[j]
    BY <1>2, <1>3
  <2> QED
    BY <1>0, <1>1, <1>2, <2>1, <2>2, RejectAllInv
<1>5. CASE ~(line.kind = "garbage" \/ t = 0) /\ t \notin pending
  <2>1. UNCHANGED <<queue, active, task, result, pending, stdin, answerOf>>
    BY <1>5, <1>t DEF HandleLine, line
  <2>2. Slots'
    BY <1>0, <2>1 DEF Slots, SlotsAreCounted, ResultsAreLast, Distinct
  <2>3. Ports'
    BY <1>0, <1>1, <1>2, <2>1 DEF Ports, OwnHasNoLines
  <2>4. ASSUME AllWell' PROVE Orderly'
    <3>1. Orderly /\ RunningTasks' = RunningTasks
      BY <2>1, <2>4 DEF PoolInv, AllWell, RunningTasks
    <3>2. \A i, j \in 1..Len(stdout') :
             stdout'[i].of = stdout'[j].of /\ stdout'[i].of # 0 => i = j
      <4> SUFFICES ASSUME NEW i \in 1..Len(stdout'), NEW j \in 1..Len(stdout'),
                          stdout'[i].of = stdout'[j].of, stdout'[i].of # 0
                   PROVE  i = j
        OBVIOUS
      <4>1. i + 1 = j + 1
        BY <1>2, <1>3, <3>1 DEF Orderly
      <4> QED
        BY <1>2, <4>1
    <3>3. \A i \in 1..Len(stdout') : stdout'[i].of # 0 => stdout'[i].of \in pending' \ stdin'
      BY <1>2, <1>3, <2>1, <3>1 DEF Orderly
    <3> QED
      BY <2>1, <3>1, <3>2, <3>3 DEF Orderly
  <2> QED
    BY <2>2, <2>3, <2>4 DEF PoolInv
<1>6. CASE ~(line.kind = "garbage" \/ t = 0) /\ t \in pending
  <2>1. PICK s \in {"completed", "failed"} :
          /\ Proceed(queue, {t}, s, pending \ {t})
          /\ answerOf' = IF line.kind = "output" /\ task[t] = "running"
                         THEN [answerOf EXCEPT ![t] = line.of] ELSE answerOf
    BY <1>6, <1>t DEF HandleLine, line
  <2>2. /\ t \in PoolTasks /\ {t} \in SUBSET PoolTasks /\ pending \ {t} \in SUBSET PoolTasks
        /\ MayWait(queue) /\ s \in {"none", "completed", "failed", "timeout"}
    BY <1>0, <1>1, <1>6, QueueMayWait
  <2>3. line.of \in PoolTasks /\ line.of # 0 /\ line.id \in BOOLEAN
    BY <1>2, <1>6, LinesAreTyped, TasksAreNumbers
  <2>4. answerOf' \in [PoolTasks -> PoolTasks \cup {0}]
    BY <1>1, <2>1, <2>3
  <2>5. ASSUME AllWell
        PROVE  /\ pending \ {t} = RunningTasks \ {t} /\ stdin \subseteq pending \ {t}
               /\ \A i \in 1..Len(stdout') :
                     stdout'[i].of # 0 => stdout'[i].of \in (pending \ {t}) \ stdin
               /\ \A i, j \in 1..Len(stdout') :
                     stdout'[i].of = stdout'[j].of /\ stdout'[i].of # 0 => i = j
               /\ \A u \in PoolTasks : answerOf'[u] \in {u, 0}
    <3>1. Orderly
      BY <2>5 DEF PoolInv
    <3>2. 1 \in 1..Len(stdout)
      BY <1>2
    <3>3. line.of \in pending \ stdin
      BY <1>2, <2>3, <3>1, <3>2 DEF Orderly
    <3>4. line.of = t
      <4>1. CASE line.id
        BY <1>t, <4>1 DEF Addressee
      <4>2. CASE ~line.id
        <5>1. Cardinality(pending) = 1 /\ t = CHOOSE u \in pending : TRUE
          BY <1>t, <1>6, <4>2 DEF Addressee
        <5>2. IsFiniteSet(pending)
          BY <1>1, TasksAreFinite
        <5>3. PICK x : pending = {x}
          BY <5>1, <5>2, FS_Singleton
        <5> QED
          BY <3>3, <5>1, <5>3
      <4> QED
        BY <2>3, <4>1, <4>2
    <3>5. pending = RunningTasks /\ stdin \subseteq pending
      BY <3>1 DEF Orderly
    <3>6. stdin \subseteq pending \ {t}
      BY <3>3, <3>4, <3>5
    <3>7. \A i \in 1..Len(stdout') :
             stdout'[i].of # 0 => stdout'[i].of \in (pending \ {t}) \ stdin
      <4> SUFFICES ASSUME NEW i \in 1..Len(stdout'), stdout'[i].of # 0
                   PROVE  stdout'[i].of \in (pending \ {t}) \ stdin
        OBVIOUS
      <4>1. stdout'[i] = stdout[i + 1] /\ i + 1 \in 1..Len(stdout) /\ i + 1 # 1
        BY <1>2, <1>3
      <4>2. stdout[i + 1].of \in pending \ stdin
        BY <3>1, <4>1 DEF Orderly
      <4>3. stdout[i + 1].of # stdout[1].of
        BY <3>1, <3>2, <4>1 DEF Orderly
      <4> QED
        BY <1>2, <3>4, <4>1, <4>2, <4>3
    <3>8. \A i, j \in 1..Len(stdout') :
             stdout'[i].of = stdout'[j].of /\ stdout'[i].of # 0 => i = j
      <4> SUFFICES ASSUME NEW i \in 1..Len(stdout'), NEW j \in 1..Len(stdout'),
                          stdout'[i].of = stdout'[j].of, stdout'[i].of # 0
                   PROVE  i = j
        OBVIOUS
      <4>1. i + 1 = j + 1
        BY <1>2, <1>3, <3>1 DEF Orderly
      <4> QED
        BY <1>2, <4>1
    <3>9. \A u \in PoolTasks : answerOf'[u] \in {u, 0}
      BY <1>1, <2>1, <3>1, <3>4 DEF Orderly
    <3> QED
      BY <3>5, <3>6, <3>7, <3>8, <3>9
  <2>6. LinesStayInOrder({t}, pending \ {t})
    BY <1>0, <1>1, <1>2, <2>4, <2>5 DEF LinesStayInOrder
  <2> QED
    BY <2>1, <2>2, <2>6, ProceedKeepsOrder
<1> QED
  BY <1>4, <1>5, <1>6

\* Every step keeps the invariant.
LEMMA PoolNextInv == ASSUME PoolInv, [PoolNext]_pool PROVE PoolInv'
<1>1. ASSUME UNCHANGED pool PROVE PoolInv'
  <2>1. Slots'
    BY <1>1 DEF pool, PoolInv, Slots, SlotsAreCounted, ResultsAreLast, Distinct
  <2>2. Ports'
    BY <1>1 DEF pool, PoolInv, Ports, OwnHasNoLines
  <2>3. AllWell' => Orderly'
    BY <1>1 DEF pool, PoolInv, AllWell, Orderly, RunningTasks
  <2> QED
    BY <2>1, <2>2, <2>3 DEF PoolInv
<1> QED
  BY <1>1, RunInv, TimeoutInv, OwnPromiseInv, AnswerInv, ChildExitsInv, HandleLineInv
     DEF PoolNext, Inside

\* The invariant holds, whatever the fairness.
LEMMA PoolSafety == PoolSpec => []PoolInv
<1>1. PoolInit => PoolInv
  BY PoolInitInv
<1>2. PoolInv /\ [PoolNext]_pool => PoolInv'
  BY PoolNextInv
<1> QED
  BY <1>1, <1>2, PTL DEF PoolSpec

\* The pool, its children and their lines keep their types for any number of calls, slots and
\* waiting places (worker/manager.ts).
THEOREM PoolTypeCorrect == PoolSpec => []PoolTypeOK
<1>1. PoolInv => PoolTypeOK
  BY DEF PoolInv, Slots, Ports, PoolTypeOK
<1> QED
  BY <1>1, PoolSafety, PTL

\* Neither a timeout nor a rejectAll that settles many tasks at once lets active drift from the
\* number of tasks that run, and no task waits while a slot is free (drain and execute).
THEOREM SlotsNeverDrift == PoolSpec => []SlotsAreCounted
<1>1. PoolInv => SlotsAreCounted
  BY DEF PoolInv, Slots
<1> QED
  BY <1>1, PoolSafety, PTL

\* As long as no task has timed out or failed, nobody gets the answer to another's task, though
\* answers without an id are handed to whoever waits alone (handleLine).
THEOREM AnswersReachTheirTask == PoolSpec => []StrangersAnswerOnlyAfterFailure
<1>1. PoolInv => StrangersAnswerOnlyAfterFailure
  BY DEF PoolInv, Slots, AllWell, Orderly, StrangersAnswerOnlyAfterFailure
<1> QED
  BY <1>1, PoolSafety, PTL
-----------------------------------------------------------------------------
(* Tool loop. *)

\* How often a call has been or is going to be handed to the adapter.
Commitment(c) == Ran(c) + Occurrences(step.todo, c)

\* The shape of a step.
Steps == [guarded : Seq(Calls), budgeted : Seq(Calls), plan : Seq(Calls), todo : Seq(Calls),
          running : Seq(Calls), executed : Seq(Calls \X BOOLEAN)]

\* The types, with the bounds on the counters in terms of the turns taken.
LoopShape ==
    /\ phase \in {"generate", "execute", "done"}
    /\ outcome \in {"none", "reply", "ask", "error"} /\ (outcome = "none" <=> phase # "done")
    /\ turn \in 0..TurnBudget /\ (phase = "generate" => turn < TurnBudget)
    /\ guard \in [total : Nat, seen : [GuardKeys -> Nat], failed : [Calls -> Nat]]
    /\ guard.total <= turn * MaxStep
    /\ \A k \in GuardKeys : guard.seen[k] <= guard.total
    /\ used \in [operations : 0..OperationBudget, risk : 0..RiskQuota]
    /\ step \in Steps
    /\ executions \in Tally /\ events \in Tally
    /\ asked \in [Calls -> Nat] /\ \A c \in Calls : asked[c] <= turn * MaxStep
    /\ phase # "execute" /\ outcome # "error" => step = Idle

\* Every call asked for is recorded or somewhere in the step, and what is published is
\* recorded or executed in the step.
Accounted ==
    \A c \in Calls :
        /\ asked[c] = Answered(c) + Occurrences(step.guarded, c) + Occurrences(step.budgeted, c)
                      + Occurrences(step.executed, <<c, TRUE>>)
                      + Occurrences(step.executed, <<c, FALSE>>)
                      + Occurrences(step.running, c) + Occurrences(step.todo, c)
        /\ events[<<c, "ok">>]
             = executions[<<c, "ok">>] + Occurrences(step.executed, <<c, TRUE>>)
        /\ events[<<c, "failed">>]
             = executions[<<c, "failed">>] + Occurrences(step.executed, <<c, FALSE>>)
        /\ events[<<c, "guard">>] = executions[<<c, "guard">>] + Occurrences(step.guarded, c)
        /\ events[<<c, "budget">>] = executions[<<c, "budget">>] + Occurrences(step.budgeted, c)
        /\ events[<<c, "result">>] = executions[<<c, "result">>]

\* The guard counts the failures on record, and lets the loop go on below its limit only.
FailuresKnown ==
    \A c \in Calls :
        /\ guard.failed[c] = executions[<<c, "failed">>]
        /\ phase # "done" => guard.failed[c] <= MaxFailedRepeats

\* A catalog call that has run or is going to has been counted by the guard each time.
RepeatsKnown ==
    \A c \in Known : Commitment(c) <= guard.seen[c] /\ Commitment(c) <= MaxRepeatedCalls

\* The limits and the keys, apart from the assumptions' names.
LEMMA LoopLimits ==
    /\ TurnBudget \in Nat \ {0} /\ OperationBudget \in Nat /\ RiskQuota \in Nat
    /\ MaxCalls \in Nat /\ MaxRepeatedCalls \in Nat /\ MaxFailedRepeats \in Nat
    /\ MaxUnknownRepeats \in Nat /\ MaxStep \in Nat
BY LimitsAssumption DEF LimitsAssumption

\* A catalog call is its own key.
LEMMA CallsAreKeyed ==
    /\ Known \subseteq Calls /\ \A c \in Known : GuardKey(c) = c /\ c \in GuardKeys
    /\ \A c \in Calls : GuardKey(c) \in GuardKeys
<1>1. Known \subseteq Calls
  BY CallsAssumption, Zenon DEF CallsAssumption
<1> QED
  BY <1>1 DEF GuardKey, GuardKeys

-----------------------------------------------------------------------------
(* Tallies and occurrences. *)

\* Nothing occurs in the empty sequence.
LEMMA OccurrencesOfNone == \A x : Occurrences(<<>>, x) = 0
<1>1. \A x : Positions(<<>>, x) = {}
  BY DEF Positions
<1> QED
  BY <1>1, FS_EmptySet DEF Occurrences

\* The places of a tally.
LEMMA Kinded ==
    \A c \in Calls : /\ <<c, "ok">> \in Calls \X Kinds /\ <<c, "failed">> \in Calls \X Kinds
                     /\ <<c, "guard">> \in Calls \X Kinds /\ <<c, "budget">> \in Calls \X Kinds
                     /\ <<c, "result">> \in Calls \X Kinds
BY DEF Kinds

\* What Plus adds, and where.
LEMMA PlusIs ==
    ASSUME NEW t \in Tally, NEW s \in Seq(Calls), NEW kind
    PROVE  /\ Plus(t, s, kind) \in Tally
           /\ \A c \in Calls, x \in Kinds :
                 Plus(t, s, kind)[<<c, x>>]
                   = t[<<c, x>>] + IF x = kind THEN Occurrences(s, c) ELSE 0
<1>1. t \in [Calls \X Kinds -> Nat] /\ DOMAIN t = Calls \X Kinds
  BY DEF Tally
<1>2. \A c : Occurrences(s, c) \in Nat
  BY OccurrencesBound
<1>3. Plus(t, s, kind)
        = [k \in Calls \X Kinds |-> t[k] + IF k[2] = kind THEN Occurrences(s, k[1]) ELSE 0]
  BY <1>1 DEF Plus
<1>4. ASSUME NEW k \in Calls \X Kinds
      PROVE  t[k] + (IF k[2] = kind THEN Occurrences(s, k[1]) ELSE 0) \in Nat
  <2>1. t[k] \in Nat /\ Occurrences(s, k[1]) \in Nat
    BY <1>1, <1>2
  <2> QED
    BY <2>1
<1>5. Plus(t, s, kind) \in Tally
  BY <1>3, <1>4 DEF Tally
<1>6. ASSUME NEW c \in Calls, NEW x \in Kinds
      PROVE  Plus(t, s, kind)[<<c, x>>]
               = t[<<c, x>>] + IF x = kind THEN Occurrences(s, c) ELSE 0
  <2>1. <<c, x>> \in Calls \X Kinds /\ <<c, x>>[1] = c /\ <<c, x>>[2] = x
    OBVIOUS
  <2> QED
    BY <1>3, <2>1
<1> QED
  BY <1>5, <1>6

\* What PlusExecutions adds, and where.
LEMMA PlusExecutionsIs ==
    ASSUME NEW t \in Tally, NEW s \in Seq(Calls \X BOOLEAN)
    PROVE  /\ PlusExecutions(t, s) \in Tally
           /\ \A c \in Calls :
                 /\ PlusExecutions(t, s)[<<c, "ok">>] = t[<<c, "ok">>] + Occurrences(s, <<c, TRUE>>)
                 /\ PlusExecutions(t, s)[<<c, "failed">>]
                      = t[<<c, "failed">>] + Occurrences(s, <<c, FALSE>>)
                 /\ PlusExecutions(t, s)[<<c, "guard">>] = t[<<c, "guard">>]
                 /\ PlusExecutions(t, s)[<<c, "budget">>] = t[<<c, "budget">>]
                 /\ PlusExecutions(t, s)[<<c, "result">>] = t[<<c, "result">>]
<1> DEFINE more(k) == CASE k[2] = "ok" -> Occurrences(s, <<k[1], TRUE>>)
                        [] k[2] = "failed" -> Occurrences(s, <<k[1], FALSE>>)
                        [] OTHER -> 0
<1>1. t \in [Calls \X Kinds -> Nat] /\ DOMAIN t = Calls \X Kinds
  BY DEF Tally
<1>2. \A y : Occurrences(s, y) \in Nat
  BY OccurrencesBound
<1>3. PlusExecutions(t, s) = [k \in Calls \X Kinds |-> t[k] + more(k)]
  BY <1>1 DEF PlusExecutions
<1>4. ASSUME NEW k \in Calls \X Kinds PROVE more(k) \in Nat
  BY <1>2
<1>5. ASSUME NEW c \in Calls
      PROVE  /\ more(<<c, "ok">>) = Occurrences(s, <<c, TRUE>>)
             /\ more(<<c, "failed">>) = Occurrences(s, <<c, FALSE>>)
             /\ more(<<c, "guard">>) = 0 /\ more(<<c, "budget">>) = 0
             /\ more(<<c, "result">>) = 0
  OBVIOUS
<1> HIDE DEF more
<1>6. PlusExecutions(t, s) \in Tally
  <2>1. \A k \in Calls \X Kinds : t[k] + more(k) \in Nat
    BY <1>1, <1>4
  <2> QED
    BY <1>3, <2>1 DEF Tally
<1>7. \A k \in Calls \X Kinds : PlusExecutions(t, s)[k] = t[k] + more(k)
  BY <1>3
<1>8. ASSUME NEW c \in Calls
      PROVE  /\ t[<<c, "guard">>] \in Nat /\ t[<<c, "budget">>] \in Nat
             /\ t[<<c, "result">>] \in Nat
  BY <1>1, Kinded
<1>9. \A n \in Nat : n + 0 = n
  OBVIOUS
<1>10. ASSUME NEW c \in Calls
       PROVE  /\ PlusExecutions(t, s)[<<c, "ok">>] = t[<<c, "ok">>] + more(<<c, "ok">>)
              /\ PlusExecutions(t, s)[<<c, "failed">>] = t[<<c, "failed">>] + more(<<c, "failed">>)
              /\ PlusExecutions(t, s)[<<c, "guard">>] = t[<<c, "guard">>] + more(<<c, "guard">>)
              /\ PlusExecutions(t, s)[<<c, "budget">>] = t[<<c, "budget">>] + more(<<c, "budget">>)
              /\ PlusExecutions(t, s)[<<c, "result">>] = t[<<c, "result">>] + more(<<c, "result">>)
  BY <1>7, Kinded
<1>11. ASSUME NEW c \in Calls
       PROVE  /\ PlusExecutions(t, s)[<<c, "ok">>] = t[<<c, "ok">>] + Occurrences(s, <<c, TRUE>>)
              /\ PlusExecutions(t, s)[<<c, "failed">>]
                   = t[<<c, "failed">>] + Occurrences(s, <<c, FALSE>>)
              /\ PlusExecutions(t, s)[<<c, "guard">>] = t[<<c, "guard">>]
              /\ PlusExecutions(t, s)[<<c, "budget">>] = t[<<c, "budget">>]
              /\ PlusExecutions(t, s)[<<c, "result">>] = t[<<c, "result">>]
  BY <1>5, <1>8, <1>9, <1>10, Zenon
<1> QED
  BY <1>6, <1>11

\* A batch that comes back: each call of it once, well or not.
LEMMA OccurrencesOfDone ==
    ASSUME NEW s \in Seq(Calls), NEW ok \in [1..Len(s) -> BOOLEAN]
    PROVE  LET done == [n \in 1..Len(s) |-> <<s[n], ok[n]>>]
           IN  /\ done \in Seq(Calls \X BOOLEAN) /\ Len(done) = Len(s)
               /\ \A c : Occurrences(done, <<c, TRUE>>) + Occurrences(done, <<c, FALSE>>)
                            = Occurrences(s, c)
<1> DEFINE done == [n \in 1..Len(s) |-> <<s[n], ok[n]>>]
<1>1. Len(s) \in Nat /\ DOMAIN s = 1..Len(s) /\ \A n \in 1..Len(s) : s[n] \in Calls
  OBVIOUS
<1>2. done \in [1..Len(s) -> Calls \X BOOLEAN]
  BY <1>1
<1>3. /\ DOMAIN done = 1..Len(s)
      /\ \A n \in 1..Len(s) : done[n] = <<s[n], ok[n]>> /\ ok[n] \in BOOLEAN
  OBVIOUS
<1> HIDE DEF done
<1>4. done \in Seq(Calls \X BOOLEAN) /\ Len(done) = Len(s)
  BY <1>1, <1>2, <1>3
<1>5. ASSUME NEW c
      PROVE  Occurrences(done, <<c, TRUE>>) + Occurrences(done, <<c, FALSE>>) = Occurrences(s, c)
  <2> DEFINE T == Positions(done, <<c, TRUE>>)
             F == Positions(done, <<c, FALSE>>)
             P == Positions(s, c)
  <2>1. /\ IsFiniteSet(T) /\ IsFiniteSet(F) /\ Cardinality(T) \in Nat /\ Cardinality(F) \in Nat
    BY <1>4, OccurrencesBound DEF Occurrences
  <2>2. /\ T = {n \in 1..Len(s) : done[n] = <<c, TRUE>>}
        /\ F = {n \in 1..Len(s) : done[n] = <<c, FALSE>>}
        /\ P = {n \in 1..Len(s) : s[n] = c}
    BY <1>1, <1>3 DEF Positions
  <2>3. T \cap F = {}
    <3>1. <<c, TRUE>> # <<c, FALSE>>
      BY Zenon
    <3> QED
      BY <2>2, <3>1
  <2>4. T \cup F = P
    <3>1. \A n \in 1..Len(s) : s[n] = c <=> done[n] = <<c, TRUE>> \/ done[n] = <<c, FALSE>>
      <4> TAKE n \in 1..Len(s)
      <4>1. done[n] = <<s[n], ok[n]>> /\ (ok[n] = TRUE \/ ok[n] = FALSE)
        BY <1>3
      <4>2. CASE ok[n] = TRUE
        <5>1. done[n] = <<s[n], TRUE>>
          BY <4>1, <4>2, Zenon
        <5>2. done[n] # <<c, FALSE>>
          BY <5>1
        <5>3. done[n] = <<c, TRUE>> <=> s[n] = c
          BY <5>1
        <5> QED
          BY <5>2, <5>3, Zenon
      <4>3. CASE ok[n] = FALSE
        <5>1. done[n] = <<s[n], FALSE>>
          BY <4>1, <4>3, Zenon
        <5>2. done[n] # <<c, TRUE>>
          BY <5>1
        <5>3. done[n] = <<c, FALSE>> <=> s[n] = c
          BY <5>1
        <5> QED
          BY <5>2, <5>3, Zenon
      <4> QED
        BY <4>1, <4>2, <4>3, Zenon
    <3> QED
      BY <2>2, <3>1
  <2> HIDE DEF T, F, P
  <2>5. Cardinality(T \cup F) = Cardinality(T) + Cardinality(F) - Cardinality(T \cap F)
    BY <2>1, FS_Union
  <2>6. Cardinality(T \cap F) = 0
    BY <2>3, FS_EmptySet
  <2>7. Cardinality(P) = Cardinality(T) + Cardinality(F)
    <3>1. Cardinality(P) = Cardinality(T) + Cardinality(F) - 0
      BY <2>4, <2>5, <2>6
    <3> QED
      BY <2>1, <3>1
  <2> QED
    BY <2>7 DEF Occurrences, T, F, P
<1> QED
  BY <1>4, <1>5 DEF done

-----------------------------------------------------------------------------
(* What Propose makes of an answer. *)

\* The pieces of an answer: let through by the guard or blocked by it, and of the former
\* let through by the budget or blocked by it.
OpenOf(p) == {i \in 1..Len(p) : ~Blocks(p, i)}
AllowedOf(p) == Pick(p, OpenOf(p))
GuardedOf(p) == Pick(p, (1..Len(p)) \ OpenOf(p))
ChargedOf(p) == {i \in 1..Len(AllowedOf(p)) : Ledger(AllowedOf(p))[i].allow}
PlanOf(p) == Pick(AllowedOf(p), ChargedOf(p))
BudgetedOf(p) == Pick(AllowedOf(p), (1..Len(AllowedOf(p))) \ ChargedOf(p))

\* An answer is a sequence of at most MaxStep calls.
LEMMA ProposalsAre ==
    ASSUME NEW p \in Proposals
    PROVE  p \in Seq(Calls) /\ Len(p) \in 1..MaxStep /\ DOMAIN p = 1..Len(p)
<1>1. PICK n \in 1..MaxStep : p \in [1..n -> Calls]
  BY DEF Proposals
<1>2. n \in Nat
  OBVIOUS
<1>3. p \in Seq(Calls) /\ Len(p) = n /\ DOMAIN p = 1..n
  BY <1>1, <1>2
<1> QED
  BY <1>3

\* The guard and the budget sort the calls of an answer and lose none of them.
LEMMA PiecesAddUp ==
    ASSUME NEW p \in Seq(Calls)
    PROVE  /\ OpenOf(p) \in SUBSET DOMAIN p
           /\ AllowedOf(p) \in Seq(Calls) /\ GuardedOf(p) \in Seq(Calls)
           /\ ChargedOf(p) \in SUBSET DOMAIN AllowedOf(p)
           /\ PlanOf(p) \in Seq(Calls) /\ BudgetedOf(p) \in Seq(Calls)
           /\ OpenOf(p) = {} => AllowedOf(p) = <<>> /\ BudgetedOf(p) = <<>>
           /\ \A c : Occurrences(p, c) = Occurrences(GuardedOf(p), c)
                        + Occurrences(BudgetedOf(p), c) + Occurrences(PlanOf(p), c)
<1> DEFINE a == AllowedOf(p)
<1>1. OpenOf(p) \in SUBSET DOMAIN p /\ (1..Len(p)) \ OpenOf(p) \in SUBSET DOMAIN p
  <2>1. DOMAIN p = 1..Len(p)
    OBVIOUS
  <2> QED
    BY <2>1 DEF OpenOf
<1>2. a \in Seq(Calls) /\ GuardedOf(p) \in Seq(Calls)
  BY <1>1, PickShape DEF AllowedOf, GuardedOf
<1>3. ChargedOf(p) \in SUBSET DOMAIN a /\ (1..Len(a)) \ ChargedOf(p) \in SUBSET DOMAIN a
  <2>1. DOMAIN a = 1..Len(a)
    BY <1>2
  <2> QED
    BY <2>1 DEF ChargedOf
<1> HIDE DEF a
<1>4. PlanOf(p) = Pick(a, ChargedOf(p)) /\ BudgetedOf(p) = Pick(a, (1..Len(a)) \ ChargedOf(p))
  BY DEF PlanOf, BudgetedOf, a
<1>5. PlanOf(p) \in Seq(Calls) /\ BudgetedOf(p) \in Seq(Calls)
  BY <1>2, <1>3, <1>4, PickShape
<1>6. ASSUME NEW c
      PROVE  Occurrences(p, c) = Occurrences(GuardedOf(p), c)
                        + Occurrences(BudgetedOf(p), c) + Occurrences(PlanOf(p), c)
  <2>1. Occurrences(p, c) = Occurrences(a, c) + Occurrences(GuardedOf(p), c)
    BY <1>1, OccurrencesSplit DEF a, AllowedOf, GuardedOf
  <2>2. Occurrences(a, c) = Occurrences(PlanOf(p), c) + Occurrences(BudgetedOf(p), c)
    BY <1>2, <1>3, <1>4, OccurrencesSplit
  <2>3. /\ Occurrences(GuardedOf(p), c) \in Nat /\ Occurrences(PlanOf(p), c) \in Nat
        /\ Occurrences(BudgetedOf(p), c) \in Nat
    BY <1>2, <1>5, OccurrencesBound
  <2> QED
    BY <2>1, <2>2, <2>3
<1>7. ASSUME OpenOf(p) = {} PROVE a = <<>> /\ BudgetedOf(p) = <<>>
  <2>1. Len(a) = 0
    BY <1>1, <1>7, PickShape, FS_EmptySet DEF a, AllowedOf
  <2>2. a = <<>>
    BY <1>2, <2>1, EmptySeq
  <2>3. (1..Len(a)) \ ChargedOf(p) = {}
    BY <2>1
  <2>4. Len(BudgetedOf(p)) = 0
    <3> DEFINE R == (1..Len(a)) \ ChargedOf(p)
    <3>1. R \in SUBSET DOMAIN a /\ R = {} /\ BudgetedOf(p) = Pick(a, R)
      BY <1>3, <1>4, <2>3
    <3> HIDE DEF R
    <3>2. Len(BudgetedOf(p)) = Cardinality(R)
      BY <1>2, <3>1, PickShape
    <3> QED
      BY <3>1, <3>2, FS_EmptySet
  <2>5. BudgetedOf(p) = <<>>
    BY <1>5, <2>4, EmptySeq
  <2> QED
    BY <2>2, <2>5
<1> QED
  BY <1>1, <1>2, <1>3, <1>5, <1>6, <1>7 DEF a

\* Propose, in terms of the pieces.
LEMMA ProposeIs ==
    ASSUME NEW p, Propose(p)
    PROVE  /\ phase = "generate" /\ turn' = turn + 1
           /\ asked' = [c \in Calls |-> asked[c] + Occurrences(p, c)]
           /\ guard' = GuardAfter(p)
           /\ events' = Plus(Plus(events, GuardedOf(p), "guard"), BudgetedOf(p), "budget")
           /\ OpenOf(p) = {} =>
                 /\ phase' = "done" /\ outcome' = "ask" /\ UNCHANGED <<used, step>>
                 /\ executions' = Plus(executions, GuardedOf(p), "guard")
           /\ OpenOf(p) # {} =>
                 /\ phase' = "execute" /\ UNCHANGED <<outcome, executions>>
                 /\ used' = [operations |-> Ledger(AllowedOf(p))[Len(AllowedOf(p))].operations,
                             risk |-> Ledger(AllowedOf(p))[Len(AllowedOf(p))].risk]
                 /\ step' = [guarded |-> GuardedOf(p), budgeted |-> BudgetedOf(p),
                             plan |-> PlanOf(p), todo |-> PlanOf(p), running |-> <<>>,
                             executed |-> <<>>]
BY DEF Propose, EndRun, OpenOf, AllowedOf, GuardedOf, ChargedOf, PlanOf, BudgetedOf

\* inspect counts at most the calls there are, and the guard's counts only grow.
LEMMA CountedBound ==
    ASSUME LoopShape, NEW p \in Seq(Calls), NEW key \in GuardKeys, NEW i \in 0..Len(p)
    PROVE  /\ IsFiniteSet({j \in 1..i : ~PastTotal(p, j) /\ GuardKey(p[j]) = key})
           /\ Counted(p, i, key) \in Nat /\ guard.seen[key] \in Nat
           /\ guard.seen[key] <= Counted(p, i, key)
           /\ Counted(p, i, key) <= guard.seen[key] + i
<1> DEFINE J == {j \in 1..i : ~PastTotal(p, j) /\ GuardKey(p[j]) = key}
<1>1. i \in Nat /\ guard.seen[key] \in Nat
  BY DEF LoopShape
<1>2. IsFiniteSet(1..i) /\ Cardinality(1..i) = i
  BY <1>1, UpTo
<1>3. J \in SUBSET (1..i)
  OBVIOUS
<1>4. Counted(p, i, key) = guard.seen[key] + Cardinality(J)
  BY DEF Counted
<1> HIDE DEF J
<1>5. IsFiniteSet(J) /\ Cardinality(J) <= i /\ Cardinality(J) \in Nat
  BY <1>2, <1>3, FS_Subset, FS_CardinalityType
<1> QED
  BY <1>1, <1>4, <1>5 DEF J

\* The ledger before the first call, and whether a group has a high-risk call.
LedgerStart == [operations |-> used.operations, risk |-> used.risk, allow |-> TRUE]
HighFrom(a, i) == \E j \in GroupFrom(a, i) : HighRisk(a[j])

\* One step of the ledger.
LedgerStep(a, i, before) ==
    IF ~StartsGroup(a, i) THEN before
    ELSE IF \/ before.operations >= OperationBudget
            \/ HighFrom(a, i) /\ before.risk >= RiskQuota
         THEN [before EXCEPT !.allow = FALSE]
         ELSE [operations |-> before.operations + 1,
               risk |-> before.risk + IF HighFrom(a, i) THEN 1 ELSE 0,
               allow |-> TRUE]

\* Ledger is the recursion over these.
LEMMA LedgerIs ==
    ASSUME NEW a
    PROVE  Ledger(a) = CHOOSE f : f = [i \in 0..Len(a) |->
              IF i = 0 THEN LedgerStart ELSE LedgerStep(a, i, f[i - 1])]
BY Zenon DEF Ledger, LedgerStart, LedgerStep, HighFrom

\* The recursion is well defined: what it says of each call holds of the ledger.
LEMMA LedgerUnfolds ==
    ASSUME NEW a \in Seq(Calls)
    PROVE  /\ DOMAIN Ledger(a) = 0..Len(a)
           /\ Ledger(a)[0] = LedgerStart
           /\ \A i \in 1..Len(a) : Ledger(a)[i] = LedgerStep(a, i, Ledger(a)[i - 1])
<1> DEFINE F(n, f) == f = [i \in 0..n |-> IF i = 0 THEN LedgerStart
                                          ELSE LedgerStep(a, i, f[i - 1])]
           Bad == {n \in Nat : ~ \E f : F(n, f)}
<1>1. Bad = {}
  <2> SUFFICES ASSUME Bad # {} PROVE FALSE
    OBVIOUS
  <2>0. \A n \in Nat : n \in Bad <=> ~ \E f : F(n, f)
    OBVIOUS
  <2>00. Bad \in SUBSET Nat
    OBVIOUS
  <2> HIDE DEF Bad
  <2>1. PICK n \in Bad : \A m \in Bad : n <= m
    BY <2>00, FirstOfAll
  <2>2. n \in Nat
    BY <2>00
  <2>3. CASE n = 0
    <3> DEFINE f == [i \in 0..0 |-> LedgerStart]
    <3>1. F(0, f)
      <4>1. \A i \in 0..0 : i = 0
        OBVIOUS
      <4> QED
        BY <4>1
    <3> HIDE DEF F, f
    <3> QED
      BY <2>0, <2>1, <2>3, <3>1
  <2>4. CASE n # 0
    <3>1. n - 1 \in Nat /\ ~(n <= n - 1)
      BY <2>2, <2>4
    <3>2. n - 1 \notin Bad
      BY <2>1, <3>1
    <3>3. PICK f : F(n - 1, f)
      BY <2>0, <3>1, <3>2
    <3>4. \A i \in 0..(n - 1) : f[i] = IF i = 0 THEN LedgerStart ELSE LedgerStep(a, i, f[i - 1])
      BY <3>3
    <3> DEFINE g == [i \in 0..n |-> IF i < n THEN f[i] ELSE LedgerStep(a, n, f[n - 1])]
    <3>5. \A i \in 0..n : g[i] = IF i < n THEN f[i] ELSE LedgerStep(a, n, f[n - 1])
      OBVIOUS
    <3>6. DOMAIN g = 0..n /\ g = [i \in 0..n |-> g[i]]
      OBVIOUS
    <3> HIDE DEF g
    <3>7. ASSUME NEW i \in 0..n
          PROVE  g[i] = IF i = 0 THEN LedgerStart ELSE LedgerStep(a, i, g[i - 1])
      <4>1. CASE i = 0
        <5>1. 0 \in 0..n /\ 0 < n /\ 0 \in 0..(n - 1)
          BY <2>2, <2>4
        <5>2. g[0] = f[0] /\ f[0] = LedgerStart
          BY <3>4, <3>5, <5>1
        <5> QED
          BY <4>1, <5>2
      <4>2. CASE i # 0 /\ i < n
        <5>1. i \in 0..(n - 1) /\ i - 1 \in 0..n /\ i - 1 < n
          BY <2>2, <4>2
        <5>2. g[i] = f[i] /\ g[i - 1] = f[i - 1] /\ f[i] = LedgerStep(a, i, f[i - 1])
          BY <3>4, <3>5, <4>2, <5>1
        <5> QED
          BY <4>2, <5>2
      <4>3. CASE i = n
        <5>1. n - 1 \in 0..n /\ n - 1 < n /\ n \in 0..n /\ ~(n < n)
          BY <2>2, <2>4
        <5>2. g[n] = LedgerStep(a, n, f[n - 1]) /\ g[n - 1] = f[n - 1]
          BY <3>5, <5>1
        <5> QED
          BY <2>4, <4>3, <5>2
      <4> QED
        BY <2>2, <4>1, <4>2, <4>3
    <3>8. F(n, g)
      BY <3>6, <3>7
    <3> HIDE DEF F
    <3> QED
      BY <2>0, <2>1, <2>2, <3>8
  <2> QED
    BY <2>3, <2>4
<1>2. Len(a) \in Nat
  OBVIOUS
<1>3. \E f : F(Len(a), f)
  BY <1>1, <1>2
<1>4. F(Len(a), CHOOSE f : F(Len(a), f))
  <2> HIDE DEF F
  <2> QED
    BY <1>3
<1>5. Ledger(a) = CHOOSE f : F(Len(a), f)
  BY LedgerIs
<1>6. F(Len(a), Ledger(a))
  <2> HIDE DEF F
  <2> QED
    BY <1>4, <1>5
<1>7. 0 \in 0..Len(a) /\ \A i \in 1..Len(a) : i \in 0..Len(a) /\ i # 0
  BY <1>2
<1> DEFINE l == Ledger(a)
<1>8. l = [i \in 0..Len(a) |-> IF i = 0 THEN LedgerStart ELSE LedgerStep(a, i, l[i - 1])]
  BY <1>6
<1> HIDE DEF l
<1>9. /\ DOMAIN l = 0..Len(a)
      /\ \A i \in 0..Len(a) : l[i] = IF i = 0 THEN LedgerStart ELSE LedgerStep(a, i, l[i - 1])
  BY <1>8
<1> QED
  BY <1>7, <1>9 DEF l

\* The calls outside batch units that the ledger lets pass, each of which it charges for.
Paid(a, i) == {j \in 1..i : Ledger(a)[j].allow /\ a[j] \notin BatchUnit}
\* The high-risk calls among them.
PaidRisk(a, i) == {j \in Paid(a, i) : HighRisk(a[j])}

\* The ledger has charged at least for what it let pass, and within the limits.
LedgerSound(a, i) ==
    /\ Ledger(a)[i] \in [operations : 0..OperationBudget, risk : 0..RiskQuota, allow : BOOLEAN]
    /\ IsFiniteSet(Paid(a, i)) /\ IsFiniteSet(PaidRisk(a, i))
    /\ used.operations + Cardinality(Paid(a, i)) <= Ledger(a)[i].operations
    /\ used.risk + Cardinality(PaidRisk(a, i)) <= Ledger(a)[i].risk

\* Each call keeps the ledger sound, and so it is sound after all of them: there is no
\* first call after which it is not.
LEMMA LedgerStepSound ==
    ASSUME LoopShape, NEW a \in Seq(Calls), NEW i \in 1..Len(a), LedgerSound(a, i - 1)
    PROVE  LedgerSound(a, i)
<1> DEFINE l == Ledger(a)
           before == l[i - 1]
           after == l[i]
           P == Paid(a, i - 1)
           R == PaidRisk(a, i - 1)
<1>1. i \in Nat /\ i - 1 \in Nat /\ i \in 1..i /\ Len(a) \in Nat
  OBVIOUS
<1>2. \A j \in 1..i : j = i \/ j \in 1..(i - 1)
  BY <1>1
<1>3. \A j \in 1..(i - 1) : j \in 1..i /\ j # i
  BY <1>1
<1>4. after = LedgerStep(a, i, before)
  BY LedgerUnfolds
<1>5. /\ before \in [operations : 0..OperationBudget, risk : 0..RiskQuota, allow : BOOLEAN]
      /\ used.operations + Cardinality(P) <= before.operations
      /\ used.risk + Cardinality(R) <= before.risk
      /\ IsFiniteSet(P) /\ IsFiniteSet(R)
  BY DEF LedgerSound
<1>6. Cardinality(P) \in Nat /\ Cardinality(R) \in Nat
  BY <1>5, FS_CardinalityType
<1>7. used.operations \in Nat /\ used.risk \in Nat /\ OperationBudget \in Nat /\ RiskQuota \in Nat
  BY LoopLimits DEF LoopShape
<1>8. /\ Paid(a, i) = IF after.allow /\ a[i] \notin BatchUnit THEN P \cup {i} ELSE P
      /\ i \notin P
  BY <1>1, <1>2, <1>3 DEF Paid
<1>9. /\ PaidRisk(a, i) = IF after.allow /\ a[i] \notin BatchUnit /\ HighRisk(a[i])
                          THEN R \cup {i} ELSE R
      /\ i \notin R
  BY <1>8 DEF PaidRisk
<1> HIDE DEF l, before, after, P, R
<1>10. /\ IsFiniteSet(P \cup {i}) /\ Cardinality(P \cup {i}) = Cardinality(P) + 1
       /\ IsFiniteSet(R \cup {i}) /\ Cardinality(R \cup {i}) = Cardinality(R) + 1
  BY <1>5, <1>8, <1>9, FS_AddElement
<1>11. CASE ~StartsGroup(a, i)
  <2>1. a[i] \in BatchUnit /\ after = before
    BY <1>4, <1>11 DEF StartsGroup, LedgerStep
  <2>2. Paid(a, i) = P /\ PaidRisk(a, i) = R
    BY <1>8, <1>9, <2>1
  <2> QED
    BY <1>5, <2>1, <2>2 DEF LedgerSound, after, l
<1>12. CASE /\ StartsGroup(a, i)
            /\ \/ before.operations >= OperationBudget
               \/ HighFrom(a, i) /\ before.risk >= RiskQuota
  <2>1. after = [before EXCEPT !.allow = FALSE]
    BY <1>4, <1>12 DEF LedgerStep
  <2>2. /\ after \in [operations : 0..OperationBudget, risk : 0..RiskQuota, allow : BOOLEAN]
        /\ ~after.allow /\ after.operations = before.operations /\ after.risk = before.risk
    BY <1>5, <2>1
  <2>3. Paid(a, i) = P /\ PaidRisk(a, i) = R
    BY <1>8, <1>9, <2>2
  <2> QED
    BY <1>5, <2>2, <2>3 DEF LedgerSound, after, l
<1>13. CASE /\ StartsGroup(a, i)
            /\ ~ \/ before.operations >= OperationBudget
                 \/ HighFrom(a, i) /\ before.risk >= RiskQuota
  <2>1. after = [operations |-> before.operations + 1,
                 risk |-> before.risk + IF HighFrom(a, i) THEN 1 ELSE 0, allow |-> TRUE]
    BY <1>4, <1>13 DEF LedgerStep
  <2>2. /\ before.operations \in Nat /\ before.operations < OperationBudget
        /\ before.risk \in 0..RiskQuota /\ (HighFrom(a, i) => before.risk < RiskQuota)
    BY <1>5, <1>7, <1>13
  <2>3. /\ after.operations = before.operations + 1
        /\ after.risk = before.risk + IF HighFrom(a, i) THEN 1 ELSE 0
    BY <2>1
  <2>4. before.risk + (IF HighFrom(a, i) THEN 1 ELSE 0) \in 0..RiskQuota
    BY <1>7, <2>2
  <2>5. before.operations + 1 \in 0..OperationBudget
    BY <1>7, <2>2
  <2>6. after \in [operations : 0..OperationBudget, risk : 0..RiskQuota, allow : BOOLEAN]
    BY <2>1, <2>4, <2>5
  <2>7. HighRisk(a[i]) => HighFrom(a, i)
    <3>1. i \in GroupFrom(a, i)
      <4>1. i \in i..Len(a)
        BY <1>1
      <4> QED
        BY <4>1 DEF GroupFrom
    <3> QED
      BY <3>1 DEF HighFrom
  <2>8. /\ IsFiniteSet(Paid(a, i)) /\ Cardinality(Paid(a, i)) <= Cardinality(P) + 1
    BY <1>5, <1>6, <1>8, <1>10
  <2>9. used.operations + Cardinality(Paid(a, i)) <= after.operations
    <3>1. Cardinality(Paid(a, i)) \in Nat
      BY <2>8, FS_CardinalityType
    <3>2. after.operations = before.operations + 1 /\ before.operations \in Nat
      BY <2>2, <2>3
    <3>3. used.operations + Cardinality(P) <= before.operations
      BY <1>5
    <3> QED
      BY <1>6, <1>7, <2>8, <3>1, <3>2, <3>3
  <2>10. /\ IsFiniteSet(PaidRisk(a, i))
         /\ Cardinality(PaidRisk(a, i)) <= Cardinality(R) + IF HighFrom(a, i) THEN 1 ELSE 0
    <3>1. CASE HighFrom(a, i)
      BY <1>5, <1>6, <1>9, <1>10, <2>7, <3>1
    <3>2. CASE ~HighFrom(a, i)
      BY <1>5, <1>6, <1>9, <1>10, <2>7, <3>2
    <3> QED
      BY <3>1, <3>2
  <2>11. used.risk + Cardinality(PaidRisk(a, i)) <= after.risk
    <3> DEFINE h == IF HighFrom(a, i) THEN 1 ELSE 0
    <3>1. Cardinality(PaidRisk(a, i)) \in Nat /\ before.risk \in Nat /\ h \in Nat
      BY <2>2, <2>10, FS_CardinalityType
    <3>2. after.risk = before.risk + h
      BY <2>3
    <3>3. Cardinality(PaidRisk(a, i)) <= Cardinality(R) + h
      BY <2>10
    <3>4. used.risk + Cardinality(R) <= before.risk
      BY <1>5
    <3> HIDE DEF h
    <3> QED
      BY <1>6, <1>7, <3>1, <3>2, <3>3, <3>4
  <2> QED
    BY <2>6, <2>8, <2>9, <2>10, <2>11 DEF LedgerSound, after, l
<1> QED
  BY <1>11, <1>12, <1>13

\* The ledger is sound throughout.
LEMMA LedgerBound ==
    ASSUME LoopShape, NEW a \in Seq(Calls)
    PROVE  \A i \in 0..Len(a) : LedgerSound(a, i)
<1> DEFINE Bad == {i \in 0..Len(a) : ~LedgerSound(a, i)}
<1> SUFFICES ASSUME Bad # {} PROVE FALSE
  OBVIOUS
<1>1. Bad \in SUBSET Nat /\ Bad \subseteq 0..Len(a)
  OBVIOUS
<1>2. \A i \in 0..Len(a) : i \in Bad <=> ~LedgerSound(a, i)
  OBVIOUS
<1> HIDE DEF Bad
<1>3. PICK n \in Bad : \A m \in Bad : n <= m
  BY <1>1, FirstOfAll
<1>4. n \in 0..Len(a) /\ ~LedgerSound(a, n)
  BY <1>1, <1>2, <1>3
<1>5. CASE n = 0
  <2>1. Paid(a, 0) = {} /\ PaidRisk(a, 0) = {}
    BY DEF Paid, PaidRisk
  <2>2. Ledger(a)[0] = LedgerStart
    BY LedgerUnfolds
  <2>3. used \in [operations : 0..OperationBudget, risk : 0..RiskQuota]
    BY DEF LoopShape
  <2>4. LedgerStart \in [operations : 0..OperationBudget, risk : 0..RiskQuota, allow : BOOLEAN]
        /\ LedgerStart.operations = used.operations /\ LedgerStart.risk = used.risk
        /\ used.operations + 0 <= used.operations /\ used.risk + 0 <= used.risk
    BY <2>3 DEF LedgerStart
  <2>5. IsFiniteSet(Paid(a, 0)) /\ IsFiniteSet(PaidRisk(a, 0))
        /\ Cardinality(Paid(a, 0)) = 0 /\ Cardinality(PaidRisk(a, 0)) = 0
    BY <2>1, FS_EmptySet
  <2> QED
    BY <1>4, <1>5, <2>2, <2>4, <2>5 DEF LedgerSound
<1>6. CASE n # 0
  <2>1. n \in 1..Len(a) /\ n - 1 \in 0..Len(a) /\ ~(n <= n - 1)
    BY <1>4, <1>6
  <2>2. LedgerSound(a, n - 1)
    BY <1>2, <1>3, <2>1
  <2> QED
    BY <1>4, <2>1, <2>2, LedgerStepSound
<1> QED
  BY <1>5, <1>6

\* Products with a bound, which the provers do not find.
LEMMA Times ==
    /\ \A a, m \in Nat : a * m \in Nat /\ (a + 1) * m = a * m + m
    /\ \A a, b, m \in Nat : a <= b => a * m <= b * m
<1>1. \A a, m \in Nat : a * m \in Nat /\ (a + 1) * m = a * m + m
  OBVIOUS
<1>2. ASSUME NEW a \in Nat, NEW b \in Nat, NEW m \in Nat, a <= b PROVE a * m <= b * m
  <2>1. PICK d \in Nat : b = a + d
    <3>1. b - a \in Nat /\ b = a + (b - a)
      BY <1>2
    <3> QED
      BY <3>1
  <2>2. b * m = a * m + d * m
    BY <2>1
  <2>3. a * m \in Nat /\ d * m \in Nat
    OBVIOUS
  <2> QED
    BY <2>2, <2>3
<1> QED
  BY <1>1, <1>2

\* The fields of a step.
LEMMA StepShape ==
    ASSUME LoopShape
    PROVE  /\ step.guarded \in Seq(Calls) /\ step.budgeted \in Seq(Calls)
           /\ step.plan \in Seq(Calls) /\ step.todo \in Seq(Calls)
           /\ step.running \in Seq(Calls) /\ step.executed \in Seq(Calls \X BOOLEAN)
           /\ step = [guarded |-> step.guarded, budgeted |-> step.budgeted, plan |-> step.plan,
                      todo |-> step.todo, running |-> step.running, executed |-> step.executed]
BY DEF LoopShape, Steps

\* The fields of the step between two steps.
LEMMA IdleIs ==
    /\ Idle \in Steps /\ Idle.guarded = <<>> /\ Idle.budgeted = <<>> /\ Idle.plan = <<>>
    /\ Idle.todo = <<>> /\ Idle.running = <<>> /\ Idle.executed = <<>>
<1>1. <<>> \in Seq(Calls) /\ <<>> \in Seq(Calls \X BOOLEAN)
  OBVIOUS
<1> QED
  BY <1>1 DEF Idle, Steps

\* A batch is a prefix of what is to do, of safe reads if it is longer than a call.
LEMMA BatchIsPrefix ==
    ASSUME NEW s \in Seq(Calls), s # <<>>
    PROVE  \E k \in 1..Len(s) : /\ NextBatch(s) = 1..k
                                /\ k > 1 => \A i \in 1..k : Batchable(s[i])
<1> DEFINE n == Len(s)
           safe == {i \in DOMAIN s : \A j \in 1..i : Batchable(s[j])}
<1>1. n \in Nat /\ n # 0 /\ DOMAIN s = 1..n
  BY EmptySeq
<1>2. NextBatch(s) = IF safe = {} THEN {1} ELSE safe
  BY DEF NextBatch
<1>3. safe \in SUBSET (1..n)
  BY <1>1
<1>4. \A i \in safe : \A j \in 1..i : j \in safe
  <2> SUFFICES ASSUME NEW i \in safe, NEW j \in 1..i PROVE j \in safe
    OBVIOUS
  <2>1. i \in 1..n /\ \A k \in 1..i : Batchable(s[k])
    BY <1>1
  <2>2. j \in 1..n /\ \A k \in 1..j : k \in 1..i
    BY <1>1, <2>1
  <2> QED
    BY <1>1, <2>1, <2>2
<1>5. \A i \in safe : Batchable(s[i])
  <2> SUFFICES ASSUME NEW i \in safe PROVE Batchable(s[i])
    OBVIOUS
  <2>1. i \in 1..i
    BY <1>1
  <2> QED
    BY <2>1
<1> HIDE DEF safe, n
<1>6. CASE safe = {}
  <2>1. 1 \in 1..n /\ {1} = 1..1
    BY <1>1
  <2> QED
    BY <1>2, <1>6, <2>1 DEF n
<1>7. CASE safe # {}
  <2>1. IsFiniteSet(safe) /\ safe \in SUBSET Nat
    <3>1. IsFiniteSet(1..n) /\ 1..n \in SUBSET Nat
      BY <1>1, UpTo
    <3> QED
      BY <1>3, <3>1, FS_Subset
  <2>2. PICK k \in safe : Cardinality({j \in safe : j <= k}) = Cardinality(safe)
    BY <1>7, <2>1, LastOfAll
  <2>3. \A i \in safe : i <= k
    <3>1. {j \in safe : j <= k} \in SUBSET safe
      OBVIOUS
    <3>2. {j \in safe : j <= k} = safe
      BY <2>1, <2>2, <3>1, FS_Subset
    <3> QED
      BY <3>2
  <2>4. k \in 1..n
    BY <1>3
  <2>5. safe = 1..k
    <3>1. \A i \in safe : i \in 1..k
      BY <1>1, <1>3, <2>3, <2>4
    <3>2. \A i \in 1..k : i \in safe
      BY <1>4
    <3> QED
      BY <3>1, <3>2
  <2> QED
    BY <1>2, <1>5, <1>7, <2>4, <2>5 DEF n
<1> QED
  BY <1>6, <1>7

\* A batch is taken from the front of what is to do, and nothing is lost.
LEMMA StartBatchIs ==
    ASSUME LoopShape, StartBatch
    PROVE  /\ step' \in Steps /\ phase = "execute"
           /\ step'.guarded = step.guarded /\ step'.budgeted = step.budgeted
           /\ step'.plan = step.plan /\ step'.executed = step.executed
           /\ step.running = <<>> /\ step'.running \o step'.todo = step.todo
           /\ Len(step'.running) > 1 =>
                 \A i \in DOMAIN step'.running : Batchable(step'.running[i])
           /\ \A c : Occurrences(step'.running, c) + Occurrences(step'.todo, c)
                       = Occurrences(step.todo, c)
<1> DEFINE s == step.todo
           r == Pick(s, NextBatch(s))
           t == Pick(s, (1..Len(s)) \ NextBatch(s))
<1>1. s \in Seq(Calls) /\ s # <<>> /\ step.running = <<>> /\ phase = "execute"
  BY StepShape DEF StartBatch
<1>2. step' = [step EXCEPT !.running = r, !.todo = t]
  BY DEF StartBatch
<1> HIDE DEF s, r, t
<1>3. PICK k \in 1..Len(s) : NextBatch(s) = 1..k /\ (k > 1 => \A i \in 1..k : Batchable(s[i]))
  BY <1>1, BatchIsPrefix
<1>4. k \in Nat /\ k \in 0..Len(s) /\ Len(s) \in Nat
  BY <1>1
<1>5. r = Pick(s, 1..k) /\ t = Pick(s, (1..Len(s)) \ (1..k))
  BY <1>3 DEF r, t
<1>6. /\ r \in Seq(Calls) /\ Len(r) = k /\ \A i \in 1..k : r[i] = s[i]
      /\ t \in Seq(Calls) /\ Len(t) = Len(s) - k /\ \A i \in 1..(Len(s) - k) : t[i] = s[k + i]
  BY <1>1, <1>4, <1>5, PickPrefix
<1>7. r \o t = s
  <2>1. /\ r \o t \in Seq(Calls) /\ Len(r \o t) = Len(s)
        /\ \A i \in 1..k : (r \o t)[i] = s[i]
        /\ \A i \in 1..Len(t) : (r \o t)[k + i] = s[k + i]
    BY <1>4, <1>6, ConcatProperties
  <2>2. \A i \in 1..Len(s) : i \in 1..k \/ (i - k \in 1..Len(t) /\ i = k + (i - k))
    BY <1>4, <1>6
  <2>3. \A i \in 1..Len(s) : (r \o t)[i] = s[i]
    BY <2>1, <2>2
  <2> QED
    BY <1>1, <2>1, <2>3, SeqEqual
<1>8. \A c : Occurrences(r, c) + Occurrences(t, c) = Occurrences(s, c)
  BY <1>6, <1>7, OccurrencesOfConcat
<1>9. Len(r) > 1 => \A i \in DOMAIN r : Batchable(r[i])
  <2>1. DOMAIN r = 1..k
    BY <1>6
  <2> QED
    BY <1>3, <1>6, <2>1
<1>10. /\ step' \in Steps
       /\ step'.guarded = step.guarded /\ step'.budgeted = step.budgeted
       /\ step'.plan = step.plan /\ step'.executed = step.executed
       /\ step'.running = r /\ step'.todo = t
  <2>1. step \in [guarded : Seq(Calls), budgeted : Seq(Calls), plan : Seq(Calls),
                  todo : Seq(Calls), running : Seq(Calls), executed : Seq(Calls \X BOOLEAN)]
    BY DEF LoopShape, Steps
  <2> QED
    BY <1>2, <1>6, <2>1 DEF Steps
<1> QED
  BY <1>1, <1>7, <1>8, <1>9, <1>10 DEF s

\* A batch that comes back is appended to what was executed.
LEMMA EndBatchIs ==
    ASSUME LoopShape, NEW ok \in [1..Len(step.running) -> BOOLEAN], EndBatch(ok)
    PROVE  \E done \in Seq(Calls \X BOOLEAN) :
           /\ phase = "execute" /\ step' \in Steps
           /\ step'.guarded = step.guarded /\ step'.budgeted = step.budgeted
           /\ step'.plan = step.plan /\ step'.todo = step.todo
           /\ step'.running = <<>> /\ step'.executed = step.executed \o done
           /\ events' = PlusExecutions(events, done)
           /\ Len(done) = Len(step.running)
           /\ \A i \in 1..Len(done) : done[i][1] = step.running[i]
           /\ \A c : /\ Occurrences(done, <<c, TRUE>>) + Occurrences(done, <<c, FALSE>>)
                          = Occurrences(step.running, c)
                     /\ \A b \in BOOLEAN : Occurrences(step'.executed, <<c, b>>)
                          = Occurrences(step.executed, <<c, b>>) + Occurrences(done, <<c, b>>)
<1> DEFINE s == step.running
           done == [n \in 1..Len(s) |-> <<s[n], ok[n]>>]
<1>1. s \in Seq(Calls) /\ phase = "execute"
  BY StepShape DEF EndBatch
<1>2. step' = [step EXCEPT !.running = <<>>, !.executed = step.executed \o done]
  BY DEF EndBatch, LoopShape, Steps
<1>3. events' = PlusExecutions(events, done)
  BY DEF EndBatch
<1>4. \A i \in 1..Len(s) : done[i][1] = s[i]
  OBVIOUS
<1>5. /\ done \in Seq(Calls \X BOOLEAN) /\ Len(done) = Len(s)
      /\ \A c : Occurrences(done, <<c, TRUE>>) + Occurrences(done, <<c, FALSE>>)
                            = Occurrences(s, c)
  BY <1>1, OccurrencesOfDone
<1> HIDE DEF done
<1>6. step.executed \in Seq(Calls \X BOOLEAN)
  BY StepShape
<1>7. step.executed \o done \in Seq(Calls \X BOOLEAN)
  BY <1>5, <1>6, ConcatProperties
<1>8. \A c, b : Occurrences(step.executed \o done, <<c, b>>)
        = Occurrences(step.executed, <<c, b>>) + Occurrences(done, <<c, b>>)
  BY <1>5, <1>6, OccurrencesOfConcat
<1>9. /\ step' \in Steps
      /\ step'.guarded = step.guarded /\ step'.budgeted = step.budgeted
      /\ step'.plan = step.plan /\ step'.todo = step.todo
      /\ step'.running = <<>> /\ step'.executed = step.executed \o done
  <2>1. step \in [guarded : Seq(Calls), budgeted : Seq(Calls), plan : Seq(Calls),
                  todo : Seq(Calls), running : Seq(Calls), executed : Seq(Calls \X BOOLEAN)]
        /\ <<>> \in Seq(Calls)
    BY DEF LoopShape, Steps
  <2> HIDE DEF s
  <2> QED
    BY <1>2, <1>7, <2>1 DEF Steps
<1>10. /\ Len(done) = Len(step.running)
       /\ \A i \in 1..Len(done) : done[i][1] = step.running[i]
  BY <1>4, <1>5
<1>11. \A c : /\ Occurrences(done, <<c, TRUE>>) + Occurrences(done, <<c, FALSE>>)
                   = Occurrences(step.running, c)
              /\ \A b \in BOOLEAN : Occurrences(step'.executed, <<c, b>>)
                   = Occurrences(step.executed, <<c, b>>) + Occurrences(done, <<c, b>>)
  BY <1>5, <1>8, <1>9
<1> QED
  BY <1>1, <1>3, <1>5, <1>9, <1>10, <1>11, Zenon

\* The calls the result guard reports.
RepeatedOf(x) == Pick([i \in DOMAIN x |-> x[i][1]], PastFailures(x))

\* The failures up to a place, and in all.
LEMMA FailuresUpTo ==
    ASSUME NEW x \in Seq(Calls \X BOOLEAN), NEW i \in 0..Len(x), NEW c
    PROVE  Positions(SubSeq(x, 1, i), <<c, FALSE>>)
             = {j \in Positions(x, <<c, FALSE>>) : j <= i}
<1> DEFINE y == SubSeq(x, 1, i)
<1>1. Len(x) \in Nat /\ i \in Nat /\ i <= Len(x) /\ DOMAIN x = 1..Len(x)
  OBVIOUS
<1>2. y \in Seq(Calls \X BOOLEAN) /\ Len(y) = i /\ \A j \in 1..i : y[j] = x[j]
  <2>1. CASE i = 0
    <3>1. y = <<>>
      BY <2>1, SubSeqProperties
    <3> QED
      BY <2>1, <3>1
  <2>2. CASE i # 0
    <3>1. 1 \in 1..Len(x) /\ i \in 1..Len(x) /\ i - 1 + 1 = i
      BY <1>1, <2>2
    <3> QED
      BY <1>1, <2>2, <3>1, SubSeqProperties
  <2> QED
    BY <2>1, <2>2
<1>3. DOMAIN y = 1..i
  BY <1>2
<1> HIDE DEF y
<1>4. \A j : j \in 1..i <=> j \in 1..Len(x) /\ j <= i
  BY <1>1
<1> QED
  BY <1>1, <1>2, <1>3, <1>4 DEF Positions, y

\* After a step the guard has counted all failures of it.
LEMMA AllFailures ==
    ASSUME NEW x \in Seq(Calls \X BOOLEAN), NEW c
    PROVE  FailuresBy(x, Len(x), c) = guard.failed[c] + Occurrences(x, <<c, FALSE>>)
<1>1. Len(x) \in 0..Len(x) /\ Len(x) \in Nat
  OBVIOUS
<1>2. Positions(x, <<c, FALSE>>) \subseteq 1..Len(x)
  BY OccurrencesBound
<1>3. Positions(SubSeq(x, 1, Len(x)), <<c, FALSE>>) = Positions(x, <<c, FALSE>>)
  <2>1. Positions(SubSeq(x, 1, Len(x)), <<c, FALSE>>)
          = {j \in Positions(x, <<c, FALSE>>) : j <= Len(x)}
    BY <1>1, FailuresUpTo
  <2>2. \A j \in Positions(x, <<c, FALSE>>) : j <= Len(x)
    BY <1>1, <1>2
  <2> QED
    BY <2>1, <2>2
<1> QED
  BY <1>3 DEF FailuresBy, Occurrences

\* When no failure is past the limit, no call is.
LEMMA NoneIsPast ==
    ASSUME LoopShape, NEW x \in Seq(Calls \X BOOLEAN), PastFailures(x) = {},
           NEW c \in Calls, guard.failed[c] <= MaxFailedRepeats
    PROVE  FailuresBy(x, Len(x), c) <= MaxFailedRepeats
<1> DEFINE U == Positions(x, <<c, FALSE>>)
<1>1. guard.failed[c] \in Nat /\ MaxFailedRepeats \in Nat
  BY LoopLimits DEF LoopShape
<1>2. IsFiniteSet(U) /\ U \subseteq 1..Len(x) /\ Cardinality(U) \in Nat
  BY OccurrencesBound DEF Occurrences
<1>3. FailuresBy(x, Len(x), c) = guard.failed[c] + Cardinality(U)
  BY AllFailures DEF Occurrences
<1>4. \A i \in U : i \in DOMAIN x /\ x[i] = <<c, FALSE>>
  BY DEF Positions
<1> HIDE DEF U
<1>5. CASE U = {}
  <2>1. Cardinality(U) = 0
    BY <1>5, FS_EmptySet
  <2> QED
    BY <1>1, <1>3, <2>1
<1>6. CASE U # {}
  <2>1. U \in SUBSET Nat
    BY <1>2
  <2>2. PICK i \in U : Cardinality({j \in U : j <= i}) = Cardinality(U)
    BY <1>2, <1>6, <2>1, LastOfAll
  <2>3. i \in 0..Len(x) /\ i \in DOMAIN x /\ x[i] = <<c, FALSE>>
    <3>1. i \in 1..Len(x) /\ Len(x) \in Nat
      BY <1>2
    <3>2. i \in 0..Len(x)
      BY <3>1
    <3> QED
      BY <1>4, <3>2
  <2>4. Positions(SubSeq(x, 1, i), <<c, FALSE>>) = {j \in U : j <= i}
    BY <2>3, FailuresUpTo DEF U
  <2>5. FailuresBy(x, i, c) = guard.failed[c] + Cardinality(U)
    BY <2>2, <2>4 DEF FailuresBy, Occurrences
  <2>6. ~(FailuresBy(x, i, c) > MaxFailedRepeats)
    <3>1. x[i][1] = c /\ ~x[i][2]
      BY <2>3
    <3> QED
      BY <2>3, <3>1 DEF PastFailures
  <2> QED
    BY <1>1, <1>2, <1>3, <2>5, <2>6
<1> QED
  BY <1>5, <1>6

\* No call is reported when no failure is past the limit.
LEMMA RepeatedIs ==
    ASSUME NEW x \in Seq(Calls \X BOOLEAN)
    PROVE  /\ RepeatedOf(x) \in Seq(Calls)
           /\ RepeatedOf(x) = <<>> => PastFailures(x) = {}
<1> DEFINE y == [i \in DOMAIN x |-> x[i][1]]
<1>1. y \in Seq(Calls) /\ DOMAIN y = DOMAIN x
  <2>1. DOMAIN x = 1..Len(x) /\ Len(x) \in Nat /\ \A i \in 1..Len(x) : x[i] \in Calls \X BOOLEAN
    OBVIOUS
  <2>2. y \in [1..Len(x) -> Calls]
    BY <2>1
  <2>3. y \in Seq(Calls)
    BY <2>1, <2>2
  <2> QED
    BY <2>3
<1>2. PastFailures(x) \in SUBSET DOMAIN y
  BY <1>1 DEF PastFailures
<1>3. RepeatedOf(x) = Pick(y, PastFailures(x))
  BY DEF RepeatedOf
<1> HIDE DEF y
<1>4. /\ IsFiniteSet(PastFailures(x)) /\ RepeatedOf(x) \in Seq(Calls)
      /\ Len(RepeatedOf(x)) = Cardinality(PastFailures(x))
  BY <1>1, <1>2, <1>3, PickShape
<1>5. RepeatedOf(x) = <<>> => PastFailures(x) = {}
  BY <1>4, FS_EmptySet
<1> QED
  BY <1>4, <1>5

\* The results on record after a step.
LEMMA GatheredIs ==
    ASSUME LoopShape, NEW r \in Seq(Calls)
    PROVE  /\ Plus(Gathered, r, "result") \in Tally
           /\ \A c \in Calls :
              /\ Plus(Gathered, r, "result")[<<c, "ok">>]
                   = executions[<<c, "ok">>] + Occurrences(step.executed, <<c, TRUE>>)
              /\ Plus(Gathered, r, "result")[<<c, "failed">>]
                   = executions[<<c, "failed">>] + Occurrences(step.executed, <<c, FALSE>>)
              /\ Plus(Gathered, r, "result")[<<c, "guard">>]
                   = executions[<<c, "guard">>] + Occurrences(step.guarded, c)
              /\ Plus(Gathered, r, "result")[<<c, "budget">>]
                   = executions[<<c, "budget">>] + Occurrences(step.budgeted, c)
              /\ Plus(Gathered, r, "result")[<<c, "result">>]
                   = executions[<<c, "result">>] + Occurrences(r, c)
<1> DEFINE t1 == PlusExecutions(executions, step.executed)
           t2 == Plus(t1, step.guarded, "guard")
           t3 == Plus(t2, step.budgeted, "budget")
           t4 == Plus(t3, r, "result")
<1>1. executions \in Tally
  BY DEF LoopShape
<1>2. /\ t1 \in Tally
      /\ \A c \in Calls :
            /\ t1[<<c, "ok">>] = executions[<<c, "ok">>] + Occurrences(step.executed, <<c, TRUE>>)
            /\ t1[<<c, "failed">>]
                 = executions[<<c, "failed">>] + Occurrences(step.executed, <<c, FALSE>>)
            /\ t1[<<c, "guard">>] = executions[<<c, "guard">>]
            /\ t1[<<c, "budget">>] = executions[<<c, "budget">>]
            /\ t1[<<c, "result">>] = executions[<<c, "result">>]
  BY <1>1, StepShape, PlusExecutionsIs
<1>t. Gathered = t3
  BY DEF Gathered
<1> HIDE DEF t1
<1>3. /\ t2 \in Tally
      /\ \A c \in Calls, k \in Kinds : t2[<<c, k>>]
            = t1[<<c, k>>] + IF k = "guard" THEN Occurrences(step.guarded, c) ELSE 0
  BY <1>2, StepShape, PlusIs
<1> HIDE DEF t2
<1>4. /\ t3 \in Tally
      /\ \A c \in Calls, k \in Kinds : t3[<<c, k>>]
            = t2[<<c, k>>] + IF k = "budget" THEN Occurrences(step.budgeted, c) ELSE 0
  BY <1>3, StepShape, PlusIs
<1> HIDE DEF t3
<1>5. /\ t4 \in Tally
      /\ \A c \in Calls, k \in Kinds : t4[<<c, k>>]
            = t3[<<c, k>>] + IF k = "result" THEN Occurrences(r, c) ELSE 0
  BY <1>4, PlusIs
<1> HIDE DEF t4
<1>6. {"ok", "failed", "guard", "budget", "result"} = Kinds
  BY DEF Kinds
<1>7. ASSUME NEW c \in Calls, NEW k \in Kinds
      PROVE  /\ t1[<<c, k>>] \in Int /\ t2[<<c, k>>] \in Int /\ t3[<<c, k>>] \in Int
             /\ t4[<<c, k>>] \in Int
  BY <1>2, <1>3, <1>4, <1>5 DEF Tally
<1>8. ASSUME NEW c \in Calls
      PROVE  /\ t4[<<c, "ok">>] = t1[<<c, "ok">>] /\ t4[<<c, "failed">>] = t1[<<c, "failed">>]
             /\ t4[<<c, "guard">>] = t1[<<c, "guard">>] + Occurrences(step.guarded, c)
             /\ t4[<<c, "budget">>] = t1[<<c, "budget">>] + Occurrences(step.budgeted, c)
             /\ t4[<<c, "result">>] = t1[<<c, "result">>] + Occurrences(r, c)
  <2>1. "ok" \in Kinds /\ "failed" \in Kinds /\ "guard" \in Kinds /\ "budget" \in Kinds
        /\ "result" \in Kinds
    BY <1>6
  <2>2. /\ Occurrences(step.guarded, c) \in Nat /\ Occurrences(step.budgeted, c) \in Nat
        /\ Occurrences(r, c) \in Nat
    BY StepShape, OccurrencesBound
  <2>3. \A n \in Int : n + 0 = n
    OBVIOUS
  <2>4. t4[<<c, "ok">>] = t1[<<c, "ok">>]
    BY <1>3, <1>4, <1>5, <1>7, <2>1, <2>3
  <2>5. t4[<<c, "failed">>] = t1[<<c, "failed">>]
    BY <1>3, <1>4, <1>5, <1>7, <2>1, <2>3
  <2>6. t4[<<c, "guard">>] = t1[<<c, "guard">>] + Occurrences(step.guarded, c)
    BY <1>3, <1>4, <1>5, <1>7, <2>1, <2>2, <2>3
  <2>7. t4[<<c, "budget">>] = t1[<<c, "budget">>] + Occurrences(step.budgeted, c)
    BY <1>3, <1>4, <1>5, <1>7, <2>1, <2>2, <2>3
  <2>8. t4[<<c, "result">>] = t1[<<c, "result">>] + Occurrences(r, c)
    BY <1>3, <1>4, <1>5, <1>7, <2>1, <2>2, <2>3
  <2> QED
    BY <2>4, <2>5, <2>6, <2>7, <2>8
<1>9. Plus(Gathered, r, "result") = t4
  BY <1>t DEF t4
<1>10. ASSUME NEW c \in Calls
       PROVE  /\ t4[<<c, "ok">>]
                   = executions[<<c, "ok">>] + Occurrences(step.executed, <<c, TRUE>>)
              /\ t4[<<c, "failed">>]
                   = executions[<<c, "failed">>] + Occurrences(step.executed, <<c, FALSE>>)
              /\ t4[<<c, "guard">>] = executions[<<c, "guard">>] + Occurrences(step.guarded, c)
              /\ t4[<<c, "budget">>] = executions[<<c, "budget">>] + Occurrences(step.budgeted, c)
              /\ t4[<<c, "result">>] = executions[<<c, "result">>] + Occurrences(r, c)
  BY <1>2, <1>8
<1> QED
  BY <1>5, <1>9, <1>10

\* What the end of a step records and what it decides.
LEMMA EndStepIs ==
    ASSUME LoopShape, EndStep
    PROVE  \E r \in Seq(Calls) :
           /\ phase = "execute" /\ step.running = <<>> /\ step.todo = <<>> /\ step' = Idle
           /\ guard' = [total |-> guard.total, seen |-> guard.seen,
                        failed |-> [c \in Calls |-> guard.failed[c]
                                       + Occurrences(step.executed, <<c, FALSE>>)]]
           /\ executions' = Plus(Gathered, r, "result")
           /\ events' = Plus(events, r, "result")
           /\ phase' \in {"done", "generate"}
           /\ phase' = "done" => outcome' = "ask"
           /\ phase' = "generate" =>
                 /\ outcome' = outcome /\ turn < TurnBudget
                 /\ \A c \in Calls : guard.failed[c] <= MaxFailedRepeats
                                       => guard'.failed[c] <= MaxFailedRepeats
           /\ UNCHANGED <<turn, used, asked>>
<1> DEFINE x == step.executed
           r == RepeatedOf(x)
<1>1. x \in Seq(Calls \X BOOLEAN)
  BY StepShape
<1>2. r \in Seq(Calls) /\ (r = <<>> => PastFailures(x) = {})
  BY <1>1, RepeatedIs
<1>3. /\ phase = "execute" /\ step.running = <<>> /\ step.todo = <<>> /\ step' = Idle
      /\ guard' = [guard EXCEPT !.failed = [c \in Calls |-> FailuresBy(x, Len(x), c)]]
      /\ executions' = Plus(Gathered, r, "result") /\ events' = Plus(events, r, "result")
      /\ \/ phase' = "done" /\ outcome' = "ask"
         \/ r = <<>> /\ ~OutOfTurns /\ phase' = "generate" /\ outcome' = outcome
      /\ UNCHANGED <<turn, used, asked>>
  BY DEF EndStep, EndRun, RepeatedOf
<1>4. [c \in Calls |-> FailuresBy(x, Len(x), c)]
        = [c \in Calls |-> guard.failed[c] + Occurrences(x, <<c, FALSE>>)]
  <2>1. \A c \in Calls : FailuresBy(x, Len(x), c) = guard.failed[c] + Occurrences(x, <<c, FALSE>>)
    BY <1>1, AllFailures
  <2> QED
    BY <2>1, Zenon
<1> HIDE DEF r, x
<1>5. guard' = [total |-> guard.total, seen |-> guard.seen,
                failed |-> [c \in Calls |-> guard.failed[c] + Occurrences(x, <<c, FALSE>>)]]
  <2> DEFINE f == [c \in Calls |-> guard.failed[c] + Occurrences(x, <<c, FALSE>>)]
  <2>1. guard' = [guard EXCEPT !.failed = f]
    BY <1>3, <1>4, Zenon
  <2>2. guard \in [total : Nat, seen : [GuardKeys -> Nat], failed : [Calls -> Nat]]
    BY DEF LoopShape
  <2> HIDE DEF f
  <2>3. guard' = [total |-> guard.total, seen |-> guard.seen, failed |-> f]
    BY <2>1, <2>2
  <2> QED
    BY <2>3 DEF f
<1>6. ASSUME phase' = "generate"
      PROVE  /\ outcome' = outcome /\ turn < TurnBudget
             /\ \A c \in Calls : guard.failed[c] <= MaxFailedRepeats
                                       => guard'.failed[c] <= MaxFailedRepeats
  <2>1. r = <<>> /\ ~OutOfTurns /\ outcome' = outcome
    BY <1>3, <1>6
  <2>2. PastFailures(x) = {}
    BY <1>2, <2>1
  <2>3. turn < TurnBudget
    BY <2>1, LoopLimits DEF OutOfTurns, LoopShape
  <2>4. ASSUME NEW c \in Calls, guard.failed[c] <= MaxFailedRepeats
        PROVE  guard'.failed[c] <= MaxFailedRepeats
    <3>1. FailuresBy(x, Len(x), c) <= MaxFailedRepeats
      BY <1>1, <2>2, <2>4, NoneIsPast
    <3>2. FailuresBy(x, Len(x), c) = guard.failed[c] + Occurrences(x, <<c, FALSE>>)
      BY <1>1, AllFailures
    <3>3. guard'.failed[c] = guard.failed[c] + Occurrences(x, <<c, FALSE>>)
      BY <1>5
    <3> QED
      BY <3>1, <3>2, <3>3
  <2> QED
    BY <2>1, <2>3, <2>4
<1>7. /\ phase' \in {"done", "generate"} /\ (phase' = "done" => outcome' = "ask")
  BY <1>3
<1>8. guard' = [total |-> guard.total, seen |-> guard.seen,
                failed |-> [c \in Calls |-> guard.failed[c]
                               + Occurrences(step.executed, <<c, FALSE>>)]]
  BY <1>5 DEF x
<1> QED
  BY <1>2, <1>3, <1>6, <1>7, <1>8, Zenon

\* A tally is its five kinds.
LEMMA TallyBy ==
    ASSUME NEW t \in Tally, NEW u \in Tally,
           \A c \in Calls : /\ t[<<c, "ok">>] = u[<<c, "ok">>]
                            /\ t[<<c, "failed">>] = u[<<c, "failed">>]
                            /\ t[<<c, "guard">>] = u[<<c, "guard">>]
                            /\ t[<<c, "budget">>] = u[<<c, "budget">>]
                            /\ t[<<c, "result">>] = u[<<c, "result">>]
    PROVE  t = u
<1>1. ASSUME NEW k \in Calls \X Kinds PROVE t[k] = u[k]
  <2>1. PICK c \in Calls, x \in Kinds : k = <<c, x>>
    OBVIOUS
  <2>2. x = "ok" \/ x = "failed" \/ x = "guard" \/ x = "budget" \/ x = "result"
    BY DEF Kinds
  <2> QED
    BY <2>1, <2>2
<1> QED
  BY <1>1 DEF Tally

\* A tally of a kind only adds to that kind.
LEMMA PlusByKind ==
    ASSUME NEW t \in Tally, NEW s \in Seq(Calls), NEW c \in Calls
    PROVE  /\ Plus(t, s, "guard")[<<c, "ok">>] = t[<<c, "ok">>]
           /\ Plus(t, s, "guard")[<<c, "failed">>] = t[<<c, "failed">>]
           /\ Plus(t, s, "guard")[<<c, "guard">>] = t[<<c, "guard">>] + Occurrences(s, c)
           /\ Plus(t, s, "guard")[<<c, "budget">>] = t[<<c, "budget">>]
           /\ Plus(t, s, "guard")[<<c, "result">>] = t[<<c, "result">>]
           /\ Plus(t, s, "budget")[<<c, "ok">>] = t[<<c, "ok">>]
           /\ Plus(t, s, "budget")[<<c, "failed">>] = t[<<c, "failed">>]
           /\ Plus(t, s, "budget")[<<c, "guard">>] = t[<<c, "guard">>]
           /\ Plus(t, s, "budget")[<<c, "budget">>] = t[<<c, "budget">>] + Occurrences(s, c)
           /\ Plus(t, s, "budget")[<<c, "result">>] = t[<<c, "result">>]
           /\ Plus(t, s, "result")[<<c, "ok">>] = t[<<c, "ok">>]
           /\ Plus(t, s, "result")[<<c, "failed">>] = t[<<c, "failed">>]
           /\ Plus(t, s, "result")[<<c, "guard">>] = t[<<c, "guard">>]
           /\ Plus(t, s, "result")[<<c, "budget">>] = t[<<c, "budget">>]
           /\ Plus(t, s, "result")[<<c, "result">>] = t[<<c, "result">>] + Occurrences(s, c)
<1>1. "ok" \in Kinds /\ "failed" \in Kinds /\ "guard" \in Kinds /\ "budget" \in Kinds
      /\ "result" \in Kinds
  BY DEF Kinds
<1>2. \A k \in Kinds : t[<<c, k>>] \in Nat
  BY DEF Tally
<1>3. \A n \in Nat : n + 0 = n
  OBVIOUS
<1>4. \A kind, k \in Kinds :
        Plus(t, s, kind)[<<c, k>>] = t[<<c, k>>] + IF k = kind THEN Occurrences(s, c) ELSE 0
  BY PlusIs
<1>5. ASSUME NEW kind \in Kinds, NEW k \in Kinds, k # kind
      PROVE  Plus(t, s, kind)[<<c, k>>] = t[<<c, k>>]
  BY <1>2, <1>3, <1>4, <1>5
<1>6. ASSUME NEW kind \in Kinds
      PROVE  Plus(t, s, kind)[<<c, kind>>] = t[<<c, kind>>] + Occurrences(s, c)
  BY <1>4
<1>7. /\ "ok" # "guard" /\ "ok" # "budget" /\ "ok" # "result" /\ "failed" # "guard"
      /\ "failed" # "budget" /\ "failed" # "result" /\ "guard" # "budget"
      /\ "guard" # "result" /\ "budget" # "result"
  OBVIOUS
<1> QED
  BY <1>1, <1>5, <1>6, <1>7, Zenon

\* A tally counts.
LEMMA TallyNat ==
    ASSUME NEW t \in Tally, NEW c \in Calls
    PROVE  /\ t[<<c, "ok">>] \in Nat /\ t[<<c, "failed">>] \in Nat /\ t[<<c, "guard">>] \in Nat
           /\ t[<<c, "budget">>] \in Nat /\ t[<<c, "result">>] \in Nat
BY Kinded DEF Tally

\* What a call has to its name is a number.
LEMMA Numbers ==
    ASSUME LoopShape, NEW c \in Calls
    PROVE  /\ executions[<<c, "ok">>] \in Nat /\ executions[<<c, "failed">>] \in Nat
           /\ executions[<<c, "guard">>] \in Nat /\ executions[<<c, "budget">>] \in Nat
           /\ executions[<<c, "result">>] \in Nat /\ asked[c] \in Nat
           /\ Occurrences(step.guarded, c) \in Nat /\ Occurrences(step.budgeted, c) \in Nat
           /\ Occurrences(step.executed, <<c, TRUE>>) \in Nat
           /\ Occurrences(step.executed, <<c, FALSE>>) \in Nat
           /\ Occurrences(step.running, c) \in Nat /\ Occurrences(step.todo, c) \in Nat
           /\ Ran(c) \in Nat /\ Commitment(c) \in Nat /\ Ran(c) <= Commitment(c)
           /\ guard.failed[c] \in Nat
<1>1. executions \in Tally /\ asked[c] \in Nat /\ guard.failed[c] \in Nat
  BY DEF LoopShape
<1>2. /\ executions[<<c, "ok">>] \in Nat /\ executions[<<c, "failed">>] \in Nat
      /\ executions[<<c, "guard">>] \in Nat /\ executions[<<c, "budget">>] \in Nat
      /\ executions[<<c, "result">>] \in Nat
  BY <1>1, TallyNat
<1>3. /\ Occurrences(step.guarded, c) \in Nat /\ Occurrences(step.budgeted, c) \in Nat
      /\ Occurrences(step.executed, <<c, TRUE>>) \in Nat
      /\ Occurrences(step.executed, <<c, FALSE>>) \in Nat
      /\ Occurrences(step.running, c) \in Nat /\ Occurrences(step.todo, c) \in Nat
  BY StepShape, OccurrencesBound
<1> QED
  BY <1>1, <1>2, <1>3 DEF Ran, RunsRecorded, Commitment

\* The invariant at the start.
LEMMA LoopShapeInit == LoopInit => LoopShape /\ Accounted /\ FailuresKnown /\ RepeatsKnown
                                   /\ WritesAreBarriers
<1> SUFFICES ASSUME LoopInit
             PROVE  LoopShape /\ Accounted /\ FailuresKnown /\ RepeatsKnown /\ WritesAreBarriers
  OBVIOUS
<1>1. /\ phase = "generate" /\ outcome = "none" /\ turn = 0 /\ step = Idle
      /\ guard = [total |-> 0, seen |-> [k \in GuardKeys |-> 0], failed |-> [c \in Calls |-> 0]]
      /\ used = [operations |-> 0, risk |-> 0]
      /\ executions = [k \in Calls \X Kinds |-> 0] /\ events = executions
      /\ asked = [c \in Calls |-> 0]
  BY DEF LoopInit
<1>2. executions \in Tally
  BY <1>1 DEF Tally
<1>3. LoopShape
  <2>1. 0 * MaxStep = 0 /\ 0 < TurnBudget /\ 0 \in 0..OperationBudget /\ 0 \in 0..RiskQuota
        /\ 0 \in 0..TurnBudget
    BY LoopLimits
  <2>2. guard \in [total : Nat, seen : [GuardKeys -> Nat], failed : [Calls -> Nat]]
    BY <1>1
  <2>3. used \in [operations : 0..OperationBudget, risk : 0..RiskQuota]
    BY <1>1, <2>1
  <2>4. guard.total = 0 /\ \A k \in GuardKeys : guard.seen[k] = 0
    BY <1>1
  <2>5. asked \in [Calls -> Nat] /\ \A c \in Calls : asked[c] = 0
    BY <1>1
  <2> QED
    BY <1>1, <1>2, <2>1, <2>2, <2>3, <2>4, <2>5, IdleIs DEF LoopShape
<1>4. ASSUME NEW c \in Calls
      PROVE  /\ executions[<<c, "ok">>] = 0 /\ executions[<<c, "failed">>] = 0
             /\ executions[<<c, "guard">>] = 0 /\ executions[<<c, "budget">>] = 0
             /\ asked[c] = 0 /\ guard.failed[c] = 0
             /\ Occurrences(step.guarded, c) = 0 /\ Occurrences(step.budgeted, c) = 0
             /\ Occurrences(step.executed, <<c, TRUE>>) = 0
             /\ Occurrences(step.executed, <<c, FALSE>>) = 0
             /\ Occurrences(step.running, c) = 0 /\ Occurrences(step.todo, c) = 0
  BY <1>1, Kinded, IdleIs, OccurrencesOfNone
<1>5. Accounted
  <2> SUFFICES ASSUME NEW c \in Calls
               PROVE  /\ asked[c] = Answered(c) + Occurrences(step.guarded, c)
                            + Occurrences(step.budgeted, c)
                            + Occurrences(step.executed, <<c, TRUE>>)
                            + Occurrences(step.executed, <<c, FALSE>>)
                            + Occurrences(step.running, c) + Occurrences(step.todo, c)
                      /\ events[<<c, "ok">>]
                           = executions[<<c, "ok">>] + Occurrences(step.executed, <<c, TRUE>>)
                      /\ events[<<c, "failed">>]
                           = executions[<<c, "failed">>] + Occurrences(step.executed, <<c, FALSE>>)
                      /\ events[<<c, "guard">>]
                           = executions[<<c, "guard">>] + Occurrences(step.guarded, c)
                      /\ events[<<c, "budget">>]
                           = executions[<<c, "budget">>] + Occurrences(step.budgeted, c)
                      /\ events[<<c, "result">>] = executions[<<c, "result">>]
    BY DEF Accounted
  <2>0. /\ executions[<<c, "ok">>] = 0 /\ executions[<<c, "failed">>] = 0
        /\ executions[<<c, "guard">>] = 0 /\ executions[<<c, "budget">>] = 0
        /\ asked[c] = 0
        /\ Occurrences(step.guarded, c) = 0 /\ Occurrences(step.budgeted, c) = 0
        /\ Occurrences(step.executed, <<c, TRUE>>) = 0
        /\ Occurrences(step.executed, <<c, FALSE>>) = 0
        /\ Occurrences(step.running, c) = 0 /\ Occurrences(step.todo, c) = 0
    BY <1>4
  <2>1. events = executions
    BY <1>1
  <2>2. Answered(c) = 0
    BY <2>0 DEF Answered, RunsRecorded
  <2>3. 0 + 0 = 0
    OBVIOUS
  <2> QED
    BY <2>0, <2>1, <2>2, <2>3
<1>6. FailuresKnown
  <2>1. 0 <= MaxFailedRepeats
    BY LoopLimits
  <2>2. \A c \in Calls : executions[<<c, "failed">>] = 0 /\ guard.failed[c] = 0
    BY <1>4
  <2> QED
    BY <2>1, <2>2 DEF FailuresKnown
<1>7. RepeatsKnown
  <2>1. ASSUME NEW c \in Known PROVE Commitment(c) = 0
    <3>1. c \in Calls
      BY CallsAreKeyed
    <3>2. /\ executions[<<c, "ok">>] = 0 /\ executions[<<c, "failed">>] = 0
          /\ Occurrences(step.executed, <<c, TRUE>>) = 0
          /\ Occurrences(step.executed, <<c, FALSE>>) = 0
          /\ Occurrences(step.running, c) = 0 /\ Occurrences(step.todo, c) = 0
      BY <1>4, <3>1
    <3> QED
      BY <3>2 DEF Commitment, Ran, RunsRecorded
  <2>2. \A c \in Known : guard.seen[c] = 0
    BY <1>1, CallsAreKeyed
  <2>3. 0 <= MaxRepeatedCalls
    BY LoopLimits
  <2> QED
    BY <2>1, <2>2, <2>3 DEF RepeatsKnown
<1>8. WritesAreBarriers
  BY <1>1 DEF WritesAreBarriers
<1> QED
  BY <1>3, <1>5, <1>6, <1>7, <1>8

\* The guard after an answer: every call is counted, in all or under its key.
LEMMA GuardAfterIs ==
    ASSUME LoopShape, NEW p \in Seq(Calls)
    PROVE  /\ GuardAfter(p) \in [total : Nat, seen : [GuardKeys -> Nat], failed : [Calls -> Nat]]
           /\ GuardAfter(p).total = guard.total + Len(p)
           /\ GuardAfter(p).failed = guard.failed
           /\ \A k \in GuardKeys : /\ GuardAfter(p).seen[k] = Counted(p, Len(p), k)
                                   /\ GuardAfter(p).seen[k] <= guard.seen[k] + Len(p)
                                   /\ guard.seen[k] <= GuardAfter(p).seen[k]
                                   /\ GuardAfter(p).seen[k] \in Nat
<1> DEFINE f == [key \in GuardKeys |-> Counted(p, Len(p), key)]
<1>1. guard \in [total : Nat, seen : [GuardKeys -> Nat], failed : [Calls -> Nat]]
  BY DEF LoopShape
<1>2. Len(p) \in Nat /\ Len(p) \in 0..Len(p)
  OBVIOUS
<1>3. \A k \in GuardKeys : /\ Counted(p, Len(p), k) \in Nat
                           /\ Counted(p, Len(p), k) <= guard.seen[k] + Len(p)
                           /\ guard.seen[k] <= Counted(p, Len(p), k)
  BY <1>2, CountedBound
<1>4. f \in [GuardKeys -> Nat] /\ \A k \in GuardKeys : f[k] = Counted(p, Len(p), k)
  BY <1>3
<1>5. GuardAfter(p) = [guard EXCEPT !.total = guard.total + Len(p), !.seen = f]
  BY <1>1 DEF GuardAfter
<1> HIDE DEF f
<1>6. /\ GuardAfter(p).total = guard.total + Len(p) /\ GuardAfter(p).seen = f
      /\ GuardAfter(p).failed = guard.failed
      /\ GuardAfter(p) \in [total : Nat, seen : [GuardKeys -> Nat], failed : [Calls -> Nat]]
  <2>1. guard.total + Len(p) \in Nat
    BY <1>1, <1>2
  <2> QED
    BY <1>1, <1>4, <1>5, <2>1
<1> QED
  BY <1>3, <1>4, <1>6

\* The types, action by action.
LEMMA ProposeShape ==
    ASSUME LoopShape, NEW p \in Proposals, Propose(p)
    PROVE  LoopShape'
<1>1. p \in Seq(Calls) /\ Len(p) \in 1..MaxStep
  BY ProposalsAre
<1>2. /\ phase = "generate" /\ turn' = turn + 1 /\ guard' = GuardAfter(p)
      /\ asked' = [c \in Calls |-> asked[c] + Occurrences(p, c)]
  BY ProposeIs, Zenon
<1>3. /\ outcome = "none" /\ turn \in Nat /\ turn < TurnBudget /\ step = Idle
      /\ executions \in Tally /\ events \in Tally
  BY <1>2 DEF LoopShape
<1>4. /\ MaxStep \in Nat /\ Len(p) \in Nat /\ Len(p) <= MaxStep /\ TurnBudget \in Nat
      /\ OperationBudget \in Nat /\ RiskQuota \in Nat
  BY <1>1, LoopLimits
<1>5. turn * MaxStep \in Nat /\ turn' * MaxStep = turn * MaxStep + MaxStep
  BY <1>2, <1>3, <1>4, Times
<1>6. turn' \in 0..TurnBudget
  BY <1>2, <1>3, <1>4
<1>7. /\ guard' \in [total : Nat, seen : [GuardKeys -> Nat], failed : [Calls -> Nat]]
      /\ guard'.total <= turn' * MaxStep
      /\ \A k \in GuardKeys : guard'.seen[k] <= guard'.total
  <2>1. guard.total \in Nat /\ guard.total <= turn * MaxStep
        /\ \A k \in GuardKeys : guard.seen[k] \in Nat /\ guard.seen[k] <= guard.total
    BY DEF LoopShape
  <2>2. /\ guard' \in [total : Nat, seen : [GuardKeys -> Nat], failed : [Calls -> Nat]]
        /\ guard'.total = guard.total + Len(p)
        /\ \A k \in GuardKeys : guard'.seen[k] \in Nat /\ guard'.seen[k] <= guard.seen[k] + Len(p)
    BY <1>1, <1>2, GuardAfterIs
  <2>3. guard'.total <= turn' * MaxStep
    BY <1>4, <1>5, <2>1, <2>2
  <2>4. \A k \in GuardKeys : guard'.seen[k] <= guard'.total
    BY <1>4, <2>1, <2>2
  <2> QED
    BY <2>2, <2>3, <2>4
<1>8. asked' \in [Calls -> Nat] /\ \A c \in Calls : asked'[c] <= turn' * MaxStep
  <2>1. \A c \in Calls : Occurrences(p, c) \in Nat /\ Occurrences(p, c) <= Len(p)
    BY <1>1, OccurrencesBound
  <2>2. \A c \in Calls : asked[c] \in Nat /\ asked[c] <= turn * MaxStep
    BY DEF LoopShape
  <2>3. \A c \in Calls : asked[c] + Occurrences(p, c) \in Nat
    BY <2>1, <2>2
  <2>4. \A c \in Calls : asked'[c] = asked[c] + Occurrences(p, c)
    BY <1>2
  <2>5. asked' \in [Calls -> Nat]
    BY <1>2, <2>3
  <2>6. \A c \in Calls : asked'[c] <= turn' * MaxStep
    BY <1>4, <1>5, <2>1, <2>2, <2>4
  <2> QED
    BY <2>5, <2>6
<1>9. /\ AllowedOf(p) \in Seq(Calls) /\ GuardedOf(p) \in Seq(Calls)
      /\ PlanOf(p) \in Seq(Calls) /\ BudgetedOf(p) \in Seq(Calls)
  BY <1>1, PiecesAddUp
<1>10. events' \in Tally
  <2>1. Plus(events, GuardedOf(p), "guard") \in Tally
    BY <1>3, <1>9, PlusIs
  <2>2. Plus(Plus(events, GuardedOf(p), "guard"), BudgetedOf(p), "budget") \in Tally
    BY <1>9, <2>1, PlusIs
  <2> QED
    BY <2>2, ProposeIs, Zenon
<1>11. CASE OpenOf(p) = {}
  <2>1. /\ phase' = "done" /\ outcome' = "ask" /\ used' = used /\ step' = step
        /\ executions' = Plus(executions, GuardedOf(p), "guard")
    BY <1>11, ProposeIs, Zenon
  <2>2. executions' \in Tally
    BY <1>3, <1>9, <2>1, PlusIs
  <2>3. used' \in [operations : 0..OperationBudget, risk : 0..RiskQuota]
    BY <2>1 DEF LoopShape
  <2> QED
    BY <1>3, <1>6, <1>7, <1>8, <1>10, <2>1, <2>2, <2>3, IdleIs DEF LoopShape
<1>12. CASE OpenOf(p) # {}
  <2> DEFINE a == AllowedOf(p)
  <2>1. /\ phase' = "execute" /\ outcome' = outcome /\ executions' = executions
        /\ used' = [operations |-> Ledger(a)[Len(a)].operations, risk |-> Ledger(a)[Len(a)].risk]
        /\ step' = [guarded |-> GuardedOf(p), budgeted |-> BudgetedOf(p),
                    plan |-> PlanOf(p), todo |-> PlanOf(p), running |-> <<>>,
                    executed |-> <<>>]
    BY <1>12, ProposeIs, Zenon
  <2>2. step' \in Steps
    <3>1. <<>> \in Seq(Calls) /\ <<>> \in Seq(Calls \X BOOLEAN)
      OBVIOUS
    <3> QED
      BY <1>9, <2>1, <3>1 DEF Steps
  <2>3. Len(a) \in 0..Len(a)
    BY <1>9
  <2>4. Ledger(a)[Len(a)] \in [operations : 0..OperationBudget, risk : 0..RiskQuota,
                               allow : BOOLEAN]
    BY <1>9, <2>3, LedgerBound DEF LedgerSound
  <2>5. used' \in [operations : 0..OperationBudget, risk : 0..RiskQuota]
    <3> HIDE DEF a
    <3> QED
      BY <2>1, <2>4
  <2> QED
    BY <1>3, <1>6, <1>7, <1>8, <1>10, <2>1, <2>2, <2>5 DEF LoopShape
<1> QED
  BY <1>11, <1>12

\* Every step keeps the types and the bounds.
LEMMA LoopShapeNext == LoopShape /\ [LoopNext]_loop => LoopShape'
<1> SUFFICES ASSUME LoopShape, [LoopNext]_loop PROVE LoopShape'
  OBVIOUS
<1>1. CASE ModelReplies
  BY <1>1 DEF ModelReplies, EndRun, LoopShape
<1>2. CASE GenerateFails
  BY <1>2 DEF GenerateFails, EndRun, LoopShape
<1>3. ASSUME NEW p \in Proposals, Propose(p) PROVE LoopShape'
  BY <1>3, ProposeShape
<1>4. CASE StartBatch
  <2>1. step' \in Steps /\ phase = "execute"
    BY <1>4, StartBatchIs
  <2>2. UNCHANGED <<phase, outcome, turn, guard, used, executions, events, asked>>
    BY <1>4 DEF StartBatch
  <2> QED
    BY <2>1, <2>2 DEF LoopShape
<1>5. ASSUME NEW ok \in [1..Len(step.running) -> BOOLEAN], EndBatch(ok) PROVE LoopShape'
  <2>1. PICK done \in Seq(Calls \X BOOLEAN) :
          phase = "execute" /\ step' \in Steps /\ events' = PlusExecutions(events, done)
    BY <1>5, EndBatchIs
  <2>2. UNCHANGED <<phase, outcome, turn, guard, used, executions, asked>>
    BY <1>5 DEF EndBatch
  <2>3. events' \in Tally
    <3>1. events \in Tally
      BY DEF LoopShape
    <3> QED
      BY <2>1, <3>1, PlusExecutionsIs
  <2> QED
    BY <2>1, <2>2, <2>3 DEF LoopShape
<1>6. CASE BatchMismatched
  BY <1>6 DEF BatchMismatched, EndRun, LoopShape
<1>7. CASE EndStep
  <2>1. PICK r \in Seq(Calls) :
          /\ phase = "execute" /\ step' = Idle
          /\ guard' = [total |-> guard.total, seen |-> guard.seen,
                        failed |-> [c \in Calls |-> guard.failed[c]
                                       + Occurrences(step.executed, <<c, FALSE>>)]]
          /\ executions' = Plus(Gathered, r, "result") /\ events' = Plus(events, r, "result")
          /\ phase' \in {"done", "generate"} /\ (phase' = "done" => outcome' = "ask")
          /\ phase' = "generate" => outcome' = outcome /\ turn < TurnBudget
          /\ UNCHANGED <<turn, used, asked>>
    BY <1>7, EndStepIs, Zenon
  <2>2. executions' \in Tally
    BY <2>1, GatheredIs
  <2>3. events' \in Tally
    <3>1. events \in Tally
      BY DEF LoopShape
    <3> QED
      BY <2>1, <3>1, PlusIs
  <2>4. /\ guard' \in [total : Nat, seen : [GuardKeys -> Nat], failed : [Calls -> Nat]]
        /\ guard'.total = guard.total /\ guard'.seen = guard.seen
    <3>1. ASSUME NEW c \in Calls
          PROVE  guard.failed[c] + Occurrences(step.executed, <<c, FALSE>>) \in Nat
      <4>1. guard.failed[c] \in Nat /\ Occurrences(step.executed, <<c, FALSE>>) \in Nat
        BY Numbers
      <4> QED
        BY <4>1
    <3>2. guard \in [total : Nat, seen : [GuardKeys -> Nat], failed : [Calls -> Nat]]
      BY DEF LoopShape
    <3> DEFINE f == [c \in Calls |-> guard.failed[c]
                                       + Occurrences(step.executed, <<c, FALSE>>)]
    <3>3. f \in [Calls -> Nat]
      BY <3>1
    <3>4. guard' = [total |-> guard.total, seen |-> guard.seen, failed |-> f]
      BY <2>1
    <3> HIDE DEF f
    <3> QED
      BY <3>2, <3>3, <3>4
  <2>5. outcome = "none"
    BY <2>1 DEF LoopShape
  <2> QED
    BY <2>1, <2>2, <2>3, <2>4, <2>5, IdleIs DEF LoopShape
<1>8. CASE UNCHANGED loop
  BY <1>8 DEF loop, LoopShape
<1> QED
  BY <1>1, <1>2, <1>3, <1>4, <1>5, <1>6, <1>7, <1>8 DEF LoopNext

\* What an answer does to the counts of a call.
LEMMA ProposeCounts ==
    ASSUME LoopShape, NEW p \in Proposals, Propose(p), NEW c \in Calls
    PROVE  /\ Occurrences(p, c) = Occurrences(GuardedOf(p), c) + Occurrences(BudgetedOf(p), c)
                                    + Occurrences(PlanOf(p), c)
           /\ {Occurrences(GuardedOf(p), c), Occurrences(BudgetedOf(p), c),
               Occurrences(PlanOf(p), c)} \subseteq Nat
           /\ asked'[c] = asked[c] + Occurrences(p, c)
           /\ events'[<<c, "ok">>] = events[<<c, "ok">>]
           /\ events'[<<c, "failed">>] = events[<<c, "failed">>]
           /\ events'[<<c, "guard">>] = events[<<c, "guard">>] + Occurrences(GuardedOf(p), c)
           /\ events'[<<c, "budget">>] = events[<<c, "budget">>] + Occurrences(BudgetedOf(p), c)
           /\ events'[<<c, "result">>] = events[<<c, "result">>]
           /\ executions'[<<c, "ok">>] = executions[<<c, "ok">>]
           /\ executions'[<<c, "failed">>] = executions[<<c, "failed">>]
           /\ executions'[<<c, "budget">>] = executions[<<c, "budget">>]
           /\ executions'[<<c, "result">>] = executions[<<c, "result">>]
           /\ executions'[<<c, "guard">>] + Occurrences(step'.guarded, c)
                = executions[<<c, "guard">>] + Occurrences(GuardedOf(p), c)
           /\ Occurrences(step.guarded, c) = 0
           /\ Occurrences(step'.budgeted, c) = Occurrences(BudgetedOf(p), c)
           /\ Occurrences(step'.todo, c) = Occurrences(PlanOf(p), c)
           /\ \A s \in {step, step'} :
                /\ Occurrences(s.executed, <<c, TRUE>>) = 0
                /\ Occurrences(s.executed, <<c, FALSE>>) = 0
                /\ Occurrences(s.running, c) = 0
           /\ Occurrences(step.todo, c) = 0 /\ Occurrences(step.budgeted, c) = 0
<1>1. p \in Seq(Calls)
  BY ProposalsAre
<1>2. /\ AllowedOf(p) \in Seq(Calls) /\ GuardedOf(p) \in Seq(Calls)
      /\ PlanOf(p) \in Seq(Calls) /\ BudgetedOf(p) \in Seq(Calls)
      /\ ChargedOf(p) \in SUBSET DOMAIN AllowedOf(p)
      /\ Occurrences(p, c) = Occurrences(GuardedOf(p), c) + Occurrences(BudgetedOf(p), c)
                              + Occurrences(PlanOf(p), c)
  BY <1>1, PiecesAddUp
<1>3. /\ Occurrences(GuardedOf(p), c) \in Nat /\ Occurrences(BudgetedOf(p), c) \in Nat
      /\ Occurrences(PlanOf(p), c) \in Nat
  BY <1>2, OccurrencesBound
<1>4. /\ phase = "generate" /\ asked' = [d \in Calls |-> asked[d] + Occurrences(p, d)]
      /\ events' = Plus(Plus(events, GuardedOf(p), "guard"), BudgetedOf(p), "budget")
  BY ProposeIs, Zenon
<1>5. step = Idle /\ executions \in Tally /\ events \in Tally
  BY <1>4 DEF LoopShape
<1>6. asked'[c] = asked[c] + Occurrences(p, c)
  BY <1>4
<1>7. /\ events'[<<c, "ok">>] = events[<<c, "ok">>]
      /\ events'[<<c, "failed">>] = events[<<c, "failed">>]
      /\ events'[<<c, "guard">>] = events[<<c, "guard">>] + Occurrences(GuardedOf(p), c)
      /\ events'[<<c, "budget">>] = events[<<c, "budget">>] + Occurrences(BudgetedOf(p), c)
      /\ events'[<<c, "result">>] = events[<<c, "result">>]
  <2> DEFINE t == Plus(events, GuardedOf(p), "guard")
  <2>1. t \in Tally
    BY <1>2, <1>5, PlusIs
  <2>2. /\ t[<<c, "ok">>] = events[<<c, "ok">>]
        /\ t[<<c, "failed">>] = events[<<c, "failed">>]
        /\ t[<<c, "guard">>] = events[<<c, "guard">>] + Occurrences(GuardedOf(p), c)
        /\ t[<<c, "budget">>] = events[<<c, "budget">>]
        /\ t[<<c, "result">>] = events[<<c, "result">>]
    BY <1>2, <1>5, PlusByKind
  <2>3. events' = Plus(t, BudgetedOf(p), "budget")
    BY <1>4
  <2> HIDE DEF t
  <2>4. /\ events'[<<c, "ok">>] = t[<<c, "ok">>]
        /\ events'[<<c, "failed">>] = t[<<c, "failed">>]
        /\ events'[<<c, "guard">>] = t[<<c, "guard">>]
        /\ events'[<<c, "budget">>] = t[<<c, "budget">>] + Occurrences(BudgetedOf(p), c)
        /\ events'[<<c, "result">>] = t[<<c, "result">>]
    BY <1>2, <2>1, <2>3, PlusByKind
  <2> QED
    BY <2>2, <2>4
<1>8. /\ Occurrences(step.guarded, c) = 0 /\ Occurrences(step.budgeted, c) = 0
      /\ Occurrences(step.executed, <<c, TRUE>>) = 0
      /\ Occurrences(step.executed, <<c, FALSE>>) = 0
      /\ Occurrences(step.running, c) = 0 /\ Occurrences(step.todo, c) = 0
  BY <1>5, IdleIs, OccurrencesOfNone
<1>9. \A n \in Nat : n + 0 = n
  OBVIOUS
<1>10. executions[<<c, "guard">>] \in Nat
  BY <1>5, TallyNat
<1>11. /\ executions'[<<c, "ok">>] = executions[<<c, "ok">>]
       /\ executions'[<<c, "failed">>] = executions[<<c, "failed">>]
       /\ executions'[<<c, "budget">>] = executions[<<c, "budget">>]
       /\ executions'[<<c, "result">>] = executions[<<c, "result">>]
       /\ executions'[<<c, "guard">>] + Occurrences(step'.guarded, c)
            = executions[<<c, "guard">>] + Occurrences(GuardedOf(p), c)
       /\ Occurrences(step'.budgeted, c) = Occurrences(BudgetedOf(p), c)
       /\ Occurrences(step'.todo, c) = Occurrences(PlanOf(p), c)
       /\ Occurrences(step'.executed, <<c, TRUE>>) = 0
       /\ Occurrences(step'.executed, <<c, FALSE>>) = 0
       /\ Occurrences(step'.running, c) = 0
  <2>1. CASE OpenOf(p) = {}
    <3>1. step' = step /\ executions' = Plus(executions, GuardedOf(p), "guard")
      BY <2>1, ProposeIs, Zenon
    <3>2. /\ executions'[<<c, "ok">>] = executions[<<c, "ok">>]
          /\ executions'[<<c, "failed">>] = executions[<<c, "failed">>]
          /\ executions'[<<c, "guard">>]
               = executions[<<c, "guard">>] + Occurrences(GuardedOf(p), c)
          /\ executions'[<<c, "budget">>] = executions[<<c, "budget">>]
          /\ executions'[<<c, "result">>] = executions[<<c, "result">>]
      BY <1>2, <1>5, <3>1, PlusByKind
    <3>3. AllowedOf(p) = <<>> /\ BudgetedOf(p) = <<>>
      BY <1>1, <2>1, PiecesAddUp
    <3>4. PlanOf(p) = <<>>
      <4>1. ChargedOf(p) = {}
        BY <1>2, <3>3
      <4>2. Len(PlanOf(p)) = 0
        BY <1>2, <4>1, PickShape, FS_EmptySet DEF PlanOf
      <4> QED
        BY <1>2, <4>2, EmptySeq
    <3>5. Occurrences(PlanOf(p), c) = 0 /\ Occurrences(BudgetedOf(p), c) = 0
      BY <3>3, <3>4, OccurrencesOfNone
    <3>6. executions[<<c, "guard">>] + Occurrences(GuardedOf(p), c) \in Nat
      BY <1>3, <1>10
    <3>7. executions'[<<c, "guard">>] + Occurrences(step'.guarded, c)
            = executions[<<c, "guard">>] + Occurrences(GuardedOf(p), c)
      BY <1>8, <1>9, <3>1, <3>2, <3>6
    <3> QED
      BY <1>8, <3>1, <3>2, <3>5, <3>7
  <2>2. CASE OpenOf(p) # {}
    <3>1. /\ executions' = executions
          /\ step' = [guarded |-> GuardedOf(p), budgeted |-> BudgetedOf(p),
                      plan |-> PlanOf(p), todo |-> PlanOf(p), running |-> <<>>,
                      executed |-> <<>>]
      BY <2>2, ProposeIs, Zenon
    <3>2. /\ step'.guarded = GuardedOf(p) /\ step'.budgeted = BudgetedOf(p)
          /\ step'.todo = PlanOf(p) /\ step'.running = <<>> /\ step'.executed = <<>>
      BY <3>1
    <3> QED
      BY <3>1, <3>2, OccurrencesOfNone
  <2> QED
    BY <2>1, <2>2
<1> QED
  BY <1>2, <1>3, <1>6, <1>7, <1>8, <1>11

\* What the end of a batch does to the counts of a call: some run well, some fail.
LEMMA EndBatchCounts ==
    ASSUME LoopShape, NEW ok \in [1..Len(step.running) -> BOOLEAN], EndBatch(ok),
           NEW c \in Calls
    PROVE  \E t, f \in Nat :
           /\ t + f = Occurrences(step.running, c)
           /\ Occurrences(step'.executed, <<c, TRUE>>)
                = Occurrences(step.executed, <<c, TRUE>>) + t
           /\ Occurrences(step'.executed, <<c, FALSE>>)
                = Occurrences(step.executed, <<c, FALSE>>) + f
           /\ Occurrences(step'.running, c) = 0
           /\ step'.todo = step.todo /\ step'.guarded = step.guarded
           /\ step'.budgeted = step.budgeted
           /\ events'[<<c, "ok">>] = events[<<c, "ok">>] + t
           /\ events'[<<c, "failed">>] = events[<<c, "failed">>] + f
           /\ events'[<<c, "guard">>] = events[<<c, "guard">>]
           /\ events'[<<c, "budget">>] = events[<<c, "budget">>]
           /\ events'[<<c, "result">>] = events[<<c, "result">>]
           /\ UNCHANGED <<phase, outcome, turn, guard, used, executions, asked>>
<1>1. PICK done \in Seq(Calls \X BOOLEAN) :
           /\ step'.guarded = step.guarded /\ step'.budgeted = step.budgeted
           /\ step'.plan = step.plan /\ step'.todo = step.todo
           /\ step'.running = <<>> /\ step'.executed = step.executed \o done
           /\ events' = PlusExecutions(events, done)
           /\ \A d : /\ Occurrences(done, <<d, TRUE>>) + Occurrences(done, <<d, FALSE>>)
                          = Occurrences(step.running, d)
                     /\ \A b \in BOOLEAN : Occurrences(step'.executed, <<d, b>>)
                          = Occurrences(step.executed, <<d, b>>) + Occurrences(done, <<d, b>>)
  BY EndBatchIs, Zenon
<1>2. Occurrences(done, <<c, TRUE>>) \in Nat /\ Occurrences(done, <<c, FALSE>>) \in Nat
  BY OccurrencesBound
<1>3. events \in Tally
  BY DEF LoopShape
<1>4. /\ events'[<<c, "ok">>] = events[<<c, "ok">>] + Occurrences(done, <<c, TRUE>>)
      /\ events'[<<c, "failed">>] = events[<<c, "failed">>] + Occurrences(done, <<c, FALSE>>)
      /\ events'[<<c, "guard">>] = events[<<c, "guard">>]
      /\ events'[<<c, "budget">>] = events[<<c, "budget">>]
      /\ events'[<<c, "result">>] = events[<<c, "result">>]
  BY <1>1, <1>3, PlusExecutionsIs
<1>5. Occurrences(step'.running, c) = 0
  BY <1>1, OccurrencesOfNone
<1>6. /\ Occurrences(step'.executed, <<c, TRUE>>)
           = Occurrences(step.executed, <<c, TRUE>>) + Occurrences(done, <<c, TRUE>>)
      /\ Occurrences(step'.executed, <<c, FALSE>>)
           = Occurrences(step.executed, <<c, FALSE>>) + Occurrences(done, <<c, FALSE>>)
  BY <1>1
<1>7. UNCHANGED <<phase, outcome, turn, guard, used, executions, asked>>
  BY DEF EndBatch
<1> QED
  BY <1>1, <1>2, <1>4, <1>5, <1>6, <1>7, Zenon

\* What the end of a step does to the counts of a call: the step's become the record's.
LEMMA EndStepCounts ==
    ASSUME LoopShape, EndStep, NEW c \in Calls
    PROVE  \E n \in Nat :
           /\ executions'[<<c, "ok">>]
                = executions[<<c, "ok">>] + Occurrences(step.executed, <<c, TRUE>>)
           /\ executions'[<<c, "failed">>]
                = executions[<<c, "failed">>] + Occurrences(step.executed, <<c, FALSE>>)
           /\ executions'[<<c, "guard">>]
                = executions[<<c, "guard">>] + Occurrences(step.guarded, c)
           /\ executions'[<<c, "budget">>]
                = executions[<<c, "budget">>] + Occurrences(step.budgeted, c)
           /\ executions'[<<c, "result">>] = executions[<<c, "result">>] + n
           /\ events'[<<c, "ok">>] = events[<<c, "ok">>]
           /\ events'[<<c, "failed">>] = events[<<c, "failed">>]
           /\ events'[<<c, "guard">>] = events[<<c, "guard">>]
           /\ events'[<<c, "budget">>] = events[<<c, "budget">>]
           /\ events'[<<c, "result">>] = events[<<c, "result">>] + n
           /\ Occurrences(step.running, c) = 0 /\ Occurrences(step.todo, c) = 0
           /\ Occurrences(step'.guarded, c) = 0 /\ Occurrences(step'.budgeted, c) = 0
           /\ Occurrences(step'.executed, <<c, TRUE>>) = 0
           /\ Occurrences(step'.executed, <<c, FALSE>>) = 0
           /\ Occurrences(step'.running, c) = 0 /\ Occurrences(step'.todo, c) = 0
           /\ UNCHANGED <<turn, used, asked>> /\ guard'.seen = guard.seen
<1>1. PICK r \in Seq(Calls) :
           /\ step.running = <<>> /\ step.todo = <<>> /\ step' = Idle
           /\ guard' = [total |-> guard.total, seen |-> guard.seen,
                        failed |-> [d \in Calls |-> guard.failed[d]
                                       + Occurrences(step.executed, <<d, FALSE>>)]]
           /\ executions' = Plus(Gathered, r, "result")
           /\ events' = Plus(events, r, "result")
           /\ UNCHANGED <<turn, used, asked>>
  BY EndStepIs, Zenon
<1>2. Occurrences(r, c) \in Nat
  BY OccurrencesBound
<1>3. /\ executions'[<<c, "ok">>]
           = executions[<<c, "ok">>] + Occurrences(step.executed, <<c, TRUE>>)
      /\ executions'[<<c, "failed">>]
           = executions[<<c, "failed">>] + Occurrences(step.executed, <<c, FALSE>>)
      /\ executions'[<<c, "guard">>]
           = executions[<<c, "guard">>] + Occurrences(step.guarded, c)
      /\ executions'[<<c, "budget">>]
           = executions[<<c, "budget">>] + Occurrences(step.budgeted, c)
      /\ executions'[<<c, "result">>] = executions[<<c, "result">>] + Occurrences(r, c)
  BY <1>1, GatheredIs
<1>4. events \in Tally
  BY DEF LoopShape
<1>5. /\ events'[<<c, "ok">>] = events[<<c, "ok">>]
      /\ events'[<<c, "failed">>] = events[<<c, "failed">>]
      /\ events'[<<c, "guard">>] = events[<<c, "guard">>]
      /\ events'[<<c, "budget">>] = events[<<c, "budget">>]
      /\ events'[<<c, "result">>] = events[<<c, "result">>] + Occurrences(r, c)
  BY <1>1, <1>4, PlusByKind
<1>6. /\ Occurrences(step.running, c) = 0 /\ Occurrences(step.todo, c) = 0
      /\ Occurrences(step'.guarded, c) = 0 /\ Occurrences(step'.budgeted, c) = 0
      /\ Occurrences(step'.executed, <<c, TRUE>>) = 0
      /\ Occurrences(step'.executed, <<c, FALSE>>) = 0
      /\ Occurrences(step'.running, c) = 0 /\ Occurrences(step'.todo, c) = 0
  BY <1>1, IdleIs, OccurrencesOfNone
<1>7. guard'.seen = guard.seen
  <2> DEFINE f == [d \in Calls |-> guard.failed[d] + Occurrences(step.executed, <<d, FALSE>>)]
  <2>1. guard' = [total |-> guard.total, seen |-> guard.seen, failed |-> f]
    BY <1>1, Zenon
  <2> HIDE DEF f
  <2> QED
    BY <2>1
<1> QED
  BY <1>1, <1>2, <1>3, <1>5, <1>6, <1>7, Zenon

\* The part of Accounted that is about one call.
AccountedFor(c) ==
    /\ asked[c] = Answered(c) + Occurrences(step.guarded, c) + Occurrences(step.budgeted, c)
                  + Occurrences(step.executed, <<c, TRUE>>)
                  + Occurrences(step.executed, <<c, FALSE>>)
                  + Occurrences(step.running, c) + Occurrences(step.todo, c)
    /\ events[<<c, "ok">>] = executions[<<c, "ok">>] + Occurrences(step.executed, <<c, TRUE>>)
    /\ events[<<c, "failed">>]
         = executions[<<c, "failed">>] + Occurrences(step.executed, <<c, FALSE>>)
    /\ events[<<c, "guard">>] = executions[<<c, "guard">>] + Occurrences(step.guarded, c)
    /\ events[<<c, "budget">>] = executions[<<c, "budget">>] + Occurrences(step.budgeted, c)
    /\ events[<<c, "result">>] = executions[<<c, "result">>]

\* Every step keeps the account of every call.
LEMMA AccountedNext == LoopShape /\ Accounted /\ [LoopNext]_loop => Accounted'
<1> SUFFICES ASSUME LoopShape, Accounted, [LoopNext]_loop, NEW c \in Calls
             PROVE  AccountedFor(c)'
  BY DEF Accounted, AccountedFor
<1>0. AccountedFor(c)
  BY DEF Accounted, AccountedFor
<1>n. /\ executions[<<c, "ok">>] \in Nat /\ executions[<<c, "failed">>] \in Nat
      /\ executions[<<c, "guard">>] \in Nat /\ executions[<<c, "budget">>] \in Nat
      /\ executions[<<c, "result">>] \in Nat /\ asked[c] \in Nat
      /\ Occurrences(step.guarded, c) \in Nat /\ Occurrences(step.budgeted, c) \in Nat
      /\ Occurrences(step.executed, <<c, TRUE>>) \in Nat
      /\ Occurrences(step.executed, <<c, FALSE>>) \in Nat
      /\ Occurrences(step.running, c) \in Nat /\ Occurrences(step.todo, c) \in Nat
  BY Numbers
<1>a. /\ asked[c] = executions[<<c, "ok">>] + executions[<<c, "failed">>]
                   + executions[<<c, "guard">>] + executions[<<c, "budget">>]
                   + Occurrences(step.guarded, c) + Occurrences(step.budgeted, c)
                   + Occurrences(step.executed, <<c, TRUE>>)
                   + Occurrences(step.executed, <<c, FALSE>>)
                   + Occurrences(step.running, c) + Occurrences(step.todo, c)
      /\ events[<<c, "ok">>] = executions[<<c, "ok">>] + Occurrences(step.executed, <<c, TRUE>>)
      /\ events[<<c, "failed">>]
           = executions[<<c, "failed">>] + Occurrences(step.executed, <<c, FALSE>>)
      /\ events[<<c, "guard">>] = executions[<<c, "guard">>] + Occurrences(step.guarded, c)
      /\ events[<<c, "budget">>] = executions[<<c, "budget">>] + Occurrences(step.budgeted, c)
      /\ events[<<c, "result">>] = executions[<<c, "result">>]
  BY <1>0 DEF AccountedFor, Answered, RunsRecorded
<1>p. LoopShape'
  BY LoopShapeNext
<1>m. /\ executions'[<<c, "ok">>] \in Nat /\ executions'[<<c, "failed">>] \in Nat
      /\ executions'[<<c, "guard">>] \in Nat /\ executions'[<<c, "budget">>] \in Nat
      /\ Occurrences(step'.guarded, c) \in Nat /\ Occurrences(step'.budgeted, c) \in Nat
  <2>1. executions' \in Tally
    BY <1>p DEF LoopShape
  <2>2. step'.guarded \in Seq(Calls) /\ step'.budgeted \in Seq(Calls)
    BY <1>p DEF LoopShape, Steps
  <2> QED
    BY <2>1, <2>2, TallyNat, OccurrencesBound
<1>1. CASE ModelReplies \/ GenerateFails \/ BatchMismatched \/ UNCHANGED loop
  <2>1. UNCHANGED <<step, executions, events, asked>>
    BY <1>1 DEF ModelReplies, GenerateFails, BatchMismatched, loop
  <2> QED
    BY <1>0, <2>1 DEF AccountedFor, Answered, RunsRecorded
<1>3. ASSUME NEW p \in Proposals, Propose(p) PROVE AccountedFor(c)'
  <2>1. Occurrences(GuardedOf(p), c) \in Nat /\ Occurrences(BudgetedOf(p), c) \in Nat
        /\ Occurrences(PlanOf(p), c) \in Nat
    BY <1>3, ProposeCounts
  <2>2. /\ Occurrences(p, c) = Occurrences(GuardedOf(p), c) + Occurrences(BudgetedOf(p), c)
                                    + Occurrences(PlanOf(p), c)
        /\ asked'[c] = asked[c] + Occurrences(p, c)
        /\ events'[<<c, "ok">>] = events[<<c, "ok">>]
        /\ events'[<<c, "failed">>] = events[<<c, "failed">>]
        /\ events'[<<c, "guard">>] = events[<<c, "guard">>] + Occurrences(GuardedOf(p), c)
        /\ events'[<<c, "budget">>] = events[<<c, "budget">>] + Occurrences(BudgetedOf(p), c)
        /\ events'[<<c, "result">>] = events[<<c, "result">>]
        /\ executions'[<<c, "ok">>] = executions[<<c, "ok">>]
        /\ executions'[<<c, "failed">>] = executions[<<c, "failed">>]
        /\ executions'[<<c, "budget">>] = executions[<<c, "budget">>]
        /\ executions'[<<c, "result">>] = executions[<<c, "result">>]
        /\ executions'[<<c, "guard">>] + Occurrences(step'.guarded, c)
             = executions[<<c, "guard">>] + Occurrences(GuardedOf(p), c)
    BY <1>3, ProposeCounts, Zenon
  <2>3. /\ Occurrences(step.guarded, c) = 0 /\ Occurrences(step.budgeted, c) = 0
        /\ Occurrences(step.executed, <<c, TRUE>>) = 0
        /\ Occurrences(step.executed, <<c, FALSE>>) = 0
        /\ Occurrences(step.running, c) = 0 /\ Occurrences(step.todo, c) = 0
        /\ Occurrences(step'.budgeted, c) = Occurrences(BudgetedOf(p), c)
        /\ Occurrences(step'.todo, c) = Occurrences(PlanOf(p), c)
        /\ Occurrences(step'.executed, <<c, TRUE>>) = 0
        /\ Occurrences(step'.executed, <<c, FALSE>>) = 0
        /\ Occurrences(step'.running, c) = 0
    BY <1>3, ProposeCounts
  <2> QED
    BY <1>0, <1>n, <1>m, <2>1, <2>2, <2>3 DEF AccountedFor, Answered, RunsRecorded
<1>4. CASE StartBatch
  <2>1. /\ step'.guarded = step.guarded /\ step'.budgeted = step.budgeted
        /\ step'.executed = step.executed /\ step.running = <<>>
        /\ Occurrences(step'.running, c) + Occurrences(step'.todo, c)
                       = Occurrences(step.todo, c)
    BY <1>4, StartBatchIs
  <2>2. UNCHANGED <<executions, events, asked>>
    BY <1>4 DEF StartBatch
  <2>3. Occurrences(step.running, c) = 0
    BY <2>1, OccurrencesOfNone
  <2>4. step'.running \in Seq(Calls) /\ step'.todo \in Seq(Calls)
    BY <1>p DEF LoopShape, Steps
  <2>5. Occurrences(step'.running, c) \in Nat /\ Occurrences(step'.todo, c) \in Nat
    BY <2>4, OccurrencesBound
  <2>6. /\ Occurrences(step'.guarded, c) = Occurrences(step.guarded, c)
        /\ Occurrences(step'.budgeted, c) = Occurrences(step.budgeted, c)
        /\ Occurrences(step'.executed, <<c, TRUE>>) = Occurrences(step.executed, <<c, TRUE>>)
        /\ Occurrences(step'.executed, <<c, FALSE>>) = Occurrences(step.executed, <<c, FALSE>>)
        /\ Occurrences(step'.running, c) + Occurrences(step'.todo, c)
              = Occurrences(step.running, c) + Occurrences(step.todo, c)
    BY <1>n, <2>1, <2>3, <2>5
  <2>7. asked'[c] = executions'[<<c, "ok">>] + executions'[<<c, "failed">>]
                     + executions'[<<c, "guard">>] + executions'[<<c, "budget">>]
                     + Occurrences(step'.guarded, c) + Occurrences(step'.budgeted, c)
                     + Occurrences(step'.executed, <<c, TRUE>>)
                     + Occurrences(step'.executed, <<c, FALSE>>)
                     + Occurrences(step'.running, c) + Occurrences(step'.todo, c)
    <3> DEFINE known == executions[<<c, "ok">>] + executions[<<c, "failed">>]
                   + executions[<<c, "guard">>] + executions[<<c, "budget">>]
                   + Occurrences(step.guarded, c) + Occurrences(step.budgeted, c)
                   + Occurrences(step.executed, <<c, TRUE>>)
                   + Occurrences(step.executed, <<c, FALSE>>)
    <3>1. known \in Nat
      BY <1>n
    <3>2. asked[c] = known + Occurrences(step.running, c) + Occurrences(step.todo, c)
      BY <1>a
    <3>3. known = executions'[<<c, "ok">>] + executions'[<<c, "failed">>]
                   + executions'[<<c, "guard">>] + executions'[<<c, "budget">>]
                   + Occurrences(step'.guarded, c) + Occurrences(step'.budgeted, c)
                   + Occurrences(step'.executed, <<c, TRUE>>)
                   + Occurrences(step'.executed, <<c, FALSE>>)
      BY <2>2, <2>6
    <3> HIDE DEF known
    <3>4. asked'[c] = asked[c]
      BY <2>2
    <3>5. asked'[c] = known + Occurrences(step'.running, c) + Occurrences(step'.todo, c)
      BY <1>n, <2>5, <2>6, <3>1, <3>2, <3>4
    <3> QED
      BY <3>3, <3>5
  <2>8. /\ events'[<<c, "ok">>] = executions'[<<c, "ok">>] + Occurrences(step'.executed, <<c, TRUE>>)
        /\ events'[<<c, "failed">>]
             = executions'[<<c, "failed">>] + Occurrences(step'.executed, <<c, FALSE>>)
        /\ events'[<<c, "guard">>] = executions'[<<c, "guard">>] + Occurrences(step'.guarded, c)
        /\ events'[<<c, "budget">>]
             = executions'[<<c, "budget">>] + Occurrences(step'.budgeted, c)
        /\ events'[<<c, "result">>] = executions'[<<c, "result">>]
    BY <1>a, <2>2, <2>6
  <2> QED
    BY <2>7, <2>8 DEF AccountedFor, Answered, RunsRecorded
<1>5. ASSUME NEW ok \in [1..Len(step.running) -> BOOLEAN], EndBatch(ok) PROVE AccountedFor(c)'
  <2>1. PICK t, f \in Nat :
           /\ t + f = Occurrences(step.running, c)
           /\ Occurrences(step'.executed, <<c, TRUE>>)
                = Occurrences(step.executed, <<c, TRUE>>) + t
           /\ Occurrences(step'.executed, <<c, FALSE>>)
                = Occurrences(step.executed, <<c, FALSE>>) + f
           /\ Occurrences(step'.running, c) = 0
           /\ step'.todo = step.todo /\ step'.guarded = step.guarded
           /\ step'.budgeted = step.budgeted
           /\ events'[<<c, "ok">>] = events[<<c, "ok">>] + t
           /\ events'[<<c, "failed">>] = events[<<c, "failed">>] + f
           /\ events'[<<c, "guard">>] = events[<<c, "guard">>]
           /\ events'[<<c, "budget">>] = events[<<c, "budget">>]
           /\ events'[<<c, "result">>] = events[<<c, "result">>]
           /\ UNCHANGED <<executions, asked>>
    BY <1>5, EndBatchCounts, Zenon
  <2>2. /\ executions'[<<c, "ok">>] = executions[<<c, "ok">>]
        /\ executions'[<<c, "failed">>] = executions[<<c, "failed">>]
        /\ executions'[<<c, "guard">>] = executions[<<c, "guard">>]
        /\ executions'[<<c, "budget">>] = executions[<<c, "budget">>]
        /\ executions'[<<c, "result">>] = executions[<<c, "result">>]
        /\ asked'[c] = asked[c] /\ Occurrences(step'.todo, c) = Occurrences(step.todo, c)
        /\ Occurrences(step'.guarded, c) = Occurrences(step.guarded, c)
        /\ Occurrences(step'.budgeted, c) = Occurrences(step.budgeted, c)
    BY <2>1
  <2>0. /\ t + f = Occurrences(step.running, c)
        /\ Occurrences(step'.executed, <<c, TRUE>>)
                = Occurrences(step.executed, <<c, TRUE>>) + t
        /\ Occurrences(step'.executed, <<c, FALSE>>)
                = Occurrences(step.executed, <<c, FALSE>>) + f
        /\ Occurrences(step'.running, c) = 0
        /\ events'[<<c, "ok">>] = events[<<c, "ok">>] + t
        /\ events'[<<c, "failed">>] = events[<<c, "failed">>] + f
        /\ events'[<<c, "guard">>] = events[<<c, "guard">>]
        /\ events'[<<c, "budget">>] = events[<<c, "budget">>]
        /\ events'[<<c, "result">>] = events[<<c, "result">>]
    BY <2>1
  <2>3. asked'[c] = executions'[<<c, "ok">>] + executions'[<<c, "failed">>]
                     + executions'[<<c, "guard">>] + executions'[<<c, "budget">>]
                     + Occurrences(step'.guarded, c) + Occurrences(step'.budgeted, c)
                     + Occurrences(step'.executed, <<c, TRUE>>)
                     + Occurrences(step'.executed, <<c, FALSE>>)
                     + Occurrences(step'.running, c) + Occurrences(step'.todo, c)
    <3> DEFINE known == executions[<<c, "ok">>] + executions[<<c, "failed">>]
                   + executions[<<c, "guard">>] + executions[<<c, "budget">>]
                   + Occurrences(step.guarded, c) + Occurrences(step.budgeted, c)
               well == Occurrences(step.executed, <<c, TRUE>>)
               badly == Occurrences(step.executed, <<c, FALSE>>)
               todo == Occurrences(step.todo, c)
    <3>1. known \in Nat /\ well \in Nat /\ badly \in Nat /\ todo \in Nat
      <4>1. /\ executions[<<c, "ok">>] \in Nat /\ executions[<<c, "failed">>] \in Nat
            /\ executions[<<c, "guard">>] \in Nat /\ executions[<<c, "budget">>] \in Nat
            /\ Occurrences(step.guarded, c) \in Nat /\ Occurrences(step.budgeted, c) \in Nat
        BY <1>n
      <4>2. \A u, v, w, x, y, z \in Nat : u + v + w + x + y + z \in Nat
        OBVIOUS
      <4>0. known \in Nat
        BY <4>1, <4>2, Zenon
      <4>3. well \in Nat /\ badly \in Nat /\ todo \in Nat
        BY <1>n
      <4> QED
        BY <4>0, <4>3
    <3>2. asked[c] = known + well + badly + Occurrences(step.running, c) + todo
      BY <1>a
    <3>3. known = executions'[<<c, "ok">>] + executions'[<<c, "failed">>]
                   + executions'[<<c, "guard">>] + executions'[<<c, "budget">>]
                   + Occurrences(step'.guarded, c) + Occurrences(step'.budgeted, c)
      BY <2>2
    <3>4. /\ Occurrences(step'.executed, <<c, TRUE>>) = well + t
          /\ Occurrences(step'.executed, <<c, FALSE>>) = badly + f
          /\ Occurrences(step.running, c) = t + f /\ Occurrences(step'.running, c) = 0
          /\ Occurrences(step'.todo, c) = todo /\ asked'[c] = asked[c]
      BY <2>0, <2>2
    <3> HIDE DEF known, well, badly, todo
    <3>5. known + well + badly + (t + f) + todo = known + (well + t) + (badly + f) + 0 + todo
      BY <3>1
    <3> QED
      BY <3>2, <3>3, <3>4, <3>5
  <2>4. /\ events'[<<c, "ok">>] = executions'[<<c, "ok">>] + Occurrences(step'.executed, <<c, TRUE>>)
        /\ events'[<<c, "failed">>]
             = executions'[<<c, "failed">>] + Occurrences(step'.executed, <<c, FALSE>>)
    <3> DEFINE won == executions[<<c, "ok">>]
               lost == executions[<<c, "failed">>]
               well == Occurrences(step.executed, <<c, TRUE>>)
               badly == Occurrences(step.executed, <<c, FALSE>>)
    <3>1. won \in Nat /\ lost \in Nat /\ well \in Nat /\ badly \in Nat
      BY <1>n
    <3>2. /\ events'[<<c, "ok">>] = won + well + t
          /\ events'[<<c, "failed">>] = lost + badly + f
      BY <1>a, <2>0
    <3>3. /\ executions'[<<c, "ok">>] = won /\ executions'[<<c, "failed">>] = lost
          /\ Occurrences(step'.executed, <<c, TRUE>>) = well + t
          /\ Occurrences(step'.executed, <<c, FALSE>>) = badly + f
      BY <2>0, <2>2
    <3> HIDE DEF won, lost, well, badly
    <3>4. won + well + t = won + (well + t) /\ lost + badly + f = lost + (badly + f)
      BY <3>1
    <3> QED
      BY <3>2, <3>3, <3>4
  <2>5. events'[<<c, "guard">>] = executions'[<<c, "guard">>] + Occurrences(step'.guarded, c)
    BY <1>a, <2>0, <2>2
  <2>6. events'[<<c, "budget">>] = executions'[<<c, "budget">>] + Occurrences(step'.budgeted, c)
    BY <1>a, <2>0, <2>2
  <2>7. events'[<<c, "result">>] = executions'[<<c, "result">>]
    BY <1>a, <2>0, <2>2
  <2> QED
    BY <2>3, <2>4, <2>5, <2>6, <2>7 DEF AccountedFor, Answered, RunsRecorded
<1>7. CASE EndStep
  <2>1. PICK n \in Nat :
           /\ executions'[<<c, "ok">>]
                = executions[<<c, "ok">>] + Occurrences(step.executed, <<c, TRUE>>)
           /\ executions'[<<c, "failed">>]
                = executions[<<c, "failed">>] + Occurrences(step.executed, <<c, FALSE>>)
           /\ executions'[<<c, "guard">>]
                = executions[<<c, "guard">>] + Occurrences(step.guarded, c)
           /\ executions'[<<c, "budget">>]
                = executions[<<c, "budget">>] + Occurrences(step.budgeted, c)
           /\ executions'[<<c, "result">>] = executions[<<c, "result">>] + n
           /\ events'[<<c, "ok">>] = events[<<c, "ok">>]
           /\ events'[<<c, "failed">>] = events[<<c, "failed">>]
           /\ events'[<<c, "guard">>] = events[<<c, "guard">>]
           /\ events'[<<c, "budget">>] = events[<<c, "budget">>]
           /\ events'[<<c, "result">>] = events[<<c, "result">>] + n
           /\ Occurrences(step.running, c) = 0 /\ Occurrences(step.todo, c) = 0
           /\ Occurrences(step'.guarded, c) = 0 /\ Occurrences(step'.budgeted, c) = 0
           /\ Occurrences(step'.executed, <<c, TRUE>>) = 0
           /\ Occurrences(step'.executed, <<c, FALSE>>) = 0
           /\ Occurrences(step'.running, c) = 0 /\ Occurrences(step'.todo, c) = 0
           /\ asked' = asked
    BY <1>7, EndStepCounts, Zenon
  <2>3. asked'[c] = executions'[<<c, "ok">>] + executions'[<<c, "failed">>]
                     + executions'[<<c, "guard">>] + executions'[<<c, "budget">>]
                     + Occurrences(step'.guarded, c) + Occurrences(step'.budgeted, c)
                     + Occurrences(step'.executed, <<c, TRUE>>)
                     + Occurrences(step'.executed, <<c, FALSE>>)
                     + Occurrences(step'.running, c) + Occurrences(step'.todo, c)
    BY <1>a, <1>n, <2>1
  <2>4. /\ events'[<<c, "ok">>] = executions'[<<c, "ok">>] + Occurrences(step'.executed, <<c, TRUE>>)
        /\ events'[<<c, "failed">>]
             = executions'[<<c, "failed">>] + Occurrences(step'.executed, <<c, FALSE>>)
    BY <1>a, <1>n, <2>1
  <2>5. events'[<<c, "guard">>] = executions'[<<c, "guard">>] + Occurrences(step'.guarded, c)
    BY <1>a, <1>n, <2>1
  <2>6. events'[<<c, "budget">>] = executions'[<<c, "budget">>] + Occurrences(step'.budgeted, c)
    BY <1>a, <1>n, <2>1
  <2>7. events'[<<c, "result">>] = executions'[<<c, "result">>]
    BY <1>a, <1>n, <2>1
  <2> QED
    BY <2>3, <2>4, <2>5, <2>6, <2>7 DEF AccountedFor, Answered, RunsRecorded
<1> QED
  BY <1>1, <1>3, <1>4, <1>5, <1>7 DEF LoopNext

\* Every step keeps the failures known.
LEMMA FailuresNext == LoopShape /\ FailuresKnown /\ [LoopNext]_loop => FailuresKnown'
<1> SUFFICES ASSUME LoopShape, FailuresKnown, [LoopNext]_loop, NEW c \in Calls
             PROVE  /\ guard'.failed[c] = executions'[<<c, "failed">>]
                    /\ phase' # "done" => guard'.failed[c] <= MaxFailedRepeats
  BY DEF FailuresKnown
<1>0. /\ guard.failed[c] = executions[<<c, "failed">>]
      /\ phase # "done" => guard.failed[c] <= MaxFailedRepeats
  BY DEF FailuresKnown
<1>1. CASE ModelReplies \/ GenerateFails \/ BatchMismatched
  BY <1>0, <1>1 DEF ModelReplies, GenerateFails, BatchMismatched, EndRun
<1>2. CASE UNCHANGED loop
  BY <1>0, <1>2 DEF loop
<1>3. ASSUME NEW p \in Proposals, Propose(p)
      PROVE  /\ guard'.failed[c] = executions'[<<c, "failed">>]
             /\ phase' # "done" => guard'.failed[c] <= MaxFailedRepeats
  <2>1. guard' = GuardAfter(p) /\ phase = "generate"
    BY <1>3, ProposeIs, Zenon
  <2>2. guard'.failed = guard.failed
    BY <2>1, ProposalsAre, GuardAfterIs
  <2>3. executions'[<<c, "failed">>] = executions[<<c, "failed">>]
    BY <1>3, ProposeCounts
  <2> QED
    BY <1>0, <2>1, <2>2, <2>3
<1>4. CASE StartBatch
  BY <1>0, <1>4 DEF StartBatch
<1>5. ASSUME NEW ok \in [1..Len(step.running) -> BOOLEAN], EndBatch(ok)
      PROVE  UNCHANGED <<phase, guard, executions>>
  BY <1>5 DEF EndBatch
<1>7. CASE EndStep
  <2>1. PICK r \in Seq(Calls) :
           /\ phase = "execute"
           /\ guard' = [total |-> guard.total, seen |-> guard.seen,
                        failed |-> [d \in Calls |-> guard.failed[d]
                                       + Occurrences(step.executed, <<d, FALSE>>)]]
           /\ phase' \in {"done", "generate"}
           /\ phase' = "generate" =>
                 \A d \in Calls : guard.failed[d] <= MaxFailedRepeats
                                       => guard'.failed[d] <= MaxFailedRepeats
    BY <1>7, EndStepIs, Zenon
  <2>2. executions'[<<c, "failed">>]
          = executions[<<c, "failed">>] + Occurrences(step.executed, <<c, FALSE>>)
    BY <1>7, EndStepCounts
  <2>3. guard'.failed[c] = guard.failed[c] + Occurrences(step.executed, <<c, FALSE>>)
    <3> DEFINE f == [d \in Calls |-> guard.failed[d] + Occurrences(step.executed, <<d, FALSE>>)]
    <3>1. guard' = [total |-> guard.total, seen |-> guard.seen, failed |-> f]
      BY <2>1, Zenon
    <3>2. f[c] = guard.failed[c] + Occurrences(step.executed, <<c, FALSE>>)
      OBVIOUS
    <3> HIDE DEF f
    <3> QED
      BY <3>1, <3>2
  <2> QED
    BY <1>0, <2>1, <2>2, <2>3
<1> QED
  BY <1>0, <1>1, <1>2, <1>3, <1>4, <1>5, <1>7 DEF LoopNext

\* A call's commitment is taken on by the answers of the model alone.
LEMMA CommitmentKept ==
    ASSUME LoopShape, [LoopNext]_loop
    PROVE  \/ \E p \in Proposals : Propose(p)
           \/ /\ \A c \in Calls : Commitment(c)' = Commitment(c)
              /\ used' = used /\ guard'.seen = guard.seen
<1> DEFINE Kept == /\ \A c \in Calls : Commitment(c)' = Commitment(c)
                   /\ used' = used /\ guard'.seen = guard.seen
<1>1. CASE ModelReplies \/ GenerateFails \/ BatchMismatched \/ UNCHANGED loop
  <2>1. UNCHANGED <<step, executions, used, guard>>
    BY <1>1 DEF ModelReplies, GenerateFails, BatchMismatched, loop
  <2> QED
    BY <2>1 DEF Commitment, Ran, RunsRecorded
<1>4. CASE StartBatch
  <2>1. UNCHANGED <<executions, used, guard>>
    BY <1>4 DEF StartBatch
  <2>2. ASSUME NEW c \in Calls PROVE Commitment(c)' = Commitment(c)
    <3>1. /\ step'.executed = step.executed /\ step.running = <<>>
          /\ Occurrences(step'.running, c) + Occurrences(step'.todo, c)
                       = Occurrences(step.todo, c)
      BY <1>4, StartBatchIs
    <3>2. Occurrences(step.running, c) = 0
      BY <3>1, OccurrencesOfNone
    <3>3. step'.running \in Seq(Calls) /\ step'.todo \in Seq(Calls)
      <4>1. LoopShape'
        BY LoopShapeNext
      <4> QED
        BY <4>1 DEF LoopShape, Steps
    <3>4. Occurrences(step'.running, c) \in Nat /\ Occurrences(step'.todo, c) \in Nat
      BY <3>3, OccurrencesBound
    <3> DEFINE ran == executions[<<c, "ok">>] + executions[<<c, "failed">>]
                      + Occurrences(step.executed, <<c, TRUE>>)
                      + Occurrences(step.executed, <<c, FALSE>>)
    <3>5. Commitment(c) = ran + Occurrences(step.running, c) + Occurrences(step.todo, c)
      BY DEF Commitment, Ran, RunsRecorded
    <3>6. Commitment(c)' = ran + Occurrences(step'.running, c) + Occurrences(step'.todo, c)
      BY <2>1, <3>1 DEF Commitment, Ran, RunsRecorded
    <3>7. ran \in Nat /\ Occurrences(step.todo, c) \in Nat
      <4>1. /\ executions[<<c, "ok">>] \in Nat /\ executions[<<c, "failed">>] \in Nat
            /\ Occurrences(step.executed, <<c, TRUE>>) \in Nat
            /\ Occurrences(step.executed, <<c, FALSE>>) \in Nat
            /\ Occurrences(step.todo, c) \in Nat
        BY Numbers
      <4> QED
        BY <4>1
    <3> HIDE DEF ran
    <3> QED
      BY <3>1, <3>2, <3>4, <3>5, <3>6, <3>7
  <2> QED
    BY <2>1, <2>2
<1>5. ASSUME NEW ok \in [1..Len(step.running) -> BOOLEAN], EndBatch(ok) PROVE Kept
  <2>1. UNCHANGED <<executions, used, guard>>
    BY <1>5 DEF EndBatch
  <2>2. ASSUME NEW c \in Calls PROVE Commitment(c)' = Commitment(c)
    <3>1. PICK t, f \in Nat :
           /\ t + f = Occurrences(step.running, c)
           /\ Occurrences(step'.executed, <<c, TRUE>>)
                = Occurrences(step.executed, <<c, TRUE>>) + t
           /\ Occurrences(step'.executed, <<c, FALSE>>)
                = Occurrences(step.executed, <<c, FALSE>>) + f
           /\ Occurrences(step'.running, c) = 0 /\ step'.todo = step.todo
      BY <1>5, EndBatchCounts, Zenon
    <3> DEFINE ran == executions[<<c, "ok">>] + executions[<<c, "failed">>]
               well == Occurrences(step.executed, <<c, TRUE>>)
               badly == Occurrences(step.executed, <<c, FALSE>>)
               todo == Occurrences(step.todo, c)
    <3>2. Commitment(c) = ran + well + badly + Occurrences(step.running, c) + todo
      BY DEF Commitment, Ran, RunsRecorded
    <3>3. Commitment(c)' = ran + Occurrences(step'.executed, <<c, TRUE>>)
            + Occurrences(step'.executed, <<c, FALSE>>) + Occurrences(step'.running, c) + todo
      BY <2>1, <3>1 DEF Commitment, Ran, RunsRecorded
    <3>4. /\ Occurrences(step'.executed, <<c, TRUE>>) = well + t
          /\ Occurrences(step'.executed, <<c, FALSE>>) = badly + f
          /\ Occurrences(step.running, c) = t + f /\ Occurrences(step'.running, c) = 0
      BY <3>1
    <3>5. ran \in Nat /\ well \in Nat /\ badly \in Nat /\ todo \in Nat
      <4>1. executions[<<c, "ok">>] \in Nat /\ executions[<<c, "failed">>] \in Nat
        BY Numbers
      <4>2. ran \in Nat
        BY <4>1
      <4>3. well \in Nat /\ badly \in Nat /\ todo \in Nat
        BY Numbers
      <4> QED
        BY <4>2, <4>3
    <3> HIDE DEF ran, well, badly, todo
    <3>6. ran + well + badly + (t + f) + todo = ran + (well + t) + (badly + f) + 0 + todo
      BY <3>5
    <3> QED
      BY <3>2, <3>3, <3>4, <3>6
  <2> QED
    BY <2>1, <2>2
<1>7. CASE EndStep
  <2>1. used' = used
    BY <1>7 DEF EndStep
  <2>2. guard'.seen = guard.seen
    <3> DEFINE f == [c \in Calls |-> FailuresBy(step.executed, Len(step.executed), c)]
    <3>1. guard' = [guard EXCEPT !.failed = f]
      BY <1>7 DEF EndStep
    <3>2. guard \in [total : Nat, seen : [GuardKeys -> Nat], failed : [Calls -> Nat]]
      BY DEF LoopShape
    <3> HIDE DEF f
    <3> QED
      BY <3>1, <3>2
  <2>3. ASSUME NEW c \in Calls PROVE Commitment(c)' = Commitment(c)
    <3>1. /\ executions'[<<c, "ok">>]
                = executions[<<c, "ok">>] + Occurrences(step.executed, <<c, TRUE>>)
          /\ executions'[<<c, "failed">>]
                = executions[<<c, "failed">>] + Occurrences(step.executed, <<c, FALSE>>)
          /\ Occurrences(step.running, c) = 0 /\ Occurrences(step.todo, c) = 0
          /\ Occurrences(step'.executed, <<c, TRUE>>) = 0
          /\ Occurrences(step'.executed, <<c, FALSE>>) = 0
          /\ Occurrences(step'.running, c) = 0 /\ Occurrences(step'.todo, c) = 0
      BY <1>7, EndStepCounts
    <3> DEFINE ok == executions[<<c, "ok">>]
               failed == executions[<<c, "failed">>]
               well == Occurrences(step.executed, <<c, TRUE>>)
               badly == Occurrences(step.executed, <<c, FALSE>>)
    <3>2. Commitment(c) = ok + failed + well + badly + 0 + 0
      BY <3>1 DEF Commitment, Ran, RunsRecorded
    <3>3. Commitment(c)' = (ok + well) + (failed + badly) + 0 + 0 + 0 + 0
      BY <3>1 DEF Commitment, Ran, RunsRecorded
    <3>4. ok \in Nat /\ failed \in Nat /\ well \in Nat /\ badly \in Nat
      BY Numbers
    <3> HIDE DEF ok, failed, well, badly
    <3> QED
      BY <3>2, <3>3, <3>4
  <2> QED
    BY <2>1, <2>2, <2>3
<1> QED
  BY <1>1, <1>4, <1>5, <1>7 DEF LoopNext

\* An answer adds its plan to the commitments.
LEMMA CommitmentGrows ==
    ASSUME LoopShape, NEW p \in Proposals, Propose(p), NEW c \in Calls
    PROVE  /\ Commitment(c)' = Commitment(c) + Occurrences(PlanOf(p), c)
           /\ Occurrences(PlanOf(p), c) \in Nat
<1>1. /\ executions'[<<c, "ok">>] = executions[<<c, "ok">>]
      /\ executions'[<<c, "failed">>] = executions[<<c, "failed">>]
      /\ Occurrences(step.executed, <<c, TRUE>>) = 0
      /\ Occurrences(step.executed, <<c, FALSE>>) = 0
      /\ Occurrences(step.running, c) = 0 /\ Occurrences(step.todo, c) = 0
      /\ Occurrences(step'.executed, <<c, TRUE>>) = 0
      /\ Occurrences(step'.executed, <<c, FALSE>>) = 0
      /\ Occurrences(step'.running, c) = 0
      /\ Occurrences(step'.todo, c) = Occurrences(PlanOf(p), c)
  BY ProposeCounts
<1>2. Occurrences(PlanOf(p), c) \in Nat
  BY ProposeCounts
<1> DEFINE ran == executions[<<c, "ok">>] + executions[<<c, "failed">>]
<1>3. ran \in Nat
  <2>1. executions[<<c, "ok">>] \in Nat /\ executions[<<c, "failed">>] \in Nat
    BY Numbers
  <2> QED
    BY <2>1
<1>4. Commitment(c) = ran + 0 + 0 + 0 + 0
  BY <1>1 DEF Commitment, Ran, RunsRecorded
<1>5. Commitment(c)' = ran + 0 + 0 + 0 + Occurrences(PlanOf(p), c)
  BY <1>1 DEF Commitment, Ran, RunsRecorded
<1> HIDE DEF ran
<1> QED
  BY <1>2, <1>3, <1>4, <1>5

\* The guard counts every call the budget may let pass, and stops at its limit.
LEMMA PlanIsCounted ==
    ASSUME LoopShape, NEW p \in Seq(Calls), NEW c \in Known
    PROVE  /\ guard.seen[c] + Occurrences(PlanOf(p), c) <= Counted(p, Len(p), c)
           /\ guard.seen[c] + Occurrences(PlanOf(p), c) <= MaxRepeatedCalls
                \/ Occurrences(PlanOf(p), c) = 0
<1> DEFINE O == {i \in OpenOf(p) : p[i] = c}
           J(i) == {j \in 1..i : ~PastTotal(p, j) /\ GuardKey(p[j]) = c}
<1>1. c \in Calls /\ c \in GuardKeys /\ GuardKey(c) = c
  BY CallsAreKeyed
<1>2. /\ OpenOf(p) \in SUBSET DOMAIN p /\ AllowedOf(p) \in Seq(Calls)
      /\ ChargedOf(p) \in SUBSET DOMAIN AllowedOf(p)
  BY PiecesAddUp
<1>3. IsFiniteSet(O) /\ Occurrences(AllowedOf(p), c) = Cardinality(O)
  BY <1>2, OccurrencesOfPick DEF AllowedOf
<1>4. /\ Occurrences(PlanOf(p), c) \in Nat
      /\ Occurrences(PlanOf(p), c) <= Occurrences(AllowedOf(p), c)
  <2> DEFINE a == AllowedOf(p)
             rest == Pick(a, (1..Len(a)) \ ChargedOf(p))
  <2>1. Occurrences(a, c) = Occurrences(PlanOf(p), c) + Occurrences(rest, c)
    BY <1>2, OccurrencesSplit DEF PlanOf
  <2>2. PlanOf(p) \in Seq(Calls) /\ rest \in Seq(Calls)
    BY PiecesAddUp DEF BudgetedOf
  <2>3. Occurrences(PlanOf(p), c) \in Nat /\ Occurrences(rest, c) \in Nat
    BY <2>2, OccurrencesBound
  <2> HIDE DEF a, rest
  <2> QED
    BY <2>1, <2>3 DEF a
<1>5. Cardinality(O) \in Nat
  BY <1>3, FS_CardinalityType
<1>6. guard.seen[c] \in Nat /\ Len(p) \in Nat /\ MaxRepeatedCalls \in Nat
  BY <1>1, LoopLimits DEF LoopShape
<1>7. \A i \in O : i \in 1..Len(p) /\ ~Blocks(p, i) /\ p[i] = c
  BY DEF OpenOf
<1>8. \A i \in O : ~PastTotal(p, i) /\ GuardKey(p[i]) = c /\ ~(Counted(p, i, c) > MaxRepeatedCalls)
  <2> SUFFICES ASSUME NEW i \in O
               PROVE  ~PastTotal(p, i) /\ GuardKey(p[i]) = c
                      /\ ~(Counted(p, i, c) > MaxRepeatedCalls)
    OBVIOUS
  <2>1. ~Blocks(p, i) /\ p[i] = c
    BY <1>7
  <2>2. GuardKey(p[i]) = c
    BY <1>1, <2>1
  <2>3. Limit(p[i]) = MaxRepeatedCalls
    BY <2>1 DEF Limit
  <2> QED
    BY <2>1, <2>2, <2>3 DEF Blocks
<1>9. \A i \in 0..Len(p) : IsFiniteSet(J(i)) /\ Counted(p, i, c) = guard.seen[c] + Cardinality(J(i))
                         /\ Cardinality(J(i)) \in Nat
  <2> TAKE i \in 0..Len(p)
  <2>1. IsFiniteSet(J(i))
    BY <1>1, CountedBound
  <2>2. Cardinality(J(i)) \in Nat
    BY <2>1, FS_CardinalityType
  <2> QED
    BY <2>1, <2>2 DEF Counted
<1>10. O \subseteq J(Len(p))
  BY <1>7, <1>8
<1>11. \A i \in O : {j \in O : j <= i} \subseteq J(i)
  <2> SUFFICES ASSUME NEW i \in O, NEW j \in O, j <= i PROVE j \in J(i)
    OBVIOUS
  <2>1. i \in 1..Len(p) /\ j \in 1..Len(p)
    BY <1>7
  <2>2. j \in 1..i
    BY <1>6, <2>1
  <2> QED
    BY <1>8, <2>2
<1> HIDE DEF O, J
<1>12. guard.seen[c] + Occurrences(PlanOf(p), c) <= Counted(p, Len(p), c)
  <2>1. Len(p) \in 0..Len(p)
    BY <1>6
  <2>2. Cardinality(O) <= Cardinality(J(Len(p)))
    BY <1>9, <1>10, <2>1, FS_Subset
  <2>3. Cardinality(J(Len(p))) \in Nat
        /\ Counted(p, Len(p), c) = guard.seen[c] + Cardinality(J(Len(p)))
    BY <1>9, <2>1
  <2> QED
    BY <1>3, <1>4, <1>5, <1>6, <2>2, <2>3
<1>13. guard.seen[c] + Occurrences(PlanOf(p), c) <= MaxRepeatedCalls
         \/ Occurrences(PlanOf(p), c) = 0
  <2>1. CASE O = {}
    <3>1. Cardinality(O) = 0
      BY <2>1, FS_EmptySet
    <3> QED
      BY <1>3, <1>4, <3>1
  <2>2. CASE O # {}
    <3>1. O \in SUBSET Nat
      BY <1>7
    <3>2. PICK i \in O : Cardinality({j \in O : j <= i}) = Cardinality(O)
      BY <1>3, <2>2, <3>1, LastOfAll
    <3>3. i \in 0..Len(p)
      <4>1. i \in 1..Len(p)
        BY <1>7
      <4> QED
        BY <4>1, <1>6
    <3>4. Cardinality(O) <= Cardinality(J(i))
      BY <1>9, <1>11, <3>2, <3>3, FS_Subset
    <3>5. Cardinality(J(i)) \in Nat /\ Counted(p, i, c) = guard.seen[c] + Cardinality(J(i))
      BY <1>9, <3>3
    <3>6. ~(Counted(p, i, c) > MaxRepeatedCalls)
      BY <1>8
    <3> QED
      BY <1>3, <1>4, <1>5, <1>6, <3>4, <3>5, <3>6
  <2> QED
    BY <2>1, <2>2
<1> QED
  BY <1>12, <1>13

\* Every step keeps the repeats counted.
LEMMA RepeatsNext == LoopShape /\ RepeatsKnown /\ [LoopNext]_loop => RepeatsKnown'
<1> SUFFICES ASSUME LoopShape, RepeatsKnown, [LoopNext]_loop, NEW c \in Known
             PROVE  Commitment(c)' <= guard'.seen[c] /\ Commitment(c)' <= MaxRepeatedCalls
  BY DEF RepeatsKnown
<1>0. Commitment(c) <= guard.seen[c] /\ Commitment(c) <= MaxRepeatedCalls
  BY DEF RepeatsKnown
<1>1. c \in Calls /\ c \in GuardKeys
  BY CallsAreKeyed
<1>2. Commitment(c) \in Nat /\ guard.seen[c] \in Nat /\ MaxRepeatedCalls \in Nat
  BY <1>1, Numbers, LoopLimits DEF LoopShape
<1>3. CASE guard'.seen = guard.seen /\ Commitment(c)' = Commitment(c)
  BY <1>0, <1>3
<1>4. ASSUME NEW p \in Proposals, Propose(p)
      PROVE  Commitment(c)' <= guard'.seen[c] /\ Commitment(c)' <= MaxRepeatedCalls
  <2> DEFINE n == Occurrences(PlanOf(p), c)
  <2>1. Commitment(c)' = Commitment(c) + n /\ n \in Nat
    BY <1>1, <1>4, CommitmentGrows
  <2>2. p \in Seq(Calls)
    BY ProposalsAre
  <2>3. /\ guard' = GuardAfter(p)
    BY <1>4, ProposeIs, Zenon
  <2>4. guard'.seen[c] = Counted(p, Len(p), c) /\ guard'.seen[c] \in Nat
        /\ guard.seen[c] <= guard'.seen[c]
    BY <1>1, <2>2, <2>3, GuardAfterIs
  <2>5. guard.seen[c] + n <= Counted(p, Len(p), c) /\ (guard.seen[c] + n <= MaxRepeatedCalls \/ n = 0)
    BY <2>2, PlanIsCounted
  <2> HIDE DEF n
  <2> QED
    BY <1>0, <1>2, <2>1, <2>4, <2>5
<1> QED
  BY <1>1, <1>3, <1>4, CommitmentKept

-----------------------------------------------------------------------------
(* Barriers. *)

\* The calls of a sequence of executions.
Firsts(x) == [i \in DOMAIN x |-> x[i][1]]

\* They are calls, in the same places.
LEMMA FirstsAre ==
    ASSUME NEW x \in Seq(Calls \X BOOLEAN)
    PROVE  /\ Firsts(x) \in Seq(Calls) /\ Len(Firsts(x)) = Len(x)
           /\ \A i \in 1..Len(x) : Firsts(x)[i] = x[i][1]
<1>1. DOMAIN x = 1..Len(x) /\ Len(x) \in Nat /\ \A i \in 1..Len(x) : x[i] \in Calls \X BOOLEAN
  OBVIOUS
<1>2. Firsts(x) \in [1..Len(x) -> Calls] /\ \A i \in 1..Len(x) : Firsts(x)[i] = x[i][1]
  BY <1>1 DEF Firsts
<1>3. Firsts(x) \in Seq(Calls) /\ Len(Firsts(x)) = Len(x)
  BY <1>1, <1>2
<1> QED
  BY <1>2, <1>3

\* A batch that comes back adds its calls.
LEMMA FirstsOfDone ==
    ASSUME NEW x \in Seq(Calls \X BOOLEAN), NEW done \in Seq(Calls \X BOOLEAN),
           NEW s \in Seq(Calls), Len(done) = Len(s), \A i \in 1..Len(done) : done[i][1] = s[i]
    PROVE  Firsts(x \o done) = Firsts(x) \o s
<1> DEFINE y == x \o done
           f == Firsts(x)
<1>1. /\ y \in Seq(Calls \X BOOLEAN) /\ Len(y) = Len(x) + Len(done)
      /\ \A i \in 1..Len(x) + Len(done) : y[i] = IF i <= Len(x) THEN x[i] ELSE done[i - Len(x)]
  BY ConcatProperties
<1>2. Len(x) \in Nat /\ Len(done) \in Nat /\ Len(s) \in Nat
  OBVIOUS
<1>3. f \in Seq(Calls) /\ Len(f) = Len(x) /\ \A i \in 1..Len(x) : f[i] = x[i][1]
  BY FirstsAre
<1>4. /\ f \o s \in Seq(Calls) /\ Len(f \o s) = Len(x) + Len(s)
      /\ \A i \in 1..Len(x) + Len(s) : (f \o s)[i] = IF i <= Len(x) THEN f[i] ELSE s[i - Len(x)]
  <2> HIDE DEF f
  <2>1. /\ f \o s \in Seq(Calls) /\ Len(f \o s) = Len(f) + Len(s)
        /\ \A i \in 1..Len(f) + Len(s) : (f \o s)[i] = IF i <= Len(f) THEN f[i] ELSE s[i - Len(f)]
    BY <1>3, ConcatProperties
  <2> QED
    BY <1>3, <2>1
<1> HIDE DEF y, f
<1>5. /\ Firsts(y) \in Seq(Calls) /\ Len(Firsts(y)) = Len(y)
      /\ \A i \in 1..Len(y) : Firsts(y)[i] = y[i][1]
  BY <1>1, FirstsAre
<1>6. ASSUME NEW i \in 1..Len(y) PROVE Firsts(y)[i] = (f \o s)[i]
  <2>1. i \in 1..Len(x) + Len(done) /\ i \in 1..Len(x) + Len(s)
    BY <1>1
  <2>2. CASE i <= Len(x)
    <3>1. i \in 1..Len(x)
      BY <1>2, <2>1, <2>2
    <3> QED
      BY <1>1, <1>3, <1>4, <1>5, <2>1, <2>2, <3>1
  <2>3. CASE ~(i <= Len(x))
    <3>1. i - Len(x) \in 1..Len(done)
      BY <1>2, <2>1, <2>3
    <3>2. y[i] = done[i - Len(x)] /\ (f \o s)[i] = s[i - Len(x)]
      BY <1>1, <1>4, <2>1, <2>3
    <3> QED
      BY <1>5, <3>1, <3>2
  <2> QED
    BY <2>2, <2>3
<1>7. Len(Firsts(y)) = Len(f \o s)
  BY <1>1, <1>4, <1>5
<1>8. Firsts(y) = f \o s
  BY <1>1, <1>4, <1>5, <1>6, <1>7, SeqEqual
<1> QED
  BY <1>8 DEF y, f

\* What a step ran, runs and is to run are the calls of its plan, in order.
InOrder == Firsts(step.executed) \o step.running \o step.todo = step.plan
\* A batch of several calls has safe reads only.
Alone == Len(step.running) > 1 => \A i \in DOMAIN step.running : Batchable(step.running[i])

\* WritesAreBarriers is inductive, given the types.
LEMMA BarriersNext ==
    LoopShape /\ WritesAreBarriers /\ [LoopNext]_loop => WritesAreBarriers'
<1> SUFFICES ASSUME LoopShape, WritesAreBarriers, [LoopNext]_loop, phase' = "execute"
             PROVE  InOrder' /\ Alone'
  BY DEF WritesAreBarriers, InOrder, Alone, Firsts
<1>0. phase = "execute" => InOrder /\ Alone
  BY DEF WritesAreBarriers, InOrder, Alone, Firsts
<1>p. LoopShape'
  BY LoopShapeNext
<1>1. CASE ModelReplies \/ GenerateFails \/ BatchMismatched
  BY <1>1 DEF ModelReplies, GenerateFails, BatchMismatched, EndRun
<1>2. CASE UNCHANGED loop
  BY <1>0, <1>2 DEF loop, InOrder, Alone, Firsts
<1>3. ASSUME NEW p \in Proposals, Propose(p) PROVE InOrder' /\ Alone'
  <2>1. OpenOf(p) # {}
    BY <1>3, ProposeIs
  <2>2. step' = [guarded |-> GuardedOf(p), budgeted |-> BudgetedOf(p),
                 plan |-> PlanOf(p), todo |-> PlanOf(p), running |-> <<>>, executed |-> <<>>]
    BY <1>3, <2>1, ProposeIs, Zenon
  <2>3. /\ step'.plan = PlanOf(p) /\ step'.todo = PlanOf(p)
        /\ step'.running = <<>> /\ step'.executed = <<>>
    BY <2>2
  <2>4. PlanOf(p) \in Seq(Calls)
    BY ProposalsAre, PiecesAddUp
  <2>5. Firsts(<<>>) = <<>>
    <3>1. <<>> \in Seq(Calls \X BOOLEAN) /\ Len(<<>>) = 0
      OBVIOUS
    <3>2. Firsts(<<>>) \in Seq(Calls) /\ Len(Firsts(<<>>)) = 0
      BY <3>1, FirstsAre
    <3> QED
      BY <3>2, EmptySeq
  <2>6. <<>> \o <<>> \o PlanOf(p) = PlanOf(p)
    <3>1. <<>> \in Seq(Calls)
      OBVIOUS
    <3>2. <<>> \o <<>> = <<>>
      BY <3>1, ConcatEmptySeq
    <3> QED
      BY <2>4, <3>2, ConcatEmptySeq
  <2>7. InOrder'
    BY <2>3, <2>5, <2>6 DEF InOrder
  <2>8. Alone'
    BY <2>3 DEF Alone
  <2> QED
    BY <2>7, <2>8
<1>4. CASE StartBatch
  <2> DEFINE f == Firsts(step.executed)
  <2>1. /\ phase = "execute" /\ step'.plan = step.plan /\ step'.executed = step.executed
        /\ step.running = <<>> /\ step'.running \o step'.todo = step.todo
        /\ Len(step'.running) > 1 =>
              \A i \in DOMAIN step'.running : Batchable(step'.running[i])
    BY <1>4, StartBatchIs
  <2>2. /\ f \in Seq(Calls) /\ step'.running \in Seq(Calls) /\ step'.todo \in Seq(Calls)
    <3>1. step'.running \in Seq(Calls) /\ step'.todo \in Seq(Calls)
      BY <1>p DEF LoopShape, Steps
    <3>2. f \in Seq(Calls)
      BY StepShape, FirstsAre
    <3> QED
      BY <3>1, <3>2
  <2>3. f \o step.running \o step.todo = step.plan
    BY <1>0, <2>1 DEF InOrder
  <2>4. Firsts(step.executed)' = f
    BY <2>1 DEF Firsts
  <2> HIDE DEF f
  <2>5. f \o step.running = f
    BY <2>1, <2>2, ConcatEmptySeq
  <2>6. (f \o step'.running) \o step'.todo = f \o (step'.running \o step'.todo)
    <3>1. \A r, t \in Seq(Calls) : (f \o r) \o t = f \o (r \o t)
      BY <2>2, ConcatAssociative
    <3> QED
      BY <2>2, <3>1, Zenon
  <2>7. InOrder'
    BY <2>1, <2>3, <2>4, <2>5, <2>6 DEF InOrder
  <2>8. Alone'
    BY <2>1 DEF Alone
  <2> QED
    BY <2>7, <2>8
<1>5. ASSUME NEW ok \in [1..Len(step.running) -> BOOLEAN], EndBatch(ok) PROVE InOrder' /\ Alone'
  <2>1. PICK done \in Seq(Calls \X BOOLEAN) :
           /\ phase = "execute" /\ step'.plan = step.plan /\ step'.todo = step.todo
           /\ step'.running = <<>> /\ step'.executed = step.executed \o done
           /\ Len(done) = Len(step.running)
           /\ \A i \in 1..Len(done) : done[i][1] = step.running[i]
    BY <1>5, EndBatchIs, Zenon
  <2>2. /\ step.executed \in Seq(Calls \X BOOLEAN) /\ step.running \in Seq(Calls)
    BY StepShape
  <2>3. Firsts(step.executed \o done) = Firsts(step.executed) \o step.running
    BY <2>1, <2>2, FirstsOfDone
  <2>4. Firsts(step.executed)' = Firsts(step.executed) \o step.running
    BY <2>1, <2>3 DEF Firsts
  <2>5. Firsts(step.executed) \o step.running \in Seq(Calls)
    BY <2>2, FirstsAre, ConcatProperties
  <2>6. (Firsts(step.executed) \o step.running) \o <<>> = Firsts(step.executed) \o step.running
    BY <2>5, ConcatEmptySeq
  <2>7. InOrder'
    BY <1>0, <2>1, <2>4, <2>6 DEF InOrder
  <2>8. Alone'
    BY <2>1 DEF Alone
  <2> QED
    BY <2>7, <2>8
<1>7. CASE EndStep
  <2>1. phase' \in {"done", "generate"}
    BY <1>7, EndStepIs
  <2> QED
    BY <2>1
<1> QED
  BY <1>1, <1>2, <1>3, <1>4, <1>5, <1>7 DEF LoopNext

-----------------------------------------------------------------------------
(* Spending. *)

\* The runs a run is committed to, of the calls in C: those that were handed out and those
\* that will be.
PlannedRuns(C) == UNION {{c} \X (1..Commitment(c)) : c \in C}
\* The calls outside batch units that draw on the risk quota.
Risky == {c \in Calls \ BatchUnit : HighRisk(c)}
\* All that is planned has been charged for.
Charged ==
    /\ IsFiniteSet(PlannedRuns(Calls \ BatchUnit)) /\ IsFiniteSet(PlannedRuns(Risky))
    /\ Cardinality(PlannedRuns(Calls \ BatchUnit)) <= used.operations
    /\ Cardinality(PlannedRuns(Risky)) <= used.risk

\* What an answer adds to the commitments is no more than the calls it was charged for.
LEMMA PlannedGrow ==
    ASSUME LoopShape, NEW p \in Proposals, Propose(p), NEW C \in SUBSET Calls,
           NEW I, I = {i \in ChargedOf(p) : AllowedOf(p)[i] \in C},
           IsFiniteSet(I), IsFiniteSet(PlannedRuns(C))
    PROVE  /\ IsFiniteSet(PlannedRuns(C)')
           /\ Cardinality(PlannedRuns(C)') <= Cardinality(PlannedRuns(C)) + Cardinality(I)
<1> DEFINE a == AllowedOf(p)
           J(c) == {i \in ChargedOf(p) : a[i] = c}
           add(c) == Occurrences(PlanOf(p), c)
           More == UNION {{c} \X ((Commitment(c) + 1)..(Commitment(c) + add(c))) : c \in C}
           f == [i \in I |-> <<a[i], Commitment(a[i]) + Rank(i, J(a[i]))>>]
<1>1. a \in Seq(Calls) /\ ChargedOf(p) \in SUBSET DOMAIN a
  BY ProposalsAre, PiecesAddUp
<1>2. \A c \in Calls : Commitment(c) \in Nat /\ add(c) \in Nat
                       /\ Commitment(c)' = Commitment(c) + add(c)
  BY Numbers, CommitmentGrows
<1>3. \A c \in Calls : IsFiniteSet(J(c)) /\ add(c) = Cardinality(J(c)) /\ J(c) \in SUBSET Nat
  <2> TAKE c \in Calls
  <2>1. IsFiniteSet(J(c)) /\ add(c) = Cardinality(J(c))
    <3>1. PlanOf(p) = Pick(a, ChargedOf(p))
      BY DEF PlanOf
    <3> HIDE DEF a
    <3>2. /\ IsFiniteSet({i \in ChargedOf(p) : a[i] = c})
          /\ Occurrences(Pick(a, ChargedOf(p)), c) = Cardinality({i \in ChargedOf(p) : a[i] = c})
      BY <1>1, OccurrencesOfPick
    <3> QED
      BY <3>1, <3>2
  <2>2. DOMAIN a = 1..Len(a)
    BY <1>1
  <2>3. J(c) \in SUBSET Nat
    <3> HIDE DEF a
    <3> QED
      BY <1>1, <2>2
  <2> QED
    BY <2>1, <2>3
<1>4. /\ I \subseteq ChargedOf(p) /\ \A i \in I : a[i] \in C /\ i \in J(a[i])
      /\ \A c \in C : \A i \in J(c) : i \in I /\ a[i] = c
  OBVIOUS
<1> HIDE DEF J, add, a
<1>5. PlannedRuns(C)' \subseteq PlannedRuns(C) \cup More
  <2> SUFFICES ASSUME NEW x \in PlannedRuns(C)' PROVE x \in PlannedRuns(C) \cup More
    OBVIOUS
  <2>1. PICK c \in C : x \in {c} \X (1..Commitment(c)')
    BY DEF PlannedRuns
  <2>2. PICK n \in 1..Commitment(c)' : x = <<c, n>>
    BY <2>1
  <2>3. /\ Commitment(c) \in Nat /\ add(c) \in Nat /\ Commitment(c)' = Commitment(c) + add(c)
    BY <1>2
  <2>4. n \in 1..Commitment(c) \/ n \in (Commitment(c) + 1)..(Commitment(c) + add(c))
    BY <2>2, <2>3
  <2>5. CASE n \in 1..Commitment(c)
    <3>1. x \in {c} \X (1..Commitment(c))
      BY <2>2, <2>5
    <3> QED
      BY <3>1 DEF PlannedRuns
  <2>6. CASE n \in (Commitment(c) + 1)..(Commitment(c) + add(c))
    <3>1. x \in {c} \X ((Commitment(c) + 1)..(Commitment(c) + add(c)))
      BY <2>2, <2>6
    <3> QED
      BY <3>1
  <2> QED
    BY <2>4, <2>5, <2>6
<1>6. f \in Surjection(I, More)
  <2>1. ASSUME NEW i \in I PROVE f[i] \in More
    <3>1. a[i] \in C /\ i \in J(a[i]) /\ a[i] \in Calls
      BY <1>4
    <3>2. Rank(i, J(a[i])) \in 1..add(a[i])
      BY <1>3, <3>1, RanksInOrder
    <3>3. Commitment(a[i]) \in Nat /\ add(a[i]) \in Nat
      BY <1>2, <3>1
    <3>4. Commitment(a[i]) + Rank(i, J(a[i]))
            \in (Commitment(a[i]) + 1)..(Commitment(a[i]) + add(a[i]))
      BY <3>2, <3>3
    <3>5. f[i] \in {a[i]} \X ((Commitment(a[i]) + 1)..(Commitment(a[i]) + add(a[i])))
      BY <3>4
    <3> QED
      BY <3>1, <3>5
  <2>2. ASSUME NEW x \in More PROVE \E i \in I : f[i] = x
    <3>1. PICK c \in C : x \in {c} \X ((Commitment(c) + 1)..(Commitment(c) + add(c)))
      OBVIOUS
    <3>2. PICK n \in (Commitment(c) + 1)..(Commitment(c) + add(c)) : x = <<c, n>>
      BY <3>1
    <3>3. c \in Calls /\ Commitment(c) \in Nat /\ add(c) \in Nat /\ add(c) = Cardinality(J(c))
      BY <1>2, <1>3
    <3>4. n - Commitment(c) \in 1..Cardinality(J(c)) /\ Commitment(c) + (n - Commitment(c)) = n
      BY <3>3
    <3>5. PICK i \in J(c) : Rank(i, J(c)) = n - Commitment(c)
      BY <1>3, <3>3, <3>4, RanksInOrder
    <3>6. i \in I /\ a[i] = c
      BY <1>4
    <3>7. f[i] = <<c, Commitment(c) + (n - Commitment(c))>>
      BY <3>5, <3>6
    <3> QED
      BY <3>2, <3>4, <3>6, <3>7
  <2>3. f \in [I -> More]
    BY <2>1
  <2> QED
    BY <2>2, <2>3 DEF Surjection
<1>7. IsFiniteSet(More) /\ Cardinality(More) <= Cardinality(I)
  BY <1>6, FS_Surjection
<1> HIDE DEF More
<1>8. /\ IsFiniteSet(PlannedRuns(C) \cup More)
      /\ Cardinality(PlannedRuns(C) \cup More)
           = Cardinality(PlannedRuns(C)) + Cardinality(More)
             - Cardinality(PlannedRuns(C) \cap More)
  BY <1>7, FS_Union
<1>9. /\ IsFiniteSet(PlannedRuns(C)')
      /\ Cardinality(PlannedRuns(C)') <= Cardinality(PlannedRuns(C) \cup More)
  BY <1>5, <1>8, FS_Subset
<1>10. /\ Cardinality(PlannedRuns(C)) \in Nat /\ Cardinality(More) \in Nat
       /\ Cardinality(I) \in Nat /\ Cardinality(PlannedRuns(C)') \in Nat
       /\ Cardinality(PlannedRuns(C) \cup More) \in Nat
  BY <1>7, <1>8, <1>9, FS_CardinalityType
<1>11. Cardinality(PlannedRuns(C) \cap More) \in Nat
  <2>1. IsFiniteSet(PlannedRuns(C) \cap More)
    <3>1. PlannedRuns(C) \cap More \in SUBSET More
      OBVIOUS
    <3> QED
      BY <1>7, <3>1, FS_Subset
  <2> QED
    BY <2>1, FS_CardinalityType
<1> QED
  BY <1>7, <1>8, <1>9, <1>10, <1>11

\* The planned runs are those of the commitments.
LEMMA PlannedKept ==
    ASSUME NEW C \in SUBSET Calls, \A c \in Calls : Commitment(c)' = Commitment(c)
    PROVE  PlannedRuns(C)' = PlannedRuns(C)
<1>1. \A c \in C : {c} \X (1..Commitment(c)') = {c} \X (1..Commitment(c))
  OBVIOUS
<1>2. \A x : x \in PlannedRuns(C)' <=> \E c \in C : x \in {c} \X (1..Commitment(c)')
  BY DEF PlannedRuns
<1>3. \A x : x \in PlannedRuns(C) <=> \E c \in C : x \in {c} \X (1..Commitment(c))
  BY DEF PlannedRuns
<1> QED
  BY <1>1, <1>2, <1>3

\* At the start nothing is planned.
LEMMA NothingPlanned ==
    ASSUME LoopInit PROVE Charged
<1>1. ASSUME NEW c \in Calls PROVE Commitment(c) = 0
  <2>1. executions = [k \in Calls \X Kinds |-> 0] /\ step = Idle
    BY DEF LoopInit
  <2>2. executions[<<c, "ok">>] = 0 /\ executions[<<c, "failed">>] = 0
    BY <2>1, Kinded
  <2>3. /\ Occurrences(step.executed, <<c, TRUE>>) = 0
        /\ Occurrences(step.executed, <<c, FALSE>>) = 0
        /\ Occurrences(step.running, c) = 0 /\ Occurrences(step.todo, c) = 0
    BY <2>1, IdleIs, OccurrencesOfNone
  <2> QED
    BY <2>2, <2>3 DEF Commitment, Ran, RunsRecorded
<1>2. ASSUME NEW C \in SUBSET Calls PROVE PlannedRuns(C) = {}
  <2>1. \A c \in C : {c} \X (1..Commitment(c)) = {}
    <3> TAKE c \in C
    <3>1. 1..Commitment(c) = {}
      BY <1>1
    <3> QED
      BY <3>1
  <2> QED
    BY <2>1 DEF PlannedRuns
<1>3. PlannedRuns(Calls \ BatchUnit) = {} /\ PlannedRuns(Risky) = {}
  <2>1. Calls \ BatchUnit \in SUBSET Calls /\ Risky \in SUBSET Calls
    BY DEF Risky
  <2> QED
    BY <1>2, <2>1
<1>4. used.operations = 0 /\ used.risk = 0
  BY DEF LoopInit
<1>5. IsFiniteSet({}) /\ Cardinality({}) = 0 /\ 0 <= 0
  BY FS_EmptySet
<1> QED
  BY <1>3, <1>4, <1>5 DEF Charged

\* Every step keeps what is planned charged for.
LEMMA ChargedNext == LoopShape /\ Charged /\ [LoopNext]_loop => Charged'
<1> SUFFICES ASSUME LoopShape, Charged, [LoopNext]_loop PROVE Charged'
  OBVIOUS
<1> DEFINE C == Calls \ BatchUnit
<1>0. C \in SUBSET Calls /\ Risky \in SUBSET Calls /\ Risky \subseteq C
  BY DEF Risky
<1>1. CASE (\A c \in Calls : Commitment(c)' = Commitment(c)) /\ used' = used
  <2>1. PlannedRuns(C)' = PlannedRuns(C) /\ PlannedRuns(Risky)' = PlannedRuns(Risky)
    BY <1>0, <1>1, PlannedKept
  <2>2. /\ IsFiniteSet(PlannedRuns(C)') /\ IsFiniteSet(PlannedRuns(Risky)')
        /\ Cardinality(PlannedRuns(C)') <= used'.operations
        /\ Cardinality(PlannedRuns(Risky)') <= used'.risk
    BY <1>1, <2>1 DEF Charged
  <2> QED
    BY <2>2 DEF Charged, Risky, HighRisk
<1>2. ASSUME NEW p \in Proposals, Propose(p) PROVE Charged'
  <2> DEFINE a == AllowedOf(p)
             n == Len(AllowedOf(p))
             I == Paid(a, n)
             R == PaidRisk(a, n)
  <2>1. a \in Seq(Calls) /\ n \in Nat /\ n \in 0..n /\ \A i \in 1..n : a[i] \in Calls
    BY ProposalsAre, PiecesAddUp
  <2>2. LedgerSound(a, n)
    BY <2>1, LedgerBound
  <2>3. /\ IsFiniteSet(I) /\ IsFiniteSet(R)
        /\ used.operations + Cardinality(I) <= Ledger(a)[n].operations
        /\ used.risk + Cardinality(R) <= Ledger(a)[n].risk
    BY <2>2 DEF LedgerSound
  <2>4. I = {i \in ChargedOf(p) : a[i] \in C}
    BY <2>1 DEF Paid, ChargedOf
  <2>5. R = {i \in ChargedOf(p) : a[i] \in Risky}
    BY <2>1 DEF Paid, PaidRisk, ChargedOf, Risky
  <2> HIDE DEF I, R
  <2>6. /\ IsFiniteSet(PlannedRuns(C)) /\ IsFiniteSet(PlannedRuns(Risky))
        /\ Cardinality(PlannedRuns(C)) <= used.operations
        /\ Cardinality(PlannedRuns(Risky)) <= used.risk
    BY DEF Charged
  <2>7. /\ IsFiniteSet(PlannedRuns(C)')
        /\ Cardinality(PlannedRuns(C)') <= Cardinality(PlannedRuns(C)) + Cardinality(I)
    BY <1>0, <1>2, <2>3, <2>4, <2>6, PlannedGrow
  <2>8. /\ IsFiniteSet(PlannedRuns(Risky)')
        /\ Cardinality(PlannedRuns(Risky)') <= Cardinality(PlannedRuns(Risky)) + Cardinality(R)
    BY <1>0, <1>2, <2>3, <2>5, <2>6, PlannedGrow
  <2>9. /\ Cardinality(PlannedRuns(C)) \in Nat /\ Cardinality(PlannedRuns(Risky)) \in Nat
        /\ Cardinality(PlannedRuns(C)') \in Nat /\ Cardinality(PlannedRuns(Risky)') \in Nat
        /\ Cardinality(I) \in Nat /\ Cardinality(R) \in Nat
    BY <2>3, <2>6, <2>7, <2>8, FS_CardinalityType
  <2>10. used.operations \in Nat /\ used.risk \in Nat
    BY LoopLimits DEF LoopShape
  <2>11. used.operations + Cardinality(I) <= used'.operations \/ (Cardinality(I) = 0 /\ used' = used)
    <3>1. CASE OpenOf(p) # {}
      <4>1. used' = [operations |-> Ledger(a)[n].operations, risk |-> Ledger(a)[n].risk]
        BY <1>2, <3>1, ProposeIs, Zenon
      <4> HIDE DEF a, n
      <4>2. used'.operations = Ledger(a)[n].operations
        BY <4>1
      <4> QED
        BY <2>3, <4>2
    <3>2. CASE OpenOf(p) = {}
      <4>1. used' = used
        BY <1>2, <3>2, ProposeIs, Zenon
      <4>2. n = 0
        BY <3>2, ProposalsAre, PiecesAddUp
      <4>3. I = {}
        BY <4>2 DEF I, Paid
      <4> QED
        BY <4>1, <4>3, FS_EmptySet
    <3> QED
      BY <3>1, <3>2
  <2>12. used.risk + Cardinality(R) <= used'.risk \/ (Cardinality(R) = 0 /\ used' = used)
    <3>1. CASE OpenOf(p) # {}
      <4>1. used' = [operations |-> Ledger(a)[n].operations, risk |-> Ledger(a)[n].risk]
        BY <1>2, <3>1, ProposeIs, Zenon
      <4> HIDE DEF a, n
      <4>2. used'.risk = Ledger(a)[n].risk
        BY <4>1
      <4> QED
        BY <2>3, <4>2
    <3>2. CASE OpenOf(p) = {}
      <4>1. used' = used
        BY <1>2, <3>2, ProposeIs, Zenon
      <4>2. n = 0
        BY <3>2, ProposalsAre, PiecesAddUp
      <4>3. R = {}
        BY <4>2 DEF R, PaidRisk, Paid
      <4> QED
        BY <4>1, <4>3, FS_EmptySet
    <3> QED
      BY <3>1, <3>2
  <2>p. LoopShape'
    BY LoopShapeNext
  <2>13. used'.operations \in Nat /\ used'.risk \in Nat
    BY <2>p, LoopLimits DEF LoopShape
  <2>14. Cardinality(PlannedRuns(C)') <= used'.operations
    BY <2>6, <2>7, <2>9, <2>10, <2>11, <2>13
  <2>15. Cardinality(PlannedRuns(Risky)') <= used'.risk
    BY <2>6, <2>8, <2>9, <2>10, <2>12, <2>13
  <2> QED
    BY <2>7, <2>8, <2>14, <2>15 DEF Charged, Risky, HighRisk
<1> QED
  BY <1>1, <1>2, CommitmentKept

-----------------------------------------------------------------------------
(* The tool loop's theorems. *)

\* The inductive invariant of the tool loop.
LoopInv == /\ LoopShape /\ Accounted /\ FailuresKnown /\ RepeatsKnown /\ Charged
           /\ WritesAreBarriers

\* It holds in every run.
LEMMA LoopInvariant == LoopSpec => []LoopInv
<1>1. LoopInit => LoopInv
  BY LoopShapeInit, NothingPlanned DEF LoopInv
<1>2. LoopInv /\ [LoopNext]_loop => LoopInv'
  BY LoopShapeNext, AccountedNext, FailuresNext, RepeatsNext, ChargedNext, BarriersNext
     DEF LoopInv
<1> QED
  BY <1>1, <1>2, PTL DEF LoopSpec

\* The tool loop's state stays well formed, its counters within the limits of the run.
THEOREM LoopTypeCorrect == LoopSpec => []LoopTypeOK
<1>1. ASSUME LoopShape, Accounted, FailuresKnown PROVE LoopTypeOK
  <2>1. /\ turn \in Nat /\ turn <= TurnBudget /\ TurnBudget \in Nat /\ MaxStep \in Nat
    BY <1>1, LoopLimits DEF LoopShape
  <2>2. /\ turn * MaxStep \in Nat /\ TurnBudget * MaxStep \in Nat
        /\ turn * MaxStep <= TurnBudget * MaxStep
    BY <2>1, Times
  <2> DEFINE most == TurnBudget * MaxStep
             upToNow == turn * MaxStep
  <2>3. /\ guard \in [total : Nat, seen : [GuardKeys -> Nat], failed : [Calls -> Nat]]
        /\ guard.total <= upToNow /\ \A k \in GuardKeys : guard.seen[k] <= guard.total
        /\ \A c \in Calls : asked[c] <= upToNow
    BY <1>1 DEF LoopShape
  <2>4. most \in Nat /\ upToNow \in Nat /\ upToNow <= most
    BY <2>2
  <2> HIDE DEF most, upToNow
  <2>5. guard.total \in 0..most
    BY <2>3, <2>4
  <2>6. guard.seen \in [GuardKeys -> 0..most]
    BY <2>3, <2>4
  <2>7. ASSUME NEW c \in Calls PROVE guard.failed[c] \in 0..most
    <3>1. /\ executions[<<c, "ok">>] \in Nat /\ executions[<<c, "failed">>] \in Nat
          /\ executions[<<c, "guard">>] \in Nat /\ executions[<<c, "budget">>] \in Nat
          /\ Occurrences(step.guarded, c) \in Nat /\ Occurrences(step.budgeted, c) \in Nat
          /\ Occurrences(step.executed, <<c, TRUE>>) \in Nat
          /\ Occurrences(step.executed, <<c, FALSE>>) \in Nat
          /\ Occurrences(step.running, c) \in Nat /\ Occurrences(step.todo, c) \in Nat
          /\ asked[c] \in Nat
      BY <1>1, Numbers
    <3>2. guard.failed[c] = executions[<<c, "failed">>]
      BY <1>1 DEF FailuresKnown
    <3>3. asked[c] = executions[<<c, "ok">>] + executions[<<c, "failed">>]
                   + executions[<<c, "guard">>] + executions[<<c, "budget">>]
                   + Occurrences(step.guarded, c) + Occurrences(step.budgeted, c)
                   + Occurrences(step.executed, <<c, TRUE>>)
                   + Occurrences(step.executed, <<c, FALSE>>)
                   + Occurrences(step.running, c) + Occurrences(step.todo, c)
      BY <1>1 DEF Accounted, Answered, RunsRecorded
    <3>4. executions[<<c, "failed">>] <= asked[c]
      BY <3>1, <3>3
    <3>5. asked[c] <= upToNow
      BY <2>3
    <3> QED
      BY <2>4, <3>1, <3>2, <3>4, <3>5
  <2>8. guard.failed \in [Calls -> 0..most]
    BY <2>3, <2>7
  <2>9. /\ {step.guarded, step.budgeted, step.plan, step.todo, step.running} \subseteq Seq(Calls)
        /\ step.executed \in Seq(Calls \X BOOLEAN)
    BY <1>1, StepShape
  <2> QED
    BY <1>1, <2>5, <2>6, <2>8, <2>9 DEF LoopShape, LoopTypeOK, most
<1>2. LoopInv => LoopTypeOK
  BY <1>1 DEF LoopInv
<1> QED
  BY <1>2, LoopInvariant, PTL

\* Every proposed call has one result, recorded and published (assertExecutionCoverage).
THEOREM NoCallIsLost == LoopSpec => []EveryCallIsAnswered
<1>1. ASSUME LoopShape, Accounted PROVE EveryCallIsAnswered
  <2> SUFFICES ASSUME outcome # "error", phase \in {"generate", "done"}
               PROVE  (\A c \in Calls : Answered(c) = asked[c]) /\ events = executions
    BY DEF EveryCallIsAnswered
  <2>1. step = Idle /\ executions \in Tally /\ events \in Tally
    BY <1>1 DEF LoopShape
  <2>2. ASSUME NEW c \in Calls
        PROVE  /\ Answered(c) = asked[c] /\ events[<<c, "ok">>] = executions[<<c, "ok">>]
               /\ events[<<c, "failed">>] = executions[<<c, "failed">>]
               /\ events[<<c, "guard">>] = executions[<<c, "guard">>]
               /\ events[<<c, "budget">>] = executions[<<c, "budget">>]
               /\ events[<<c, "result">>] = executions[<<c, "result">>]
    <3>1. /\ Occurrences(step.guarded, c) = 0 /\ Occurrences(step.budgeted, c) = 0
          /\ Occurrences(step.executed, <<c, TRUE>>) = 0
          /\ Occurrences(step.executed, <<c, FALSE>>) = 0
          /\ Occurrences(step.running, c) = 0 /\ Occurrences(step.todo, c) = 0
      BY <2>1, IdleIs, OccurrencesOfNone
    <3>2. /\ executions[<<c, "ok">>] \in Nat /\ executions[<<c, "failed">>] \in Nat
          /\ executions[<<c, "guard">>] \in Nat /\ executions[<<c, "budget">>] \in Nat
      BY <2>1, TallyNat
    <3>3. Answered(c) \in Nat
      BY <3>2 DEF Answered, RunsRecorded
    <3>4. \A n \in Nat : n + 0 = n
      OBVIOUS
    <3>5. asked[c] = Answered(c) + 0 + 0 + 0 + 0 + 0 + 0
      BY <1>1, <3>1 DEF Accounted
    <3>6. /\ events[<<c, "ok">>] = executions[<<c, "ok">>] + 0
          /\ events[<<c, "failed">>] = executions[<<c, "failed">>] + 0
          /\ events[<<c, "guard">>] = executions[<<c, "guard">>] + 0
          /\ events[<<c, "budget">>] = executions[<<c, "budget">>] + 0
          /\ events[<<c, "result">>] = executions[<<c, "result">>]
      BY <1>1, <3>1 DEF Accounted
    <3> QED
      BY <3>2, <3>3, <3>4, <3>5, <3>6
  <2>3. events = executions
    BY <2>1, <2>2, TallyBy
  <2> QED
    BY <2>2, <2>3
<1>2. LoopInv => EveryCallIsAnswered
  BY <1>1 DEF LoopInv
<1> QED
  BY <1>2, LoopInvariant, PTL

\* What runs stays within the operation budget and the risk quota, over all steps
\* (inspectExecution).
THEOREM BudgetHolds == LoopSpec => []SpendingIsBounded
<1>1. ASSUME LoopShape, Charged PROVE SpendingIsBounded
  <2>1. ASSUME NEW C \in SUBSET Calls, IsFiniteSet(PlannedRuns(C))
        PROVE  /\ IsFiniteSet(RunsOf(C))
               /\ Cardinality(RunsOf(C)) <= Cardinality(PlannedRuns(C))
    <3>1. \A c \in C : {c} \X (1..Ran(c)) \subseteq {c} \X (1..Commitment(c))
      <4> TAKE c \in C
      <4>1. Ran(c) \in Nat /\ Commitment(c) \in Nat /\ Ran(c) <= Commitment(c)
        BY <1>1, Numbers
      <4>2. 1..Ran(c) \subseteq 1..Commitment(c)
        BY <4>1
      <4> QED
        BY <4>2
    <3>2. RunsOf(C) \in SUBSET PlannedRuns(C)
      BY <3>1 DEF RunsOf, PlannedRuns
    <3> QED
      BY <2>1, <3>2, FS_Subset
  <2>2. Calls \ BatchUnit \in SUBSET Calls /\ Risky \in SUBSET Calls
    BY DEF Risky
  <2>3. /\ IsFiniteSet(PlannedRuns(Calls \ BatchUnit)) /\ IsFiniteSet(PlannedRuns(Risky))
        /\ Cardinality(PlannedRuns(Calls \ BatchUnit)) <= used.operations
        /\ Cardinality(PlannedRuns(Risky)) <= used.risk
    BY <1>1 DEF Charged
  <2>4. /\ used.operations \in Nat /\ used.operations <= OperationBudget
        /\ used.risk \in Nat /\ used.risk <= RiskQuota
        /\ OperationBudget \in Nat /\ RiskQuota \in Nat
    BY <1>1, LoopLimits DEF LoopShape
  <2>5. /\ IsFiniteSet(RunsOf(Calls \ BatchUnit)) /\ IsFiniteSet(RunsOf(Risky))
        /\ Cardinality(RunsOf(Calls \ BatchUnit)) <= Cardinality(PlannedRuns(Calls \ BatchUnit))
        /\ Cardinality(RunsOf(Risky)) <= Cardinality(PlannedRuns(Risky))
    BY <2>1, <2>2, <2>3
  <2>6. /\ Cardinality(RunsOf(Calls \ BatchUnit)) \in Nat /\ Cardinality(RunsOf(Risky)) \in Nat
        /\ Cardinality(PlannedRuns(Calls \ BatchUnit)) \in Nat
        /\ Cardinality(PlannedRuns(Risky)) \in Nat
    BY <2>3, <2>5, FS_CardinalityType
  <2>7. /\ Cardinality(RunsOf(Calls \ BatchUnit)) <= OperationBudget
        /\ Cardinality(RunsOf(Risky)) <= RiskQuota
    BY <2>3, <2>4, <2>5, <2>6
  <2> QED
    BY <2>7 DEF SpendingIsBounded, Risky
<1>2. LoopInv => SpendingIsBounded
  BY <1>1 DEF LoopInv
<1> QED
  BY <1>2, LoopInvariant, PTL

\* A catalog call runs no more often than the loop guard permits, and the model is not
\* asked again after too many failures.
THEOREM RepeatsStop == LoopSpec => []NoHopelessRetry
<1>1. ASSUME LoopShape, FailuresKnown, RepeatsKnown PROVE NoHopelessRetry
  <2> SUFFICES ASSUME NEW c \in Calls
               PROVE  /\ c \in Known => Ran(c) <= MaxRepeatedCalls
                      /\ phase = "generate" => executions[<<c, "failed">>] <= MaxFailedRepeats
    BY DEF NoHopelessRetry
  <2>1. Ran(c) \in Nat /\ Commitment(c) \in Nat /\ Ran(c) <= Commitment(c)
    BY <1>1, Numbers
  <2>2. c \in Known => Commitment(c) <= MaxRepeatedCalls
    BY <1>1 DEF RepeatsKnown
  <2>3. phase = "generate" => executions[<<c, "failed">>] <= MaxFailedRepeats
    BY <1>1 DEF FailuresKnown
  <2> QED
    BY <2>1, <2>2, <2>3, LoopLimits
<1>2. LoopInv => NoHopelessRetry
  BY <1>1 DEF LoopInv
<1> QED
  BY <1>2, LoopInvariant, PTL

\* A call that is not a safe read runs alone and in its place (executeScheduled).
THEOREM BarriersHold == LoopSpec => []WritesAreBarriers
<1>1. LoopInv => WritesAreBarriers
  BY DEF LoopInv
<1> QED
  BY <1>1, LoopInvariant, PTL
=================================================================================
