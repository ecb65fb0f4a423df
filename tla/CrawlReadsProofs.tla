--------------------------- MODULE CrawlReadsProofs ---------------------------
(***************************************************************************)
(* What CrawlReads promises, for any jobs, pages, limits and bounds.  The  *)
(* inductive invariant IInv says, for each number of statements that a     *)
(* reader has still to take, how far the tables may have moved from what   *)
(* it has read: EveryCommit bounds what a commit does to them, the         *)
(* CommitWhile lemmas what that does to a reader of each kind, and the     *)
(* Step lemmas what a statement adds to the answer.                        *)
(***************************************************************************)
EXTENDS CrawlReads, InductionLemmas, SequenceTheorems

LEMMA CountTo ==
    ASSUME NEW n \in Nat
    PROVE  IsFiniteSet(1 .. n) /\ Cardinality(1 .. n) = n
BY FS_Interval

(* --- enumerations of a finite set ------------------------------------------ *)
LEMMA Enumerates ==
    ASSUME NEW S, IsFiniteSet(S), NEW s \in SetToSeqs(S)
    PROVE  /\ Cardinality(S) \in Nat
           /\ s \in [1 .. Cardinality(S) -> S]
           /\ s \in Seq(S) /\ Len(s) = Cardinality(S)
           /\ \A i, k \in 1 .. Cardinality(S) : i # k => s[i] # s[k]
           /\ \A x \in S : \E i \in 1 .. Cardinality(S) : s[i] = x
<1> DEFINE n == Cardinality(S)
<1>1. n \in Nat  BY FS_CardinalityType
<1>2. s \in [1 .. n -> S] /\ \A i, k \in 1 .. n : i # k => s[i] # s[k]
  BY DEF SetToSeqs
<1>3. s \in Injection(1 .. n, S)
  <2> HIDE DEF n
  <2> QED  BY <1>2 DEF Injection, IsInjective
<1>4. Cardinality(1 .. n) = n
  <2> HIDE DEF n
  <2> QED  BY <1>1, FS_Interval
<1>5. s \in Surjection(1 .. n, S)
  BY <1>3, <1>4, FS_Injection
<1>6. s \in Seq(S) /\ Len(s) = n
  <2> HIDE DEF n
  <2> QED  BY <1>1, <1>2
<1> QED  BY <1>1, <1>2, <1>5, <1>6 DEF Surjection

(* As many images as elements.                                               *)
LEMMA SameSize ==
    ASSUME NEW A, IsFiniteSet(A), NEW f,
           \A a, b \in A : a # b => f[a] # f[b]
    PROVE  IsFiniteSet({f[a] : a \in A}) /\ Cardinality({f[a] : a \in A}) = Cardinality(A)
<1> DEFINE B == {f[a] : a \in A}
           g == [a \in A |-> f[a]]
<1>1. g \in [A -> B] /\ IsInjective(g)  BY DEF IsInjective
<1>2. g \in Bijection(A, B)  BY <1>1 DEF Bijection, Injection, Surjection
<1>3. ExistsBijection(A, B)  BY <1>2 DEF ExistsBijection
<1> HIDE DEF B
<1>4. IsFiniteSet(B) /\ Cardinality(B) = Cardinality(A)  BY <1>3, FS_Bijection
<1> QED  BY <1>4 DEF B

(* The elements of a page, and their number.                                 *)
LEMMA PageOf ==
    ASSUME NEW S, IsFiniteSet(S), NEW s \in SetToSeqs(S), NEW at \in Nat, NEW limit \in Nat
    PROVE  LET n == Cardinality(S)
               p == ToSet(SubSeq(s, at + 1, Least(at + limit, n))) IN
           /\ \A i \in at + 1 .. Least(at + limit, n) : s[i] \in p
           /\ p \subseteq S
           /\ Cardinality(p) = IF n < at THEN 0 ELSE Least(n - at, limit)
<1> DEFINE n == Cardinality(S)
           m == Least(at + limit, n)
           t == SubSeq(s, at + 1, m)
<1>1. n \in Nat /\ s \in [1 .. n -> S] /\ \A i, k \in 1 .. n : i # k => s[i] # s[k]
  BY Enumerates
<1> HIDE DEF n
<1>2. m \in Nat /\ m <= n  BY <1>1 DEF Least
<1>3. at + 1 .. m \subseteq 1 .. n  BY <1>2, <1>1
<1>4. \A i \in at + 1 .. m : s[i] \in S  BY <1>1, <1>3
<1>5. /\ t \in Seq(S)
      /\ Len(t) = IF at + 1 <= m THEN m - (at + 1) + 1 ELSE 0
      /\ \A i \in 1 .. m - (at + 1) + 1 : t[i] = s[at + 1 + i - 1]
  <2>1. at + 1 \in Int /\ m \in Int  BY <1>2
  <2> HIDE DEF m
  <2> QED  BY <1>4, <2>1, SubSeqProperties
<1>6. DOMAIN t = 1 .. Len(t)  BY <1>5, LenProperties
<1> HIDE DEF t
<1>7. ToSet(t) = {s[i] : i \in at + 1 .. m}
  <2>1. ASSUME NEW i \in DOMAIN t PROVE t[i] \in {s[k] : k \in at + 1 .. m}
    <3>1. i \in 1 .. m - (at + 1) + 1 /\ at + 1 + i - 1 \in at + 1 .. m
      BY <1>2, <1>5, <1>6
    <3> QED  BY <1>5, <3>1
  <2>2. ASSUME NEW k \in at + 1 .. m PROVE s[k] \in {t[i] : i \in DOMAIN t}
    <3>1. /\ k - at \in 1 .. m - (at + 1) + 1 /\ k - at \in DOMAIN t
          /\ at + 1 + (k - at) - 1 = k
      BY <1>2, <1>5, <1>6
    <3> QED  BY <1>5, <3>1
  <2> QED  BY <2>1, <2>2 DEF ToSet
<1>8. Cardinality({s[i] : i \in at + 1 .. m}) = Cardinality(at + 1 .. m)
  <2>1. IsFiniteSet(at + 1 .. m)  BY <1>2, FS_Interval
  <2>2. \A a, b \in at + 1 .. m : a # b => s[a] # s[b]  BY <1>1, <1>3
  <2> HIDE DEF m
  <2> QED  BY <2>1, <2>2, SameSize
<1>9. Cardinality(at + 1 .. m) = IF at + 1 > m THEN 0 ELSE m - (at + 1) + 1
  <2>1. at + 1 \in Int /\ m \in Int  BY <1>2
  <2> HIDE DEF m
  <2> QED  BY <2>1, FS_Interval
<1>10. (IF at + 1 > m THEN 0 ELSE m - (at + 1) + 1) = IF n < at THEN 0 ELSE Least(n - at, limit)
  <2>1. CASE n < at  BY <1>1, <2>1 DEF Least
  <2>2. CASE at <= n /\ at + limit < n  BY <1>1, <2>2 DEF Least
  <2>3. CASE at <= n /\ n <= at + limit  BY <1>1, <2>3 DEF Least
  <2> QED  BY <1>1, <2>1, <2>2, <2>3
<1>11. {s[i] : i \in at + 1 .. m} \subseteq S  BY <1>4
<1>12. (\A i \in at + 1 .. m : s[i] \in ToSet(t)) /\ ToSet(t) \subseteq S
       /\ Cardinality(ToSet(t)) = IF n < at THEN 0 ELSE Least(n - at, limit)
  BY <1>7, <1>8, <1>9, <1>10, <1>11
<1> QED  BY <1>12 DEF t, n

(* A finite set of integers can be enumerated in increasing order: each one  *)
(* at the place after all that are less.                                     *)
Increasing(s) == \A i, k \in DOMAIN s : i < k => s[i] < s[k]

LEMMA IncreasingEnumeration ==
    ASSUME NEW B \in SUBSET Int, IsFiniteSet(B)
    PROVE  \E s \in SetToSeqs(B) : Increasing(s)
<1> DEFINE n == Cardinality(B)
           below(b) == {a \in B : a < b}
           r == [b \in B |-> Cardinality(below(b)) + 1]
<1>1. n \in Nat  BY FS_CardinalityType
<1>2. ASSUME NEW b \in B PROVE IsFiniteSet(below(b)) /\ Cardinality(below(b)) \in Nat
  BY FS_Subset, FS_CardinalityType
<1>3. ASSUME NEW b \in B PROVE r[b] \in 1 .. n
  <2>1. below(b) \subseteq B \ {b} /\ IsFiniteSet(B \ {b}) /\ Cardinality(B \ {b}) = n - 1
    BY FS_RemoveElement
  <2> HIDE DEF below, n
  <2>2. Cardinality(below(b)) <= n - 1  BY <2>1, FS_Subset
  <2> QED  BY <1>1, <1>2, <2>2
<1>4. ASSUME NEW b \in B, NEW c \in B, b < c PROVE r[b] < r[c]
  <2>1. below(b) \cup {b} \subseteq below(c) /\ b \notin below(b)
    <3>1. b \in Int /\ c \in Int /\ \A a \in B : a \in Int  OBVIOUS
    <3>2. \A a \in B : a < b => a < c  BY <1>4, <3>1
    <3>3. \A a \in below(b) : a \in B /\ a < b  OBVIOUS
    <3>4. \A a \in B : a < c => a \in below(c)  OBVIOUS
    <3>5. ~ (b < b)  BY <3>1
    <3> HIDE DEF below
    <3> QED  BY <1>4, <3>2, <3>3, <3>4, <3>5
  <2> HIDE DEF below
  <2>2. Cardinality(below(b) \cup {b}) = Cardinality(below(b)) + 1  BY <1>2, <2>1, FS_AddElement
  <2>3. Cardinality(below(b) \cup {b}) <= Cardinality(below(c))  BY <1>2, <2>1, FS_Subset
  <2> QED  BY <1>2, <2>2, <2>3
<1> HIDE DEF r
<1>5. r \in Injection(B, 1 .. n)
  <2>1. r \in [B -> 1 .. n]  BY <1>3 DEF r
  <2>2. \A b, c \in B : b # c => r[b] # r[c]
    <3> TAKE b, c \in B
    <3>1. b \in Int /\ c \in Int  OBVIOUS
    <3>2. b # c => b < c \/ c < b  BY <3>1
    <3>3. r[b] \in Int /\ r[c] \in Int  BY <1>3
    <3> QED  BY <1>4, <3>2, <3>3
  <2> QED  BY <2>1, <2>2 DEF Injection, IsInjective
<1>6. r \in Surjection(B, 1 .. n)
  <2>1. IsFiniteSet(1 .. n) /\ Cardinality(1 .. n) = n  BY <1>1, FS_Interval
  <2> QED  BY <1>5, <2>1, FS_Injection
<1> DEFINE s == [i \in 1 .. n |-> CHOOSE b \in B : r[b] = i]
<1>7. ASSUME NEW i \in 1 .. n PROVE s[i] \in B /\ r[s[i]] = i
  BY <1>6 DEF Surjection
<1>8. s \in [1 .. n -> B]  BY <1>7
<1>9. DOMAIN s = 1 .. n  OBVIOUS
<1> HIDE DEF s
<1>10. s \in SetToSeqs(B)
  <2>1. \A i, k \in 1 .. n : i # k => s[i] # s[k]
    <3> HIDE DEF n
    <3> QED  BY <1>7
  <2> QED  BY <1>8, <2>1 DEF SetToSeqs
<1>11. ASSUME NEW i \in 1 .. n, NEW k \in 1 .. n, i < k PROVE s[i] < s[k]
  <2>1. s[i] \in Int /\ s[k] \in Int /\ s[i] \in B /\ s[k] \in B  BY <1>7
  <2>2. s[k] < s[i] => k < i  BY <1>4, <1>7, <2>1
  <2>3. s[k] # s[i]
    <3>1. k # i  BY <1>11
    <3> HIDE DEF n
    <3> QED  BY <1>7, <3>1
  <2> QED  BY <1>11, <2>1, <2>2, <2>3
<1> QED  BY <1>9, <1>10, <1>11 DEF Increasing

(* --- the histories ---------------------------------------------------------- *)
LEMMA Multiples ==
    ASSUME NEW a \in Int, NEW b \in Int, a <= b, NEW m \in Nat
    PROVE  a * m <= b * m
<1> DEFINE d == b - a
<1>1. d \in Nat /\ b = a + d  OBVIOUS
<1>2. d * m >= 0  BY <1>1, Z3
<1>3. b * m = a * m + d * m  BY <1>1, Z3
<1> HIDE DEF d
<1>4. d * m \in Int /\ a * m \in Int  BY <1>1
<1> QED  BY <1>2, <1>3, <1>4

(* The rows of a bucket and of those before it are those before its end.     *)
LEMMA BucketEnds ==
    ASSUME NEW t \in Nat, NEW u \in Nat
    PROVE  /\ Bucket(t) \in Nat
           /\ Bucket(t) <= Bucket(u) <=> t < Bucket(u) + Second
<1> DEFINE p == t \div Second
           q == u \div Second
<1>1. Second \in Nat \ {0}  BY QueriesAssumption
<1>2. p \in Nat /\ q \in Nat /\ p * Second \in Nat /\ q * Second \in Nat  BY <1>1
<1>3. p * Second <= t /\ t < p * Second + Second  BY <1>1, Z3
<1> HIDE DEF p, q
<1>4. CASE p <= q
  <2>1. p * Second <= q * Second  BY <1>1, <1>2, <1>4, Multiples
  <2> QED  BY <1>1, <1>2, <1>3, <2>1 DEF Bucket, p, q
<1>5. CASE q + 1 <= p
  <2>1. (q + 1) * Second <= p * Second  BY <1>1, <1>2, <1>5, Multiples
  <2>2. (q + 1) * Second = q * Second + Second  BY <1>1, <1>2, Z3
  <2> QED  BY <1>1, <1>2, <1>3, <2>1, <2>2 DEF Bucket, p, q
<1> QED  BY <1>2, <1>4, <1>5

LEMMA BucketsIncrease ==
    ASSUME NEW ts \in Seq(Nat)
    PROVE  LET B == {Bucket(ts[i]) : i \in DOMAIN ts} IN
           /\ IsFiniteSet(B) /\ B \subseteq Nat
           /\ Buckets(ts) \in SetToSeqs(B) /\ Increasing(Buckets(ts))
<1> DEFINE n == Len(ts)
           B == {Bucket(ts[i]) : i \in DOMAIN ts}
           f == [i \in 1 .. n |-> Bucket(ts[i])]
<1>1. n \in Nat /\ DOMAIN ts = 1 .. n /\ \A i \in 1 .. n : ts[i] \in Nat  OBVIOUS
<1>2. B \subseteq Nat  BY <1>1, BucketEnds
<1>3. f \in Surjection(1 .. n, B)  BY <1>1 DEF Surjection
<1>4. IsFiniteSet(1 .. n)  BY <1>1, FS_Interval
<1>5. IsFiniteSet(B)  BY <1>3, <1>4, FS_Surjection
<1>6. \E s \in SetToSeqs(B) : Increasing(s)
  <2>1. B \in SUBSET Int  BY <1>2
  <2> HIDE DEF B
  <2> QED  BY <1>5, <2>1, IncreasingEnumeration
<1>7. Buckets(ts) = CHOOSE s \in SetToSeqs(B) : Increasing(s)
  BY DEF Buckets, Increasing
<1> QED  BY <1>2, <1>5, <1>6, <1>7

(* The sequence that DiscoveryHistory adds up.                               *)
CountsUpTo(ts) == CHOOSE u : u = [i \in 0 .. Len(Buckets(ts)) |->
                    IF i = 0 THEN 0 ELSE u[i - 1] + InBucket(ts, Buckets(ts)[i])]

LEMMA BucketsFacts ==
    ASSUME NEW ts \in Seq(Nat)
    PROVE  LET bs == Buckets(ts)
               n == Len(bs) IN
           /\ n \in Nat /\ DOMAIN bs = 1 .. n /\ DOMAIN ts = 1 .. Len(ts) /\ Len(ts) \in Nat
           /\ \A k \in DOMAIN ts : ts[k] \in Nat /\ Bucket(ts[k]) \in Nat
           /\ \A i \in 1 .. n : bs[i] \in Nat /\ \E k \in DOMAIN ts : Bucket(ts[k]) = bs[i]
           /\ \A k \in DOMAIN ts : \E i \in 1 .. n : bs[i] = Bucket(ts[k])
           /\ \A i, k \in 1 .. n : i < k => bs[i] < bs[k]
           /\ \A b : InBucket(ts, b) \in Nat
<1> DEFINE B == {Bucket(ts[i]) : i \in DOMAIN ts}
           bs == Buckets(ts)
<1>1. IsFiniteSet(B) /\ B \subseteq Nat /\ bs \in SetToSeqs(B) /\ Increasing(bs)
  BY BucketsIncrease
<1>2. Len(ts) \in Nat /\ DOMAIN ts = 1 .. Len(ts) /\ \A k \in DOMAIN ts : ts[k] \in Nat
  OBVIOUS
<1>3. \A k \in DOMAIN ts : Bucket(ts[k]) \in B  OBVIOUS
<1>4. \A b \in B : \E k \in DOMAIN ts : Bucket(ts[k]) = b  OBVIOUS
<1>5. \A b : InBucket(ts, b) \in Nat
  <2> TAKE b
  <2> DEFINE K == {i \in DOMAIN ts : Bucket(ts[i]) = b}
  <2>1. IsFiniteSet(DOMAIN ts) /\ K \subseteq DOMAIN ts  BY <1>2, FS_Interval
  <2> HIDE DEF K
  <2>2. Cardinality(K) \in Nat  BY <2>1, FS_Subset, FS_CardinalityType
  <2> QED  BY <2>2 DEF K, InBucket
<1> HIDE DEF B, bs
<1>6. /\ Cardinality(B) \in Nat /\ bs \in [1 .. Cardinality(B) -> B]
      /\ bs \in Seq(B) /\ Len(bs) = Cardinality(B)
      /\ \A x \in B : \E i \in 1 .. Cardinality(B) : bs[i] = x
  BY <1>1, Enumerates
<1>7. Len(bs) \in Nat /\ DOMAIN bs = 1 .. Len(bs)  BY <1>6
<1>8. \A i, k \in 1 .. Len(bs) : i < k => bs[i] < bs[k]  BY <1>1, <1>7 DEF Increasing
<1>9. \A i \in 1 .. Len(bs) : bs[i] \in B  BY <1>6
<1>10. \A x \in B : \E i \in 1 .. Len(bs) : bs[i] = x  BY <1>6
<1> QED  BY <1>1, <1>2, <1>3, <1>4, <1>5, <1>7, <1>8, <1>9, <1>10 DEF bs

LEMMA CountsUpToAdds ==
    ASSUME NEW ts \in Seq(Nat)
    PROVE  \A i \in 0 .. Len(Buckets(ts)) : CountsUpTo(ts)[i] =
             IF i = 0 THEN 0 ELSE CountsUpTo(ts)[i - 1] + InBucket(ts, Buckets(ts)[i])
<1> DEFINE n == Len(Buckets(ts))
           bs == Buckets(ts)
           step == [p \in Nat \X (0 + 1 .. n) |-> p[1] + InBucket(ts, bs[p[2]])]
<1>1. n \in Nat /\ \A b : InBucket(ts, b) \in Nat  BY BucketsFacts
<1>2. step \in [Nat \X (0 + 1 .. n) -> Nat]
  <2> HIDE DEF bs, n
  <2> QED  BY <1>1
<1>3. \E g \in [0 .. n -> Nat] : Unfolds(g, 0, 0, n, step)
  <2> DEFINE a == 0
  <2>1. a \in Nat /\ a \in Int /\ n \in Int /\ a <= n  BY <1>1
  <2>2. step \in [Nat \X (a + 1 .. n) -> Nat]
    <3> HIDE DEF step, n
    <3> QED  BY <1>2
  <2>3. \E g \in [a .. n -> Nat] : Unfolds(g, a, a, n, step)
    <3> HIDE DEF step, n, a
    <3> QED  BY <2>1, <2>2, Recursion
  <2> QED  BY <2>3
<1>4. PICK g \in [0 .. n -> Nat] : Unfolds(g, 0, 0, n, step)  BY <1>3
<1>5. ASSUME NEW i \in 0 .. n
      PROVE  g[i] = IF i = 0 THEN 0 ELSE g[i - 1] + InBucket(ts, bs[i])
  <2>1. g[i] = IF i = 0 THEN 0 ELSE step[g[i - 1], i]
    <3> HIDE DEF step, n
    <3> QED  BY <1>4 DEF Unfolds
  <2>2. CASE i = 0  BY <2>1, <2>2
  <2>3. CASE i # 0
    <3> HIDE DEF n, bs
    <3>0. i \in 0 + 1 .. n /\ i - 1 \in 0 .. n  BY <1>1, <2>3
    <3>1. <<g[i - 1], i>> \in Nat \X (0 + 1 .. n)  BY <1>4, <3>0
    <3>2. step[g[i - 1], i] = g[i - 1] + InBucket(ts, bs[i])  BY <3>1
    <3> QED  BY <2>1, <2>3, <3>2
  <2> QED  BY <2>2, <2>3
<1> HIDE DEF step
<1>6. g = [i \in 0 .. n |-> IF i = 0 THEN 0 ELSE g[i - 1] + InBucket(ts, bs[i])]
  BY <1>4, <1>5
<1>7. CountsUpTo(ts) = [i \in 0 .. n |->
         IF i = 0 THEN 0 ELSE CountsUpTo(ts)[i - 1] + InBucket(ts, bs[i])]
  BY <1>6 DEF CountsUpTo
<1> QED  BY <1>7

(* The rows that the points up to the i-th show.                             *)
ShownBy(ts, i) == {k \in DOMAIN ts : \E m \in 1 .. i : Bucket(ts[k]) = Buckets(ts)[m]}

LEMMA CountsUpToCount ==
    ASSUME NEW ts \in Seq(Nat)
    PROVE  \A i \in 0 .. Len(Buckets(ts)) : CountsUpTo(ts)[i] = Cardinality(ShownBy(ts, i))
<1> DEFINE n == Len(Buckets(ts))
           bs == Buckets(ts)
           in(i) == {k \in DOMAIN ts : Bucket(ts[k]) = bs[i]}
           T == {i \in 0 .. n : CountsUpTo(ts)[i] = Cardinality(ShownBy(ts, i))}
<1>1. /\ n \in Nat /\ Len(ts) \in Nat /\ DOMAIN ts = 1 .. Len(ts)
      /\ \A i, k \in 1 .. n : i < k => bs[i] < bs[k]
      /\ \A i \in 1 .. n : bs[i] \in Nat
  BY BucketsFacts
<1>2. IsFiniteSet(DOMAIN ts)  BY <1>1, FS_Interval
<1>3. \A K : K \subseteq DOMAIN ts => IsFiniteSet(K) /\ Cardinality(K) \in Nat
  BY <1>2, FS_Subset, FS_CardinalityType
<1> HIDE DEF n, bs
<1>4. 0 \in T
  <2>1. ShownBy(ts, 0) = {}  BY DEF ShownBy
  <2>2. CountsUpTo(ts)[0] = 0  BY <1>1, CountsUpToAdds DEF n
  <2>3. 0 \in 0 .. n  BY <1>1
  <2> QED  BY <2>1, <2>2, <2>3, FS_EmptySet
<1>5. ASSUME NEW i \in 0 .. n - 1, i \in T PROVE i + 1 \in T
  <2>1. i \in 0 .. n /\ i + 1 \in 0 .. n /\ i + 1 # 0 /\ (i + 1) - 1 = i /\ i + 1 \in 1 .. n
    BY <1>1
  <2>2. CountsUpTo(ts)[i + 1] = CountsUpTo(ts)[i] + InBucket(ts, bs[i + 1])
    BY <2>1, CountsUpToAdds DEF n, bs
  <2>3. ShownBy(ts, i + 1) = ShownBy(ts, i) \cup in(i + 1)
    <3>1. 1 .. i + 1 = (1 .. i) \cup {i + 1}  BY <2>1
    <3> QED  BY <3>1 DEF ShownBy, bs
  <2>4. ShownBy(ts, i) \cap in(i + 1) = {}
    <3>1. \A m \in 1 .. i : bs[m] # bs[i + 1]
      <4> TAKE m \in 1 .. i
      <4>1. m \in 1 .. n /\ m < i + 1
        <5>1. m \in Int /\ 1 <= m /\ m <= i /\ i \in Int /\ i + 1 <= n  BY <2>1, <1>1
        <5> QED  BY <1>1, <5>1
      <4>2. bs[m] < bs[i + 1] /\ bs[m] \in Nat /\ bs[i + 1] \in Nat  BY <1>1, <2>1, <4>1
      <4> QED  BY <4>2
    <3> QED  BY <3>1 DEF ShownBy, bs
  <2>5. ShownBy(ts, i) \subseteq DOMAIN ts /\ in(i + 1) \subseteq DOMAIN ts  BY DEF ShownBy
  <2>6. InBucket(ts, bs[i + 1]) = Cardinality(in(i + 1))  BY DEF InBucket
  <2>7. CountsUpTo(ts)[i] = Cardinality(ShownBy(ts, i))  BY <1>5
  <2> HIDE DEF in
  <2>8. Cardinality(ShownBy(ts, i) \cup in(i + 1)) = Cardinality(ShownBy(ts, i)) + Cardinality(in(i + 1))
    <3>1. IsFiniteSet(ShownBy(ts, i)) /\ IsFiniteSet(in(i + 1))
          /\ Cardinality(ShownBy(ts, i)) \in Nat /\ Cardinality(in(i + 1)) \in Nat
      BY <1>3, <2>5
    <3>2. Cardinality(ShownBy(ts, i) \cup in(i + 1))
            = Cardinality(ShownBy(ts, i)) + Cardinality(in(i + 1)) - Cardinality(ShownBy(ts, i) \cap in(i + 1))
      BY <3>1, FS_Union
    <3>3. Cardinality(ShownBy(ts, i) \cap in(i + 1)) = 0  BY <2>4, FS_EmptySet
    <3> QED  BY <3>1, <3>2, <3>3
  <2>9. CountsUpTo(ts)[i + 1] = Cardinality(ShownBy(ts, i + 1))
    BY <2>2, <2>3, <2>6, <2>7, <2>8
  <2> QED  BY <2>1, <2>9
<1>6. \A i \in 0 .. n : i \in T
  <2> DEFINE a == 0
  <2>1. a \in Int /\ n \in Int /\ a \in T /\ \A i \in a .. n - 1 : i \in T => i + 1 \in T
    BY <1>1, <1>4, <1>5
  <2>2. \A i \in a .. n : i \in T
    <3> HIDE DEF T, a
    <3> QED  BY <2>1, UpTo
  <2> QED  BY <2>2
<1> QED  BY <1>6 DEF n

LEMMA DiscoveryHistoryIs ==
    ASSUME NEW ts
    PROVE  DiscoveryHistory(ts) =
             [i \in DOMAIN Buckets(ts) |-> [t |-> Buckets(ts)[i], count |-> CountsUpTo(ts)[i]]]
BY DEF DiscoveryHistory, CountsUpTo

(* The discovery history, as in HistoriesMatchRows.                          *)
LEMMA DiscoveryHistoryMatches ==
    ASSUME NEW ts \in Seq(Nat)
    PROVE  LET h == DiscoveryHistory(ts)
               By(t) == {k \in DOMAIN ts : ts[k] < t} IN
           /\ Final(h) = Len(ts)
           /\ \A i \in DOMAIN h : h[i].count = Cardinality(By(h[i].t + Second))
           /\ \A i \in 2 .. Len(h) : h[i - 1].t < h[i].t
<1> DEFINE n == Len(Buckets(ts))
           bs == Buckets(ts)
           h == DiscoveryHistory(ts)
           By(t) == {k \in DOMAIN ts : ts[k] < t}
<1>1. /\ n \in Nat /\ DOMAIN bs = 1 .. n /\ DOMAIN ts = 1 .. Len(ts) /\ Len(ts) \in Nat
      /\ \A k \in DOMAIN ts : ts[k] \in Nat /\ Bucket(ts[k]) \in Nat
      /\ \A i \in 1 .. n : bs[i] \in Nat /\ \E k \in DOMAIN ts : Bucket(ts[k]) = bs[i]
      /\ \A k \in DOMAIN ts : \E i \in 1 .. n : bs[i] = Bucket(ts[k])
      /\ \A i, k \in 1 .. n : i < k => bs[i] < bs[k]
  BY BucketsFacts
<1>2. \A i \in 1 .. n : CountsUpTo(ts)[i] = Cardinality(ShownBy(ts, i))
  <2>1. \A i \in 1 .. n : i \in 0 .. n  BY <1>1
  <2> QED  BY <2>1, CountsUpToCount
<1>3. h = [i \in 1 .. n |-> [t |-> bs[i], count |-> CountsUpTo(ts)[i]]]
  BY <1>1, DiscoveryHistoryIs
<1> HIDE DEF n, bs, h
<1>4. DOMAIN h = 1 .. n /\ \A i \in 1 .. n : h[i].t = bs[i] /\ h[i].count = Cardinality(ShownBy(ts, i))
  BY <1>2, <1>3
<1>5. Len(h) = n
  <2> DEFINE V == {h[i] : i \in 1 .. n}
  <2>1. h \in [1 .. n -> V]  BY <1>3, <1>4
  <2> HIDE DEF V
  <2> QED  BY <1>1, <2>1
<1>6. ASSUME NEW i \in 1 .. n PROVE ShownBy(ts, i) = By(bs[i] + Second)
  <2>1. ASSUME NEW k \in DOMAIN ts, NEW m \in 1 .. i, Bucket(ts[k]) = bs[m]
        PROVE  ts[k] < bs[i] + Second
    <3>1. m \in 1 .. n /\ (m = i \/ m < i)
      <4>1. m \in Int /\ 1 <= m /\ m <= i /\ i \in Int /\ i <= n  BY <1>1
      <4> QED  BY <1>1, <4>1
    <3>2. bs[m] <= bs[i]
      <4>1. bs[m] \in Nat /\ bs[i] \in Nat /\ (m < i => bs[m] < bs[i])  BY <1>1, <3>1
      <4> QED  BY <3>1, <4>1
    <3>3. PICK j \in DOMAIN ts : Bucket(ts[j]) = bs[i]  BY <1>1
    <3>4. ts[k] \in Nat /\ ts[j] \in Nat  BY <1>1
    <3> QED  BY <2>1, <3>2, <3>3, <3>4, BucketEnds
  <2>2. ASSUME NEW k \in DOMAIN ts, ts[k] < bs[i] + Second
        PROVE  \E m \in 1 .. i : Bucket(ts[k]) = bs[m]
    <3>1. PICK j \in DOMAIN ts : Bucket(ts[j]) = bs[i]  BY <1>1
    <3>2. ts[k] \in Nat /\ ts[j] \in Nat  BY <1>1
    <3>3. Bucket(ts[k]) <= bs[i]  BY <2>2, <3>1, <3>2, BucketEnds
    <3>4. PICK m \in 1 .. n : bs[m] = Bucket(ts[k])  BY <1>1
    <3>5. bs[i] \in Nat /\ bs[m] \in Nat  BY <1>1
    <3>6. i < m => bs[i] < bs[m]  BY <1>1
    <3>7. m \in 1 .. i  BY <1>1, <3>3, <3>4, <3>5, <3>6
    <3> QED  BY <3>4, <3>7
  <2> QED  BY <2>1, <2>2 DEF ShownBy, bs
<1>7. ASSUME NEW i \in DOMAIN h PROVE h[i].count = Cardinality(By(h[i].t + Second))
  BY <1>4, <1>6
<1>8. ASSUME NEW i \in 2 .. Len(h) PROVE h[i - 1].t < h[i].t
  <2>1. i \in 1 .. n /\ i - 1 \in 1 .. n /\ i - 1 < i  BY <1>1, <1>5
  <2> QED  BY <1>1, <1>4, <2>1
<1>9. Final(h) = Len(ts)
  <2>1. CASE n = 0
    <3>1. DOMAIN ts = {}  BY <1>1, <2>1
    <3>2. Len(ts) = 0  BY <1>1, <3>1
    <3>3. h = <<>>  BY <1>3, <2>1
    <3> QED  BY <3>2, <3>3 DEF Final
  <2>2. CASE n # 0
    <3>1. n \in 1 .. n /\ h # <<>>
      <4>1. n \in 1 .. n  BY <1>1, <2>2
      <4>2. DOMAIN h # {}  BY <1>4, <4>1
      <4>3. DOMAIN <<>> = {}  OBVIOUS
      <4> QED  BY <4>1, <4>2, <4>3
    <3>2. Final(h) = Cardinality(ShownBy(ts, n))  BY <1>4, <1>5, <3>1 DEF Final
    <3>3. ShownBy(ts, n) = DOMAIN ts
      <4>1. \A k \in DOMAIN ts : \E i \in 1 .. n : Bucket(ts[k]) = bs[i]  BY <1>1
      <4> QED  BY <4>1 DEF ShownBy, bs
    <3>4. Cardinality(1 .. Len(ts)) = Len(ts)  BY <1>1, CountTo
    <3> QED  BY <1>1, <3>2, <3>3, <3>4
  <2> QED  BY <2>1, <2>2
<1> QED  BY <1>7, <1>8, <1>9 DEF h

LEMMA ThroughputHistoryMatches ==
    ASSUME NEW ts \in Seq(Nat)
    PROVE  Sum(ThroughputHistory(ts)) = Len(ts)
<1> DEFINE n == Len(Buckets(ts))
           bs == Buckets(ts)
           h == ThroughputHistory(ts)
           f == [i \in DOMAIN h |-> h[i].count]
           class == [k \in DOMAIN ts |-> CHOOSE i \in 1 .. n : bs[i] = Bucket(ts[k])]
<1>1. /\ n \in Nat /\ DOMAIN bs = 1 .. n /\ DOMAIN ts = 1 .. Len(ts) /\ Len(ts) \in Nat
      /\ \A i \in 1 .. n : bs[i] \in Nat
      /\ \A k \in DOMAIN ts : \E i \in 1 .. n : bs[i] = Bucket(ts[k])
      /\ \A i, k \in 1 .. n : i < k => bs[i] < bs[k]
  BY BucketsFacts
<1>2. h = [i \in 1 .. n |-> [t |-> bs[i], count |-> InBucket(ts, bs[i])]]
  BY <1>1 DEF ThroughputHistory
<1>3. DOMAIN h = 1 .. n /\ \A i \in 1 .. n : h[i].count = InBucket(ts, bs[i])
  <2> HIDE DEF n, bs, h
  <2> QED  BY <1>2
<1>4. DOMAIN f = 1 .. n /\ \A i \in 1 .. n : f[i] = InBucket(ts, bs[i])
  <2> HIDE DEF n, bs, h
  <2> QED  BY <1>3
<1> HIDE DEF n, bs, h
<1>5. \A k \in DOMAIN ts : class[k] \in 1 .. n /\ bs[class[k]] = Bucket(ts[k])  BY <1>1
<1> HIDE DEF class
<1>6. ASSUME NEW i \in 1 .. n PROVE f[i] = Cardinality(OfClass(DOMAIN ts, class, i))
  <2>1. ASSUME NEW k \in DOMAIN ts PROVE class[k] = i <=> Bucket(ts[k]) = bs[i]
    <3>1. class[k] \in 1 .. n /\ bs[class[k]] = Bucket(ts[k])  BY <1>5
    <3>2. class[k] = i \/ class[k] < i \/ i < class[k]  BY <3>1
    <3>3. class[k] # i => bs[class[k]] # bs[i]
      <4>1. bs[class[k]] \in Nat /\ bs[i] \in Nat  BY <1>1, <3>1
      <4>2. (class[k] < i => bs[class[k]] < bs[i]) /\ (i < class[k] => bs[i] < bs[class[k]])
        BY <1>1, <3>1
      <4> QED  BY <3>2, <4>1, <4>2
    <3> QED  BY <3>1, <3>3
  <2>2. OfClass(DOMAIN ts, class, i) = {k \in DOMAIN ts : Bucket(ts[k]) = bs[i]}
    BY <2>1 DEF OfClass
  <2> QED  BY <1>4, <2>2 DEF InBucket
<1>7. Total(f, 1 .. n) = Cardinality(OfClasses(DOMAIN ts, class, 1 .. n))
  <2>1. IsFiniteSet(DOMAIN ts) /\ IsFiniteSet(1 .. n)  BY <1>1, FS_Interval
  <2> HIDE DEF f
  <2> QED  BY <1>6, <2>1, ClassesAddUp
<1>8. OfClasses(DOMAIN ts, class, 1 .. n) = 1 .. Len(ts)  BY <1>1, <1>5 DEF OfClasses
<1>9. Cardinality(1 .. Len(ts)) = Len(ts)  BY <1>1, CountTo
<1>10. Sum(h) = Total(f, 1 .. n)  BY <1>4 DEF Sum, SumFunction, Total
<1> QED  BY <1>7, <1>8, <1>9, <1>10 DEF h

(* --- what the statements of a reader find ----------------------------------- *)
LEMMA JobSets ==
    /\ \A S : S \subseteq Jobs => IsFiniteSet(S) /\ Cardinality(S) \in 0 .. Cardinality(Jobs)
    /\ Cardinality(Jobs) \in Nat
    /\ Present \subseteq Jobs
    /\ \A f : Matching(f) \subseteq Present
<1>1. IsFiniteSet(Jobs)  BY QueriesAssumption
<1>2. Cardinality(Jobs) \in Nat  BY <1>1, FS_CardinalityType
<1>3. ASSUME NEW S, S \subseteq Jobs
      PROVE  IsFiniteSet(S) /\ Cardinality(S) \in 0 .. Cardinality(Jobs)
  <2>1. IsFiniteSet(S) /\ Cardinality(S) <= Cardinality(Jobs)  BY <1>1, <1>3, FS_Subset
  <2> QED  BY <1>2, <2>1, FS_CardinalityType
<1> QED  BY <1>2, <1>3 DEF Present, Matching

(* Every job that is there has one of the statuses that are counted.         *)
LEMMA CountsAddUp == JobCounts = Cardinality(Present)
<1> DEFINE f == [s \in Statuses |-> Cardinality(Matching({s}))]
           status == [j \in Jobs |-> job[j].status]
<1>1. IsFiniteSet(Statuses)
  <2> DEFINE A == {"queued"}
             B == A \cup {"running"}
             C == B \cup {"completed"}
             D == C \cup {"failed"}
  <2>1. IsFiniteSet(A)  BY FS_Singleton
  <2> HIDE DEF A
  <2>2. IsFiniteSet(B)  BY <2>1, FS_AddElement
  <2> HIDE DEF B
  <2>3. IsFiniteSet(C)  BY <2>2, FS_AddElement
  <2> HIDE DEF C
  <2>4. IsFiniteSet(D)  BY <2>3, FS_AddElement
  <2> HIDE DEF D
  <2>5. IsFiniteSet(D \cup {"cancelled"})  BY <2>4, FS_AddElement
  <2>6. Statuses = D \cup {"cancelled"}  BY DEF Statuses, A, B, C, D
  <2> QED  BY <2>5, <2>6
<1>2. ASSUME NEW s \in Statuses PROVE f[s] = Cardinality(OfClass(Jobs, status, s))
  <2>1. Matching({s}) = OfClass(Jobs, status, s)  BY DEF Matching, Present, OfClass
  <2> QED  BY <2>1
<1>3. IsFiniteSet(Jobs)  BY QueriesAssumption
<1>4. DOMAIN f = Statuses  OBVIOUS
<1>5. OfClasses(Jobs, status, Statuses) = Present  BY DEF OfClasses, Present
<1>6. JobCounts = Total(f, Statuses)  BY <1>4 DEF JobCounts, SumFunction, Total
<1> HIDE DEF f, status
<1>7. Total(f, Statuses) = Cardinality(OfClasses(Jobs, status, Statuses))
  BY <1>1, <1>2, <1>3, ClassesAddUp
<1> QED  BY <1>5, <1>6, <1>7

(* The pages of the jobs in S.                                               *)
LEMMA ScrapedIsTotal ==
    ASSUME NEW S
    PROVE  UrlsScraped(S) = Total([j \in S |-> job[j].scraped], S)
<1>1. DOMAIN [j \in S |-> job[j].scraped] = S  OBVIOUS
<1> QED  BY <1>1 DEF UrlsScraped, SumFunction, Total

LEMMA ScrapedNat ==
    ASSUME TablesOK, NEW S \in SUBSET Jobs
    PROVE  UrlsScraped(S) \in Nat
<1> DEFINE f == [j \in S |-> job[j].scraped]
<1>1. IsFiniteSet(S)  BY JobSets
<1>2. \A j \in S : f[j] \in Nat  BY DEF TablesOK, JobRow
<1> HIDE DEF f
<1>3. Total(f, S) \in Nat  BY <1>1, <1>2, TotalNat
<1> QED  BY <1>3, ScrapedIsTotal DEF f

LEMMA ScrapedGrows ==
    ASSUME TablesOK, TablesOK', Present \subseteq Present',
           \A j \in Present : job[j].scraped <= job'[j].scraped
    PROVE  /\ UrlsScraped(Present) <= UrlsScraped(Present)'
           /\ UrlsScraped(Present) \in Nat /\ UrlsScraped(Present)' \in Nat
<1> DEFINE f == [j \in Present |-> job[j].scraped]
           g == [j \in Present' |-> job'[j].scraped]
<1>1. Present' \subseteq Jobs  BY DEF Present
<1>2. IsFiniteSet(Present')  BY <1>1, JobSets
<1>3. \A j \in Present' : g[j] \in Nat  BY <1>1 DEF TablesOK, JobRow
<1>4. \A j \in Present : f[j] \in Int /\ f[j] <= g[j]
  BY <1>1 DEF TablesOK, JobRow
<1>5. UrlsScraped(Present) = Total(f, Present)  BY ScrapedIsTotal
<1>6. UrlsScraped(Present)' = Total(g, Present')
  <2>1. DOMAIN g = Present'  OBVIOUS
  <2> QED  BY <2>1 DEF UrlsScraped, SumFunction, Total
<1> HIDE DEF f, g
<1>7. Total(f, Present) <= Total(g, Present')  BY <1>2, <1>3, <1>4, TotalGrows
<1>8. Total(g, Present') \in Nat  BY <1>2, <1>3, TotalNat
<1>9. UrlsScraped(Present) \in Nat  BY ScrapedNat, JobSets
<1> QED  BY <1>5, <1>6, <1>7, <1>8, <1>9

(* Rows in the order of their creation, newest first.                        *)
LEMMA NewestBefore ==
    ASSUME TablesOK, NEW S \in SUBSET Jobs, NEW s \in NewestFirst(S)
    PROVE  /\ s \in SetToSeqs(S)
           /\ \A i, k \in 1 .. Cardinality(S) : i <= k => job[s[i]].created >= job[s[k]].created
<1> DEFINE n == Cardinality(S)
           age(i) == job[s[i]].created
<1>1. IsFiniteSet(S) /\ s \in SetToSeqs(S)  BY JobSets DEF NewestFirst
<1>2. n \in Nat /\ s \in [1 .. n -> S] /\ Len(s) = n  BY <1>1, Enumerates
<1>3. \A i \in 1 .. n : age(i) \in Nat  BY <1>2 DEF TablesOK, JobRow
<1>4. \A i \in 1 .. n - 1 : age(i) >= age(i + 1)  BY <1>2 DEF NewestFirst
<1> HIDE DEF n, age
<1>5. ASSUME NEW i \in 1 .. n, NEW k \in i .. n PROVE age(i) >= age(k)
  <2> DEFINE T == {m \in i .. n : age(i) >= age(m)}
  <2>1. i \in T
    <3>1. i \in i .. n  OBVIOUS
    <3>2. age(i) \in Nat  BY <1>3
    <3> QED  BY <3>1, <3>2
  <2>2. ASSUME NEW m \in i .. n - 1, m \in T PROVE m + 1 \in T
    <3>1. m \in 1 .. n - 1 /\ m \in 1 .. n /\ m + 1 \in 1 .. n /\ m + 1 \in i .. n  BY <1>2
    <3>2. age(m) >= age(m + 1)  BY <1>4, <3>1
    <3>3. age(i) \in Nat /\ age(m) \in Nat /\ age(m + 1) \in Nat  BY <1>3, <3>1
    <3>4. age(i) >= age(m)  BY <2>2
    <3>5. age(i) >= age(m + 1)  BY <3>2, <3>3, <3>4
    <3> QED  BY <3>1, <3>5
  <2>3. i \in Int /\ n \in Int  BY <1>2
  <2>4. \A m \in i .. n : m \in T
    <3> HIDE DEF T
    <3> QED  BY <2>1, <2>2, <2>3, UpTo
  <2> QED  BY <2>4
<1>6. ASSUME NEW i \in 1 .. n, NEW k \in 1 .. n, i <= k PROVE age(i) >= age(k)
  <2>1. k \in i .. n  BY <1>6
  <2> QED  BY <1>5, <2>1
<1> QED  BY <1>1, <1>6 DEF n, age

Newer(S, j) == {k \in S : job[k].created > job[j].created}

(* The place of a job that no other is as old as.                            *)
LEMMA PlaceOf ==
    ASSUME TablesOK, NEW S \in SUBSET Jobs, NEW s \in NewestFirst(S),
           NEW i \in 1 .. Cardinality(S), \A k \in S \ {s[i]} : job[k].created # job[s[i]].created
    PROVE  Cardinality(Newer(S, s[i])) = i - 1
<1> DEFINE n == Cardinality(S)
<1>1. IsFiniteSet(S) /\ s \in SetToSeqs(S)  BY JobSets, NewestBefore
<1>2. /\ n \in Nat /\ s \in [1 .. n -> S]
      /\ \A k, m \in 1 .. n : k # m => s[k] # s[m]
      /\ \A x \in S : \E k \in 1 .. n : s[k] = x
  BY <1>1, Enumerates
<1>3. \A k, m \in 1 .. n : k <= m => job[s[k]].created >= job[s[m]].created
  BY NewestBefore
<1>4. \A k \in 1 .. n : job[s[k]].created \in Nat  BY <1>2 DEF TablesOK, JobRow
<1> HIDE DEF n
<1>i. i \in 1 .. n  BY DEF n
<1>5. ASSUME NEW k \in 1 .. n PROVE job[s[k]].created > job[s[i]].created <=> k < i
  <2>1. CASE k < i
    <3>1. s[k] \in S \ {s[i]}  BY <1>2, <1>i, <2>1
    <3>2. job[s[k]].created >= job[s[i]].created /\ job[s[k]].created # job[s[i]].created
      BY <1>3, <1>i, <2>1, <3>1
    <3> QED  BY <1>4, <1>i, <2>1, <3>2
  <2>2. CASE i <= k  BY <1>3, <1>4, <1>i, <2>2
  <2> QED  BY <1>i, <2>1, <2>2
<1>6. Newer(S, s[i]) = {s[k] : k \in 1 .. i - 1}
  <2>1. ASSUME NEW x \in Newer(S, s[i]) PROVE x \in {s[k] : k \in 1 .. i - 1}
    <3>1. x \in S /\ job[x].created > job[s[i]].created  BY DEF Newer
    <3>2. PICK k \in 1 .. n : s[k] = x  BY <1>2, <3>1
    <3>3. k < i  BY <1>5, <3>1, <3>2
    <3>4. k \in 1 .. i - 1  BY <1>i, <3>3
    <3> QED  BY <3>2, <3>4
  <2>2. ASSUME NEW k \in 1 .. i - 1 PROVE s[k] \in Newer(S, s[i])
    <3>1. k \in 1 .. n /\ k < i  BY <1>i, <1>2
    <3> QED  BY <1>2, <1>5, <3>1 DEF Newer
  <2> QED  BY <2>1, <2>2
<1>7. i - 1 \in Nat /\ 1 .. i - 1 \subseteq 1 .. n  BY <1>i, <1>2
<1>8. Cardinality({s[k] : k \in 1 .. i - 1}) = Cardinality(1 .. i - 1)
  <2>1. IsFiniteSet(1 .. i - 1)  BY <1>7, CountTo
  <2>2. \A a, b \in 1 .. i - 1 : a # b => s[a] # s[b]  BY <1>2, <1>7
  <2> QED  BY <2>1, <2>2, SameSize
<1>9. Cardinality(1 .. i - 1) = i - 1  BY <1>7, CountTo
<1> QED  BY <1>6, <1>8, <1>9

(* --- the tables ------------------------------------------------------------- *)
(* What a commit does to the rows that a reader may have seen.               *)
Commits ==
    /\ TablesOK'
    /\ \A j \in Present \cap Present' :
         /\ job'[j].created = job[j].created
         /\ job[j].scraped <= job'[j].scraped
         /\ Len(disc[j]) + removed <= Len(disc'[j]) + removed'
    /\ \A j \in Jobs : job[j].status = "gone" => job'[j].status = "gone"
    /\ \A j \in Present \ Present' : job'[j].status = "gone"
    /\ now' = now

(* The rows of one job change; what is to be shown of them.                  *)
LEMMA OneJobCommits ==
    ASSUME TablesOK, NEW j \in Jobs, NEW row \in JobRow, NEW d \in Seq(Nat), NEW r \in Seq(Nat),
           job' = [job EXCEPT ![j] = row],
           disc' = [disc EXCEPT ![j] = d], results' = [results EXCEPT ![j] = r],
           now' = now, removed' \in 0 .. MaxDeletes, removed <= removed',
           row.scraped = Len(r), row.discovered \in Len(d) .. Len(d) + removed',
           row.status \in Statuses \cup {"gone"}, row.status \notin Statuses => d = <<>> /\ r = <<>>,
           job[j].status = "gone" => row.status = "gone",
           job[j].status \in Statuses /\ row.status \in Statuses =>
             /\ row.created = job[j].created
             /\ Len(results[j]) <= Len(r)
             /\ Len(disc[j]) + removed <= Len(d) + removed'
    PROVE  Commits
<1>1. /\ job \in [Jobs -> JobRow]
      /\ disc \in [Jobs -> Seq(Nat)] /\ results \in [Jobs -> Seq(Nat)]
      /\ now \in 0 .. MaxNow /\ removed \in Nat /\ removed' \in Nat
      /\ \A k \in Jobs : /\ Len(disc[k]) \in Nat
                         /\ job[k].scraped = Len(results[k])
                         /\ job[k].scraped \in Nat
                         /\ job[k].discovered \in Len(disc[k]) .. Len(disc[k]) + removed
  <2>1. ASSUME NEW k \in Jobs PROVE Len(disc[k]) \in Nat /\ job[k].scraped \in Nat
    <3>1. disc[k] \in Seq(Nat)  BY DEF TablesOK
    <3>2. job[k] \in JobRow  BY DEF TablesOK
    <3>3. Len(disc[k]) \in Nat  BY <3>1
    <3> QED  BY <3>2, <3>3 DEF JobRow
  <2> QED  BY <2>1, ReadsAssumption DEF TablesOK
<1>2. ASSUME NEW k \in Jobs
      PROVE  /\ job'[k] = IF k = j THEN row ELSE job[k]
             /\ disc'[k] = IF k = j THEN d ELSE disc[k]
             /\ results'[k] = IF k = j THEN r ELSE results[k]
  BY <1>1
<1>3. job' \in [Jobs -> JobRow] /\ disc' \in [Jobs -> Seq(Nat)] /\ results' \in [Jobs -> Seq(Nat)]
  BY <1>1
<1>4. ASSUME NEW k \in Jobs
      PROVE  /\ job'[k].scraped = Len(results'[k])
             /\ job'[k].discovered \in Len(disc'[k]) .. Len(disc'[k]) + removed'
  <2>1. CASE k = j  BY <1>2, <2>1
  <2>2. CASE k # j
    <3>1. job[k].discovered \in Len(disc[k]) .. Len(disc[k]) + removed'  BY <1>1
    <3> QED  BY <1>1, <1>2, <2>2, <3>1
  <2> QED  BY <2>1, <2>2
<1>5. ASSUME NEW k \in Jobs \ Present' PROVE disc'[k] = <<>> /\ results'[k] = <<>>
  <2>1. job'[k].status \notin Statuses  BY DEF Present
  <2>2. k # j => k \notin Present  BY <1>2, <2>1 DEF Present
  <2> QED  BY <1>2, <2>1, <2>2 DEF TablesOK
<1>8. TablesOK'  BY <1>1, <1>3, <1>4, <1>5 DEF TablesOK
<1>6. ASSUME NEW k \in Present \cap Present'
      PROVE  /\ job'[k].created = job[k].created
             /\ job[k].scraped <= job'[k].scraped
             /\ Len(disc[k]) + removed <= Len(disc'[k]) + removed'
  <2>1. k \in Jobs /\ job[k].status \in Statuses /\ job'[k].status \in Statuses  BY DEF Present
  <2>2. CASE k = j  BY <1>1, <1>2, <2>1, <2>2
  <2>3. CASE k # j
    <3>1. job'[k] = job[k] /\ disc'[k] = disc[k]  BY <1>2, <2>1, <2>3
    <3>2. job[k].scraped <= job[k].scraped
      <4>1. job[k].scraped \in Nat  BY <1>1, <2>1
      <4> QED  BY <4>1
    <3>3. Len(disc[k]) + removed <= Len(disc[k]) + removed'
      <4>1. Len(disc[k]) \in Nat  BY <1>1, <2>1
      <4> QED  BY <1>1, <4>1
    <3> QED  BY <3>1, <3>2, <3>3
  <2> QED  BY <2>2, <2>3
<1>7. ASSUME NEW k \in Jobs, job[k].status = "gone" PROVE job'[k].status = "gone"
  BY <1>2, <1>7
<1>9. ASSUME NEW k \in Present \ Present' PROVE job'[k].status = "gone"
  <2>1. k \in Jobs /\ job[k].status \in Statuses /\ job'[k].status \notin Statuses  BY DEF Present
  <2>2. k = j  BY <1>2, <2>1
  <2> QED  BY <1>2, <2>1, <2>2
<1> QED  BY <1>6, <1>7, <1>8, <1>9 DEF Commits

LEMMA CreateCommits ==
    ASSUME TablesOK, NEW j \in Jobs, Create(j)
    PROVE  Commits
<1>1. PICK t \in Stamps : job' = [job EXCEPT ![j] = [NoRow("queued") EXCEPT !.created = t]]
  BY DEF Create
<1> DEFINE row == [status |-> "queued", created |-> t, discovered |-> 0, scraped |-> 0]
<1>2. t \in Nat  BY <1>1 DEF Stamps
<1>3. [NoRow("queued") EXCEPT !.created = t] = row  BY DEF NoRow
<1>4. job' = [job EXCEPT ![j] = row]  BY <1>1, <1>3
<1>5. job[j].status = "none" /\ UNCHANGED <<disc, results, now, removed>>  BY DEF Create
<1>6. job[j].status \notin Statuses /\ job[j].status # "gone"  BY <1>5 DEF Statuses
<1>7. row \in JobRow /\ row.status \in Statuses /\ row.scraped = 0 /\ row.discovered = 0
  BY <1>2 DEF JobRow, Statuses
<1>8. /\ disc[j] = <<>> /\ results[j] = <<>> /\ <<>> \in Seq(Nat) /\ Len(<<>>) = 0
      /\ removed \in 0 .. MaxDeletes /\ removed' = removed /\ removed \in Nat
  BY <1>5, <1>6, ReadsAssumption DEF TablesOK, Present
<1>9. disc' = [disc EXCEPT ![j] = <<>>] /\ results' = [results EXCEPT ![j] = <<>>]
  BY <1>5, <1>8 DEF TablesOK
<1>10. 0 \in Len(<<>>) .. Len(<<>>) + removed' /\ removed <= removed'  BY <1>8
<1> HIDE DEF row
<1> QED  BY <1>4, <1>5, <1>6, <1>7, <1>8, <1>9, <1>10, OneJobCommits

LEMMA SetStatusCommits ==
    ASSUME TablesOK, NEW j \in Jobs, NEW s \in Statuses, SetStatus(j, s)
    PROVE  Commits
<1> DEFINE row == [job[j] EXCEPT !.status = s]
<1>1. job' = [job EXCEPT ![j] = row] /\ j \in Present /\ UNCHANGED <<disc, results, now, removed>>
  BY DEF SetStatus
<1>2. /\ job[j] \in JobRow /\ disc[j] \in Seq(Nat) /\ results[j] \in Seq(Nat)
      /\ job[j].scraped = Len(results[j])
      /\ job[j].discovered \in Len(disc[j]) .. Len(disc[j]) + removed
      /\ removed \in 0 .. MaxDeletes /\ removed' = removed /\ removed \in Nat
  BY <1>1, ReadsAssumption DEF TablesOK
<1>3. /\ row \in JobRow /\ row.status = s
      /\ row.scraped = job[j].scraped /\ row.discovered = job[j].discovered
      /\ row.created = job[j].created
  BY <1>2 DEF JobRow
<1>4. disc' = [disc EXCEPT ![j] = disc[j]] /\ results' = [results EXCEPT ![j] = results[j]]
  BY <1>1 DEF TablesOK
<1>5. job[j].status # "gone"  BY <1>1 DEF Present, Statuses
<1>6. Len(results[j]) <= Len(results[j]) /\ Len(disc[j]) + removed <= Len(disc[j]) + removed'
      /\ removed <= removed'
  BY <1>2
<1> HIDE DEF row
<1> QED  BY <1>1, <1>2, <1>3, <1>4, <1>5, <1>6, OneJobCommits

LEMMA SavePageCommits ==
    ASSUME TablesOK, NEW j \in Jobs, NEW scrapes \in BOOLEAN, SavePage(j, scrapes)
    PROVE  Commits
<1> DEFINE row == [job[j] EXCEPT !.discovered = @ + 1, !.scraped = IF scrapes THEN @ + 1 ELSE @]
           d == Append(disc[j], now)
           r == IF scrapes THEN Append(results[j], now) ELSE results[j]
<1>1. /\ job \in [Jobs -> JobRow] /\ job[j] \in JobRow /\ disc[j] \in Seq(Nat) /\ results[j] \in Seq(Nat)
      /\ disc \in [Jobs -> Seq(Nat)] /\ results \in [Jobs -> Seq(Nat)]
      /\ job[j].scraped = Len(results[j])
      /\ job[j].discovered \in Len(disc[j]) .. Len(disc[j]) + removed
      /\ removed \in 0 .. MaxDeletes /\ removed \in Nat /\ now \in Nat
  BY ReadsAssumption DEF TablesOK
<1>2. job' = [job EXCEPT ![j] = row]  BY <1>1 DEF SavePage
<1>3. disc' = [disc EXCEPT ![j] = d]  BY <1>1 DEF SavePage
<1>4. results' = [results EXCEPT ![j] = r]  BY <1>1 DEF SavePage
<1>5. j \in Present /\ now' = now /\ removed' = removed  BY DEF SavePage, Matching
<1>6. /\ row \in JobRow /\ row.status = job[j].status /\ row.created = job[j].created
      /\ row.discovered = job[j].discovered + 1
      /\ row.scraped = IF scrapes THEN job[j].scraped + 1 ELSE job[j].scraped
  <2>1. /\ job[j] = [status |-> job[j].status, created |-> job[j].created,
                     discovered |-> job[j].discovered, scraped |-> job[j].scraped]
        /\ job[j].status \in Statuses \cup {"none", "gone"} /\ job[j].created \in Nat
        /\ job[j].discovered \in Nat /\ job[j].scraped \in Nat
    BY <1>1 DEF JobRow
  <2>2. row = [status |-> job[j].status, created |-> job[j].created,
               discovered |-> job[j].discovered + 1,
               scraped |-> IF scrapes THEN job[j].scraped + 1 ELSE job[j].scraped]
    <3> DEFINE a == job[j].discovered + 1
               b == IF scrapes THEN job[j].scraped + 1 ELSE job[j].scraped
    <3>1. row = [job[j] EXCEPT !.discovered = a, !.scraped = b]  OBVIOUS
    <3> HIDE DEF row, a, b
    <3>2. row = [status |-> job[j].status, created |-> job[j].created, discovered |-> a, scraped |-> b]
      BY <2>1, <3>1
    <3> QED  BY <3>2 DEF a, b
  <2>3. job[j].discovered + 1 \in Nat
        /\ (IF scrapes THEN job[j].scraped + 1 ELSE job[j].scraped) \in Nat
    BY <2>1
  <2> HIDE DEF row
  <2> QED  BY <2>1, <2>2, <2>3 DEF JobRow
<1>7. d \in Seq(Nat) /\ Len(d) = Len(disc[j]) + 1 /\ Len(disc[j]) \in Nat
  BY <1>1, AppendProperties
<1>8. r \in Seq(Nat) /\ Len(results[j]) \in Nat
      /\ Len(r) = IF scrapes THEN Len(results[j]) + 1 ELSE Len(results[j])
  BY <1>1, AppendProperties
<1> HIDE DEF row, d, r
<1>9. row.scraped = Len(r)  BY <1>1, <1>6, <1>8
<1>10. row.discovered \in Len(d) .. Len(d) + removed'  BY <1>1, <1>5, <1>6, <1>7
<1>11. /\ removed <= removed' /\ removed' \in 0 .. MaxDeletes
       /\ Len(results[j]) <= Len(r) /\ Len(disc[j]) + removed <= Len(d) + removed'
  BY <1>1, <1>5, <1>7, <1>8
<1>12. job[j].status \in Statuses  BY <1>5 DEF Present
<1> QED  BY <1>2, <1>3, <1>4, <1>5, <1>6, <1>7, <1>8, <1>9, <1>10, <1>11, <1>12, OneJobCommits

LEMMA DeleteCommits ==
    ASSUME TablesOK, NEW j \in Jobs, Delete(j)
    PROVE  Commits
<1> DEFINE row == NoRow("gone")
<1>1. /\ job' = [job EXCEPT ![j] = row]
      /\ disc' = [disc EXCEPT ![j] = <<>>] /\ results' = [results EXCEPT ![j] = <<>>]
      /\ now' = now /\ removed' = removed
  BY DEF Delete
<1>2. row \in JobRow /\ row.status = "gone" /\ row.scraped = 0 /\ row.discovered = 0
  BY DEF JobRow, NoRow
<1>3. removed \in 0 .. MaxDeletes /\ removed \in Nat  BY ReadsAssumption DEF TablesOK
<1>4. <<>> \in Seq(Nat) /\ Len(<<>>) = 0  OBVIOUS
<1>5. 0 \in Len(<<>>) .. Len(<<>>) + removed' /\ removed <= removed'  BY <1>1, <1>3, <1>4
<1>6. "gone" \notin Statuses  BY DEF Statuses
<1> HIDE DEF row
<1> QED  BY <1>1, <1>2, <1>3, <1>4, <1>5, <1>6, OneJobCommits

LEMMA DeleteDiscoveredCommits ==
    ASSUME TablesOK, NEW j \in Jobs, DeleteDiscovered(j)
    PROVE  Commits
<1>1. /\ job[j] \in JobRow /\ disc[j] \in Seq(Nat) /\ results[j] \in Seq(Nat)
      /\ job[j].scraped = Len(results[j])
      /\ job[j].discovered \in Len(disc[j]) .. Len(disc[j]) + removed
      /\ removed \in 0 .. MaxDeletes /\ removed \in Nat /\ Len(disc[j]) \in Nat /\ Len(results[j]) \in Nat
  BY ReadsAssumption DEF TablesOK
<1>2. PICK i \in DOMAIN disc[j] : disc' = [disc EXCEPT ![j] = RemoveAt(@, i)]
  BY DEF DeleteDiscovered
<1> DEFINE d == RemoveAt(disc[j], i)
<1>3. disc' = [disc EXCEPT ![j] = d]  BY <1>2 DEF TablesOK
<1>4. d \in Seq(Nat) /\ Len(d) = Len(disc[j]) - 1
  <2> DEFINE n == Len(disc[j])
             a == SubSeq(disc[j], 1, i - 1)
             b == SubSeq(disc[j], i + 1, n)
  <2>1. i \in 1 .. n /\ n \in Nat /\ \A k \in 1 .. n : disc[j][k] \in Nat  BY <1>1
  <2>2. a \in Seq(Nat) /\ Len(a) = i - 1
    <3>1. i - 1 \in Nat /\ \A k \in 1 .. i - 1 : disc[j][k] \in Nat
      BY <2>1
    <3>2. Len(a) = IF 1 <= i - 1 THEN (i - 1) - 1 + 1 ELSE 0
      BY <3>1, SubSeqProperties
    <3>3. a \in Seq(Nat)  BY <3>1, SubSeqProperties
    <3> QED  BY <2>1, <3>2, <3>3
  <2>3. b \in Seq(Nat) /\ Len(b) = n - i
    <3>1. i + 1 \in Int /\ n \in Int /\ \A k \in i + 1 .. n : disc[j][k] \in Nat
      BY <2>1
    <3>2. Len(b) = IF i + 1 <= n THEN n - (i + 1) + 1 ELSE 0
      BY <3>1, SubSeqProperties
    <3>3. b \in Seq(Nat)  BY <3>1, SubSeqProperties
    <3> QED  BY <2>1, <3>2, <3>3
  <2>4. d = a \o b  BY DEF RemoveAt
  <2> HIDE DEF a, b, d
  <2>5. a \o b \in Seq(Nat) /\ Len(a \o b) = Len(a) + Len(b)  BY <2>2, <2>3, ConcatProperties
  <2>6. (i - 1) + (n - i) = n - 1  BY <2>1
  <2> QED  BY <2>2, <2>3, <2>4, <2>5, <2>6
<1>5. /\ removed < MaxDeletes /\ removed' = removed + 1 /\ UNCHANGED <<job, results, now>>
  BY DEF DeleteDiscovered
<1>6. job' = [job EXCEPT ![j] = job[j]] /\ results' = [results EXCEPT ![j] = results[j]]
  BY <1>5 DEF TablesOK
<1>7. job[j].status \in Statuses
  <2>1. disc[j] # <<>>  BY <1>2
  <2> QED  BY <2>1 DEF TablesOK, Present
<1> HIDE DEF d
<1>a. MaxDeletes \in Nat  BY ReadsAssumption
<1>8. removed' \in 0 .. MaxDeletes /\ removed <= removed'
  BY <1>1, <1>5, <1>a
<1>b. Len(d) = Len(disc[j]) - 1 /\ removed' = removed + 1 /\ Len(d) + removed' = Len(disc[j]) + removed
  <2>1. Len(disc[j]) \in Int /\ removed \in Int  BY <1>1
  <2> DEFINE n == Len(disc[j])
  <2>a. n \in Int  BY <2>1
  <2> HIDE DEF n
  <2>2. (n - 1) + (removed + 1) = n + removed  BY <2>1, <2>a
  <2> USE DEF n
  <2> QED  BY <1>4, <1>5, <2>2
<1>c. Len(disc[j]) \in Int /\ removed \in Int /\ job[j].discovered \in Int
      /\ Len(disc[j]) <= job[j].discovered /\ job[j].discovered <= Len(disc[j]) + removed
  BY <1>1
<1>9. job[j].discovered \in Len(d) .. Len(d) + removed'
  <2>1. job[j].discovered \in Len(disc[j]) - 1 .. Len(disc[j]) + removed  BY <1>c
  <2> QED  BY <1>b, <2>1
<1>10. Len(results[j]) <= Len(results[j]) /\ Len(disc[j]) + removed <= Len(d) + removed'
  <2>1. Len(results[j]) \in Int  BY <1>1
  <2>2. Len(results[j]) <= Len(results[j])  BY <2>1
  <2>3. Len(disc[j]) + removed <= Len(disc[j]) + removed  BY <1>c
  <2> QED  BY <1>b, <2>2, <2>3
<1> QED  BY <1>1, <1>3, <1>4, <1>5, <1>6, <1>7, <1>8, <1>9, <1>10, OneJobCommits

LEMMA EveryCommit ==
    ASSUME TablesOK, Commit
    PROVE  Commits /\ Meanwhile
<1>1. CASE \E j \in Jobs : Create(j) \/ Delete(j) \/ DeleteDiscovered(j)
  <2>1. PICK j \in Jobs : Create(j) \/ Delete(j) \/ DeleteDiscovered(j)  BY <1>1
  <2>2. Meanwhile  BY <2>1 DEF Create, Delete, DeleteDiscovered
  <2> QED  BY <2>1, <2>2, CreateCommits, DeleteCommits, DeleteDiscoveredCommits
<1>2. CASE \E j \in Jobs, s \in {"running"} \cup Outcomes : SetStatus(j, s)
  <2>1. PICK j \in Jobs, s \in {"running"} \cup Outcomes : SetStatus(j, s)  BY <1>2
  <2>2. s \in Statuses  BY ReadsAssumption DEF Statuses
  <2>3. Meanwhile  BY <2>1 DEF SetStatus
  <2> QED  BY <2>1, <2>2, <2>3, SetStatusCommits
<1>3. CASE \E j \in Jobs, scrapes \in BOOLEAN : SavePage(j, scrapes)
  <2>1. PICK j \in Jobs, scrapes \in BOOLEAN : SavePage(j, scrapes)  BY <1>3
  <2>2. Meanwhile  BY <2>1 DEF SavePage
  <2> QED  BY <2>1, <2>2, SavePageCommits
<1> QED  BY <1>1, <1>2, <1>3 DEF Commit

(* --- the statements that are left -------------------------------------------- *)
LEMMA SuffixLeft ==
    ASSUME NEW S, NEW all \in Seq(S), NEW s \in Suffixes(all)
    PROVE  /\ s \in Seq(S) /\ Len(s) \in 0 .. Len(all) /\ (s = <<>> <=> Len(s) = 0)
           /\ s # <<>> => /\ Head(s) = all[Len(all) - Len(s) + 1]
                          /\ Tail(s) \in Suffixes(all) /\ Len(Tail(s)) = Len(s) - 1
<1> DEFINE n == Len(all)
<1>1. n \in Nat /\ \A i \in 1 .. n : all[i] \in S  OBVIOUS
<1>2. CASE s = <<>>
  <2>1. <<>> \in Seq(S) /\ Len(<<>>) = 0  OBVIOUS
  <2> QED  BY <1>1, <1>2, <2>1
<1>3. CASE s # <<>>
  <2>1. PICK l \in 1 .. n : s = SubSeq(all, l, n)  BY <1>3 DEF Suffixes
  <2>2. s \in Seq(S) /\ Len(s) = n - l + 1 /\ \A i \in 1 .. n - l + 1 : s[i] = all[l + i - 1]
    <3>1. l \in Int /\ n \in Int /\ l <= n /\ \A i \in l .. n : all[i] \in S  BY <1>1, <2>1
    <3> HIDE DEF n
    <3> QED  BY <2>1, <3>1, SubSeqProperties
  <2>3. Len(s) \in 1 .. n /\ n - Len(s) + 1 = l  BY <1>1, <2>2
  <2>4. Head(s) = all[l] /\ Tail(s) = SubSeq(all, l + 1, n)
    BY <2>1, HeadTailOfSubSeq
  <2>5. Len(Tail(s)) = Len(s) - 1  BY <1>3, <2>2, HeadTailProperties
  <2>6. Tail(s) \in Suffixes(all)
    <3>1. CASE l = n
      <4>1. Tail(s) = <<>>  BY <2>4, <3>1, <1>1, SubSeqEmpty
      <4> QED  BY <4>1 DEF Suffixes
    <3>2. CASE l # n
      <4>1. l + 1 \in 1 .. n  BY <2>1, <3>2
      <4> QED  BY <2>4, <4>1 DEF Suffixes
    <3> QED  BY <3>1, <3>2
  <2> QED  BY <1>3, <2>2, <2>3, <2>4, <2>5, <2>6
<1> QED  BY <1>2, <1>3

Statements == {"job", "results", "discovered", "counts", "sums", "total", "recent",
               "month_start", "month", "month_urls"}
OverviewNames == {"counts", "sums", "total", "recent"}
UsageNames == {"counts", "sums", "total", "month_start", "month", "month_urls"}

LEMMA StatementLists ==
    /\ Detail \in Seq(Statements) /\ Len(Detail) = 3
    /\ Detail[1] = "job" /\ Detail[2] = "results" /\ Detail[3] = "discovered"
    /\ Overview \in Seq(Statements) /\ Len(Overview) = 4
    /\ Overview[1] = "counts" /\ Overview[2] = "sums" /\ Overview[3] = "total" /\ Overview[4] = "recent"
    /\ Usage \in Seq(Statements) /\ Len(Usage) = 6
    /\ Usage[1] = "counts" /\ Usage[2] = "sums" /\ Usage[3] = "total"
    /\ Usage[4] = "month_start" /\ Usage[5] = "month" /\ Usage[6] = "month_urls"
<1>1. Detail \in Seq(Statements)  BY DEF Detail, Statements
<1>2. Overview \in Seq(Statements)  BY DEF Overview, Statements
<1>3. Usage \in Seq(Statements)  BY DEF Usage, Statements
<1>4. Len(Detail) = 3 /\ Detail[1] = "job" /\ Detail[2] = "results" /\ Detail[3] = "discovered"
  BY DEF Detail
<1>5. /\ Len(Overview) = 4 /\ Overview[1] = "counts" /\ Overview[2] = "sums"
      /\ Overview[3] = "total" /\ Overview[4] = "recent"
  BY DEF Overview
<1>6. /\ Len(Usage) = 6 /\ Usage[1] = "counts" /\ Usage[2] = "sums" /\ Usage[3] = "total"
      /\ Usage[4] = "month_start" /\ Usage[5] = "month" /\ Usage[6] = "month_urls"
  BY DEF Usage
<1> QED  BY <1>1, <1>2, <1>3, <1>4, <1>5, <1>6

LEMMA WholeIsSuffix ==
    ASSUME NEW S, NEW all \in Seq(S), all # <<>>
    PROVE  all \in Suffixes(all)
<1>1. Len(all) \in Nat /\ 1 \in 1 .. Len(all)  BY EmptySeq
<1>2. SubSeq(all, 1, Len(all)) = all  BY SubSeqFull
<1> QED  BY <1>1, <1>2 DEF Suffixes

LEMMA DetailReader ==
    ASSUME reader \in DetailReaders
    PROVE  /\ reader.op = "detail" /\ reader.of \in Jobs /\ reader.todo \in Suffixes(Detail)
           /\ reader.created \in Nat /\ reader.gone \in SUBSET Jobs
           /\ reader.got \in [job : Counters \cup {Nothing}, results : Nat \cup {Nothing},
                              discovered : Nat \cup {Nothing}]
           /\ Left \in 0 .. 3 /\ (reader.todo = <<>> <=> Left = 0)
           /\ Left > 0 => /\ Head(reader.todo) = Detail[4 - Left]
                          /\ Tail(reader.todo) \in Suffixes(Detail) /\ Len(Tail(reader.todo)) = Left - 1
<1>1. /\ reader.op = "detail" /\ reader.of \in Jobs /\ reader.todo \in Suffixes(Detail)
      /\ reader.created \in Nat /\ reader.gone \in SUBSET Jobs
      /\ reader.got \in [job : Counters \cup {Nothing}, results : Nat \cup {Nothing},
                         discovered : Nat \cup {Nothing}]
  BY DEF DetailReaders, Asking
<1>2. Detail \in Seq(Statements) /\ Len(Detail) = 3  BY StatementLists
<1> DEFINE todo == reader.todo
<1>a. todo \in Suffixes(Detail)  BY <1>1
<1> HIDE DEF todo
<1>b. /\ Len(todo) \in 0 .. Len(Detail) /\ (todo = <<>> <=> Len(todo) = 0)
      /\ todo # <<>> => /\ Head(todo) = Detail[Len(Detail) - Len(todo) + 1]
                        /\ Tail(todo) \in Suffixes(Detail) /\ Len(Tail(todo)) = Len(todo) - 1
  BY <1>2, <1>a, SuffixLeft
<1>3. /\ Len(reader.todo) \in 0 .. 3 /\ (reader.todo = <<>> <=> Len(reader.todo) = 0)
      /\ reader.todo # <<>> => /\ Head(reader.todo) = Detail[3 - Len(reader.todo) + 1]
                               /\ Tail(reader.todo) \in Suffixes(Detail)
                               /\ Len(Tail(reader.todo)) = Len(reader.todo) - 1
  BY <1>2, <1>b DEF todo
<1>4. 3 - Len(reader.todo) + 1 = 4 - Len(reader.todo)  BY <1>3
<1> QED  BY <1>1, <1>3, <1>4 DEF Left

(* A reader of the overview or of the usage.                                 *)
LEMMA TotalsReader ==
    ASSUME reader \in OverviewReaders \cup UsageReaders
    PROVE  LET all == IF reader.op = "overview" THEN Overview ELSE Usage
               names == IF reader.op = "overview" THEN OverviewNames ELSE UsageNames
               n == IF reader.op = "usage" THEN 6 ELSE 4 IN
           /\ reader.op \in {"overview", "usage"} /\ reader.of = Nothing
           /\ reader.op = "overview" => reader \in OverviewReaders
           /\ reader.op = "usage" => reader \in UsageReaders
           /\ reader.todo \in Suffixes(all)
           /\ reader.created \in Nat /\ reader.gone \in SUBSET Jobs
           /\ reader.got \in [names -> Nat \cup {Nothing}]
           /\ Left \in 0 .. n /\ Taken = n - Left /\ (reader.todo = <<>> <=> Left = 0)
           /\ Left > 0 => /\ Head(reader.todo) = all[Taken + 1]
                          /\ Tail(reader.todo) \in Suffixes(all) /\ Len(Tail(reader.todo)) = Left - 1
<1> DEFINE all == IF reader.op = "overview" THEN Overview ELSE Usage
           names == IF reader.op = "overview" THEN OverviewNames ELSE UsageNames
           n == IF reader.op = "usage" THEN 6 ELSE 4
<1>1. /\ reader.op \in {"overview", "usage"} /\ reader.of = Nothing
      /\ reader.op = "overview" => reader \in OverviewReaders
      /\ reader.op = "usage" => reader \in UsageReaders
      /\ reader.todo \in Suffixes(all)
      /\ reader.created \in Nat /\ reader.gone \in SUBSET Jobs
      /\ reader.got \in [names -> Nat \cup {Nothing}]
  <2>1. CASE reader \in OverviewReaders  BY <2>1 DEF OverviewReaders, Asking, OverviewNames
  <2>2. CASE reader \in UsageReaders  BY <2>2 DEF UsageReaders, Asking, UsageNames
  <2> QED  BY <2>1, <2>2
<1>2. all \in Seq(Statements) /\ Len(all) = n /\ n \in Nat
  BY <1>1, StatementLists
<1> HIDE DEF all, names
<1> DEFINE todo == reader.todo
<1>a. todo \in Suffixes(all)  BY <1>1
<1> HIDE DEF todo
<1>b. /\ Len(todo) \in 0 .. Len(all) /\ (todo = <<>> <=> Len(todo) = 0)
      /\ todo # <<>> => /\ Head(todo) = all[Len(all) - Len(todo) + 1]
                        /\ Tail(todo) \in Suffixes(all) /\ Len(Tail(todo)) = Len(todo) - 1
  BY <1>2, <1>a, SuffixLeft
<1>c. Taken = n - Left  BY DEF Taken
<1> HIDE DEF n
<1>3. /\ Len(reader.todo) \in 0 .. n /\ (reader.todo = <<>> <=> Len(reader.todo) = 0)
      /\ reader.todo # <<>> => /\ Head(reader.todo) = all[n - Len(reader.todo) + 1]
                               /\ Tail(reader.todo) \in Suffixes(all)
                               /\ Len(Tail(reader.todo)) = Len(reader.todo) - 1
  BY <1>2, <1>b DEF todo
<1>4. /\ Left \in 0 .. n /\ (reader.todo = <<>> <=> Left = 0)
      /\ Left > 0 => /\ Head(reader.todo) = all[Taken + 1]
                     /\ Tail(reader.todo) \in Suffixes(all) /\ Len(Tail(reader.todo)) = Left - 1
  BY <1>3, <1>c DEF Left
<1> QED  BY <1>1, <1>4, <1>c DEF all, names, n

LEMMA ReaderKinds ==
    ASSUME TypeOK
    PROVE  \/ reader = Idle /\ reader.op = "idle"
           \/ reader \in DetailReaders
           \/ reader \in OverviewReaders \cup UsageReaders
           \/ reader \in WalkReaders /\ reader.op = "walk"
<1>1. reader \in WalkReaders => reader.op = "walk"  BY DEF WalkReaders
<1>2. Idle.op = "idle"  BY DEF Idle
<1> QED  BY <1>1, <1>2 DEF TypeOK

(* --- a commit meanwhile ------------------------------------------------------ *)
(* reader' is reader but for what it notes of the commit.                    *)
LEMMA NotedMeanwhile ==
    ASSUME TypeOK, Meanwhile, reader.op \in {"detail", "overview", "usage"}
    PROVE  /\ reader'.op = reader.op /\ reader'.of = reader.of
           /\ reader'.todo = reader.todo /\ reader'.got = reader.got /\ Left' = Left
           /\ reader'.created = reader.created + Cardinality(Present' \ Present)
           /\ reader'.gone = reader.gone \cup (Present \ Present')
           /\ reader \in DetailReaders => reader' \in DetailReaders
           /\ reader \in OverviewReaders => reader' \in OverviewReaders
           /\ reader \in UsageReaders => reader' \in UsageReaders
<1> DEFINE c == reader.created + Cardinality(Present' \ Present)
           g == reader.gone \cup (Present \ Present')
<1>1. reader' = [reader EXCEPT !.created = c, !.gone = g]
  BY DEF Meanwhile
<1>2. Cardinality(Present' \ Present) \in Nat
  <2>1. Present' \ Present \subseteq Jobs  BY DEF Present
  <2> QED  BY <2>1, JobSets
<1>3. Present \ Present' \subseteq Jobs  BY JobSets
<1>4. ASSUME NEW op, NEW of, NEW all, NEW yields, reader \in Asking(op, of, all, yields)
      PROVE  /\ reader'.op = reader.op /\ reader'.of = reader.of
             /\ reader'.todo = reader.todo /\ reader'.got = reader.got
             /\ reader'.created = c /\ reader'.gone = g
             /\ reader' \in Asking(op, of, all, yields)
  <2>1. reader.created \in Nat /\ reader.gone \in SUBSET Jobs  BY <1>4 DEF Asking
  <2>2. c \in Nat /\ g \in SUBSET Jobs  BY <1>2, <1>3, <2>1
  <2> HIDE DEF c, g
  <2> QED  BY <1>1, <1>4, <2>2 DEF Asking
<1> HIDE DEF c, g
<1>5. reader # Idle  BY DEF Idle
<1>6. reader \notin WalkReaders  BY DEF WalkReaders
<1>7. CASE reader \in DetailReaders
  <2>1. reader \notin OverviewReaders /\ reader \notin UsageReaders
    BY <1>7 DEF DetailReaders, OverviewReaders, UsageReaders, Asking
  <2> QED  BY <1>4, <1>7, <2>1 DEF DetailReaders, Left, c, g
<1>8. CASE reader \in OverviewReaders
  <2>1. reader \notin DetailReaders /\ reader \notin UsageReaders
    BY <1>8 DEF DetailReaders, OverviewReaders, UsageReaders, Asking
  <2> QED  BY <1>4, <1>8, <2>1 DEF OverviewReaders, Left, c, g
<1>9. CASE reader \in UsageReaders
  <2>1. reader \notin DetailReaders /\ reader \notin OverviewReaders
    BY <1>9 DEF DetailReaders, OverviewReaders, UsageReaders, Asking
  <2> QED  BY <1>4, <1>9, <2>1 DEF UsageReaders, Left, c, g
<1> QED  BY <1>5, <1>6, <1>7, <1>8, <1>9 DEF TypeOK

(* The parts of IInv that are about a reader of another kind.                *)
Others(op) ==
    /\ op # "detail" => DetailSoFar /\ DetailNotBehind
    /\ op \notin {"overview", "usage"} => TotalsSoFar /\ TotalsDrift /\ RecentNotBehind
    /\ op \notin {"detail", "overview", "usage"} => GoneForGood
    /\ op # "walk" => WalkSoFar /\ TotalNearPage

LEMMA OthersHold ==
    Others(reader.op)
<1>1. reader.op # "detail" => DetailSoFar /\ DetailNotBehind
  BY DEF DetailSoFar, DetailNotBehind, Answered
<1>2. reader.op \notin {"overview", "usage"} => TotalsSoFar /\ TotalsDrift /\ RecentNotBehind
  BY DEF TotalsSoFar, TotalsDrift, RecentNotBehind, Answered
<1>3. reader.op \notin {"detail", "overview", "usage"} => GoneForGood
  BY DEF GoneForGood
<1>4. reader.op # "walk" => WalkSoFar /\ TotalNearPage
  BY DEF WalkSoFar, TotalNearPage
<1> QED  BY <1>1, <1>2, <1>3, <1>4 DEF Others

(* A job that went never comes back.                                         *)
LEMMA GoneStay ==
    ASSUME TypeOK, GoneForGood, Commits, Meanwhile, reader.op \in {"detail", "overview", "usage"}
    PROVE  /\ GoneForGood'
           /\ reader.gone \cap Present = {}
           /\ reader.gone \in SUBSET Jobs
<1>1. reader.gone \in SUBSET Jobs
  <2>1. reader # Idle /\ reader \notin WalkReaders  BY DEF Idle, WalkReaders
  <2> QED  BY <2>1, DetailReader, TotalsReader, ReaderKinds
<1>2. \A j \in reader.gone : job'[j].status = "gone"
  BY <1>1 DEF GoneForGood, Commits
<1>3. \A j \in Present \ Present' : job'[j].status = "gone"  BY DEF Commits
<1>4. reader'.gone = reader.gone \cup (Present \ Present')  BY NotedMeanwhile
<1>5. GoneForGood'  BY <1>2, <1>3, <1>4 DEF GoneForGood
<1>6. reader.gone \cap Present = {}  BY DEF GoneForGood, Present, Statuses
<1> QED  BY <1>1, <1>5, <1>6

LEMMA CommitWhileDetail ==
    ASSUME IInv, reader \in DetailReaders, InFlight, Commits, Meanwhile
    PROVE  IInv'
<1>1. /\ reader.op = "detail" /\ reader.of \in Jobs /\ reader.todo # <<>>
      /\ Left \in 1 .. 3
  BY DetailReader DEF InFlight
<1>2. TypeOK /\ TablesOK /\ TablesOK' /\ DetailSoFar /\ GoneForGood
  BY DEF IInv, TypeOK, Commits
<1>3. /\ reader'.op = "detail" /\ reader'.of = reader.of /\ reader'.todo = reader.todo
      /\ reader'.got = reader.got /\ Left' = Left
      /\ reader'.gone = reader.gone \cup (Present \ Present')
      /\ reader' \in DetailReaders
  BY <1>1, <1>2, NotedMeanwhile
<1>4. TypeOK'  BY <1>2, <1>3 DEF TypeOK
<1>5. GoneForGood'  BY <1>1, <1>2, GoneStay
<1>6. DetailSoFar'
  <2> DEFINE j == reader.of
  <2>1. SUFFICES ASSUME j \notin reader.gone \cup (Present \ Present')
        PROVE  /\ j \in Present'
               /\ Left < 3 => /\ reader.got["job"] \in Counters
                              /\ Left = 2 => reader.got["job"].scraped <= Len(results'[j])
                              /\ Left > 0 => reader.got["job"].discovered <= Len(disc'[j]) + removed'
               /\ Left < 2 => /\ reader.got["results"] \in Nat
                              /\ reader.got["job"].scraped <= reader.got["results"]
               /\ Left < 1 => reader.got["discovered"] \in Nat
    BY <1>3 DEF DetailSoFar
  <2>2. j \in Present /\ j \in Present' /\ j \in Jobs
    BY <1>1, <1>2, <2>1 DEF DetailSoFar
  <2>3. /\ Left < 3 => /\ reader.got["job"] \in Counters
                       /\ Left = 2 => reader.got["job"].scraped <= Len(results[j])
                       /\ Left > 0 => reader.got["job"].discovered <= Len(disc[j]) + removed
        /\ Left < 2 => /\ reader.got["results"] \in Nat
                       /\ reader.got["job"].scraped <= reader.got["results"]
        /\ Left < 1 => reader.got["discovered"] \in Nat
    BY <1>1, <1>2, <2>1 DEF DetailSoFar
  <2>4. /\ Len(results[j]) <= Len(results'[j])
        /\ Len(disc[j]) + removed <= Len(disc'[j]) + removed'
    BY <1>2, <2>2 DEF Commits, TablesOK
  <2>5. /\ Len(results[j]) \in Nat /\ Len(results'[j]) \in Nat
        /\ Len(disc[j]) + removed \in Nat /\ Len(disc'[j]) + removed' \in Nat
    <3>1. /\ results[j] \in Seq(Nat) /\ results'[j] \in Seq(Nat)
          /\ disc[j] \in Seq(Nat) /\ disc'[j] \in Seq(Nat) /\ removed \in Nat /\ removed' \in Nat
      BY <1>2, <2>2, ReadsAssumption DEF TablesOK
    <3> QED  BY <3>1
  <2>6. reader.got["job"] \in Counters =>
          reader.got["job"].scraped \in Nat /\ reader.got["job"].discovered \in Nat
    BY DEF Counters
  <2> DEFINE a == Len(results[j])
             b == Len(results'[j])
             c == Len(disc[j]) + removed
             d == Len(disc'[j]) + removed'
  <2>7. a \in Nat /\ b \in Nat /\ c \in Nat /\ d \in Nat /\ a <= b /\ c <= d  BY <2>4, <2>5
  <2>8. /\ Left < 3 /\ Left = 2 => reader.got["job"].scraped <= a
        /\ Left < 3 /\ Left > 0 => reader.got["job"].discovered <= c
    BY <2>3
  <2> HIDE DEF a, b, c, d
  <2>9. /\ Left < 3 /\ Left = 2 => reader.got["job"].scraped <= b
        /\ Left < 3 /\ Left > 0 => reader.got["job"].discovered <= d
    BY <2>3, <2>6, <2>7, <2>8
  <2> QED  BY <2>2, <2>3, <2>9 DEF b, d
<1>7. DetailNotBehind'  BY <1>1, <1>3 DEF DetailNotBehind, Answered
<1>8. Others(reader.op)'  BY <1>3, OthersHold DEF Others, DetailSoFar, DetailNotBehind, Answered,
                                      GoneForGood, TotalsSoFar, TotalsDrift, RecentNotBehind,
                                      WalkSoFar, TotalNearPage
<1> QED  BY <1>1, <1>3, <1>4, <1>5, <1>6, <1>7, <1>8 DEF IInv, Others

LEMMA CommitWhileTotals ==
    ASSUME IInv, reader \in OverviewReaders \cup UsageReaders, InFlight, Commits, Meanwhile
    PROVE  IInv'
<1> DEFINE came == Cardinality(Present' \ Present)
           left == Cardinality(Present \ Present')
<1>1. /\ reader.op \in {"overview", "usage"} /\ reader.todo # <<>> /\ Left \in 1 .. 6
      /\ Taken \in 0 .. 5 /\ reader.created \in Nat
  BY TotalsReader DEF InFlight
<1>2. TypeOK /\ TablesOK /\ TablesOK' /\ TotalsSoFar /\ GoneForGood
  BY DEF IInv, TypeOK, Commits
<1>3. /\ reader'.op = reader.op /\ reader'.todo = reader.todo
      /\ reader'.got = reader.got /\ Left' = Left /\ Taken' = Taken
      /\ reader'.created = reader.created + came
      /\ reader'.gone = reader.gone \cup (Present \ Present')
      /\ reader' \in OverviewReaders \cup UsageReaders
  BY <1>1, <1>2, NotedMeanwhile DEF Taken
<1>4. TypeOK'  BY <1>2, <1>3 DEF TypeOK
<1>5. GoneForGood' /\ reader.gone \cap Present = {} /\ reader.gone \in SUBSET Jobs
  BY <1>1, <1>2, GoneStay
<1>6. /\ came \in Nat /\ left \in Nat /\ Cardinality(Present) \in Nat /\ Cardinality(Present') \in Nat
      /\ Cardinality(reader.gone) \in Nat
      /\ Cardinality(Present') <= Cardinality(Present) + came
      /\ Cardinality(Present) <= Cardinality(Present') + left
      /\ Cardinality(reader'.gone) = Cardinality(reader.gone) + left
  <2>1. Present \subseteq Jobs /\ Present' \subseteq Jobs  BY DEF Present
  <2> DEFINE P == Present
             Q == Present'
  <2>2. P \subseteq Jobs /\ Q \subseteq Jobs  BY <2>1
  <2>3. reader.gone \cap (P \ Q) = {}  BY <1>5
  <2> HIDE DEF P, Q
  <2>4. /\ IsFiniteSet(P) /\ IsFiniteSet(Q) /\ IsFiniteSet(P \ Q) /\ IsFiniteSet(Q \ P)
        /\ IsFiniteSet(P \cup Q) /\ IsFiniteSet(reader.gone)
        /\ Cardinality(P) \in Nat /\ Cardinality(Q) \in Nat
        /\ Cardinality(P \ Q) \in Nat /\ Cardinality(Q \ P) \in Nat
        /\ Cardinality(reader.gone) \in Nat /\ Cardinality(P \cup Q) \in Nat
    <3>1. P \ Q \subseteq Jobs /\ Q \ P \subseteq Jobs /\ P \cup Q \subseteq Jobs  BY <2>2
    <3> QED  BY <1>5, <2>2, <3>1, JobSets
  <2>5. /\ Cardinality(P \cup (Q \ P)) = Cardinality(P) + Cardinality(Q \ P) - Cardinality(P \cap (Q \ P))
        /\ Cardinality(Q \cup (P \ Q)) = Cardinality(Q) + Cardinality(P \ Q) - Cardinality(Q \cap (P \ Q))
        /\ Cardinality(reader.gone \cup (P \ Q))
             = Cardinality(reader.gone) + Cardinality(P \ Q) - Cardinality(reader.gone \cap (P \ Q))
    <3> DEFINE A == P \ Q
               B == Q \ P
    <3>1. IsFiniteSet(A) /\ IsFiniteSet(B)  BY <2>4
    <3> HIDE DEF A, B
    <3>2. Cardinality(P \cup B) = Cardinality(P) + Cardinality(B) - Cardinality(P \cap B)
      BY <2>4, <3>1, FS_Union
    <3>3. Cardinality(Q \cup A) = Cardinality(Q) + Cardinality(A) - Cardinality(Q \cap A)
      BY <2>4, <3>1, FS_Union
    <3>4. Cardinality(reader.gone \cup A)
             = Cardinality(reader.gone) + Cardinality(A) - Cardinality(reader.gone \cap A)
      BY <2>4, <3>1, FS_Union
    <3> QED  BY <3>2, <3>3, <3>4 DEF A, B
  <2>6. P \cap (Q \ P) = {} /\ Q \cap (P \ Q) = {}
        /\ P \cup (Q \ P) = P \cup Q /\ Q \cup (P \ Q) = P \cup Q
    OBVIOUS
  <2>7. Cardinality({}) = 0  BY FS_EmptySet
  <2>8. /\ Cardinality(P \cup Q) = Cardinality(P) + Cardinality(Q \ P)
        /\ Cardinality(P \cup Q) = Cardinality(Q) + Cardinality(P \ Q)
        /\ Cardinality(reader.gone \cup (P \ Q)) = Cardinality(reader.gone) + Cardinality(P \ Q)
    <3>1. /\ Cardinality(P \cap (Q \ P)) = 0 /\ Cardinality(Q \cap (P \ Q)) = 0
          /\ Cardinality(reader.gone \cap (P \ Q)) = 0
      BY <2>3, <2>6, <2>7
    <3>2. Cardinality(P \cup Q) = Cardinality(P) + Cardinality(Q \ P) - 0
      BY <2>5, <2>6, <3>1
    <3>3. Cardinality(P \cup Q) = Cardinality(Q) + Cardinality(P \ Q) - 0
      BY <2>5, <2>6, <3>1
    <3>4. Cardinality(reader.gone \cup (P \ Q)) = Cardinality(reader.gone) + Cardinality(P \ Q) - 0
      BY <2>5, <3>1
    <3> QED  BY <2>4, <3>2, <3>3, <3>4
  <2>9. Cardinality(P) <= Cardinality(P \cup Q) /\ Cardinality(Q) <= Cardinality(P \cup Q)
    <3>1. P \in SUBSET (P \cup Q) /\ Q \in SUBSET (P \cup Q)  OBVIOUS
    <3> QED  BY <2>4, <3>1, FS_Subset
  <2>10. Cardinality(Q) <= Cardinality(P) + Cardinality(Q \ P)
         /\ Cardinality(P) <= Cardinality(Q) + Cardinality(P \ Q)
    BY <2>8, <2>9
  <2> QED  BY <1>3, <2>4, <2>8, <2>10 DEF P, Q
<1>7. TotalsSoFar'
  <2> DEFINE counts == reader.got["counts"]
             total == reader.got["total"]
             sums == reader.got["sums"]
             g == Cardinality(reader.gone)
             p == Cardinality(Present)
             q == Cardinality(Present')
             month == reader.got["month"]
  <2>1. /\ Taken > 0 => counts \in Nat
        /\ Taken > 1 => sums \in Nat
        /\ Taken > 2 => total \in Nat
        /\ Taken > 3 /\ reader.op = "usage" => reader.got["month_start"] \in Nat
        /\ Taken \in {1, 2} => p <= counts + reader.created /\ counts <= p + g
        /\ Taken > 2 => total <= counts + reader.created /\ counts <= total + g
        /\ Taken > 2 => p <= total + reader.created
        /\ Taken > 4 => month \in Nat /\ month <= total + reader.created
        /\ Taken > 1 /\ reader.gone = {} => sums <= UrlsScraped(Present)
    BY <1>1, <1>2 DEF TotalsSoFar
  <2>2. ASSUME reader'.gone = {}
        PROVE  /\ reader.gone = {} /\ UrlsScraped(Present) <= UrlsScraped(Present)'
               /\ UrlsScraped(Present) \in Nat /\ UrlsScraped(Present)' \in Nat
    <3>1. Present \subseteq Present'  BY <1>3, <2>2
    <3>2. \A j \in Present : job[j].scraped <= job'[j].scraped  BY <3>1 DEF Commits
    <3> QED  BY <1>2, <1>3, <2>2, <3>1, <3>2, ScrapedGrows
  <2>4. /\ came \in Nat /\ left \in Nat /\ p \in Nat /\ q \in Nat /\ g \in Nat
        /\ q <= p + came /\ p <= q + left
    BY <1>6
  <2> DEFINE u == UrlsScraped(Present)
             v == UrlsScraped(Present)'
             c == reader.created
  <2>5. /\ reader'.gone = {} => reader.gone = {} /\ u \in Nat /\ v \in Nat /\ u <= v
        /\ Taken > 1 /\ reader.gone = {} => sums <= u
        /\ c \in Nat /\ Taken \in 0 .. 5
    BY <1>1, <2>1, <2>2
  <2>6. /\ Taken \in {1, 2} => counts \in Nat /\ p <= counts + c /\ counts <= p + g
        /\ Taken > 2 => counts \in Nat /\ total \in Nat /\ total <= counts + c /\ counts <= total + g
        /\ Taken > 2 => p <= total + c
        /\ Taken > 4 => month \in Nat /\ month <= total + c
    BY <2>1, <2>5
  <2> HIDE DEF counts, total, sums, month, g, p, q, came, left, u, v, c, Taken
  <2>7. /\ Taken \in {1, 2} => q <= counts + (c + came) /\ counts <= q + (g + left)
        /\ Taken > 2 => total <= counts + (c + came) /\ counts <= total + (g + left)
        /\ Taken > 2 => q <= total + (c + came)
        /\ Taken > 4 => month <= total + (c + came)
    <3>1. CASE Taken \in {1, 2}  BY <2>4, <2>5, <2>6, <3>1
    <3>2. CASE Taken > 2
      <4>1. Taken > 4 => month <= total + (c + came)  BY <2>4, <2>5, <2>6, <3>2
      <4> QED  BY <2>4, <2>5, <2>6, <3>2, <4>1
    <3>3. CASE Taken = 0  BY <3>3
    <3> QED  BY <2>5, <3>1, <3>2, <3>3
  <2>8. Taken > 1 /\ reader'.gone = {} => sums <= v
    <3>1. Taken > 1 => sums \in Nat  BY <2>1 DEF sums
    <3> QED  BY <2>5, <3>1
  <2>9. /\ Taken' = Taken /\ reader'.got["counts"] = counts /\ reader'.got["total"] = total
        /\ reader'.got["sums"] = sums /\ Cardinality(Present)' = q /\ reader'.created = c + came
        /\ reader'.got["month"] = month /\ Cardinality(reader'.gone) = g + left
    BY <1>3, <1>6 DEF counts, total, sums, month, q, g, c
  <2>10. /\ Taken > 0 => counts \in Nat
         /\ Taken > 1 => sums \in Nat
         /\ Taken > 2 => total \in Nat
         /\ Taken > 3 /\ reader'.op = "usage" => reader'.got["month_start"] \in Nat
         /\ Taken > 4 => month \in Nat
    BY <1>3, <2>1 DEF counts, sums, total, month
  <2> QED  BY <2>7, <2>8, <2>9, <2>10 DEF TotalsSoFar, v
<1>8. TotalsDrift' /\ RecentNotBehind'
  BY <1>1, <1>3 DEF TotalsDrift, RecentNotBehind, Answered
<1>9. DetailSoFar' /\ DetailNotBehind' /\ WalkSoFar' /\ TotalNearPage'
  BY <1>1, <1>3 DEF DetailSoFar, DetailNotBehind, Answered, WalkSoFar, TotalNearPage
<1> QED  BY <1>4, <1>5, <1>7, <1>8, <1>9 DEF IInv

LEMMA WalkReader ==
    ASSUME reader \in WalkReaders
    PROVE  /\ reader.op = "walk" /\ reader.filter \in Filters /\ reader.filter \subseteq Statuses
           /\ reader.next \in {"count", "page", "answered", "end"}
           /\ reader.at \in Nat /\ reader.total \in 0 .. Cardinality(Jobs)
           /\ reader.moved \in 0 .. Cardinality(Jobs) /\ reader.size \in Nat
           /\ reader.seen \in SUBSET Jobs /\ reader.steady \in SUBSET Jobs /\ reader.lost \in BOOLEAN
BY ReadsAssumption DEF WalkReaders

(* Sets that differ by D have as many elements, up to those of D.            *)
LEMMA DifferBy ==
    ASSUME NEW A, NEW B, NEW D, IsFiniteSet(A), IsFiniteSet(D), B \subseteq A \cup D
    PROVE  Cardinality(B) <= Cardinality(A) + Cardinality(D)
<1>1. IsFiniteSet(A \cup D)
      /\ Cardinality(A \cup D) = Cardinality(A) + Cardinality(D) - Cardinality(A \cap D)
  BY FS_Union
<1>2. Cardinality(B) <= Cardinality(A \cup D) /\ IsFiniteSet(B)  BY <1>1, FS_Subset
<1>3. IsFiniteSet(A \cap D)  BY FS_Intersection
<1>4. /\ Cardinality(A) \in Nat /\ Cardinality(D) \in Nat /\ Cardinality(A \cap D) \in Nat
      /\ Cardinality(B) \in Nat
  BY <1>2, <1>3, FS_CardinalityType
<1> QED  BY <1>1, <1>2, <1>4

LEMMA CommitWhileWalk ==
    ASSUME IInv, reader \in WalkReaders, InFlight, Commits, Meanwhile
    PROVE  IInv'
<1> DEFINE was == Matching(reader.filter)
           is == {j \in Jobs : job'[j].status \in reader.filter}
           D == (was \ is) \cup (is \ was)
           N == Cardinality(Jobs)
           m == Least(reader.moved + Cardinality(D), N)
<1>1. /\ reader.op = "walk" /\ reader.filter \in Filters /\ reader.filter \subseteq Statuses
      /\ reader.next \in {"count", "page", "answered"}
      /\ reader.at \in Nat /\ reader.total \in 0 .. N /\ reader.moved \in 0 .. N /\ reader.size \in Nat
      /\ reader.seen \in SUBSET Jobs /\ reader.steady \in SUBSET Jobs /\ reader.lost \in BOOLEAN
  BY WalkReader DEF InFlight
<1>2. TypeOK /\ TablesOK /\ TablesOK' /\ WalkSoFar /\ TotalNearPage
  BY DEF IInv, TypeOK, Commits
<1>3. /\ was \subseteq Jobs /\ is \subseteq Jobs /\ D \subseteq Jobs
      /\ was \subseteq Present /\ is \subseteq Present' /\ N \in Nat
  BY <1>1, JobSets DEF Present
<1>4. reader' = [reader EXCEPT !.steady = reader.steady \cap is,
                               !.lost = reader.lost \/ ~(was \subseteq is), !.moved = m]
  BY <1>1 DEF Meanwhile
<1>5. /\ IsFiniteSet(was) /\ IsFiniteSet(is) /\ IsFiniteSet(D)
      /\ Cardinality(was) \in 0 .. N /\ Cardinality(is) \in 0 .. N /\ Cardinality(D) \in Nat
  <2> HIDE DEF was, is, D
  <2> QED  BY <1>3, JobSets
<1>6. /\ Cardinality(is) <= Cardinality(was) + Cardinality(D)
      /\ Cardinality(was) <= Cardinality(is) + Cardinality(D)
  <2>1. is \subseteq was \cup D /\ was \subseteq is \cup D  OBVIOUS
  <2> HIDE DEF was, is, D
  <2> QED  BY <1>5, <2>1, DifferBy
<1>7. m \in 0 .. N /\ reader.moved <= m  BY <1>1, <1>3, <1>5 DEF Least
<1>8. /\ reader' \in WalkReaders
      /\ reader'.op = "walk" /\ reader'.filter = reader.filter /\ reader'.next = reader.next
      /\ reader'.at = reader.at /\ reader'.total = reader.total /\ reader'.moved = m
      /\ reader'.size = reader.size /\ reader'.seen = reader.seen
      /\ reader'.steady = reader.steady \cap is
      /\ reader'.lost = (reader.lost \/ ~(was \subseteq is))
  <2>1. (reader.lost \/ ~(was \subseteq is)) \in BOOLEAN /\ reader.steady \cap is \in SUBSET Jobs
    BY <1>1
  <2> HIDE DEF was, is, m
  <2> QED  BY <1>1, <1>4, <1>7, <2>1 DEF WalkReaders
<1>9. TypeOK'  BY <1>2, <1>8 DEF TypeOK
<1>10. Matching(reader.filter)' = is
  BY <1>1, <1>8 DEF Matching, Present
<1>11. ASSUME NEW k \in was \cap is PROVE job'[k].created = job[k].created
  BY <1>3 DEF Commits
<1>12. ASSUME was \subseteq is, NEW j \in was
       PROVE  Cardinality({k \in was : job[k].created > job[j].created})
                <= Cardinality({k \in is : job'[k].created > job'[j].created})
  <2> DEFINE A == {k \in was : job[k].created > job[j].created}
             B == {k \in is : job'[k].created > job'[j].created}
  <2>1. A \subseteq B  BY <1>11, <1>12
  <2>2. IsFiniteSet(B)
    <3>1. B \subseteq Jobs  BY <1>3
    <3> HIDE DEF B
    <3> QED  BY <3>1, JobSets
  <2> HIDE DEF A, B
  <2>3. Cardinality(A) <= Cardinality(B)  BY <2>1, <2>2, FS_Subset
  <2> QED  BY <2>3 DEF A, B
<1> DEFINE Tied(j) == \E k \in was \ {j} : job[k].created = job[j].created
           Tied2(j) == \E k \in is \ {j} : job'[k].created = job'[j].created
           Before(j) == Cardinality({k \in was : job[k].created > job[j].created})
           Before2(j) == Cardinality({k \in is : job'[k].created > job'[j].created})
<1>13. ASSUME ~reader'.lost, NEW j \in reader'.steady \ reader'.seen
       PROVE  Tied2(j) \/ (reader'.next # "end" /\ reader'.at <= Before2(j))
  <2>1. ~reader.lost /\ was \subseteq is /\ j \in reader.steady \ reader.seen
        /\ j \in was /\ j \in is
    BY <1>2, <1>1, <1>8, <1>13 DEF WalkSoFar
  <2>2. Tied(j) \/ (reader.next # "end" /\ reader.at <= Before(j))
    BY <1>1, <1>2, <2>1 DEF WalkSoFar
  <2>3. CASE Tied(j)
    <3>1. PICK k \in was \ {j} : job[k].created = job[j].created  BY <2>3
    <3>2. k \in is \ {j} /\ job'[k].created = job'[j].created  BY <1>11, <2>1, <3>1
    <3> QED  BY <3>2
  <2>4. CASE reader.next # "end" /\ reader.at <= Before(j)
    <3>1. Before(j) <= Before2(j)  BY <1>12, <2>1
    <3>2. Before(j) \in Nat /\ Before2(j) \in Nat
      <4> DEFINE A == {k \in was : job[k].created > job[j].created}
                 B == {k \in is : job'[k].created > job'[j].created}
      <4>1. A \subseteq Jobs /\ B \subseteq Jobs  BY <1>3
      <4> HIDE DEF A, B
      <4>2. Cardinality(A) \in Nat /\ Cardinality(B) \in Nat  BY <4>1, JobSets
      <4> QED  BY <4>2 DEF A, B
    <3> HIDE DEF Before, Before2
    <3>3. reader.at <= Before2(j)  BY <1>1, <2>4, <3>1, <3>2
    <3> QED  BY <1>8, <2>4, <3>3
  <2> QED  BY <2>2, <2>3, <2>4
<1>14. ASSUME reader.next = "page"
       PROVE  Cardinality(is) \in reader.total - m .. reader.total + m
  <2> DEFINE w == Cardinality(was)
             i == Cardinality(is)
             d == Cardinality(D)
  <2>1. w \in reader.total - reader.moved .. reader.total + reader.moved
    BY <1>1, <1>2, <1>14 DEF WalkSoFar
  <2>2. /\ w \in 0 .. N /\ i \in 0 .. N /\ d \in Nat /\ i <= w + d /\ w <= i + d
        /\ m = Least(reader.moved + d, N)
    BY <1>5, <1>6
  <2> HIDE DEF w, i, d, m, N
  <2>3. CASE m = N
    <3>1. i \in reader.total - N .. reader.total + N  BY <1>1, <1>3, <2>2
    <3> QED  BY <2>3, <3>1 DEF i
  <2>4. CASE m = reader.moved + d
    <3>1. i \in reader.total - (reader.moved + d) .. reader.total + (reader.moved + d)
      BY <1>1, <1>3, <2>1, <2>2
    <3> QED  BY <2>4, <3>1 DEF i
  <2> QED  BY <2>2, <2>3, <2>4 DEF Least
<1>15. WalkSoFar'
  <2>1. reader'.steady \subseteq is  BY <1>8
  <2> QED  BY <1>8, <1>10, <1>13, <1>14, <2>1 DEF WalkSoFar
<1>16. TotalNearPage'
  <2> SUFFICES ASSUME reader.next = "answered"
               PROVE  LET left == reader.total - (reader.at - PageLimit)
                          due == IF left < 0 THEN 0 ELSE Least(left, PageLimit) IN
                      reader.size \in due - m .. due + m
    BY <1>1, <1>8 DEF TotalNearPage
  <2> DEFINE left == reader.total - (reader.at - PageLimit)
             due == IF left < 0 THEN 0 ELSE Least(left, PageLimit)
  <2>1. reader.size \in due - reader.moved .. due + reader.moved
    BY <1>1, <1>2 DEF TotalNearPage
  <2>2. due \in Int
    <3>1. PageLimit \in Nat /\ left \in Int  BY <1>1, <1>3, ReadsAssumption
    <3> HIDE DEF left
    <3> QED  BY <3>1 DEF Least
  <2> HIDE DEF due, m
  <2>3. reader.size \in due - m .. due + m  BY <1>1, <1>3, <1>7, <2>1, <2>2
  <2> QED  BY <2>3 DEF due
<1>17. /\ DetailSoFar' /\ DetailNotBehind' /\ TotalsSoFar' /\ TotalsDrift'
       /\ GoneForGood' /\ RecentNotBehind'
  BY <1>8 DEF DetailSoFar, DetailNotBehind, Answered, TotalsSoFar, TotalsDrift, GoneForGood,
              RecentNotBehind
<1> QED  BY <1>9, <1>15, <1>16, <1>17 DEF IInv

LEMMA CommitKeepsIInv ==
    ASSUME IInv, InFlight, Commit
    PROVE  IInv'
<1>1. TypeOK /\ TablesOK  BY DEF IInv, TypeOK
<1>2. Commits /\ Meanwhile  BY <1>1, EveryCommit
<1>3. CASE reader = Idle /\ reader.op = "idle"
  <2>1. reader' = reader  BY <1>3, <1>2 DEF Meanwhile
  <2>2. TypeOK'  BY <1>2, <1>3, <2>1 DEF TypeOK, Commits
  <2>3. reader'.op = "idle"  BY <1>3, <2>1
  <2> QED
    BY <2>2, <2>3 DEF IInv, DetailSoFar, DetailNotBehind, Answered, TotalsSoFar, TotalsDrift,
                      GoneForGood, RecentNotBehind, WalkSoFar, TotalNearPage
<1> QED
  BY <1>1, <1>2, <1>3, ReaderKinds, CommitWhileDetail, CommitWhileTotals, CommitWhileWalk

(* --- the steps of the reader -------------------------------------------------- *)
LEMMA HistoryAnswers ==
    ASSUME TablesOK, NEW j \in Jobs
    PROVE  /\ Sum(ThroughputHistory(results[j])) = Len(results[j])
           /\ Final(DiscoveryHistory(disc[j])) = Len(disc[j])
           /\ Len(results[j]) \in Nat /\ Len(disc[j]) \in Nat
<1>1. results[j] \in Seq(Nat) /\ disc[j] \in Seq(Nat)  BY DEF TablesOK
<1>2. Len(results[j]) \in Nat /\ Len(disc[j]) \in Nat  BY <1>1
<1> QED  BY <1>1, <1>2, ThroughputHistoryMatches, DiscoveryHistoryMatches

LEMMA DetailStep ==
    ASSUME IInv, reader \in DetailReaders, Statement
    PROVE  IInv'
<1> DEFINE j == reader.of
           next == Head(reader.todo)
<1>1. /\ reader.op = "detail" /\ j \in Jobs /\ reader.todo # <<>>
      /\ reader.todo \in Suffixes(Detail) /\ reader.created \in Nat /\ reader.gone \in SUBSET Jobs
      /\ reader.got \in [job : Counters \cup {Nothing}, results : Nat \cup {Nothing},
                         discovered : Nat \cup {Nothing}]
      /\ Left \in 1 .. 3 /\ next = Detail[4 - Left]
      /\ Tail(reader.todo) \in Suffixes(Detail) /\ Len(Tail(reader.todo)) = Left - 1
  BY DetailReader DEF Statement
<1>2. TypeOK /\ TablesOK /\ DetailSoFar /\ GoneForGood
  BY DEF IInv, TypeOK
<1>3. UNCHANGED <<job, disc, results, now, removed>>  BY DEF Statement
<1>4. TablesOK' /\ Present' = Present
  BY <1>2, <1>3 DEF TablesOK, Present
<1>5. PICK a \in Answers(next, j) :
        reader' = [reader EXCEPT !.todo = Tail(reader.todo), !.got[next] = a]
  BY DEF Statement
<1>6. ASSUME reader' \in DetailReaders, reader'.gone = reader.gone, DetailSoFar', DetailNotBehind'
      PROVE  IInv'
  <2>1. TypeOK'  BY <1>4, <1>6 DEF TypeOK
  <2>2. reader'.op = "detail"  BY <1>6 DEF DetailReaders, Asking
  <2>3. GoneForGood'  BY <1>1, <1>2, <1>3, <1>6, <2>2 DEF GoneForGood
  <2> QED
    BY <1>6, <2>1, <2>2, <2>3 DEF IInv, TotalsSoFar, TotalsDrift, RecentNotBehind, Answered,
                                  WalkSoFar, TotalNearPage
<1> DEFINE todo == Tail(reader.todo)
           got == [reader.got EXCEPT ![next] = a]
<1>7. reader' = [reader EXCEPT !.todo = todo, !.got = got]
  BY <1>1, <1>5 DEF DetailReaders, Asking
<1>8. ASSUME got \in [job : Counters \cup {Nothing}, results : Nat \cup {Nothing},
                      discovered : Nat \cup {Nothing}]
      PROVE  /\ reader' \in DetailReaders
             /\ reader'.op = "detail" /\ reader'.of = j /\ reader'.gone = reader.gone
             /\ reader'.got = got /\ reader'.todo = todo /\ Left' = Left - 1
  <2> HIDE DEF got, todo
  <2>1. todo \in Suffixes(Detail) /\ Len(todo) = Left - 1  BY <1>1 DEF todo
  <2> QED  BY <1>1, <1>7, <1>8, <2>1 DEF DetailReaders, Asking, Left
<1> HIDE DEF next, todo
<1>9. CASE Left = 3
  <2>1. next = "job"  BY <1>1, <1>9, StatementLists
  <2>2. a = [scraped |-> job[j].scraped, discovered |-> job[j].discovered]
    BY <1>5, <2>1 DEF Answers
  <2>3. /\ job[j].scraped \in Nat /\ job[j].discovered \in Nat
        /\ job[j].scraped = Len(results[j])
        /\ job[j].discovered <= Len(disc[j]) + removed
    <3>a. j \in Jobs  BY <1>1
    <3> HIDE DEF j
    <3>b. job[j] \in JobRow /\ disc[j] \in Seq(Nat) /\ job[j].scraped = Len(results[j])
      BY <3>a, <1>2 DEF TablesOK
    <3>c. removed \in Nat  BY <1>2, ReadsAssumption DEF TablesOK
    <3>d. job[j].discovered \in Len(disc[j]) .. Len(disc[j]) + removed
      BY <3>a, <1>2 DEF TablesOK
    <3>1. job[j] \in JobRow /\ disc[j] \in Seq(Nat) /\ removed \in Nat
          /\ job[j].scraped = Len(results[j])
          /\ job[j].discovered \in Len(disc[j]) .. Len(disc[j]) + removed
      BY <3>b, <3>c, <3>d
    <3>2. job[j].scraped \in Nat /\ job[j].discovered \in Nat  BY <3>1 DEF JobRow
    <3>3. Len(disc[j]) \in Nat  BY <3>1
    <3> DEFINE c == Len(disc[j])
               d == job[j].discovered
    <3>4. d \in c .. c + removed /\ c \in Nat /\ removed \in Nat  BY <3>1, <3>3
    <3> HIDE DEF c, d
    <3>5. d <= c + removed  BY <3>4
    <3> QED  BY <3>1, <3>2, <3>5 DEF c, d
  <2>4. a \in Counters /\ a.scraped <= Len(results[j]) /\ a.discovered <= Len(disc[j]) + removed
    BY <2>2, <2>3 DEF Counters
  <2>5. got \in [job : Counters \cup {Nothing}, results : Nat \cup {Nothing},
                 discovered : Nat \cup {Nothing}]
        /\ got["job"] = a
    BY <1>1, <2>1, <2>4
  <2> HIDE DEF got
  <2>6. /\ reader' \in DetailReaders /\ reader'.op = "detail" /\ reader'.of = j
        /\ reader'.gone = reader.gone /\ reader'.got = got /\ reader'.todo = todo /\ Left' = 2
    BY <1>8, <1>9, <2>5
  <2>7. DetailSoFar'
    BY <1>2, <1>1, <1>3, <1>4, <2>4, <2>5, <2>6 DEF DetailSoFar
  <2>8. DetailNotBehind'
    <3>1. todo # <<>>  BY <2>6 DEF Left
    <3> QED  BY <2>6, <3>1 DEF DetailNotBehind, Answered
  <2> QED  BY <1>6, <2>6, <2>7, <2>8
<1>10. CASE Left = 2
  <2>1. next = "results"  BY <1>1, <1>10, StatementLists
  <2>2. a = Len(results[j]) /\ a \in Nat
    BY <1>1, <1>2, <1>5, <2>1, HistoryAnswers DEF Answers
  <2>3. got \in [job : Counters \cup {Nothing}, results : Nat \cup {Nothing},
                 discovered : Nat \cup {Nothing}]
        /\ got["results"] = a /\ got["job"] = reader.got["job"]
    BY <1>1, <2>1, <2>2
  <2> HIDE DEF got
  <2>4. /\ reader' \in DetailReaders /\ reader'.op = "detail" /\ reader'.of = j
        /\ reader'.gone = reader.gone /\ reader'.got = got /\ reader'.todo = todo /\ Left' = 1
    BY <1>8, <1>10, <2>3
  <2>5. DetailSoFar'
    <3>1. SUFFICES ASSUME j \notin reader.gone
          PROVE  /\ j \in Present /\ got["job"] \in Counters
                 /\ got["job"].discovered <= Len(disc[j]) + removed
                 /\ got["results"] \in Nat /\ got["job"].scraped <= got["results"]
      BY <1>3, <1>4, <2>4 DEF DetailSoFar
    <3>2. /\ j \in Present /\ reader.got["job"] \in Counters
          /\ reader.got["job"].scraped <= Len(results[j])
          /\ reader.got["job"].discovered <= Len(disc[j]) + removed
      BY <1>1, <1>2, <1>10, <3>1 DEF DetailSoFar
    <3> QED  BY <2>2, <2>3, <3>2
  <2>6. DetailNotBehind'
    <3>1. Len(reader'.todo) = 1  BY <2>4 DEF Left
    <3>2. reader'.todo # <<>>  BY <3>1, EmptySeq
    <3> QED  BY <3>2 DEF DetailNotBehind, Answered
  <2> QED  BY <1>6, <2>4, <2>5, <2>6
<1>11. CASE Left = 1
  <2>1. next = "discovered"  BY <1>1, <1>11, StatementLists
  <2>2. a = Len(disc[j]) /\ a \in Nat
    BY <1>1, <1>2, <1>5, <2>1, HistoryAnswers DEF Answers
  <2>3. got \in [job : Counters \cup {Nothing}, results : Nat \cup {Nothing},
                 discovered : Nat \cup {Nothing}]
        /\ got["results"] = reader.got["results"] /\ got["job"] = reader.got["job"]
        /\ got["discovered"] = a
    BY <1>1, <2>1, <2>2
  <2> HIDE DEF got
  <2>4. /\ reader' \in DetailReaders /\ reader'.op = "detail" /\ reader'.of = j
        /\ reader'.gone = reader.gone /\ reader'.got = got /\ reader'.todo = todo /\ Left' = 0
    BY <1>8, <1>11, <2>3
  <2>5. DetailSoFar'
    BY <1>2, <1>1, <1>3, <1>4, <1>11, <2>2, <2>3, <2>4 DEF DetailSoFar
  <2>6. DetailNotBehind'
    BY <1>2, <1>1, <1>3, <1>11, <2>2, <2>3, <2>4 DEF DetailNotBehind, DetailSoFar
  <2> QED  BY <1>6, <2>4, <2>5, <2>6
<1> QED  BY <1>1, <1>9, <1>10, <1>11

(* While all the jobs are recent, the list of recent ones is all of them.    *)
LEMMA RecentOnes ==
    ASSUME TablesOK, NEW S \in Pages(Present, 0, RecentLimit)
    PROVE  /\ S \in SUBSET Jobs
           /\ Cardinality(Present) <= RecentLimit => S = Present
<1>1. RecentLimit \in Nat /\ RecentLimit > 0  BY QueriesAssumption
<1>2. Present \in SUBSET Jobs /\ IsFiniteSet(Present) /\ Cardinality(Present) \in Nat
  BY JobSets
<1> DEFINE P == Present
           n == Cardinality(P)
<1>3. PICK s \in NewestFirst(P) : S = ToSet(SubSeq(s, 0 + 1, Least(0 + RecentLimit, Len(s))))
  BY DEF Pages
<1>4. P \in SUBSET Jobs /\ IsFiniteSet(P) /\ n \in Nat  BY <1>2
<1> HIDE DEF P
<1>5. s \in SetToSeqs(P)  BY DEF NewestFirst
<1>6. Len(s) = n  BY <1>4, <1>5, Enumerates
<1>7. S = ToSet(SubSeq(s, 0 + 1, Least(0 + RecentLimit, n)))  BY <1>3, <1>6
<1>8. S \subseteq P /\ Cardinality(S) = IF n < 0 THEN 0 ELSE Least(n - 0, RecentLimit)
  BY <1>1, <1>4, <1>5, <1>7, PageOf
<1>9. ASSUME n <= RecentLimit PROVE S = P
  <2>1. Cardinality(S) = n  BY <1>1, <1>4, <1>8, <1>9 DEF Least
  <2>2. S \in SUBSET P  BY <1>8
  <2> QED  BY <1>4, <2>1, <2>2, FS_Subset
<1> QED  BY <1>4, <1>8, <1>9 DEF P

LEMMA MonthStarts ==
    ASSUME now \in Nat
    PROVE  MonthStart(now) \in Nat
<1>1. Month \in Nat \ {0}  BY QueriesAssumption
<1>2. now \div Month \in Nat  BY <1>1
<1> QED  BY <1>1, <1>2 DEF MonthStart

LEMMA TotalsStep ==
    ASSUME IInv, reader \in OverviewReaders \cup UsageReaders, Statement
    PROVE  IInv'
<1> DEFINE next == Head(reader.todo)
           todo == Tail(reader.todo)
           all == IF reader.op = "overview" THEN Overview ELSE Usage
           names == IF reader.op = "overview" THEN OverviewNames ELSE UsageNames
           p == Cardinality(Present)
           g == Cardinality(reader.gone)
           c == reader.created
           u == UrlsScraped(Present)
           since == reader.got["month_start"]
<1>1. /\ reader.op \in {"overview", "usage"} /\ reader.of = Nothing
      /\ reader.op = "overview" => reader \in OverviewReaders /\ Taken = 4 - Left
      /\ reader.op = "usage" => reader \in UsageReaders /\ Taken = 6 - Left
      /\ c \in Nat /\ reader.gone \in SUBSET Jobs
      /\ reader.got \in [names -> Nat \cup {Nothing}]
      /\ Left \in 1 .. 6 /\ Taken \in 0 .. 5 /\ next = all[Taken + 1]
      /\ reader.op = "overview" => Taken \in 0 .. 3
      /\ todo \in Suffixes(all) /\ Len(todo) = Left - 1
  BY TotalsReader DEF Statement
<1>2. /\ TypeOK /\ TablesOK /\ TotalsSoFar /\ GoneForGood
  BY DEF IInv, TypeOK
<1>3. UNCHANGED <<job, disc, results, now, removed>>  BY DEF Statement
<1>4. /\ TablesOK' /\ Present' = Present /\ UrlsScraped(Present)' = UrlsScraped(Present)
  BY <1>2, <1>3 DEF TablesOK, Present, UrlsScraped
<1>5. p \in Nat /\ g \in Nat /\ u \in Nat /\ JobCounts = p
  BY <1>1, <1>2, JobSets, ScrapedNat, CountsAddUp
<1>6. PICK a \in Answers(next, reader.of) :
        reader' = [reader EXCEPT !.todo = Tail(reader.todo), !.got[next] = a]
  BY DEF Statement
<1> DEFINE got == [reader.got EXCEPT ![next] = a]
<1>7. reader' = [reader EXCEPT !.todo = todo, !.got = got]
  BY <1>1, <1>6 DEF OverviewReaders, UsageReaders, Asking
<1>8. /\ next = CASE Taken = 0 -> "counts" [] Taken = 1 -> "sums" [] Taken = 2 -> "total"
               [] Taken = 3 -> IF reader.op = "overview" THEN "recent" ELSE "month_start"
               [] Taken = 4 -> "month" [] Taken = 5 -> "month_urls"
      /\ next \in names
  <2>1. \/ Taken = 0 \/ Taken = 1 \/ Taken = 2 \/ Taken = 3
        \/ reader.op = "usage" /\ (Taken = 4 \/ Taken = 5)
    BY <1>1
  <2> QED  BY <1>1, <2>1, StatementLists DEF OverviewNames, UsageNames
<1>9. a \in Nat
  <2>1. \A t : CreatedSince(t) \subseteq Jobs  BY JobSets DEF CreatedSince
  <2>2. /\ Cardinality(CreatedSince(since)) \in Nat
        /\ UrlsScraped(CreatedSince(since)) \in Nat
    BY <1>2, <2>1, JobSets, ScrapedNat
  <2>3. CASE next = "recent"
    <3>1. PICK S \in Pages(Present, 0, RecentLimit) : a = UrlsScraped(S)
      BY <1>6, <2>3 DEF Answers
    <3> QED  BY <1>2, <3>1, RecentOnes, ScrapedNat
  <2>4. MonthStart(now) \in Nat  BY <1>2, MonthStarts DEF TablesOK
  <2>5. /\ next = "month_start" => a = MonthStart(now)
        /\ next = "month" => a = Cardinality(CreatedSince(since))
        /\ next = "month_urls" => a = UrlsScraped(CreatedSince(since))
        /\ next = "counts" => a = JobCounts
        /\ next = "sums" => a = u
        /\ next = "total" => a = p
    BY <1>6 DEF Answers
  <2>6. \/ next = "counts" \/ next = "sums" \/ next = "total" \/ next = "recent"
        \/ next = "month_start" \/ next = "month" \/ next = "month_urls"
    BY <1>8 DEF OverviewNames, UsageNames
  <2> HIDE DEF next, p, u, since
  <2> QED  BY <1>5, <2>2, <2>3, <2>4, <2>5, <2>6
<1>10. /\ got \in [names -> Nat \cup {Nothing}]
       /\ got[next] = a
       /\ \A s \in names : s # next => got[s] = reader.got[s]
  BY <1>1, <1>8, <1>9
<1> HIDE DEF todo, got
<1>11. /\ reader'.op = reader.op /\ reader'.created = c /\ reader'.gone = reader.gone
       /\ reader'.got = got /\ reader'.todo = todo /\ Left' = Left - 1 /\ Taken' = Taken + 1
       /\ reader' \in OverviewReaders \cup UsageReaders
  <2>1. CASE reader.op = "overview"
    <3>1. reader' \in OverviewReaders
      BY <1>1, <1>7, <1>10, <2>1 DEF OverviewReaders, Asking, OverviewNames
    <3> QED  BY <1>1, <1>7, <2>1, <3>1 DEF OverviewReaders, Asking, Left, Taken
  <2>2. CASE reader.op = "usage"
    <3>1. reader' \in UsageReaders
      BY <1>1, <1>7, <1>10, <2>2 DEF UsageReaders, Asking, UsageNames
    <3> QED  BY <1>1, <1>7, <2>2, <3>1 DEF UsageReaders, Asking, Left, Taken
  <2> QED  BY <1>1, <2>1, <2>2
<1>12. TypeOK' /\ GoneForGood'
  BY <1>1, <1>2, <1>3, <1>4, <1>11 DEF TypeOK, GoneForGood
<1>13. DetailSoFar' /\ DetailNotBehind' /\ WalkSoFar' /\ TotalNearPage'
  BY <1>1, <1>11 DEF DetailSoFar, DetailNotBehind, Answered, WalkSoFar, TotalNearPage
<1> DEFINE counts == reader.got["counts"]
           total == reader.got["total"]
           sums == reader.got["sums"]
           month == reader.got["month"]
<1>14. /\ Taken > 0 => counts \in Nat
       /\ Taken > 1 => sums \in Nat
       /\ Taken > 2 => total \in Nat
       /\ Taken > 3 /\ reader.op = "usage" => since \in Nat
       /\ Taken \in {1, 2} => p <= counts + c /\ counts <= p + g
       /\ Taken > 2 => total <= counts + c /\ counts <= total + g
       /\ Taken > 2 => p <= total + c
       /\ Taken > 4 => month \in Nat /\ month <= total + c
       /\ Taken > 1 /\ reader.gone = {} => sums <= u
  BY <1>1, <1>2 DEF TotalsSoFar
<1>15. ASSUME /\ Taken' > 0 => got["counts"] \in Nat
              /\ Taken' > 1 => got["sums"] \in Nat
              /\ Taken' > 2 => got["total"] \in Nat
              /\ Taken' > 3 /\ reader.op = "usage" => got["month_start"] \in Nat
              /\ Taken' \in {1, 2} => p <= got["counts"] + c /\ got["counts"] <= p + g
              /\ Taken' > 2 => got["total"] <= got["counts"] + c /\ got["counts"] <= got["total"] + g
              /\ Taken' > 2 => p <= got["total"] + c
              /\ Taken' > 4 => got["month"] \in Nat /\ got["month"] <= got["total"] + c
              /\ Taken' > 1 /\ reader.gone = {} /\ Left' > 0 => got["sums"] <= u
       PROVE  TotalsSoFar'
  BY <1>4, <1>11, <1>15 DEF TotalsSoFar
<1>16. ASSUME Left # 1 PROVE TotalsDrift' /\ RecentNotBehind'
  <2>a. Left' # 0  BY <1>1, <1>11, <1>16
  <2>1. Len(reader'.todo) # 0  BY <2>a DEF Left
  <2>2. reader'.todo # <<>>  BY <2>1, EmptySeq
  <2> QED  BY <2>2 DEF TotalsDrift, RecentNotBehind, Answered
<1>17. CASE Taken = 0
  <2>1. next = "counts" /\ Left # 1  BY <1>1, <1>8, <1>17
  <2>2. a = p  BY <1>5, <1>6, <2>1 DEF Answers
  <2>3. Taken' = 1 /\ got["counts"] = p  BY <1>10, <1>11, <1>17, <2>1, <2>2
  <2> HIDE DEF p, g, c, u
  <2>4. p <= p + c /\ p <= p + g  BY <1>1, <1>5
  <2>5. TotalsSoFar'  BY <1>5, <1>15, <2>3, <2>4
  <2> QED  BY <1>12, <1>13, <1>16, <2>1, <2>5 DEF IInv
<1>18. CASE Taken = 1
  <2>1. next = "sums" /\ Left # 1  BY <1>1, <1>8, <1>18
  <2>2. a = u  BY <1>6, <2>1 DEF Answers
  <2>3. "counts" \in names  BY DEF OverviewNames, UsageNames
  <2>4. Taken' = 2 /\ got["sums"] = u /\ got["counts"] = counts
    BY <1>10, <1>11, <1>18, <2>1, <2>2, <2>3
  <2> HIDE DEF p, g, c, u, counts
  <2>5. u <= u  BY <1>5
  <2>6. TotalsSoFar'  BY <1>5, <1>14, <1>15, <1>18, <2>4, <2>5
  <2> QED  BY <1>12, <1>13, <1>16, <2>1, <2>6 DEF IInv
<1>19. CASE Taken = 2
  <2>1. next = "total" /\ Left # 1  BY <1>1, <1>8, <1>19
  <2>2. a = p  BY <1>6, <2>1 DEF Answers
  <2>3. "counts" \in names /\ "sums" \in names  BY DEF OverviewNames, UsageNames
  <2>4. Taken' = 3 /\ got["total"] = p /\ got["counts"] = counts /\ got["sums"] = sums
    BY <1>10, <1>11, <1>19, <2>1, <2>2, <2>3
  <2> HIDE DEF p, g, c, u, counts, sums
  <2>5. p <= p + c  BY <1>1, <1>5
  <2>6. TotalsSoFar'  BY <1>5, <1>14, <1>15, <1>19, <2>4, <2>5
  <2> QED  BY <1>12, <1>13, <1>16, <2>1, <2>6 DEF IInv
<1>20. CASE reader.op = "overview" /\ Taken = 3
  <2>1. next = "recent"  BY <1>8, <1>20
  <2>2. Left' = 0 /\ Taken' = 4 /\ got["total"] = total /\ got["counts"] = counts
        /\ got["sums"] = sums /\ got["recent"] = a
    BY <1>1, <1>10, <1>11, <1>20, <2>1 DEF OverviewNames
  <2>3. ASSUME reader.gone = {}, p <= RecentLimit PROVE sums <= a
    <3>1. PICK S \in Pages(Present, 0, RecentLimit) : a = UrlsScraped(S)
      BY <1>6, <2>1 DEF Answers
    <3>2. S = Present  BY <1>2, <2>3, <3>1, RecentOnes
    <3> QED  BY <1>14, <1>20, <2>3, <3>1, <3>2
  <2>4. TotalsSoFar'
    <3> HIDE DEF p, g, c, u, counts, sums, total
    <3> QED  BY <1>14, <1>15, <1>20, <2>2
  <2>5. TotalsDrift'
    <3>1. total <= counts + c /\ counts <= total + g  BY <1>14, <1>20
    <3> QED  BY <1>11, <1>20, <2>2, <3>1 DEF TotalsDrift
  <2>6. RecentNotBehind'
    BY <1>4, <1>11, <1>20, <2>2, <2>3 DEF RecentNotBehind, Answered
  <2> QED  BY <1>12, <1>13, <2>4, <2>5, <2>6 DEF IInv
<1>21. CASE reader.op = "usage" /\ Taken = 3
  <2>1. next = "month_start" /\ Left # 1  BY <1>1, <1>8, <1>21
  <2>2. Taken' = 4 /\ got["total"] = total /\ got["counts"] = counts
        /\ got["sums"] = sums /\ got["month_start"] = a
    BY <1>1, <1>10, <1>11, <1>21, <2>1 DEF UsageNames
  <2>3. TotalsSoFar'
    <3> HIDE DEF p, g, c, u, counts, sums, total
    <3> QED  BY <1>9, <1>14, <1>15, <1>21, <2>2
  <2> QED  BY <1>12, <1>13, <1>16, <2>1, <2>3 DEF IInv
<1>22. CASE reader.op = "usage" /\ Taken = 4
  <2>1. next = "month" /\ Left # 1  BY <1>1, <1>8, <1>22
  <2>2. Taken' = 5 /\ got["total"] = total /\ got["counts"] = counts
        /\ got["sums"] = sums /\ got["month_start"] = since /\ got["month"] = a
    BY <1>1, <1>10, <1>11, <1>22, <2>1 DEF UsageNames
  <2>3. a <= total + c
    <3>1. a = Cardinality(CreatedSince(since))  BY <1>6, <2>1 DEF Answers
    <3>2. CreatedSince(since) \in SUBSET Present /\ IsFiniteSet(Present)
      BY JobSets DEF CreatedSince
    <3>3. a <= p  BY <3>1, <3>2, FS_Subset
    <3>4. p <= total + c /\ total \in Nat  BY <1>14, <1>22
    <3> HIDE DEF p, total, c
    <3> QED  BY <1>1, <1>5, <1>9, <3>3, <3>4
  <2>4. TotalsSoFar'
    <3> HIDE DEF p, g, c, u, counts, sums, total, since
    <3> QED  BY <1>9, <1>14, <1>15, <1>22, <2>2, <2>3
  <2> QED  BY <1>12, <1>13, <1>16, <2>1, <2>4 DEF IInv
<1>23. CASE reader.op = "usage" /\ Taken = 5
  <2>1. next = "month_urls"  BY <1>8, <1>23
  <2>2. Left' = 0 /\ Taken' = 6 /\ got["total"] = total /\ got["counts"] = counts
        /\ got["sums"] = sums /\ got["month_start"] = since /\ got["month"] = month
        /\ got["month_urls"] = a
    BY <1>1, <1>10, <1>11, <1>23, <2>1 DEF UsageNames
  <2>3. TotalsSoFar'
    <3> HIDE DEF p, g, c, u, counts, sums, total, since, month
    <3> QED  BY <1>14, <1>15, <1>23, <2>2
  <2>4. TotalsDrift'
    <3>1. total <= counts + c /\ counts <= total + g /\ month <= total + c  BY <1>14, <1>23
    <3> QED  BY <1>11, <1>23, <2>2, <3>1 DEF TotalsDrift
  <2>5. ASSUME reader.gone = {}, Present = CreatedSince(since) PROVE sums <= a
    <3>1. a = UrlsScraped(CreatedSince(since))  BY <1>6, <2>1 DEF Answers
    <3>2. a = u  BY <2>5, <3>1
    <3> QED  BY <1>14, <1>23, <2>5, <3>2
  <2>6. RecentNotBehind'
    <3>1. reader'.op = "usage" /\ reader'.gone = reader.gone /\ reader'.got = got
      BY <1>11, <1>23
    <3>2. CreatedSince(reader.got["month_start"])' = CreatedSince(since)
      <4>1. job' = job /\ reader'.got["month_start"] = since  BY <1>3, <2>2, <3>1
      <4> QED  BY <1>4, <4>1 DEF CreatedSince
    <3> QED  BY <1>4, <2>2, <2>5, <3>1, <3>2 DEF RecentNotBehind, Answered
  <2> QED  BY <1>12, <1>13, <2>3, <2>4, <2>6 DEF IInv
<1>24. \/ Taken = 0 \/ Taken = 1 \/ Taken = 2
       \/ reader.op = "overview" /\ Taken = 3
       \/ reader.op = "usage" /\ (Taken = 3 \/ Taken = 4 \/ Taken = 5)
  BY <1>1
<1> QED  BY <1>17, <1>18, <1>19, <1>20, <1>21, <1>22, <1>23, <1>24

(* --- a reader begins, and ends ------------------------------------------------ *)
LEMMA BeginDetail ==
    ASSUME IInv, NEW j \in Present, Begins("detail", j, Detail)
    PROVE  IInv'
<1>1. TypeOK /\ TablesOK  BY DEF IInv, TypeOK
<1>2. TablesOK' /\ Present' = Present
  BY <1>1 DEF Begins, TablesOK, Present
<1> DEFINE got == [s \in ToSet(Detail) |-> Nothing]
<1>3. reader' = [op |-> "detail", of |-> j, todo |-> Detail, created |-> 0, gone |-> {}, got |-> got]
  BY DEF Begins
<1>4. ToSet(Detail) = {"job", "results", "discovered"}
  <2>1. DOMAIN Detail = 1 .. 3  BY StatementLists, LenProperties
  <2>2. ToSet(Detail) = {Detail[i] : i \in 1 .. 3}  BY <2>1 DEF ToSet
  <2>3. 1 .. 3 = {1, 2, 3}  OBVIOUS
  <2> QED  BY <2>2, <2>3, StatementLists
<1>5. got \in [job : Counters \cup {Nothing}, results : Nat \cup {Nothing},
               discovered : Nat \cup {Nothing}]
  BY <1>4
<1>6. Detail \in Suffixes(Detail)
  <2>1. Detail # <<>>  BY StatementLists, EmptySeq
  <2> QED  BY <2>1, StatementLists, WholeIsSuffix
<1>7. j \in Jobs  BY JobSets
<1> HIDE DEF got
<1>8. reader' \in DetailReaders /\ reader'.op = "detail" /\ reader'.of = j /\ reader'.gone = {}
      /\ reader'.todo = Detail
  BY <1>3, <1>5, <1>6, <1>7 DEF DetailReaders, Asking
<1>9. Left' = 3 /\ reader'.todo # <<>>
  <2>1. Left' = 3  BY <1>8, StatementLists DEF Left
  <2>2. Detail # <<>>  BY StatementLists, EmptySeq
  <2> QED  BY <1>8, <2>1, <2>2
<1>10. TypeOK'  BY <1>2, <1>8 DEF TypeOK
<1>11. DetailSoFar' /\ DetailNotBehind' /\ GoneForGood'
  BY <1>2, <1>8, <1>9 DEF DetailSoFar, DetailNotBehind, Answered, GoneForGood
<1>12. TotalsSoFar' /\ TotalsDrift' /\ RecentNotBehind' /\ WalkSoFar' /\ TotalNearPage'
  BY <1>8 DEF TotalsSoFar, TotalsDrift, RecentNotBehind, Answered, WalkSoFar, TotalNearPage
<1> QED  BY <1>10, <1>11, <1>12 DEF IInv

LEMMA BeginTotals ==
    ASSUME IInv, Begins("overview", Nothing, Overview) \/ Begins("usage", Nothing, Usage)
    PROVE  IInv'
<1>1. TypeOK /\ TablesOK  BY DEF IInv, TypeOK
<1>2. TablesOK' /\ Present' = Present
  BY <1>1 DEF Begins, TablesOK, Present
<1>3. /\ [s \in ToSet(Overview) |-> Nothing] \in [OverviewNames -> Nat \cup {Nothing}]
      /\ [s \in ToSet(Usage) |-> Nothing] \in [UsageNames -> Nat \cup {Nothing}]
      /\ Overview \in Suffixes(Overview) /\ Overview # <<>>
      /\ Usage \in Suffixes(Usage) /\ Usage # <<>>
  <2>1. DOMAIN Overview = 1 .. 4 /\ DOMAIN Usage = 1 .. 6  BY StatementLists, LenProperties
  <2>2. /\ ToSet(Overview) = {Overview[i] : i \in 1 .. 4}
        /\ ToSet(Usage) = {Usage[i] : i \in 1 .. 6}
    BY <2>1 DEF ToSet
  <2>3. 1 .. 4 = {1, 2, 3, 4} /\ 1 .. 6 = {1, 2, 3, 4, 5, 6}  OBVIOUS
  <2>4. ToSet(Overview) = OverviewNames /\ ToSet(Usage) = UsageNames
    BY <2>2, <2>3, StatementLists DEF OverviewNames, UsageNames
  <2>5. Overview # <<>> /\ Usage # <<>>  BY StatementLists, EmptySeq
  <2> QED  BY <2>4, <2>5, StatementLists, WholeIsSuffix
<1>4. ASSUME NEW op \in {"overview", "usage"}, NEW all,
             reader'.op = op, reader'.todo = all, reader'.gone = {},
             reader' \in OverviewReaders \cup UsageReaders, all # <<>>,
             Len(all) = IF op = "usage" THEN 6 ELSE 4
      PROVE  IInv'
  <2>1. TypeOK'  BY <1>2, <1>4 DEF TypeOK
  <2>2. Left' = Len(all) /\ Taken' = 0  BY <1>4 DEF Left, Taken
  <2>3. TotalsSoFar' /\ TotalsDrift' /\ RecentNotBehind' /\ GoneForGood'
    BY <1>4, <2>2 DEF TotalsSoFar, TotalsDrift, RecentNotBehind, Answered, GoneForGood
  <2>4. DetailSoFar' /\ DetailNotBehind' /\ WalkSoFar' /\ TotalNearPage'
    BY <1>4 DEF DetailSoFar, DetailNotBehind, Answered, WalkSoFar, TotalNearPage
  <2> QED  BY <2>1, <2>3, <2>4 DEF IInv
<1>5. CASE Begins("overview", Nothing, Overview)
  <2> DEFINE got == [s \in ToSet(Overview) |-> Nothing]
  <2>1. /\ got \in [OverviewNames -> Nat \cup {Nothing}]
        /\ Overview \in Suffixes(Overview) /\ Overview # <<>>
    BY <1>3, StatementLists
  <2>2. reader' = [op |-> "overview", of |-> Nothing, todo |-> Overview, created |-> 0,
                   gone |-> {}, got |-> got]
    BY <1>5 DEF Begins
  <2> HIDE DEF got
  <2>3. /\ reader' \in OverviewReaders /\ reader'.op = "overview" /\ reader'.todo = Overview
        /\ reader'.gone = {}
    BY <2>1, <2>2 DEF OverviewReaders, Asking, OverviewNames
  <2> QED  BY <1>4, <2>1, <2>3, StatementLists
<1>6. CASE Begins("usage", Nothing, Usage)
  <2> DEFINE got == [s \in ToSet(Usage) |-> Nothing]
  <2>1. /\ got \in [UsageNames -> Nat \cup {Nothing}]
        /\ Usage \in Suffixes(Usage) /\ Usage # <<>>
    BY <1>3, StatementLists
  <2>2. reader' = [op |-> "usage", of |-> Nothing, todo |-> Usage, created |-> 0,
                   gone |-> {}, got |-> got]
    BY <1>6 DEF Begins
  <2> HIDE DEF got
  <2>3. /\ reader' \in UsageReaders /\ reader'.op = "usage" /\ reader'.todo = Usage
        /\ reader'.gone = {}
    BY <2>1, <2>2 DEF UsageReaders, Asking, UsageNames
  <2> QED  BY <1>4, <2>1, <2>3, StatementLists
<1> QED  BY <1>5, <1>6

(* A reader that asks nothing has nothing to promise.                        *)
LEMMA IdleKeepsIInv ==
    ASSUME TablesOK', reader' = Idle
    PROVE  IInv'
<1>1. reader'.op = "idle"  BY DEF Idle
<1>2. TypeOK'  BY DEF TypeOK
<1> QED
  BY <1>1, <1>2 DEF IInv, DetailSoFar, DetailNotBehind, TotalsSoFar, TotalsDrift, GoneForGood,
                    RecentNotBehind, Answered, WalkSoFar, TotalNearPage

(* --- the steps of a client that walks through the pages ----------------------- *)
(* What remains to show of such a step.                                      *)
LEMMA WalkKeepsIInv ==
    ASSUME TablesOK', reader' \in WalkReaders, WalkSoFar', TotalNearPage'
    PROVE  IInv'
<1>1. reader'.op = "walk"  BY DEF WalkReaders
<1>2. TypeOK'  BY DEF TypeOK
<1> QED
  BY <1>1, <1>2 DEF IInv, DetailSoFar, DetailNotBehind, TotalsSoFar, TotalsDrift, GoneForGood,
                    RecentNotBehind, Answered

LEMMA MatchingJobs ==
    ASSUME NEW f
    PROVE  /\ Matching(f) \subseteq Jobs /\ Matching(f) \subseteq Present
           /\ IsFiniteSet(Matching(f)) /\ Cardinality(Matching(f)) \in 0 .. Cardinality(Jobs)
           /\ \A j : Cardinality(Newer(Matching(f), j)) \in Nat
<1>1. Matching(f) \subseteq Jobs /\ Matching(f) \subseteq Present  BY JobSets
<1>2. ASSUME NEW j PROVE Cardinality(Newer(Matching(f), j)) \in Nat
  <2> DEFINE A == Newer(Matching(f), j)
  <2>1. A \subseteq Jobs  BY <1>1 DEF Newer
  <2> HIDE DEF A
  <2>2. Cardinality(A) \in Nat  BY <2>1, JobSets
  <2> QED  BY <2>2 DEF A
<1>3. IsFiniteSet(Matching(f)) /\ Cardinality(Matching(f)) \in 0 .. Cardinality(Jobs)
  BY <1>1, JobSets
<1> QED  BY <1>1, <1>2, <1>3

LEMMA WalkBegins ==
    ASSUME IInv, NEW f \in Filters, Walk(f)
    PROVE  IInv'
<1>1. TablesOK  BY DEF IInv, TypeOK
<1>2. UNCHANGED <<job, disc, results, now, removed>>  BY DEF Walk
<1>3. TablesOK' /\ Matching(f)' = Matching(f)
  BY <1>1, <1>2 DEF TablesOK, Present, Matching
<1> DEFINE M == Matching(f)
<1>4. M \subseteq Jobs /\ \A j : Cardinality(Newer(M, j)) \in Nat /\ Cardinality(Jobs) \in Nat
  BY MatchingJobs, JobSets
<1>5. reader' = [op |-> "walk", filter |-> f, next |-> "count", at |-> 0, total |-> 0,
                 moved |-> 0, size |-> 0, seen |-> {}, steady |-> M, lost |-> FALSE]
  BY DEF Walk
<1> HIDE DEF M
<1>6. reader' \in WalkReaders  BY <1>4, <1>5 DEF WalkReaders
<1>7. /\ reader'.op = "walk" /\ reader'.filter = f /\ reader'.next = "count" /\ reader'.at = 0
      /\ reader'.steady = M
  BY <1>5
<1>8. ASSUME NEW j PROVE 0 <= Cardinality({k \in M : job'[k].created > job'[j].created})
  <2>1. {k \in M : job'[k].created > job'[j].created} = Newer(M, j)  BY <1>2 DEF Newer
  <2>2. Cardinality(Newer(M, j)) \in Nat  BY <1>4
  <2>3. 0 <= Cardinality(Newer(M, j))  BY <2>2
  <2> QED  BY <2>1, <2>3, Zenon
<1>9. WalkSoFar'  BY <1>3, <1>7, <1>8 DEF WalkSoFar, M
<1>10. TotalNearPage'  BY <1>7 DEF TotalNearPage
<1> QED  BY <1>3, <1>6, <1>9, <1>10, WalkKeepsIInv

LEMMA WalkCounts ==
    ASSUME IInv, reader \in WalkReaders, WalkCount
    PROVE  IInv'
<1>1. TablesOK /\ WalkSoFar  BY DEF IInv, TypeOK
<1>2. UNCHANGED <<job, disc, results, now, removed>>  BY DEF WalkCount
<1> DEFINE f == reader.filter
           M == Matching(f)
           n == Cardinality(M)
<1>3. TablesOK'  BY <1>1, <1>2 DEF TablesOK, Present
<1>4. reader' = [reader EXCEPT !.next = "page", !.moved = 0, !.total = n]
  BY DEF WalkCount
<1>5. reader.op = "walk" /\ reader.next # "end"  BY DEF WalkCount
<1>6. n \in 0 .. Cardinality(Jobs) /\ Cardinality(Jobs) \in Nat  BY MatchingJobs, JobSets
<1> HIDE DEF M, n
<1>w. 0 \in 0 .. Cardinality(Jobs)  BY <1>6
<1>7. reader' \in WalkReaders  BY <1>4, <1>6, <1>w DEF WalkReaders
<1>8. /\ reader'.op = "walk" /\ reader'.filter = f /\ reader'.next = "page"
      /\ reader'.at = reader.at /\ reader'.steady = reader.steady /\ reader'.seen = reader.seen
      /\ reader'.lost = reader.lost /\ reader'.total = n /\ reader'.moved = 0
  BY <1>4, <1>5 DEF WalkReaders
<1>9. n \in n - 0 .. n + 0  BY <1>6
<1>10. Matching(reader.filter)' = M  BY <1>2, <1>8 DEF Matching, Present, M
<1>11. WalkSoFar'
  <2>1. reader.steady \subseteq M  BY <1>1, <1>5 DEF WalkSoFar, M
  <2>2. ~reader.lost => \A j \in reader.steady \ reader.seen :
         \/ \E k \in M \ {j} : job[k].created = job[j].created
         \/ reader.at <= Cardinality({k \in M : job[k].created > job[j].created})
    BY <1>1, <1>5 DEF WalkSoFar, M
  <2>3. n = Cardinality(M)  BY DEF n
  <2> QED  BY <1>2, <1>8, <1>9, <1>10, <2>1, <2>2, <2>3 DEF WalkSoFar
<1>12. TotalNearPage'  BY <1>8 DEF TotalNearPage
<1> QED  BY <1>3, <1>7, <1>11, <1>12, WalkKeepsIInv

(* A page from the at-th row on: a job that is not on it though at least at  *)
(* are newer has more newer ones than the page reaches, and the page is full. *)
LEMMA MissedByPage ==
    ASSUME TablesOK, NEW M \in SUBSET Jobs, NEW at \in Nat,
           NEW p \in Pages(M, at, PageLimit), NEW j \in M \ p,
           \A k \in M \ {j} : job[k].created # job[j].created,
           at <= Cardinality(Newer(M, j))
    PROVE  at + PageLimit <= Cardinality(Newer(M, j)) /\ Cardinality(p) = PageLimit
<1> DEFINE n == Cardinality(M)
<1>1. IsFiniteSet(M) /\ n \in Nat /\ PageLimit \in Nat /\ PageLimit > 0
  BY JobSets, ReadsAssumption
<1>2. PICK s \in NewestFirst(M) : p = ToSet(SubSeq(s, at + 1, Least(at + PageLimit, Len(s))))
  BY DEF Pages
<1>3. s \in SetToSeqs(M)  BY DEF NewestFirst
<1>4. Len(s) = n /\ \A x \in M : \E i \in 1 .. n : s[i] = x  BY <1>1, <1>3, Enumerates
<1>a. p = ToSet(SubSeq(s, at + 1, Least(at + PageLimit, Cardinality(M))))
  BY <1>2, <1>4
<1>b. \A i \in at + 1 .. Least(at + PageLimit, Cardinality(M)) : s[i] \in p
  BY <1>1, <1>3, <1>a, PageOf
<1>c. Cardinality(p) = IF n < at THEN 0 ELSE Least(n - at, PageLimit)
  BY <1>1, <1>3, <1>a, PageOf
<1>5. /\ \A i \in at + 1 .. Least(at + PageLimit, n) : s[i] \in p
      /\ Cardinality(p) = IF n < at THEN 0 ELSE Least(n - at, PageLimit)
  BY <1>a, <1>b, <1>c
<1>6. PICK i \in 1 .. n : s[i] = j  BY <1>4
<1>7. Cardinality(Newer(M, j)) = i - 1  BY <1>6, PlaceOf
<1>8. i \notin at + 1 .. Least(at + PageLimit, n)  BY <1>5, <1>6
<1> HIDE DEF n
<1>9. at <= i - 1 /\ i <= n  BY <1>6, <1>7
<1>10. at + PageLimit < i  BY <1>1, <1>6, <1>8, <1>9 DEF Least
<1>11. Cardinality(p) = PageLimit  BY <1>1, <1>5, <1>9, <1>10, <1>6 DEF Least
<1>12. at + PageLimit <= i - 1  BY <1>1, <1>6, <1>10
<1> QED  BY <1>7, <1>11, <1>12

LEMMA PageSize ==
    ASSUME NEW M \in SUBSET Jobs, NEW at \in Nat, NEW p \in Pages(M, at, PageLimit)
    PROVE  /\ p \in SUBSET Jobs /\ Cardinality(p) \in Nat
           /\ Cardinality(p) = IF Cardinality(M) < at THEN 0
                               ELSE Least(Cardinality(M) - at, PageLimit)
<1> DEFINE n == Cardinality(M)
<1>1. IsFiniteSet(M) /\ n \in Nat /\ PageLimit \in Nat
  BY JobSets, ReadsAssumption
<1>2. PICK s \in NewestFirst(M) : p = ToSet(SubSeq(s, at + 1, Least(at + PageLimit, Len(s))))
  BY DEF Pages
<1>3. s \in SetToSeqs(M)  BY DEF NewestFirst
<1>4. Len(s) = n  BY <1>1, <1>3, Enumerates
<1>5. p \subseteq M /\ Cardinality(p) = IF n < at THEN 0 ELSE Least(n - at, PageLimit)
  BY <1>1, <1>2, <1>3, <1>4, PageOf
<1>6. p \subseteq Jobs  BY <1>5
<1>7. Cardinality(p) \in Nat  BY <1>6, JobSets
<1> QED  BY <1>5, <1>6, <1>7

(* How many rows a page has due, when its total is off by as many as moved.  *)
LEMMA NearlyDue ==
    ASSUME NEW n \in Nat, NEW total \in Nat, NEW at \in Nat, NEW limit \in Nat, NEW moved \in Nat,
           n \in total - moved .. total + moved
    PROVE  LET left == total - at
               due == IF left < 0 THEN 0 ELSE Least(left, limit)
               size == IF n < at THEN 0 ELSE Least(n - at, limit) IN
           size \in due - moved .. due + moved
BY DEF Least

LEMMA WalkPages ==
    ASSUME IInv, reader \in WalkReaders, WalkPage
    PROVE  IInv'
<1> DEFINE f == reader.filter
           M == Matching(f)
           at == reader.at
<1>1. TablesOK /\ WalkSoFar  BY DEF IInv, TypeOK
<1>2. UNCHANGED <<job, disc, results, now, removed>>  BY DEF WalkPage
<1>3. TablesOK'  BY <1>1, <1>2 DEF TablesOK, Present
<1>4. reader.op = "walk" /\ reader.next = "page" /\ at \in Nat /\ reader.seen \in SUBSET Jobs
      /\ reader.total \in 0 .. Cardinality(Jobs) /\ reader.moved \in 0 .. Cardinality(Jobs)
      /\ PageLimit \in Nat /\ Cardinality(Jobs) \in Nat
  BY WalkReader, JobSets, ReadsAssumption DEF WalkPage
<1>5. PICK p \in Pages(M, at, PageLimit) :
        reader' = [reader EXCEPT !.seen = reader.seen \cup p, !.at = at + PageLimit,
                                 !.size = Cardinality(p),
                                 !.next = IF Cardinality(p) < PageLimit THEN "end" ELSE "answered"]
  BY DEF WalkPage
<1>6. M \subseteq Jobs /\ Cardinality(M) \in Nat /\ \A j : Cardinality(Newer(M, j)) \in Nat
  BY MatchingJobs, <1>4
<1> DEFINE n == Cardinality(M)
           size == Cardinality(p)
           next == IF size < PageLimit THEN "end" ELSE "answered"
<1>7. /\ p \in SUBSET Jobs /\ size \in Nat
      /\ size = IF n < at THEN 0 ELSE Least(n - at, PageLimit)
  BY <1>4, <1>6, PageSize
<1>8. next \in {"end", "answered"}  OBVIOUS
<1> HIDE DEF M, n, next
<1>9. at + PageLimit \in Nat /\ reader.seen \cup p \in SUBSET Jobs  BY <1>4, <1>7
<1>10. reader' = [reader EXCEPT !.seen = reader.seen \cup p, !.at = at + PageLimit,
                                !.size = size, !.next = next]
  BY <1>5 DEF next
<1> HIDE DEF size
<1>11. reader' \in WalkReaders  BY <1>7, <1>8, <1>9, <1>10 DEF WalkReaders
<1>12. /\ reader'.op = "walk" /\ reader'.filter = f /\ reader'.next = next
       /\ reader'.at = at + PageLimit /\ reader'.steady = reader.steady
       /\ reader'.seen = reader.seen \cup p /\ reader'.lost = reader.lost
       /\ reader'.total = reader.total /\ reader'.moved = reader.moved /\ reader'.size = size
  BY <1>4, <1>10 DEF WalkReaders
<1>13. Matching(reader.filter)' = M  BY <1>2, <1>12 DEF Matching, Present, M
<1>14. /\ reader.steady \subseteq M
       /\ ~reader.lost => \A j \in reader.steady \ reader.seen :
            \/ \E k \in M \ {j} : job[k].created = job[j].created
            \/ at <= Cardinality(Newer(M, j))
       /\ n \in reader.total - reader.moved .. reader.total + reader.moved
  BY <1>1, <1>4 DEF WalkSoFar, M, n, Newer
<1>15. ASSUME ~reader.lost, NEW j \in reader.steady \ (reader.seen \cup p),
              ~ \E k \in M \ {j} : job[k].created = job[j].created
       PROVE  next = "answered" /\ at + PageLimit <= Cardinality(Newer(M, j))
  <2>1. j \in M \ p /\ at <= Cardinality(Newer(M, j))  BY <1>14, <1>15
  <2>2. M \in SUBSET Jobs /\ at \in Nat /\ p \in Pages(M, at, PageLimit)
    BY <1>4, <1>5, <1>6
  <2>3. at + PageLimit <= Cardinality(Newer(M, j)) /\ Cardinality(p) = PageLimit
    <3> HIDE DEF at
    <3> QED  BY <1>1, <1>15, <2>1, <2>2, MissedByPage
  <2>4. ~(size < PageLimit)  BY <1>4, <2>3 DEF size
  <2> QED  BY <2>3, <2>4 DEF next
<1>16. WalkSoFar'
  <2>1. \A j : Newer(M, j) = {k \in M : job'[k].created > job'[j].created}
    BY <1>2 DEF Newer
  <2>2. next # "page"  BY <1>8
  <2>3. ~reader.lost => \A j \in reader.steady \ (reader.seen \cup p) :
          \/ \E k \in M \ {j} : job'[k].created = job'[j].created
          \/ /\ next # "end"
             /\ at + PageLimit <= Cardinality({k \in M : job'[k].created > job'[j].created})
    BY <1>2, <1>15, <2>1
  <2> HIDE DEF at, f
  <2> QED  BY <1>12, <1>13, <1>14, <2>2, <2>3 DEF WalkSoFar, f
<1>17. TotalNearPage'
  <2> DEFINE total == reader.total
             moved == reader.moved
             left == total - at
             due == IF left < 0 THEN 0 ELSE Least(left, PageLimit)
  <2>1. size \in due - moved .. due + moved
    <3>1. n \in Nat /\ total \in Nat /\ moved \in Nat  BY <1>4, <1>6 DEF n
    <3>2. n \in total - moved .. total + moved  BY <1>14
    <3> HIDE DEF total, moved, at
    <3> QED  BY <1>4, <1>7, <3>1, <3>2, NearlyDue
  <2>2. total - (reader'.at - PageLimit) = left
    <3>1. total \in Int  BY <1>4
    <3> QED  BY <1>4, <1>12, <3>1
  <2>3. SUFFICES (IF total - (reader'.at - PageLimit) < 0 THEN 0
                    ELSE Least(total - (reader'.at - PageLimit), PageLimit)) = due
    BY <1>12, <2>1 DEF TotalNearPage
  <2> QED  BY <2>2
<1> QED  BY <1>3, <1>11, <1>16, <1>17, WalkKeepsIInv

(* --- the theorems ------------------------------------------------------------- *)
LEMMA InitHolds == Init => IInv
<1> SUFFICES ASSUME Init PROVE IInv
  OBVIOUS
<1>1. \A j \in Jobs : job[j] = NoRow("none") /\ disc[j] = <<>> /\ results[j] = <<>>
  BY DEF Init
<1>2. NoRow("none") \in JobRow /\ NoRow("none").scraped = 0 /\ NoRow("none").discovered = 0
  BY DEF NoRow, JobRow
<1>3. <<>> \in Seq(Nat) /\ Len(<<>>) = 0  BY EmptySeq
<1>4. job \in [Jobs -> JobRow] /\ disc \in [Jobs -> Seq(Nat)] /\ results \in [Jobs -> Seq(Nat)]
  BY <1>2, <1>3 DEF Init
<1>5. now \in 0 .. MaxNow /\ removed \in 0 .. MaxDeletes /\ removed = 0
  BY ReadsAssumption DEF Init
<1>6. \A j \in Jobs : /\ job[j].scraped = Len(results[j])
                      /\ job[j].discovered \in Len(disc[j]) .. Len(disc[j]) + removed
  <2> SUFFICES ASSUME NEW j \in Jobs
               PROVE  /\ job[j].scraped = Len(results[j])
                      /\ job[j].discovered \in Len(disc[j]) .. Len(disc[j]) + removed
    OBVIOUS
  <2>1. Len(disc[j]) = 0 /\ Len(results[j]) = 0 /\ job[j].scraped = 0 /\ job[j].discovered = 0
    BY <1>1, <1>2, <1>3
  <2> QED  BY <1>5, <2>1
<1>7. TablesOK  BY <1>1, <1>4, <1>5, <1>6 DEF TablesOK
<1>8. reader = Idle  BY DEF Init
<1>9. reader.op = "idle"  BY <1>8 DEF Idle
<1>10. TypeOK  BY <1>7, <1>8 DEF TypeOK
<1> QED
  BY <1>9, <1>10 DEF IInv, DetailSoFar, DetailNotBehind, TotalsSoFar, TotalsDrift, GoneForGood,
                     RecentNotBehind, Answered, WalkSoFar, TotalNearPage

(* What a tick, and what changes nothing, leaves alone.                      *)
LEMMA TablesStay ==
    ASSUME IInv, UNCHANGED <<job, disc, results, removed, reader>>, now' \in 0 .. MaxNow
    PROVE  IInv'
<1>1. TypeOK /\ TablesOK  BY DEF IInv, TypeOK
<1>2. TablesOK' /\ Present' = Present /\ UrlsScraped(Present)' = UrlsScraped(Present)
  BY <1>1 DEF TablesOK, Present, UrlsScraped
<1>3. TypeOK'  BY <1>1, <1>2 DEF TypeOK
<1>4. DetailSoFar' /\ DetailNotBehind' /\ GoneForGood'
  BY <1>2 DEF IInv, DetailSoFar, DetailNotBehind, GoneForGood, Answered, Left
<1>5. TotalsSoFar' /\ TotalsDrift' /\ RecentNotBehind'
  <2>1. reader' = reader /\ Left' = Left /\ Taken' = Taken  BY DEF Left, Taken
  <2>2. TotalsSoFar'  BY <1>2, <2>1 DEF IInv, TotalsSoFar
  <2>3. TotalsDrift'  BY <2>1 DEF IInv, TotalsDrift, Answered
  <2>4. CreatedSince(reader.got["month_start"])' = CreatedSince(reader.got["month_start"])
    BY <1>2 DEF CreatedSince
  <2>5. RecentNotBehind'  BY <1>2, <2>1, <2>4 DEF IInv, RecentNotBehind, Answered
  <2> QED  BY <2>2, <2>3, <2>5
<1>6. Matching(reader.filter)' = Matching(reader.filter)  BY DEF Matching, Present
<1>7. WalkSoFar' /\ TotalNearPage'
  BY <1>6 DEF IInv, WalkSoFar, TotalNearPage
<1> QED  BY <1>3, <1>4, <1>5, <1>7 DEF IInv

LEMMA NextKeepsIInv == IInv /\ [Next]_vars => IInv'
<1> SUFFICES ASSUME IInv, [Next]_vars PROVE IInv'
  OBVIOUS
<1>1. TypeOK /\ TablesOK  BY DEF IInv, TypeOK
<1>2. CASE InFlight /\ Commit  BY <1>2, CommitKeepsIInv
<1>3. CASE Tick
  <2>1. now \in Nat /\ MaxNow \in Nat  BY <1>1, ReadsAssumption DEF TablesOK
  <2>2. now' \in 0 .. MaxNow  BY <1>3, <2>1 DEF Tick
  <2> QED  BY <1>3, <2>2, TablesStay DEF Tick
<1>4. CASE \E j \in Present : Begins("detail", j, Detail)  BY <1>4, BeginDetail
<1>5. CASE Begins("overview", Nothing, Overview) \/ Begins("usage", Nothing, Usage)
  BY <1>5, BeginTotals
<1>6. CASE Statement
  <2>1. reader.op \in {"detail", "overview", "usage"}  BY <1>6 DEF Statement
  <2>2. reader \in DetailReaders \/ reader \in OverviewReaders \cup UsageReaders
    BY <1>1, <2>1, ReaderKinds
  <2> QED  BY <1>6, <2>2, DetailStep, TotalsStep
<1>7. CASE \E f \in Filters : Walk(f)  BY <1>7, WalkBegins
<1>8. CASE WalkCount \/ WalkPage
  <2>1. reader.op = "walk"  BY <1>8 DEF WalkCount, WalkPage
  <2>2. reader \in WalkReaders  BY <1>1, <2>1, ReaderKinds, DetailReader, TotalsReader
  <2> QED  BY <1>8, <2>2, WalkCounts, WalkPages
<1>9. CASE Ends
  <2>1. TablesOK' /\ reader' = Idle  BY <1>1, <1>9 DEF Ends, TablesOK, Present
  <2> QED  BY <2>1, IdleKeepsIInv
<1>10. CASE UNCHANGED vars
  <2>1. now' \in 0 .. MaxNow  BY <1>1, <1>10 DEF vars, TablesOK
  <2> QED  BY <1>10, <2>1, TablesStay DEF vars
<1> QED
  BY <1>2, <1>3, <1>4, <1>5, <1>6, <1>7, <1>8, <1>9, <1>10 DEF Next, Read

(* The inductive invariant of the readers.                                   *)
THEOREM ReadersInvariant == Spec => []IInv
BY InitHolds, NextKeepsIInv, PTL DEF Spec

(* Every value is of its type; the counters of a job are those of its rows.  *)
THEOREM TypeCorrect == Spec => []TypeOK
<1>1. IInv => TypeOK  BY DEF IInv
<1> QED  BY <1>1, ReadersInvariant, PTL

(* The page of a job never says more pages than its histories show, whatever *)
(* the worker commits between its statements.                                *)
THEOREM DetailIsNotBehind == Spec => []DetailNotBehind
<1>1. IInv => DetailNotBehind  BY DEF IInv
<1> QED  BY <1>1, ReadersInvariant, PTL

(* The totals of overview and usage drift by the jobs that came or went, and *)
(* by no more.                                                               *)
THEOREM TotalsDriftLittle == Spec => []TotalsDrift
<1>1. IInv => TotalsDrift  BY DEF IInv
<1> QED  BY <1>1, ReadersInvariant, PTL

(* The recent jobs of the overview show no fewer pages than its sum.         *)
THEOREM RecentIsNotBehind == Spec => []RecentNotBehind
<1>1. IInv => RecentNotBehind  BY DEF IInv
<1> QED  BY <1>1, ReadersInvariant, PTL

(* Paging through a list misses no job that matched all the while, but for a *)
(* tie or a job that ceased to match.                                        *)
THEOREM WalksMissNoSteadyJob == Spec => []WalkSeesSteadyJobs
<1>1. IInv => WalkSeesSteadyJobs
  <2> SUFFICES ASSUME WalkSoFar, reader.op = "walk", reader.next = "end", ~reader.lost,
                      NEW j \in reader.steady \ reader.seen
               PROVE  \E k \in Present \ {j} : job[k].created = job[j].created
    BY DEF IInv, WalkSeesSteadyJobs
  <2>1. PICK k \in Matching(reader.filter) \ {j} : job[k].created = job[j].created
    BY DEF WalkSoFar
  <2> QED  BY <2>1 DEF Matching
<1> QED  BY <1>1, ReadersInvariant, PTL

(* A page has as many rows as its total leaves it, but for the jobs that     *)
(* came to match or ceased to between the count and the page.                *)
THEOREM TotalsAreNearPages == Spec => []TotalNearPage
<1>1. IInv => TotalNearPage  BY DEF IInv
<1> QED  BY <1>1, ReadersInvariant, PTL

(* Both histories of a job account for each of its rows once, at its time.   *)
THEOREM HistoriesAreExact == Spec => []HistoriesMatchRows
<1>1. IInv => HistoriesMatchRows
  <2> SUFFICES ASSUME TablesOK PROVE HistoriesMatchRows
    BY DEF IInv, TypeOK
  <2>1. ASSUME NEW j \in Jobs PROVE disc[j] \in Seq(Nat) /\ results[j] \in Seq(Nat)
    BY DEF TablesOK
  <2> QED  BY <2>1, DiscoveryHistoryMatches, ThroughputHistoryMatches DEF HistoriesMatchRows
<1> QED  BY <1>1, ReadersInvariant, PTL

(* The rows of a job are as many as it counts.                               *)
LEMMA RowsOfJob ==
    ASSUME TablesOK, NEW j \in Jobs
    PROVE  Cardinality({i \in Items : i[1] = j}) = job[j].scraped
<1> DEFINE n == Len(results[j])
           A == {i \in Items : i[1] = j}
<1>1. results[j] \in Seq(Nat) /\ n \in Nat /\ DOMAIN results[j] = 1 .. n
      /\ job[j].scraped = n
  <2>1. results[j] \in Seq(Nat) /\ job[j].scraped = n  BY DEF TablesOK
  <2> QED  BY <2>1, LenProperties
<1>2. j \notin Present => 1 .. n = {}
  <2>1. j \notin Present => n = 0  BY DEF TablesOK
  <2> QED  BY <1>1, <2>1
<1>3. \A i : i \in Items <=> \E k \in Present : i \in {k} \X DOMAIN results[k]  BY DEF Items
<1>4. \A i : i \in A <=> i \in {j} \X (1 .. n)
  <2>1. ASSUME NEW i \in A PROVE i \in {j} \X (1 .. n)  BY <1>1, <1>3, <2>1
  <2>2. ASSUME NEW i \in {j} \X (1 .. n) PROVE i \in A  BY <1>1, <1>2, <1>3, <2>2
  <2> QED  BY <2>1, <2>2
<1>5. A = {j} \X (1 .. n)  BY <1>4
<1> HIDE DEF A, n
<1>6. /\ IsFiniteSet({j}) /\ Cardinality({j}) = 1
      /\ IsFiniteSet(1 .. n) /\ Cardinality(1 .. n) = n
  BY <1>1, CountTo, FS_Singleton
<1> DEFINE S == {j}
           T == 1 .. n
<1>a. /\ IsFiniteSet(S) /\ Cardinality(S) = 1
      /\ IsFiniteSet(T) /\ Cardinality(T) = n
  BY <1>6
<1> HIDE DEF S, T
<1>b. Cardinality(S \X T) = Cardinality(S) * Cardinality(T)  BY <1>a, FS_Product
<1>7. Cardinality({j} \X (1 .. n)) = 1 * n  BY <1>a, <1>b DEF S, T
<1>8. Cardinality(A) = n  BY <1>1, <1>5, <1>7
<1> QED  BY <1>1, <1>8 DEF A

(* An export by filters writes the rows that the list is a page of, and one   *)
(* by the ids of these rows the same ones; for a job they are as many as it   *)
(* counts, whatever was committed, run again or deleted.                      *)
THEOREM ExportIsTheList == Spec => []ExportMatchesList
<1>1. IInv => ExportMatchesList
  <2> SUFFICES
        ASSUME IInv, NEW format \in [Jobs -> Formats],
               NEW f \in [job : Jobs \cup {Nothing, Empty}, format : Formats \cup {Nothing},
                          q : {Nothing, "q"}]
        PROVE  LET listed == ListData(f, format) IN
               /\ Exportable(ByFilter(f)) =>
                    /\ Export(ByFilter(f), format) = listed
                    /\ f.format = Nothing /\ f.q = Nothing =>
                         Cardinality(listed) = job[f.job].scraped
               /\ Exportable(ById(listed)) => Export(ById(listed), format) = listed
    BY DEF ExportMatchesList
  <2> DEFINE listed == ListData(f, format)
             Passes(i) == /\ Given(f.job) => i[1] = f.job
                          /\ Given(f.format) => format[i[1]] = f.format
                          /\ Given(f.q) => i[2] \in Hits
  <2>1. \A i : i \in listed <=> i \in Items /\ Passes(i)
    BY DEF ListData
  <2>2. \A i : i \in Export(ByFilter(f), format) <=> i \in Items /\ Passes(i)
    BY DEF Export, ByFilter
  <2> HIDE DEF listed
  <2>3. Export(ByFilter(f), format) = listed  BY <2>1, <2>2
  <2>4. ASSUME Exportable(ByFilter(f)), f.format = Nothing, f.q = Nothing
        PROVE  Cardinality(listed) = job[f.job].scraped
    <3>1. ~Given(Nothing)  BY DEF Given
    <3>2. Given(f.job) /\ f.job \in Jobs
      BY <2>4, <3>1 DEF Exportable, ByFilter, Given
    <3>3. \A i : i \in listed <=> i \in Items /\ i[1] = f.job
      BY <2>1, <2>4, <3>1, <3>2
    <3>4. listed = {i \in Items : i[1] = f.job}  BY <3>3
    <3> QED  BY <3>2, <3>4, RowsOfJob DEF IInv, TypeOK
  <2>5. ASSUME Exportable(ById(listed)) PROVE Export(ById(listed), format) = listed
    <3>1. ~Given(Nothing)  BY DEF Given
    <3>2. ById(listed).ids = listed /\ listed # {}
      BY <2>5, <3>1 DEF Exportable, ById
    <3>3. \A i : i \in Export(ById(listed), format) <=> i \in Items /\ i \in listed
      BY <3>2 DEF Export
    <3> QED  BY <2>1, <3>3
  <2> QED  BY <2>3, <2>4, <2>5 DEF listed
<1> QED  BY <1>1, ReadersInvariant, PTL
=============================================================================
