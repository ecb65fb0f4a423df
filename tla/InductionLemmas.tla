---------------------------- MODULE InductionLemmas ----------------------------
(***************************************************************************)
(* Induction and recursion without an operator as a parameter.  The strict *)
(* subset order on finite sets is well founded, so a nonempty family of    *)
(* finite sets has a minimal member; the rest follows from that.  What is  *)
(* to be proved by induction is given as a set, and what is defined by     *)
(* recursion as a function from values and indices to values.              *)
(***************************************************************************)
EXTENDS Integers, FiniteSets, Functions, Folds, FiniteSetTheorems, TLAPS

LEMMA MinimalSet ==
    ASSUME NEW S, NEW T, T # {}, \A A \in T : A \subseteq S /\ IsFiniteSet(A)
    PROVE  \E A \in T : \A B \in T : B \subseteq A => B = A
<1> DEFINE R == StrictSubsetOrdering(S)
<1>1. IsWellFoundedOn(R, FiniteSubsetsOf(S))
  BY FS_StrictSubsetOrderingWellFounded
<1>2. T \subseteq FiniteSubsetsOf(S)
  BY DEF FiniteSubsetsOf
<1> HIDE DEF R
<1>3. PICK A \in T : \A B \in T : ~ (<<B, A>> \in R)
  BY <1>1, <1>2, WFMin
<1>4. \A B \in T : B \subseteq A => B = A
  BY <1>2, <1>3 DEF R, StrictSubsetOrdering
<1> QED  BY <1>4

LEMMA MinimalSubset ==
    ASSUME NEW S, IsFiniteSet(S), NEW T, T # {}, T \subseteq SUBSET S
    PROVE  \E A \in T : \A B \in T : B \subseteq A => B = A
<1> DEFINE R == StrictSubsetOrdering(S)
<1>1. IsWellFoundedOn(R, FiniteSubsetsOf(S))
  BY FS_StrictSubsetOrderingWellFounded
<1>2. T \subseteq FiniteSubsetsOf(S)
  BY FS_Subset DEF FiniteSubsetsOf
<1> HIDE DEF R
<1>3. PICK A \in T : \A B \in T : ~ (<<B, A>> \in R)
  BY <1>1, <1>2, WFMin
<1>4. \A B \in T : B \subseteq A => B = A
  BY <1>2, <1>3 DEF R, StrictSubsetOrdering
<1> QED  BY <1>4

(* A nonempty set of naturals has a least member.                           *)
LEMMA LeastMember ==
    ASSUME NEW T \in SUBSET Nat, T # {}
    PROVE  \E m \in T : \A k \in T : m <= k
<1> DEFINE I == {0 .. n - 1 : n \in T}
<1>1. \A A \in I : A \subseteq Nat /\ IsFiniteSet(A)
  <2> TAKE A \in I
  <2>1. PICK n \in T : A = 0 .. n - 1  OBVIOUS
  <2>2. n \in Nat /\ n - 1 \in Int  OBVIOUS
  <2>3. IsFiniteSet(A)  BY <2>1, <2>2, FS_Interval
  <2>4. A \subseteq Nat  BY <2>1, <2>2
  <2> QED  BY <2>3, <2>4
<1>2. I # {}  OBVIOUS
<1> HIDE DEF I
<1>3. PICK A \in I : \A B \in I : B \subseteq A => B = A
  BY <1>1, <1>2, MinimalSet
<1>4. PICK m \in T : A = 0 .. m - 1  BY DEF I
<1>5. ASSUME NEW k \in T, k < m PROVE FALSE
  <2>1. 0 .. k - 1 \in I  BY DEF I
  <2>2. 0 .. k - 1 \subseteq 0 .. m - 1  BY <1>5
  <2>3. k \in 0 .. m - 1 /\ k \notin 0 .. k - 1  BY <1>5
  <2> QED  BY <1>3, <1>4, <2>1, <2>2, <2>3
<1> QED  BY <1>5

(* A nonempty set of naturals with a bound has a greatest.                  *)
LEMMA GreatestMember ==
    ASSUME NEW n \in Nat, NEW T \in SUBSET (0 .. n), T # {}
    PROVE  \E m \in T : \A k \in T : k <= m
<1> DEFINE D == {n - k : k \in T}
<1>1. D \in SUBSET Nat /\ D # {}
  <2>1. \A k \in T : n - k \in Nat  OBVIOUS
  <2> QED  BY <2>1
<1> HIDE DEF D
<1>2. PICK d \in D : \A e \in D : d <= e
  BY <1>1, LeastMember
<1>3. PICK m \in T : d = n - m
  BY DEF D
<1>4. ASSUME NEW k \in T PROVE k <= m
  <2>1. n - k \in D  BY DEF D
  <2>2. n - m <= n - k  BY <1>2, <1>3, <2>1
  <2> QED  BY <2>2
<1> QED  BY <1>4

(* Induction along an interval.                                             *)
LEMMA UpTo ==
    ASSUME NEW a \in Int, NEW b \in Int, NEW T, a \in T,
           \A i \in a .. b - 1 : i \in T => i + 1 \in T
    PROVE  \A i \in a .. b : i \in T
<1> DEFINE M == {n \in Nat : a + n <= b /\ a + n \notin T}
<1>1. SUFFICES ASSUME M # {} PROVE FALSE
  <2>1. ASSUME NEW i \in a .. b, i \notin T PROVE M # {}
    <3>1. i - a \in Nat /\ a + (i - a) = i /\ i <= b  OBVIOUS
    <3>2. i - a \in M  BY <2>1, <3>1
    <3> HIDE DEF M
    <3> QED  BY <3>2
  <2> QED  BY <2>1
<1>2. PICK m \in M : \A k \in M : m <= k
  BY <1>1, LeastMember
<1>3. m \in Nat /\ a + m <= b /\ a + m \notin T  BY <1>2
<1>4. m # 0  BY <1>3
<1>5. m - 1 \in Nat /\ m - 1 \notin M  BY <1>2, <1>3, <1>4
<1>6. a + (m - 1) \in T /\ a + (m - 1) \in a .. b - 1  BY <1>3, <1>4, <1>5
<1>7. (a + (m - 1)) + 1 \in T  BY <1>6
<1> QED  BY <1>3, <1>7

(* Induction over a finite set, one element more at a time.                 *)
LEMMA ElementByElement ==
    ASSUME NEW S, IsFiniteSet(S), NEW F, {} \in F,
           \A A \in SUBSET S : A \in F => \A x \in S \ A : A \cup {x} \in F
    PROVE  S \in F
<1> DEFINE T == {A \in SUBSET S : S \ A \in F}
<1>1. S \in T /\ T # {}  OBVIOUS
<1>2. \A A \in T : A \subseteq S /\ IsFiniteSet(A)  BY FS_Subset
<1> HIDE DEF T
<1>3. PICK A \in T : \A B \in T : B \subseteq A => B = A
  BY <1>1, <1>2, MinimalSet
<1>4. ASSUME NEW x \in A PROVE FALSE
  <2>1. A \subseteq S /\ S \ A \in F  BY DEF T
  <2>2. (S \ A) \cup {x} = S \ (A \ {x})  BY <2>1
  <2>3. (S \ A) \cup {x} \in F  BY <2>1
  <2>4. A \ {x} \in T  BY <2>1, <2>2, <2>3 DEF T
  <2> QED  BY <1>3, <2>4
<1>5. A = {}  BY <1>4
<1> QED  BY <1>5 DEF T

(* g starts with c at a, and each later value is the step from the one      *)
(* before.                                                                  *)
Unfolds(g, c, a, b, step) ==
    \A i \in a .. b : g[i] = IF i = a THEN c ELSE step[g[i - 1], i]

(* There is such a function.                                                *)
LEMMA Recursion ==
    ASSUME NEW V, NEW c \in V, NEW a \in Int, NEW b \in Int, a <= b,
           NEW step \in [V \X (a + 1 .. b) -> V]
    PROVE  \E g \in [a .. b -> V] : Unfolds(g, c, a, b, step)
<1> DEFINE Computes(g, n) == \A i \in a .. n : g[i] = IF i = a THEN c ELSE step[g[i - 1], i]
           T == {n \in a .. b : \E g \in [a .. n -> V] : Computes(g, n)}
<1>1. a \in T
  <2> DEFINE g == [i \in a .. a |-> c]
  <2>1. g \in [a .. a -> V] /\ Computes(g, a)  OBVIOUS
  <2>2. a \in a .. b  OBVIOUS
  <2> HIDE DEF g, Computes
  <2> QED  BY <2>1, <2>2
<1>2. ASSUME NEW n \in a .. b - 1, n \in T PROVE n + 1 \in T
  <2>1. PICK g \in [a .. n -> V] : Computes(g, n)  BY <1>2
  <2> DEFINE h == [i \in a .. n + 1 |-> IF i <= n THEN g[i] ELSE step[g[n], n + 1]]
  <2>2. n \in a .. n /\ n + 1 \in a + 1 .. b  OBVIOUS
  <2>3. step[g[n], n + 1] \in V  BY <2>2
  <2>4. h \in [a .. n + 1 -> V]
    <3>1. ASSUME NEW i \in a .. n + 1, i <= n PROVE g[i] \in V
      <4>1. i \in a .. n  BY <3>1
      <4> QED  BY <2>1, <4>1
    <3> QED  BY <2>3, <3>1
  <2>5. ASSUME NEW i \in a .. n + 1
        PROVE  h[i] = IF i = a THEN c ELSE step[h[i - 1], i]
    <3>1. CASE i <= n
      <4>1. i \in a .. n /\ h[i] = g[i]  BY <3>1
      <4>2. i # a => i - 1 \in a .. n + 1 /\ i - 1 <= n  BY <3>1
      <4>3. i # a => h[i - 1] = g[i - 1]  BY <4>2
      <4> HIDE DEF h
      <4> QED  BY <2>1, <4>1, <4>3
    <3>2. CASE i = n + 1
      <4>1. n \in a .. n + 1 /\ n <= n  OBVIOUS
      <4>2. h[n] = g[n]  BY <4>1
      <4>3. i - 1 = n /\ i # a /\ ~(i <= n)  BY <3>2
      <4>4. h[i] = step[g[n], n + 1]  BY <4>3
      <4> HIDE DEF h
      <4> QED  BY <3>2, <4>2, <4>3, <4>4
    <3>3. i <= n \/ i = n + 1  OBVIOUS
    <3> QED  BY <3>1, <3>2, <3>3
  <2> HIDE DEF h
  <2>6. Computes(h, n + 1)  BY <2>5
  <2>7. n + 1 \in a .. b  OBVIOUS
  <2> HIDE DEF Computes
  <2> QED  BY <2>4, <2>6, <2>7
<1>3. b \in T
  <2> HIDE DEF T
  <2>1. b \in a .. b  OBVIOUS
  <2> QED  BY <1>1, <1>2, <2>1, UpTo
<1>4. PICK g \in [a .. b -> V] : Computes(g, b)  BY <1>3
<1> QED  BY <1>4 DEF Unfolds

(* --- sums ------------------------------------------------------------------ *)
Pick(s) == CHOOSE x \in s : TRUE

(* it is the sum of f over each subset of A, one element after the other.   *)
Sums(it, f, A) ==
    it = [s \in SUBSET A |-> IF s = {} THEN 0 ELSE f[Pick(s)] + it[s \ {Pick(s)}]]

(* The sum of the community modules is defined by recursion over subsets.   *)
LEMMA SumIs ==
    ASSUME NEW f, NEW A
    PROVE  SumFunctionOnSet(f, A) = (CHOOSE it : Sums(it, f, A))[A]
BY DEF SumFunctionOnSet, FoldFunctionOnSet, MapThenFoldSet, Pick, Sums

LEMMA PickedSmaller ==
    ASSUME NEW S, IsFiniteSet(S), NEW s \in SUBSET S, s # {}
    PROVE  /\ Pick(s) \in s /\ s \ {Pick(s)} \in SUBSET S
           /\ Cardinality(s) \in Nat /\ Cardinality(s \ {Pick(s)}) = Cardinality(s) - 1
<1>1. Pick(s) \in s  BY DEF Pick
<1>2. IsFiniteSet(s)  BY FS_Subset
<1> QED  BY <1>1, <1>2, FS_RemoveElement, FS_CardinalityType

LEMMA SumsExist ==
    ASSUME NEW S, IsFiniteSet(S), NEW f, \A x \in S : f[x] \in Int
    PROVE  \E it \in [SUBSET S -> Int] : Sums(it, f, S)
<1> DEFINE n == Cardinality(S)
           V == [SUBSET S -> Int]
           Unfold(it) == [s \in SUBSET S |-> IF s = {} THEN 0 ELSE f[Pick(s)] + it[s \ {Pick(s)}]]
           c == [s \in SUBSET S |-> 0]
           step == [p \in V \X (0 + 1 .. n) |-> Unfold(p[1])]
<1>1. n \in Nat  BY FS_CardinalityType
<1>2. \A it \in V : Unfold(it) \in V
  <2> SUFFICES ASSUME NEW it \in V, NEW s \in SUBSET S, s # {}
               PROVE  f[Pick(s)] + it[s \ {Pick(s)}] \in Int
    OBVIOUS
  <2>1. Pick(s) \in S /\ s \ {Pick(s)} \in SUBSET S  BY PickedSmaller
  <2>2. f[Pick(s)] \in Int  BY <2>1
  <2>3. it[s \ {Pick(s)}] \in Int  BY <2>1
  <2> QED  BY <2>2, <2>3
<1>3. \A it \in V : \A s \in SUBSET S :
        Unfold(it)[s] = IF s = {} THEN 0 ELSE f[Pick(s)] + it[s \ {Pick(s)}]
  OBVIOUS
<1> HIDE DEF Unfold
<1>4. c \in V  OBVIOUS
<1>a. \A s \in SUBSET S : c[s] = 0  OBVIOUS
<1>5. step \in [V \X (0 + 1 .. n) -> V]
  <2> HIDE DEF V
  <2> QED  BY <1>2
<1>6. PICK g \in [0 .. n -> V] : Unfolds(g, c, 0, n, step)
  <2> DEFINE a == 0
  <2>1. a \in Int /\ n \in Int /\ a <= n  BY <1>1
  <2>2. step \in [V \X (a + 1 .. n) -> V]
    <3> HIDE DEF V, step, n
    <3> QED  BY <1>5
  <2>3. \E g \in [a .. n -> V] : Unfolds(g, c, a, n, step)
    <3> HIDE DEF V, c, step, n, a
    <3> QED  BY <1>4, <2>1, <2>2, Recursion
  <2> QED  BY <2>3
<1>7. g[0] = c
  <2>1. 0 \in 0 .. n  BY <1>1
  <2> HIDE DEF c, step, V, n
  <2> QED  BY <1>6, <2>1 DEF Unfolds
<1>8. ASSUME NEW i \in 0 .. n - 1
      PROVE  i \in 0 .. n /\ g[i] \in V /\ g[i + 1] = Unfold(g[i])
  <2> HIDE DEF V, c
  <2>1. i \in 0 .. n /\ i + 1 \in 0 .. n /\ i + 1 # 0 /\ (i + 1) - 1 = i
        /\ i + 1 \in 0 + 1 .. n
    BY <1>1
  <2>2. g[i + 1] = step[g[i], i + 1]
    <3> HIDE DEF step
    <3> QED  BY <1>6, <2>1 DEF Unfolds
  <2>3. <<g[i], i + 1>> \in V \X (0 + 1 .. n)  BY <2>1
  <2> QED  BY <2>1, <2>2, <2>3
<1> HIDE DEF step, c, V, n
<1> DEFINE Right(i) == \A s \in SUBSET S : Cardinality(s) <= i =>
                         g[i][s] = IF s = {} THEN 0 ELSE f[Pick(s)] + g[i][s \ {Pick(s)}]
           T == {i \in 0 .. n : Right(i)}
<1>9. 0 \in T
  <2>1. ASSUME NEW s \in SUBSET S, Cardinality(s) <= 0 PROVE s = {}
    <3>1. IsFiniteSet(s)  BY FS_Subset
    <3>2. Cardinality(s) \in Nat  BY <3>1, FS_CardinalityType
    <3>3. Cardinality(s) = 0  BY <2>1, <3>2
    <3> QED  BY <3>1, <3>3, FS_EmptySet
  <2>2. 0 \in 0 .. n  BY <1>1
  <2> QED  BY <1>7, <1>a, <2>1, <2>2
<1>10. ASSUME NEW i \in 0 .. n - 1, i \in T PROVE i + 1 \in T
  <2>1. i + 1 \in 0 .. n  BY <1>1
  <2>2. ASSUME NEW s \in SUBSET S, Cardinality(s) <= i + 1, s # {}
        PROVE  g[i + 1][s] = f[Pick(s)] + g[i + 1][s \ {Pick(s)}]
    <3> DEFINE t == s \ {Pick(s)}
    <3>1. t \in SUBSET S /\ Cardinality(t) <= i
      <4>1. t \in SUBSET S /\ Cardinality(s) \in Nat /\ Cardinality(t) = Cardinality(s) - 1
        BY <2>2, PickedSmaller
      <4>2. i \in Int  OBVIOUS
      <4> HIDE DEF t
      <4> QED  BY <2>2, <4>1, <4>2
    <3>2. g[i + 1][s] = f[Pick(s)] + g[i][t]  BY <1>3, <1>8, <2>2
    <3> HIDE DEF t
    <3>3. g[i + 1][t] = IF t = {} THEN 0 ELSE f[Pick(t)] + g[i][t \ {Pick(t)}]
      BY <1>3, <1>8, <3>1
    <3>4. g[i][t] = IF t = {} THEN 0 ELSE f[Pick(t)] + g[i][t \ {Pick(t)}]
      BY <1>10, <3>1
    <3> QED  BY <3>2, <3>3, <3>4 DEF t
  <2>3. g[i + 1][{}] = 0
    <3>1. {} \in SUBSET S  OBVIOUS
    <3> QED  BY <1>3, <1>8, <3>1
  <2> QED  BY <2>1, <2>2, <2>3
<1>11. n \in T
  <2> HIDE DEF T
  <2>1. 0 \in Int /\ n \in Int /\ n \in 0 .. n  BY <1>1
  <2> DEFINE a == 0
  <2>2. a \in T /\ a \in Int /\ n \in a .. n /\ \A i \in a .. n - 1 : i \in T => i + 1 \in T
    BY <1>9, <1>10, <2>1
  <2> HIDE DEF a
  <2> QED  BY <2>1, <2>2, UpTo
<1>12. \A s \in SUBSET S : Cardinality(s) <= n  BY FS_Subset DEF n
<1>13. \A s \in SUBSET S : g[n][s] = IF s = {} THEN 0 ELSE f[Pick(s)] + g[n][s \ {Pick(s)}]
  BY <1>11, <1>12
<1>14. g[n] \in V  BY <1>1
<1> QED  BY <1>13, <1>14 DEF V, Sums

LEMMA SumsAgree ==
    ASSUME NEW S, IsFiniteSet(S), NEW A \in SUBSET S, NEW f, NEW it, NEW ia,
           Sums(it, f, S), Sums(ia, f, A)
    PROVE  ia[A] = it[A]
<1> DEFINE T == {B \in SUBSET A : ia[B] # it[B]}
<1>1. SUFFICES ASSUME T # {} PROVE FALSE
  <2>1. A \in SUBSET A  OBVIOUS
  <2> QED  BY <2>1
<1>2. T \subseteq SUBSET S  OBVIOUS
<1>3. PICK B \in T : \A C \in T : C \subseteq B => C = B
  <2> HIDE DEF T
  <2> QED  BY <1>1, <1>2, MinimalSubset
<1>4. B \in SUBSET A /\ B \in SUBSET S  OBVIOUS
<1>5. /\ ia[B] = IF B = {} THEN 0 ELSE f[Pick(B)] + ia[B \ {Pick(B)}]
      /\ it[B] = IF B = {} THEN 0 ELSE f[Pick(B)] + it[B \ {Pick(B)}]
  BY <1>4 DEF Sums
<1>6. B # {}  BY <1>5
<1>7. B \ {Pick(B)} \in SUBSET A /\ Pick(B) \in B  BY <1>4, <1>6, PickedSmaller
<1>8. ia[B \ {Pick(B)}] = it[B \ {Pick(B)}]  BY <1>3, <1>7
<1> QED  BY <1>5, <1>8

Total(f, A) == SumFunctionOnSet(f, A)

LEMMA TotalUnfolds ==
    ASSUME NEW S, IsFiniteSet(S), NEW f, \A x \in S : f[x] \in Int
    PROVE  /\ Total(f, S) \in Int
           /\ S = {} => Total(f, S) = 0
           /\ S # {} => Total(f, S) = f[Pick(S)] + Total(f, S \ {Pick(S)})
<1> DEFINE t == CHOOSE it : Sums(it, f, S)
           R == S \ {Pick(S)}
           r == CHOOSE it : Sums(it, f, R)
<1>1. PICK it \in [SUBSET S -> Int] : Sums(it, f, S)  BY SumsExist
<1>2. Sums(t, f, S)  BY <1>1
<1>3. Total(f, S) = t[S]  BY SumIs DEF Total
<1>4. R \in SUBSET S /\ IsFiniteSet(R) /\ \A x \in R : f[x] \in Int  BY FS_Subset
<1>5. \E ir \in [SUBSET R -> Int] : Sums(ir, f, R)
  <2> HIDE DEF R
  <2> QED  BY <1>4, SumsExist
<1>6. Sums(r, f, R)  BY <1>5
<1>7. Total(f, R) = r[R]  BY SumIs DEF Total
<1> HIDE DEF t, r
<1>8. t[S] = it[S]  BY <1>1, <1>2, SumsAgree
<1>9. r[R] = t[R]
  <2> HIDE DEF R
  <2> QED  BY <1>2, <1>4, <1>6, SumsAgree
<1>10. S \in SUBSET S  OBVIOUS
<1>11. t[S] = IF S = {} THEN 0 ELSE f[Pick(S)] + t[S \ {Pick(S)}]  BY <1>2, <1>10 DEF Sums
<1>12. it[S] \in Int  BY <1>1, <1>10
<1> QED  BY <1>3, <1>7, <1>8, <1>9, <1>11, <1>12

(* The order in which the elements are taken makes no difference.           *)
LEMMA TotalTakes ==
    ASSUME NEW S, IsFiniteSet(S), NEW f, \A x \in S : f[x] \in Int, NEW y \in S
    PROVE  Total(f, S) = f[y] + Total(f, S \ {y})
<1> DEFINE T == {B \in SUBSET S : \E z \in B : Total(f, B) # f[z] + Total(f, B \ {z})}
<1>1. SUFFICES ASSUME T # {} PROVE FALSE
  <2>1. S \in SUBSET S  OBVIOUS
  <2> QED  BY <2>1
<1>2. T \subseteq SUBSET S  OBVIOUS
<1>3. PICK B \in T : \A C \in T : C \subseteq B => C = B
  <2> HIDE DEF T
  <2> QED  BY <1>1, <1>2, MinimalSubset
<1>4. PICK z \in B : Total(f, B) # f[z] + Total(f, B \ {z})  OBVIOUS
<1> DEFINE p == Pick(B)
<1>5. B \in SUBSET S /\ B # {} /\ IsFiniteSet(B)  BY <1>4, FS_Subset
<1>6. p \in B  BY <1>5, PickedSmaller
<1>7. /\ IsFiniteSet(B \ {p}) /\ IsFiniteSet(B \ {z}) /\ IsFiniteSet((B \ {p}) \ {z})
      /\ f[p] \in Int /\ f[z] \in Int
  BY <1>5, <1>6, FS_Subset
<1>8. Total(f, B) = f[p] + Total(f, B \ {p})  BY <1>5, TotalUnfolds
<1>9. p # z  BY <1>4, <1>8
<1> HIDE DEF p
<1>10. B \ {p} \notin T /\ B \ {z} \notin T
  <2> HIDE DEF T
  <2> QED  BY <1>3, <1>4, <1>6
<1>11. Total(f, B \ {p}) = f[z] + Total(f, (B \ {p}) \ {z})
  BY <1>5, <1>9, <1>10
<1>12. Total(f, B \ {z}) = f[p] + Total(f, (B \ {z}) \ {p})
  BY <1>5, <1>6, <1>9, <1>10
<1>13. (B \ {z}) \ {p} = (B \ {p}) \ {z}  OBVIOUS
<1>14. Total(f, (B \ {p}) \ {z}) \in Int  BY <1>5, <1>7, TotalUnfolds
<1> DEFINE X == Total(f, (B \ {p}) \ {z})
<1>15. Total(f, B) = f[p] + (f[z] + X)  BY <1>8, <1>11
<1>16. f[z] + Total(f, B \ {z}) = f[z] + (f[p] + X)  BY <1>12, <1>13
<1> HIDE DEF X
<1>17. f[p] + (f[z] + X) = f[z] + (f[p] + X)  BY <1>7, <1>14 DEF X
<1> QED  BY <1>4, <1>15, <1>16, <1>17

LEMMA TotalOfAdded ==
    ASSUME NEW S, IsFiniteSet(S), NEW f, NEW y, y \notin S, \A x \in S \cup {y} : f[x] \in Int
    PROVE  Total(f, S \cup {y}) = f[y] + Total(f, S)
<1>1. IsFiniteSet(S \cup {y}) /\ y \in S \cup {y} /\ (S \cup {y}) \ {y} = S
  BY FS_AddElement
<1>2. Total(f, S \cup {y}) = f[y] + Total(f, (S \cup {y}) \ {y})  BY <1>1, TotalTakes
<1> QED  BY <1>1, <1>2

LEMMA TotalLeq ==
    ASSUME NEW S, IsFiniteSet(S), NEW f, NEW g,
           \A x \in S : f[x] \in Int /\ g[x] \in Int /\ f[x] <= g[x]
    PROVE  Total(f, S) <= Total(g, S)
<1> DEFINE F == {A \in SUBSET S : Total(f, A) <= Total(g, A)}
<1>1. {} \in F
  <2>1. Total(f, {}) = 0 /\ Total(g, {}) = 0
    <3>1. IsFiniteSet({})  BY FS_EmptySet
    <3>2. \A x \in {} : f[x] \in Int /\ g[x] \in Int  OBVIOUS
    <3> QED  BY <3>1, <3>2, TotalUnfolds
  <2> QED  BY <2>1
<1>2. ASSUME NEW A \in SUBSET S, A \in F, NEW x \in S \ A PROVE A \cup {x} \in F
  <2>1. IsFiniteSet(A) /\ \A y \in A \cup {x} : f[y] \in Int /\ g[y] \in Int  BY FS_Subset
  <2>2. Total(f, A \cup {x}) = f[x] + Total(f, A) /\ Total(g, A \cup {x}) = g[x] + Total(g, A)
    BY <2>1, TotalOfAdded
  <2>3. Total(f, A) \in Int /\ Total(g, A) \in Int  BY <2>1, TotalUnfolds
  <2>4. f[x] \in Int /\ g[x] \in Int /\ f[x] <= g[x] /\ Total(f, A) <= Total(g, A)
    BY <1>2
  <2>5. Total(f, A \cup {x}) <= Total(g, A \cup {x})  BY <2>2, <2>3, <2>4
  <2> QED  BY <2>5
<1>3. S \in F
  <2> HIDE DEF F
  <2> QED  BY <1>1, <1>2, ElementByElement
<1> QED  BY <1>3

LEMMA TotalSame ==
    ASSUME NEW S, IsFiniteSet(S), NEW f, NEW g,
           \A x \in S : f[x] \in Int /\ f[x] = g[x]
    PROVE  Total(f, S) = Total(g, S)
<1>1. Total(f, S) <= Total(g, S) /\ Total(g, S) <= Total(f, S)
  <2>1. \A x \in S : f[x] \in Int /\ g[x] \in Int /\ f[x] <= g[x] /\ g[x] <= f[x]  OBVIOUS
  <2> QED  BY <2>1, TotalLeq
<1>2. Total(f, S) \in Int /\ Total(g, S) \in Int  BY TotalUnfolds
<1> QED  BY <1>1, <1>2

LEMMA TotalNat ==
    ASSUME NEW S, IsFiniteSet(S), NEW f, \A x \in S : f[x] \in Nat
    PROVE  Total(f, S) \in Nat
<1> DEFINE F == {A \in SUBSET S : Total(f, A) \in Nat}
<1>1. {} \in F
  <2>1. IsFiniteSet({})  BY FS_EmptySet
  <2>2. \A x \in {} : f[x] \in Int  OBVIOUS
  <2>3. Total(f, {}) = 0  BY <2>1, <2>2, TotalUnfolds
  <2> QED  BY <2>3
<1>2. ASSUME NEW A \in SUBSET S, A \in F, NEW x \in S \ A PROVE A \cup {x} \in F
  <2>1. IsFiniteSet(A) /\ \A y \in A \cup {x} : f[y] \in Int  BY FS_Subset
  <2>2. Total(f, A \cup {x}) = f[x] + Total(f, A)  BY <2>1, TotalOfAdded
  <2>3. f[x] \in Nat /\ Total(f, A) \in Nat  BY <1>2
  <2>4. Total(f, A \cup {x}) \in Nat  BY <2>2, <2>3
  <2> QED  BY <2>4
<1>3. S \in F
  <2> HIDE DEF F
  <2> QED  BY <1>1, <1>2, ElementByElement
<1> QED  BY <1>3

(* The elements of S whose class is t, and those whose class is in T.        *)
OfClass(S, class, t) == {x \in S : class[x] = t}
OfClasses(S, class, T) == {x \in S : class[x] \in T}

(* The classes in T add up.                                                  *)
LEMMA ClassesAddUp ==
    ASSUME NEW S, IsFiniteSet(S), NEW T, IsFiniteSet(T), NEW class, NEW f,
           \A t \in T : f[t] = Cardinality(OfClass(S, class, t))
    PROVE  Total(f, T) = Cardinality(OfClasses(S, class, T))
<1> DEFINE Within(A) == OfClasses(S, class, A)
           Class(t) == OfClass(S, class, t)
           F == {A \in SUBSET T : Total(f, A) = Cardinality(Within(A))}
<1>0. \A t \in T : f[t] = Cardinality(Class(t))  OBVIOUS
<1>f. \A A : IsFiniteSet(Within(A)) /\ Cardinality(Within(A)) \in Nat
  <2> TAKE A
  <2>1. Within(A) \subseteq S  BY DEF OfClasses
  <2> HIDE DEF Within
  <2> QED  BY <2>1, FS_Subset, FS_CardinalityType
<1>g. \A t : IsFiniteSet(Class(t)) /\ Cardinality(Class(t)) \in Nat
  <2> TAKE t
  <2>1. Class(t) \subseteq S  BY DEF OfClass
  <2> HIDE DEF Class
  <2> QED  BY <2>1, FS_Subset, FS_CardinalityType
<1>1. {} \in F
  <2>1. Within({}) = {}  BY DEF OfClasses
  <2>2. IsFiniteSet({}) /\ Cardinality({}) = 0  BY FS_EmptySet
  <2>3. \A x \in {} : f[x] \in Int  OBVIOUS
  <2>4. Total(f, {}) = 0  BY <2>2, <2>3, TotalUnfolds
  <2> HIDE DEF Within
  <2> QED  BY <2>1, <2>2, <2>4
<1>2. ASSUME NEW A \in SUBSET T, A \in F, NEW t \in T \ A PROVE A \cup {t} \in F
  <2>1. Within(A \cup {t}) = Within(A) \cup Class(t) /\ Within(A) \cap Class(t) = {}
    BY DEF OfClass, OfClasses
  <2>2. Total(f, A) = Cardinality(Within(A))  BY <1>2
  <2> HIDE DEF Within, Class
  <2>3. IsFiniteSet(A) /\ \A s \in A \cup {t} : f[s] \in Int  BY <1>0, <1>g, FS_Subset
  <2>4. Total(f, A \cup {t}) = f[t] + Total(f, A)  BY <2>3, TotalOfAdded
  <2>5. Cardinality(Within(A) \cup Class(t))
          = Cardinality(Within(A)) + Cardinality(Class(t)) - Cardinality(Within(A) \cap Class(t))
    BY <1>f, <1>g, FS_Union
  <2>6. Cardinality(Within(A) \cap Class(t)) = 0  BY <2>1, FS_EmptySet
  <2>7. f[t] = Cardinality(Class(t)) /\ Cardinality(Class(t)) \in Nat /\ Cardinality(Within(A)) \in Nat
    BY <1>0, <1>f, <1>g
  <2>8. Total(f, A \cup {t}) = Cardinality(Within(A \cup {t}))
    <3>1. f[t] + Cardinality(Within(A)) = Cardinality(Within(A)) + Cardinality(Class(t)) - 0
      BY <2>7
    <3> QED  BY <2>1, <2>2, <2>4, <2>5, <2>6, <3>1
  <2> QED  BY <2>8
<1>3. T \in F
  <2> HIDE DEF F
  <2> QED  BY <1>1, <1>2, ElementByElement
<1> QED  BY <1>3

(* More elements, and more of each, make no smaller sum.                     *)
LEMMA TotalGrows ==
    ASSUME NEW B, IsFiniteSet(B), NEW A \in SUBSET B, NEW f, NEW g,
           \A x \in B : g[x] \in Nat, \A x \in A : f[x] \in Int /\ f[x] <= g[x]
    PROVE  Total(f, A) <= Total(g, B)
<1> DEFINE F == {C \in SUBSET (B \ A) : Total(g, A) <= Total(g, A \cup C)}
<1>1. \A C \in SUBSET (B \ A) : IsFiniteSet(A \cup C) /\ \A x \in A \cup C : g[x] \in Int
  <2> TAKE C \in SUBSET (B \ A)
  <2>1. A \cup C \in SUBSET B  OBVIOUS
  <2> QED  BY <2>1, FS_Subset
<1>2. \A C \in SUBSET (B \ A) : Total(g, A \cup C) \in Int
  BY <1>1, TotalUnfolds
<1>3. Total(g, A) \in Int
  <2>1. IsFiniteSet(A) /\ \A x \in A : g[x] \in Int  BY FS_Subset
  <2> QED  BY <2>1, TotalUnfolds
<1>4. {} \in F
  <2>1. A \cup {} = A  OBVIOUS
  <2> QED  BY <1>3, <2>1
<1>5. ASSUME NEW C \in SUBSET (B \ A), C \in F, NEW x \in (B \ A) \ C PROVE C \cup {x} \in F
  <2>1. x \notin A \cup C /\ A \cup (C \cup {x}) = (A \cup C) \cup {x} /\ C \cup {x} \in SUBSET (B \ A)
    OBVIOUS
  <2>2. Total(g, (A \cup C) \cup {x}) = g[x] + Total(g, A \cup C)
    <3>1. IsFiniteSet(A \cup C) /\ \A y \in (A \cup C) \cup {x} : g[y] \in Int  BY <1>1
    <3> QED  BY <2>1, <3>1, TotalOfAdded
  <2>3. g[x] \in Nat /\ Total(g, A \cup C) \in Int /\ Total(g, A) <= Total(g, A \cup C)
    BY <1>2, <1>5
  <2>4. Total(g, A) <= Total(g, (A \cup C) \cup {x})  BY <1>3, <2>2, <2>3
  <2> QED  BY <2>1, <2>4
<1>6. B \ A \in F
  <2> HIDE DEF F
  <2>1. IsFiniteSet(B \ A)  BY FS_Subset
  <2> QED  BY <1>4, <1>5, <2>1, ElementByElement
<1>7. Total(g, A) <= Total(g, B)
  <2>1. A \cup (B \ A) = B  OBVIOUS
  <2> QED  BY <1>6, <2>1
<1>8. Total(f, A) <= Total(g, A)
  <2>1. IsFiniteSet(A) /\ \A x \in A : f[x] \in Int /\ g[x] \in Int /\ f[x] <= g[x]  BY FS_Subset
  <2> QED  BY <2>1, TotalLeq
<1>9. Total(f, A) \in Int /\ Total(g, B) \in Int
  <2>1. IsFiniteSet(A) /\ \A x \in A : f[x] \in Int  BY FS_Subset
  <2>2. \A x \in B : g[x] \in Int  OBVIOUS
  <2> QED  BY <2>1, <2>2, TotalUnfolds
<1> QED  BY <1>3, <1>7, <1>8, <1>9
=============================================================================
