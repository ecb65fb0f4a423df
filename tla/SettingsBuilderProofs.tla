------------------------ MODULE SettingsBuilderProofs ------------------------
(***************************************************************************)
(* Theorems about SettingsBuilder, for every payload that its schema       *)
(* admits and every interleaving of the requests of SettingsStore.         *)
(***************************************************************************)
EXTENDS SettingsBuilder, SettingsStoreProofs, InductionLemmas, SequenceTheorems

(* --- slashes --------------------------------------------------------------- *)
Characters == STRING \cup {"/"}

(* Strip is what is left between the first and the last character that is   *)
(* no slash, and there are both unless all of them are slashes.             *)
LEMMA StripsTo ==
    ASSUME NEW k \in Seq(Characters), NEW f \in 1 .. Len(k), NEW t \in 1 .. Len(k),
           k[f] # "/", k[t] # "/",
           \A i \in 1 .. Len(k) : k[i] # "/" => f <= i /\ i <= t
    PROVE  Strip(k) = SubSeq(k, f, t)
<1> DEFINE In == {i \in 1 .. Len(k) : k[i] # "/"}
           From == CHOOSE i \in In : \A j \in In : i <= j
           To == CHOOSE i \in In : \A j \in In : i >= j
<1>1. In \subseteq Int /\ f \in In /\ t \in In  OBVIOUS
<1>2. \A i \in In : f <= i /\ t >= i
  OBVIOUS
<1>3. Strip(k) = IF In = {} THEN <<>> ELSE SubSeq(k, From, To)
  BY DEF Strip
<1> HIDE DEF In
<1>4. From \in In /\ \A j \in In : From <= j
  BY <1>1, <1>2
<1>5. To \in In /\ \A j \in In : To >= j
  BY <1>1, <1>2
<1> HIDE DEF From, To
<1>6. From = f /\ To = t
  BY <1>1, <1>2, <1>4, <1>5
<1> QED  BY <1>1, <1>3, <1>6 DEF From, To

LEMMA AllSlashes ==
    ASSUME NEW k \in Seq(Characters), \A i \in 1 .. Len(k) : k[i] = "/"
    PROVE  Strip(k) = <<>>
BY DEF Strip

LEMMA FirstAndLast ==
    ASSUME NEW k \in Seq(Characters), NEW g \in 1 .. Len(k), k[g] # "/"
    PROVE  \E f, t \in 1 .. Len(k) :
             /\ k[f] # "/" /\ k[t] # "/"
             /\ \A i \in 1 .. Len(k) : k[i] # "/" => f <= i /\ i <= t
<1> DEFINE In == {i \in 1 .. Len(k) : k[i] # "/"}
<1>1. Len(k) \in Nat  OBVIOUS
<1>2. In \in SUBSET Nat /\ In \in SUBSET (0 .. Len(k)) /\ In # {}
  OBVIOUS
<1> HIDE DEF In
<1>3. PICK f \in In : \A i \in In : f <= i
  BY <1>2, LeastMember
<1>4. PICK t \in In : \A i \in In : i <= t
  BY <1>1, <1>2, GreatestMember
<1> QED  BY <1>3, <1>4 DEF In

(* Stripping twice, or with a slash more at either end, is stripping once.  *)
LEMMA StripAlike ==
    ASSUME NEW k \in Seq(Characters)
    PROVE  /\ Strip(Strip(k)) = Strip(k)
           /\ Strip(<<"/">> \o k) = Strip(k)
           /\ Strip(k \o <<"/">>) = Strip(k)
<1> DEFINE slash == <<"/">>
<1>1. /\ Len(k) \in Nat /\ slash \in Seq(Characters)
      /\ Len(slash) = 1 /\ slash[1] = "/"
  <2>1. Len(k) \in Nat  OBVIOUS
  <2>2. "/" \in Characters  BY DEF Characters
  <2>3. slash \in Seq(Characters)  BY <2>2
  <2>4. Len(slash) = 1 /\ slash[1] = "/"  OBVIOUS
  <2> QED  BY <2>1, <2>3, <2>4
<1> HIDE DEF slash
<1> DEFINE b == slash \o k
           e == k \o slash
<1>2. /\ b \in Seq(Characters) /\ Len(b) = 1 + Len(k)
      /\ \A i \in 1 .. 1 + Len(k) : b[i] = IF i <= 1 THEN slash[i] ELSE k[i - 1]
  <2>1. /\ slash \o k \in Seq(Characters) /\ Len(slash \o k) = Len(slash) + Len(k)
        /\ \A i \in 1 .. Len(slash) + Len(k) :
             (slash \o k)[i] = IF i <= Len(slash) THEN slash[i] ELSE k[i - Len(slash)]
    BY <1>1, ConcatProperties
  <2> QED  BY <1>1, <2>1
<1>3. /\ e \in Seq(Characters) /\ Len(e) = Len(k) + 1
      /\ \A i \in 1 .. Len(k) + 1 : e[i] = IF i <= Len(k) THEN k[i] ELSE slash[i - Len(k)]
  BY <1>1, ConcatProperties
<1> HIDE DEF b, e
<1>4. CASE \A i \in 1 .. Len(k) : k[i] = "/"
  <2>1. Strip(k) = <<>>  BY <1>4, AllSlashes
  <2>2. Strip(<<>>) = <<>>
    <3>1. <<>> \in Seq(Characters) /\ Len(<<>>) = 0  BY EmptySeq
    <3>2. \A i \in 1 .. Len(<<>>) : <<>>[i] = "/"  BY <3>1
    <3> QED  BY <3>1, <3>2, AllSlashes
  <2>3. \A i \in 1 .. Len(b) : b[i] = "/"
    <3> TAKE i \in 1 .. Len(b)
    <3>1. CASE i = 1  BY <1>1, <1>2, <3>1
    <3>2. CASE i # 1
      <4>1. i - 1 \in 1 .. Len(k)  BY <1>1, <1>2, <3>2
      <4> QED  BY <1>1, <1>2, <1>4, <3>2, <4>1
    <3> QED  BY <3>1, <3>2
  <2>4. \A i \in 1 .. Len(e) : e[i] = "/"
    <3> TAKE i \in 1 .. Len(e)
    <3>1. CASE i <= Len(k)  BY <1>1, <1>3, <1>4, <3>1
    <3>2. CASE ~(i <= Len(k))
      <4>1. i - Len(k) = 1  BY <1>1, <1>3, <3>2
      <4> QED  BY <1>1, <1>3, <3>2, <4>1
    <3> QED  BY <3>1, <3>2
  <2>5. Strip(b) = <<>> /\ Strip(e) = <<>>  BY <1>2, <1>3, <2>3, <2>4, AllSlashes
  <2> QED  BY <2>1, <2>2, <2>5 DEF b, e, slash
<1>5. CASE \E g \in 1 .. Len(k) : k[g] # "/"
  <2>1. PICK f \in 1 .. Len(k), t \in 1 .. Len(k) :
             /\ k[f] # "/" /\ k[t] # "/"
             /\ \A i \in 1 .. Len(k) : k[i] # "/" => f <= i /\ i <= t
    BY <1>5, FirstAndLast
  <2> DEFINE s == SubSeq(k, f, t)
             n == t - f + 1
  <2>2. Strip(k) = s  BY <2>1, StripsTo
  <2>3. f <= t /\ n \in Nat /\ n >= 1  BY <2>1
  <2>4. \A i \in f .. t : k[i] \in Characters  BY <1>1
  <2>5. s \in Seq(Characters) /\ Len(s) = n /\ \A i \in 1 .. n : s[i] = k[f + i - 1]
    BY <2>3, <2>4, SubSeqProperties
  <2> HIDE DEF s
  <2>6. Strip(s) = s
    <3>1. 1 \in 1 .. Len(s) /\ Len(s) \in 1 .. Len(s)  BY <2>3, <2>5
    <3>2. s[1] = k[f] /\ s[Len(s)] = k[t]  BY <2>3, <2>5
    <3>3. \A i \in 1 .. Len(s) : 1 <= i /\ i <= Len(s)  OBVIOUS
    <3>4. Strip(s) = SubSeq(s, 1, Len(s))  BY <2>1, <2>5, <3>1, <3>2, <3>3, StripsTo
    <3> QED  BY <2>5, <3>4, SubSeqFull
  <2>7. Strip(b) = s
    <3>1. f + 1 \in 1 .. Len(b) /\ t + 1 \in 1 .. Len(b)  BY <1>1, <1>2
    <3>2. b[f + 1] = k[f] /\ b[t + 1] = k[t]  BY <1>1, <1>2
    <3>3. ASSUME NEW i \in 1 .. Len(b), b[i] # "/"
          PROVE  f + 1 <= i /\ i <= t + 1
      <4>1. i # 1  BY <1>1, <1>2, <3>3
      <4>2. i - 1 \in 1 .. Len(k) /\ b[i] = k[i - 1]  BY <1>1, <1>2, <4>1
      <4>3. f <= i - 1 /\ i - 1 <= t  BY <2>1, <3>3, <4>2
      <4> QED  BY <4>3
    <3>4. Strip(b) = SubSeq(b, f + 1, t + 1)
      BY <1>2, <2>1, <3>1, <3>2, <3>3, StripsTo
    <3>5. \A i \in f + 1 .. t + 1 : b[i] \in Characters  BY <1>1, <1>2
    <3>6. f + 1 <= t + 1 /\ (t + 1) - (f + 1) + 1 = n /\ f + 1 \in Int /\ t + 1 \in Int
      BY <2>3
    <3> DEFINE u == SubSeq(b, f + 1, t + 1)
    <3>7. u \in Seq(Characters) /\ Len(u) = n /\ \A i \in 1 .. n : u[i] = b[(f + 1) + i - 1]
      BY <3>5, <3>6, SubSeqProperties
    <3> HIDE DEF u
    <3>8. ASSUME NEW i \in 1 .. n PROVE u[i] = s[i]
      <4>1. /\ (f + 1) + i - 1 \in 1 .. 1 + Len(k) /\ ~((f + 1) + i - 1 <= 1)
            /\ ((f + 1) + i - 1) - 1 = f + i - 1
        BY <1>1, <2>3
      <4>2. b[(f + 1) + i - 1] = k[f + i - 1]  BY <1>2, <4>1
      <4> QED  BY <2>5, <3>7, <4>2
    <3>9. u = s  BY <2>5, <3>7, <3>8, SeqEqual
    <3> QED  BY <3>4, <3>9 DEF u
  <2>8. Strip(e) = s
    <3>1. f \in 1 .. Len(e) /\ t \in 1 .. Len(e)  BY <1>1, <1>3
    <3>2. e[f] = k[f] /\ e[t] = k[t]  BY <1>1, <1>3
    <3>3. ASSUME NEW i \in 1 .. Len(e), e[i] # "/"
          PROVE  f <= i /\ i <= t
      <4>1. CASE i <= Len(k)  BY <1>1, <1>3, <2>1, <3>3, <4>1
      <4>2. CASE ~(i <= Len(k))
        <5>1. i - Len(k) = 1  BY <1>1, <1>3, <4>2
        <5> QED  BY <1>1, <1>3, <3>3, <4>2, <5>1
      <4> QED  BY <4>1, <4>2
    <3>4. Strip(e) = SubSeq(e, f, t)
      BY <1>3, <2>1, <3>1, <3>2, <3>3, StripsTo
    <3>5. \A i \in f .. t : e[i] \in Characters  BY <1>1, <1>3
    <3> DEFINE u == SubSeq(e, f, t)
    <3>7. u \in Seq(Characters) /\ Len(u) = n /\ \A i \in 1 .. n : u[i] = e[f + i - 1]
      BY <2>3, <3>5, SubSeqProperties
    <3> HIDE DEF u
    <3>8. ASSUME NEW i \in 1 .. n PROVE u[i] = s[i]
      <4>1. f + i - 1 \in 1 .. Len(k) + 1 /\ f + i - 1 <= Len(k)  BY <1>1, <2>3
      <4>2. e[f + i - 1] = k[f + i - 1]  BY <1>3, <4>1
      <4> QED  BY <2>5, <3>7, <4>2
    <3>9. u = s  BY <2>5, <3>7, <3>8, SeqEqual
    <3> QED  BY <3>4, <3>9 DEF u
  <2> QED  BY <2>2, <2>6, <2>7, <2>8 DEF b, e, slash
<1> QED  BY <1>4, <1>5

LEMMA PatternOf ==
    ASSUME NEW k
    PROVE  LinkPatterns(<<k>>) = << <<"/">> \o Strip(k) \o <<"/", "*">> >>
BY DEF LinkPatterns

(* However a keyword is written between its slashes, its pattern is the     *)
(* same.                                                                    *)
THEOREM SlashesMakeNoDifference == Spec => []SlashesDoNotMatter
<1>1. ASSUME NEW k \in Keywords, NEW a \in {k, <<"/">> \o k, k \o <<"/">>}
      PROVE  LinkPatterns(<<a>>) = LinkPatterns(<<Strip(k)>>)
  <2>1. k \in Seq(STRING) /\ STRING \subseteq Characters
    BY BuilderAssumption DEF Characters
  <2>2. k \in Seq(Characters)  BY <2>1, SeqMonotonic
  <2>3. Strip(a) = Strip(Strip(k))  BY <2>2, StripAlike
  <2> QED  BY <2>3, PatternOf
<1>2. SlashesDoNotMatter  BY <1>1 DEF SlashesDoNotMatter
<1> QED  BY <1>2, PTL

(* --- filter chains ---------------------------------------------------------- *)
(* A chain keeps a link as its mode and all its nodes say.                  *)
THEOREM ChainsDecide == Spec => []ChainDecides
<1>1. ASSUME NEW g \in FilterGroups,
             NEW yes \in SUBSET {Predicate(g.chain[i]) : i \in DOMAIN g.chain}
      PROVE  Keeps(FilterChain(g), yes) <=>
               \/ g.chain = <<>>
               \/ g.mode = "AND" /\ \A i \in DOMAIN g.chain : Predicate(g.chain[i]) \in yes
               \/ g.mode = "OR" /\ \E i \in DOMAIN g.chain : Predicate(g.chain[i]) \in yes
  <2>1. g # Nothing /\ g.mode \in {"AND", "OR"}
        /\ [mode |-> g.mode, of |-> Predicates(g.chain)] # Nothing
    BY BuilderAssumption
  <2>2. CASE g.chain = <<>>
    BY <2>2 DEF Keeps, FilterChain
  <2>3. CASE g.chain # <<>>
    <3> DEFINE c == [mode |-> g.mode, of |-> Predicates(g.chain)]
    <3>1. FilterChain(g) = c /\ c # Nothing /\ c.mode = g.mode /\ c.of = Predicates(g.chain)
      BY <2>1, <2>3 DEF FilterChain
    <3> HIDE DEF c
    <3>2. c.of \subseteq yes <=> \A i \in DOMAIN g.chain : Predicate(g.chain[i]) \in yes
      BY <3>1 DEF Predicates
    <3>3. c.of \cap yes # {} <=> \E i \in DOMAIN g.chain : Predicate(g.chain[i]) \in yes
      BY <3>1 DEF Predicates
    <3> QED  BY <2>1, <2>3, <3>1, <3>2, <3>3 DEF Keeps
  <2> QED  BY <2>2, <2>3
<1>2. ChainDecides  BY <1>1 DEF ChainDecides
<1> QED  BY <1>2, PTL

(* --- keys ------------------------------------------------------------------- *)
(* Whatever requests overlap, a job runs with a key that its own user sent  *)
(* or stored, or with none.                                                 *)
THEOREM KeysAreOwn == Spec => []KeyIsOwn
<1>1. TypeOK => KeyIsOwn
  <2> SUFFICES ASSUME TypeOK, NEW u \in Users, NEW g \in GenaiInputs
               PROVE  ApiKey(u, g) \in SendsKeys(u) \cup {Nothing, g.api_key}
    BY DEF KeyIsOwn
  <2>1. key[u][g.provider] \in KeysOf(u)  BY BuilderAssumption DEF TypeOK
  <2> QED  BY <2>1 DEF ApiKey, KeysOf
<1> QED  BY <1>1, TypeCorrect, PTL
=============================================================================
