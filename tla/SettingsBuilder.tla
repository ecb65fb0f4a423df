-------------------------- MODULE SettingsBuilder --------------------------
(***************************************************************************)
(* src/src/worker/settings_builder.py: what onecrawler is given for the    *)
(* settings and filters of a job (src/src/api/v1/crawler/schema.py), as    *)
(* functions of the payload and of the stored keys.  Fields handed over as *)
(* they are, and types looked up in a table, have no definition here.      *)
(***************************************************************************)
EXTENDS SettingsStore, Sequences

CONSTANT Empty   \* "", [] or 0: what Python takes for false, other than None

Falsy == {Nothing, Empty}
OrElse(v, default) == IF v \in Falsy THEN default ELSE v

(* --- the key of a genai job --------------------------------------------- *)
(* Mutant: the row is looked up by its provider.                            *)
ApiKeyByProvider(u, genai) ==
    IF genai.api_key # Nothing THEN genai.api_key
    ELSE LET v == CHOOSE v \in Users : key[v][genai.provider] # Nothing \/ v = u
         IN key[v][genai.provider]

(* An empty string is a key; only null stands for the stored one.           *)
ApiKey(u, genai) == IF genai.api_key # Nothing THEN genai.api_key
                    ELSE key[u][genai.provider]

(* --- link patterns: a keyword is a sequence of characters ---------------- *)
(* Mutant: only one slash is stripped at either end.                        *)
StripOnce(k) == LET a == IF k # <<>> /\ k[1] = "/" THEN Tail(k) ELSE k
                IN IF a # <<>> /\ a[Len(a)] = "/" THEN SubSeq(a, 1, Len(a) - 1) ELSE a

Strip(k) == LET In == {i \in 1 .. Len(k) : k[i] # "/"}
                From == CHOOSE i \in In : \A j \in In : i <= j
                To == CHOOSE i \in In : \A j \in In : i >= j
            IN IF In = {} THEN <<>> ELSE SubSeq(k, From, To)

LinkPatterns(ks) == IF ks = <<>> THEN Nothing
                    ELSE [i \in DOMAIN ks |-> <<"/">> \o Strip(ks[i]) \o <<"/", "*">>]

(* --- the filter chain: a node is its kind and the argument of that kind -- *)
Kinds == {"by_date", "by_keywords", "by_files", "by_extension", "by_cosine_similarity"}

Arg(n) == CASE n.kind = "by_date" -> n.arg
            [] n.kind = "by_cosine_similarity" -> OrElse(n.arg, "0.25")
            [] OTHER -> OrElse(n.arg, Empty)
Predicate(n) == [kind |-> n.kind, arg |-> Arg(n)]

(* Mutant: a node without an argument adds no predicate.                    *)
PredicatesGiven(chain) == {Predicate(chain[i]) : i \in {j \in DOMAIN chain :
                                                         chain[j].arg \notin Falsy}}

Predicates(chain) == {Predicate(chain[i]) : i \in DOMAIN chain}

FilterChain(group) ==
    IF group = Nothing \/ group.chain = <<>> THEN Nothing
    ELSE [mode |-> group.mode, of |-> Predicates(group.chain)]

(* onecrawler's AND and OR, for a link that the predicates in yes accept.   *)
Keeps(c, yes) == \/ c = Nothing
                 \/ c # Nothing /\ c.mode = "AND" /\ c.of \subseteq yes
                 \/ c # Nothing /\ c.mode = "OR" /\ c.of \cap yes # {}
-----------------------------------------------------------------------------
CONSTANTS FilterGroups, Keywords, GenaiInputs   \* payloads examined

(* What the schema admits.                                                  *)
ASSUME BuilderAssumption ==
    /\ \A g \in FilterGroups : /\ g # Nothing /\ g.mode \in {"AND", "OR"}
                               /\ [mode |-> g.mode, of |-> Predicates(g.chain)] # Nothing
    /\ Keywords \subseteq Seq(STRING)
    /\ \A g \in GenaiInputs : g.provider \in Providers

(* A build reads one row at most, so it does not depend on the requests in  *)
(* flight; what it makes of a payload is examined when there are none.      *)
Quiet == \A h \in Handlers : Holds(h, "free")

(* No job runs with a key that another user stored, whoever sets and clears *)
(* keys of one provider at a time.                                          *)
KeyIsOwn == \A u \in Users, g \in GenaiInputs :
    ApiKey(u, g) \in SendsKeys(u) \cup {Nothing, g.api_key}

(* Every node of a chain has a say, one without an argument included: AND   *)
(* keeps what all of them accept, OR what one accepts, and no chain or an   *)
(* empty one keeps every link.                                              *)
ChainDecides == Quiet => \A g \in FilterGroups :
    \A yes \in SUBSET {Predicate(g.chain[i]) : i \in DOMAIN g.chain} :
      Keeps(FilterChain(g), yes) <=>
        \/ g.chain = <<>>
        \/ g.mode = "AND" /\ \A i \in DOMAIN g.chain : Predicate(g.chain[i]) \in yes
        \/ g.mode = "OR" /\ \E i \in DOMAIN g.chain : Predicate(g.chain[i]) \in yes

(* Slashes around a keyword make no difference to its pattern.              *)
SlashesDoNotMatter == Quiet => \A k \in Keywords :
    LET alike == {k, <<"/">> \o k, k \o <<"/">>} IN
    \A a \in alike : LinkPatterns(<<a>>) = LinkPatterns(<<Strip(k)>>)
=============================================================================
