---------------------------- MODULE CrawlQueries ----------------------------
(***************************************************************************)
(* The queries of the handlers that only read, each a function of the      *)
(* tables as one statement sees them (src/src/api/v1/crawler, dashboard    *)
(* and data; src/src/api/users/account).  Every query is limited to the    *)
(* user's own rows: the tables here are those of one user.                 *)
(***************************************************************************)
EXTENDS Integers, FiniteSetsExt, SequencesExt

CONSTANTS Jobs,
          Second,       \* 1000 ms, in ticks
          Month,        \* a month, in ticks
          RecentLimit,  \* jobs that the overview lists
          Nothing,      \* a filter that was not given
          Empty,        \* one that was given as ""
          Formats,      \* of results: what their job was asked for
          Hits          \* results of a job, by number, with the text searched for

ASSUME QueriesAssumption ==
    /\ IsFiniteSet(Jobs) /\ Nothing \notin Jobs
    /\ {Second, Month, RecentLimit} \subseteq Nat \ {0}

VARIABLES job,          \* job[j]: the row of crawl_jobs
          disc,         \* disc[j]: discovered_at of its discovered_urls
          results,      \* results[j]: extracted_at of its crawl_result_items
          now

Statuses == {"queued", "running", "completed", "failed", "cancelled"}
NoRow(s) == [status |-> s, created |-> 0, discovered |-> 0, scraped |-> 0]
Present == {j \in Jobs : job[j].status \in Statuses}
Matching(f) == {j \in Present : job[j].status \in f}

(* --- overview and usage -------------------------------------------------- *)
(* Mutant: a job that waits is not counted.                                 *)
JobCountsStarted == SumFunction([s \in Statuses \ {"queued"} |-> Cardinality(Matching({s}))])

(* A count per status, GROUP BY, and 0 for one without a job: their sum.    *)
JobCounts == SumFunction([s \in Statuses |-> Cardinality(Matching({s}))])

UrlsScraped(S) == SumFunction([j \in S |-> job[j].scraped])

MonthStart(t) == (t \div Month) * Month
CreatedSince(t) == {j \in Present : job[j].created >= t}

(* --- lists: a page of the rows, newest first ------------------------------ *)
(* Mutant: no ORDER BY.                                                     *)
AnyOrder(S) == SetToSeqs(S)

(* ORDER BY created_at DESC: rows of one millisecond come in any order.     *)
NewestFirst(S) == {s \in SetToSeqs(S) :
    \A i \in 1 .. Len(s) - 1 : job[s[i]].created >= job[s[i + 1]].created}

(* Mutant: the offset counts from one.                                      *)
PagesFromOne(S, offset, limit) ==
    {ToSet(SubSeq(s, offset + 2, IF offset + 1 + limit < Len(s) THEN offset + 1 + limit
                                                                ELSE Len(s))) : s \in NewestFirst(S)}

Least(a, b) == IF a < b THEN a ELSE b
Pages(S, offset, limit) ==
    {ToSet(SubSeq(s, offset + 1, Least(offset + limit, Len(s)))) : s \in NewestFirst(S)}

(* --- the histories of a job, for the times of its rows -------------------- *)
Bucket(t) == (t \div Second) * Second
Buckets(ts) == CHOOSE bs \in SetToSeqs({Bucket(ts[i]) : i \in DOMAIN ts}) :
                 \A i, k \in DOMAIN bs : i < k => bs[i] < bs[k]
InBucket(ts, b) == Cardinality({i \in DOMAIN ts : Bucket(ts[i]) = b})

(* Mutant: every point counts its own second.                               *)
DiscoveryPerSecond(ts) == LET bs == Buckets(ts) IN
    [i \in DOMAIN bs |-> [t |-> bs[i], count |-> InBucket(ts, bs[i])]]

ThroughputHistory(ts) == LET bs == Buckets(ts) IN
    [i \in DOMAIN bs |-> [t |-> bs[i], count |-> InBucket(ts, bs[i])]]

DiscoveryHistory(ts) == LET bs == Buckets(ts)
                            upTo[i \in 0 .. Len(bs)] ==
                              IF i = 0 THEN 0 ELSE upTo[i - 1] + InBucket(ts, bs[i])
                        IN [i \in DOMAIN bs |-> [t |-> bs[i], count |-> upTo[i]]]

(* --- results: GET /data and POST /data/export; format[j]: of job j --------- *)
Items == UNION {{j} \X DOMAIN results[j] : j \in Present}
Given(v) == v \notin {Nothing, Empty}

(* The rows that a list is a page of, narrowed filter by filter; its total  *)
(* is their number, of a statement of its own.                              *)
ListData(f, format) ==
    LET ofJob == IF Given(f.job) THEN {i \in Items : i[1] = f.job} ELSE Items
        inFormat == IF Given(f.format) THEN {i \in ofJob : format[i[1]] = f.format} ELSE ofJob
    IN IF Given(f.q) THEN {i \in inFormat : i[2] \in Hits} ELSE inFormat

ById(ids) == [ids |-> ids, job |-> Nothing, format |-> Nothing, q |-> Nothing]
ByFilter(f) == [ids |-> {}, job |-> f.job, format |-> f.format, q |-> f.q]

(* The validator wants ids or a filter, and not both.                       *)
Exportable(r) == (r.ids # {}) # (Given(r.job) \/ Given(r.format) \/ Given(r.q))

(* Mutant: the export takes the first of its filters.                       *)
ExportByFirst(r, format) ==
    {i \in Items : \/ r.ids # {} /\ i \in r.ids
                   \/ r.ids = {} /\ IF Given(r.job) THEN i[1] = r.job
                                    ELSE IF Given(r.format) THEN format[i[1]] = r.format
                                                            ELSE i[2] \in Hits}

(* One statement: the rows of the ids, or those that pass each filter given. *)
Export(r, format) ==
    {i \in Items : \/ r.ids # {} /\ i \in r.ids
                   \/ /\ r.ids = {}
                      /\ Given(r.job) => i[1] = r.job
                      /\ Given(r.format) => format[i[1]] = r.format
                      /\ Given(r.q) => i[2] \in Hits}
=============================================================================
