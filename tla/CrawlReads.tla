----------------------------- MODULE CrawlReads -----------------------------
(***************************************************************************)
(* PostgreSQL serves the reading handlers at READ COMMITTED: each of their *)
(* statements sees the latest commit, so that one answer is put together   *)
(* from several states.  A reader takes a statement per step; the other    *)
(* actions are the commits of the worker and of the handlers that write,   *)
(* as CrawlWorker and CrawlApi make them: a job may be delivered again and *)
(* run anew, and be deleted at any time.                                   *)
(***************************************************************************)
EXTENDS CrawlQueries

CONSTANTS Outcomes,   \* final statuses that occur
          Filters,    \* sets of statuses that a list is asked for
          PageLimit,
          MaxNow, MaxPages, MaxDeletes   \* bounds: ticks, pages, deleted URLs

ASSUME ReadsAssumption ==
    /\ Outcomes \subseteq Statuses /\ Filters \subseteq SUBSET Statuses
    /\ {PageLimit, MaxNow} \subseteq Nat \ {0} /\ {MaxPages, MaxDeletes} \subseteq Nat

VARIABLES removed,    \* discovered_urls deleted one by one
          reader      \* the request that reads, and what is committed meanwhile

vars == <<job, disc, results, now, removed, reader>>

Idle == [op |-> "idle"]

Init == /\ job = [j \in Jobs |-> NoRow("none")]
        /\ disc = [j \in Jobs |-> <<>>]
        /\ results = [j \in Jobs |-> <<>>]
        /\ now = 1 /\ removed = 0     \* in the midst of a second and of a month
        /\ reader = Idle
-----------------------------------------------------------------------------
(* What a reader in the midst of its statements misses or sees too much of. *)
Meanwhile == reader' = CASE reader.op = "idle" -> reader
    [] reader.op = "walk" ->
         LET was == Matching(reader.filter)
             is == {j \in Jobs : job'[j].status \in reader.filter} IN
         [reader EXCEPT !.steady = @ \cap is,
                        !.lost = @ \/ ~(was \subseteq is),
                        !.moved = Least(@ + Cardinality((was \ is) \cup (is \ was)),
                                        Cardinality(Jobs))]
    [] OTHER -> [reader EXCEPT !.created = @ + Cardinality(Present' \ Present),
                               !.gone = @ \cup (Present \ Present')]

(* A time is taken before the commit that stores it.                        *)
Stamps == {now - 1, now} \cap Nat

Create(j) == /\ job[j].status = "none"
             /\ \E t \in Stamps :
                  job' = [job EXCEPT ![j] = [NoRow("queued") EXCEPT !.created = t]]
             /\ UNCHANGED <<disc, results, now, removed>>
             /\ Meanwhile

SetStatus(j, s) == /\ j \in Present /\ job[j].status # s
                   /\ job' = [job EXCEPT ![j].status = s]
                   /\ UNCHANGED <<disc, results, now, removed>>
                   /\ Meanwhile

Rows(f) == SumFunction([j \in Jobs |-> Len(f[j])])

SavePage(j, scrapes) ==
    /\ j \in Matching(Statuses \ {"queued"}) /\ Rows(disc) + removed < MaxPages
    /\ results' = IF scrapes THEN [results EXCEPT ![j] = Append(@, now)] ELSE results
    /\ disc' = [disc EXCEPT ![j] = Append(@, now)]
    /\ job' = [job EXCEPT ![j].discovered = @ + 1,
                          ![j].scraped = IF scrapes THEN @ + 1 ELSE @]
    /\ UNCHANGED <<now, removed>>
    /\ Meanwhile

(* Mutant: the rows of the job stay.                                        *)
DeleteWithoutCascade(j) == /\ j \in Present
                           /\ job' = [job EXCEPT ![j] = NoRow("gone")]
                           /\ UNCHANGED <<disc, results, now, removed>>
                           /\ Meanwhile

Delete(j) == /\ j \in Present
             /\ job' = [job EXCEPT ![j] = NoRow("gone")]
             /\ disc' = [disc EXCEPT ![j] = <<>>]
             /\ results' = [results EXCEPT ![j] = <<>>]
             /\ UNCHANGED <<now, removed>>
             /\ Meanwhile

DeleteDiscovered(j) == /\ removed < MaxDeletes
                       /\ \E i \in DOMAIN disc[j] :
                            disc' = [disc EXCEPT ![j] = RemoveAt(@, i)]
                       /\ removed' = removed + 1
                       /\ UNCHANGED <<job, results, now>>
                       /\ Meanwhile

Tick == now < MaxNow /\ now' = now + 1 /\ UNCHANGED <<job, disc, results, removed, reader>>
-----------------------------------------------------------------------------
(* The statements of a handler, in their order.                             *)
(* Mutant: the job is read after the rows that it counts.                   *)
DetailStatements == <<"results", "discovered", "job">>

Detail == <<"job", "results", "discovered">>

(* Mutant: the recent jobs are read first.                                  *)
OverviewRecentFirst == <<"recent", "counts", "sums", "total">>

Overview == <<"counts", "sums", "total", "recent">>

(* month_start is no statement: there the handler reads the clock.          *)
Usage == <<"counts", "sums", "total", "month_start", "month", "month_urls">>

Begins(op, j, todo) ==
    /\ reader = Idle
    /\ reader' = [op |-> op, of |-> j, todo |-> todo, created |-> 0, gone |-> {},
                  got |-> [s \in ToSet(todo) |-> Nothing]]
    /\ UNCHANGED <<job, disc, results, now, removed>>

Final(h) == IF h = <<>> THEN 0 ELSE h[Len(h)].count
Sum(h) == SumFunction([i \in DOMAIN h |-> h[i].count])

(* The answers of a statement: what the properties use of it.               *)
Answers(statement, j) ==
    CASE statement = "job" -> {[scraped |-> job[j].scraped, discovered |-> job[j].discovered]}
      [] statement = "results" -> {Sum(ThroughputHistory(results[j]))}
      [] statement = "discovered" -> {Final(DiscoveryHistory(disc[j]))}
      [] statement = "counts" -> {JobCounts}
      [] statement = "sums" -> {UrlsScraped(Present)}
      [] statement = "total" -> {Cardinality(Present)}
      [] statement = "recent" -> {UrlsScraped(S) : S \in Pages(Present, 0, RecentLimit)}
      [] statement = "month_start" -> {MonthStart(now)}
      [] statement = "month" -> {Cardinality(CreatedSince(reader.got["month_start"]))}
      [] statement = "month_urls" -> {UrlsScraped(CreatedSince(reader.got["month_start"]))}

(* A 404 if the job is not there; else the next statement.                  *)
Statement ==
    /\ reader.op \in {"detail", "overview", "usage"} /\ reader.todo # <<>>
    /\ reader.of \in Present \cup {Nothing} \/ Head(reader.todo) # "job"
    /\ \E a \in Answers(Head(reader.todo), reader.of) :
         reader' = [reader EXCEPT !.todo = Tail(@), !.got[Head(reader.todo)] = a]
    /\ UNCHANGED <<job, disc, results, now, removed>>

(* A client that walks through GET /crawls: a count and a page each time,   *)
(* until a page is not full.                                                *)
Walk(f) == /\ reader = Idle
           /\ reader' = [op |-> "walk", filter |-> f, next |-> "count", at |-> 0,
                         total |-> 0, moved |-> 0, size |-> 0, seen |-> {},
                         steady |-> Matching(f), lost |-> FALSE]
           /\ UNCHANGED <<job, disc, results, now, removed>>

WalkCount ==
    /\ reader.op = "walk" /\ reader.next \in {"count", "answered"}
    /\ reader' = [reader EXCEPT !.next = "page", !.moved = 0,
                                !.total = Cardinality(Matching(reader.filter))]
    /\ UNCHANGED <<job, disc, results, now, removed>>

WalkPage ==
    /\ reader.op = "walk" /\ reader.next = "page"
    /\ \E p \in Pages(Matching(reader.filter), reader.at, PageLimit) :
         reader' = [reader EXCEPT !.seen = @ \cup p, !.at = @ + PageLimit,
                                  !.size = Cardinality(p),
                                  !.next = IF Cardinality(p) < PageLimit THEN "end"
                                                                         ELSE "answered"]
    /\ UNCHANGED <<job, disc, results, now, removed>>

Ends == /\ reader # Idle /\ reader' = Idle
        /\ UNCHANGED <<job, disc, results, now, removed>>

(* What is committed after the last statement makes no difference to it.    *)
InFlight == /\ reader.op = "walk" => reader.next # "end"
            /\ reader.op \in {"detail", "overview", "usage"} => reader.todo # <<>>

Commit == \/ \E j \in Jobs : Create(j) \/ Delete(j) \/ DeleteDiscovered(j)
          \/ \E j \in Jobs, s \in {"running"} \cup Outcomes : SetStatus(j, s)
          \/ \E j \in Jobs, scrapes \in BOOLEAN : SavePage(j, scrapes)

Read == \/ \E j \in Present : Begins("detail", j, Detail)
        \/ Begins("overview", Nothing, Overview)
        \/ Begins("usage", Nothing, Usage)
        \/ Statement
        \/ \E f \in Filters : Walk(f)
        \/ WalkCount \/ WalkPage \/ Ends

Next == (InFlight /\ (Commit \/ Tick)) \/ Read
Spec == Init /\ [][Next]_vars
-----------------------------------------------------------------------------
JobRow == [status : Statuses \cup {"none", "gone"}, created : Nat, discovered : Nat,
           scraped : Nat]
Counters == [scraped : Nat, discovered : Nat]

(* A request whose statements are all, and what each of them may yield.     *)
Asking(op, of, all, yields) ==
    [op : {op}, of : of, todo : Suffixes(all), created : Nat, gone : SUBSET Jobs, got : yields]

DetailReaders == Asking("detail", Jobs, Detail,
    [job : Counters \cup {Nothing}, results : Nat \cup {Nothing},
     discovered : Nat \cup {Nothing}])
OverviewReaders == Asking("overview", {Nothing}, Overview,
    [{"counts", "sums", "total", "recent"} -> Nat \cup {Nothing}])
UsageReaders == Asking("usage", {Nothing}, Usage,
    [{"counts", "sums", "total", "month_start", "month", "month_urls"} -> Nat \cup {Nothing}])
WalkReaders ==
    [op : {"walk"}, filter : Filters, next : {"count", "page", "answered", "end"},
     at : Nat, total : 0 .. Cardinality(Jobs), moved : 0 .. Cardinality(Jobs), size : Nat,
     seen : SUBSET Jobs, steady : SUBSET Jobs, lost : BOOLEAN]

TablesOK == /\ job \in [Jobs -> JobRow]
            /\ disc \in [Jobs -> Seq(Nat)] /\ results \in [Jobs -> Seq(Nat)]
            /\ \A j \in Jobs : /\ job[j].scraped = Len(results[j])
                               /\ job[j].discovered \in Len(disc[j]) .. Len(disc[j]) + removed
            /\ \A j \in Jobs \ Present : disc[j] = <<>> /\ results[j] = <<>>
            /\ now \in 0 .. MaxNow /\ removed \in 0 .. MaxDeletes

TypeOK == /\ TablesOK
          /\ reader \in {Idle} \cup DetailReaders \cup OverviewReaders \cup UsageReaders
                                \cup WalkReaders

Answered(op) == reader.op = op /\ reader.todo = <<>>

(* The discovery history says, at each second, how many rows there were by  *)
(* its end, in order, and ends with all of them; the throughput history     *)
(* counts each result once.                                                 *)
HistoriesMatchRows == \A j \in Jobs :
    LET h == DiscoveryHistory(disc[j])
        By(t) == {i \in DOMAIN disc[j] : disc[j][i] < t} IN
    /\ Final(h) = Len(disc[j])
    /\ \A i \in DOMAIN h : h[i].count = Cardinality(By(h[i].t + Second))
    /\ \A i \in 2 .. Len(h) : h[i - 1].t < h[i].t
    /\ Sum(ThroughputHistory(results[j])) = Len(results[j])

(* A job's page never says more pages than its histories show: the counters *)
(* are read first, and the rows that they count are committed with them.    *)
DetailNotBehind == Answered("detail") /\ reader.of \notin reader.gone =>
    /\ reader.got["job"].scraped <= reader.got["results"]
    /\ reader.got["job"].discovered <= reader.got["discovered"] + removed

(* The total of the overview and of the usage differs from the sum of the   *)
(* counts by status only by jobs that came or went between the statements.  *)
TotalsDrift == Answered("overview") \/ Answered("usage") =>
    /\ reader.got["total"] <= reader.got["counts"] + reader.created
    /\ reader.got["counts"] <= reader.got["total"] + Cardinality(reader.gone)
    /\ reader.op = "usage" => reader.got["month"] <= reader.got["total"] + reader.created

(* The overview never shows recent jobs with fewer pages than its sums, nor *)
(* the usage a month with fewer: the rows are read after the sum over them, *)
(* while all jobs are recent, or of this month.                             *)
RecentNotBehind ==
    /\ Answered("overview") /\ reader.gone = {} /\ Cardinality(Present) <= RecentLimit =>
         reader.got["sums"] <= reader.got["recent"]
    /\ /\ Answered("usage") /\ reader.gone = {}
       /\ Present = CreatedSince(reader.got["month_start"])
       => reader.got["sums"] <= reader.got["month_urls"]

(* A client that pages through the jobs until a page is not full sees every *)
(* job that matched all the while, though others are inserted; not if one   *)
(* that matched is deleted or changes status, which pulls the rest forward  *)
(* over the end of a page, and not if two share their created_at.           *)
WalkSeesSteadyJobs == reader.op = "walk" /\ reader.next = "end" /\ ~reader.lost =>
    \A j \in reader.steady \ reader.seen :
      \E k \in Present \ {j} : job[k].created = job[j].created

(* The total beside a page is what it was when the rows were counted: they  *)
(* disagree by the jobs that came to match or ceased to since, at most.     *)
TotalNearPage == reader.op = "walk" /\ reader.next \in {"answered", "end"} =>
    LET left == reader.total - (reader.at - PageLimit)
        due == IF left < 0 THEN 0 ELSE Least(left, PageLimit) IN
    reader.size \in due - reader.moved .. due + reader.moved

(* --- what holds while a reader is in the midst of its statements ---------- *)
(* The number of statements that reader has still to take, and has taken.   *)
Left == Len(reader.todo)
Taken == (IF reader.op = "usage" THEN 6 ELSE 4) - Left

DetailSoFar == reader.op = "detail" /\ reader.of \notin reader.gone =>
    LET j == reader.of IN
    /\ j \in Present
    /\ Left < 3 => /\ reader.got["job"] \in Counters
                   /\ Left = 2 => reader.got["job"].scraped <= Len(results[j])
                   /\ Left > 0 => reader.got["job"].discovered <= Len(disc[j]) + removed
    /\ Left < 2 => /\ reader.got["results"] \in Nat
                   /\ reader.got["job"].scraped <= reader.got["results"]
    /\ Left < 1 => reader.got["discovered"] \in Nat

TotalsSoFar == reader.op \in {"overview", "usage"} =>
    /\ Taken > 0 => reader.got["counts"] \in Nat
    /\ Taken > 1 => reader.got["sums"] \in Nat
    /\ Taken > 2 => reader.got["total"] \in Nat
    /\ Taken > 3 /\ reader.op = "usage" => reader.got["month_start"] \in Nat
    /\ Taken \in {1, 2} => /\ Cardinality(Present) <= reader.got["counts"] + reader.created
                           /\ reader.got["counts"] <= Cardinality(Present) + Cardinality(reader.gone)
    /\ Taken > 2 => /\ reader.got["total"] <= reader.got["counts"] + reader.created
                    /\ reader.got["counts"] <= reader.got["total"] + Cardinality(reader.gone)
    /\ Taken > 2 /\ Left > 0 => Cardinality(Present) <= reader.got["total"] + reader.created
    /\ Taken > 4 => /\ reader.got["month"] \in Nat
                    /\ reader.got["month"] <= reader.got["total"] + reader.created
    /\ Taken > 1 /\ Left > 0 /\ reader.gone = {} => reader.got["sums"] <= UrlsScraped(Present)

GoneForGood == reader.op \in {"detail", "overview", "usage"} =>
    \A j \in reader.gone : job[j].status = "gone"

(* While no matching job is lost, one that is steady and not yet seen has   *)
(* as many newer ones as the walk has passed, or one of the same age.       *)
WalkSoFar == reader.op = "walk" =>
    LET now_matching == Matching(reader.filter) IN
    /\ reader.steady \subseteq now_matching
    /\ ~reader.lost => \A j \in reader.steady \ reader.seen :
         \/ \E k \in now_matching \ {j} : job[k].created = job[j].created
         \/ /\ reader.next # "end"
            /\ reader.at <= Cardinality({k \in now_matching : job[k].created > job[j].created})
    /\ reader.next = "page" =>
         Cardinality(now_matching) \in reader.total - reader.moved .. reader.total + reader.moved

(* The invariant that is kept by every step.                                *)
IInv == /\ TypeOK
        /\ DetailSoFar /\ DetailNotBehind
        /\ TotalsSoFar /\ TotalsDrift /\ GoneForGood /\ RecentNotBehind
        /\ WalkSoFar /\ TotalNearPage

(* An export selects exactly what GET /data lists for the same filters, and *)
(* so does one by the ids of the rows listed; for a job alone it has as     *)
(* many rows as the job's own page says it scraped.  (Each is one statement *)
(* on the tables, whatever another reader is in the midst of.)              *)
ExportMatchesList == reader = Idle =>
    \A format \in [Jobs -> Formats],
       f \in [job : Jobs \cup {Nothing, Empty}, format : Formats \cup {Nothing}, q : {Nothing, "q"}] :
      LET listed == ListData(f, format) IN
      /\ Exportable(ByFilter(f)) =>
           /\ Export(ByFilter(f), format) = listed
           /\ f.format = Nothing /\ f.q = Nothing => Cardinality(listed) = job[f.job].scraped
      /\ Exportable(ById(listed)) => Export(ById(listed), format) = listed
=============================================================================
