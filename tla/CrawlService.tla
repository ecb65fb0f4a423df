---------------------------- MODULE CrawlService ----------------------------
(***************************************************************************)
(* The crawl service: API processes (CrawlApi) and arq workers             *)
(* (CrawlWorker) that share PostgreSQL (CrawlStore) and the Redis queue    *)
(* (ArqQueue), and nothing else.                                           *)
(***************************************************************************)
EXTENDS CrawlApi, CrawlWorker

vars == <<store, arq, req, exec>>

Init == /\ StoreInit
        /\ queue = {} /\ tries = [j \in Jobs |-> 0]
        /\ req = [h \in Handlers |-> Free]
        /\ exec = [j \in Jobs |-> At("idle")]

(* A user's request arrives: it is answered at once or goes on below.       *)
Request(h, j) ==
    \/ \E mode \in NewModes : CreateCrawl(h, j, mode) /\ UNCHANGED exec
    \/ \E src \in Jobs : RetryRead(h, src, j) /\ UNCHANGED exec
    \/ \E src \in Jobs : ScrapeRead(h, src, j) /\ UNCHANGED exec
    \/ CancelRead(h, j) /\ UNCHANGED exec
    \/ DeleteRead(h, j) /\ UNCHANGED exec
    \/ \E i \in 1 .. Len(disc[j]) : RemoveDiscovered(j, i) /\ UNCHANGED exec

(* What a handler does by itself once it has read its rows.                 *)
HandlerStep(h) ==
    \/ InsertRead(h) /\ UNCHANGED exec
    \/ Enqueue(h) /\ UNCHANGED exec
    \/ CancelCommit(h) /\ UNCHANGED exec
    \/ DeleteCommit(h) /\ UNCHANGED exec

(* What the worker does by itself as long as nothing kills it.              *)
WorkerStep(j) ==
    \/ Deliver(j) /\ UNCHANGED req
    \/ GiveUp(j) /\ UNCHANGED req
    \/ GetSkips(j) /\ UNCHANGED req
    \/ Get(j) /\ UNCHANGED req
    \/ Begin(j) /\ UNCHANGED req
    \/ LogStart(j) /\ UNCHANGED req
    \/ Build(j) /\ UNCHANGED req
    \/ BuildRaises(j) /\ UNCHANGED req
    \/ \E u \in Urls : Check(j, u) /\ UNCHANGED req
    \/ EngineStops(j) /\ UNCHANGED req
    \/ EngineRaises(j) /\ UNCHANGED req
    \/ Save(j) /\ UNCHANGED req
    \/ Warn(j) /\ UNCHANGED req
    \/ CloseRaises(j) /\ UNCHANGED req
    \/ Settle(j) /\ UNCHANGED req
    \/ RowGone(j) /\ UNCHANGED req
    \/ ArqFinish(j) /\ UNCHANGED req

Failure == \/ \E h \in Handlers : HandlerDies(h) /\ UNCHANGED exec
           \/ \E j \in Jobs : Killed(j) /\ UNCHANGED req
           \/ \E j \in Jobs : Aborted(j) /\ UNCHANGED req

Next == \/ \E h \in Handlers, j \in Jobs : Request(h, j)
        \/ \E h \in Handlers : HandlerStep(h)
        \/ \E j \in Jobs : WorkerStep(j)
        \/ Failure

Spec == Init /\ [][Next]_vars

(* A handler goes on once it has read, and the event loop of a worker runs  *)
(* every execution it was given: nothing in the code waits for a user, and  *)
(* job_timeout ends an execution whose engine never does.                   *)
Fairness == /\ \A h \in Handlers : WF_vars(HandlerStep(h))
            /\ \A j \in Jobs : WF_vars(WorkerStep(j))

FairSpec == Spec /\ Fairness
-----------------------------------------------------------------------------
TypeOK == /\ StoreTypeOK
          /\ queue \in SUBSET Jobs
          /\ tries \in [Jobs -> 0 .. MaxTries]
          /\ req \in [Handlers -> Requests]
          /\ exec \in [Jobs -> ExecRecord]

(* The counters a client sees are the rows it can list: urls_discovered is  *)
(* the number of discovered_urls rows, plus those the user deleted, and     *)
(* urls_scraped the number of results.  The worker writes both as absolute  *)
(* values from its session, across crashes and redeliveries.                *)
CountersMatchRows ==
    \A j \in Jobs : /\ job[j].urls_discovered = Len(disc[j]) + removed[j]
                    /\ job[j].urls_scraped = results[j]

(* A cancelled execution commits at most one more page, in every mode: the  *)
(* status is read before each page, and in "shallow" mode, which commits    *)
(* once at the end, the row lock of the flushed pages keeps the cancel out. *)
AtMostOneLatePage == \A j \in Jobs : exec[j].late <= 1

(* Only an execution between its first flush and its commit keeps a row     *)
(* locked: no return, exception, timeout or crash leaves the lock behind.   *)
LocksAreHeld ==
    \A j \in locked : exec[j].pc \in {"next", "save", "warn"} /\ exec[j].pend # << >>

(* Delivering a job again repeats its pages, but each delivery stays within *)
(* the engine's limit: MaxTries of them bound what a job accumulates, and a *)
(* scraper job without seeds finds nothing.                                 *)
Limit(j) == IF job[j].mode = "scraper" THEN Cardinality(job[j].seeds) ELSE MaxFound

PagesWithinTries == \A j \in Jobs : job[j].urls_discovered <= MaxTries * Limit(j)

(* The stamps agree with the status: what runs or ended by itself was       *)
(* started, what ended is stamped so, and what failed says why.             *)
StampsAgree ==
    \A j \in Jobs : LET r == job[j] IN
      /\ r.status \in {"running", "completed", "failed"} => r.started
      /\ r.status \in Terminal => r.finished
      /\ r.status = "failed" => r.error

(* The statuses evolve as CrawlLifecycle promises: only an execution that   *)
(* read the job uncancelled writes RUNNING, COMPLETED or FAILED, and a      *)
(* QUEUED job is never deleted.                                             *)
Attempt(j) == CASE exec[j].pc = "begin" -> "admitted"
                [] exec[j].pc \in {"idle", "get", "done"} -> "none"
                [] OTHER -> "started"

Lifecycle == INSTANCE CrawlLifecycle WITH status <- [j \in Jobs |-> job[j].status],
                                          attempt <- [j \in Jobs |-> Attempt(j)]

RefinesLifecycle == Lifecycle!Spec

(* The facts on which the theorems of CrawlServiceProofs rest: together     *)
(* with the invariants above they are inductive.                            *)
Loaded(j) == exec[j].pc \notin {"idle", "get", "done"}

(* What the session will write is what the row says plus the pages the      *)
(* session still holds, whoever else wrote the row since it was read.       *)
SessionMirrorsRow ==
    \A j \in Jobs : Loaded(j) /\ Exists(j) =>
      LET pages == Len(exec[j].pend) IN
      /\ exec[j].discovered = job[j].urls_discovered + pages
      /\ exec[j].scraped = job[j].urls_scraped
                             + (IF Scrapes(exec[j].mode) THEN pages ELSE 0)

(* An id is inserted, enqueued and run once, in this order; a row that was  *)
(* inserted is ended or deleted but not unmade; no row, no children.        *)
IdsUsedOnce ==
    /\ \A j \in Jobs :
         /\ exec[j].pc # "idle" => j \in queue
         /\ j \in queue => job[j].status # "unused"
         /\ exec[j].pc = "settle" => exec[j].status \in Terminal
         /\ ~Exists(j) => disc[j] = << >> /\ results[j] = 0 /\ removed[j] = 0
                           /\ job[j].urls_discovered = 0 /\ job[j].urls_scraped = 0
    /\ \A h \in Handlers :
         /\ Holds(h, "insert") =>
              /\ job[req[h].job].status = "unused"
              /\ \A g \in Handlers \ {h} : Holds(g, "insert") => req[g].job # req[h].job
         /\ req[h].op \in {"enqueue", "cancel", "delete"} =>
              job[req[h].job].status # "unused"

(* Pages wait in the session only inside the loop, and between two of them  *)
(* only in "shallow" mode, where the engine can no longer raise; two pages  *)
(* have locked the row, so no cancel has come in between; and after a late  *)
(* page the row still says CANCELLED, so the next check ends the loop.      *)
LatePages ==
    \A j \in Jobs :
      /\ exec[j].pc \notin {"next", "save", "warn"} => exec[j].pend = << >>
      /\ exec[j].mode = "shallow" => exec[j].left <= MaxFound
      /\ exec[j].pc = "next" /\ exec[j].pend # << >> =>
           exec[j].mode = "shallow" /\ exec[j].left < MaxFound
      /\ Exists(j) /\ Len(exec[j].pend) >= 2 => j \in locked /\ job[j].status # "cancelled"
      /\ exec[j].late > 0 => exec[j].pc \in {"next", "save", "warn", "settle"}
      /\ exec[j].late > 0 /\ Exists(j) => job[j].status = "cancelled" /\ exec[j].pend = << >>

StartedFirst ==
    \A j \in Jobs :
      Loaded(j) /\ exec[j].pc # "begin" /\ Exists(j) => job[j].started

(* What was read of a status still holds in part when it is acted upon: a   *)
(* job that was not QUEUED never is again, and one that an execution read   *)
(* RUNNING before it begins can only have been cancelled or deleted since.  *)
StatusAsRead ==
    /\ \A h \in Handlers : Holds(h, "delete") => job[req[h].job].status # "queued"
    /\ \A j \in Jobs :
         exec[j].pc = "begin" /\ exec[j].status = "running" /\ Exists(j)
           => job[j].status \in {"running", "cancelled"}

(* An id is enqueued once, before any page; what is committed, in the       *)
(* session and still to be yielded stays within the tries so far.           *)
PagesByTry ==
    /\ \A h \in Handlers : Holds(h, "enqueue") =>
         /\ req[h].job \notin queue /\ job[req[h].job].urls_discovered = 0
         /\ \A g \in Handlers \ {h} : Holds(g, "enqueue") => req[g].job # req[h].job
    /\ \A j \in Jobs :
         /\ j \notin queue => tries[j] = 0
         /\ j \in queue => job[j].urls_discovered <= tries[j] * Limit(j)
         /\ exec[j].pc = "get" /\ Exists(j) =>
              job[j].urls_discovered + Limit(j) <= tries[j] * Limit(j)
         /\ Loaded(j) /\ Exists(j) =>
              exec[j].discovered + exec[j].left <= tries[j] * Limit(j)

IInv == /\ TypeOK
        /\ IdsUsedOnce
        /\ CountersMatchRows /\ SessionMirrorsRow
        /\ AtMostOneLatePage /\ LocksAreHeld /\ LatePages
        /\ StampsAgree /\ StartedFirst
        /\ StatusAsRead
        /\ PagesByTry /\ PagesWithinTries

(* Every id handed to the queue leaves it: it ends, or its tries run out.   *)
QueueDrains == \A j \in Jobs : j \in queue ~> j \notin queue

(* Every request is answered: a cancel or a delete that waits for a row     *)
(* lock gets it, since the execution that holds it commits or dies.         *)
RequestsEnd == \A h \in Handlers : ~Holds(h, "free") ~> Holds(h, "free")

(* With no crash, timeout or database failure, every enqueued job reaches a *)
(* final status, or its owner deletes it.                                   *)
JobsSettle ==
    \A j \in Jobs : j \in queue ~> job[j].status \in Terminal \cup {"deleted"}

(* README.md:254, "Cancel a queued/running job": a cancelled job stays so.  *)
CancelSticks ==
    [][\A j \in Jobs : job[j].status = "cancelled"
                         => job'[j].status \in {"cancelled", "deleted"}]_vars

(* README.md:258, "Delete a crawl job (must not be active)".                *)
DeletesOnlyInactive ==
    [][\A j \in Jobs : job[j].status \in Active => job'[j].status # "deleted"]_vars
=============================================================================
