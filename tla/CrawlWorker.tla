---------------------------- MODULE CrawlWorker ----------------------------
(***************************************************************************)
(* run_crawl_job (src/src/worker/tasks.py) as arq executes it.  exec[j] is *)
(* the one execution of job j: where it stands and what its session holds  *)
(* in memory.  One action per statement that reads or commits; the crawl   *)
(* engine (onecrawler, a library) may yield a page, stop or raise whenever *)
(* the code awaits it.                                                     *)
(*                                                                         *)
(* Every log() is a commit of its own that changes no row kept here.  Two  *)
(* matter and are steps: the first one, which precedes the try block, and  *)
(* the "Cancelled before completion" one, which also commits the pages the *)
(* session still holds.  The last one is followed by nothing.              *)
(***************************************************************************)
EXTENDS CrawlStore, ArqQueue

CONSTANT MaxFound    \* pages one engine run yields at most

ASSUME WorkerAssumption == MaxFound \in Nat

VARIABLE exec

(* status, discovered, scraped: job's attributes as the session holds them; *)
(* left: pages the engine can still yield; pend: pages added to the session *)
(* and not committed; late: history, pages this execution committed while   *)
(* the row said CANCELLED.                                                  *)
At(pc) == [pc |-> pc, mode |-> "sitemap", status |-> "unused", discovered |-> 0,
           scraped |-> 0, left |-> 0, pend |-> << >>, late |-> 0]

PCs == {"idle", "get", "begin", "log", "build", "next", "save", "warn", "settle", "done"}

ExecRecord == [pc : PCs, mode : AllModes, status : Statuses \cup {"unused"},
               discovered : Nat, scraped : Nat, left : Nat,
               pend : Seq(Urls), late : Nat]

Running == {j \in Jobs : exec[j].pc # "idle"}

(* The session is closed: nothing in memory survives, its row lock is freed. *)
Leaves(j, pc) == exec' = [exec EXCEPT ![j] = At(pc)]
Release(j) == locked' = locked \ {j}
KeepsRows == UNCHANGED <<job, disc, results, removed>>

Deliver(j) == /\ QueueTake(j, Running)
              /\ Leaves(j, "get")
              /\ UNCHANGED store

GiveUp(j) == QueueGiveUp(j, Running) /\ UNCHANGED <<store, exec>>

(* db.get, and return for a job that is missing or was cancelled.           *)
GetSkips(j) == /\ exec[j].pc = "get"
               /\ ~Exists(j) \/ job[j].status = "cancelled"
               /\ Leaves(j, "done")
               /\ UNCHANGED <<store, arq>>

(* Mutant: a scraper job crawls like the others, its seeds forgotten.      *)
LoadsIgnoringSeeds(j, status, discovered, scraped) ==
    exec' = [exec EXCEPT ![j] =
               [At("begin") EXCEPT !.mode = job[j].mode,
                                   !.status = status,
                                   !.discovered = discovered,
                                   !.scraped = scraped,
                                   !.left = MaxFound]]

(* What the session and the engine are given.                               *)
Loads(j, status, discovered, scraped) ==
    exec' = [exec EXCEPT ![j] =
               [At("begin") EXCEPT !.mode = job[j].mode,
                                   !.status = status,
                                   !.discovered = discovered,
                                   !.scraped = scraped,
                                   !.left = IF job[j].mode = "scraper"
                                            THEN Cardinality(job[j].seeds)
                                            ELSE MaxFound]]

(* Mutant: a cancelled job is run all the same.                             *)
GetIgnoringCancelled(j) ==
    /\ exec[j].pc = "get" /\ Exists(j)
    /\ Loads(j, job[j].status, job[j].urls_discovered, job[j].urls_scraped)
    /\ UNCHANGED <<store, arq>>

(* Mutant: the counters start from 0 on each delivery.                      *)
GetCountingFromZero(j) ==
    /\ exec[j].pc = "get" /\ Exists(j) /\ job[j].status # "cancelled"
    /\ Loads(j, job[j].status, 0, 0)
    /\ UNCHANGED <<store, arq>>

(* db.get for a job that may run.                                           *)
Get(j) ==
    /\ exec[j].pc = "get" /\ Exists(j) /\ job[j].status # "cancelled"
    /\ Loads(j, job[j].status, job[j].urls_discovered, job[j].urls_scraped)
    /\ UNCHANGED <<store, arq>>

(* status = RUNNING, started_at = now, commit.  The UPDATE carries the      *)
(* status only if the row did not already say RUNNING when it was read.     *)
Begin(j) ==
    /\ exec[j].pc = "begin" /\ Exists(j)
    /\ job' = [job EXCEPT ![j].started = TRUE,
                          ![j].status = IF exec[j].status = "running" THEN @ ELSE "running"]
    /\ exec' = [exec EXCEPT ![j].pc = "log", ![j].status = "running"]
    /\ UNCHANGED <<disc, results, locked, removed, arq>>

LogStart(j) == /\ exec[j].pc = "log" /\ Exists(j)
               /\ exec' = [exec EXCEPT ![j].pc = "build"]
               /\ UNCHANGED <<store, arq>>

(* What the code does with job.status before the commit that ends a run.    *)
Settles(j, status) == exec' = [exec EXCEPT ![j].pc = "settle", ![j].status = status]

Build(j) == /\ exec[j].pc = "build"
            /\ exec' = [exec EXCEPT ![j].pc = "next"]
            /\ UNCHANGED <<store, arq>>

(* Mutant: bad settings are logged only, the job stays RUNNING.             *)
BuildRaisesUnrecorded(j) ==
    exec[j].pc = "build" /\ Leaves(j, "done") /\ UNCHANGED <<store, arq>>

BuildRaises(j) == exec[j].pc = "build" /\ Settles(j, "failed") /\ UNCHANGED <<store, arq>>

(* The engine yields u and is_cancelled selects the status, flushing first  *)
(* the pages the session holds (autoflush): their UPDATE keeps the row      *)
(* locked until the session commits.  Otherwise the page joins the session. *)
AddsPage(j, u) ==
    exec' = [exec EXCEPT ![j].pc = IF exec[j].mode = "shallow" THEN "next" ELSE "save",
                         ![j].left = @ - 1,
                         ![j].pend = Append(@, u),
                         ![j].discovered = @ + 1,
                         ![j].scraped = IF Scrapes(exec[j].mode) THEN @ + 1 ELSE @]

Flushes(j) == /\ exec[j].pend # << >> => Exists(j)
              /\ locked' = IF exec[j].pend = << >> THEN locked ELSE locked \cup {j}
              /\ KeepsRows

(* Mutant: the status is read with autoflush off.                           *)
CheckWithoutLock(j, u) ==
    /\ exec[j].pc = "next" /\ exec[j].left > 0
    /\ exec[j].pend # << >> => Exists(j)
    /\ IF job[j].status = "cancelled"
       THEN exec' = [exec EXCEPT ![j].pc = "warn"]
       ELSE AddsPage(j, u)
    /\ UNCHANGED <<store, arq>>

Check(j, u) ==
    /\ exec[j].pc = "next" /\ exec[j].left > 0
    /\ Flushes(j)
    /\ IF job[j].status = "cancelled"
       THEN exec' = [exec EXCEPT ![j].pc = "warn"]
       ELSE AddsPage(j, u)
    /\ UNCHANGED arq

(* The engine has no more pages.  "shallow" commits all of them now.        *)
EngineStops(j) ==
    /\ exec[j].pc = "next"
    /\ IF exec[j].mode = "shallow" THEN exec' = [exec EXCEPT ![j].pc = "save"]
                                   ELSE Settles(j, "completed")
    /\ UNCHANGED <<store, arq>>

(* The engine, or the code between its pages, raises; a list-valued run     *)
(* can only do so before its first page.                                    *)
EngineRaises(j) ==
    /\ exec[j].pc = "next"
    /\ exec[j].mode \in {"sitemap", "shallow"} => exec[j].left = MaxFound
    /\ Settles(j, "failed")
    /\ UNCHANGED <<store, arq>>

(* db.commit with pages in the session.                                     *)
CommitsPages(j) ==
    /\ Exists(j)
    /\ WritePages(j, exec[j].pend, exec[j].mode, exec[j].discovered, exec[j].scraped)
    /\ Release(j)
    /\ UNCHANGED arq

Late(j) == IF job[j].status = "cancelled" THEN Len(exec[j].pend) ELSE 0

Save(j) ==
    /\ exec[j].pc = "save" /\ CommitsPages(j)
    /\ exec' = [exec EXCEPT ![j].pc = IF exec[j].mode = "shallow" THEN "settle" ELSE "next",
                            ![j].status = IF exec[j].mode = "shallow" THEN "completed" ELSE @,
                            ![j].pend = << >>,
                            ![j].late = @ + Late(j)]

(* log(..., "Cancelled before completion"); the loop returns True.          *)
Warn(j) ==
    /\ exec[j].pc = "warn" /\ CommitsPages(j)
    /\ exec' = [exec EXCEPT ![j].pc = "settle", ![j].status = "cancelled",
                            ![j].pend = << >>, ![j].late = @ + Late(j)]

(* Leaving `async with` the engine raises: the run has failed after all.    *)
CloseRaises(j) == /\ exec[j].pc = "settle" /\ exec[j].mode # "sitemap"
                  /\ exec[j].status \in {"completed", "cancelled"}
                  /\ Settles(j, "failed")
                  /\ UNCHANGED <<store, arq>>

(* The outcome is committed over whatever the row says by now.              *)
Settle(j) == /\ exec[j].pc = "settle" /\ Exists(j)
             /\ WriteOutcome(j, exec[j].status)
             /\ Leaves(j, "done")
             /\ UNCHANGED <<disc, results, locked, removed, arq>>

(* Mutant: a flush that fails is tried again and again.                     *)
RowGoneRetried(j) ==
    exec[j].pc \in {"begin", "log", "save", "warn", "settle"} /\ ~Exists(j)
    /\ UNCHANGED <<store, exec, arq>>

(* A flush on a row that is gone raises.  The session then refuses every    *)
(* further statement, the commit of the except block included.              *)
RowGone(j) == /\ \/ exec[j].pc \in {"begin", "log", "save", "warn", "settle"}
                 \/ exec[j].pc = "next" /\ exec[j].pend # << >> /\ exec[j].left > 0
              /\ ~Exists(j)
              /\ Leaves(j, "done") /\ Release(j) /\ KeepsRows
              /\ UNCHANGED arq

(* Mutant: the session is not closed on the way out.                        *)
KilledKeepingLock(j) ==
    /\ "killed" \in Faults /\ exec[j].pc \notin {"idle", "done"}
    /\ Leaves(j, "done")
    /\ UNCHANGED <<store, arq>>

(* PostgreSQL fails a statement (as RowGone), or job_timeout cancels the    *)
(* coroutine: CancelledError is no Exception, no handler of the code runs.  *)
Killed(j) == /\ "killed" \in Faults /\ exec[j].pc \notin {"idle", "done"}
             /\ Leaves(j, "done") /\ Release(j) /\ KeepsRows
             /\ UNCHANGED arq

(* The worker process crashes or shuts down: the id stays queued.           *)
Aborted(j) == /\ "aborted" \in Faults /\ exec[j].pc # "idle"
              /\ Leaves(j, "idle") /\ Release(j) /\ KeepsRows
              /\ UNCHANGED arq

ArqFinish(j) == /\ exec[j].pc = "done"
                /\ QueueDone(j)
                /\ Leaves(j, "idle")
                /\ UNCHANGED store
=============================================================================
