----------------------------- MODULE CrawlStore -----------------------------
(***************************************************************************)
(* The PostgreSQL tables of a crawl (src/src/db/models.py): crawl_jobs,    *)
(* discovered_urls and crawl_result_items.  Each operator below is the     *)
(* effect of one committed transaction; who runs it, and what it read      *)
(* before, is the business of CrawlApi and CrawlWorker.                    *)
(*                                                                         *)
(* Times are abstracted to "set or not", the error text likewise.  Job ids *)
(* are uuid4: an id is used once, so a deleted row is told apart from one  *)
(* that never was.                                                         *)
(***************************************************************************)
EXTENDS Integers, Sequences, FiniteSets, SequencesExt

CONSTANTS Jobs,      \* ids of crawl jobs
          Urls,      \* decoded URLs
          Faults     \* failures that happen: "handler", "killed", "aborted"

VARIABLES job,       \* job[j]: the row of crawl_jobs
          disc,      \* disc[j]: urls of its discovered_urls rows, oldest first
          results,   \* results[j]: number of its crawl_result_items rows
          locked,    \* rows of crawl_jobs held by an open transaction
          removed    \* history: discovered rows of j that its user deleted

store == <<job, disc, results, locked, removed>>

Statuses == {"queued", "running", "completed", "failed", "cancelled"}
Active   == {"queued", "running"}
Terminal == Statuses \ Active

(* LINK_EXTRACTION is two loops, told apart by link_extraction_strategy.    *)
AllModes == {"sitemap", "shallow", "deep", "crawler", "scraper"}
Scrapes(m) == m \in {"crawler", "scraper"}

Seeds == {S \in SUBSET Urls : IsFiniteSet(S)}    \* seed_urls, a list without repeats

NoRow(why) == [status |-> why, mode |-> "sitemap", seeds |-> {},
               started |-> FALSE, finished |-> FALSE, error |-> FALSE,
               urls_discovered |-> 0, urls_scraped |-> 0]

JobRow == [status : Statuses \cup {"unused", "deleted"}, mode : AllModes,
           seeds : Seeds, started : BOOLEAN, finished : BOOLEAN,
           error : BOOLEAN, urls_discovered : Nat, urls_scraped : Nat]

StoreTypeOK == /\ job \in [Jobs -> JobRow]
               /\ disc \in [Jobs -> Seq(Urls)]
               /\ results \in [Jobs -> Nat]
               /\ locked \in SUBSET Jobs
               /\ removed \in [Jobs -> Nat]

StoreInit == /\ job = [j \in Jobs |-> NoRow("unused")]
             /\ disc = [j \in Jobs |-> << >>]
             /\ results = [j \in Jobs |-> 0]
             /\ locked = {}
             /\ removed = [j \in Jobs |-> 0]

Exists(j) == job[j].status \in Statuses

(* INSERT INTO crawl_jobs: the request's columns, the defaults for the rest. *)
InsertJob(j, mode, seeds) ==
    /\ job' = [job EXCEPT ![j] = [NoRow("queued") EXCEPT !.mode = mode,
                                                         !.seeds = seeds]]
    /\ UNCHANGED <<disc, results, locked, removed>>

(* Mutant: finished_at is forgotten.                                        *)
WriteOutcomeUnstamped(j, status) ==
    job' = [job EXCEPT ![j].status = status,
                       ![j].error = @ \/ status = "failed"]

(* UPDATE crawl_jobs SET status, finished_at and, for a failure, error.     *)
WriteOutcome(j, status) ==
    job' = [job EXCEPT ![j].status = status,
                       ![j].finished = TRUE,
                       ![j].error = @ \/ status = "failed"]

(* One flush of the worker's session: a discovered_urls row per page, a     *)
(* crawl_result_items row too in the modes that scrape, and the counters,   *)
(* written as the absolute values the session holds.                        *)
WritePages(j, pages, mode, discovered, scraped) ==
    /\ job' = [job EXCEPT ![j].urls_discovered = discovered,
                          ![j].urls_scraped = scraped]
    /\ disc' = [disc EXCEPT ![j] = @ \o pages]
    /\ results' = [results EXCEPT ![j] = IF Scrapes(mode) THEN @ + Len(pages) ELSE @]
    /\ UNCHANGED removed

(* DELETE of a job: its children go with it (cascade, ON DELETE CASCADE).   *)
(* Deleting a row that is already gone affects no row and only warns.       *)
DeleteJob(j) ==
    /\ job' = [job EXCEPT ![j] = NoRow("deleted")]
    /\ disc' = [disc EXCEPT ![j] = << >>]
    /\ results' = [results EXCEPT ![j] = 0]
    /\ removed' = [removed EXCEPT ![j] = 0]
    /\ UNCHANGED locked

(* Mutant: both counters are taken down, whether or not the mode scrapes.   *)
DeleteDiscoveredCounted(j, i) ==
    /\ disc' = [disc EXCEPT ![j] = RemoveAt(@, i)]
    /\ job' = [job EXCEPT ![j].urls_discovered = @ - 1, ![j].urls_scraped = @ - 1]
    /\ UNCHANGED <<results, locked, removed>>

(* DELETE of one discovered_urls row: the job's counter is left alone.      *)
DeleteDiscovered(j, i) ==
    /\ disc' = [disc EXCEPT ![j] = RemoveAt(@, i)]
    /\ removed' = [removed EXCEPT ![j] = @ + 1]
    /\ UNCHANGED <<job, results, locked>>
=============================================================================
