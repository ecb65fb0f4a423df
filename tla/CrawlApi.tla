------------------------------ MODULE CrawlApi ------------------------------
(***************************************************************************)
(* The request handlers of src/src/api/v1/crawler/router.py that change    *)
(* state.  A handler reads rows in one statement and commits in another    *)
(* under READ COMMITTED, with an await in between: each is a step of its   *)
(* own.  Every handler first selects the job by id AND user_id and answers *)
(* 404 otherwise, so a request of another user changes nothing and only    *)
(* the owner's requests are modelled.                                      *)
(***************************************************************************)
EXTENDS CrawlStore, ArqQueue

CONSTANTS Handlers,  \* requests served at one time
          NewModes   \* modes asked for by POST /crawls

ASSUME ApiAssumption == NewModes \subseteq AllModes

VARIABLE req         \* req[h]: what request h still has to do

Free == [op |-> "free"]
Requests == {Free} \cup [op : {"insert"}, job : Jobs, mode : AllModes, seeds : Seeds]
                   \cup [op : {"enqueue", "cancel", "delete"}, job : Jobs]

Holds(h, op) == req[h].op = op
Becomes(h, r) == req' = [req EXCEPT ![h] = r]

(* Mutant: a retry reuses the id of an old job.                             *)
FreshIdOrOld(j) == \A h \in Handlers : Holds(h, "insert") => req[h].job # j

(* uuid.uuid4(): an id of no row, past or present, and of no other request. *)
FreshId(j) == /\ job[j].status = "unused"
              /\ \A h \in Handlers : Holds(h, "insert") => req[h].job # j

(* POST /crawls: the row is committed QUEUED, then enqueued.                *)
CreateCrawl(h, j, mode) ==
    /\ Holds(h, "free") /\ FreshId(j)
    /\ InsertJob(j, mode, {})
    /\ Becomes(h, [op |-> "enqueue", job |-> j])
    /\ UNCHANGED arq

(* POST /crawls/{src}/retry, up to the commit: the status is tested and the *)
(* request copied from the row as it was read.                              *)
RetryRead(h, src, j) ==
    /\ Holds(h, "free") /\ FreshId(j)
    /\ job[src].status \in {"failed", "cancelled"}
    /\ Becomes(h, [op |-> "insert", job |-> j,
                   mode |-> job[src].mode, seeds |-> job[src].seeds])
    /\ UNCHANGED <<store, arq>>

(* POST /crawls/{src}/scrape, up to the commit: 400 with nothing discovered, *)
(* else each distinct url once (dict.fromkeys).                             *)
ScrapeRead(h, src, j) ==
    /\ Holds(h, "free") /\ FreshId(j)
    /\ Exists(src) /\ disc[src] # << >>
    /\ Becomes(h, [op |-> "insert", job |-> j,
                   mode |-> "scraper", seeds |-> ToSet(disc[src])])
    /\ UNCHANGED <<store, arq>>

InsertRead(h) ==
    /\ Holds(h, "insert")
    /\ InsertJob(req[h].job, req[h].mode, req[h].seeds)
    /\ Becomes(h, [op |-> "enqueue", job |-> req[h].job])
    /\ UNCHANGED arq

(* db.refresh and enqueue_job.  A refresh that raises because the row was   *)
(* deleted meanwhile ends as HandlerDies does.                              *)
Enqueue(h) == /\ Holds(h, "enqueue")
              /\ QueuePut(req[h].job)
              /\ Becomes(h, Free)
              /\ UNCHANGED store

(* POST /crawls/{j}/cancel reads an active job ...                          *)
CancelRead(h, j) == /\ Holds(h, "free") /\ job[j].status \in Active
                    /\ Becomes(h, [op |-> "cancel", job |-> j])
                    /\ UNCHANGED <<store, arq>>

(* ... and commits CANCELLED whatever the row says by then.  The UPDATE     *)
(* waits for a row lock; on a row that is gone it raises, a 500.            *)
CancelCommit(h) == LET j == req[h].job IN
    /\ Holds(h, "cancel") /\ j \notin locked
    /\ IF Exists(j) THEN WriteOutcome(j, "cancelled") ELSE UNCHANGED job
    /\ Becomes(h, Free)
    /\ UNCHANGED <<disc, results, locked, removed, arq>>

(* DELETE /crawls/{j} reads an inactive job (409 otherwise) ...             *)
DeleteRead(h, j) == /\ Holds(h, "free") /\ job[j].status \in Terminal
                    /\ Becomes(h, [op |-> "delete", job |-> j])
                    /\ UNCHANGED <<store, arq>>

(* ... and deletes it, whatever the row says by then.                       *)
DeleteCommit(h) == /\ Holds(h, "delete") /\ req[h].job \notin locked
                   /\ DeleteJob(req[h].job)
                   /\ Becomes(h, Free)
                   /\ UNCHANGED arq

(* DELETE /crawls/{j}/discovered/{i}.  A row never changes once inserted,   *)
(* and deleting it twice is harmless: the read and the commit are one step. *)
RemoveDiscovered(j, i) == /\ i \in 1 .. Len(disc[j])
                          /\ DeleteDiscovered(j, i)
                          /\ UNCHANGED <<arq, req>>

(* The API process dies, or Redis or PostgreSQL fails the request.          *)
HandlerDies(h) == /\ "handler" \in Faults /\ ~Holds(h, "free")
                  /\ Becomes(h, Free)
                  /\ UNCHANGED <<store, arq>>
=============================================================================
