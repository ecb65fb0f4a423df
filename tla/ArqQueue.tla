------------------------------ MODULE ArqQueue ------------------------------
(***************************************************************************)
(* The Redis job queue as arq keeps it (a library: modelled from how       *)
(* src/src/worker/settings.py and the routers use it).  An id stays in the *)
(* queue until its execution has finished, so an execution lost with its   *)
(* worker is delivered again; each delivery counts as a try, and an id     *)
(* whose tries are used up is dropped without running.                     *)
(***************************************************************************)
EXTENDS Integers, FiniteSets

CONSTANTS MaxTries,  \* arq's max_tries
          MaxJobs    \* WorkerSettings.max_jobs: executions at one time

ASSUME QueueAssumption == MaxTries \in Nat \ {0} /\ MaxJobs \in Nat \ {0}

VARIABLES queue,     \* ids enqueued and not finished
          tries      \* tries[j]: deliveries of j so far (0 once finished)

arq == <<queue, tries>>

(* pool.enqueue_job("run_crawl_job", id, _job_id=id)                        *)
QueuePut(j) == queue' = queue \cup {j} /\ UNCHANGED tries

(* Delivery to a free slot of the worker.                                   *)
QueueTake(j, running) ==
    /\ j \in queue \ running /\ Cardinality(running) < MaxJobs
    /\ tries[j] < MaxTries
    /\ tries' = [tries EXCEPT ![j] = @ + 1]
    /\ UNCHANGED queue

(* The coroutine returned or raised: arq drops the id and its retry count.  *)
QueueDone(j) == /\ queue' = queue \ {j}
                /\ tries' = [tries EXCEPT ![j] = 0]

(* job_try > max_tries: the id is dropped, run_crawl_job is not called.     *)
QueueGiveUp(j, running) == /\ j \in queue \ running /\ tries[j] >= MaxTries
                           /\ QueueDone(j)
=============================================================================
