--------------------------- MODULE CrawlLifecycle ---------------------------
(***************************************************************************)
(* What the service promises about the status of a job, whatever requests, *)
(* redeliveries and failures interleave.  A job is created QUEUED and is   *)
(* never QUEUED again.  Only an attempt writes RUNNING, COMPLETED or       *)
(* FAILED: it is admitted on a job that is not CANCELLED, starts at most   *)
(* once and settles at most once.  A user cancels a job at any time, and   *)
(* deletes it at any time after it was QUEUED.                             *)
(*                                                                         *)
(* What it does not promise: that a CANCELLED job stays so (an attempt     *)
(* admitted before the cancel starts or settles over it), or that a        *)
(* finished one does (a late cancel, a redelivery).                        *)
(***************************************************************************)
CONSTANT Jobs

VARIABLES status,    \* status[j], "unused" before and "deleted" after its row
          attempt    \* attempt[j]: "none", "admitted" or "started"

Row(j) == status[j] \notin {"unused", "deleted"}

SetStatus(j, s) == status' = [status EXCEPT ![j] = s]
SetAttempt(j, a) == attempt' = [attempt EXCEPT ![j] = a]

Init == /\ status = [j \in Jobs |-> "unused"]
        /\ attempt = [j \in Jobs |-> "none"]

Create(j) == status[j] = "unused" /\ SetStatus(j, "queued") /\ UNCHANGED attempt

Admit(j) == /\ attempt[j] = "none" /\ Row(j) /\ status[j] # "cancelled"
            /\ SetAttempt(j, "admitted") /\ UNCHANGED status

(* A cancel that fell between Admit and Start survives on a job that was    *)
(* RUNNING before (a redelivery), and is overwritten on any other.          *)
Start(j) == /\ attempt[j] = "admitted" /\ Row(j)
            /\ \/ SetStatus(j, "running")
               \/ status[j] = "cancelled" /\ UNCHANGED status
            /\ SetAttempt(j, "started")

End(j) == /\ attempt[j] = "started" /\ Row(j)
          /\ \E s \in {"completed", "failed", "cancelled"} : SetStatus(j, s)
          /\ SetAttempt(j, "none")

Abandon(j) == attempt[j] # "none" /\ SetAttempt(j, "none") /\ UNCHANGED status

Cancel(j) == Row(j) /\ SetStatus(j, "cancelled") /\ UNCHANGED attempt

Delete(j) == /\ Row(j) /\ status[j] # "queued"
             /\ SetStatus(j, "deleted") /\ UNCHANGED attempt

Next == \E j \in Jobs : \/ Create(j) \/ Admit(j) \/ Start(j) \/ End(j)
                        \/ Abandon(j) \/ Cancel(j) \/ Delete(j)

Spec == Init /\ [][Next]_<<status, attempt>>
=============================================================================
