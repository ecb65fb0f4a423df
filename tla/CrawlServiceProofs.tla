------------------------- MODULE CrawlServiceProofs -------------------------
(* Theorems about CrawlService, for every value of its constants.           *)
EXTENDS CrawlService, FiniteSetTheorems, TLAPS

(* ToSet of a sequence of urls is a finite set of urls: what a scrape job   *)
(* is seeded with (list(dict.fromkeys(...)), router.py:310).                *)
LEMMA SeedsOfRows == ASSUME NEW s \in Seq(Urls) PROVE ToSet(s) \in Seeds
<1>1. ToSet(s) \in SUBSET Urls  BY DEF ToSet
<1>2. IsFiniteSet(DOMAIN s)
  <2>1. DOMAIN s = 1 .. Len(s)  OBVIOUS
  <2> QED  BY <2>1, FS_Interval
<1>3. IsFiniteSet(ToSet(s))
  <2> DEFINE f == [i \in DOMAIN s |-> s[i]]
  <2>1. f \in Surjection(DOMAIN s, ToSet(s))  BY DEF ToSet, Surjection
  <2> QED  BY <1>2, <2>1, FS_Surjection
<1> QED  BY <1>1, <1>3 DEF Seeds

(* Removing a row keeps a sequence of urls, one shorter.                    *)
LEMMA RowRemoved ==
    ASSUME NEW s \in Seq(Urls), NEW i \in 1 .. Len(s)
    PROVE  RemoveAt(s, i) \in Seq(Urls) /\ Len(RemoveAt(s, i)) = Len(s) - 1
<1> DEFINE before == SubSeq(s, 1, i-1)
           after == SubSeq(s, i+1, Len(s))
<1>1. before \in Seq(Urls) /\ Len(before) = i - 1  OBVIOUS
<1>2. after \in Seq(Urls) /\ Len(after) = Len(s) - i  OBVIOUS
<1>3. RemoveAt(s, i) = before \o after  BY DEF RemoveAt
<1> HIDE DEF before, after
<1>4. before \o after \in Seq(Urls) /\ Len(before \o after) = Len(before) + Len(after)
  BY <1>1, <1>2
<1> QED  BY <1>1, <1>2, <1>3, <1>4

-----------------------------------------------------------------------------
LEMMA InitTypeOK == Init => TypeOK
BY QueueAssumption, FS_EmptySet
   DEF Init, TypeOK, StoreInit, StoreTypeOK, NoRow, JobRow, Seeds, Statuses, AllModes,
       Free, Requests, At, ExecRecord, PCs

(* The types of the pieces the steps are built from.                        *)
LEMMA InsertJobTypeOK ==
    ASSUME StoreTypeOK, NEW j \in Jobs, NEW m \in AllModes, NEW seeds \in Seeds,
           InsertJob(j, m, seeds)
    PROVE  StoreTypeOK'
BY DEF StoreTypeOK, InsertJob, NoRow, JobRow, Statuses

LEMMA OutcomeTypeOK ==
    ASSUME NEW j \in Jobs, NEW st \in Statuses \cup {"unused"},
           job \in [Jobs -> JobRow], WriteOutcome(j, st)
    PROVE  job' \in [Jobs -> JobRow]
<1> DEFINE failed == job[j].error \/ st = "failed"
           r == [job[j] EXCEPT !.status = st, !.finished = TRUE, !.error = failed]
<1>1. failed \in BOOLEAN  OBVIOUS
<1>2. job' = [job EXCEPT ![j] = r]  BY DEF WriteOutcome
<1> HIDE DEF failed
<1>3. r \in JobRow  BY <1>1 DEF JobRow
<1> QED  BY <1>2, <1>3

LEMMA RequestTypeOK ==
    ASSUME TypeOK, NEW h \in Handlers, NEW j \in Jobs, Request(h, j)
    PROVE  TypeOK'
<1> USE DEF Becomes
<1>1. ASSUME NEW mode \in NewModes, CreateCrawl(h, j, mode), UNCHANGED exec PROVE TypeOK'
  <2>1. mode \in AllModes /\ {} \in Seeds  BY <1>1, ApiAssumption, FS_EmptySet DEF Seeds
  <2>2. StoreTypeOK'  BY <1>1, <2>1, InsertJobTypeOK DEF TypeOK, CreateCrawl
  <2> QED  BY <1>1, <2>2 DEF TypeOK, CreateCrawl, arq, Requests
<1>2. ASSUME NEW src \in Jobs, RetryRead(h, src, j), UNCHANGED exec PROVE TypeOK'
  <2>1. job[src].mode \in AllModes /\ job[src].seeds \in Seeds
    BY DEF TypeOK, StoreTypeOK, JobRow
  <2> QED  BY <1>2, <2>1 DEF TypeOK, StoreTypeOK, RetryRead, store, arq, Requests
<1>3. ASSUME NEW src \in Jobs, ScrapeRead(h, src, j), UNCHANGED exec PROVE TypeOK'
  <2>1. ToSet(disc[src]) \in Seeds  BY SeedsOfRows DEF TypeOK, StoreTypeOK
  <2> QED
    BY <1>3, <2>1 DEF TypeOK, StoreTypeOK, ScrapeRead, store, arq, Requests, AllModes
<1>4. ASSUME CancelRead(h, j), UNCHANGED exec PROVE TypeOK'
  BY <1>4 DEF TypeOK, StoreTypeOK, CancelRead, store, arq, Requests
<1>5. ASSUME DeleteRead(h, j), UNCHANGED exec PROVE TypeOK'
  BY <1>5 DEF TypeOK, StoreTypeOK, DeleteRead, store, arq, Requests
<1>6. ASSUME NEW i \in 1 .. Len(disc[j]), RemoveDiscovered(j, i), UNCHANGED exec
      PROVE TypeOK'
  <2>1. RemoveAt(disc[j], i) \in Seq(Urls)  BY RowRemoved DEF TypeOK, StoreTypeOK
  <2> QED
    BY <1>6, <2>1 DEF TypeOK, StoreTypeOK, RemoveDiscovered, DeleteDiscovered, arq
<1> QED  BY <1>1, <1>2, <1>3, <1>4, <1>5, <1>6 DEF Request

LEMMA HandlerTypeOK ==
    ASSUME TypeOK, NEW h \in Handlers, HandlerStep(h)
    PROVE  TypeOK'
<1> USE DEF Becomes
<1>1. CASE InsertRead(h) /\ UNCHANGED exec
  <2>1. /\ req[h].job \in Jobs /\ req[h].mode \in AllModes /\ req[h].seeds \in Seeds
    BY <1>1 DEF TypeOK, Requests, InsertRead, Holds, Free
  <2>2. StoreTypeOK'  BY <1>1, <2>1, InsertJobTypeOK DEF TypeOK, InsertRead
  <2> QED  BY <1>1, <2>1, <2>2 DEF TypeOK, InsertRead, arq, Requests
<1>2. CASE Enqueue(h) /\ UNCHANGED exec
  <2>1. req[h].job \in Jobs  BY <1>2 DEF TypeOK, Requests, Enqueue, Holds, Free
  <2> QED
    BY <1>2, <2>1 DEF TypeOK, StoreTypeOK, Enqueue, QueuePut, store, Requests
<1>3. CASE CancelCommit(h) /\ UNCHANGED exec
  <2>1. req[h].job \in Jobs  BY <1>3 DEF TypeOK, Requests, CancelCommit, Holds, Free
  <2>2. job' \in [Jobs -> JobRow]
    BY <1>3, <2>1, OutcomeTypeOK DEF TypeOK, StoreTypeOK, CancelCommit, Statuses
  <2> QED  BY <1>3, <2>2 DEF TypeOK, StoreTypeOK, CancelCommit, arq, Requests
<1>4. CASE DeleteCommit(h) /\ UNCHANGED exec
  <2>1. NoRow("deleted") \in JobRow
    BY FS_EmptySet DEF NoRow, JobRow, Seeds, AllModes
  <2>2. << >> \in Seq(Urls)  OBVIOUS
  <2>3. StoreTypeOK'
    BY <1>4, <2>1, <2>2 DEF TypeOK, StoreTypeOK, DeleteCommit, DeleteJob
  <2> QED  BY <1>4, <2>3 DEF TypeOK, DeleteCommit, arq, Requests
<1> QED  BY <1>1, <1>2, <1>3, <1>4 DEF HandlerStep

(* The steps of the worker either close its session or edit its record.     *)
LEMMA LeavesTypeOK ==
    ASSUME NEW j \in Jobs, NEW pc \in PCs, exec \in [Jobs -> ExecRecord], Leaves(j, pc)
    PROVE  exec' \in [Jobs -> ExecRecord]
BY DEF Leaves, At, ExecRecord, AllModes

LEMMA PcTypeOK ==
    ASSUME NEW j \in Jobs, NEW pc \in PCs, exec \in [Jobs -> ExecRecord],
           exec' = [exec EXCEPT ![j].pc = pc]
    PROVE  exec' \in [Jobs -> ExecRecord]
BY DEF ExecRecord

LEMMA SettlesTypeOK ==
    ASSUME NEW j \in Jobs, NEW st \in Statuses, exec \in [Jobs -> ExecRecord],
           Settles(j, st)
    PROVE  exec' \in [Jobs -> ExecRecord]
<1> DEFINE r == [exec[j] EXCEPT !.pc = "settle", !.status = st]
<1>1. r \in ExecRecord  BY DEF ExecRecord, PCs
<1>2. exec' = [exec EXCEPT ![j] = r]  BY DEF Settles
<1> QED  BY <1>1, <1>2

LEMMA WritePagesTypeOK ==
    ASSUME StoreTypeOK, NEW j \in Jobs, NEW pages \in Seq(Urls), NEW mode,
           NEW d \in Nat, NEW s \in Nat,
           WritePages(j, pages, mode, d, s), Release(j)
    PROVE  StoreTypeOK'
<1>1. disc[j] \o pages \in Seq(Urls) /\ Len(pages) \in Nat  BY DEF StoreTypeOK
<1>2. disc' \in [Jobs -> Seq(Urls)]  BY <1>1 DEF StoreTypeOK, WritePages
<1>3. job' \in [Jobs -> JobRow]
  <2> DEFINE r == [job[j] EXCEPT !.urls_discovered = d, !.urls_scraped = s]
  <2>1. job[j] \in JobRow /\ job \in [Jobs -> JobRow]  BY DEF StoreTypeOK
  <2>2. r \in JobRow  BY <2>1 DEF JobRow
  <2>3. job' = [job EXCEPT ![j] = r]  BY DEF WritePages
  <2> HIDE DEF r
  <2> QED  BY <2>1, <2>2, <2>3
<1>4. results' \in [Jobs -> Nat]  BY <1>1 DEF StoreTypeOK, WritePages
<1> QED  BY <1>2, <1>3, <1>4 DEF StoreTypeOK, WritePages, Release

LEMMA WorkerTypeOK ==
    ASSUME TypeOK, NEW j \in Jobs, WorkerStep(j)
    PROVE  TypeOK'
<1> USE DEF TypeOK
<1>0. exec[j] \in ExecRecord /\ job[j] \in JobRow  BY DEF StoreTypeOK
<1>1. CASE Deliver(j) /\ UNCHANGED req
  <2>1. exec' \in [Jobs -> ExecRecord]  BY <1>1, LeavesTypeOK DEF Deliver, PCs
  <2>2. tries[j] < MaxTries => tries[j] + 1 \in 0 .. MaxTries
    BY QueueAssumption
  <2> QED
    BY <1>1, <2>1, <2>2 DEF Deliver, QueueTake, StoreTypeOK, store
<1>2. CASE GiveUp(j) /\ UNCHANGED req
  BY <1>2, QueueAssumption DEF GiveUp, QueueGiveUp, QueueDone, StoreTypeOK, store
<1>3. CASE GetSkips(j) /\ UNCHANGED req
  <2>1. exec' \in [Jobs -> ExecRecord]  BY <1>3, LeavesTypeOK DEF GetSkips, PCs
  <2> QED  BY <1>3, <2>1 DEF GetSkips, StoreTypeOK, store, arq
<1>4. CASE Get(j) /\ UNCHANGED req
  <2>1. Cardinality(job[j].seeds) \in Nat
    BY <1>0, FS_CardinalityType DEF JobRow, Seeds
  <2> DEFINE left == IF job[j].mode = "scraper" THEN Cardinality(job[j].seeds)
                                               ELSE MaxFound
  <2>3. left \in Nat  BY <2>1, WorkerAssumption
  <2>4. exec' = [exec EXCEPT ![j] =
                   [At("begin") EXCEPT !.mode = job[j].mode, !.status = job[j].status,
                                       !.discovered = job[j].urls_discovered,
                                       !.scraped = job[j].urls_scraped, !.left = left]]
    BY <1>4 DEF Get, Loads
  <2> HIDE DEF left
  <2>5. /\ job[j].mode \in AllModes /\ job[j].status \in Statuses
        /\ job[j].urls_discovered \in Nat /\ job[j].urls_scraped \in Nat
    BY <1>4, <1>0 DEF Get, Exists, JobRow
  <2> DEFINE r == [At("begin") EXCEPT !.mode = job[j].mode, !.status = job[j].status,
                                      !.discovered = job[j].urls_discovered,
                                      !.scraped = job[j].urls_scraped, !.left = left]
  <2>6. At("begin") \in ExecRecord  BY DEF At, ExecRecord, PCs, AllModes
  <2>7. r \in ExecRecord  BY <2>3, <2>5, <2>6 DEF ExecRecord
  <2>2. exec' \in [Jobs -> ExecRecord]  BY <2>4, <2>7
  <2> QED  BY <1>4, <2>2 DEF Get, StoreTypeOK, store, arq
<1>5. CASE Begin(j) /\ UNCHANGED req
  <2>1. job' \in [Jobs -> JobRow]  BY <1>5, <1>0 DEF Begin, StoreTypeOK, JobRow, Statuses
  <2>2. exec' \in [Jobs -> ExecRecord]
    BY <1>5, <1>0 DEF Begin, ExecRecord, PCs, Statuses
  <2> QED  BY <1>5, <2>1, <2>2 DEF Begin, StoreTypeOK, arq
<1>6. CASE LogStart(j) /\ UNCHANGED req
  <2>1. exec' \in [Jobs -> ExecRecord]  BY <1>6, PcTypeOK DEF LogStart, PCs
  <2> QED  BY <1>6, <2>1 DEF LogStart, StoreTypeOK, store, arq
<1>7. CASE Build(j) /\ UNCHANGED req
  <2>1. exec' \in [Jobs -> ExecRecord]  BY <1>7, PcTypeOK DEF Build, PCs
  <2> QED  BY <1>7, <2>1 DEF Build, StoreTypeOK, store, arq
<1>8. CASE BuildRaises(j) /\ UNCHANGED req
  <2>1. exec' \in [Jobs -> ExecRecord]  BY <1>8, SettlesTypeOK DEF BuildRaises, Statuses
  <2> QED  BY <1>8, <2>1 DEF BuildRaises, StoreTypeOK, store, arq
<1>9. ASSUME NEW u \in Urls, Check(j, u), UNCHANGED req PROVE TypeOK'
  <2>1. Append(exec[j].pend, u) \in Seq(Urls)  BY <1>0 DEF ExecRecord
  <2>2. exec[j].left - 1 \in Nat  BY <1>9, <1>0 DEF Check, ExecRecord
  <2>3. exec' \in [Jobs -> ExecRecord]
    <3>1. CASE job[j].status = "cancelled"
      <4>1. exec' = [exec EXCEPT ![j].pc = "warn"]  BY <1>9, <3>1 DEF Check
      <4> QED  BY <4>1, PcTypeOK DEF PCs
    <3>2. CASE job[j].status # "cancelled"
      <4> DEFINE pc == IF exec[j].mode = "shallow" THEN "next" ELSE "save"
                 left == exec[j].left - 1
                 pend == Append(exec[j].pend, u)
                 discovered == exec[j].discovered + 1
                 scraped == IF Scrapes(exec[j].mode) THEN exec[j].scraped + 1
                                                     ELSE exec[j].scraped
      <4>1. /\ pc \in PCs /\ left \in Nat /\ pend \in Seq(Urls)
            /\ discovered \in Nat /\ scraped \in Nat
        BY <2>1, <2>2, <1>0 DEF ExecRecord, PCs
      <4>2. exec' = [exec EXCEPT ![j].pc = pc, ![j].left = left, ![j].pend = pend,
                                 ![j].discovered = discovered, ![j].scraped = scraped]
        BY <1>9, <3>2 DEF Check, AddsPage
      <4> HIDE DEF pc, left, pend, discovered, scraped
      <4> QED  BY <4>1, <4>2, <1>0 DEF ExecRecord
    <3> QED  BY <3>1, <3>2
  <2> QED  BY <1>9, <2>3 DEF Check, Flushes, KeepsRows, StoreTypeOK, arq
<1>10. CASE EngineStops(j) /\ UNCHANGED req
  <2>1. exec' \in [Jobs -> ExecRecord]
    BY <1>10, PcTypeOK, SettlesTypeOK DEF EngineStops, PCs, Statuses
  <2> QED  BY <1>10, <2>1 DEF EngineStops, StoreTypeOK, store, arq
<1>11. CASE EngineRaises(j) /\ UNCHANGED req
  <2>1. exec' \in [Jobs -> ExecRecord]  BY <1>11, SettlesTypeOK DEF EngineRaises, Statuses
  <2> QED  BY <1>11, <2>1 DEF EngineRaises, StoreTypeOK, store, arq
<1>12. /\ exec[j].pend \in Seq(Urls) /\ exec[j].late \in Nat /\ Late(j) \in Nat
       /\ exec[j].discovered \in Nat /\ exec[j].scraped \in Nat /\ << >> \in Seq(Urls)
  BY <1>0 DEF ExecRecord, Late
<1>13. CASE Save(j) /\ UNCHANGED req
  <2>1. StoreTypeOK'  BY <1>13, <1>12, WritePagesTypeOK DEF Save, CommitsPages
  <2> DEFINE shallow == exec[j].mode = "shallow"
             pc == IF shallow THEN "settle" ELSE "next"
             st == IF shallow THEN "completed" ELSE exec[j].status
             late == exec[j].late + Late(j)
  <2>3. /\ pc \in PCs /\ st \in Statuses \cup {"unused"} /\ late \in Nat
    BY <1>0, <1>12 DEF ExecRecord, PCs, Statuses
  <2>4. exec' = [exec EXCEPT ![j].pc = pc, ![j].status = st, ![j].pend = << >>,
                             ![j].late = late]
    BY <1>13 DEF Save
  <2> HIDE DEF pc, st, late
  <2>2. exec' \in [Jobs -> ExecRecord]  BY <2>3, <2>4, <1>0, <1>12 DEF ExecRecord
  <2> QED  BY <1>13, <2>1, <2>2 DEF Save, CommitsPages, arq
<1>14. CASE Warn(j) /\ UNCHANGED req
  <2>1. StoreTypeOK'  BY <1>14, <1>12, WritePagesTypeOK DEF Warn, CommitsPages
  <2> DEFINE late == exec[j].late + Late(j)
  <2>3. late \in Nat  BY <1>12
  <2>4. exec' = [exec EXCEPT ![j].pc = "settle", ![j].status = "cancelled",
                             ![j].pend = << >>, ![j].late = late]
    BY <1>14 DEF Warn
  <2> HIDE DEF late
  <2>2. exec' \in [Jobs -> ExecRecord]
    BY <2>3, <2>4, <1>0, <1>12 DEF ExecRecord, PCs, Statuses
  <2> QED  BY <1>14, <2>1, <2>2 DEF Warn, CommitsPages, arq
<1>15. CASE CloseRaises(j) /\ UNCHANGED req
  <2>1. exec' \in [Jobs -> ExecRecord]  BY <1>15, SettlesTypeOK DEF CloseRaises, Statuses
  <2> QED  BY <1>15, <2>1 DEF CloseRaises, StoreTypeOK, store, arq
<1>16. CASE Settle(j) /\ UNCHANGED req
  <2>1. exec' \in [Jobs -> ExecRecord]  BY <1>16, LeavesTypeOK DEF Settle, PCs
  <2>2. job' \in [Jobs -> JobRow]
    BY <1>16, <1>0, OutcomeTypeOK DEF Settle, StoreTypeOK, ExecRecord
  <2> QED  BY <1>16, <2>1, <2>2 DEF Settle, StoreTypeOK, arq
<1>17. CASE RowGone(j) /\ UNCHANGED req
  <2>1. exec' \in [Jobs -> ExecRecord]  BY <1>17, LeavesTypeOK DEF RowGone, PCs
  <2> QED  BY <1>17, <2>1 DEF RowGone, Release, KeepsRows, StoreTypeOK, arq
<1>18. CASE ArqFinish(j) /\ UNCHANGED req
  <2>1. exec' \in [Jobs -> ExecRecord]  BY <1>18, LeavesTypeOK DEF ArqFinish, PCs
  <2>2. tries' \in [Jobs -> 0 .. MaxTries] /\ queue' \in SUBSET Jobs
    BY <1>18, QueueAssumption DEF ArqFinish, QueueDone
  <2> QED  BY <1>18, <2>1, <2>2 DEF ArqFinish, StoreTypeOK, store
<1> QED
  BY <1>1, <1>2, <1>3, <1>4, <1>5, <1>6, <1>7, <1>8, <1>9, <1>10, <1>11, <1>13, <1>14,
     <1>15, <1>16, <1>17, <1>18 DEF WorkerStep

LEMMA FailureTypeOK == ASSUME TypeOK, Failure PROVE TypeOK'
<1>1. ASSUME NEW h \in Handlers, HandlerDies(h), UNCHANGED exec PROVE TypeOK'
  BY <1>1 DEF TypeOK, StoreTypeOK, HandlerDies, Becomes, Requests, store, arq
<1>2. ASSUME NEW j \in Jobs, Killed(j), UNCHANGED req PROVE TypeOK'
  <2>1. exec' \in [Jobs -> ExecRecord]  BY <1>2, LeavesTypeOK DEF Killed, PCs, TypeOK
  <2> QED  BY <1>2, <2>1 DEF TypeOK, StoreTypeOK, Killed, Release, KeepsRows, arq
<1>3. ASSUME NEW j \in Jobs, Aborted(j), UNCHANGED req PROVE TypeOK'
  <2>1. exec' \in [Jobs -> ExecRecord]  BY <1>3, LeavesTypeOK DEF Aborted, PCs, TypeOK
  <2> QED  BY <1>3, <2>1 DEF TypeOK, StoreTypeOK, Aborted, Release, KeepsRows, arq
<1> QED  BY <1>1, <1>2, <1>3 DEF Failure

LEMMA NextTypeOK == TypeOK /\ [Next]_vars => TypeOK'
<1> SUFFICES ASSUME TypeOK, [Next]_vars PROVE TypeOK'  OBVIOUS
<1>1. CASE UNCHANGED vars
  BY <1>1 DEF TypeOK, StoreTypeOK, vars, store, arq
<1>2. CASE Next
  BY <1>2, RequestTypeOK, HandlerTypeOK, WorkerTypeOK, FailureTypeOK DEF Next
<1> QED  BY <1>1, <1>2

(* Every variable keeps its type: in particular no counter goes below zero, *)
(* and no job is delivered more often than max_tries.                       *)
THEOREM TypeCorrect == Spec => []TypeOK
BY InitTypeOK, NextTypeOK, PTL DEF Spec

-----------------------------------------------------------------------------
(* Requests that go on hold a job; each step touches the rows of one job.   *)
LEMMA RequestHasJob ==
    ASSUME TypeOK, NEW h \in Handlers, ~Holds(h, "free")
    PROVE  /\ req[h].job \in Jobs
           /\ Holds(h, "insert") => req[h].mode \in AllModes /\ req[h].seeds \in Seeds
BY DEF TypeOK, Requests, Holds, Free

(* A step of one execution, or of one request, touches one job.             *)
Untouched(k) == /\ job'[k] = job[k] /\ disc'[k] = disc[k] /\ results'[k] = results[k]
                /\ removed'[k] = removed[k] /\ exec'[k] = exec[k]
                /\ (k \in locked') = (k \in locked)

LEMMA WorkerFrame ==
    ASSUME TypeOK, NEW j \in Jobs, WorkerStep(j), NEW k \in Jobs \ {j}
    PROVE  Untouched(k) /\ req' = req
<1> USE DEF TypeOK, StoreTypeOK, Untouched
<1>1. CASE Deliver(j) /\ UNCHANGED req
  BY <1>1 DEF Deliver, QueueTake, Leaves, At, store
<1>2. CASE GiveUp(j) /\ UNCHANGED req
  BY <1>2 DEF GiveUp, QueueGiveUp, QueueDone, Running, store
<1>3. CASE GetSkips(j) /\ UNCHANGED req
  BY <1>3 DEF GetSkips, Leaves, At, store, arq
<1>4. CASE Get(j) /\ UNCHANGED req
  BY <1>4 DEF Get, Loads, At, store, arq
<1>5. CASE Begin(j) /\ UNCHANGED req
  BY <1>5 DEF Begin, arq
<1>6. CASE LogStart(j) /\ UNCHANGED req
  BY <1>6 DEF LogStart, store, arq
<1>7. CASE Build(j) /\ UNCHANGED req
  BY <1>7 DEF Build, store, arq
<1>8. CASE BuildRaises(j) /\ UNCHANGED req
  BY <1>8 DEF BuildRaises, Settles, store, arq
<1>9. ASSUME NEW u \in Urls, Check(j, u), UNCHANGED req PROVE Untouched(k) /\ req' = req
  BY <1>9 DEF Check, AddsPage, Flushes, KeepsRows, arq
<1>10. CASE EngineStops(j) /\ UNCHANGED req
  BY <1>10 DEF EngineStops, Settles, store, arq
<1>11. CASE EngineRaises(j) /\ UNCHANGED req
  BY <1>11 DEF EngineRaises, Settles, store, arq
<1>12. CASE Save(j) /\ UNCHANGED req
  BY <1>12 DEF Save, CommitsPages, WritePages, Release, arq
<1>13. CASE Warn(j) /\ UNCHANGED req
  BY <1>13 DEF Warn, CommitsPages, WritePages, Release, arq
<1>14. CASE CloseRaises(j) /\ UNCHANGED req
  BY <1>14 DEF CloseRaises, Settles, store, arq
<1>15. CASE Settle(j) /\ UNCHANGED req
  BY <1>15 DEF Settle, WriteOutcome, Leaves, At, arq
<1>16. CASE RowGone(j) /\ UNCHANGED req
  BY <1>16 DEF RowGone, Leaves, At, Release, KeepsRows, arq
<1>17. CASE ArqFinish(j) /\ UNCHANGED req
  BY <1>17 DEF ArqFinish, QueueDone, Leaves, At, store
<1> QED
  BY <1>1, <1>2, <1>3, <1>4, <1>5, <1>6, <1>7, <1>8, <1>9,
     <1>10, <1>11, <1>12, <1>13, <1>14, <1>15, <1>16, <1>17 DEF WorkerStep

LEMMA HandlerFrame ==
    ASSUME TypeOK, NEW h \in Handlers, HandlerStep(h)
    PROVE  /\ req[h].job \in Jobs /\ exec' = exec /\ locked' = locked
           /\ \A k \in Jobs \ {req[h].job} : Untouched(k)
<1> USE DEF TypeOK, StoreTypeOK, Untouched
<1>0. req[h].job \in Jobs
  BY RequestHasJob DEF HandlerStep, InsertRead, Enqueue, CancelCommit, DeleteCommit, Holds
<1>1. CASE InsertRead(h) /\ UNCHANGED exec  BY <1>0, <1>1 DEF InsertRead, InsertJob
<1>2. CASE Enqueue(h) /\ UNCHANGED exec  BY <1>0, <1>2 DEF Enqueue, store
<1>3. CASE CancelCommit(h) /\ UNCHANGED exec
  BY <1>0, <1>3 DEF CancelCommit, WriteOutcome
<1>4. CASE DeleteCommit(h) /\ UNCHANGED exec
  BY <1>0, <1>4 DEF DeleteCommit, DeleteJob
<1> QED  BY <1>1, <1>2, <1>3, <1>4 DEF HandlerStep

LEMMA RequestFrame ==
    ASSUME TypeOK, NEW h \in Handlers, NEW j \in Jobs, Request(h, j)
    PROVE  exec' = exec /\ locked' = locked /\ \A k \in Jobs \ {j} : Untouched(k)
BY DEF TypeOK, StoreTypeOK, Untouched, Request, CreateCrawl, InsertJob, RetryRead,
       ScrapeRead, CancelRead, DeleteRead, RemoveDiscovered, DeleteDiscovered, store

LEMMA RequestIds ==
    ASSUME TypeOK, IdsUsedOnce, NEW h \in Handlers, NEW j \in Jobs, Request(h, j)
    PROVE  IdsUsedOnce'
<1> USE RequestHasJob DEF IdsUsedOnce, TypeOK, StoreTypeOK, Becomes, Holds, Exists, Free
<1>1. ASSUME NEW mode \in NewModes, CreateCrawl(h, j, mode), UNCHANGED exec
      PROVE  IdsUsedOnce'
  BY <1>1 DEF CreateCrawl, InsertJob, NoRow, FreshId, arq, Statuses
<1>2. ASSUME NEW src \in Jobs, RetryRead(h, src, j), UNCHANGED exec PROVE IdsUsedOnce'
  BY <1>2 DEF RetryRead, FreshId, store, arq
<1>3. ASSUME NEW src \in Jobs, ScrapeRead(h, src, j), UNCHANGED exec PROVE IdsUsedOnce'
  BY <1>3 DEF ScrapeRead, FreshId, store, arq
<1>4. ASSUME CancelRead(h, j), UNCHANGED exec PROVE IdsUsedOnce'
  BY <1>4 DEF CancelRead, Active, store, arq
<1>5. ASSUME DeleteRead(h, j), UNCHANGED exec PROVE IdsUsedOnce'
  BY <1>5 DEF DeleteRead, Terminal, Statuses, store, arq
<1>6. ASSUME NEW i \in 1 .. Len(disc[j]), RemoveDiscovered(j, i), UNCHANGED exec
      PROVE IdsUsedOnce'
  <2>1. Exists(j)  BY <1>6
  <2> QED  BY <1>6, <2>1 DEF RemoveDiscovered, DeleteDiscovered, arq
<1> QED  BY <1>1, <1>2, <1>3, <1>4, <1>5, <1>6 DEF Request


(* The worker edits only a row that exists, of an id that is queued, and    *)
(* ends a session with a final status.                                      *)
RowKept(j) == /\ job'[j] = job[j] /\ disc'[j] = disc[j]
              /\ results'[j] = results[j] /\ removed'[j] = removed[j]

WorkerRowOK(j) ==
    /\ j \in queue
    /\ \/ Exists(j) /\ Exists(j)'
       \/ RowKept(j)
    /\ \/ queue' = queue
       \/ queue' = queue \ {j} /\ exec'[j].pc = "idle"
    /\ exec'[j].pc = "settle" => exec'[j].status \in Terminal

LEMMA WorkerRow ==
    ASSUME TypeOK, IdsUsedOnce, NEW j \in Jobs, WorkerStep(j)
    PROVE  WorkerRowOK(j)
<1> USE DEF WorkerRowOK, RowKept
<1>a. /\ exec \in [Jobs -> ExecRecord] /\ job \in [Jobs -> JobRow]
      /\ exec[j].pc # "idle" => j \in queue
      /\ exec[j].pc = "settle" => exec[j].status \in Terminal
  BY DEF TypeOK, StoreTypeOK, IdsUsedOnce
<1>1. CASE Deliver(j) /\ UNCHANGED req
  BY <1>1, <1>a DEF Deliver, QueueTake, Leaves, At, store, ExecRecord
<1>2. CASE GiveUp(j) /\ UNCHANGED req
  BY <1>2, <1>a DEF GiveUp, QueueGiveUp, QueueDone, Running, store, ExecRecord
<1>3. CASE GetSkips(j) /\ UNCHANGED req
  BY <1>3, <1>a DEF GetSkips, Leaves, At, store, arq, ExecRecord
<1>4. CASE Get(j) /\ UNCHANGED req
  BY <1>4, <1>a DEF Get, Loads, At, store, arq, ExecRecord
<1>5. CASE Begin(j) /\ UNCHANGED req
  BY <1>5, <1>a DEF Begin, arq, ExecRecord, Exists, JobRow, Statuses
<1>6. CASE LogStart(j) /\ UNCHANGED req
  BY <1>6, <1>a DEF LogStart, store, arq, ExecRecord
<1>7. CASE Build(j) /\ UNCHANGED req
  BY <1>7, <1>a DEF Build, store, arq, ExecRecord
<1>8. CASE BuildRaises(j) /\ UNCHANGED req
  BY <1>8, <1>a
       DEF BuildRaises, Settles, store, arq, ExecRecord, Terminal, Statuses, Active
<1>9. ASSUME NEW u \in Urls, Check(j, u), UNCHANGED req PROVE WorkerRowOK(j)
  BY <1>9, <1>a DEF Check, AddsPage, Flushes, KeepsRows, arq, ExecRecord
<1>10. CASE EngineStops(j) /\ UNCHANGED req
  BY <1>10, <1>a
       DEF EngineStops, Settles, store, arq, ExecRecord, Terminal, Statuses, Active
<1>11. CASE EngineRaises(j) /\ UNCHANGED req
  BY <1>11, <1>a
       DEF EngineRaises, Settles, store, arq, ExecRecord, Terminal, Statuses, Active
<1>12. CASE Save(j) /\ UNCHANGED req
  BY <1>12, <1>a DEF Save, CommitsPages, WritePages, Release, arq, ExecRecord, Exists,
           JobRow, Terminal, Statuses, Active
<1>13. CASE Warn(j) /\ UNCHANGED req
  BY <1>13, <1>a DEF Warn, CommitsPages, WritePages, Release, arq, ExecRecord, Exists,
           JobRow, Terminal, Statuses, Active
<1>14. CASE CloseRaises(j) /\ UNCHANGED req
  BY <1>14, <1>a
       DEF CloseRaises, Settles, store, arq, ExecRecord, Terminal, Statuses, Active
<1>15. CASE Settle(j) /\ UNCHANGED req
  BY <1>15, <1>a DEF Settle, WriteOutcome, Leaves, At, arq, Exists, JobRow, Terminal,
           Statuses, Active
<1>16. CASE RowGone(j) /\ UNCHANGED req
  BY <1>16, <1>a DEF RowGone, Leaves, At, Release, KeepsRows, arq, ExecRecord
<1>17. CASE ArqFinish(j) /\ UNCHANGED req
  BY <1>17, <1>a DEF ArqFinish, QueueDone, Leaves, At, store, ExecRecord
<1> QED
  BY <1>1, <1>2, <1>3, <1>4, <1>5, <1>6, <1>7, <1>8, <1>9,
     <1>10, <1>11, <1>12, <1>13, <1>14, <1>15, <1>16, <1>17 DEF WorkerStep
(* A step that edits one row keeps every id where it is.                    *)
LEMMA RowEditIds ==
    ASSUME TypeOK, IdsUsedOnce, NEW j \in Jobs, job[j].status # "unused",
           job'[j].status # "unused",
           ~Exists(j)' => /\ disc'[j] = << >> /\ results'[j] = 0 /\ removed'[j] = 0
                          /\ job'[j].urls_discovered = 0 /\ job'[j].urls_scraped = 0,
           \A k \in Jobs \ {j} : RowKept(k),
           queue' \subseteq queue,
           \A k \in Jobs : /\ exec'[k].pc # "idle" => k \in queue'
                           /\ exec'[k].pc = "settle" => exec'[k].status \in Terminal,
           \A h \in Handlers : req'[h] = req[h] \/ Holds(h, "free")'
    PROVE  IdsUsedOnce'
<1>1. ASSUME NEW k \in Jobs PROVE
         /\ exec'[k].pc # "idle" => k \in queue'
         /\ k \in queue' => job'[k].status # "unused"
         /\ exec'[k].pc = "settle" => exec'[k].status \in Terminal
         /\ ~Exists(k)' => disc'[k] = << >> /\ results'[k] = 0 /\ removed'[k] = 0
                           /\ job'[k].urls_discovered = 0 /\ job'[k].urls_scraped = 0
  <2>1. CASE k = j  BY <2>1 DEF IdsUsedOnce
  <2>2. CASE k # j  BY <2>2 DEF IdsUsedOnce, Exists, RowKept
  <2> QED  BY <2>1, <2>2
<1>2. ASSUME NEW h \in Handlers PROVE
         /\ Holds(h, "insert")' =>
              /\ job'[req'[h].job].status = "unused"
              /\ \A g \in Handlers \ {h} :
                     Holds(g, "insert")' => req'[g].job # req'[h].job
         /\ req'[h].op \in {"enqueue", "cancel", "delete"} =>
              job'[req'[h].job].status # "unused"
  <2>1. CASE Holds(h, "free")'  BY <2>1 DEF Holds
  <2>2. CASE req'[h] = req[h]
    <3>1. Holds(h, "insert") => req[h].job \in Jobs /\ job[req[h].job].status = "unused"
      BY RequestHasJob DEF IdsUsedOnce, Holds
    <3>2. req[h].op \in {"enqueue", "cancel", "delete"} =>
            req[h].job \in Jobs /\ job[req[h].job].status # "unused"
      BY RequestHasJob DEF IdsUsedOnce, Holds
    <3>3. ASSUME NEW g \in Handlers \ {h}, Holds(g, "insert")', Holds(h, "insert")
          PROVE  req'[g].job # req'[h].job
      BY <2>2, <3>3 DEF IdsUsedOnce, Holds
    <3>4. \A k \in Jobs : /\ job[k].status = "unused" => job'[k].status = "unused"
                          /\ job[k].status # "unused" => job'[k].status # "unused"
      BY DEF RowKept
    <3> QED  BY <2>2, <3>1, <3>2, <3>3, <3>4 DEF Holds
  <2> QED  BY <2>1, <2>2
<1> QED  BY <1>1, <1>2 DEF IdsUsedOnce

(* An outcome edits the three columns it names, of one row.                 *)
LEMMA OutcomeRow ==
    ASSUME NEW j \in Jobs, job \in [Jobs -> JobRow], NEW st \in Statuses,
           WriteOutcome(j, st)
    PROVE  /\ \A k \in Jobs \ {j} : job'[k] = job[k]
           /\ job'[j].status = st /\ job'[j].finished
           /\ job'[j].error = (job[j].error \/ st = "failed")
           /\ job'[j].started = job[j].started
           /\ job'[j].urls_discovered = job[j].urls_discovered
           /\ job'[j].urls_scraped = job[j].urls_scraped
<1> DEFINE failed == job[j].error \/ st = "failed"
           r == [job[j] EXCEPT !.status = st, !.finished = TRUE, !.error = failed]
<1>1. job' = [job EXCEPT ![j] = r]  BY DEF WriteOutcome
<1>2. job[j] \in JobRow  OBVIOUS
<1> HIDE DEF failed
<1>3. /\ r.status = st /\ r.finished /\ r.error = failed
      /\ r.started = job[j].started /\ r.urls_discovered = job[j].urls_discovered
      /\ r.urls_scraped = job[j].urls_scraped
  BY <1>2 DEF JobRow
<1> HIDE DEF r
<1>4. job'[j] = r /\ \A k \in Jobs \ {j} : job'[k] = job[k]  BY <1>1
<1> QED  BY <1>3, <1>4 DEF failed

LEMMA CancelIds ==
    ASSUME TypeOK, IdsUsedOnce, NEW h \in Handlers, CancelCommit(h), UNCHANGED exec
    PROVE  IdsUsedOnce'
<1>a. PICK j \in Jobs : j = req[h].job
  BY RequestHasJob DEF CancelCommit, Holds
<1>0. job \in [Jobs -> JobRow] /\ job[j].status # "unused"
  BY <1>a DEF CancelCommit, Holds, TypeOK, StoreTypeOK, IdsUsedOnce
<1>1. \A g \in Handlers : req'[g] = req[g] \/ Holds(g, "free")'
  BY DEF TypeOK, CancelCommit, Becomes, Holds, Free
<1>2. /\ job'[j].status # "unused"
      /\ \A k \in Jobs \ {j} : job'[k] = job[k]
      /\ ~Exists(j)' => job'[j] = job[j] /\ ~Exists(j)
  <2>1. CASE Exists(j)
    <3>1. WriteOutcome(j, "cancelled")  BY <1>a, <2>1 DEF CancelCommit
    <3> QED  BY <1>0, <3>1, OutcomeRow DEF Exists, Statuses, Terminal
  <2>2. CASE ~Exists(j)  BY <1>a, <1>0, <2>2 DEF CancelCommit
  <2> QED  BY <2>1, <2>2
<1>3. UNCHANGED <<disc, results, removed, queue>>  BY DEF CancelCommit, arq
<1>4. \A k \in Jobs \ {j} : RowKept(k)  BY <1>2, <1>3 DEF RowKept
<1>5. ~Exists(j)' => /\ disc'[j] = << >> /\ results'[j] = 0 /\ removed'[j] = 0
                     /\ job'[j].urls_discovered = 0 /\ job'[j].urls_scraped = 0
  BY <1>0, <1>2, <1>3 DEF IdsUsedOnce
<1>6. \A k \in Jobs : /\ exec'[k].pc # "idle" => k \in queue'
                      /\ exec'[k].pc = "settle" => exec'[k].status \in Terminal
  BY <1>3 DEF IdsUsedOnce
<1> QED  BY <1>0, <1>1, <1>2, <1>3, <1>4, <1>5, <1>6, RowEditIds

LEMMA HandlerIds ==
    ASSUME TypeOK, IdsUsedOnce, NEW h \in Handlers, HandlerStep(h)
    PROVE  IdsUsedOnce'
<1> USE RequestHasJob DEF IdsUsedOnce, TypeOK, StoreTypeOK, Becomes, Holds, Exists, Free
<1>1. CASE InsertRead(h) /\ UNCHANGED exec
  BY <1>1 DEF InsertRead, InsertJob, NoRow, arq, Statuses
<1>2. CASE Enqueue(h) /\ UNCHANGED exec
  BY <1>2 DEF Enqueue, QueuePut, store
<1>3. CASE CancelCommit(h) /\ UNCHANGED exec  BY <1>3, CancelIds
<1>4. CASE DeleteCommit(h) /\ UNCHANGED exec
  <2> DEFINE j == req[h].job
  <2>1. j \in Jobs  BY <1>4 DEF DeleteCommit
  <2>2. job[j].status # "unused"  BY <1>4 DEF DeleteCommit
  <2>3. job'[j] = NoRow("deleted")  BY <1>4, <2>1 DEF DeleteCommit, DeleteJob
  <2> QED
    BY <1>4, <2>1, <2>2, <2>3, RowEditIds DEF DeleteCommit, DeleteJob, NoRow, RowKept, arq
<1> QED  BY <1>1, <1>2, <1>3, <1>4 DEF HandlerStep

LEMMA WorkerIds ==
    ASSUME TypeOK, IdsUsedOnce, NEW j \in Jobs, WorkerStep(j)
    PROVE  IdsUsedOnce'
<1>1. WorkerRowOK(j)  BY WorkerRow
<1>2. /\ req' = req
      /\ \A k \in Jobs \ {j} : RowKept(k) /\ exec'[k] = exec[k]
  <2>1. req' = req
    BY DEF WorkerStep, Deliver, GiveUp
  <2> QED  BY <2>1, WorkerFrame DEF Untouched, RowKept
<1>3. job[j].status # "unused" /\ job'[j].status # "unused"
  BY <1>1 DEF WorkerRowOK, RowKept, IdsUsedOnce, Exists, Statuses
<1>4. \A k \in Jobs : exec'[k].pc # "idle" => k \in queue'
  BY <1>1, <1>2 DEF WorkerRowOK, IdsUsedOnce
<1> QED  BY <1>1, <1>2, <1>3, <1>4, RowEditIds
     DEF WorkerRowOK, RowKept, IdsUsedOnce, Exists

LEMMA FailureIds == ASSUME TypeOK, IdsUsedOnce, Failure PROVE IdsUsedOnce'
<1> USE DEF IdsUsedOnce, TypeOK, StoreTypeOK, Holds, Exists
<1>1. ASSUME NEW h \in Handlers, HandlerDies(h), UNCHANGED exec PROVE IdsUsedOnce'
  BY <1>1 DEF HandlerDies, Becomes, Free, store, arq
<1>2. ASSUME NEW j \in Jobs, Killed(j), UNCHANGED req PROVE IdsUsedOnce'
  BY <1>2 DEF Killed, Leaves, At, KeepsRows, arq
<1>3. ASSUME NEW j \in Jobs, Aborted(j), UNCHANGED req PROVE IdsUsedOnce'
  BY <1>3 DEF Aborted, Leaves, At, KeepsRows, arq
<1> QED  BY <1>1, <1>2, <1>3 DEF Failure

LEMMA NextIds == TypeOK /\ IdsUsedOnce /\ [Next]_vars => IdsUsedOnce'
<1> SUFFICES ASSUME TypeOK, IdsUsedOnce, [Next]_vars PROVE IdsUsedOnce'  OBVIOUS
<1>1. CASE UNCHANGED vars
  BY <1>1 DEF IdsUsedOnce, Holds, Exists, vars, store, arq
<1>2. CASE Next
  BY <1>2, RequestIds, HandlerIds, WorkerIds, FailureIds DEF Next
<1> QED  BY <1>1, <1>2

LEMMA InitIds == Init => IdsUsedOnce
BY DEF Init, StoreInit, IdsUsedOnce, NoRow, At, Free, Holds, Exists, Statuses

(* An id is inserted, enqueued and executed once: no insert of a retry or a *)
(* scrape overwrites a row, and only queued ids are executed.               *)
THEOREM IdsAreUsedOnce == Spec => []IdsUsedOnce
BY InitIds, InitTypeOK, NextTypeOK, NextIds, PTL DEF Spec

-----------------------------------------------------------------------------
(* Counters: the inductive invariant relates the row, its children and what *)
(* the session of an execution will write.                                  *)
CountersOf(j) ==
    /\ job[j].urls_discovered = Len(disc[j]) + removed[j]
    /\ job[j].urls_scraped = results[j]
    /\ Loaded(j) /\ Exists(j) =>
         /\ exec[j].discovered = job[j].urls_discovered + Len(exec[j].pend)
         /\ exec[j].scraped = job[j].urls_scraped
                               + (IF Scrapes(exec[j].mode) THEN Len(exec[j].pend) ELSE 0)

LEMMA CountersByJob ==
    CountersMatchRows /\ SessionMirrorsRow <=> \A j \in Jobs : CountersOf(j)
BY DEF CountersMatchRows, SessionMirrorsRow, CountersOf

(* What adding a page does to the session.                                  *)
LEMMA AddsPageRecord ==
    ASSUME NEW j \in Jobs, NEW u \in Urls, exec \in [Jobs -> ExecRecord], AddsPage(j, u)
    PROVE  /\ exec'[j].pc \in {"next", "save"}
           /\ exec[j].mode # "shallow" => exec'[j].pc = "save"
           /\ exec'[j].mode = exec[j].mode /\ exec'[j].late = exec[j].late
           /\ exec'[j].left = exec[j].left - 1
           /\ exec'[j].pend = Append(exec[j].pend, u)
           /\ Len(exec'[j].pend) = Len(exec[j].pend) + 1
           /\ exec'[j].discovered = exec[j].discovered + 1
           /\ exec'[j].scraped = exec[j].scraped + (IF Scrapes(exec[j].mode) THEN 1 ELSE 0)
<1> DEFINE pc == IF exec[j].mode = "shallow" THEN "next" ELSE "save"
           scraped == IF Scrapes(exec[j].mode) THEN exec[j].scraped + 1 ELSE exec[j].scraped
           pend == Append(exec[j].pend, u)
           r == [exec[j] EXCEPT !.pc = pc, !.left = exec[j].left - 1, !.pend = pend,
                                !.discovered = exec[j].discovered + 1,
                                !.scraped = scraped]
<1>1. exec' = [exec EXCEPT ![j] = r]  BY DEF AddsPage
<1>2. exec[j] \in ExecRecord  OBVIOUS
<1>3. scraped = exec[j].scraped + (IF Scrapes(exec[j].mode) THEN 1 ELSE 0)
  BY <1>2 DEF ExecRecord
<1>4. Len(pend) = Len(exec[j].pend) + 1  BY <1>2 DEF ExecRecord
<1>5. pc \in {"next", "save"} /\ (exec[j].mode # "shallow" => pc = "save")  OBVIOUS
<1> HIDE DEF pc, scraped, pend
<1>6. /\ r.pc = pc /\ r.pend = pend /\ r.mode = exec[j].mode /\ r.late = exec[j].late
      /\ r.left = exec[j].left - 1
      /\ r.discovered = exec[j].discovered + 1 /\ r.scraped = scraped
  BY <1>2 DEF ExecRecord
<1> HIDE DEF r
<1>7. exec'[j] = r  BY <1>1
<1> QED  BY <1>3, <1>4, <1>5, <1>6, <1>7 DEF pend

LEMMA WorkerCounters ==
    ASSUME TypeOK, IdsUsedOnce, NEW j \in Jobs, CountersOf(j), WorkerStep(j)
    PROVE  CountersOf(j)'
<1> USE DEF CountersOf, Loaded
<1>a. /\ exec \in [Jobs -> ExecRecord] /\ job \in [Jobs -> JobRow]
      /\ disc \in [Jobs -> Seq(Urls)] /\ results \in [Jobs -> Nat]
      /\ removed \in [Jobs -> Nat]
  BY DEF TypeOK, StoreTypeOK
<1>1. CASE Deliver(j) /\ UNCHANGED req
  BY <1>1, <1>a DEF Deliver, QueueTake, Leaves, At, store, ExecRecord, JobRow, Exists
<1>2. CASE GiveUp(j) /\ UNCHANGED req
  BY <1>2, <1>a
       DEF GiveUp, QueueGiveUp, QueueDone, Running, store, ExecRecord, JobRow, Exists
<1>3. CASE GetSkips(j) /\ UNCHANGED req
  BY <1>3, <1>a DEF GetSkips, Leaves, At, store, arq, ExecRecord, JobRow, Exists
<1>4. CASE Get(j) /\ UNCHANGED req
  BY <1>4, <1>a DEF Get, Loads, At, store, arq, ExecRecord, JobRow, Exists
<1>5. CASE Begin(j) /\ UNCHANGED req
  BY <1>5, <1>a DEF Begin, arq, ExecRecord, JobRow, Exists
<1>6. CASE LogStart(j) /\ UNCHANGED req
  BY <1>6, <1>a DEF LogStart, store, arq, ExecRecord, JobRow, Exists
<1>7. CASE Build(j) /\ UNCHANGED req
  BY <1>7, <1>a DEF Build, store, arq, ExecRecord, JobRow, Exists
<1>8. CASE BuildRaises(j) /\ UNCHANGED req
  BY <1>8, <1>a DEF BuildRaises, Settles, store, arq, ExecRecord, JobRow, Exists
<1>9. ASSUME NEW u \in Urls, Check(j, u), UNCHANGED req PROVE CountersOf(j)'
  <2>1. KeepsRows  BY <1>9 DEF Check, Flushes
  <2>2. exec[j] \in ExecRecord /\ Loaded(j)  BY <1>9, <1>a DEF Check
  <2>3. CASE job[j].status = "cancelled"
    <3>1. exec' = [exec EXCEPT ![j].pc = "warn"]  BY <1>9, <2>3 DEF Check
    <3> QED  BY <1>a, <2>1, <2>2, <3>1 DEF KeepsRows, Exists, ExecRecord
  <2>4. CASE job[j].status # "cancelled"
    <3>1. AddsPage(j, u)  BY <1>9, <2>4 DEF Check
    <3>2. /\ exec[j].discovered \in Nat /\ exec[j].scraped \in Nat
          /\ exec[j].pend \in Seq(Urls)
      BY <2>2 DEF ExecRecord
    <3>3. job[j].urls_discovered \in Nat /\ job[j].urls_scraped \in Nat
      BY <1>a DEF JobRow
    <3>4. Len(exec[j].pend) \in Nat  BY <3>2
    <3>5. /\ Len(exec'[j].pend) = Len(exec[j].pend) + 1
          /\ exec'[j].discovered = exec[j].discovered + 1
          /\ exec'[j].scraped = exec[j].scraped + (IF Scrapes(exec[j].mode) THEN 1 ELSE 0)
          /\ exec'[j].mode = exec[j].mode
      BY <1>a, <3>1, AddsPageRecord
    <3>6. job'[j] = job[j] /\ disc'[j] = disc[j] /\ results'[j] = results[j]
          /\ removed'[j] = removed[j]
      BY <2>1 DEF KeepsRows
    <3> DEFINE x == IF Scrapes(exec[j].mode) THEN Len(exec[j].pend) ELSE 0
               one == IF Scrapes(exec[j].mode) THEN 1 ELSE 0
    <3>7. /\ x \in Nat /\ one \in Nat
          /\ (IF Scrapes(exec'[j].mode) THEN Len(exec'[j].pend) ELSE 0) = x + one
      BY <3>4, <3>5
    <3>8. Exists(j)' => Exists(j)  BY <3>6 DEF Exists
    <3>9. ASSUME Exists(j)
          PROVE  /\ exec'[j].discovered = job'[j].urls_discovered + Len(exec'[j].pend)
                 /\ exec'[j].scraped
                      = job'[j].urls_scraped
                          + (IF Scrapes(exec'[j].mode) THEN Len(exec'[j].pend) ELSE 0)
      <4>1. /\ exec[j].discovered = job[j].urls_discovered + Len(exec[j].pend)
            /\ exec[j].scraped = job[j].urls_scraped + x
        BY <2>2, <3>9
      <4>2. exec'[j].scraped = exec[j].scraped + one  BY <3>5
      <4> HIDE DEF x, one, CountersOf
      <4>3. exec'[j].discovered = job'[j].urls_discovered + Len(exec'[j].pend)
        BY <3>3, <3>4, <3>5, <3>6, <4>1
      <4>4. exec'[j].scraped = job'[j].urls_scraped + (x + one)
        BY <3>3, <3>6, <3>7, <4>1, <4>2
      <4> QED  BY <3>7, <4>3, <4>4
    <3> QED  BY <3>6, <3>8, <3>9
  <2> QED  BY <2>3, <2>4
<1>10. CASE EngineStops(j) /\ UNCHANGED req
  <2>1. UNCHANGED <<job, disc, results, removed>> /\ Loaded(j)
    BY <1>10 DEF EngineStops, store
  <2>2. CASE exec[j].mode = "shallow"
    <3>1. exec' = [exec EXCEPT ![j].pc = "save"]  BY <1>10, <2>2 DEF EngineStops
    <3> QED  BY <1>a, <2>1, <3>1 DEF Exists, ExecRecord
  <2>3. CASE exec[j].mode # "shallow"
    <3>1. Settles(j, "completed")  BY <1>10, <2>3 DEF EngineStops
    <3> QED  BY <1>a, <2>1, <3>1 DEF Exists, ExecRecord, Settles
  <2> QED  BY <2>2, <2>3
<1>11. CASE EngineRaises(j) /\ UNCHANGED req
  BY <1>11, <1>a DEF EngineRaises, Settles, store, arq, ExecRecord, JobRow, Exists
<1>12. CASE Save(j) /\ UNCHANGED req
  BY <1>12, <1>a
       DEF Save, CommitsPages, WritePages, Release, arq, ExecRecord, JobRow, Exists
<1>13. CASE Warn(j) /\ UNCHANGED req
  BY <1>13, <1>a
       DEF Warn, CommitsPages, WritePages, Release, arq, ExecRecord, JobRow, Exists
<1>14. CASE CloseRaises(j) /\ UNCHANGED req
  BY <1>14, <1>a DEF CloseRaises, Settles, store, arq, ExecRecord, JobRow, Exists
<1>15. CASE Settle(j) /\ UNCHANGED req
  BY <1>15, <1>a DEF Settle, WriteOutcome, Leaves, At, arq, ExecRecord, JobRow, Exists
<1>16. CASE RowGone(j) /\ UNCHANGED req
  BY <1>16, <1>a
       DEF RowGone, Leaves, At, Release, KeepsRows, arq, ExecRecord, JobRow, Exists
<1>17. CASE ArqFinish(j) /\ UNCHANGED req
  BY <1>17, <1>a DEF ArqFinish, QueueDone, Leaves, At, store, ExecRecord, JobRow, Exists
<1> QED
  BY <1>1, <1>2, <1>3, <1>4, <1>5, <1>6, <1>7, <1>8, <1>9,
     <1>10, <1>11, <1>12, <1>13, <1>14, <1>15, <1>16, <1>17 DEF WorkerStep

LEMMA HandlerCounters ==
    ASSUME TypeOK, IdsUsedOnce, NEW h \in Handlers, NEW j \in Jobs, j = req[h].job,
           CountersOf(j), HandlerStep(h)
    PROVE  CountersOf(j)'
<1> USE DEF CountersOf, Loaded
<1>a. /\ exec' = exec /\ job \in [Jobs -> JobRow]
      /\ disc \in [Jobs -> Seq(Urls)] /\ results \in [Jobs -> Nat]
      /\ removed \in [Jobs -> Nat]
  BY HandlerFrame DEF TypeOK, StoreTypeOK
<1>1. CASE InsertRead(h) /\ UNCHANGED exec
  <2>1. /\ job[j].status = "unused" /\ ~Exists(j) /\ ~Loaded(j)
        /\ disc[j] = << >> /\ results[j] = 0 /\ removed[j] = 0
    BY <1>1 DEF InsertRead, IdsUsedOnce, Exists, Statuses
  <2> QED  BY <1>1, <1>a, <2>1 DEF InsertRead, InsertJob, NoRow, Exists
<1>2. CASE Enqueue(h) /\ UNCHANGED exec
  BY <1>2, <1>a DEF Enqueue, store, Exists
<1>3. CASE CancelCommit(h) /\ UNCHANGED exec
  <2>1. CASE Exists(j)
    <3>1. WriteOutcome(j, "cancelled")  BY <1>3, <2>1 DEF CancelCommit
    <3> QED  BY <1>3, <1>a, <2>1, <3>1, OutcomeRow DEF CancelCommit, Exists, Statuses
  <2>2. CASE ~Exists(j)  BY <1>3, <1>a, <2>2 DEF CancelCommit, Exists
  <2> QED  BY <2>1, <2>2
<1>4. CASE DeleteCommit(h) /\ UNCHANGED exec
  BY <1>4, <1>a DEF DeleteCommit, DeleteJob, NoRow, Exists, Statuses
<1> QED  BY <1>1, <1>2, <1>3, <1>4 DEF HandlerStep

LEMMA RequestCounters ==
    ASSUME TypeOK, IdsUsedOnce, NEW h \in Handlers, NEW j \in Jobs, CountersOf(j),
           Request(h, j)
    PROVE  CountersOf(j)'
<1> USE DEF CountersOf, Loaded
<1>a. /\ exec' = exec /\ job \in [Jobs -> JobRow]
      /\ disc \in [Jobs -> Seq(Urls)] /\ results \in [Jobs -> Nat]
      /\ removed \in [Jobs -> Nat]
  BY RequestFrame DEF TypeOK, StoreTypeOK
<1>1. ASSUME NEW mode \in NewModes, CreateCrawl(h, j, mode) PROVE CountersOf(j)'
  <2>1. /\ job[j].status = "unused" /\ ~Exists(j) /\ ~Loaded(j)
        /\ disc[j] = << >> /\ results[j] = 0 /\ removed[j] = 0
    BY <1>1 DEF CreateCrawl, FreshId, IdsUsedOnce, Exists, Statuses
  <2> QED  BY <1>1, <1>a, <2>1 DEF CreateCrawl, InsertJob, NoRow, Exists
<1>2. CASE UNCHANGED store
  BY <1>2, <1>a DEF store, Exists
<1>3. ASSUME NEW i \in 1 .. Len(disc[j]), RemoveDiscovered(j, i) PROVE CountersOf(j)'
  <2>1. disc'[j] = RemoveAt(disc[j], i) /\ removed'[j] = removed[j] + 1
    BY <1>3, <1>a DEF RemoveDiscovered, DeleteDiscovered
  <2>2. Len(disc'[j]) = Len(disc[j]) - 1  BY <1>a, <2>1, RowRemoved
  <2>3. Len(disc[j]) \in Nat /\ removed[j] \in Nat  BY <1>a
  <2>4. job' = job /\ results' = results  BY <1>3 DEF RemoveDiscovered, DeleteDiscovered
  <2>5. job'[j].urls_discovered = Len(disc'[j]) + removed'[j]
    BY <2>1, <2>2, <2>3, <2>4
  <2> QED  BY <1>a, <2>4, <2>5 DEF Exists
<1> QED
  BY <1>1, <1>2, <1>3 DEF Request, RetryRead, ScrapeRead, CancelRead, DeleteRead

LEMMA FailureCounters ==
    ASSUME TypeOK, NEW k \in Jobs, CountersOf(k), Failure
    PROVE  CountersOf(k)'
<1>1. ASSUME NEW h \in Handlers, HandlerDies(h), UNCHANGED exec PROVE CountersOf(k)'
  BY <1>1 DEF HandlerDies, store, CountersOf, Loaded, Exists
<1>2. ASSUME NEW j \in Jobs, KeepsRows, Leaves(j, "done") \/ Leaves(j, "idle")
      PROVE CountersOf(k)'
  BY <1>2 DEF TypeOK, Leaves, At, KeepsRows, CountersOf, Loaded, Exists
<1> QED  BY <1>1, <1>2 DEF Failure, Killed, Aborted

LEMMA NextCounters ==
    ASSUME TypeOK, IdsUsedOnce, NEW k \in Jobs, CountersOf(k), [Next]_vars
    PROVE  CountersOf(k)'
<1>1. ASSUME Untouched(k) PROVE CountersOf(k)'
  BY <1>1 DEF Untouched, CountersOf, Loaded, Exists
<1>2. ASSUME NEW h \in Handlers, NEW j \in Jobs, Request(h, j) PROVE CountersOf(k)'
  BY <1>1, <1>2, RequestCounters, RequestFrame
<1>3. ASSUME NEW h \in Handlers, HandlerStep(h) PROVE CountersOf(k)'
  BY <1>1, <1>3, HandlerCounters, HandlerFrame
<1>4. ASSUME NEW j \in Jobs, WorkerStep(j) PROVE CountersOf(k)'
  BY <1>1, <1>4, WorkerCounters, WorkerFrame
<1>5. CASE UNCHANGED vars  BY <1>5 DEF vars, store, CountersOf, Loaded, Exists
<1> QED  BY <1>2, <1>3, <1>4, <1>5, FailureCounters DEF Next

LEMMA CountersAlways == Spec => [](\A k \in Jobs : CountersOf(k))
<1> DEFINE Inv == TypeOK /\ IdsUsedOnce /\ \A k \in Jobs : CountersOf(k)
<1>1. Init => Inv
  <2>1. Init => TypeOK /\ IdsUsedOnce  BY InitTypeOK, InitIds
  <2>2. Init => \A k \in Jobs : CountersOf(k)
    BY DEF Init, StoreInit, NoRow, CountersOf, Exists, Statuses
  <2> QED  BY <2>1, <2>2
<1>2. Inv /\ [Next]_vars => Inv'
  BY NextTypeOK, NextIds, NextCounters
<1>3. Inv => \A k \in Jobs : CountersOf(k)  OBVIOUS
<1> QED  BY <1>1, <1>2, <1>3, PTL DEF Spec

(* Whatever crashes, redeliveries and concurrent requests, the counters of  *)
(* a job are the rows a client can list, those it deleted added.            *)
THEOREM CountersCorrect == Spec => []CountersMatchRows
<1>1. (\A k \in Jobs : CountersOf(k)) => CountersMatchRows  BY CountersByJob
<1> QED  BY <1>1, CountersAlways, PTL

-----------------------------------------------------------------------------
(* Late pages: the row lock of two flushed pages keeps a cancel out, and a  *)
(* check that reads CANCELLED adds no page.                                 *)
LateOf(j) ==
    /\ exec[j].late <= 1
    /\ j \in locked => exec[j].pc \in {"next", "save", "warn"} /\ exec[j].pend # << >>
    /\ exec[j].pc \notin {"next", "save", "warn"} => exec[j].pend = << >>
    /\ exec[j].mode = "shallow" => exec[j].left <= MaxFound
    /\ exec[j].pc = "next" /\ exec[j].pend # << >> =>
         exec[j].mode = "shallow" /\ exec[j].left < MaxFound
    /\ Exists(j) /\ Len(exec[j].pend) >= 2 => j \in locked /\ job[j].status # "cancelled"
    /\ exec[j].late > 0 => exec[j].pc \in {"next", "save", "warn", "settle"}
    /\ exec[j].late > 0 /\ Exists(j) => job[j].status = "cancelled" /\ exec[j].pend = << >>

LEMMA LateByJob ==
    TypeOK => (AtMostOneLatePage /\ LocksAreHeld /\ LatePages <=> \A j \in Jobs : LateOf(j))
BY DEF TypeOK, StoreTypeOK, AtMostOneLatePage, LocksAreHeld, LatePages, LateOf

LEMMA WorkerLate ==
    ASSUME TypeOK, NEW j \in Jobs, LateOf(j), WorkerStep(j)
    PROVE  LateOf(j)'
<1> USE DEF LateOf
<1>a. /\ exec \in [Jobs -> ExecRecord] /\ job \in [Jobs -> JobRow]
      /\ exec[j] \in ExecRecord /\ exec[j].late \in Nat /\ exec[j].pend \in Seq(Urls)
      /\ exec[j].left \in Nat /\ MaxFound \in Nat
  BY WorkerAssumption DEF TypeOK, StoreTypeOK, ExecRecord
<1>b. Len(<< >>) = 0 /\ Len(exec[j].pend) \in Nat  BY <1>a
<1>1. CASE Deliver(j) /\ UNCHANGED req
  BY <1>1, <1>a, <1>b
       DEF Deliver, QueueTake, Leaves, At, store, ExecRecord, Exists, Running
<1>2. CASE GiveUp(j) /\ UNCHANGED req
  BY <1>2, <1>a, <1>b
       DEF GiveUp, QueueGiveUp, QueueDone, Running, store, ExecRecord, Exists
<1>3. CASE GetSkips(j) /\ UNCHANGED req
  BY <1>3, <1>a, <1>b DEF GetSkips, Leaves, At, store, arq, ExecRecord, Exists
<1>4. CASE Get(j) /\ UNCHANGED req
  BY <1>4, <1>a, <1>b DEF Get, Loads, At, store, arq, ExecRecord, Exists
<1>5. CASE Begin(j) /\ UNCHANGED req
  BY <1>5, <1>a, <1>b DEF Begin, arq, ExecRecord, JobRow, Exists
<1>6. CASE LogStart(j) /\ UNCHANGED req
  BY <1>6, <1>a, <1>b DEF LogStart, store, arq, ExecRecord, Exists
<1>7. CASE Build(j) /\ UNCHANGED req
  BY <1>7, <1>a, <1>b DEF Build, store, arq, ExecRecord, Exists
<1>8. CASE BuildRaises(j) /\ UNCHANGED req
  BY <1>8, <1>a, <1>b DEF BuildRaises, Settles, store, arq, ExecRecord, Exists
<1>9. ASSUME NEW u \in Urls, Check(j, u), UNCHANGED req PROVE LateOf(j)'
  <2>1. job' = job /\ (j \in locked' <=> j \in locked \/ exec[j].pend # << >>)
    BY <1>9 DEF Check, Flushes, KeepsRows
  <2>2. CASE job[j].status = "cancelled"
    <3>1. exec' = [exec EXCEPT ![j].pc = "warn"]  BY <1>9, <2>2 DEF Check
    <3> QED  BY <1>9, <1>a, <1>b, <2>1, <2>2, <3>1 DEF Check, Exists, ExecRecord
  <2>3. CASE job[j].status # "cancelled"
    <3>1. AddsPage(j, u)  BY <1>9, <2>3 DEF Check
    <3>2. /\ exec'[j].pc \in {"next", "save"} /\ exec'[j].mode = exec[j].mode
          /\ exec'[j].late = exec[j].late /\ exec'[j].left = exec[j].left - 1
          /\ exec'[j].pend = Append(exec[j].pend, u)
          /\ Len(exec'[j].pend) = Len(exec[j].pend) + 1
          /\ exec'[j].mode # "shallow" => exec'[j].pc = "save"
      BY <1>a, <3>1, AddsPageRecord
    <3>3. exec'[j].pend # << >>  BY <1>b, <3>2
    <3>4. Exists(j)' = Exists(j) /\ job'[j] = job[j]  BY <2>1 DEF Exists
    <3>5. exec[j].late > 0 => ~Exists(j)  BY <2>3
    <3>6. Len(exec'[j].pend) >= 2 => j \in locked'  BY <1>b, <2>1, <3>2
    <3>7. j \in locked' => exec'[j].pc \in {"next", "save", "warn"}  BY <3>2
    <3>8. /\ exec'[j].mode = "shallow" => exec'[j].left <= MaxFound
          /\ exec'[j].pc = "next" /\ exec'[j].pend # << >> =>
               exec'[j].mode = "shallow" /\ exec'[j].left < MaxFound
      BY <1>a, <3>2
    <3> QED  BY <2>3, <3>2, <3>3, <3>4, <3>5, <3>6, <3>7, <3>8
  <2> QED  BY <2>2, <2>3
<1>10. CASE EngineStops(j) /\ UNCHANGED req
  <2>1. job' = job /\ locked' = locked  BY <1>10 DEF EngineStops, store
  <2>2. CASE exec[j].mode = "shallow"
    <3>1. exec' = [exec EXCEPT ![j].pc = "save"] /\ exec[j].pc = "next"
      BY <1>10, <2>2 DEF EngineStops
    <3> QED  BY <1>a, <1>b, <2>1, <3>1 DEF Exists, ExecRecord
  <2>3. CASE exec[j].mode # "shallow"
    <3>1. Settles(j, "completed") /\ exec[j].pend = << >>
      BY <1>10, <2>3 DEF EngineStops
    <3> QED  BY <1>a, <1>b, <2>1, <3>1 DEF Exists, ExecRecord, Settles
  <2> QED  BY <2>2, <2>3
<1>11. CASE EngineRaises(j) /\ UNCHANGED req
  <2>1. job' = job /\ locked' = locked  BY <1>11 DEF EngineRaises, store
  <2>2. Settles(j, "failed") /\ exec[j].pend = << >>
    BY <1>11, <1>a DEF EngineRaises
  <2> QED  BY <1>a, <1>b, <2>1, <2>2 DEF Exists, ExecRecord, Settles
<1>12. CASE Save(j) /\ UNCHANGED req
  BY <1>12, <1>a, <1>b DEF Save, CommitsPages, WritePages, Release, arq, ExecRecord,
           JobRow, Exists, Late
<1>13. CASE Warn(j) /\ UNCHANGED req
  BY <1>13, <1>a, <1>b DEF Warn, CommitsPages, WritePages, Release, arq, ExecRecord,
           JobRow, Exists, Late
<1>14. CASE CloseRaises(j) /\ UNCHANGED req
  BY <1>14, <1>a, <1>b DEF CloseRaises, Settles, store, arq, ExecRecord, Exists
<1>15. CASE Settle(j) /\ UNCHANGED req
  BY <1>15, <1>a, <1>b
       DEF Settle, WriteOutcome, Leaves, At, arq, ExecRecord, JobRow, Exists
<1>16. CASE RowGone(j) /\ UNCHANGED req
  BY <1>16, <1>a, <1>b
       DEF RowGone, Leaves, At, Release, KeepsRows, arq, ExecRecord, Exists
<1>17. CASE ArqFinish(j) /\ UNCHANGED req
  BY <1>17, <1>a, <1>b DEF ArqFinish, QueueDone, Leaves, At, store, ExecRecord, Exists
<1> QED
  BY <1>1, <1>2, <1>3, <1>4, <1>5, <1>6, <1>7, <1>8, <1>9,
     <1>10, <1>11, <1>12, <1>13, <1>14, <1>15, <1>16, <1>17 DEF WorkerStep

LEMMA HandlerLate ==
    ASSUME TypeOK, IdsUsedOnce, NEW h \in Handlers, NEW j \in Jobs, j = req[h].job,
           LateOf(j), HandlerStep(h)
    PROVE  LateOf(j)'
<1> USE DEF LateOf
<1>a. exec' = exec /\ locked' = locked /\ job \in [Jobs -> JobRow]
  BY HandlerFrame DEF TypeOK, StoreTypeOK
<1>1. CASE InsertRead(h) /\ UNCHANGED exec
  <2>1. exec[j].pc = "idle"
    BY <1>1 DEF InsertRead, IdsUsedOnce
  <2> QED  BY <1>1, <1>a, <2>1
<1>2. CASE Enqueue(h) /\ UNCHANGED exec
  BY <1>2, <1>a DEF Enqueue, store, Exists
<1>3. CASE CancelCommit(h) /\ UNCHANGED exec
  <2>1. CASE Exists(j)
    <3>1. WriteOutcome(j, "cancelled") /\ j \notin locked
      BY <1>3, <2>1 DEF CancelCommit
    <3> QED  BY <1>3, <1>a, <2>1, <3>1, OutcomeRow DEF CancelCommit, Exists, Statuses
  <2>2. CASE ~Exists(j)  BY <1>3, <1>a, <2>2 DEF CancelCommit, Exists
  <2> QED  BY <2>1, <2>2
<1>4. CASE DeleteCommit(h) /\ UNCHANGED exec
  BY <1>4, <1>a DEF DeleteCommit, DeleteJob, NoRow, Exists, Statuses
<1> QED  BY <1>1, <1>2, <1>3, <1>4 DEF HandlerStep

LEMMA RequestLate ==
    ASSUME TypeOK, IdsUsedOnce, NEW h \in Handlers, NEW j \in Jobs, LateOf(j),
           Request(h, j)
    PROVE  LateOf(j)'
<1> USE DEF LateOf
<1>a. exec' = exec /\ locked' = locked
  BY RequestFrame
<1>1. ASSUME NEW mode \in NewModes, CreateCrawl(h, j, mode) PROVE LateOf(j)'
  <2>1. exec[j].pc = "idle"
    BY <1>1 DEF CreateCrawl, FreshId, IdsUsedOnce
  <2> QED  BY <1>1, <1>a, <2>1
<1>2. CASE job' = job  BY <1>2, <1>a DEF Exists
<1> QED
  BY <1>1, <1>2 DEF Request, RetryRead, ScrapeRead, CancelRead, DeleteRead,
                    RemoveDiscovered, DeleteDiscovered, store

LEMMA FailureLate ==
    ASSUME TypeOK, NEW k \in Jobs, LateOf(k), Failure
    PROVE  LateOf(k)'
<1>1. ASSUME NEW h \in Handlers, HandlerDies(h), UNCHANGED exec PROVE LateOf(k)'
  BY <1>1 DEF HandlerDies, store, LateOf, Exists
<1>2. ASSUME NEW j \in Jobs, NEW pc \in PCs, KeepsRows, Leaves(j, pc), Release(j),
             pc \in {"done", "idle"}
      PROVE LateOf(k)'
  BY <1>2 DEF TypeOK, Leaves, At, KeepsRows, Release, LateOf, Exists
<1> QED  BY <1>1, <1>2 DEF Failure, Killed, Aborted, PCs

LEMMA NextLate ==
    ASSUME TypeOK, IdsUsedOnce, NEW k \in Jobs, LateOf(k), [Next]_vars
    PROVE  LateOf(k)'
<1>1. ASSUME Untouched(k) PROVE LateOf(k)'
  BY <1>1 DEF Untouched, LateOf, Exists
<1>2. ASSUME NEW h \in Handlers, NEW j \in Jobs, Request(h, j) PROVE LateOf(k)'
  BY <1>1, <1>2, RequestLate, RequestFrame
<1>3. ASSUME NEW h \in Handlers, HandlerStep(h) PROVE LateOf(k)'
  BY <1>1, <1>3, HandlerLate, HandlerFrame
<1>4. ASSUME NEW j \in Jobs, WorkerStep(j) PROVE LateOf(k)'
  BY <1>1, <1>4, WorkerLate, WorkerFrame
<1>5. CASE UNCHANGED vars  BY <1>5 DEF vars, store, LateOf, Exists
<1> QED  BY <1>2, <1>3, <1>4, <1>5, FailureLate DEF Next

LEMMA LateAlways == Spec => [](\A k \in Jobs : LateOf(k))
<1> DEFINE Inv == TypeOK /\ IdsUsedOnce /\ \A k \in Jobs : LateOf(k)
<1>1. Init => Inv
  <2>1. Init => TypeOK /\ IdsUsedOnce  BY InitTypeOK, InitIds
  <2>2. Init => \A k \in Jobs : LateOf(k)
    BY DEF Init, StoreInit, At, LateOf
  <2> QED  BY <2>1, <2>2
<1>2. Inv /\ [Next]_vars => Inv'
  BY NextTypeOK, NextIds, NextLate
<1>3. Inv => \A k \in Jobs : LateOf(k)  OBVIOUS
<1> QED  BY <1>1, <1>2, <1>3, PTL DEF Spec

(* An execution commits at most one page after its job was cancelled, in    *)
(* every mode and for every number of pages.                                *)
THEOREM LatePagesBounded == Spec => []AtMostOneLatePage
<1>1. TypeOK /\ (\A k \in Jobs : LateOf(k)) => AtMostOneLatePage  BY LateByJob
<1> QED  BY <1>1, TypeCorrect, LateAlways, PTL

(* No path out of an execution leaves the row of its job locked.            *)
THEOREM LocksReleased == Spec => []LocksAreHeld
<1>1. TypeOK /\ (\A k \in Jobs : LateOf(k)) => LocksAreHeld  BY LateByJob
<1> QED  BY <1>1, TypeCorrect, LateAlways, PTL

-----------------------------------------------------------------------------
(* Stamps: an execution past its first commit runs on a row that was        *)
(* started, so what it settles was.                                         *)
StampsOf(j) ==
    /\ job[j].status \in {"running", "completed", "failed"} => job[j].started
    /\ job[j].status \in Terminal => job[j].finished
    /\ job[j].status = "failed" => job[j].error
    /\ Loaded(j) /\ exec[j].pc # "begin" /\ Exists(j) => job[j].started

LEMMA StampsByJob == StampsAgree /\ StartedFirst <=> \A j \in Jobs : StampsOf(j)
BY DEF StampsAgree, StartedFirst, StampsOf

LEMMA WorkerStamps ==
    ASSUME TypeOK, IdsUsedOnce, NEW j \in Jobs, StampsOf(j), WorkerStep(j)
    PROVE  StampsOf(j)'
<1> USE DEF StampsOf, Loaded
<1>a. /\ exec \in [Jobs -> ExecRecord] /\ job \in [Jobs -> JobRow]
      /\ exec[j].pc = "settle" => exec[j].status \in Terminal
  BY DEF TypeOK, StoreTypeOK, IdsUsedOnce
<1>1. CASE Deliver(j) /\ UNCHANGED req
  BY <1>1, <1>a DEF Deliver, QueueTake, Leaves, At, store, ExecRecord, Exists
<1>2. CASE GiveUp(j) /\ UNCHANGED req
  BY <1>2, <1>a DEF GiveUp, QueueGiveUp, QueueDone, Running, store, ExecRecord, Exists
<1>3. CASE GetSkips(j) /\ UNCHANGED req
  BY <1>3, <1>a DEF GetSkips, Leaves, At, store, arq, ExecRecord, Exists
<1>4. CASE Get(j) /\ UNCHANGED req
  BY <1>4, <1>a DEF Get, Loads, At, store, arq, ExecRecord, Exists
<1>5. CASE Begin(j) /\ UNCHANGED req
  BY <1>5, <1>a DEF Begin, arq, ExecRecord, JobRow, Exists, Terminal, Active, Statuses
<1>6. CASE LogStart(j) /\ UNCHANGED req
  BY <1>6, <1>a DEF LogStart, store, arq, ExecRecord, Exists
<1>7. CASE Build(j) /\ UNCHANGED req
  BY <1>7, <1>a DEF Build, store, arq, ExecRecord, Exists
<1>8. CASE BuildRaises(j) /\ UNCHANGED req
  BY <1>8, <1>a DEF BuildRaises, Settles, store, arq, ExecRecord, Exists
<1>9. ASSUME NEW u \in Urls, Check(j, u), UNCHANGED req PROVE StampsOf(j)'
  <2>1. job' = job /\ exec'[j].pc # "begin" /\ Loaded(j) /\ exec[j].pc # "begin"
    BY <1>9, <1>a, AddsPageRecord DEF Check, Flushes, KeepsRows, ExecRecord
  <2> QED  BY <2>1 DEF Exists
<1>10. CASE EngineStops(j) /\ UNCHANGED req
  <2>1. job' = job /\ Loaded(j) /\ exec[j].pc # "begin"
    BY <1>10 DEF EngineStops, store
  <2> QED  BY <2>1 DEF Exists
<1>11. CASE EngineRaises(j) /\ UNCHANGED req
  BY <1>11, <1>a DEF EngineRaises, Settles, store, arq, ExecRecord, Exists
<1>12. CASE Save(j) /\ UNCHANGED req
  BY <1>12, <1>a DEF Save, CommitsPages, WritePages, Release, arq, ExecRecord, JobRow,
           Exists, Terminal, Active, Statuses
<1>13. CASE Warn(j) /\ UNCHANGED req
  BY <1>13, <1>a DEF Warn, CommitsPages, WritePages, Release, arq, ExecRecord, JobRow,
           Exists, Terminal, Active, Statuses
<1>14. CASE CloseRaises(j) /\ UNCHANGED req
  BY <1>14, <1>a DEF CloseRaises, Settles, store, arq, ExecRecord, Exists
<1>15. CASE Settle(j) /\ UNCHANGED req
  <2>1. /\ exec[j].status \in Terminal /\ exec[j].status \in Statuses
        /\ job[j].started /\ WriteOutcome(j, exec[j].status)
        /\ exec'[j].pc = "done"
    BY <1>15, <1>a DEF Settle, Terminal, Leaves, At
  <2>2. /\ job'[j].status \in Terminal /\ job'[j].finished
        /\ job'[j].started = job[j].started
        /\ job'[j].status = "failed" => job'[j].error
    <3> DEFINE st == exec[j].status
    <3>1. PICK s \in Statuses : s = st  BY <2>1
    <3>2. WriteOutcome(j, s)  BY <2>1, <3>1
    <3> HIDE DEF st
    <3>3. /\ job'[j].status = s /\ job'[j].finished
          /\ job'[j].error = (job[j].error \/ s = "failed")
          /\ job'[j].started = job[j].started
      BY <1>a, <3>2, OutcomeRow
    <3> QED  BY <2>1, <3>1, <3>3 DEF st
  <2> QED  BY <2>1, <2>2
<1>16. CASE RowGone(j) /\ UNCHANGED req
  BY <1>16, <1>a DEF RowGone, Leaves, At, Release, KeepsRows, arq, ExecRecord, Exists
<1>17. CASE ArqFinish(j) /\ UNCHANGED req
  BY <1>17, <1>a DEF ArqFinish, QueueDone, Leaves, At, store, ExecRecord, Exists
<1> QED
  BY <1>1, <1>2, <1>3, <1>4, <1>5, <1>6, <1>7, <1>8, <1>9,
     <1>10, <1>11, <1>12, <1>13, <1>14, <1>15, <1>16, <1>17 DEF WorkerStep

LEMMA HandlerStamps ==
    ASSUME TypeOK, IdsUsedOnce, NEW h \in Handlers, NEW j \in Jobs, j = req[h].job,
           StampsOf(j), HandlerStep(h)
    PROVE  StampsOf(j)'
<1> USE DEF StampsOf, Loaded
<1>a. exec' = exec /\ job \in [Jobs -> JobRow]
  BY HandlerFrame DEF TypeOK, StoreTypeOK
<1>1. CASE InsertRead(h) /\ UNCHANGED exec
  <2>1. exec[j].pc = "idle"
    BY <1>1 DEF InsertRead, IdsUsedOnce
  <2> QED
    BY <1>1, <1>a, <2>1 DEF InsertRead, InsertJob, NoRow, Terminal, Active, Statuses
<1>2. CASE Enqueue(h) /\ UNCHANGED exec
  BY <1>2, <1>a DEF Enqueue, store, Exists
<1>3. CASE CancelCommit(h) /\ UNCHANGED exec
  <2>1. CASE Exists(j)
    <3>1. WriteOutcome(j, "cancelled")  BY <1>3, <2>1 DEF CancelCommit
    <3> QED  BY <1>a, <2>1, <3>1, OutcomeRow DEF Statuses
  <2>2. CASE ~Exists(j)  BY <1>3, <1>a, <2>2 DEF CancelCommit, Exists
  <2> QED  BY <2>1, <2>2
<1>4. CASE DeleteCommit(h) /\ UNCHANGED exec
  BY <1>4, <1>a DEF DeleteCommit, DeleteJob, NoRow, Exists, Terminal, Active, Statuses
<1> QED  BY <1>1, <1>2, <1>3, <1>4 DEF HandlerStep

LEMMA RequestStamps ==
    ASSUME TypeOK, IdsUsedOnce, NEW h \in Handlers, NEW j \in Jobs, StampsOf(j),
           Request(h, j)
    PROVE  StampsOf(j)'
<1> USE DEF StampsOf, Loaded
<1>a. exec' = exec /\ job \in [Jobs -> JobRow]
  BY RequestFrame DEF TypeOK, StoreTypeOK
<1>1. ASSUME NEW mode \in NewModes, CreateCrawl(h, j, mode) PROVE StampsOf(j)'
  <2>1. exec[j].pc = "idle"
    BY <1>1 DEF CreateCrawl, FreshId, IdsUsedOnce
  <2> QED
    BY <1>1, <1>a, <2>1 DEF CreateCrawl, InsertJob, NoRow, Terminal, Active, Statuses
<1>2. CASE job' = job  BY <1>2, <1>a DEF Exists
<1> QED
  BY <1>1, <1>2 DEF Request, RetryRead, ScrapeRead, CancelRead, DeleteRead,
                    RemoveDiscovered, DeleteDiscovered, store

LEMMA FailureStamps ==
    ASSUME TypeOK, NEW k \in Jobs, StampsOf(k), Failure
    PROVE  StampsOf(k)'
<1>1. ASSUME NEW h \in Handlers, HandlerDies(h), UNCHANGED exec PROVE StampsOf(k)'
  BY <1>1 DEF HandlerDies, store, StampsOf, Loaded, Exists
<1>2. ASSUME NEW j \in Jobs, NEW pc \in PCs, KeepsRows, Leaves(j, pc),
             pc \in {"done", "idle"}
      PROVE StampsOf(k)'
  BY <1>2 DEF TypeOK, Leaves, At, KeepsRows, StampsOf, Loaded, Exists
<1> QED  BY <1>1, <1>2 DEF Failure, Killed, Aborted, PCs

LEMMA NextStamps ==
    ASSUME TypeOK, IdsUsedOnce, NEW k \in Jobs, StampsOf(k), [Next]_vars
    PROVE  StampsOf(k)'
<1>1. ASSUME Untouched(k) PROVE StampsOf(k)'
  BY <1>1 DEF Untouched, StampsOf, Loaded, Exists
<1>2. ASSUME NEW h \in Handlers, NEW j \in Jobs, Request(h, j) PROVE StampsOf(k)'
  BY <1>1, <1>2, RequestStamps, RequestFrame
<1>3. ASSUME NEW h \in Handlers, HandlerStep(h) PROVE StampsOf(k)'
  BY <1>1, <1>3, HandlerStamps, HandlerFrame
<1>4. ASSUME NEW j \in Jobs, WorkerStep(j) PROVE StampsOf(k)'
  BY <1>1, <1>4, WorkerStamps, WorkerFrame
<1>5. CASE UNCHANGED vars  BY <1>5 DEF vars, store, StampsOf, Loaded, Exists
<1> QED  BY <1>2, <1>3, <1>4, <1>5, FailureStamps DEF Next

LEMMA StampsAlways == Spec => [](\A k \in Jobs : StampsOf(k))
<1> DEFINE Inv == TypeOK /\ IdsUsedOnce /\ \A k \in Jobs : StampsOf(k)
<1>1. Init => Inv
  <2>1. Init => TypeOK /\ IdsUsedOnce  BY InitTypeOK, InitIds
  <2>2. Init => \A k \in Jobs : StampsOf(k)
    BY DEF Init, StoreInit, At, NoRow, StampsOf, Loaded, Terminal, Active, Statuses
  <2> QED  BY <2>1, <2>2
<1>2. Inv /\ [Next]_vars => Inv'
  BY NextTypeOK, NextIds, NextStamps
<1>3. Inv => \A k \in Jobs : StampsOf(k)  OBVIOUS
<1> QED  BY <1>1, <1>2, <1>3, PTL DEF Spec

(* What runs or ended by itself was started, what ended is stamped so, and  *)
(* what failed says why.                                                    *)
THEOREM StampsCorrect == Spec => []StampsAgree
<1>1. (\A k \in Jobs : StampsOf(k)) => StampsAgree  BY StampsByJob
<1> QED  BY <1>1, StampsAlways, PTL
-----------------------------------------------------------------------------
(* Pages: what is committed, in the session and still to be yielded stays   *)
(* within the tries spent times the limit.                                  *)
EnqueuesOnce ==
    \A h \in Handlers : Holds(h, "enqueue") =>
      /\ req[h].job \notin queue /\ job[req[h].job].urls_discovered = 0
      /\ \A g \in Handlers \ {h} : Holds(g, "enqueue") => req[g].job # req[h].job

PagesOf(j) ==
    /\ job[j].urls_discovered <= MaxTries * Limit(j)
    /\ j \notin queue => tries[j] = 0
    /\ j \in queue => job[j].urls_discovered <= tries[j] * Limit(j)
    /\ exec[j].pc = "get" /\ Exists(j) =>
         job[j].urls_discovered + Limit(j) <= tries[j] * Limit(j)
    /\ Loaded(j) /\ Exists(j) => exec[j].discovered + exec[j].left <= tries[j] * Limit(j)

LEMMA PagesByJob ==
    PagesByTry /\ PagesWithinTries <=> EnqueuesOnce /\ \A j \in Jobs : PagesOf(j)
BY DEF PagesByTry, PagesWithinTries, EnqueuesOnce, PagesOf

(* Multiples of a limit.                                                    *)
LEMMA OneTryMore ==
    ASSUME NEW t \in Nat, NEW limit \in Nat
    PROVE  /\ t * limit \in Nat /\ (t + 1) * limit = t * limit + limit
           /\ 0 * limit = 0
OBVIOUS

LEMMA FewerTries ==
    ASSUME NEW t \in Nat, NEW m \in Nat, t <= m, NEW limit \in Nat
    PROVE  t * limit <= m * limit
<1>1. PICK d \in Nat : m = t + d
  <2>1. m - t \in Nat /\ m = t + (m - t)  OBVIOUS
  <2> QED  BY <2>1
<1>2. d * limit \in Nat /\ t * limit \in Nat  OBVIOUS
<1>3. (t + d) * limit = t * limit + d * limit  OBVIOUS
<1> QED  BY <1>1, <1>2, <1>3

LEMMA LimitIsNat == ASSUME TypeOK, NEW j \in Jobs PROVE Limit(j) \in Nat
<1>1. job[j].seeds \in Seeds  BY DEF TypeOK, StoreTypeOK, JobRow
<1>2. Cardinality(job[j].seeds) \in Nat  BY <1>1, FS_CardinalityType DEF Seeds
<1> QED  BY <1>2, WorkerAssumption DEF Limit

(* Only the queue entry of the job of a step changes.                       *)
QueueKept(k) == tries'[k] = tries[k] /\ (k \in queue') = (k \in queue)

LEMMA WorkerQueue ==
    ASSUME TypeOK, NEW j \in Jobs, WorkerStep(j), NEW k \in Jobs \ {j}
    PROVE  QueueKept(k)
BY DEF TypeOK, QueueKept, WorkerStep, Deliver, QueueTake, GiveUp, QueueGiveUp, QueueDone,
       GetSkips, Get, Begin, LogStart, Build, BuildRaises, Check, EngineStops, EngineRaises,
       Save, Warn, CommitsPages, CloseRaises, Settle, RowGone, ArqFinish, arq

(* A step that leaves the queue, the counter, the mode and the seeds of a   *)
(* job alone, and does not take its execution further, keeps PagesOf.       *)
LEMMA PagesKept ==
    ASSUME NEW j \in Jobs, PagesOf(j), QueueKept(j),
           job'[j].urls_discovered = job[j].urls_discovered, Limit(j)' = Limit(j),
           exec'[j].pc = "get" /\ Exists(j)' => exec[j].pc = "get" /\ Exists(j),
           Loaded(j)' /\ Exists(j)' =>
             /\ Loaded(j) /\ Exists(j)
             /\ exec'[j].discovered = exec[j].discovered /\ exec'[j].left = exec[j].left
    PROVE  PagesOf(j)'
<1> HIDE DEF Limit, Loaded, Exists
<1> QED  BY DEF PagesOf, QueueKept

LEMMA WorkerPages ==
    ASSUME TypeOK, IdsUsedOnce, NEW j \in Jobs, CountersOf(j), PagesOf(j), WorkerStep(j)
    PROVE  PagesOf(j)'
<1>a. /\ exec \in [Jobs -> ExecRecord] /\ job \in [Jobs -> JobRow]
      /\ tries[j] \in 0 .. MaxTries /\ tries \in [Jobs -> 0 .. MaxTries]
      /\ MaxTries \in Nat /\ Limit(j) \in Nat
      /\ job[j].urls_discovered \in Nat
      /\ exec[j].discovered \in Nat /\ exec[j].left \in Nat /\ Len(exec[j].pend) \in Nat
      /\ exec[j].pc # "idle" => j \in queue
      /\ ~Exists(j) => job[j].urls_discovered = 0
  <2>1. exec[j] \in ExecRecord /\ job[j] \in JobRow  BY DEF TypeOK, StoreTypeOK
  <2>2. Len(exec[j].pend) \in Nat  BY <2>1 DEF ExecRecord
  <2> QED
    BY <2>1, <2>2, LimitIsNat, QueueAssumption
       DEF TypeOK, StoreTypeOK, ExecRecord, JobRow, IdsUsedOnce
<1>b. /\ tries[j] * Limit(j) \in Nat /\ tries[j] * Limit(j) <= MaxTries * Limit(j)
      /\ (tries[j] + 1) * Limit(j) = tries[j] * Limit(j) + Limit(j)
      /\ 0 * Limit(j) = 0 /\ MaxTries * Limit(j) \in Nat
  BY <1>a, OneTryMore, FewerTries
<1>c. ASSUME UNCHANGED job PROVE Limit(j)' = Limit(j) /\ Exists(j)' = Exists(j)
  BY <1>c DEF Limit, Exists
<1>1. CASE Deliver(j) /\ UNCHANGED req
  <2>1. /\ UNCHANGED <<job, queue>> /\ tries'[j] = tries[j] + 1 /\ j \in queue
        /\ exec'[j].pc = "get"
    BY <1>1, <1>a DEF Deliver, QueueTake, Leaves, At, store
  <2>2. Limit(j)' = Limit(j)  BY <1>c, <2>1
  <2>3. job[j].urls_discovered + Limit(j) <= tries'[j] * Limit(j)
    BY <1>a, <1>b, <2>1 DEF PagesOf
  <2> HIDE DEF Limit
  <2> QED  BY <1>a, <1>b, <2>1, <2>2, <2>3 DEF PagesOf, Loaded
<1>2. ASSUME QueueDone(j), UNCHANGED job, exec'[j].pc = "idle" PROVE PagesOf(j)'
  <2>1. j \notin queue' /\ tries'[j] = 0 /\ UNCHANGED job  BY <1>2, <1>a DEF QueueDone
  <2> QED  BY <1>2, <1>c, <2>1 DEF PagesOf, Loaded
<1>3. CASE Get(j) /\ UNCHANGED req
  <2>1. /\ UNCHANGED job /\ QueueKept(j) /\ exec[j].pc = "get"
        /\ exec'[j].pc = "begin" /\ exec'[j].discovered = job[j].urls_discovered
        /\ exec'[j].left = Limit(j)
    BY <1>3, <1>a DEF Get, Loads, At, store, arq, QueueKept, Limit
  <2>2. Limit(j)' = Limit(j) /\ Exists(j)' = Exists(j)  BY <1>c, <2>1
  <2> QED  BY <2>1, <2>2 DEF PagesOf, QueueKept
<1>4. CASE Begin(j) /\ UNCHANGED req
  <2>1. /\ job'[j].urls_discovered = job[j].urls_discovered
        /\ job'[j].mode = job[j].mode /\ job'[j].seeds = job[j].seeds
        /\ exec'[j].pc = "log" /\ exec[j].pc = "begin" /\ Exists(j) /\ QueueKept(j)
        /\ exec'[j].discovered = exec[j].discovered /\ exec'[j].left = exec[j].left
    BY <1>4, <1>a DEF Begin, arq, QueueKept, ExecRecord, JobRow
  <2> QED  BY <2>1, PagesKept DEF Limit, Loaded
<1>5. ASSUME UNCHANGED <<job, queue, tries>>, exec[j].pc \notin {"idle", "get", "done"},
             exec'[j].pc \notin {"idle", "get", "done"},
             exec'[j].discovered = exec[j].discovered /\ exec'[j].left = exec[j].left
      PROVE  PagesOf(j)'
  BY <1>5, <1>c, PagesKept DEF Loaded, QueueKept
<1>6. CASE (LogStart(j) \/ Build(j) \/ BuildRaises(j) \/ EngineRaises(j) \/ CloseRaises(j))
             /\ UNCHANGED req
  BY <1>6, <1>a, <1>5
     DEF LogStart, Build, BuildRaises, EngineRaises, CloseRaises, Settles, store, arq,
         ExecRecord
<1>7. CASE EngineStops(j) /\ UNCHANGED req
  BY <1>7, <1>a, <1>5 DEF EngineStops, Settles, store, arq, ExecRecord
<1>8. ASSUME NEW u \in Urls, Check(j, u) PROVE PagesOf(j)'
  <2>1. UNCHANGED <<job, queue, tries>> /\ exec[j].pc = "next"
    BY <1>8 DEF Check, Flushes, KeepsRows, arq
  <2>2. CASE job[j].status = "cancelled"
    BY <1>8, <1>5, <1>a, <2>1, <2>2 DEF Check, ExecRecord
  <2>3. CASE job[j].status # "cancelled"
    <3>1. AddsPage(j, u)  BY <1>8, <2>3 DEF Check
    <3>2. /\ exec'[j].pc \in {"next", "save"} /\ exec'[j].left = exec[j].left - 1
          /\ exec'[j].discovered = exec[j].discovered + 1
      BY <1>a, <3>1, AddsPageRecord
    <3>3. exec'[j].discovered + exec'[j].left = exec[j].discovered + exec[j].left
      <4>1. exec[j].discovered \in Nat /\ exec[j].left \in Nat  BY <1>a
      <4> QED  BY <3>2, <4>1
    <3>4. Limit(j)' = Limit(j) /\ Exists(j)' = Exists(j)  BY <1>c, <2>1
    <3>5. Exists(j) => exec[j].discovered + exec[j].left <= tries[j] * Limit(j)
      BY <2>1 DEF PagesOf, Loaded
    <3>6. /\ job'[j] = job[j] /\ tries'[j] = tries[j] /\ (j \in queue') = (j \in queue)
          /\ exec'[j].pc # "get"
      BY <2>1, <3>2
    <3> HIDE DEF Limit, Exists
    <3> QED  BY <3>3, <3>4, <3>5, <3>6 DEF PagesOf
  <2> QED  BY <2>2, <2>3
<1>9. CASE (Save(j) \/ Warn(j)) /\ UNCHANGED req
  <2>1. /\ job'[j].urls_discovered = exec[j].discovered
        /\ job'[j].mode = job[j].mode /\ job'[j].seeds = job[j].seeds
        /\ exec[j].pc \in {"save", "warn"} /\ exec'[j].pc \in {"next", "settle"}
        /\ exec'[j].discovered = exec[j].discovered /\ exec'[j].left = exec[j].left
        /\ Exists(j) /\ UNCHANGED <<queue, tries>>
    <3>1. CASE Save(j)
      BY <1>a, <3>1 DEF Save, CommitsPages, WritePages, arq, ExecRecord, JobRow
    <3>2. CASE Warn(j)
      BY <1>a, <3>2 DEF Warn, CommitsPages, WritePages, arq, ExecRecord, JobRow
    <3> QED  BY <1>9, <3>1, <3>2
  <2>2. Limit(j)' = Limit(j)  BY <2>1 DEF Limit
  <2>3. exec[j].discovered + exec[j].left <= tries[j] * Limit(j)
    BY <2>1 DEF PagesOf, Loaded
  <2>4. exec[j].discovered <= tries[j] * Limit(j) /\ exec[j].discovered <= MaxTries * Limit(j)
    BY <1>a, <1>b, <2>3
  <2> HIDE DEF Limit
  <2> QED  BY <1>a, <2>1, <2>2, <2>3, <2>4 DEF PagesOf, Loaded
<1>10. CASE Settle(j) /\ UNCHANGED req
  <2>1. /\ job'[j].urls_discovered = job[j].urls_discovered
        /\ job'[j].mode = job[j].mode /\ job'[j].seeds = job[j].seeds
        /\ exec'[j].pc = "done" /\ QueueKept(j)
    BY <1>10, <1>a DEF Settle, WriteOutcome, Leaves, At, arq, QueueKept, JobRow
  <2> QED  BY <2>1, PagesKept DEF Limit, Loaded
<1>11. CASE (GetSkips(j) \/ RowGone(j)) /\ UNCHANGED req
  <2>1. UNCHANGED job /\ exec'[j].pc = "done" /\ QueueKept(j)
    BY <1>11, <1>a DEF GetSkips, RowGone, Leaves, At, KeepsRows, store, arq, QueueKept
  <2> QED  BY <2>1, <1>c, PagesKept DEF Loaded
<1>12. CASE GiveUp(j) /\ UNCHANGED req
  BY <1>12, <1>2, <1>a DEF GiveUp, QueueGiveUp, Running, store
<1>13. CASE ArqFinish(j) /\ UNCHANGED req
  BY <1>13, <1>2, <1>a DEF ArqFinish, Leaves, At, store
<1> QED
  BY <1>1, <1>3, <1>4, <1>6, <1>7, <1>8, <1>9, <1>10, <1>11, <1>12, <1>13 DEF WorkerStep

LEMMA HandlerPages ==
    ASSUME TypeOK, IdsUsedOnce, EnqueuesOnce, NEW h \in Handlers, NEW j \in Jobs,
           PagesOf(j), HandlerStep(h)
    PROVE  PagesOf(j)'
<1>a. /\ exec' = exec /\ job \in [Jobs -> JobRow] /\ req[h].job \in Jobs
      /\ Limit(j) \in Nat /\ MaxTries \in Nat /\ tries[j] \in Nat
      /\ j \in queue => job[j].status # "unused"
      /\ exec[j].pc # "idle" => j \in queue
  BY HandlerFrame, LimitIsNat, QueueAssumption DEF TypeOK, StoreTypeOK, IdsUsedOnce
<1>1. ASSUME job'[j].urls_discovered = job[j].urls_discovered,
             job'[j].mode = job[j].mode, job'[j].seeds = job[j].seeds,
             Exists(j)' => Exists(j), UNCHANGED <<queue, tries>>
      PROVE  PagesOf(j)'
  <2>1. Limit(j)' = Limit(j) /\ QueueKept(j)  BY <1>1 DEF Limit, QueueKept
  <2> QED  BY <1>1, <1>a, <2>1, PagesKept DEF Loaded
(* A counter that is 0 is within any number of tries.                       *)
<1>2. ASSUME job'[j].urls_discovered = 0, UNCHANGED <<queue, tries>>, Limit(j)' \in Nat,
             ~Exists(j)' \/ exec[j].pc = "idle"
      PROVE  PagesOf(j)'
  <2>1. MaxTries * Limit(j)' \in Nat /\ tries[j] * Limit(j)' \in Nat
    BY <1>2, <1>a, OneTryMore
  <2>2. /\ j \notin queue' => tries'[j] = 0
        /\ exec'[j].pc = "get" => ~Exists(j)' /\ (Loaded(j)' => ~Exists(j)')
    BY <1>2, <1>a DEF PagesOf, Loaded
  <2>3. (Loaded(j) /\ Exists(j))' => FALSE  BY <1>2, <1>a DEF Loaded
  <2> HIDE DEF Limit, Exists, Loaded
  <2> QED  BY <1>2, <1>a, <2>1, <2>2, <2>3 DEF PagesOf
<1>3. CASE InsertRead(h) /\ UNCHANGED exec
  <2>1. CASE j = req[h].job
    <3>1. job[j].status = "unused"  BY <1>3, <2>1 DEF InsertRead, IdsUsedOnce
    <3>2. j \notin queue /\ exec[j].pc = "idle"  BY <1>a, <3>1
    <3>3. job'[j].urls_discovered = 0 /\ UNCHANGED <<queue, tries>>
      BY <1>3, <1>a, <2>1 DEF InsertRead, InsertJob, NoRow, arq
    <3>4. Limit(j)' \in Nat
      <4>1. TypeOK'  BY HandlerTypeOK
      <4>2. (job[j].seeds)' \in Seeds  BY <4>1 DEF TypeOK, StoreTypeOK, JobRow
      <4>3. Cardinality((job[j].seeds)') \in Nat  BY <4>2, FS_CardinalityType DEF Seeds
      <4> QED  BY <4>3, WorkerAssumption DEF Limit
    <3> QED  BY <1>2, <3>2, <3>3, <3>4
  <2>2. CASE j # req[h].job
    <3>1. Untouched(j)  BY <2>2, HandlerFrame
    <3> QED  BY <1>1, <1>3, <3>1 DEF Untouched, InsertRead, arq, Exists
  <2> QED  BY <2>1, <2>2
<1>4. CASE Enqueue(h) /\ UNCHANGED exec
  <2>1. UNCHANGED <<job, tries, exec>> /\ Limit(j)' = Limit(j) /\ Exists(j)' = Exists(j)
    BY <1>4 DEF Enqueue, QueuePut, store, Limit, Exists
  <2>2. CASE j = req[h].job
    <3>1. j \notin queue /\ job[j].urls_discovered = 0 /\ exec[j].pc = "idle" /\ tries[j] = 0
          /\ j \in queue'
      BY <1>4, <1>a, <2>2 DEF Enqueue, QueuePut, EnqueuesOnce, PagesOf
    <3>2. 0 * Limit(j) = 0  BY <1>a, OneTryMore
    <3> HIDE DEF Limit, Exists
    <3> QED  BY <1>a, <2>1, <3>1, <3>2 DEF PagesOf, Loaded
  <2>3. CASE j # req[h].job
    <3>1. QueueKept(j)  BY <1>4, <2>3 DEF Enqueue, QueuePut, QueueKept
    <3> QED  BY <2>1, <3>1, PagesKept DEF Loaded
  <2> QED  BY <2>2, <2>3
<1>5. CASE CancelCommit(h) /\ UNCHANGED exec
  <2>1. /\ job'[j].urls_discovered = job[j].urls_discovered
        /\ job'[j].mode = job[j].mode /\ job'[j].seeds = job[j].seeds
        /\ Exists(j)' => Exists(j)
    BY <1>5, <1>a DEF CancelCommit, WriteOutcome, JobRow, Exists
  <2> QED  BY <1>1, <1>5, <2>1 DEF CancelCommit, arq
<1>6. CASE DeleteCommit(h) /\ UNCHANGED exec
  <2>1. CASE j = req[h].job
    <3>1. /\ job'[j] = NoRow("deleted") /\ UNCHANGED <<queue, tries>>
      BY <1>6, <1>a, <2>1 DEF DeleteCommit, DeleteJob, arq
    <3>2. job'[j].urls_discovered = 0 /\ ~Exists(j)' /\ Limit(j)' = MaxFound
      BY <3>1 DEF NoRow, Exists, Statuses, Limit
    <3> QED  BY <1>2, <3>1, <3>2, WorkerAssumption
  <2>2. CASE j # req[h].job
    <3>1. Untouched(j)  BY <2>2, HandlerFrame
    <3> QED  BY <1>1, <1>6, <3>1 DEF Untouched, DeleteCommit, arq, Exists
  <2> QED  BY <2>1, <2>2
<1> QED  BY <1>3, <1>4, <1>5, <1>6 DEF HandlerStep

LEMMA RequestPages ==
    ASSUME TypeOK, IdsUsedOnce, NEW h \in Handlers, NEW j \in Jobs, NEW k \in Jobs,
           PagesOf(k), Request(h, j)
    PROVE  PagesOf(k)'
<1>a. /\ exec' = exec /\ UNCHANGED <<queue, tries>> /\ job \in [Jobs -> JobRow]
      /\ exec[k].pc # "idle" => job[k].status # "unused"
      /\ Limit(k) \in Nat /\ MaxTries \in Nat /\ tries[k] \in Nat
      /\ job[k].status = "unused" => job[k].urls_discovered = 0
  <2>1. UNCHANGED <<queue, tries>>
    BY DEF Request, CreateCrawl, RetryRead, ScrapeRead, CancelRead, DeleteRead,
           RemoveDiscovered, arq
  <2>2. /\ exec[k].pc # "idle" => job[k].status # "unused"
        /\ job[k].status = "unused" => job[k].urls_discovered = 0
    BY DEF IdsUsedOnce, Exists, Statuses
  <2>3. tries[k] \in Nat /\ MaxTries \in Nat /\ job \in [Jobs -> JobRow]
    BY QueueAssumption DEF TypeOK, StoreTypeOK
  <2> QED  BY <2>1, <2>2, <2>3, RequestFrame, LimitIsNat
<1>1. ASSUME job'[k] = job[k] PROVE PagesOf(k)'
  BY <1>1, <1>a, PagesKept DEF Limit, QueueKept, Loaded, Exists
<1>2. ASSUME NEW mode \in NewModes, CreateCrawl(h, j, mode), j = k PROVE PagesOf(k)'
  <2>1. /\ job[k].status = "unused" /\ exec[k].pc = "idle"
        /\ job'[k].urls_discovered = 0 /\ job'[k].seeds = {}
    BY <1>2, <1>a DEF CreateCrawl, FreshId, InsertJob, NoRow
  <2>2. Limit(k)' \in Nat  BY <2>1, FS_EmptySet, WorkerAssumption DEF Limit
  <2>3. MaxTries * Limit(k)' \in Nat /\ tries[k] * Limit(k)' \in Nat
    BY <2>2, <1>a, OneTryMore
  <2> HIDE DEF Limit
  <2> QED  BY <1>a, <2>1, <2>2, <2>3 DEF PagesOf, Loaded
<1> QED
  BY <1>a, <1>1, <1>2, RequestFrame
     DEF Request, CreateCrawl, InsertJob, RetryRead, ScrapeRead, CancelRead, DeleteRead,
         RemoveDiscovered, DeleteDiscovered, store

LEMMA FailurePages ==
    ASSUME TypeOK, NEW k \in Jobs, CountersOf(k), PagesOf(k), Failure
    PROVE  PagesOf(k)'
<1>1. ASSUME UNCHANGED <<job, queue, tries>>,
             \/ exec'[k] = exec[k]
             \/ exec'[k].pc \in {"idle", "done"}
      PROVE  PagesOf(k)'
  BY <1>1, PagesKept DEF Limit, QueueKept, Loaded, Exists
<1>2. ASSUME NEW h \in Handlers, HandlerDies(h), UNCHANGED exec PROVE PagesOf(k)'
  BY <1>1, <1>2 DEF HandlerDies, store, arq
<1>3. ASSUME NEW j \in Jobs, KeepsRows, UNCHANGED arq, Leaves(j, "done") \/ Leaves(j, "idle")
      PROVE PagesOf(k)'
  BY <1>1, <1>3 DEF TypeOK, Leaves, At, KeepsRows, arq
<1> QED  BY <1>2, <1>3 DEF Failure, Killed, Aborted

LEMMA NextPages ==
    ASSUME TypeOK, IdsUsedOnce, EnqueuesOnce, NEW k \in Jobs, CountersOf(k), PagesOf(k),
           [Next]_vars
    PROVE  PagesOf(k)'
<1>1. ASSUME NEW j \in Jobs, WorkerStep(j), j # k PROVE PagesOf(k)'
  BY <1>1, WorkerFrame, WorkerQueue, PagesKept DEF Untouched, Limit, Loaded, Exists
<1>2. CASE UNCHANGED vars
  BY <1>2, PagesKept DEF vars, store, arq, QueueKept, Limit, Loaded, Exists
<1> QED
  BY <1>1, <1>2, WorkerPages, HandlerPages, RequestPages, FailurePages DEF Next

(* No new enqueue, none queued anew, and no pages for what is not queued.   *)
LEMMA EnqueuesKept ==
    ASSUME TypeOK, EnqueuesOnce, queue' \subseteq queue,
           \A h \in Handlers : Holds(h, "enqueue")' => req'[h] = req[h],
           \A k \in Jobs \ queue :
             job'[k].urls_discovered \in {job[k].urls_discovered, 0}
    PROVE  EnqueuesOnce'
<1>1. ASSUME NEW h \in Handlers, Holds(h, "enqueue")'
      PROVE  Holds(h, "enqueue") /\ req'[h] = req[h] /\ req[h].job \in Jobs \ queue
  BY <1>1, RequestHasJob DEF EnqueuesOnce, Holds
<1> QED  BY <1>1 DEF EnqueuesOnce

LEMMA NextEnqueues ==
    ASSUME TypeOK, IdsUsedOnce, EnqueuesOnce, [Next]_vars
    PROVE  EnqueuesOnce'
<1>a. /\ \A h \in Handlers : ~Holds(h, "free") => req[h].job \in Jobs
      /\ job \in [Jobs -> JobRow] /\ DOMAIN req = Handlers
  BY RequestHasJob DEF TypeOK, StoreTypeOK
<1>b. ASSUME NEW h \in Handlers, Becomes(h, Free)
      PROVE  \A g \in Handlers : Holds(g, "enqueue")' => req'[g] = req[g]
  BY <1>b, <1>a DEF Becomes, Free, Holds
(* An id that is inserted is not queued, nor held by another enqueue.        *)
<1>c. ASSUME NEW h \in Handlers, NEW j \in Jobs, job[j].status = "unused",
             UNCHANGED queue, Becomes(h, [op |-> "enqueue", job |-> j]),
             job'[j].urls_discovered = 0, \A k \in Jobs \ {j} : job'[k] = job[k]
      PROVE  EnqueuesOnce'
  <2>1. j \notin queue  BY <1>c DEF IdsUsedOnce
  <2>2. \A g \in Handlers : Holds(g, "enqueue") => req[g].job # j
    BY <1>c DEF IdsUsedOnce, Holds
  <2>3. req'[h] = [op |-> "enqueue", job |-> j] /\ \A g \in Handlers \ {h} : req'[g] = req[g]
    BY <1>c, <1>a DEF Becomes
  <2> QED  BY <1>a, <1>c, <2>1, <2>2, <2>3 DEF EnqueuesOnce, Holds
<1>1. ASSUME NEW h \in Handlers, NEW j \in Jobs, Request(h, j) PROVE EnqueuesOnce'
  <2>1. ASSUME NEW mode \in NewModes, CreateCrawl(h, j, mode) PROVE EnqueuesOnce'
    BY <2>1, <1>a, <1>c DEF CreateCrawl, InsertJob, NoRow, FreshId, arq
  <2>2. ASSUME NEW i \in 1 .. Len(disc[j]), RemoveDiscovered(j, i) PROVE EnqueuesOnce'
    BY <2>2, EnqueuesKept DEF RemoveDiscovered, DeleteDiscovered, arq
  <2>3. ASSUME NEW r, r.op # "enqueue", Becomes(h, r), UNCHANGED <<store, arq>>
        PROVE  EnqueuesOnce'
    <3>1. \A g \in Handlers : Holds(g, "enqueue")' => req'[g] = req[g]
      BY <2>3, <1>a DEF Becomes, Holds
    <3> QED  BY <2>3, <3>1, EnqueuesKept DEF store, arq
  <2>4. ASSUME NEW src \in Jobs, RetryRead(h, src, j) \/ ScrapeRead(h, src, j)
        PROVE  EnqueuesOnce'
    BY <2>3, <2>4 DEF RetryRead, ScrapeRead
  <2>5. CASE CancelRead(h, j) \/ DeleteRead(h, j)
    BY <2>3, <2>5 DEF CancelRead, DeleteRead
  <2> QED  BY <1>1, <2>1, <2>2, <2>4, <2>5 DEF Request
<1>2. ASSUME NEW h \in Handlers, HandlerStep(h) PROVE EnqueuesOnce'
  <2>1. CASE InsertRead(h)
    <3>1. req[h].job \in Jobs /\ job[req[h].job].status = "unused"
      BY <2>1, <1>a DEF InsertRead, IdsUsedOnce, Holds
    <3> QED  BY <2>1, <3>1, <1>a, <1>c DEF InsertRead, InsertJob, NoRow, arq
  <2>2. CASE Enqueue(h)
    <3>1. /\ queue' = queue \cup {req[h].job} /\ UNCHANGED job
          /\ \A g \in Handlers : Holds(g, "enqueue")' => g # h /\ req'[g] = req[g]
      BY <2>2, <1>a DEF Enqueue, QueuePut, store, Becomes, Free, Holds
    <3>2. Holds(h, "enqueue")  BY <2>2 DEF Enqueue
    <3> QED  BY <3>1, <3>2 DEF EnqueuesOnce, Holds
  <2>3. CASE CancelCommit(h)
    <3>1. \A k \in Jobs : job'[k].urls_discovered = job[k].urls_discovered
      BY <2>3, <1>a DEF CancelCommit, WriteOutcome, JobRow
    <3> QED  BY <2>3, <3>1, <1>b, EnqueuesKept DEF CancelCommit, arq
  <2>4. CASE DeleteCommit(h)
    <3>1. \A k \in Jobs : job'[k].urls_discovered \in {job[k].urls_discovered, 0}
      BY <2>4, <1>a DEF DeleteCommit, DeleteJob, NoRow
    <3> QED  BY <2>4, <3>1, <1>b, EnqueuesKept DEF DeleteCommit, arq
  <2> QED  BY <1>2, <2>1, <2>2, <2>3, <2>4 DEF HandlerStep
<1>3. ASSUME NEW j \in Jobs, WorkerStep(j) PROVE EnqueuesOnce'
  <2>1. j \in queue /\ queue' \subseteq queue  BY <1>3, WorkerRow DEF WorkerRowOK
  <2>2. req' = req  BY <1>3 DEF WorkerStep
  <2>3. \A k \in Jobs \ {j} : job'[k] = job[k]  BY <1>3, WorkerFrame DEF Untouched
  <2> QED  BY <2>1, <2>2, <2>3, EnqueuesKept
<1>4. CASE Failure
  <2>1. ASSUME NEW h \in Handlers, HandlerDies(h) PROVE EnqueuesOnce'
    BY <2>1, <1>b, EnqueuesKept DEF HandlerDies, store, arq
  <2>2. CASE UNCHANGED <<job, queue, req>>  BY <2>2, EnqueuesKept
  <2> QED  BY <1>4, <2>1, <2>2 DEF Failure, Killed, Aborted, KeepsRows, arq
<1>5. CASE UNCHANGED vars  BY <1>5, EnqueuesKept DEF vars, store, arq
<1> QED  BY <1>1, <1>2, <1>3, <1>4, <1>5 DEF Next

LEMMA PagesAlways == Spec => [](EnqueuesOnce /\ \A k \in Jobs : PagesOf(k))
<1> DEFINE Inv == /\ TypeOK /\ IdsUsedOnce /\ EnqueuesOnce
                  /\ \A k \in Jobs : CountersOf(k)
                  /\ \A k \in Jobs : PagesOf(k)
<1>1. Init => EnqueuesOnce  BY DEF Init, EnqueuesOnce, Holds, Free
<1>2. ASSUME Init, NEW k \in Jobs PROVE PagesOf(k)
  <2>1. /\ job[k].urls_discovered = 0 /\ tries[k] = 0 /\ k \notin queue
        /\ exec[k].pc = "idle"
    BY <1>2 DEF Init, StoreInit, NoRow, At
  <2>2. Limit(k) \in Nat /\ MaxTries \in Nat
    BY <1>2, InitTypeOK, LimitIsNat, QueueAssumption
  <2>3. MaxTries * Limit(k) \in Nat  BY <2>2, OneTryMore
  <2> HIDE DEF Limit
  <2> QED  BY <2>1, <2>3 DEF PagesOf, Loaded
<1>3. EnqueuesOnce /\ (\A k \in Jobs : PagesOf(k)) /\ TypeOK /\ IdsUsedOnce
        /\ (\A k \in Jobs : CountersOf(k)) /\ [Next]_vars
      => (EnqueuesOnce /\ \A k \in Jobs : PagesOf(k))'
  BY NextPages, NextEnqueues
<1>4. Init => EnqueuesOnce /\ \A k \in Jobs : PagesOf(k)  BY <1>1, <1>2
<1> QED
  BY <1>3, <1>4, TypeCorrect, IdsAreUsedOnce, CountersAlways, PTL DEF Spec

(* However often a job is delivered again, it accumulates at most its tries *)
(* times the limit of one engine run.                                       *)
THEOREM PagesBounded == Spec => []PagesWithinTries
<1>1. EnqueuesOnce /\ (\A k \in Jobs : PagesOf(k)) => PagesWithinTries  BY PagesByJob
<1> QED  BY <1>1, PagesAlways, PTL
=============================================================================
