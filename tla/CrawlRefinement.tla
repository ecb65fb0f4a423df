-------------------------- MODULE CrawlRefinement --------------------------
(* The crawl service implements CrawlLifecycle, for every value of the      *)
(* constants.                                                               *)
EXTENDS CrawlServiceProofs

(* A row becomes QUEUED once, when it is inserted.                          *)
QueuedOnce(j) == job'[j].status = "queued" => job[j].status \in {"queued", "unused"}

BegunAsRead(j) == exec[j].pc = "begin" /\ exec[j].status = "running" /\ Exists(j)
                    => job[j].status \in {"running", "cancelled"}

LEMMA WorkerStatus ==
    ASSUME TypeOK, IdsUsedOnce, NEW j \in Jobs, BegunAsRead(j), WorkerStep(j)
    PROVE  QueuedOnce(j) /\ BegunAsRead(j)'
<1> USE DEF QueuedOnce, BegunAsRead
<1>a. /\ exec \in [Jobs -> ExecRecord] /\ job \in [Jobs -> JobRow]
      /\ exec[j].pc = "settle" => exec[j].status \in Terminal
  BY DEF TypeOK, StoreTypeOK, IdsUsedOnce
<1>1. CASE Deliver(j) /\ UNCHANGED req
  BY <1>1, <1>a DEF Deliver, QueueTake, Leaves, At, store, ExecRecord, Exists
<1>2. CASE GiveUp(j) /\ UNCHANGED req
  BY <1>2, <1>a DEF GiveUp, QueueGiveUp, QueueDone, Running, store, ExecRecord, Exists
<1>3. CASE GetSkips(j) /\ UNCHANGED req
  BY <1>3, <1>a DEF GetSkips, Leaves, At, store, arq, ExecRecord, Exists
<1>4. CASE Get(j) /\ UNCHANGED req
  BY <1>4, <1>a DEF Get, Loads, At, store, arq, ExecRecord, Exists
<1>5. CASE Begin(j) /\ UNCHANGED req
  BY <1>5, <1>a DEF Begin, arq, ExecRecord, JobRow, Exists
<1>6. CASE LogStart(j) /\ UNCHANGED req
  BY <1>6, <1>a DEF LogStart, store, arq, ExecRecord, Exists
<1>7. CASE Build(j) /\ UNCHANGED req
  BY <1>7, <1>a DEF Build, store, arq, ExecRecord, Exists
<1>8. CASE BuildRaises(j) /\ UNCHANGED req
  BY <1>8, <1>a DEF BuildRaises, Settles, store, arq, ExecRecord, Exists
<1>9. ASSUME NEW u \in Urls, Check(j, u),
UNCHANGED req PROVE QueuedOnce(j) /\ BegunAsRead(j)'
  <2>1. job' = job /\ exec'[j].pc # "begin"
    BY <1>9, <1>a, AddsPageRecord DEF Check, Flushes, KeepsRows, ExecRecord
  <2> QED  BY <2>1
<1>10. CASE EngineStops(j) /\ UNCHANGED req
  <2>1. job' = job /\ exec'[j].pc # "begin"
    BY <1>10, <1>a DEF EngineStops, Settles, store, ExecRecord
  <2> QED  BY <2>1
<1>11. CASE EngineRaises(j) /\ UNCHANGED req
  BY <1>11, <1>a DEF EngineRaises, Settles, store, arq, ExecRecord, Exists
<1>12. CASE Save(j) /\ UNCHANGED req
  BY <1>12, <1>a
       DEF Save, CommitsPages, WritePages, Release, arq, ExecRecord, JobRow, Exists
<1>13. CASE Warn(j) /\ UNCHANGED req
  BY <1>13, <1>a
       DEF Warn, CommitsPages, WritePages, Release, arq, ExecRecord, JobRow, Exists
<1>14. CASE CloseRaises(j) /\ UNCHANGED req
  BY <1>14, <1>a DEF CloseRaises, Settles, store, arq, ExecRecord, Exists
<1>15. CASE Settle(j) /\ UNCHANGED req
  <2>1. PICK s \in Statuses : s = exec[j].status /\ s \in Terminal
    BY <1>15, <1>a DEF Settle, Terminal
  <2>2. WriteOutcome(j, s)  BY <1>15, <2>1 DEF Settle
  <2>3. job'[j].status = s  BY <1>a, <2>2, OutcomeRow
  <2>4. exec'[j].pc = "done"  BY <1>15, <1>a DEF Settle, Leaves, At
  <2> QED  BY <2>1, <2>3, <2>4 DEF Terminal, Active
<1>16. CASE RowGone(j) /\ UNCHANGED req
  BY <1>16, <1>a DEF RowGone, Leaves, At, Release, KeepsRows, arq, ExecRecord, Exists
<1>17. CASE ArqFinish(j) /\ UNCHANGED req
  BY <1>17, <1>a DEF ArqFinish, QueueDone, Leaves, At, store, ExecRecord, Exists
<1> QED
  BY <1>1, <1>2, <1>3, <1>4, <1>5, <1>6, <1>7, <1>8, <1>9,
     <1>10, <1>11, <1>12, <1>13, <1>14, <1>15, <1>16, <1>17 DEF WorkerStep

LEMMA HandlerStatus ==
    ASSUME TypeOK, IdsUsedOnce, NEW h \in Handlers, NEW j \in Jobs, j = req[h].job,
           BegunAsRead(j), HandlerStep(h)
    PROVE  QueuedOnce(j) /\ BegunAsRead(j)'
<1> USE DEF QueuedOnce, BegunAsRead
<1>a. exec' = exec /\ job \in [Jobs -> JobRow]
  BY HandlerFrame DEF TypeOK, StoreTypeOK
<1>1. CASE InsertRead(h) /\ UNCHANGED exec
  BY <1>1, <1>a DEF InsertRead, IdsUsedOnce
<1>2. CASE Enqueue(h) /\ UNCHANGED exec
  BY <1>2, <1>a DEF Enqueue, store, Exists
<1>3. CASE CancelCommit(h) /\ UNCHANGED exec
  <2>1. CASE Exists(j)
    <3>1. WriteOutcome(j, "cancelled")  BY <1>3, <2>1 DEF CancelCommit
    <3> QED  BY <1>a, <2>1, <3>1, OutcomeRow DEF Statuses
  <2>2. CASE ~Exists(j)  BY <1>3, <1>a, <2>2 DEF CancelCommit, Exists
  <2> QED  BY <2>1, <2>2
<1>4. CASE DeleteCommit(h) /\ UNCHANGED exec
  BY <1>4, <1>a DEF DeleteCommit, DeleteJob, NoRow, Exists, Statuses
<1> QED  BY <1>1, <1>2, <1>3, <1>4 DEF HandlerStep

LEMMA RequestStatus ==
    ASSUME TypeOK, IdsUsedOnce, NEW h \in Handlers, NEW j \in Jobs, BegunAsRead(j),
           Request(h, j)
    PROVE  QueuedOnce(j) /\ BegunAsRead(j)'
<1> USE DEF QueuedOnce, BegunAsRead
<1>a. exec' = exec  BY RequestFrame
<1>1. ASSUME NEW mode \in NewModes, CreateCrawl(h, j, mode)
      PROVE  QueuedOnce(j) /\ BegunAsRead(j)'
  BY <1>1, <1>a DEF CreateCrawl, FreshId, IdsUsedOnce
<1>2. CASE job' = job  BY <1>2, <1>a DEF Exists
<1> QED
  BY <1>1, <1>2 DEF Request, RetryRead, ScrapeRead, CancelRead, DeleteRead,
                    RemoveDiscovered, DeleteDiscovered, store

LEMMA FailureStatus ==
    ASSUME TypeOK, NEW k \in Jobs, BegunAsRead(k), Failure
    PROVE  QueuedOnce(k) /\ BegunAsRead(k)'
<1>1. job' = job  BY DEF Failure, HandlerDies, Killed, Aborted, KeepsRows, store
<1>2. exec'[k] = exec[k] \/ exec'[k].pc # "begin"
  BY DEF Failure, HandlerDies, Killed, Aborted, Leaves, At, TypeOK
<1> QED  BY <1>1, <1>2 DEF QueuedOnce, BegunAsRead, Exists

LEMMA NextStatus ==
    ASSUME TypeOK, IdsUsedOnce, NEW k \in Jobs, BegunAsRead(k), [Next]_vars
    PROVE  QueuedOnce(k) /\ BegunAsRead(k)'
<1>1. ASSUME Untouched(k) PROVE QueuedOnce(k) /\ BegunAsRead(k)'
  BY <1>1 DEF Untouched, QueuedOnce, BegunAsRead, Exists
<1>2. ASSUME NEW h \in Handlers, NEW j \in Jobs, Request(h, j)
      PROVE  QueuedOnce(k) /\ BegunAsRead(k)'
  BY <1>1, <1>2, RequestStatus, RequestFrame
<1>3. ASSUME NEW h \in Handlers, HandlerStep(h) PROVE QueuedOnce(k) /\ BegunAsRead(k)'
  BY <1>1, <1>3, HandlerStatus, HandlerFrame
<1>4. ASSUME NEW j \in Jobs, WorkerStep(j) PROVE QueuedOnce(k) /\ BegunAsRead(k)'
  BY <1>1, <1>4, WorkerStatus, WorkerFrame
<1>5. CASE UNCHANGED vars
  BY <1>5 DEF vars, store, QueuedOnce, BegunAsRead, Exists
<1> QED  BY <1>2, <1>3, <1>4, <1>5, FailureStatus DEF Next

LEMMA NextStatusAsRead ==
    TypeOK /\ IdsUsedOnce /\ StatusAsRead /\ [Next]_vars => StatusAsRead'
<1> SUFFICES ASSUME TypeOK, IdsUsedOnce, StatusAsRead, [Next]_vars PROVE StatusAsRead'
  OBVIOUS
<1>1. \A k \in Jobs : QueuedOnce(k) /\ BegunAsRead(k)'
  BY NextStatus DEF StatusAsRead, BegunAsRead
<1>2. ASSUME NEW h \in Handlers, Holds(h, "delete")'
      PROVE  job'[req'[h].job].status # "queued"
  <2>1. CASE req'[h] = req[h]
    <3>1. req[h].job \in Jobs  BY <1>2, <2>1, RequestHasJob DEF Holds
    <3>2. job[req[h].job].status \notin {"queued", "unused"}
      BY <1>2, <2>1 DEF StatusAsRead, IdsUsedOnce, Holds
    <3> QED  BY <1>1, <2>1, <3>1, <3>2 DEF QueuedOnce
  <2>2. ASSUME NEW j \in Jobs, DeleteRead(h, j) PROVE job'[req'[h].job].status # "queued"
    BY <2>2 DEF DeleteRead, Becomes, TypeOK, Terminal, Active, store
  <2>3. req'[h] = req[h] \/ \E j \in Jobs : DeleteRead(h, j)
    <3>1. ASSUME NEW g \in Handlers, NEW j \in Jobs, Request(g, j)
          PROVE  req'[h] = req[h] \/ DeleteRead(h, j)
      BY <1>2, <3>1 DEF Request, CreateCrawl, RetryRead, ScrapeRead, CancelRead,
                        DeleteRead, RemoveDiscovered, Becomes, Holds, TypeOK
    <3>2. ASSUME NEW g \in Handlers, HandlerStep(g) PROVE req'[h] = req[h]
      BY <1>2, <3>2 DEF HandlerStep, InsertRead, Enqueue, CancelCommit, DeleteCommit,
                        Becomes, Holds, Free, TypeOK
    <3>3. ASSUME NEW j \in Jobs, WorkerStep(j) PROVE req'[h] = req[h]
      BY <3>3 DEF WorkerStep
    <3>4. ASSUME Failure PROVE req'[h] = req[h]
      BY <1>2, <3>4 DEF Failure, HandlerDies, Becomes, Holds, Free, TypeOK
    <3> QED  BY <3>1, <3>2, <3>3, <3>4 DEF Next, vars
  <2> QED  BY <2>1, <2>2, <2>3
<1> QED  BY <1>1, <1>2 DEF StatusAsRead, BegunAsRead

-----------------------------------------------------------------------------
(* One step seen on one job, in terms of the two abstract variables.        *)
LifeStep(j) ==
    \/ job'[j].status = job[j].status /\ Attempt(j)' = Attempt(j)
    \/ /\ job[j].status = "unused" /\ job'[j].status = "queued"
       /\ Attempt(j)' = Attempt(j)
    \/ /\ Attempt(j) = "none" /\ Exists(j) /\ job[j].status # "cancelled"
       /\ Attempt(j)' = "admitted" /\ job'[j].status = job[j].status
    \/ /\ Attempt(j) = "admitted" /\ Exists(j) /\ Attempt(j)' = "started"
       /\ \/ job'[j].status = "running"
          \/ job[j].status = "cancelled" /\ job'[j].status = "cancelled"
    \/ /\ Attempt(j) = "started" /\ Exists(j) /\ Attempt(j)' = "none"
       /\ job'[j].status \in Terminal
    \/ /\ Attempt(j) # "none" /\ Attempt(j)' = "none"
       /\ job'[j].status = job[j].status
    \/ Exists(j) /\ job'[j].status = "cancelled" /\ Attempt(j)' = Attempt(j)
    \/ /\ Exists(j) /\ job[j].status # "queued" /\ job'[j].status = "deleted"
       /\ Attempt(j)' = Attempt(j)

StatusMap == [j \in Jobs |-> job[j].status]
AttemptMap == [j \in Jobs |-> Attempt(j)]
LifeNext == Lifecycle!Next \/ UNCHANGED <<StatusMap, AttemptMap>>

LEMMA AttemptIs ==
    ASSUME NEW j \in Jobs
    PROVE  /\ exec[j].pc = "begin" <=> Attempt(j) = "admitted"
           /\ exec[j].pc \in {"idle", "get", "done"} <=> Attempt(j) = "none"
           /\ exec[j].pc \notin {"idle", "get", "done", "begin"} <=> Attempt(j) = "started"
           /\ exec'[j].pc = "begin" <=> Attempt(j)' = "admitted"
           /\ exec'[j].pc \in {"idle", "get", "done"} <=> Attempt(j)' = "none"
           /\ exec'[j].pc \notin {"idle", "get", "done", "begin"} <=> Attempt(j)' = "started"
<1>1. /\ exec[j].pc = "begin" <=> Attempt(j) = "admitted"
      /\ exec[j].pc \in {"idle", "get", "done"} <=> Attempt(j) = "none"
      /\ exec[j].pc \notin {"idle", "get", "done", "begin"} <=> Attempt(j) = "started"
  BY DEF Attempt
<1>2. /\ exec'[j].pc = "begin" <=> Attempt(j)' = "admitted"
      /\ exec'[j].pc \in {"idle", "get", "done"} <=> Attempt(j)' = "none"
      /\ exec'[j].pc \notin {"idle", "get", "done", "begin"} <=> Attempt(j)' = "started"
  BY DEF Attempt
<1> QED  BY <1>1, <1>2

LEMMA StepLifts ==
    ASSUME NEW j \in Jobs, LifeStep(j),
           \A k \in Jobs \ {j} : job'[k] = job[k] /\ exec'[k] = exec[k]
    PROVE  LifeNext
<1>1. \A k \in Jobs \ {j} : /\ StatusMap'[k] = StatusMap[k]
                            /\ AttemptMap'[k] = AttemptMap[k]
  BY DEF StatusMap, AttemptMap, Attempt
<1>2. /\ StatusMap[j] = job[j].status /\ StatusMap'[j] = job'[j].status
      /\ AttemptMap[j] = Attempt(j) /\ AttemptMap'[j] = Attempt(j)'
  BY DEF StatusMap, AttemptMap
<1>3. ASSUME NEW v PROVE StatusMap'[j] = v => StatusMap' = [StatusMap EXCEPT ![j] = v]
  BY <1>1 DEF StatusMap
<1>4. ASSUME NEW v PROVE AttemptMap'[j] = v => AttemptMap' = [AttemptMap EXCEPT ![j] = v]
  BY <1>1 DEF AttemptMap
<1>5. /\ StatusMap'[j] = StatusMap[j] => StatusMap' = StatusMap
      /\ AttemptMap'[j] = AttemptMap[j] => AttemptMap' = AttemptMap
  BY <1>3, <1>4 DEF StatusMap, AttemptMap
<1>6. Exists(j) => StatusMap[j] \notin {"unused", "deleted"}
  BY <1>2 DEF Exists, Statuses
<1> SUFFICES ASSUME ~ UNCHANGED <<StatusMap, AttemptMap>>
             PROVE  Lifecycle!Next
  BY DEF LifeNext
<1>7. \/ Lifecycle!Create(j) \/ Lifecycle!Admit(j) \/ Lifecycle!Start(j) \/ Lifecycle!End(j)
      \/ Lifecycle!Abandon(j) \/ Lifecycle!Cancel(j) \/ Lifecycle!Delete(j)
  BY <1>2, <1>3, <1>4, <1>5, <1>6
     DEF LifeStep, Lifecycle!Create, Lifecycle!Admit, Lifecycle!Start, Lifecycle!End,
         Lifecycle!Abandon, Lifecycle!Cancel, Lifecycle!Delete, Lifecycle!SetStatus,
         Lifecycle!SetAttempt, Lifecycle!Row, StatusMap, AttemptMap, Terminal, Active,
         Statuses
<1> QED  BY <1>7 DEF Lifecycle!Next

LEMMA WorkerLifts ==
    ASSUME TypeOK, IdsUsedOnce, NEW j \in Jobs, BegunAsRead(j), WorkerStep(j)
    PROVE  LifeStep(j)
<1> USE AttemptIs DEF LifeStep
<1>a. /\ exec \in [Jobs -> ExecRecord] /\ job \in [Jobs -> JobRow]
      /\ exec[j].pc = "settle" => exec[j].status \in Terminal
  BY DEF TypeOK, StoreTypeOK, IdsUsedOnce
<1>1. CASE Deliver(j) /\ UNCHANGED req
  BY <1>1, <1>a DEF Deliver, QueueTake, Leaves, At, store, ExecRecord, Running
<1>2. CASE GiveUp(j) /\ UNCHANGED req
  BY <1>2, <1>a DEF GiveUp, QueueGiveUp, QueueDone, Running, store, ExecRecord
<1>3. CASE GetSkips(j) /\ UNCHANGED req
  BY <1>3, <1>a DEF GetSkips, Leaves, At, store, arq, ExecRecord
<1>4. CASE Get(j) /\ UNCHANGED req
  BY <1>4, <1>a DEF Get, Loads, At, store, arq, ExecRecord
<1>5. CASE Begin(j) /\ UNCHANGED req
  BY <1>5, <1>a DEF Begin, arq, ExecRecord, JobRow, Exists, BegunAsRead
<1>6. CASE LogStart(j) /\ UNCHANGED req
  BY <1>6, <1>a DEF LogStart, store, arq, ExecRecord
<1>7. CASE Build(j) /\ UNCHANGED req
  BY <1>7, <1>a DEF Build, store, arq, ExecRecord
<1>8. CASE BuildRaises(j) /\ UNCHANGED req
  BY <1>8, <1>a DEF BuildRaises, Settles, store, arq, ExecRecord
<1>9. ASSUME NEW u \in Urls, Check(j, u), UNCHANGED req PROVE LifeStep(j)
  <2>1. job' = job /\ exec[j].pc = "next" /\ exec'[j].pc \in {"next", "save", "warn"}
    BY <1>9, <1>a, AddsPageRecord DEF Check, Flushes, KeepsRows, ExecRecord
  <2> QED  BY <2>1
<1>10. CASE EngineStops(j) /\ UNCHANGED req
  <2>1. job' = job /\ exec[j].pc = "next" /\ exec'[j].pc \in {"save", "settle"}
    BY <1>10, <1>a DEF EngineStops, Settles, store, ExecRecord
  <2> QED  BY <2>1
<1>11. CASE EngineRaises(j) /\ UNCHANGED req
  BY <1>11, <1>a DEF EngineRaises, Settles, store, arq, ExecRecord
<1>12. CASE Save(j) /\ UNCHANGED req
  BY <1>12, <1>a DEF Save, CommitsPages, WritePages, Release, arq, ExecRecord, JobRow
<1>13. CASE Warn(j) /\ UNCHANGED req
  BY <1>13, <1>a DEF Warn, CommitsPages, WritePages, Release, arq, ExecRecord, JobRow
<1>14. CASE CloseRaises(j) /\ UNCHANGED req
  BY <1>14, <1>a DEF CloseRaises, Settles, store, arq, ExecRecord
<1>15. CASE Settle(j) /\ UNCHANGED req
  <2>1. PICK s \in Statuses : s = exec[j].status /\ s \in Terminal
    BY <1>15, <1>a DEF Settle, Terminal
  <2>2. WriteOutcome(j, s)  BY <1>15, <2>1 DEF Settle
  <2>3. job'[j].status = s  BY <1>a, <2>2, OutcomeRow
  <2>4. exec'[j].pc = "done" /\ exec[j].pc = "settle" /\ Exists(j)
    BY <1>15, <1>a DEF Settle, Leaves, At
  <2> QED  BY <2>1, <2>3, <2>4
<1>16. CASE RowGone(j) /\ UNCHANGED req
  BY <1>16, <1>a DEF RowGone, Leaves, At, Release, KeepsRows, arq, ExecRecord
<1>17. CASE ArqFinish(j) /\ UNCHANGED req
  BY <1>17, <1>a DEF ArqFinish, QueueDone, Leaves, At, store, ExecRecord
<1> QED
  BY <1>1, <1>2, <1>3, <1>4, <1>5, <1>6, <1>7, <1>8, <1>9,
     <1>10, <1>11, <1>12, <1>13, <1>14, <1>15, <1>16, <1>17 DEF WorkerStep

LEMMA HandlerLifts ==
    ASSUME TypeOK, IdsUsedOnce, StatusAsRead, NEW h \in Handlers, NEW j \in Jobs,
           j = req[h].job, HandlerStep(h)
    PROVE  LifeStep(j)
<1> USE AttemptIs DEF LifeStep
<1>a. exec' = exec /\ job \in [Jobs -> JobRow]
  BY HandlerFrame DEF TypeOK, StoreTypeOK
<1>b. Attempt(j)' = Attempt(j)  BY <1>a DEF Attempt
<1>1. CASE InsertRead(h) /\ UNCHANGED exec
  <2>1. job[j].status = "unused"  BY <1>1 DEF InsertRead, IdsUsedOnce
  <2>2. job'[j].status = "queued"
    BY <1>1, <1>a DEF InsertRead, InsertJob, NoRow
  <2> QED  BY <1>b, <2>1, <2>2
<1>2. CASE Enqueue(h) /\ UNCHANGED exec
  BY <1>2, <1>b DEF Enqueue, store
<1>3. CASE CancelCommit(h) /\ UNCHANGED exec
  <2>1. CASE Exists(j)
    <3>1. WriteOutcome(j, "cancelled")  BY <1>3, <2>1 DEF CancelCommit
    <3>2. job'[j].status = "cancelled"  BY <1>a, <3>1, OutcomeRow DEF Statuses
    <3> QED  BY <1>b, <2>1, <3>2
  <2>2. CASE ~Exists(j)  BY <1>3, <1>b, <2>2 DEF CancelCommit
  <2> QED  BY <2>1, <2>2
<1>4. CASE DeleteCommit(h) /\ UNCHANGED exec
  <2>1. job'[j].status = "deleted"
    BY <1>4, <1>a DEF DeleteCommit, DeleteJob, NoRow
  <2>2. job[j].status \notin {"queued", "unused"}
    BY <1>4 DEF DeleteCommit, StatusAsRead, IdsUsedOnce, Holds
  <2>3. Exists(j) \/ job[j].status = "deleted"
    BY <1>a, <2>2 DEF JobRow, Exists
  <2> QED  BY <1>b, <2>1, <2>2, <2>3
<1> QED  BY <1>1, <1>2, <1>3, <1>4 DEF HandlerStep

LEMMA RequestLifts ==
    ASSUME TypeOK, NEW h \in Handlers, NEW j \in Jobs, Request(h, j)
    PROVE  LifeStep(j)
<1>b. Attempt(j)' = Attempt(j)  BY RequestFrame DEF Attempt
<1>1. ASSUME NEW mode \in NewModes, CreateCrawl(h, j, mode) PROVE LifeStep(j)
  <2>1. job[j].status = "unused" /\ job'[j].status = "queued"
    BY <1>1 DEF CreateCrawl, FreshId, InsertJob, NoRow, TypeOK, StoreTypeOK
  <2> QED  BY <1>b, <2>1 DEF LifeStep
<1>2. CASE job' = job  BY <1>2, <1>b DEF LifeStep
<1> QED
  BY <1>1, <1>2 DEF Request, RetryRead, ScrapeRead, CancelRead, DeleteRead,
                    RemoveDiscovered, DeleteDiscovered, store

LEMMA FailureLifts ==
    ASSUME TypeOK, Failure
    PROVE  LifeNext
<1>1. ASSUME NEW h \in Handlers, HandlerDies(h), UNCHANGED exec PROVE LifeNext
  BY <1>1 DEF HandlerDies, store, LifeNext, StatusMap, AttemptMap, Attempt
<1>2. ASSUME NEW j \in Jobs, NEW pc \in PCs, KeepsRows, Leaves(j, pc),
             pc \in {"done", "idle"}
      PROVE  LifeNext
  <2>1. job' = job /\ exec'[j].pc \in {"done", "idle"}
        /\ \A k \in Jobs \ {j} : exec'[k] = exec[k]
    BY <1>2 DEF KeepsRows, Leaves, At, TypeOK
  <2>2. LifeStep(j)  BY <2>1, AttemptIs DEF LifeStep
  <2> QED  BY <2>1, <2>2, StepLifts
<1> QED  BY <1>1, <1>2 DEF Failure, Killed, Aborted, PCs

LEMMA NextLifts ==
    TypeOK /\ IdsUsedOnce /\ StatusAsRead /\ [Next]_vars => LifeNext
<1> SUFFICES ASSUME TypeOK, IdsUsedOnce, StatusAsRead, [Next]_vars PROVE LifeNext
  OBVIOUS
<1>1. ASSUME NEW h \in Handlers, NEW j \in Jobs, Request(h, j) PROVE LifeNext
  BY <1>1, RequestLifts, RequestFrame, StepLifts DEF Untouched
<1>2. ASSUME NEW h \in Handlers, HandlerStep(h) PROVE LifeNext
  <2>1. PICK j \in Jobs : j = req[h].job  BY <1>2, HandlerFrame
  <2>2. \A k \in Jobs \ {j} : job'[k] = job[k] /\ exec'[k] = exec[k]
    BY <1>2, <2>1, HandlerFrame DEF Untouched
  <2> QED  BY <1>2, <2>1, <2>2, HandlerLifts, StepLifts
<1>3. ASSUME NEW j \in Jobs, WorkerStep(j) PROVE LifeNext
  <2>1. BegunAsRead(j)  BY DEF StatusAsRead, BegunAsRead
  <2>2. \A k \in Jobs \ {j} : job'[k] = job[k] /\ exec'[k] = exec[k]
    BY <1>3, WorkerFrame DEF Untouched
  <2> QED  BY <1>3, <2>1, <2>2, WorkerLifts, StepLifts
<1>4. CASE UNCHANGED vars
  BY <1>4 DEF vars, store, LifeNext, StatusMap, AttemptMap, Attempt
<1> QED  BY <1>1, <1>2, <1>3, <1>4, FailureLifts DEF Next

LEMMA StatusAlways == Spec => []StatusAsRead
<1> DEFINE Inv == TypeOK /\ IdsUsedOnce /\ StatusAsRead
<1>1. Init => Inv
  <2>1. Init => TypeOK /\ IdsUsedOnce  BY InitTypeOK, InitIds
  <2>2. Init => StatusAsRead
    BY DEF Init, StoreInit, StatusAsRead, At, Free, Holds
  <2> QED  BY <2>1, <2>2
<1>2. Inv /\ [Next]_vars => Inv'
  BY NextTypeOK, NextIds, NextStatusAsRead
<1>3. Inv => StatusAsRead  OBVIOUS
<1> QED  BY <1>1, <1>2, <1>3, PTL DEF Spec

(* All the facts about the service together: what TLC checks as one         *)
(* invariant holds for every number of jobs, requests, pages and tries.     *)
THEOREM ServiceInvariant == Spec => []IInv
<1>1. (\A k \in Jobs : CountersOf(k)) => CountersMatchRows /\ SessionMirrorsRow
  BY CountersByJob
<1>2. TypeOK /\ (\A k \in Jobs : LateOf(k)) => AtMostOneLatePage /\ LocksAreHeld /\ LatePages
  BY LateByJob
<1>3. (\A k \in Jobs : StampsOf(k)) => StampsAgree /\ StartedFirst
  BY StampsByJob
<1>4. EnqueuesOnce /\ (\A k \in Jobs : PagesOf(k)) => PagesByTry /\ PagesWithinTries
  BY PagesByJob
<1>5. /\ TypeOK /\ IdsUsedOnce /\ StatusAsRead
      /\ \A k \in Jobs : CountersOf(k)
      /\ \A k \in Jobs : LateOf(k)
      /\ \A k \in Jobs : StampsOf(k)
      /\ EnqueuesOnce /\ \A k \in Jobs : PagesOf(k)
      => IInv
  BY <1>1, <1>2, <1>3, <1>4 DEF IInv
<1> QED
  BY <1>5, TypeCorrect, IdsAreUsedOnce, StatusAlways, CountersAlways, LateAlways,
     StampsAlways, PagesAlways, PTL

(* Every behaviour of the service, requests, redeliveries and failures      *)
(* included, is one that CrawlLifecycle promises.                           *)
THEOREM ImplementsLifecycle == Spec => RefinesLifecycle
<1>1. Init => Lifecycle!Init
  BY DEF Init, StoreInit, NoRow, At, Lifecycle!Init, Attempt
<1>2. TypeOK /\ IdsUsedOnce /\ StatusAsRead /\ [Next]_vars
        => [Lifecycle!Next]_<<[j \in Jobs |-> job[j].status],
        [j \in Jobs |-> Attempt(j)]>>
  BY NextLifts DEF LifeNext, StatusMap, AttemptMap
<1> QED
  BY <1>1, <1>2, TypeCorrect, IdsAreUsedOnce, StatusAlways, PTL
     DEF Spec, RefinesLifecycle, Lifecycle!Spec

=============================================================================
