--------------------------- MODULE AsyncJobsProofs --------------------------
(***************************************************************************)
(* Theorems about AsyncJobs for every number of processes, requests and    *)
(* jobs and every timing: first those for every setting of the switches    *)
(* but for the last one, then those that need Timely.                      *)
(***************************************************************************)
EXTENDS AsyncJobs, TLAPS

USE KeyAssumption, OperationsAssumption, LimitsAssumption, SwitchesAssumption

(* A record keeps its columns through every kind of UPDATE. *)
LEMMA RowTypes ==
  ASSUME TypeOK, NEW j \in Job, Stored(j)
  PROVE  /\ table[j] \in Row
         /\ \A s \in ACTIVE_STATUSES \cup Terminal : WithStatus(j, s) \in Row
         /\ \A e \in {"none", "job", "orphaned"}, a \in Age : AsFailed(j, e, a) \in Row
<1>1. table[j] \in Row
  BY DEF TypeOK, Stored
<1>2. 0 \in Age
  BY DEF Age, MaxAge
<1>3. ASSUME NEW s \in ACTIVE_STATUSES \cup Terminal
      PROVE  WithStatus(j, s) \in Row
  BY <1>1, <1>2 DEF WithStatus, Row
<1>4. ASSUME NEW e \in {"none", "job", "orphaned"}, NEW a \in Age
      PROVE  AsFailed(j, e, a) \in Row
  BY <1>1 DEF AsFailed, Row, Terminal
<1>5. QED
  BY <1>1, <1>3, <1>4

(* An UPDATE keeps the table well formed. *)
LEMMA UpdateTypes ==
  ASSUME TypeOK, NEW j \in Job, NEW row, Stored(j) => row \in Row, UpdateJob(j, row)
  PROVE  table' \in [Job -> Row \cup {NoRow}]
BY DEF TypeOK, UpdateJob, Stored

(* A busy request's fields. *)
LEMMA BusyTypes ==
  ASSUME TypeOK, NEW h \in Handler, IsBusy(h)
  PROVE  /\ handler[h] \in Busy
         /\ handler[h].proc \in Process
         /\ handler[h].job \in Job
         /\ handler[h].victims \in SUBSET Job
         /\ handler[h].heartbeat \in Age
BY DEF TypeOK, IsBusy, Busy

LEMMA AtIsBusy ==
  ASSUME NEW h \in Handler, NEW pc, pc # "idle", At(h, pc)
  PROVE  IsBusy(h)
BY DEF At, IsBusy, Idle

(* Moving a request to another step, or answering it, keeps its shape. *)
LEMMA GotoTypes ==
  ASSUME TypeOK, NEW h \in Handler, IsBusy(h), NEW pc \in HandlerPCs, Goto(h, pc)
  PROVE  handler' \in [Handler -> Busy \cup {Idle}]
BY BusyTypes DEF TypeOK, Goto, Busy

LEMMA AnswerTypes ==
  ASSUME TypeOK, NEW h \in Handler, Answer(h)
  PROVE  handler' \in [Handler -> Busy \cup {Idle}]
BY DEF TypeOK, Answer

(* A request thread starts with fields of the right kind. *)
LEMMA BeginTypes ==
  ASSUME TypeOK, NEW h \in Handler, NEW p \in Process, NEW op, NEW j \in Job,
         NEW pc \in HandlerPCs, NEW age \in Age, Begin(h, p, op, j, pc, age)
  PROVE  handler' \in [Handler -> Busy \cup {Idle}]
BY DEF TypeOK, Begin, Busy

LEMMA RequestTypes ==
  ASSUME TypeOK, NEW h \in Handler, NEW p \in Process, NEW j \in Job, RequestBegin(h, p, j)
  PROVE  TypeOK'
<1>1. 0 \in Age /\ {"prune", "check"} \subseteq HandlerPCs
  BY DEF Age, MaxAge, HandlerPCs
<1>2. CASE SubmitBegin(h, p, j)
  BY <1>1, <1>2, BeginTypes DEF SubmitBegin, TypeOK
<1>3. CASE CalculateBegin(h, p, j)
  BY <1>1, <1>3, BeginTypes DEF CalculateBegin, TypeOK
<1>4. ASSUME NEW op, LoadBegin(h, p, op, j)
      PROVE  TypeOK'
  <2>1. table[j].heartbeat \in Age
    BY <1>4, RowTypes DEF LoadBegin, Active, ACTIVE_STATUSES, Stored, NoRow, Row
  <2>2. QED
    BY <1>1, <1>4, <2>1, BeginTypes DEF LoadBegin, TypeOK
<1>5. QED
  BY <1>2, <1>3, <1>4 DEF RequestBegin

LEMMA HandlerTypes ==
  ASSUME TypeOK, NEW h \in Handler, HandlerStep(h)
  PROVE  TypeOK'
<1>1. {"insert", "enqueue", "delete", "orphan", "reread", "flag", "future", "cancelled"} \subseteq HandlerPCs
  BY DEF HandlerPCs
<1>2. 0 \in Age
  BY DEF Age, MaxAge
<1>3. CASE SelectPruned(h)
  <2>1. IsBusy(h)
    BY <1>3, AtIsBusy DEF SelectPruned
  <2>2. PICK V \in PruneCandidates :
          handler' = [handler EXCEPT ![h].pc = IF V = {} THEN "insert" ELSE "delete",
                                     ![h].victims = V]
    BY <1>3 DEF SelectPruned
  <2>3. V \in SUBSET Job
    BY DEF PruneCandidates
  <2>4. ASSUME NEW pc \in HandlerPCs
        PROVE  [handler[h] EXCEPT !.pc = pc, !.victims = V] \in Busy
    BY <2>1, <2>3, BusyTypes DEF Busy
  <2>5. handler' = [handler EXCEPT ![h] =
                     [handler[h] EXCEPT !.pc = IF V = {} THEN "insert" ELSE "delete",
                                        !.victims = V]]
    BY <2>2
  <2>6. handler' \in [Handler -> Busy \cup {Idle}]
    BY <1>1, <2>4, <2>5 DEF TypeOK
  <2>7. QED
    BY <1>3, <2>6 DEF SelectPruned, TypeOK
<1>4. CASE DeletePruned(h)
  <2>1. IsBusy(h)
    BY <1>4, AtIsBusy DEF DeletePruned
  <2>2. handler' \in [Handler -> Busy \cup {Idle}]
    BY <1>1, <1>4, <2>1, BusyTypes, ZenonT(60) DEF DeletePruned, TypeOK, Busy
  <2>3. table' \in [Job -> Row \cup {NoRow}]
    BY <1>4 DEF DeletePruned, TypeOK
  <2>4. futures' \in [Process -> SUBSET Job]
    BY <1>4 DEF DeletePruned, TypeOK
  <2>5. QED
    BY <1>4, <2>2, <2>3, <2>4 DEF DeletePruned, TypeOK
<1>5. CASE InsertRow(h)
  <2>1. IsBusy(h)
    BY <1>5, AtIsBusy DEF InsertRow
  <2>2. NewRow("queued") \in Row /\ NewRow("succeeded") \in Row
    BY <1>2 DEF NewRow, Row, ACTIVE_STATUSES, Terminal
  <2>3. handler[h].job \in Job
    BY <2>1, BusyTypes
  <2>4. table' \in [Job -> Row \cup {NoRow}]
    BY <1>5, <2>2, <2>3 DEF InsertRow, TypeOK
  <2>5. Answer(h) \/ Goto(h, "enqueue")
    BY <1>5 DEF InsertRow
  <2>6. handler' \in [Handler -> Busy \cup {Idle}]
    BY <1>1, <2>1, <2>5, GotoTypes, AnswerTypes
  <2>7. QED
    BY <1>5, <2>4, <2>6 DEF InsertRow, TypeOK
<1>6. CASE Enqueue(h)
  <2>1. IsBusy(h)
    BY <1>6, AtIsBusy DEF Enqueue
  <2>2. handler[h].job \in Job /\ handler[h].proc \in Process
    BY <2>1, BusyTypes
  <2>3. [pc |-> "pending", host |-> handler[h].proc] \in Task
    BY <2>2 DEF Task
  <2>4. task' \in [Job -> Task] /\ futures' \in [Process -> SUBSET Job]
    BY <1>6, <2>2, <2>3 DEF Enqueue, TypeOK
  <2>5. QED
    BY <1>6, <2>4, AnswerTypes DEF Enqueue, TypeOK
<1>7. CASE CheckHandle(h)
  <2>1. IsBusy(h)
    BY <1>7, AtIsBusy DEF CheckHandle
  <2>2. Answer(h) \/ Goto(h, "flag") \/ Goto(h, "orphan")
    BY <1>7 DEF CheckHandle
  <2>3. QED
    BY <1>1, <1>7, <2>1, <2>2, GotoTypes, AnswerTypes DEF CheckHandle, TypeOK
<1>8. CASE MarkOrphan(h)
  <2>1. IsBusy(h)
    BY <1>8, AtIsBusy DEF MarkOrphan
  <2>2. handler[h].job \in Job
    BY <2>1, BusyTypes
  <2>3. table' \in [Job -> Row \cup {NoRow}]
    BY <1>2, <1>8, <2>2, RowTypes, UpdateTypes DEF MarkOrphan
  <2>4. Answer(h) \/ Goto(h, "reread")
    BY <1>8 DEF MarkOrphan
  <2>5. QED
    BY <1>1, <1>8, <2>1, <2>3, <2>4, GotoTypes, AnswerTypes DEF MarkOrphan, TypeOK
<1>9. CASE RereadRow(h)
  <2>1. IsBusy(h)
    BY <1>9, AtIsBusy DEF RereadRow
  <2>2. Answer(h) \/ Goto(h, "flag")
    BY <1>9 DEF RereadRow
  <2>3. QED
    BY <1>1, <1>9, <2>1, <2>2, GotoTypes, AnswerTypes DEF RereadRow, TypeOK
<1>10. CASE FlagCancel(h)
  <2>1. IsBusy(h)
    BY <1>10, AtIsBusy DEF FlagCancel
  <2>2. handler[h].job \in Job
    BY <2>1, BusyTypes
  <2>3. ASSUME Stored(handler[h].job)
        PROVE  [table[handler[h].job] EXCEPT !.cancelRequested = TRUE, !.updated = 0] \in Row
    BY <1>2, <2>2, <2>3, RowTypes, ZenonT(60) DEF Row
  <2>4. table' \in [Job -> Row \cup {NoRow}]
    BY <1>10, <2>2, <2>3, UpdateTypes DEF FlagCancel
  <2>5. QED
    BY <1>1, <1>10, <2>1, <2>4, GotoTypes DEF FlagCancel, TypeOK
<1>11. CASE CancelFuture(h)
  <2>1. IsBusy(h)
    BY <1>11, AtIsBusy DEF CancelFuture
  <2>2. handler[h].job \in Job /\ handler[h].proc \in Process
    BY <2>1, BusyTypes
  <2>3. task' \in [Job -> Task] /\ futures' \in [Process -> SUBSET Job]
    BY <1>11, <2>2 DEF CancelFuture, TypeOK, Task
  <2>4. Answer(h) \/ Goto(h, "cancelled")
    BY <1>11 DEF CancelFuture
  <2>5. QED
    BY <1>1, <1>11, <2>1, <2>3, <2>4, GotoTypes, AnswerTypes DEF CancelFuture, TypeOK
<1>12. CASE WriteCancelled(h)
  <2>1. IsBusy(h)
    BY <1>12, AtIsBusy DEF WriteCancelled
  <2>2. handler[h].job \in Job
    BY <2>1, BusyTypes
  <2>3. table' \in [Job -> Row \cup {NoRow}]
    BY <1>12, <2>2, RowTypes, UpdateTypes DEF WriteCancelled, Terminal
  <2>4. QED
    BY <1>12, <2>3, AnswerTypes DEF WriteCancelled, TypeOK
<1>13. QED
  BY <1>3, <1>4, <1>5, <1>6, <1>7, <1>8, <1>9, <1>10, <1>11, <1>12 DEF HandlerStep

LEMMA RunnerTypes ==
  ASSUME TypeOK, NEW j \in Job,
         Take(j) \/ RunnerStep(j) \/ RunnerStoreError(j) \/ RunnerRereadError(j)
  PROVE  TypeOK'
<1>1. 0 \in Age
  BY DEF Age, MaxAge
<1>2. ASSUME NEW pc \in Running, Step(j, pc), HasTask(j)
      PROVE  task' \in [Job -> Task]
  <2>1. [task[j] EXCEPT !.pc = pc] \in Task
    BY <1>2 DEF TypeOK, HasTask, Task
  <2>2. task' = [task EXCEPT ![j] = [task[j] EXCEPT !.pc = pc]]
    BY <1>2 DEF Step
  <2>3. QED
    BY <2>1, <2>2 DEF TypeOK
<1>3. ASSUME Finish(j)
      PROVE  task' \in [Job -> Task]
  BY <1>3 DEF Finish, TypeOK, Task
<1>4. ASSUME task[j].pc # "none"
      PROVE  HasTask(j)
  BY <1>4 DEF HasTask, NoTask
<1>5. CASE Take(j)
  <2>1. task' \in [Job -> Task]
    BY <1>2, <1>4, <1>5 DEF Take, Step, Running
  <2>2. QED
    BY <1>5, <2>1 DEF Take, TypeOK
<1>6. CASE RunLoad(j)
  <2>1. Finish(j) \/ Step(j, "cancelEarly") \/ Step(j, "start")
    BY <1>6 DEF RunLoad
  <2>2. task' \in [Job -> Task]
    BY <1>2, <1>3, <1>4, <1>6, <2>1 DEF RunLoad, Running
  <2>3. QED
    BY <1>6, <2>2 DEF RunLoad, TypeOK
<1>7. CASE RunCancelEarly(j)
  <2>1. table' \in [Job -> Row \cup {NoRow}]
    BY <1>7, RowTypes, UpdateTypes DEF RunCancelEarly, Terminal
  <2>2. QED
    BY <1>3, <1>7, <2>1 DEF RunCancelEarly, TypeOK
<1>8. CASE RunStart(j)
  <2>1. table' \in [Job -> Row \cup {NoRow}]
    BY <1>8, RowTypes, UpdateTypes DEF RunStart, ACTIVE_STATUSES
  <2>2. task' \in [Job -> Task]
    BY <1>2, <1>4, <1>8 DEF RunStart, Running
  <2>3. QED
    BY <1>8, <2>1, <2>2 DEF RunStart, TypeOK
<1>9. CASE RunCompute(j)
  <2>1. Step(j, "cancel") \/ Step(j, "succeed") \/ Step(j, "fail")
    BY <1>9 DEF RunCompute
  <2>2. task' \in [Job -> Task]
    BY <1>2, <1>4, <1>9, <2>1 DEF RunCompute, Running
  <2>3. QED
    BY <1>9, <2>2 DEF RunCompute, TypeOK
<1>10. CASE RunFinish(j)
  <2>1. table' \in [Job -> Row \cup {NoRow}]
    BY <1>1, <1>10, RowTypes, UpdateTypes DEF RunFinish, Terminal
  <2>2. task' \in [Job -> Task]
    BY <1>2, <1>4, <1>10 DEF RunFinish, Running
  <2>3. QED
    BY <1>10, <2>1, <2>2 DEF RunFinish, TypeOK
<1>11. CASE RunDiscard(j)
  <2>1. futures' \in [Process -> SUBSET Job]
    BY <1>11 DEF RunDiscard, TypeOK
  <2>2. QED
    BY <1>3, <1>11, <2>1 DEF RunDiscard, TypeOK
<1>12. CASE RunnerStoreError(j)
  <2>1. Finish(j) \/ (Step(j, "fail") /\ HasTask(j)) \/ (Step(j, "discard") /\ HasTask(j))
    BY <1>4, <1>12 DEF RunnerStoreError
  <2>2. task' \in [Job -> Task]
    BY <1>2, <1>3, <2>1 DEF Running
  <2>3. faults' \in 0 .. MaxFaults
    BY <1>12 DEF RunnerStoreError, TypeOK
  <2>4. QED
    BY <1>12, <2>2, <2>3 DEF RunnerStoreError, TypeOK
<1>13. CASE RunnerRereadError(j)
  <2>1. Finish(j) \/ (Step(j, "fail") /\ HasTask(j))
    BY <1>4, <1>13 DEF RunnerRereadError
  <2>2. task' \in [Job -> Task]
    BY <1>2, <1>3, <2>1 DEF Running
  <2>3. table' \in [Job -> Row \cup {NoRow}]
    BY <1>13, RowTypes, UpdateTypes DEF RunnerRereadError, Terminal, ACTIVE_STATUSES
  <2>4. faults' \in 0 .. MaxFaults
    BY <1>13 DEF RunnerRereadError, TypeOK
  <2>5. QED
    BY <1>13, <2>2, <2>3, <2>4 DEF RunnerRereadError, TypeOK
<1>14. QED
  BY <1>5, <1>6, <1>7, <1>8, <1>9, <1>10, <1>11, <1>12, <1>13 DEF RunnerStep

LEMMA ProcessTypes ==
  ASSUME TypeOK, NEW p \in Process,
         StartRuntime(p) \/ Shutdown(p) \/ FinishShutdown(p) \/ Crash(p)
  PROVE  TypeOK'
<1>1. Timeout \in Age
  BY DEF Age, MaxAge
<1>2. WithoutTasks(p) \in [Job -> Task] /\ WithoutHandlers(p) \in [Handler -> Busy \cup {Idle}]
  BY DEF WithoutTasks, WithoutHandlers, TypeOK, Task
<1>3. CASE StartRuntime(p)
  <2>1. ASSUME NEW j \in Job, Active(j)
        PROVE  AsFailed(j, "orphaned", Timeout) \in Row
    BY <1>1, <2>1, RowTypes DEF Active, ACTIVE_STATUSES, Stored, NoRow
  <2>2. table' \in [Job -> Row \cup {NoRow}]
    BY <1>3, <2>1 DEF StartRuntime, TypeOK
  <2>3. faults' \in 0 .. MaxFaults
    BY <1>3 DEF StartRuntime, TypeOK
  <2>4. QED
    BY <1>3, <2>2, <2>3 DEF StartRuntime, TypeOK
<1>4. CASE Shutdown(p)
  <2>1. ASSUME NEW j \in Job, j \in On(p, {"pending"})
        PROVE  [task[j] EXCEPT !.pc = "dropped"] \in Task
    BY <2>1 DEF On, HasTask, TypeOK, Task
  <2>2. task' \in [Job -> Task]
    BY <1>4, <2>1 DEF Shutdown, TypeOK
  <2>3. faults' \in 0 .. MaxFaults
    BY <1>4 DEF Shutdown, TypeOK
  <2>4. QED
    BY <1>4, <2>2, <2>3 DEF Shutdown, TypeOK
<1>5. CASE FinishShutdown(p)
  BY <1>2, <1>5 DEF FinishShutdown, TypeOK
<1>6. CASE Crash(p)
  <2>1. faults' \in 0 .. MaxFaults
    BY <1>6 DEF Crash, TypeOK
  <2>2. QED
    BY <1>2, <1>6, <2>1 DEF Crash, TypeOK
<1>7. QED
  BY <1>3, <1>4, <1>5, <1>6

LEMMA TimeTypes ==
  ASSUME TypeOK, Tick \/ \E p \in Process, j \in Job : Heartbeat(p, j)
  PROVE  TypeOK'
<1>1. 0 \in Age /\ \A a \in Age : Older(a) \in Age
  BY DEF Age, MaxAge, Older
<1>2. ASSUME NEW p \in Process, NEW j \in Job, Heartbeat(p, j)
      PROVE  TypeOK'
  <2>1. [table[j] EXCEPT !.heartbeat = 0] \in Row
    BY <1>1, <1>2, RowTypes DEF Heartbeat, Row
  <2>2. table' = [table EXCEPT ![j] = [table[j] EXCEPT !.heartbeat = 0]]
    BY <1>2 DEF Heartbeat
  <2>3. QED
    BY <1>2, <2>1, <2>2 DEF Heartbeat, TypeOK
<1>3. CASE Tick
  <2>1. ASSUME NEW j \in Job, Stored(j)
        PROVE  [table[j] EXCEPT !.heartbeat = Older(@),
                                !.updated = IF Settled(j) THEN Older(@) ELSE @] \in Row
    <3>1. table[j] \in Row
      BY <2>1, RowTypes
    <3>2. table[j].heartbeat \in Age /\ table[j].updated \in Age
      BY <3>1 DEF Row
    <3>3. Older(table[j].heartbeat) \in Age /\ Older(table[j].updated) \in Age
      BY <1>1, <3>2
    <3>4. ASSUME NEW a \in Age, NEW b \in Age
          PROVE  [table[j] EXCEPT !.heartbeat = a, !.updated = b] \in Row
      BY <3>1 DEF Row
    <3>5. [table[j] EXCEPT !.heartbeat = Older(@),
                           !.updated = IF Settled(j) THEN Older(@) ELSE @]
          = [table[j] EXCEPT !.heartbeat = Older(table[j].heartbeat),
                             !.updated = IF Settled(j) THEN Older(table[j].updated)
                                         ELSE table[j].updated]
      BY <3>1 DEF Row
    <3>6. QED
      BY <3>2, <3>3, <3>4, <3>5
  <2>2. table' \in [Job -> Row \cup {NoRow}]
    BY <1>3, <2>1 DEF Tick
  <2>3. ASSUME NEW h \in Handler, IsBusy(h)
        PROVE  [handler[h] EXCEPT !.heartbeat = Older(@)] \in Busy
    BY <1>1, <2>3, BusyTypes DEF Busy
  <2>4. handler' \in [Handler -> Busy \cup {Idle}]
    BY <1>3, <2>3 DEF Tick, TypeOK
  <2>5. QED
    BY <1>3, <2>2, <2>4 DEF Tick, TypeOK
<1>4. QED
  BY <1>2, <1>3

LEMMA StoreErrorTypes ==
  ASSUME TypeOK, NEW h \in Handler, RequestStoreError(h)
  PROVE  TypeOK'
<1>1. faults' \in 0 .. MaxFaults
  BY DEF RequestStoreError, TypeOK
<1>2. QED
  BY <1>1, AnswerTypes DEF RequestStoreError, TypeOK

LEMMA TypesInit == Init => TypeOK
BY DEF Init, TypeOK, Task

LEMMA TypesNext == TypeOK /\ [Next]_vars => TypeOK'
<1> SUFFICES ASSUME TypeOK, [Next]_vars
             PROVE  TypeOK'
  OBVIOUS
<1>1. CASE UNCHANGED vars
  BY <1>1 DEF vars, TypeOK
<1>2. CASE Next
  BY <1>2, RequestTypes, HandlerTypes, StoreErrorTypes, RunnerTypes, ProcessTypes, TimeTypes
     DEF Next
<1>3. QED
  BY <1>1, <1>2

(* Type correctness: whatever happens to a record, a request or a process,
   every variable keeps its shape (the columns of solver_jobs, the local
   variables of the handlers in jobs.py, the state of LocalJobRuntime). *)
THEOREM TypeCorrect == Spec => []TypeOK
BY TypesInit, TypesNext, PTL DEF Spec

----------------------------------------------------------------------------
(* One record per client key. *)

(* Only an INSERT brings a record in. *)
LEMMA OnlyInsertStores ==
  ASSUME TypeOK, Next, ~ \E h \in Handler : InsertRow(h), NEW i \in Job, Stored(i)'
  PROVE  Stored(i)
<1> USE DEF Stored
<1>1. ASSUME NEW j \in Job, NEW row, UpdateJob(j, row)
      PROVE  Stored(i)
  BY <1>1 DEF UpdateJob
<1>2. ASSUME NEW h \in Handler, HandlerStep(h)
      PROVE  Stored(i)
  BY <1>1, <1>2, AtIsBusy, BusyTypes
     DEF HandlerStep, SelectPruned, DeletePruned, Enqueue, CheckHandle, MarkOrphan,
         RereadRow, FlagCancel, CancelFuture, WriteCancelled
<1>3. ASSUME NEW j \in Job,
             Take(j) \/ RunnerStep(j) \/ RunnerStoreError(j) \/ RunnerRereadError(j)
      PROVE  Stored(i)
  BY <1>1, <1>3
     DEF Take, RunnerStep, RunnerStoreError, RunnerRereadError, RunLoad, RunCancelEarly, RunStart, RunCompute,
         RunFinish, RunDiscard
<1>4. ASSUME NEW p \in Process, StartRuntime(p)
      PROVE  Stored(i)
  BY <1>4 DEF StartRuntime, TypeOK, Active, ACTIVE_STATUSES, NoRow
<1>5. ASSUME NEW p \in Process, Shutdown(p) \/ FinishShutdown(p) \/ Crash(p)
      PROVE  Stored(i)
  BY <1>5 DEF Shutdown, FinishShutdown, Crash
<1>6. ASSUME NEW p \in Process, NEW j \in Job, Heartbeat(p, j)
      PROVE  Stored(i)
  BY <1>6 DEF Heartbeat, TypeOK
<1>7. CASE Tick
  BY <1>7 DEF Tick, TypeOK
<1>8. ASSUME NEW h \in Handler, RequestStoreError(h)
      PROVE  Stored(i)
  BY <1>8 DEF RequestStoreError
<1>9. ASSUME NEW h \in Handler, NEW p \in Process, NEW j \in Job, RequestBegin(h, p, j)
      PROVE  Stored(i)
  BY <1>9 DEF RequestBegin, SubmitBegin, CalculateBegin, LoadBegin
<1>10. QED
  BY <1>2, <1>3, <1>4, <1>5, <1>6, <1>7, <1>8, <1>9 DEF Next

LEMMA KeyNext == TypeOK /\ OneJobPerKey /\ [Next]_vars => OneJobPerKey'
<1> SUFFICES ASSUME TypeOK, OneJobPerKey, [Next]_vars
             PROVE  OneJobPerKey'
  OBVIOUS
<1>1. CASE UNCHANGED vars
  BY <1>1 DEF vars, OneJobPerKey, Stored
<1>2. ASSUME NEW h \in Handler, InsertRow(h)
      PROVE  OneJobPerKey'
  <2>1. handler[h].job \in Job
    BY <1>2, AtIsBusy, BusyTypes DEF InsertRow
  <2>2. CASE KeyTaken(KeyOf[handler[h].job])
    BY <1>2, <2>2 DEF InsertRow, OneJobPerKey, Stored
  <2>3. CASE ~KeyTaken(KeyOf[handler[h].job])
    <3>1. \A i \in Job : Stored(i)' => Stored(i) \/ i = handler[h].job
      BY <1>2, <2>1, <2>3 DEF InsertRow, Stored, TypeOK
    <3>2. \A i \in Job : Stored(i) => KeyOf[i] # KeyOf[handler[h].job] \/ KeyOf[i] = NoKey
      BY <2>3 DEF KeyTaken
    <3>3. QED
      BY <3>1, <3>2 DEF OneJobPerKey
  <2>4. QED
    BY <2>2, <2>3
<1>3. CASE Next /\ ~ \E h \in Handler : InsertRow(h)
  BY <1>3, OnlyInsertStores DEF OneJobPerKey
<1>4. QED
  BY <1>1, <1>2, <1>3

(* The idempotency key identifies one record, however lookups, INSERTs and
   pruning of concurrent submissions interleave (submit_job, store_job). *)
THEOREM OneRecordPerClientKey == Spec => []OneJobPerKey
<1>1. Init => OneJobPerKey
  BY DEF Init, OneJobPerKey, Stored
<1>2. QED
  BY <1>1, KeyNext, TypeCorrect, PTL DEF Spec

----------------------------------------------------------------------------
(* A cancelled job never runs. *)

(* A submission that has not handed its job to the pool yet. *)
Submitting(h) == handler[h].pc \in {"prune", "delete", "insert", "enqueue"}

CancelledIsOver ==
  \A j \in Job : table[j].status = "cancelled" =>
    task[j].pc \in {"none", "discard"} \/ (StoreErrors /\ task[j].pc = "fail")

(* cancel_job closes the record only after it withdrew the future. *)
ClosingIsOver ==
  \A h \in Handler : At(h, "cancelled") => task[handler[h].job].pc = "none"

(* What a submission may rely on: its identifier is nobody else's yet. *)
SubmissionIsNew ==
  \A h \in Handler : Submitting(h) =>
    /\ task[handler[h].job].pc = "none"
    /\ At(h, "enqueue") \/ ~Stored(handler[h].job)
    /\ At(h, "enqueue") => table[handler[h].job].status # "cancelled"
    /\ \A g \in Handler : g # h /\ (Submitting(g) \/ At(g, "cancelled"))
                            => handler[g].job # handler[h].job
    /\ \A p \in Process : handler[h].job \notin futures[p]

CancelInv == CancelledIsOver /\ ClosingIsOver /\ SubmissionIsNew

LEMMA CancelInvRequest ==
  ASSUME TypeOK, CancelInv, NEW h \in Handler, NEW p \in Process, NEW k \in Job,
         RequestBegin(h, p, k)
  PROVE  CancelInv'
<1> USE DEF CancelInv, At, IsBusy, Idle
<1>1. UNCHANGED <<table, task, futures>>
  BY DEF RequestBegin, SubmitBegin, CalculateBegin, LoadBegin
<1>2. CancelledIsOver'
  BY <1>1 DEF CancelledIsOver
<1>3. /\ handler \in [Handler -> Busy \cup {Idle}]
      /\ \A g \in Handler : g # h => handler'[g] = handler[g]
      /\ handler'[h].job = k
      /\ handler'[h].pc \in {"prune", "check"}
      /\ handler'[h].pc = "prune" => Fresh(k)
  BY DEF RequestBegin, SubmitBegin, CalculateBegin, LoadBegin, Begin, TypeOK
<1>4. ClosingIsOver'
  BY <1>1, <1>3 DEF ClosingIsOver
<1>5. SubmissionIsNew'
  <2>1. CASE handler'[h].pc = "prune"
    BY <1>1, <1>3, <2>1 DEF SubmissionIsNew, Submitting, Fresh, Stored, HasTask, NoTask
  <2>2. CASE handler'[h].pc = "check"
    BY <1>1, <1>3, <2>2 DEF SubmissionIsNew, Submitting, Stored
  <2>3. QED
    BY <1>3, <2>1, <2>2
<1>6. QED
  BY <1>2, <1>4, <1>5

(* A request that moves on to another step, or ends. *)
LEMMA GotoIs ==
  ASSUME TypeOK, NEW h \in Handler, NEW pc, Goto(h, pc) \/ (Answer(h) /\ pc = "idle"), IsBusy(h)
  PROVE  /\ \A g \in Handler : g # h => handler'[g] = handler[g]
         /\ handler'[h].pc = pc
         /\ pc # "idle" => handler'[h].job = handler[h].job /\ handler'[h].proc = handler[h].proc
BY BusyTypes DEF Goto, Answer, TypeOK, Busy, Idle

LEMMA CancelInvHandler ==
  ASSUME TypeOK, CancelInv, NEW h \in Handler, HandlerStep(h)
  PROVE  CancelInv'
<1> USE DEF CancelInv, At
<1>b. ASSUME NEW pc, pc # "idle", At(h, pc)
      PROVE  IsBusy(h) /\ handler[h].job \in Job /\ handler[h].proc \in Process
  BY <1>b, AtIsBusy, BusyTypes
<1>1. CASE SelectPruned(h)
  <2>1. /\ \A g \in Handler : g # h => handler'[g] = handler[g]
        /\ handler'[h].pc \in {"insert", "delete"}
        /\ handler'[h].job = handler[h].job
    BY <1>1, <1>b, BusyTypes DEF SelectPruned, TypeOK, Busy
  <2>2. UNCHANGED <<table, task, futures>>
    BY <1>1 DEF SelectPruned
  <2>3. CancelledIsOver'
    BY <2>2 DEF CancelledIsOver
  <2>4. ClosingIsOver'
    BY <2>1, <2>2 DEF ClosingIsOver
  <2>5. At(h, "prune")
    BY <1>1 DEF SelectPruned
  <2>6. SubmissionIsNew'
    BY <2>1, <2>2, <2>5 DEF SubmissionIsNew, Submitting, Stored
  <2>7. QED
    BY <2>3, <2>4, <2>6
<1>2. CASE DeletePruned(h)
  <2>1. /\ \A g \in Handler : g # h => handler'[g] = handler[g]
        /\ handler'[h].pc = "insert"
        /\ handler'[h].job = handler[h].job
    BY <1>2, <1>b, BusyTypes DEF DeletePruned, TypeOK, Busy
  <2>2. \A j \in Job : table'[j] = table[j] \/ table'[j] = NoRow
    BY <1>2 DEF DeletePruned
  <2>3. \A p \in Process : futures'[p] \subseteq futures[p]
    BY <1>2, <1>b DEF DeletePruned, TypeOK
  <2>4. \A g \in Handler : Submitting(g) \/ At(g, "cancelled") => handler[g].job \in Job
    BY AtIsBusy, BusyTypes DEF Submitting, IsBusy, Idle
  <2>5. UNCHANGED task
    BY <1>2 DEF DeletePruned
  <2>6. CancelledIsOver'
    BY <2>2, <2>5 DEF CancelledIsOver, NoRow
  <2>7. ClosingIsOver'
    BY <2>1, <2>5 DEF ClosingIsOver
  <2>8. SubmissionIsNew'
    <3>1. At(h, "delete")
      BY <1>2 DEF DeletePruned
    <3>2. \A j \in Job : /\ Stored(j)' => Stored(j)
                        /\ table'[j].status = "cancelled" => table[j].status = "cancelled"
      BY <2>2 DEF Stored, NoRow
    <3>3. \A g \in Handler : /\ Submitting(g)' = Submitting(g)
                            /\ At(g, "cancelled")' = At(g, "cancelled")
                            /\ At(g, "enqueue")' = At(g, "enqueue")
                            /\ handler'[g].job = handler[g].job
      BY <2>1, <3>1 DEF Submitting
    <3>4. SUFFICES ASSUME NEW g \in Handler, Submitting(g)'
                   PROVE  /\ task'[handler'[g].job].pc = "none"
                          /\ At(g, "enqueue")' \/ ~Stored(handler[g].job)'
                          /\ At(g, "enqueue")' => table'[handler'[g].job].status # "cancelled"
                          /\ \A f \in Handler : f # g /\ (Submitting(f)' \/ At(f, "cancelled")')
                                                 => handler'[f].job # handler'[g].job
                          /\ \A p \in Process : handler'[g].job \notin futures'[p]
      BY DEF SubmissionIsNew
    <3>5. Submitting(g) /\ handler'[g].job = handler[g].job /\ handler[g].job \in Job
      BY <2>4, <3>3, <3>4
    <3>6. ~Stored(handler[g].job) => ~Stored(handler[g].job)'
      BY <2>2, <3>3, <3>5 DEF Stored
    <3>7. QED
      BY <2>3, <2>5, <3>2, <3>3, <3>5, <3>6 DEF SubmissionIsNew
  <2>9. QED
    BY <2>6, <2>7, <2>8
<1>3. CASE InsertRow(h)
  <2>1. IsBusy(h) /\ handler[h].job \in Job
    BY <1>3, <1>b DEF InsertRow
  <2>2. /\ \A g \in Handler : g # h => handler'[g] = handler[g]
        /\ \/ handler'[h].pc = "idle"
           \/ handler'[h].pc = "enqueue" /\ handler'[h].job = handler[h].job
    BY <1>3, <2>1, GotoIs DEF InsertRow
  <2>3. /\ \A j \in Job : j # handler[h].job => table'[j] = table[j]
        /\ table'[handler[h].job] = table[handler[h].job] \/ table'[handler[h].job].status # "cancelled"
    BY <1>3, <2>1 DEF InsertRow, NewRow, TypeOK
  <2>4. UNCHANGED <<task, futures>>
    BY <1>3 DEF InsertRow
  <2>5. CancelledIsOver'
    BY <2>3, <2>4 DEF CancelledIsOver
  <2>6. ClosingIsOver'
    BY <2>2, <2>4 DEF ClosingIsOver
  <2>7. \A g \in Handler : Submitting(g) => handler[g].job \in Job
    BY BusyTypes DEF Submitting, IsBusy, Idle
  <2>8. handler'[h].pc = "enqueue" => table'[handler[h].job].status # "cancelled"
    <3>1. CASE KeyTaken(KeyOf[handler[h].job])
      BY <1>3, <2>1, <3>1 DEF InsertRow, Answer, TypeOK, Idle
    <3>2. CASE ~KeyTaken(KeyOf[handler[h].job])
      BY <1>3, <2>1, <3>2 DEF InsertRow, NewRow, TypeOK
    <3>3. QED
      BY <3>1, <3>2
  <2>9. SubmissionIsNew'
    <3>1. Submitting(h)
      BY <1>3 DEF InsertRow, Submitting
    <3>2. \A g \in Handler : g # h /\ Submitting(g) => handler[g].job # handler[h].job
      BY <3>1 DEF SubmissionIsNew
    <3>3. QED
      BY <2>2, <2>3, <2>4, <2>7, <2>8, <3>1, <3>2 DEF SubmissionIsNew, Submitting, Stored
  <2>10. QED
    BY <2>5, <2>6, <2>9
<1>4. CASE Enqueue(h)
  <2>1. IsBusy(h) /\ handler[h].job \in Job /\ handler[h].proc \in Process
    BY <1>4, <1>b DEF Enqueue
  <2>2. /\ \A g \in Handler : g # h => handler'[g] = handler[g]
        /\ handler'[h].pc = "idle"
    BY <1>4, <2>1, GotoIs DEF Enqueue
  <2>3. /\ \A j \in Job : j # handler[h].job => task'[j] = task[j]
        /\ \A p \in Process : futures'[p] \subseteq futures[p] \cup {handler[h].job}
        /\ UNCHANGED table
    BY <1>4, <2>1 DEF Enqueue, TypeOK
  <2>4. /\ table[handler[h].job].status # "cancelled"
        /\ \A g \in Handler : g # h /\ (Submitting(g) \/ At(g, "cancelled"))
                               => handler[g].job # handler[h].job
    BY <1>4 DEF Enqueue, SubmissionIsNew, Submitting
  <2>5. \A g \in Handler : Submitting(g) \/ At(g, "cancelled") => handler[g].job \in Job
    BY BusyTypes DEF Submitting, IsBusy, Idle
  <2>6. CancelledIsOver'
    BY <2>3, <2>4 DEF CancelledIsOver
  <2>7. ClosingIsOver'
    BY <2>2, <2>3, <2>4, <2>5 DEF ClosingIsOver
  <2>8. SubmissionIsNew'
    BY <2>2, <2>3, <2>4, <2>5 DEF SubmissionIsNew, Submitting, Stored
  <2>9. QED
    BY <2>6, <2>7, <2>8
<1>5. CASE CheckHandle(h) \/ RereadRow(h)
  <2>1. IsBusy(h)
    BY <1>5, <1>b DEF CheckHandle, RereadRow
  <2>2. /\ \A g \in Handler : g # h => handler'[g] = handler[g]
        /\ handler'[h].pc \in {"idle", "flag", "orphan"}
    BY <1>5, <2>1, GotoIs DEF CheckHandle, RereadRow
  <2>3. UNCHANGED <<table, task, futures>>
    BY <1>5 DEF CheckHandle, RereadRow
  <2>4. QED
    BY <2>2, <2>3 DEF CancelledIsOver, ClosingIsOver, SubmissionIsNew, Submitting, Stored
<1>6. CASE MarkOrphan(h) \/ FlagCancel(h)
  <2>1. IsBusy(h) /\ handler[h].job \in Job
    BY <1>6, <1>b DEF MarkOrphan, FlagCancel
  <2>2. /\ \A g \in Handler : g # h => handler'[g] = handler[g]
        /\ handler'[h].pc \in {"idle", "reread", "future"}
    BY <1>6, <2>1, GotoIs DEF MarkOrphan, FlagCancel
  <2>3. /\ \A j \in Job : table'[j].status \in {table[j].status, "failed"}
        /\ \A j \in Job : table[j] = NoRow => table'[j] = NoRow
        /\ UNCHANGED <<task, futures>>
    <3>1. ASSUME Stored(handler[h].job)
          PROVE  /\ AsFailed(handler[h].job, "orphaned", 0).status = "failed"
                 /\ [table[handler[h].job] EXCEPT !.cancelRequested = TRUE, !.updated = 0].status
                    = table[handler[h].job].status
      <4>1. table[handler[h].job] \in Row
        BY <2>1, <3>1 DEF Stored, TypeOK
      <4>2. AsFailed(handler[h].job, "orphaned", 0).status = "failed"
        BY <4>1 DEF AsFailed, Row
      <4>3. [table[handler[h].job] EXCEPT !.cancelRequested = TRUE, !.updated = 0].status
            = table[handler[h].job].status
        BY <4>1 DEF Row
      <4>4. QED
        BY <4>2, <4>3
    <3>2. QED
      BY <1>6, <2>1, <3>1 DEF MarkOrphan, FlagCancel, UpdateJob, Stored, TypeOK
  <2>4. \A g \in Handler : Submitting(g) => handler[g].job \in Job
    BY BusyTypes DEF Submitting, IsBusy, Idle
  <2>5. CancelledIsOver'
    BY <2>3 DEF CancelledIsOver
  <2>6. ClosingIsOver'
    BY <2>2, <2>3 DEF ClosingIsOver
  <2>7. SubmissionIsNew'
    BY <2>2, <2>3, <2>4 DEF SubmissionIsNew, Submitting, Stored
  <2>8. QED
    BY <2>5, <2>6, <2>7
<1>7. CASE CancelFuture(h)
  <2>1. IsBusy(h) /\ handler[h].job \in Job /\ handler[h].proc \in Process
    BY <1>7, <1>b DEF CancelFuture
  <2>2. \A g \in Handler : g # h => handler'[g] = handler[g]
    BY <1>7, <2>1, GotoIs DEF CancelFuture
  <2>3. \/ handler'[h].pc = "idle"
        \/ /\ handler'[h].pc = "cancelled" /\ handler'[h].job = handler[h].job
           /\ task'[handler[h].job].pc = "none"
           /\ handler[h].job \in futures[handler[h].proc]
    BY <1>7, <2>1, GotoIs DEF CancelFuture, TypeOK, NoTask
  <2>4. /\ \A j \in Job : task'[j] = task[j] \/ task'[j].pc = "none"
        /\ \A p \in Process : futures'[p] \subseteq futures[p]
        /\ UNCHANGED table
    BY <1>7, <2>1 DEF CancelFuture, TypeOK, NoTask
  <2>5. \A g \in Handler : Submitting(g) \/ At(g, "cancelled") => handler[g].job \in Job
    BY BusyTypes DEF Submitting, IsBusy, Idle
  <2>6. CancelledIsOver'
    BY <2>4 DEF CancelledIsOver
  <2>7. ClosingIsOver'
    BY <2>2, <2>3, <2>4, <2>5 DEF ClosingIsOver
  <2>8. SubmissionIsNew'
    BY <2>1, <2>2, <2>3, <2>4, <2>5 DEF SubmissionIsNew, Submitting, Stored
  <2>9. QED
    BY <2>6, <2>7, <2>8
<1>8. CASE WriteCancelled(h)
  <2>1. IsBusy(h) /\ handler[h].job \in Job
    BY <1>8, <1>b DEF WriteCancelled
  <2>2. /\ \A g \in Handler : g # h => handler'[g] = handler[g]
        /\ handler'[h].pc = "idle"
    BY <1>8, <2>1, GotoIs DEF WriteCancelled
  <2>3. /\ \A j \in Job : j # handler[h].job => table'[j] = table[j]
        /\ \A j \in Job : table[j] = NoRow => table'[j] = NoRow
        /\ UNCHANGED <<task, futures>>
    BY <1>8, <2>1 DEF WriteCancelled, UpdateJob, Stored, TypeOK
  <2>4. task[handler[h].job].pc = "none"
    BY <1>8 DEF WriteCancelled, ClosingIsOver
  <2>5. \A g \in Handler : g # h /\ Submitting(g) => handler[g].job \in Job /\ handler[g].job # handler[h].job
    BY <1>8, BusyTypes DEF WriteCancelled, SubmissionIsNew, Submitting, IsBusy, Idle
  <2>6. CancelledIsOver'
    BY <2>3, <2>4 DEF CancelledIsOver
  <2>7. ClosingIsOver'
    BY <2>2, <2>3 DEF ClosingIsOver
  <2>8. SubmissionIsNew'
    BY <2>2, <2>3, <2>5 DEF SubmissionIsNew, Submitting, Stored
  <2>9. QED
    BY <2>6, <2>7, <2>8
<1>9. QED
  BY <1>1, <1>2, <1>3, <1>4, <1>5, <1>6, <1>7, <1>8 DEF HandlerStep

(* Steps of a pool thread: they start or end a task, never withdraw one that
   a submission or a cancel request still counts on. *)
LEMMA CancelInvRunner ==
  ASSUME TypeOK, CancelInv, NEW k \in Job,
         Take(k) \/ RunnerStep(k) \/ RunnerStoreError(k) \/ RunnerRereadError(k)
  PROVE  CancelInv'
<1> USE DEF CancelInv, At
<1> DEFINE Steps == RunLoad(k) \/ RunCancelEarly(k) \/ RunStart(k) \/ RunCompute(k)
                      \/ RunFinish(k) \/ RunDiscard(k) \/ Take(k) \/ RunnerStoreError(k)
                      \/ RunnerRereadError(k)
<1>1. Steps
  BY DEF RunnerStep
<1>2. UNCHANGED handler /\ \A p \in Process : futures'[p] \subseteq futures[p]
  BY <1>1 DEF RunLoad, RunCancelEarly, RunStart, RunCompute, RunFinish, RunDiscard, Take,
              RunnerStoreError, RunnerRereadError, TypeOK
<1>3. task[k].pc # "none" /\ \A j \in Job : j # k => task'[j] = task[j]
  BY <1>1 DEF RunLoad, RunCancelEarly, RunStart, RunCompute, RunFinish, RunDiscard, Take,
              RunnerStoreError, RunnerRereadError, TypeOK, Finish, Step
<1>4. /\ \A j \in Job : j # k => table'[j] = table[j]
      /\ \A j \in Job : Stored(j)' => Stored(j)
  BY <1>1 DEF RunLoad, RunCancelEarly, RunStart, RunCompute, RunFinish, RunDiscard, Take,
              RunnerStoreError, RunnerRereadError, TypeOK, UpdateJob, Stored
<1>5. table'[k].status = "cancelled" =>
        task'[k].pc \in {"none", "discard"} \/ (StoreErrors /\ task'[k].pc = "fail")
  <2>1. CASE RunCancelEarly(k) \/ RunFinish(k) \/ RunDiscard(k)
    <3>1. CASE RunCancelEarly(k) \/ RunDiscard(k)
      BY <3>1 DEF RunCancelEarly, RunDiscard, Finish, NoTask, TypeOK
    <3>2. CASE RunFinish(k)
      BY <3>2 DEF RunFinish, Step, TypeOK, Task, NoTask
    <3>3. QED
      BY <2>1, <3>1, <3>2
  <2>2. CASE RunStart(k)
    <3>1. Stored(k) => WithStatus(k, "running").status = "running"
      BY DEF WithStatus, Stored, TypeOK, Row
    <3>2. QED
      BY <2>2, <3>1 DEF RunStart, UpdateJob, Stored, TypeOK, NoRow
  <2>3. CASE Take(k) \/ RunLoad(k) \/ RunCompute(k)
    BY <1>3, <2>3 DEF Take, RunLoad, RunCompute, CancelledIsOver
  <2>4. CASE RunnerStoreError(k)
    <3>1. CASE task[k].pc = "fail" /\ Step(k, "discard")
      BY <3>1 DEF Step, TypeOK, Task, NoTask
    <3>2. CASE ~(task[k].pc = "fail" /\ Step(k, "discard"))
      BY <1>3, <2>4, <3>2 DEF RunnerStoreError, CancelledIsOver
    <3>3. QED
      BY <3>1, <3>2
  <2>5. CASE RunnerRereadError(k)
    <3>1. StoreErrors /\ (Finish(k) \/ Step(k, "fail"))
      BY <2>5 DEF RunnerRereadError
    <3>2. CASE Finish(k)
      BY <3>2 DEF Finish, NoTask, TypeOK
    <3>3. CASE Step(k, "fail")
      BY <1>3, <3>1, <3>3 DEF Step, TypeOK, Task, NoTask
    <3>4. QED
      BY <3>1, <3>2, <3>3
  <2>6. QED
    BY <1>1, <2>1, <2>2, <2>3, <2>4, <2>5
<1>6. CancelledIsOver'
  BY <1>3, <1>4, <1>5 DEF CancelledIsOver
<1>7. \A g \in Handler : Submitting(g) \/ At(g, "cancelled")
                           => handler[g].job \in Job /\ handler[g].job # k
  BY <1>3, BusyTypes DEF ClosingIsOver, SubmissionIsNew, Submitting, IsBusy, Idle
<1>8. ClosingIsOver'
  BY <1>2, <1>3, <1>7 DEF ClosingIsOver
<1>9. SubmissionIsNew'
  BY <1>2, <1>3, <1>4, <1>7 DEF SubmissionIsNew, Submitting, Stored
<1>10. QED
  BY <1>6, <1>8, <1>9

(* Steps that at most end tasks and requests, and change no record but to
   close it as failed: processes, heartbeats, time and store errors. *)
LEMMA CancelInvQuiet ==
  ASSUME TypeOK, CancelInv,
         \A j \in Job : task'[j] = task[j] \/ task'[j].pc = "none"
                                        \/ (task[j].pc = "pending" /\ task'[j].pc = "dropped"),
         \A j \in Job : Stored(j)' => Stored(j) /\ table'[j].status \in {table[j].status, "failed"},
         \A g \in Handler : handler'[g] = Idle \/ (handler'[g].pc = handler[g].pc
                                                    /\ handler'[g].job = handler[g].job),
         \A p \in Process : futures'[p] \subseteq futures[p]
  PROVE  CancelInv'
<1> USE DEF CancelInv, At
<1>1. \A j \in Job : table'[j].status = "cancelled" => table[j].status = "cancelled"
  BY DEF Stored, NoRow
<1>2. CancelledIsOver'
  BY <1>1 DEF CancelledIsOver
<1>3. \A g \in Handler : Submitting(g)' \/ At(g, "cancelled")'
                           => /\ handler'[g].pc = handler[g].pc
                              /\ handler'[g].job = handler[g].job
                              /\ handler[g].job \in Job
  BY BusyTypes DEF Submitting, Idle, IsBusy
<1>4. ClosingIsOver'
  BY <1>3 DEF ClosingIsOver
<1>5. SubmissionIsNew'
  BY <1>1, <1>3 DEF SubmissionIsNew, Submitting
<1>6. QED
  BY <1>2, <1>4, <1>5

LEMMA CancelInvNext == TypeOK /\ CancelInv /\ [Next]_vars => CancelInv'
<1> SUFFICES ASSUME TypeOK, CancelInv, [Next]_vars
             PROVE  CancelInv'
  OBVIOUS
<1>1. CASE UNCHANGED vars
  BY <1>1 DEF vars, CancelInv, CancelledIsOver, ClosingIsOver, SubmissionIsNew, Submitting, At,
              Stored
<1>2. ASSUME NEW p \in Process, StartRuntime(p)
      PROVE  CancelInv'
  <2>1. \A j \in Job : Active(j) => AsFailed(j, "orphaned", Timeout).status = "failed"
    BY DEF Active, ACTIVE_STATUSES, AsFailed, TypeOK, Row, NoRow
  <2>2. \A j \in Job : table'[j] = table[j]
                        \/ (Stored(j) /\ table'[j].status = "failed")
    BY <1>2, <2>1 DEF StartRuntime, Active, ACTIVE_STATUSES, Stored, NoRow
  <2>3. UNCHANGED <<task, handler, futures>>
    BY <1>2 DEF StartRuntime
  <2>4. QED
    BY <2>2, <2>3, CancelInvQuiet DEF Stored
<1>3. ASSUME NEW p \in Process, Shutdown(p)
      PROVE  CancelInv'
  <2>1. \A j \in Job : task'[j] = task[j] \/ (task[j].pc = "pending" /\ task'[j].pc = "dropped")
    BY <1>3 DEF Shutdown, On, TypeOK, Task, HasTask
  <2>2. QED
    BY <1>3, <2>1, CancelInvQuiet DEF Shutdown, Stored
<1>4. ASSUME NEW p \in Process, FinishShutdown(p) \/ Crash(p)
      PROVE  CancelInv'
  <2>1. UNCHANGED table /\ task' = WithoutTasks(p) /\ handler' = WithoutHandlers(p)
        /\ futures' = [futures EXCEPT ![p] = {}]
    BY <1>4 DEF FinishShutdown, Crash
  <2>2. QED
    BY <2>1, CancelInvQuiet DEF WithoutTasks, WithoutHandlers, NoTask, TypeOK, Stored
<1>5. ASSUME NEW p \in Process, NEW j \in Job, Heartbeat(p, j)
      PROVE  CancelInv'
  <2>1. table[j] \in Row /\ [table[j] EXCEPT !.heartbeat = 0].status = table[j].status
    BY <1>5 DEF Heartbeat, Stored, TypeOK, Row
  <2>2. QED
    BY <1>5, <2>1, CancelInvQuiet DEF Heartbeat, Stored, TypeOK
<1>6. CASE Tick
  <2>1. \A j \in Job : Stored(j)' => Stored(j) /\ table'[j].status = table[j].status
    BY <1>6 DEF Tick, Stored, TypeOK, Row
  <2>2. \A g \in Handler : handler'[g].pc = handler[g].pc /\ handler'[g].job = handler[g].job
    BY <1>6, BusyTypes DEF Tick, Busy, TypeOK
  <2>3. UNCHANGED <<task, futures>>
    BY <1>6 DEF Tick
  <2>4. QED
    BY <2>1, <2>2, <2>3, CancelInvQuiet
<1>7. ASSUME NEW h \in Handler, RequestStoreError(h)
      PROVE  CancelInv'
  BY <1>7, CancelInvQuiet DEF RequestStoreError, Answer, Stored, TypeOK
<1>8. QED
  BY <1>1, <1>2, <1>3, <1>4, <1>5, <1>6, <1>7, CancelInvRequest, CancelInvHandler, CancelInvRunner
     DEF Next

LEMMA CancelInvAlways == Spec => []CancelInv
<1>1. Init => CancelInv
  BY DEF Init, CancelInv, CancelledIsOver, ClosingIsOver, SubmissionIsNew, Submitting, At, NoRow,
         Idle
<1>2. QED
  BY <1>1, CancelInvNext, TypeCorrect, PTL DEF Spec

(* Cancelling is final: a record that says cancelled has no thread that runs
   the job, will run it, or holds a result for it (cancel_job, _run_job). *)
THEOREM CancelledJobNeverRuns == Spec => []CancelledNeverRuns
<1>1. CancelInv => CancelledNeverRuns
  BY DEF CancelInv, CancelledIsOver, CancelledNeverRuns, Live
<1>2. QED
  BY <1>1, CancelInvAlways, PTL

(* What every step does to a record that says cancelled. *)
Kept(j) ==
  \/ table'[j].status \in {"cancelled", "absent"}
  \/ table'[j].error = "orphaned"
  \/ StoreErrors /\ task[j].pc = "fail" /\ table'[j].status = "failed"

LEMMA CancelledKept ==
  ASSUME TypeOK, CancelInv, Next, NEW j \in Job, table[j].status = "cancelled"
  PROVE  Kept(j)
<1> USE DEF Kept
<1>1. Stored(j) /\ table[j] \in Row /\ ~Active(j)
  BY DEF Stored, TypeOK, NoRow, Active, ACTIVE_STATUSES
<1>2. ASSUME NEW h \in Handler, HandlerStep(h)
      PROVE  Kept(j)
  <2>1. CASE InsertRow(h)
    <3>1. handler[h].job # j
      BY <1>1, <2>1 DEF InsertRow, CancelInv, SubmissionIsNew, Submitting, At
    <3>2. QED
      BY <2>1, <3>1, AtIsBusy, BusyTypes DEF InsertRow, TypeOK
  <2>2. CASE MarkOrphan(h)
    <3>1. AsFailed(j, "orphaned", 0).error = "orphaned"
      BY <1>1 DEF AsFailed, Row
    <3>2. QED
      BY <2>2, <3>1 DEF MarkOrphan, UpdateJob, TypeOK
  <2>3. CASE FlagCancel(h)
    <3>1. [table[j] EXCEPT !.cancelRequested = TRUE, !.updated = 0].status = "cancelled"
      BY <1>1 DEF Row
    <3>2. QED
      BY <2>3, <3>1 DEF FlagCancel, UpdateJob, TypeOK
  <2>4. CASE WriteCancelled(h)
    <3>1. WithStatus(j, "cancelled").status = "cancelled"
      BY <1>1 DEF WithStatus, Row
    <3>2. QED
      BY <2>4, <3>1 DEF WriteCancelled, UpdateJob, TypeOK
  <2>5. CASE DeletePruned(h)
    BY <2>5 DEF DeletePruned, NoRow
  <2>6. CASE SelectPruned(h) \/ Enqueue(h) \/ CheckHandle(h) \/ RereadRow(h) \/ CancelFuture(h)
    BY <2>6 DEF SelectPruned, Enqueue, CheckHandle, RereadRow, CancelFuture
  <2>7. QED
    BY <1>2, <2>1, <2>2, <2>3, <2>4, <2>5, <2>6 DEF HandlerStep
<1>3. ASSUME NEW k \in Job,
             Take(k) \/ RunnerStep(k) \/ RunnerStoreError(k) \/ RunnerRereadError(k)
      PROVE  Kept(j)
  <2>1. k = j => task[k].pc \in {"none", "discard"} \/ (StoreErrors /\ task[k].pc = "fail")
    BY DEF CancelInv, CancelledIsOver
  <2>2. CASE k = j /\ task[k].pc = "fail" /\ RunFinish(k)
    <3>1. AsFailed(j, "job", 0).status = "failed"
      BY <1>1 DEF AsFailed, Row
    <3>2. table'[j].status = "failed"
      BY <1>1, <2>2, <3>1 DEF RunFinish, UpdateJob, TypeOK
    <3>3. QED
      BY <2>1, <2>2, <3>2
  <2>3. CASE ~(k = j /\ task[k].pc = "fail" /\ RunFinish(k))
    <3>1. CASE k = j
      BY <1>3, <2>1, <2>3, <3>1
         DEF RunnerStep, RunLoad, RunCancelEarly, RunStart, RunCompute, RunFinish, RunDiscard,
             Take, RunnerStoreError, RunnerRereadError
    <3>2. CASE k # j
      <4>1. table'[j] = table[j]
        BY <1>3, <3>2
           DEF RunnerStep, RunLoad, RunCancelEarly, RunStart, RunCompute, RunFinish, RunDiscard,
               Take, RunnerStoreError, RunnerRereadError, UpdateJob, TypeOK
      <4>2. QED
        BY <4>1
    <3>3. QED
      BY <3>1, <3>2
  <2>4. QED
    BY <2>2, <2>3
<1>4. ASSUME NEW p \in Process,
             StartRuntime(p) \/ Shutdown(p) \/ FinishShutdown(p) \/ Crash(p)
      PROVE  Kept(j)
  BY <1>1, <1>4 DEF StartRuntime, Shutdown, FinishShutdown, Crash
<1>5. ASSUME NEW p \in Process, NEW k \in Job, Heartbeat(p, k)
      PROVE  Kept(j)
  <2>1. [table[j] EXCEPT !.heartbeat = 0].status = "cancelled"
    BY <1>1 DEF Row
  <2>2. QED
    BY <1>5, <2>1 DEF Heartbeat, TypeOK
<1>6. CASE Tick
  BY <1>1, <1>6 DEF Tick, Row
<1>7. ASSUME NEW h \in Handler, RequestStoreError(h)
      PROVE  Kept(j)
  BY <1>7 DEF RequestStoreError
<1>8. ASSUME NEW h \in Handler, NEW p \in Process, NEW k \in Job, RequestBegin(h, p, k)
      PROVE  Kept(j)
  BY <1>8 DEF RequestBegin, SubmitBegin, CalculateBegin, LoadBegin
<1>9. QED
  BY <1>2, <1>3, <1>4, <1>5, <1>6, <1>7, <1>8 DEF Next

(* A record that says cancelled stays so until it is pruned.  Two writes can
   still follow: the orphan report of a request that read the record before
   (jobs.py, _reconcile_local_job_handle), and the failure branch of the very
   thread that wrote "cancelled" and could not read it back (job_store.py,
   update_job). *)
THEOREM CancelledRecordStays == Spec => CancelledStays
<1>1. TypeOK /\ CancelInv /\ [Next]_vars
        => [\A j \in Job : table[j].status = "cancelled" =>
              \/ table'[j].status \in {"cancelled", "absent"}
              \/ table'[j].error = "orphaned"
              \/ StoreErrors /\ task[j].pc = "fail" /\ table'[j].status = "failed"]_table
  BY CancelledKept DEF vars, Kept
<1>2. QED
  BY <1>1, TypeCorrect, CancelInvAlways, PTL DEF Spec, CancelledStays

----------------------------------------------------------------------------
(* What orphan detection rests on: a process that holds the handle of an
   active job has the job queued or running, while the store answers. *)

(* A handle is held by a live process; the task it stands for runs there;
   and unless store calls fail, while the process serves an active job
   behind a handle is not lost. *)
HandleIsSound(p, j) ==
  /\ proc[p] # "down"
  /\ HasTask(j) => task[j].host = p
  /\ ~StoreErrors /\ proc[p] = "up" /\ Active(j) => HasTask(j) /\ task[j].pc # "dropped"

HandleInv == \A p \in Process : \A j \in futures[p] : HandleIsSound(p, j)

(* A step that hands out no handle, stops no process, activates no record
   and drops no task leaves the handles sound. *)
LEMMA HandleQuiet ==
  ASSUME TypeOK, HandleInv,
         UNCHANGED proc,
         \A p \in Process : futures'[p] \subseteq futures[p],
         \A p \in Process : \A j \in futures'[p] :
           /\ Active(j)' => Active(j)
           /\ HasTask(j)' => HasTask(j) /\ task'[j].host = task[j].host
                             /\ (task'[j].pc = "dropped" => task[j].pc = "dropped")
           /\ Active(j)' /\ HasTask(j) => HasTask(j)'
  PROVE  HandleInv'
BY DEF HandleInv, HandleIsSound

LEMMA HandleInvHandler ==
  ASSUME TypeOK, CancelInv, HandleInv, NEW h \in Handler, HandlerStep(h)
  PROVE  HandleInv'
<1>b. ASSUME NEW pc, pc # "idle", At(h, pc)
      PROVE  IsBusy(h) /\ handler[h].job \in Job /\ handler[h].proc \in Process
  BY <1>b, AtIsBusy, BusyTypes
<1>1. CASE SelectPruned(h) \/ CheckHandle(h) \/ RereadRow(h)
  <2>1. UNCHANGED <<table, proc, futures, task>>
    BY <1>1 DEF SelectPruned, CheckHandle, RereadRow
  <2>2. QED
    BY <2>1 DEF HandleInv, HandleIsSound, Active, HasTask
<1>2. CASE DeletePruned(h)
  <2>1. \A p \in Process : futures'[p] \subseteq futures[p]
    BY <1>2, <1>b DEF DeletePruned, TypeOK
  <2>2. \A j \in Job : table'[j] = table[j] \/ table'[j] = NoRow
    BY <1>2 DEF DeletePruned
  <2>3. UNCHANGED <<proc, task>>
    BY <1>2 DEF DeletePruned
  <2>4. \A j \in Job : Active(j)' => Active(j)
    BY <2>2 DEF Active, ACTIVE_STATUSES, NoRow
  <2>5. \A p \in Process : \A j \in futures'[p] : j \in Job
    BY <2>1 DEF TypeOK
  <2>6. QED
    BY <2>1, <2>3, <2>4, <2>5, HandleQuiet DEF HasTask
<1>3. CASE InsertRow(h)
  <2>1. handler[h].job \in Job
    BY <1>3, <1>b DEF InsertRow
  <2>2. \A p \in Process : handler[h].job \notin futures[p]
    BY <1>3 DEF InsertRow, CancelInv, SubmissionIsNew, Submitting, At
  <2>3. \A j \in Job : j # handler[h].job => table'[j] = table[j]
    BY <1>3, <2>1 DEF InsertRow, TypeOK
  <2>4. UNCHANGED <<proc, futures, task>>
    BY <1>3 DEF InsertRow
  <2>5. \A p \in Process : \A j \in futures'[p] : j \in Job /\ j # handler[h].job
    BY <2>2, <2>4 DEF TypeOK
  <2>6. QED
    BY <2>3, <2>4, <2>5, HandleQuiet DEF Active, HasTask
<1>4. CASE Enqueue(h)
  <2> DEFINE k == handler[h].job
             q == handler[h].proc
  <2>1. k \in Job /\ q \in Process
    BY <1>4, <1>b DEF Enqueue
  <2>2. \A p \in Process : k \notin futures[p]
    BY <1>4 DEF Enqueue, CancelInv, SubmissionIsNew, Submitting, At
  <2>3. UNCHANGED <<table, proc>>
    BY <1>4 DEF Enqueue
  <2>4. CASE proc[q] = "up"
    <3>1. /\ task' = [task EXCEPT ![k] = [pc |-> "pending", host |-> q]]
          /\ futures' = [futures EXCEPT ![q] = @ \cup {k}]
      BY <1>4, <2>4 DEF Enqueue
    <3>2. SUFFICES ASSUME NEW p \in Process, NEW j \in futures'[p]
                   PROVE  HandleIsSound(p, j)'
      BY DEF HandleInv
    <3>3. CASE j = k
      <4>1. p = q
        BY <2>1, <2>2, <3>1, <3>3 DEF TypeOK
      <4>2. task'[j] = [pc |-> "pending", host |-> q]
        BY <2>1, <3>1, <3>3 DEF TypeOK
      <4>3. QED
        BY <2>3, <2>4, <4>1, <4>2 DEF HandleIsSound, HasTask, NoTask
    <3>4. CASE j # k
      <4>1. j \in futures[p] /\ j \in Job
        BY <2>1, <3>1, <3>4 DEF TypeOK
      <4>2. task'[j] = task[j]
        BY <3>1, <3>4, <4>1 DEF TypeOK
      <4>3. QED
        BY <2>3, <4>1, <4>2 DEF HandleInv, HandleIsSound, HasTask, Active
    <3>5. QED
      BY <3>3, <3>4
  <2>5. CASE proc[q] # "up"
    BY <1>4, <2>3, <2>5 DEF Enqueue, HandleInv, HandleIsSound, HasTask, Active
  <2>6. QED
    BY <2>4, <2>5
<1>5. CASE MarkOrphan(h) \/ FlagCancel(h) \/ WriteCancelled(h)
  <2> DEFINE k == handler[h].job
  <2>1. k \in Job
    BY <1>5, <1>b DEF MarkOrphan, FlagCancel, WriteCancelled
  <2>2. \A j \in Job : Active(j)' => Active(j)
    <3>1. ASSUME Stored(k)
          PROVE  /\ AsFailed(k, "orphaned", 0).status = "failed"
                 /\ WithStatus(k, "cancelled").status = "cancelled"
                 /\ [table[k] EXCEPT !.cancelRequested = TRUE, !.updated = 0].status
                    = table[k].status
      <4>1. table[k] \in Row
        BY <2>1, <3>1 DEF Stored, TypeOK
      <4>2. AsFailed(k, "orphaned", 0).status = "failed"
        BY <4>1 DEF AsFailed, Row
      <4>3. WithStatus(k, "cancelled").status = "cancelled"
        BY <4>1 DEF WithStatus, Row
      <4>4. [table[k] EXCEPT !.cancelRequested = TRUE, !.updated = 0].status = table[k].status
        BY <4>1 DEF Row
      <4>5. QED
        BY <4>2, <4>3, <4>4
    <3>2. \A j \in Job : j # k => table'[j] = table[j]
      BY <1>5, <2>1 DEF MarkOrphan, FlagCancel, WriteCancelled, UpdateJob, TypeOK
    <3>3. table'[k] = table[k] \/ table'[k].status \in {table[k].status, "failed", "cancelled"}
      BY <1>5, <2>1, <3>1
         DEF MarkOrphan, FlagCancel, WriteCancelled, UpdateJob, TypeOK
    <3>4. QED
      BY <3>2, <3>3 DEF Active, ACTIVE_STATUSES
  <2>3. UNCHANGED <<proc, futures, task>>
    BY <1>5 DEF MarkOrphan, FlagCancel, WriteCancelled
  <2>4. \A p \in Process : \A j \in futures'[p] : j \in Job
    BY <2>3 DEF TypeOK
  <2>5. QED
    BY <2>2, <2>3, <2>4, HandleQuiet DEF HasTask
<1>6. CASE CancelFuture(h)
  <2> DEFINE k == handler[h].job
             q == handler[h].proc
  <2>1. k \in Job /\ q \in Process
    BY <1>6, <1>b DEF CancelFuture
  <2>2. UNCHANGED <<table, proc>>
    BY <1>6 DEF CancelFuture
  <2>3. CASE k \in futures[q] /\ task[k].pc \in {"pending", "dropped"}
    <3>1. /\ futures' = [futures EXCEPT ![q] = @ \ {k}]
          /\ task' = [task EXCEPT ![k] = NoTask]
      BY <1>6, <2>3 DEF CancelFuture
    <3>2. HasTask(k) /\ task[k].host = q
      BY <2>1, <2>3 DEF HasTask, NoTask, HandleInv, HandleIsSound
    <3>3. \A p \in Process : k \in futures[p] => p = q
      BY <3>2 DEF HandleInv, HandleIsSound
    <3>4. \A p \in Process : futures'[p] \subseteq futures[p] /\ k \notin futures'[p]
      BY <2>1, <3>1, <3>3 DEF TypeOK
    <3>5. \A p \in Process : \A j \in futures'[p] : task'[j] = task[j]
      BY <2>1, <3>1, <3>4 DEF TypeOK
    <3>6. QED
      BY <2>2, <3>4, <3>5, HandleQuiet DEF HasTask, Active
  <2>4. CASE ~(k \in futures[q] /\ task[k].pc \in {"pending", "dropped"})
    BY <1>6, <2>2, <2>4 DEF CancelFuture, HandleInv, HandleIsSound, HasTask, Active
  <2>5. QED
    BY <2>3, <2>4
<1>7. QED
  BY <1>1, <1>2, <1>3, <1>4, <1>5, <1>6 DEF HandlerStep

(* Every way out of _run_job leaves the record settled or gone, or the handle
   discarded; only a store error would not. *)
LEMMA HandleInvRunner ==
  ASSUME TypeOK, HandleInv, NEW k \in Job, Take(k) \/ RunnerStep(k)
  PROVE  HandleInv'
<1>1. UNCHANGED proc
  BY DEF Take, RunnerStep, RunLoad, RunCancelEarly, RunStart, RunCompute, RunFinish, RunDiscard
<1>2. HasTask(k) /\ task[k].pc # "dropped"
  BY DEF Take, RunnerStep, RunLoad, RunCancelEarly, RunStart, RunCompute, RunFinish, RunDiscard,
         HasTask, NoTask
<1>3. \A j \in Job : j # k => table'[j] = table[j] /\ task'[j] = task[j]
  BY DEF Take, RunnerStep, RunLoad, RunCancelEarly, RunStart, RunCompute, RunFinish, RunDiscard,
         UpdateJob, Step, Finish, TypeOK
<1>4. ASSUME NEW pc, pc # "dropped", Step(k, pc) \/ task' = [task EXCEPT ![k].pc = pc],
             UNCHANGED futures
      PROVE  HandleInv'
  <2>1. task'[k] = [task[k] EXCEPT !.pc = pc]
    BY <1>4 DEF Step, TypeOK
  <2>2. task[k] \in [pc: {"pending", "dropped"} \cup Running, host: Process]
    BY <1>2 DEF TypeOK, Task, HasTask
  <2>3. task'[k].pc = pc /\ task'[k].host = task[k].host /\ HasTask(k)'
    BY <2>1, <2>2 DEF HasTask, NoTask
  <2>4. SUFFICES ASSUME NEW p \in Process, NEW j \in futures[p]
                 PROVE  HandleIsSound(p, j)'
    BY <1>4 DEF HandleInv
  <2>5. j \in Job /\ HandleIsSound(p, j)
    BY DEF TypeOK, HandleInv
  <2>6. CASE j = k
    BY <1>1, <1>2, <1>4, <2>3, <2>5, <2>6 DEF HandleIsSound
  <2>7. CASE j # k
    BY <1>1, <1>3, <2>5, <2>7 DEF HandleIsSound, HasTask, Active
  <2>8. QED
    BY <2>6, <2>7
<1>5. ASSUME Finish(k), ~Active(k)' \/ \A p \in Process : k \notin futures'[p],
             \A p \in Process : futures'[p] \subseteq futures[p]
      PROVE  HandleInv'
  <2>1. ~HasTask(k)'
    BY <1>5 DEF Finish, HasTask, TypeOK
  <2>2. \A p \in Process : \A j \in futures'[p] : j \in Job
    BY <1>5 DEF TypeOK
  <2>3. QED
    BY <1>1, <1>3, <1>5, <2>1, <2>2, HandleQuiet DEF Active, HasTask
<1>6. CASE Take(k)
  BY <1>4, <1>6 DEF Take
<1>7. CASE RunLoad(k)
  <2>1. CASE ~Stored(k)
    <3>1. ~Active(k)' /\ UNCHANGED futures /\ Finish(k)
      BY <1>7, <2>1 DEF RunLoad, Stored, NoRow, Active, ACTIVE_STATUSES
    <3>2. QED
      BY <1>5, <3>1
  <2>2. CASE Stored(k)
    BY <1>4, <1>7, <2>2 DEF RunLoad
  <2>3. QED
    BY <2>1, <2>2
<1>8. CASE RunCancelEarly(k)
  <2>1. Stored(k) => WithStatus(k, "cancelled").status = "cancelled"
    BY DEF WithStatus, Stored, TypeOK, Row
  <2>2. ~Active(k)'
    BY <1>8, <2>1 DEF RunCancelEarly, UpdateJob, Stored, NoRow, Active, ACTIVE_STATUSES, TypeOK
  <2>3. QED
    BY <1>5, <1>8, <2>2 DEF RunCancelEarly
<1>9. CASE RunStart(k) \/ RunCompute(k) \/ RunFinish(k)
  <2>1. UNCHANGED futures
    BY <1>9 DEF RunStart, RunCompute, RunFinish
  <2>2. \E pc \in {"compute", "cancel", "succeed", "fail", "discard"} : Step(k, pc)
    BY <1>9 DEF RunStart, RunCompute, RunFinish
  <2>3. QED
    BY <1>4, <2>1, <2>2
<1>10. CASE RunDiscard(k)
  <2>1. Finish(k) /\ futures' = [futures EXCEPT ![task[k].host] = @ \ {k}]
    BY <1>10 DEF RunDiscard
  <2>2. \A p \in Process : futures'[p] \subseteq futures[p]
    BY <2>1 DEF TypeOK
  <2>3. \A p \in Process : k \in futures[p] => task[k].host = p
    BY <1>2 DEF HandleInv, HandleIsSound
  <2>4. \A p \in Process : k \notin futures'[p]
    BY <2>1, <2>2, <2>3 DEF TypeOK
  <2>5. QED
    BY <1>5, <2>1, <2>2, <2>4
<1>11. QED
  BY <1>6, <1>7, <1>8, <1>9, <1>10 DEF RunnerStep

LEMMA HandleInvProcess ==
  ASSUME TypeOK, HandleInv, NEW q \in Process,
         StartRuntime(q) \/ Shutdown(q) \/ FinishShutdown(q) \/ Crash(q)
  PROVE  HandleInv'
<1> SUFFICES ASSUME NEW p \in Process, NEW j \in futures'[p]
             PROVE  HandleIsSound(p, j)'
  BY DEF HandleInv
<1>1. \A r \in Process : r # q => proc'[r] = proc[r]
  BY DEF StartRuntime, Shutdown, FinishShutdown, Crash, TypeOK
<1>2. CASE StartRuntime(q)
  <2>1. UNCHANGED <<futures, task>>
    BY <1>2 DEF StartRuntime
  <2>2. j \in Job /\ HandleIsSound(p, j) /\ p # q
    BY <1>2, <2>1 DEF StartRuntime, HandleInv, HandleIsSound, TypeOK
  <2>3. Active(j)' => Active(j)
    BY <1>2, <2>2 DEF StartRuntime, Active
  <2>4. QED
    BY <1>1, <2>1, <2>2, <2>3 DEF HandleIsSound, HasTask
<1>3. CASE Shutdown(q)
  <2>1. UNCHANGED <<futures, table>> /\ proc'[q] = "stopping"
    BY <1>3 DEF Shutdown, TypeOK
  <2>2. j \in Job /\ HandleIsSound(p, j)
    BY <2>1 DEF HandleInv, TypeOK
  <2>3. /\ HasTask(j)' => HasTask(j) /\ task'[j].host = task[j].host
        /\ HasTask(j) => HasTask(j)'
        /\ HasTask(j) /\ task[j].host # q => task'[j] = task[j]
    <3>1. CASE j \in On(q, {"pending"})
      <4>1. task'[j] = [task[j] EXCEPT !.pc = "dropped"]
        BY <1>3, <2>2, <3>1 DEF Shutdown
      <4>2. task[j] \in [pc: {"pending", "dropped"} \cup Running, host: Process]
        BY <2>2, <3>1 DEF On, HasTask, TypeOK, Task
      <4>3. task[j].host = q /\ HasTask(j)
        BY <3>1 DEF On
      <4>4. QED
        BY <4>1, <4>2, <4>3 DEF HasTask, NoTask
    <3>2. CASE j \notin On(q, {"pending"})
      BY <1>3, <2>2, <3>2 DEF Shutdown, HasTask
    <3>3. QED
      BY <3>1, <3>2
  <2>4. QED
    BY <1>1, <2>1, <2>2, <2>3 DEF HandleIsSound, Active
<1>4. CASE FinishShutdown(q) \/ Crash(q)
  <2>1. UNCHANGED table /\ task' = WithoutTasks(q) /\ futures' = [futures EXCEPT ![q] = {}]
    BY <1>4 DEF FinishShutdown, Crash
  <2>2. p # q /\ j \in futures[p] /\ j \in Job
    BY <2>1 DEF TypeOK
  <2>3. HandleIsSound(p, j)
    BY <2>2 DEF HandleInv
  <2>4. task'[j] = task[j]
    BY <2>1, <2>2, <2>3 DEF WithoutTasks, HandleIsSound
  <2>5. QED
    BY <1>1, <2>1, <2>2, <2>3, <2>4 DEF HandleIsSound, HasTask, Active
<1>5. QED
  BY <1>2, <1>3, <1>4

(* A store error lets _run_job end with its handle kept: that only costs the
   last conjunct. *)
LEMMA HandleInvStoreError ==
  ASSUME TypeOK, HandleInv, NEW k \in Job, RunnerStoreError(k) \/ RunnerRereadError(k)
  PROVE  HandleInv'
<1>1. StoreErrors /\ UNCHANGED <<proc, futures>>
  BY DEF RunnerStoreError, RunnerRereadError
<1>2. \/ task'[k] = NoTask
      \/ HasTask(k) /\ task'[k] \in {[task[k] EXCEPT !.pc = "fail"], [task[k] EXCEPT !.pc = "discard"]}
  BY DEF RunnerStoreError, RunnerRereadError, Finish, Step, TypeOK, HasTask, NoTask
<1>3. HasTask(k)' => HasTask(k) /\ task'[k].host = task[k].host
  BY <1>2 DEF HasTask, NoTask, TypeOK, Task
<1>4. \A j \in Job : j # k => task'[j] = task[j]
  BY DEF RunnerStoreError, RunnerRereadError, Finish, Step, TypeOK
<1>5. \A p \in Process : \A j \in futures[p] : j \in Job
  BY DEF TypeOK
<1>6. QED
  BY <1>1, <1>3, <1>4, <1>5 DEF HandleInv, HandleIsSound, HasTask

LEMMA HandleInvNext == TypeOK /\ CancelInv /\ HandleInv /\ [Next]_vars => HandleInv'
<1> SUFFICES ASSUME TypeOK, CancelInv, HandleInv, [Next]_vars
             PROVE  HandleInv'
  OBVIOUS
<1>1. CASE UNCHANGED vars
  BY <1>1 DEF vars, HandleInv, HandleIsSound, HasTask, Active
<1>2. ASSUME NEW h \in Handler, NEW p \in Process, NEW k \in Job, RequestBegin(h, p, k)
      PROVE  HandleInv'
  <2>1. UNCHANGED <<table, proc, futures, task>>
    BY <1>2 DEF RequestBegin, SubmitBegin, CalculateBegin, LoadBegin
  <2>2. QED
    BY <2>1 DEF HandleInv, HandleIsSound, HasTask, Active
<1>3. ASSUME NEW h \in Handler, RequestStoreError(h)
      PROVE  HandleInv'
  BY <1>3 DEF RequestStoreError, HandleInv, HandleIsSound, HasTask, Active
<1>4. ASSUME NEW p \in Process, NEW k \in Job, Heartbeat(p, k)
      PROVE  HandleInv'
  <2>1. table[k] \in Row
    BY <1>4 DEF Heartbeat, TypeOK, Stored
  <2>2. \A j \in Job : table'[j].status = table[j].status
    BY <1>4, <2>1 DEF Heartbeat, TypeOK, Row
  <2>3. UNCHANGED <<proc, futures, task>>
    BY <1>4 DEF Heartbeat
  <2>4. \A q \in Process : \A j \in futures[q] : j \in Job
    BY DEF TypeOK
  <2>5. QED
    BY <2>2, <2>3, <2>4 DEF HandleInv, HandleIsSound, HasTask, Active
<1>5. CASE Tick
  <2>1. \A j \in Job : table'[j].status = table[j].status
    BY <1>5 DEF Tick, TypeOK, Stored, Row
  <2>2. UNCHANGED <<proc, futures, task>>
    BY <1>5 DEF Tick
  <2>3. \A q \in Process : \A j \in futures[q] : j \in Job
    BY DEF TypeOK
  <2>4. QED
    BY <2>1, <2>2, <2>3 DEF HandleInv, HandleIsSound, HasTask, Active
<1>6. QED
  BY <1>1, <1>2, <1>3, <1>4, <1>5, HandleInvHandler, HandleInvRunner, HandleInvStoreError,
     HandleInvProcess
     DEF Next

LEMMA HandleInvAlways == Spec => []HandleInv
<1>1. Init => HandleInv
  BY DEF Init, HandleInv
<1>2. QED
  BY <1>1, HandleInvNext, TypeCorrect, CancelInvAlways, PTL DEF Spec

(* While the store answers, a handle in LocalJobRuntime.futures vouches for
   its job: the record is no longer active, or the process that holds the
   handle has the job queued or running (_reconcile_local_job_handle and the
   heartbeat loop of job_runtime.py both rely on it). *)
THEOREM HandlesVouchForJobs ==
  ASSUME ~StoreErrors
  PROVE  Spec => []HandleMeansWork
<1>1. HandleInv => HandleMeansWork
  BY DEF HandleInv, HandleIsSound, HandleMeansWork
<1>2. QED
  BY <1>1, HandleInvAlways, PTL

------------------------------------------------------------------------------
(***************************************************************************)
(* What the job service promises when heartbeats and requests keep up with *)
(* the clock (Timely): every record follows JobLifecycle, one computation  *)
(* runs per client key, and a job reported lost is lost.  None of it is    *)
(* guarded where the code writes: update_job asks nothing of the status it *)
(* overwrites.  It holds because a stale write always finds a record       *)
(* nobody works on, which is what TimelyInv says, thread by thread.        *)
(***************************************************************************)

(* The record says what the pool thread has done so far. *)
StatusFollowsTask ==
  \A j \in Job :
    /\ Live(j) => Stored(j)
    /\ task[j].pc \in {"pending", "load", "cancelEarly", "start"} /\ Stored(j)
         => table[j].status = "queued"
    /\ task[j].pc \in {"compute", "succeed", "cancel"} /\ Stored(j)
         => table[j].status = "running"
    /\ task[j].pc = "fail" /\ Stored(j)
         => \/ table[j].status = "running"
            \/ StoreErrors /\ table[j].status \in {"succeeded", "cancelled"}

(* A submission hands the pool a job whose record is new. *)
SubmittedIsQueued ==
  \A h \in Handler : At(h, "enqueue") =>
    /\ table[handler[h].job].status = "queued"
    /\ table[handler[h].job].heartbeat < Timeout

(* The one request that withdrew the future closes a record that is open. *)
ClosingIsActive ==
  \A h \in Handler : At(h, "cancelled") =>
    /\ Stored(handler[h].job)
         => Active(handler[h].job) /\ table[handler[h].job].heartbeat < Timeout
    /\ \A g \in Handler : g # h /\ At(g, "cancelled") => handler[g].job # handler[h].job

(* The process of j's future still serves a request. *)
HostBusy(j) == \E h \in Handler : IsBusy(h) /\ handler[h].proc = task[j].host

(* A job somebody works on, or whose dropped future a request may still
   withdraw, has a young heartbeat. *)
WorkIsBeating ==
  \A j \in Job : HasTask(j) /\ Stored(j) /\ (task[j].pc # "dropped" \/ HostBusy(j))
    => table[j].heartbeat < Timeout

DroppedIsStopping ==
  \A j \in Job : task[j].pc = "dropped" =>
    /\ proc[task[j].host] = "stopping"
    /\ Settled(j) => ~HostBusy(j)

(* What prune_completed_jobs selected is over when it deletes it. *)
VictimIsOver ==
  \A h \in Handler : At(h, "delete") => \A v \in handler[h].victims :
    /\ ~Stored(v) \/ Settled(v)
    /\ task[v].pc \in {"none", "dropped", "fail", "discard"}
    /\ \A g \in Handler : Submitting(g) => handler[g].job # v

(* A request that has seen, or is going to see, too old a heartbeat. *)
Stale(h) == At(h, "orphan") \/ (At(h, "check") /\ handler[h].heartbeat >= Timeout)

(* Nobody works on the job, nor will, nor has it come to an end. *)
Lost(j) ==
  /\ task[j].pc \in {"none", "dropped"}
  /\ task[j].pc = "dropped" => ~HostBusy(j)
  /\ table[j].status \notin {"succeeded", "cancelled"}
  /\ \A g \in Handler : Submitting(g) \/ At(g, "cancelled") => handler[g].job # j

(* What such a request will report lost is lost. *)
StaleIsOver == \A h \in Handler : Stale(h) => Lost(handler[h].job)

TimelyInv ==
  /\ StatusFollowsTask /\ SubmittedIsQueued /\ ClosingIsActive /\ WorkIsBeating
  /\ DroppedIsStopping /\ VictimIsOver /\ StaleIsOver

----------------------------------------------------------------------------
(* A request thread begins. *)
LEMMA TimelyRequest ==
  ASSUME TypeOK, CancelInv, TimelyInv, NEW h \in Handler, NEW p \in Process, NEW k \in Job,
         RequestBegin(h, p, k)
  PROVE  TimelyInv'
<1> USE DEF At, IsBusy, Idle
<1>1. UNCHANGED <<table, proc, task, futures>>
  BY DEF RequestBegin, SubmitBegin, CalculateBegin, LoadBegin
<1>2. /\ ~IsBusy(h) /\ proc[p] = "up"
      /\ \A g \in Handler : g # h => handler'[g] = handler[g]
      /\ handler'[h].job = k /\ handler'[h].proc = p
      /\ handler'[h].pc \in {"prune", "check"}
      /\ handler'[h].pc = "prune" => Fresh(k)
      /\ handler'[h].pc = "check" => Active(k) /\ handler'[h].heartbeat = table[k].heartbeat
  BY DEF RequestBegin, SubmitBegin, CalculateBegin, LoadBegin, Begin, TypeOK
<1>3. \A j \in Job : HostBusy(j)' => HostBusy(j) \/ task[j].host = p
  BY <1>1, <1>2 DEF HostBusy
<1>4. \A j \in Job : task[j].pc = "dropped" => task[j].host # p /\ (HostBusy(j)' => HostBusy(j))
  BY <1>2, <1>3 DEF TimelyInv, DroppedIsStopping
<1>5. StatusFollowsTask'
  BY <1>1 DEF TimelyInv, StatusFollowsTask, Live, Stored
<1>6. SubmittedIsQueued'
  BY <1>1, <1>2 DEF TimelyInv, SubmittedIsQueued
<1>7. ClosingIsActive'
  BY <1>1, <1>2 DEF TimelyInv, ClosingIsActive, Stored, Active
<1>8. WorkIsBeating'
  BY <1>1, <1>4 DEF TimelyInv, WorkIsBeating, HasTask, Stored
<1>9. DroppedIsStopping'
  BY <1>1, <1>4 DEF TimelyInv, DroppedIsStopping, Settled
<1>10. VictimIsOver'
  <2>1. \A g \in Handler : At(g, "delete")' => g # h /\ At(g, "delete") /\ handler'[g] = handler[g]
    BY <1>2
  <2>2. Submitting(h)' => \A g \in Handler : At(g, "delete") => k \notin handler[g].victims
    BY <1>2 DEF Submitting, Fresh
  <2>3. QED
    BY <1>1, <1>2, <2>1, <2>2 DEF TimelyInv, VictimIsOver, Submitting, Stored, Settled
<1>11. StaleIsOver'
  <2>1. SUFFICES ASSUME NEW g \in Handler, Stale(g)'
                 PROVE  Lost(handler[g].job)'
    BY DEF StaleIsOver
  <2>2. CASE g = h
    <3>1. /\ handler'[h].pc = "check" /\ Active(k) /\ table[k].heartbeat >= Timeout
          /\ handler'[h].job = k
      BY <1>2, <2>1, <2>2 DEF Stale
    <3>2. Stored(k) /\ table[k] \in Row
      BY <3>1 DEF Active, ACTIVE_STATUSES, Stored, NoRow, TypeOK
    <3>3. table[k].heartbeat \in Nat /\ Timeout \in Nat
      BY <3>2 DEF Row, Age, MaxAge
    <3>4. ~(HasTask(k) /\ (task[k].pc # "dropped" \/ HostBusy(k)))
      BY <3>1, <3>2, <3>3 DEF TimelyInv, WorkIsBeating
    <3>5. task[k].pc \in {"none", "dropped"} /\ (task[k].pc = "dropped" => ~HostBusy(k)')
      BY <1>4, <3>4 DEF HasTask, NoTask
    <3>6. \A f \in Handler : f # h /\ (Submitting(f) \/ At(f, "cancelled")) => handler[f].job # k
      <4>1. ASSUME NEW f \in Handler, At(f, "enqueue")
            PROVE  handler[f].job # k
        BY <3>1, <3>3, <4>1 DEF TimelyInv, SubmittedIsQueued
      <4>2. ASSUME NEW f \in Handler, At(f, "cancelled")
            PROVE  handler[f].job # k
        BY <3>1, <3>2, <3>3, <4>2 DEF TimelyInv, ClosingIsActive
      <4>3. ASSUME NEW f \in Handler, Submitting(f), ~At(f, "enqueue")
            PROVE  handler[f].job # k
        BY <3>2, <4>3 DEF CancelInv, SubmissionIsNew
      <4>4. QED
        BY <4>1, <4>2, <4>3
    <3>7. QED
      BY <1>1, <1>2, <2>2, <3>1, <3>5, <3>6 DEF Lost, HostBusy, Submitting, Active, ACTIVE_STATUSES
  <2>3. CASE g # h
    <3>1. Stale(g) /\ handler'[g] = handler[g]
      BY <1>2, <2>1, <2>3 DEF Stale
    <3>2. Submitting(h)' => handler[g].job # k
      BY <1>2, <3>1 DEF Submitting, Fresh, Stale
    <3>3. handler[g].job \in Job
      BY <3>1, BusyTypes DEF Stale
    <3>4. Lost(handler[g].job)
      BY <3>1 DEF TimelyInv, StaleIsOver
    <3>5. QED
      BY <1>1, <1>2, <1>4, <3>1, <3>2, <3>3, <3>4 DEF Lost, HostBusy, Submitting
  <2>4. QED
    BY <2>2, <2>3
<1>12. QED
  BY <1>5, <1>6, <1>7, <1>8, <1>9, <1>10, <1>11 DEF TimelyInv

(* What a request may do to itself in one step: end, or move on with the same
   job in the same process. *)
MovesOn(h) ==
  /\ \A g \in Handler : g # h => handler'[g] = handler[g]
  /\ IsBusy(h) /\ handler[h].job \in Job /\ handler[h].proc \in Process
  /\ IsBusy(h)' => handler'[h].job = handler[h].job /\ handler'[h].proc = handler[h].proc

(* What such a step may do to a record. *)
KeptOrGone(j) ==
  \/ /\ Stored(j) /\ Stored(j)'
     /\ table'[j].status = table[j].status /\ table'[j].heartbeat = table[j].heartbeat
  \/ ~Stored(j)' /\ ~Live(j)

(* A step of the request h that leaves every task alone and keeps the status
   and heartbeat of each record, or withdraws the record. *)
LEMMA TimelySteps ==
  ASSUME TypeOK, TimelyInv, NEW h \in Handler, MovesOn(h), UNCHANGED <<proc, task>>,
         \A j \in Job : KeptOrGone(j),
         handler'[h].pc \in {"idle", "insert", "flag", "reread", "future"}
           \/ (handler'[h].pc = "orphan" /\ Stale(h)),
         Submitting(h)' => Submitting(h),
         \A g \in Handler : At(g, "enqueue") => table'[handler[g].job] # NoRow
  PROVE  TimelyInv'
<1> USE DEF At, IsBusy, Idle, KeptOrGone
<1>1. \A g \in Handler : g # h => handler'[g] = handler[g]
  BY DEF MovesOn
<1>2. \A j \in Job : HostBusy(j)' => HostBusy(j)
  BY DEF MovesOn, HostBusy
<1>3. \A g \in Handler : Submitting(g)' \/ At(g, "cancelled")'
                            => /\ handler'[g].job = handler[g].job
                               /\ Submitting(g) \/ At(g, "cancelled")
  BY DEF MovesOn, Submitting
<1>4. \A g \in Handler : At(g, "delete") \/ At(g, "enqueue") \/ At(g, "cancelled") \/ Stale(g)
                            => handler[g].job \in Job
  BY BusyTypes DEF Stale
<1>5. \A j \in Job : /\ Settled(j)' => Settled(j)
                     /\ Settled(j) => ~Stored(j)' \/ Settled(j)'
  BY DEF Settled, Stored, Terminal, NoRow
<1>6. StatusFollowsTask'
  BY DEF TimelyInv, StatusFollowsTask, Live
<1>7. SubmittedIsQueued'
  BY <1>1, <1>4 DEF TimelyInv, SubmittedIsQueued, Stored
<1>8. ClosingIsActive'
  BY <1>1, <1>4 DEF TimelyInv, ClosingIsActive, Active
<1>9. WorkIsBeating'
  BY <1>2 DEF TimelyInv, WorkIsBeating, HasTask
<1>10. DroppedIsStopping'
  BY <1>2, <1>5 DEF TimelyInv, DroppedIsStopping
<1>11. VictimIsOver'
  <2>1. SUFFICES ASSUME NEW g \in Handler, At(g, "delete")', NEW v \in handler'[g].victims
                 PROVE  /\ ~Stored(v)' \/ Settled(v)'
                        /\ task'[v].pc \in {"none", "dropped", "fail", "discard"}
                        /\ \A f \in Handler : Submitting(f)' => handler'[f].job # v
    BY DEF VictimIsOver
  <2>2. At(g, "delete") /\ handler'[g] = handler[g] /\ v \in Job
    BY <1>1, <2>1, BusyTypes
  <2>3. QED
    BY <1>1, <1>3, <1>5, <2>1, <2>2 DEF TimelyInv, VictimIsOver, MovesOn, Submitting
<1>12. StaleIsOver'
  <2>1. SUFFICES ASSUME NEW g \in Handler, Stale(g)'
                 PROVE  Lost(handler[g].job)'
    BY DEF StaleIsOver
  <2>2. Stale(g) /\ handler'[g].job = handler[g].job /\ handler[g].job \in Job
    BY <1>1, <2>1, <1>4 DEF MovesOn, Stale
  <2>3. Lost(handler[g].job)
    BY <2>2 DEF TimelyInv, StaleIsOver
  <2>4. QED
    BY <1>2, <1>3, <2>2, <2>3 DEF Lost, HostBusy, NoRow, Stored
<1>13. QED
  BY <1>6, <1>7, <1>8, <1>9, <1>10, <1>11, <1>12 DEF TimelyInv

(* An unchanged table will do for TimelySteps. *)
LEMMA SameTable ==
  ASSUME TypeOK, TimelyInv, UNCHANGED table
  PROVE  /\ \A j \in Job : KeptOrGone(j)
         /\ \A g \in Handler : At(g, "enqueue") => table'[handler[g].job] # NoRow
<1>1. \A j \in Job : Live(j) => Stored(j)
  BY DEF TimelyInv, StatusFollowsTask
<1>2. \A g \in Handler : At(g, "enqueue") => table[handler[g].job] # NoRow
  BY DEF TimelyInv, SubmittedIsQueued, NoRow
<1>3. QED
  BY <1>1, <1>2 DEF KeptOrGone, Stored

LEMMA Moves ==
  ASSUME TypeOK, NEW h \in Handler, IsBusy(h), NEW pc, pc # "idle" => Goto(h, pc),
         pc = "idle" => Answer(h)
  PROVE  MovesOn(h) /\ handler'[h].pc = pc
BY GotoIs, BusyTypes DEF MovesOn, IsBusy, Idle, Answer, TypeOK

(* A step that leaves records and tasks alone. *)
LEMMA TimelyMoves ==
  ASSUME TypeOK, TimelyInv, NEW h \in Handler, IsBusy(h), UNCHANGED <<table, proc, task>>,
         \/ Answer(h)
         \/ Goto(h, "flag")
         \/ Goto(h, "orphan") /\ Stale(h)
  PROVE  TimelyInv'
<1>1. PICK pc \in {"idle", "flag", "orphan"} :
        /\ pc # "idle" => Goto(h, pc)
        /\ pc = "idle" => Answer(h)
        /\ pc = "orphan" => Stale(h)
  OBVIOUS
<1>2. MovesOn(h) /\ handler'[h].pc = pc
  BY <1>1, Moves
<1>3. Submitting(h)' => Submitting(h)
  BY <1>1, <1>2 DEF Submitting
<1>4. QED
  BY <1>1, <1>2, <1>3, SameTable, TimelySteps

(* A request writes a record it may write. *)
LEMMA TimelyFlag ==
  ASSUME TypeOK, TimelyInv, NEW h \in Handler, FlagCancel(h)
  PROVE  TimelyInv'
<1> DEFINE k == handler[h].job
           row == [table[k] EXCEPT !.cancelRequested = TRUE, !.updated = 0]
<1>1. IsBusy(h) /\ k \in Job
  BY AtIsBusy, BusyTypes DEF FlagCancel
<1>2. MovesOn(h) /\ handler'[h].pc = "future"
  BY <1>1, Moves DEF FlagCancel
<1>3. \A j \in Job : j # k => table'[j] = table[j]
  BY <1>1 DEF FlagCancel, UpdateJob, TypeOK
<1>4. Stored(k) => /\ table'[k] = row /\ table'[k] # NoRow
                   /\ row.status = table[k].status /\ row.heartbeat = table[k].heartbeat
  <2>1. SUFFICES ASSUME Stored(k)
                 PROVE  /\ table'[k] = row /\ table'[k] # NoRow
                        /\ row.status = table[k].status /\ row.heartbeat = table[k].heartbeat
    OBVIOUS
  <2>2. table[k] \in Row
    BY <1>1, <2>1 DEF TypeOK, Stored
  <2>3. row.status = table[k].status /\ row.heartbeat = table[k].heartbeat
    BY <2>2 DEF Row
  <2>4. table'[k] = row
    BY <1>1, <2>1 DEF FlagCancel, UpdateJob, TypeOK
  <2>5. row # NoRow
    BY <2>2, <2>3 DEF Row, NoRow, ACTIVE_STATUSES, Terminal
  <2>6. QED
    BY <2>3, <2>4, <2>5 DEF Stored
<1>5. ~Stored(k) => UNCHANGED table
  BY DEF FlagCancel, UpdateJob, Stored
<1>6. \A j \in Job : KeptOrGone(j)
  BY <1>3, <1>4, <1>5 DEF KeptOrGone, Stored, TimelyInv, StatusFollowsTask
<1>7. \A g \in Handler : At(g, "enqueue") => table'[handler[g].job] # NoRow
  <2>1. \A g \in Handler : At(g, "enqueue") => Stored(handler[g].job) /\ handler[g].job \in Job
    BY AtIsBusy, BusyTypes DEF TimelyInv, SubmittedIsQueued, Stored, NoRow
  <2>2. QED
    BY <1>3, <1>4, <1>5, <2>1 DEF Stored
<1>8. UNCHANGED <<proc, task>> /\ ~Submitting(h)'
  BY <1>2 DEF FlagCancel, Submitting
<1>9. QED
  BY <1>2, <1>6, <1>7, <1>8, TimelySteps

(* The DELETE of prune_completed_jobs. *)
LEMMA TimelyDelete ==
  ASSUME TypeOK, TimelyInv, NEW h \in Handler, DeletePruned(h)
  PROVE  TimelyInv'
<1> DEFINE V == handler[h].victims
<1>1. IsBusy(h) /\ At(h, "delete")
  BY AtIsBusy DEF DeletePruned
<1>2. MovesOn(h) /\ handler'[h].pc = "insert" /\ Submitting(h)
  BY <1>1, BusyTypes DEF DeletePruned, MovesOn, TypeOK, Busy, At, Submitting
<1>3. \A j \in Job : table'[j] = IF j \in V THEN NoRow ELSE table[j]
  BY DEF DeletePruned
<1>4. \A j \in V : ~Live(j) /\ \A g \in Handler : Submitting(g) => handler[g].job # j
  BY <1>1 DEF TimelyInv, VictimIsOver, Live
<1>5. \A j \in Job : KeptOrGone(j)
  BY <1>3, <1>4 DEF KeptOrGone, Stored, TimelyInv, StatusFollowsTask
<1>6. \A g \in Handler : At(g, "enqueue") => table'[handler[g].job] # NoRow
  <2>1. \A g \in Handler : At(g, "enqueue") => Stored(handler[g].job) /\ handler[g].job \in Job
                                               /\ Submitting(g)
    BY AtIsBusy, BusyTypes DEF TimelyInv, SubmittedIsQueued, Stored, NoRow, At, Submitting
  <2>2. QED
    BY <1>3, <1>4, <2>1 DEF Stored
<1>7. UNCHANGED <<proc, task>>
  BY DEF DeletePruned
<1>8. QED
  BY <1>2, <1>5, <1>6, <1>7, TimelySteps

(* The SELECTs of prune_completed_jobs: what they return is over. *)
LEMMA TimelySelect ==
  ASSUME TypeOK, CancelInv, TimelyInv, NEW h \in Handler, SelectPruned(h)
  PROVE  TimelyInv'
<1> USE DEF At, IsBusy, Idle
<1>1. At(h, "prune") /\ UNCHANGED <<table, proc, futures, task>>
  BY DEF SelectPruned
<1>2. /\ \A g \in Handler : g # h => handler'[g] = handler[g]
      /\ handler'[h].pc \in {"insert", "delete"}
      /\ handler'[h].job = handler[h].job /\ handler'[h].proc = handler[h].proc
      /\ handler'[h].victims \in PruneCandidates
  BY BusyTypes DEF SelectPruned, TypeOK, Busy
<1>3. /\ \A j \in Job : HostBusy(j)' => HostBusy(j)
      /\ \A g \in Handler : Submitting(g)' => Submitting(g)
      /\ \A g \in Handler : Submitting(g) \/ At(g, "cancelled") => handler'[g].job = handler[g].job
      /\ \A g \in Handler : Stale(g)' => Stale(g) /\ g # h
  BY <1>1, <1>2 DEF HostBusy, Submitting, Stale
<1>4. StatusFollowsTask'
  BY <1>1 DEF TimelyInv, StatusFollowsTask, Live, Stored
<1>5. SubmittedIsQueued' /\ ClosingIsActive'
  BY <1>1, <1>2 DEF TimelyInv, SubmittedIsQueued, ClosingIsActive, Stored, Active
<1>6. WorkIsBeating' /\ DroppedIsStopping'
  BY <1>1, <1>3 DEF TimelyInv, WorkIsBeating, DroppedIsStopping, HasTask, Stored, Settled
<1>7. VictimIsOver'
  <2>1. ASSUME NEW v \in Job, Settled(v)
        PROVE  /\ task[v].pc \in {"none", "dropped", "fail", "discard"}
               /\ \A g \in Handler : Submitting(g) => handler[g].job # v
    <3>1. Stored(v) /\ table[v].status \notin {"queued", "running"}
      BY <2>1 DEF Settled, Stored, NoRow, Terminal
    <3>2. task[v].pc \in {"none", "pending", "dropped"} \cup Running
      BY DEF TypeOK, Task, NoTask
    <3>3. task[v].pc \in {"none", "dropped", "fail", "discard"}
      BY <3>1, <3>2 DEF TimelyInv, StatusFollowsTask, Running
    <3>4. \A g \in Handler : Submitting(g) => handler[g].job # v
      BY <3>1 DEF CancelInv, SubmissionIsNew, TimelyInv, SubmittedIsQueued
    <3>5. QED
      BY <3>3, <3>4
  <2>2. \A v \in handler'[h].victims : v \in Job /\ Settled(v)
    BY <1>2 DEF PruneCandidates
  <2>3. SUFFICES ASSUME NEW g \in Handler, At(g, "delete")', NEW v \in handler'[g].victims
                 PROVE  /\ ~Stored(v) \/ Settled(v)
                        /\ task[v].pc \in {"none", "dropped", "fail", "discard"}
                        /\ \A f \in Handler : Submitting(f) => handler[f].job # v
    BY <1>1, <1>3 DEF VictimIsOver, Stored, Settled
  <2>4. CASE g = h
    BY <2>1, <2>2, <2>3, <2>4
  <2>5. CASE g # h
    BY <1>2, <2>3, <2>5 DEF TimelyInv, VictimIsOver
  <2>6. QED
    BY <2>4, <2>5
<1>8. StaleIsOver'
  <2>1. SUFFICES ASSUME NEW g \in Handler, Stale(g)'
                 PROVE  Lost(handler[g].job)'
    BY DEF StaleIsOver
  <2>2. Stale(g) /\ handler'[g] = handler[g] /\ handler[g].job \in Job
    BY <1>2, <1>3, <2>1, BusyTypes DEF Stale
  <2>3. Lost(handler[g].job)
    BY <2>2 DEF TimelyInv, StaleIsOver
  <2>4. QED
    BY <1>1, <1>2, <1>3, <2>2, <2>3 DEF Lost, HostBusy, Submitting
<1>9. QED
  BY <1>4, <1>5, <1>6, <1>7, <1>8 DEF TimelyInv

(* The INSERT of a new record. *)
LEMMA TimelyInsert ==
  ASSUME TypeOK, CancelInv, TimelyInv, NEW h \in Handler, InsertRow(h)
  PROVE  TimelyInv'
<1> DEFINE k == handler[h].job
<1> USE DEF At
<1>1. At(h, "insert") /\ Submitting(h) /\ IsBusy(h) /\ k \in Job
  BY AtIsBusy, BusyTypes DEF InsertRow, Submitting
<1>2. UNCHANGED <<proc, futures, task>>
  BY DEF InsertRow
<1>3. CASE KeyTaken(KeyOf[k])
  BY <1>1, <1>2, <1>3, TimelyMoves DEF InsertRow
<1>4. CASE ~KeyTaken(KeyOf[k])
  <2>1. task[k].pc = "none" /\ \A g \in Handler :
          g # h /\ (Submitting(g) \/ At(g, "cancelled")) => handler[g].job # k
    BY <1>1 DEF CancelInv, SubmissionIsNew
  <2>2. \A g \in Handler : /\ Stale(g) => handler[g].job # k
                           /\ At(g, "delete") => k \notin handler[g].victims
    BY <1>1 DEF TimelyInv, StaleIsOver, Lost, VictimIsOver
  <2>3. \E status \in {"queued", "succeeded"} :
          /\ table' = [table EXCEPT ![k] = NewRow(status)]
          /\ \/ status = "queued" /\ Goto(h, "enqueue")
             \/ Answer(h)
    BY <1>4 DEF InsertRow
  <2>4. /\ \A j \in Job : j # k => table'[j] = table[j]
        /\ table'[k].heartbeat = 0
        /\ MovesOn(h) /\ handler'[h].pc \in {"idle", "enqueue"}
        /\ handler'[h].pc = "enqueue" => table'[k].status = "queued"
    <3>1. PICK status \in {"queued", "succeeded"} :
            /\ table' = [table EXCEPT ![k] = NewRow(status)]
            /\ \/ status = "queued" /\ Goto(h, "enqueue")
               \/ Answer(h)
      BY <2>3
    <3>2. table'[k] = NewRow(status) /\ \A j \in Job : j # k => table'[j] = table[j]
      BY <1>1, <3>1 DEF TypeOK
    <3>3. CASE status = "queued" /\ Goto(h, "enqueue")
      BY <1>1, <3>2, <3>3, Moves DEF NewRow
    <3>4. CASE Answer(h)
      BY <1>1, <3>2, <3>4, Moves DEF NewRow
    <3>5. QED
      BY <3>1, <3>3, <3>4
  <2>5. /\ \A g \in Handler : g # h => handler'[g] = handler[g]
        /\ handler'[h].pc = "enqueue" => handler'[h].job = k
        /\ \A j \in Job : HostBusy(j)' => HostBusy(j)
    BY <1>2, <2>4 DEF MovesOn, HostBusy, IsBusy, Idle
  <2>6. StatusFollowsTask'
    BY <1>2, <2>1, <2>4 DEF TimelyInv, StatusFollowsTask, Live, Stored
  <2>7. SubmittedIsQueued'
    <3>1. SUFFICES ASSUME NEW g \in Handler, At(g, "enqueue")'
                   PROVE  /\ table'[handler'[g].job].status = "queued"
                          /\ table'[handler'[g].job].heartbeat < Timeout
      BY DEF SubmittedIsQueued
    <3>2. CASE g = h
      BY <2>4, <2>5, <3>1, <3>2
    <3>3. CASE g # h
      <4>1. At(g, "enqueue") /\ handler'[g] = handler[g] /\ handler[g].job # k
        BY <2>1, <2>5, <3>1, <3>3 DEF Submitting
      <4>2. handler[g].job \in Job
        BY <4>1, AtIsBusy, BusyTypes
      <4>3. QED
        BY <2>4, <4>1, <4>2 DEF TimelyInv, SubmittedIsQueued
    <3>4. QED
      BY <3>2, <3>3
  <2>8. ClosingIsActive'
    <3>1. \A g \in Handler : At(g, "cancelled")' => At(g, "cancelled") /\ handler'[g] = handler[g]
                                                /\ handler[g].job \in Job /\ handler[g].job # k
      BY <1>1, <2>1, <2>4, <2>5, AtIsBusy, BusyTypes
    <3>2. QED
      BY <2>4, <3>1 DEF TimelyInv, ClosingIsActive, Stored, Active
  <2>9. WorkIsBeating' /\ DroppedIsStopping'
    BY <1>2, <2>1, <2>4, <2>5
       DEF TimelyInv, WorkIsBeating, DroppedIsStopping, HasTask, NoTask, Stored, Settled
  <2>10. VictimIsOver'
    <3>1. SUFFICES ASSUME NEW g \in Handler, At(g, "delete")', NEW v \in handler'[g].victims
                   PROVE  /\ ~Stored(v)' \/ Settled(v)'
                          /\ task'[v].pc \in {"none", "dropped", "fail", "discard"}
                          /\ \A f \in Handler : Submitting(f)' => handler'[f].job # v
      BY DEF VictimIsOver
    <3>2. At(g, "delete") /\ handler'[g] = handler[g] /\ v \in Job /\ v # k
      BY <2>2, <2>4, <2>5, <3>1, AtIsBusy, BusyTypes
    <3>3. QED
      BY <1>1, <1>2, <2>4, <2>5, <3>1, <3>2 DEF TimelyInv, VictimIsOver, Stored, Settled, Submitting
  <2>11. StaleIsOver'
    <3>1. SUFFICES ASSUME NEW g \in Handler, Stale(g)'
                   PROVE  Lost(handler[g].job)'
      BY DEF StaleIsOver
    <3>2. Stale(g) /\ handler'[g] = handler[g] /\ handler[g].job \in Job /\ handler[g].job # k
      BY <2>2, <2>4, <2>5, <3>1, AtIsBusy, BusyTypes DEF Stale
    <3>3. Lost(handler[g].job)
      BY <3>2 DEF TimelyInv, StaleIsOver
    <3>4. QED
      BY <1>1, <1>2, <2>4, <2>5, <3>2, <3>3 DEF Lost, HostBusy, Submitting
  <2>12. QED
    BY <2>6, <2>7, <2>8, <2>9, <2>10, <2>11 DEF TimelyInv
<1>5. QED
  BY <1>3, <1>4

(* The pool takes a job whose record is queued and young. *)
LEMMA TimelyEnqueue ==
  ASSUME TypeOK, CancelInv, TimelyInv, NEW h \in Handler, Enqueue(h)
  PROVE  TimelyInv'
<1> DEFINE k == handler[h].job
           q == handler[h].proc
<1> USE DEF At
<1>1. At(h, "enqueue") /\ Submitting(h) /\ IsBusy(h) /\ k \in Job /\ q \in Process
  BY AtIsBusy, BusyTypes DEF Enqueue, Submitting
<1>2. Answer(h) /\ UNCHANGED <<table, proc>>
  BY DEF Enqueue
<1>3. CASE proc[q] # "up"
  BY <1>1, <1>2, <1>3, TimelyMoves DEF Enqueue
<1>4. CASE proc[q] = "up"
  <2>1. task' = [task EXCEPT ![k] = [pc |-> "pending", host |-> q]]
    BY <1>4 DEF Enqueue
  <2>2. /\ task'[k].pc = "pending"
        /\ \A j \in Job : j # k => task'[j] = task[j]
    BY <1>1, <2>1 DEF TypeOK
  <2>3. Stored(k) /\ table[k].status = "queued" /\ table[k].heartbeat < Timeout
    BY <1>1 DEF TimelyInv, SubmittedIsQueued, Stored, NoRow
  <2>4. /\ \A g \in Handler : g # h => handler'[g] = handler[g]
        /\ handler'[h] = Idle
        /\ \A j \in Job : j # k => (HostBusy(j)' => HostBusy(j))
    BY <1>2, <2>2 DEF Answer, TypeOK, HostBusy, IsBusy
  <2>5. /\ \A g \in Handler : Stale(g) => handler[g].job # k
        /\ \A g \in Handler : At(g, "delete") => k \notin handler[g].victims
    BY <1>1 DEF TimelyInv, StaleIsOver, Lost, VictimIsOver
  <2>6. StatusFollowsTask'
    BY <1>2, <2>2, <2>3 DEF TimelyInv, StatusFollowsTask, Live, Stored
  <2>7. SubmittedIsQueued' /\ ClosingIsActive'
    BY <1>2, <2>4 DEF TimelyInv, SubmittedIsQueued, ClosingIsActive, Stored, Active, Idle
  <2>8. WorkIsBeating' /\ DroppedIsStopping'
    BY <1>2, <2>2, <2>3, <2>4
       DEF TimelyInv, WorkIsBeating, DroppedIsStopping, HasTask, Stored, Settled
  <2>9. VictimIsOver'
    <3>1. SUFFICES ASSUME NEW g \in Handler, At(g, "delete")', NEW v \in handler'[g].victims
                   PROVE  /\ ~Stored(v) \/ Settled(v)
                          /\ task'[v].pc \in {"none", "dropped", "fail", "discard"}
                          /\ \A f \in Handler : Submitting(f)' => handler'[f].job # v
      BY <1>2 DEF VictimIsOver, Stored, Settled
    <3>2. At(g, "delete") /\ handler'[g] = handler[g] /\ v \in Job /\ v # k
      BY <2>4, <2>5, <3>1, AtIsBusy, BusyTypes DEF Idle
    <3>3. QED
      BY <2>2, <2>4, <3>1, <3>2 DEF TimelyInv, VictimIsOver, Submitting, Idle
  <2>10. StaleIsOver'
    <3>1. SUFFICES ASSUME NEW g \in Handler, Stale(g)'
                   PROVE  Lost(handler[g].job)'
      BY DEF StaleIsOver
    <3>2. Stale(g) /\ handler'[g] = handler[g] /\ handler[g].job \in Job /\ handler[g].job # k
      BY <2>4, <2>5, <3>1, AtIsBusy, BusyTypes DEF Stale, Idle
    <3>3. Lost(handler[g].job)
      BY <3>2 DEF TimelyInv, StaleIsOver
    <3>4. QED
      BY <1>2, <2>2, <2>4, <3>2, <3>3 DEF Lost, Submitting, Idle
  <2>11. QED
    BY <2>6, <2>7, <2>8, <2>9, <2>10 DEF TimelyInv
<1>5. QED
  BY <1>3, <1>4

LEMMA TimelyCheck ==
  ASSUME TypeOK, TimelyInv, NEW h \in Handler, CheckHandle(h) \/ RereadRow(h)
  PROVE  TimelyInv'
<1>1. IsBusy(h) /\ UNCHANGED <<table, proc, task>>
  BY AtIsBusy DEF CheckHandle, RereadRow
<1>2. CASE CheckHandle(h)
  <2>1. handler[h].heartbeat \in Nat /\ Timeout \in Nat
    BY <1>1, BusyTypes DEF Age, MaxAge
  <2>2. Answer(h) \/ Goto(h, "flag") \/ (Goto(h, "orphan") /\ Stale(h))
    BY <1>2, <2>1 DEF CheckHandle, Stale, At
  <2>3. QED
    BY <1>1, <2>2, TimelyMoves
<1>3. CASE RereadRow(h)
  <2>1. Answer(h) \/ Goto(h, "flag")
    BY <1>3 DEF RereadRow
  <2>2. QED
    BY <1>1, <2>1, TimelyMoves
<1>4. QED
  BY <1>2, <1>3

(* Closing a record nobody works on, as lost or as cancelled. *)
LEMMA TimelyClose ==
  ASSUME TypeOK, TimelyInv, NEW h \in Handler, MovesOn(h),
         handler'[h].pc \in {"idle", "reread"}, UNCHANGED <<proc, task>>,
         NEW k \in Job, NEW status \in {"failed", "cancelled"},
         \A j \in Job : j # k => table'[j] = table[j],
         \/ table'[k] = table[k]
         \/ Stored(k)' /\ table'[k].status = status /\ table'[k].heartbeat = table[k].heartbeat,
         Stored(k)' => Stored(k),
         task[k].pc \in {"none", "dropped"},
         task[k].pc = "dropped" => ~HostBusy(k),
         \A g \in Handler : g # h /\ (At(g, "cancelled") \/ At(g, "enqueue"))
                                   => handler[g].job # k,
         status = "cancelled" => \A g \in Handler : Stale(g) => handler[g].job # k
  PROVE  TimelyInv'
<1> USE DEF At, IsBusy, Idle
<1>1. /\ \A g \in Handler : g # h => handler'[g] = handler[g]
      /\ \A j \in Job : HostBusy(j)' => HostBusy(j)
      /\ \A g \in Handler : Submitting(g)' \/ Stale(g)' \/ At(g, "cancelled")' \/ At(g, "delete")'
                              => g # h
  BY DEF MovesOn, HostBusy, Submitting, Stale
<1>2. StatusFollowsTask'
  BY DEF TimelyInv, StatusFollowsTask, Live, Stored
<1>3. \A g \in Handler : At(g, "enqueue") \/ At(g, "cancelled") \/ Stale(g) => handler[g].job \in Job
  BY BusyTypes DEF Stale
<1>4. SubmittedIsQueued' /\ ClosingIsActive'
  BY <1>1, <1>3 DEF TimelyInv, SubmittedIsQueued, ClosingIsActive, Stored, Active, Submitting
<1>5. WorkIsBeating' /\ DroppedIsStopping'
  BY <1>1 DEF TimelyInv, WorkIsBeating, DroppedIsStopping, HasTask, Stored, Settled
<1>6. VictimIsOver'
  <2>1. SUFFICES ASSUME NEW g \in Handler, At(g, "delete")', NEW v \in handler'[g].victims
                 PROVE  /\ ~Stored(v)' \/ Settled(v)'
                        /\ task'[v].pc \in {"none", "dropped", "fail", "discard"}
                        /\ \A f \in Handler : Submitting(f)' => handler'[f].job # v
    BY DEF VictimIsOver
  <2>2. At(g, "delete") /\ handler'[g] = handler[g] /\ v \in Job
    BY <1>1, <2>1, BusyTypes
  <2>3. QED
    BY <1>1, <2>1, <2>2 DEF TimelyInv, VictimIsOver, Stored, Settled, Submitting, Terminal
<1>7. StaleIsOver'
  <2>1. SUFFICES ASSUME NEW g \in Handler, Stale(g)'
                 PROVE  Lost(handler[g].job)'
    BY DEF StaleIsOver
  <2>2. Stale(g) /\ handler'[g] = handler[g] /\ handler[g].job \in Job
    BY <1>1, <1>3, <2>1 DEF Stale
  <2>3. Lost(handler[g].job)
    BY <2>2 DEF TimelyInv, StaleIsOver
  <2>4. QED
    BY <1>1, <2>2, <2>3 DEF Lost, Submitting
<1>8. QED
  BY <1>2, <1>4, <1>5, <1>6, <1>7 DEF TimelyInv

(* What UPDATE makes of the record. *)
LEMMA CloseIs ==
  ASSUME TypeOK, NEW k \in Job, NEW row \in {AsFailed(k, "orphaned", 0), WithStatus(k, "cancelled"),
                                            WithStatus(k, "succeeded"), WithStatus(k, "running"),
                                            AsFailed(k, "job", 0)},
         UpdateJob(k, row)
  PROVE  /\ \A j \in Job : j # k => table'[j] = table[j]
         /\ ~Stored(k) => UNCHANGED table
         /\ Stored(k) => /\ table'[k] = row /\ table'[k] # NoRow
                         /\ row.heartbeat = table[k].heartbeat
         /\ Stored(k) => /\ AsFailed(k, "orphaned", 0).status = "failed"
                         /\ AsFailed(k, "job", 0).status = "failed"
                         /\ \A s : WithStatus(k, s).status = s
<1>1. /\ \A j \in Job : j # k => table'[j] = table[j]
      /\ ~Stored(k) => UNCHANGED table
      /\ Stored(k) => table'[k] = row
  BY DEF UpdateJob, Stored, TypeOK
<1>2. ASSUME Stored(k)
      PROVE  /\ AsFailed(k, "orphaned", 0).status = "failed"
             /\ AsFailed(k, "orphaned", 0).heartbeat = table[k].heartbeat
             /\ AsFailed(k, "job", 0).status = "failed"
             /\ AsFailed(k, "job", 0).heartbeat = table[k].heartbeat
             /\ \A s : WithStatus(k, s).status = s
             /\ \A s : WithStatus(k, s).heartbeat = table[k].heartbeat
  <2>1. table[k] \in Row
    BY <1>2 DEF Stored, TypeOK
  <2>2. /\ AsFailed(k, "orphaned", 0).status = "failed"
        /\ AsFailed(k, "orphaned", 0).heartbeat = table[k].heartbeat
        /\ AsFailed(k, "job", 0).status = "failed"
        /\ AsFailed(k, "job", 0).heartbeat = table[k].heartbeat
    BY <2>1 DEF AsFailed, Row
  <2>3. \A s : WithStatus(k, s).status = s /\ WithStatus(k, s).heartbeat = table[k].heartbeat
    BY <2>1 DEF WithStatus, Row
  <2>4. QED
    BY <2>2, <2>3
<1>3. Stored(k) => row # NoRow
  BY <1>2 DEF NoRow
<1>4. QED
  BY <1>1, <1>2, <1>3

LEMMA TimelyOrphan ==
  ASSUME TypeOK, TimelyInv, NEW h \in Handler, MarkOrphan(h)
  PROVE  TimelyInv'
<1> DEFINE k == handler[h].job
<1>1. IsBusy(h) /\ k \in Job /\ UNCHANGED <<proc, task>>
  BY AtIsBusy, BusyTypes DEF MarkOrphan
<1>2. Lost(k)
  BY DEF MarkOrphan, TimelyInv, StaleIsOver, Stale
<1>3. MovesOn(h) /\ handler'[h].pc \in {"idle", "reread"}
  BY <1>1, Moves DEF MarkOrphan
<1>4. UpdateJob(k, AsFailed(k, "orphaned", 0))
  BY DEF MarkOrphan
<1>5. \A j \in Job : j # k => table'[j] = table[j]
  BY <1>1, <1>4, CloseIs
<1>6. \/ table'[k] = table[k]
      \/ table'[k] # NoRow /\ table'[k].status = "failed" /\ table'[k].heartbeat = table[k].heartbeat
  BY <1>1, <1>4, CloseIs
<1>7. table'[k] # NoRow => Stored(k)
  BY <1>1, <1>4, CloseIs DEF Stored
<1>8. \A g \in Handler : At(g, "cancelled") \/ At(g, "enqueue") => handler[g].job # k
  BY <1>2 DEF Lost, Submitting, At
<1>9. PICK j \in Job : j = k
  BY <1>1
<1>10. QED
  BY <1>1, <1>2, <1>3, <1>5, <1>6, <1>7, <1>8, <1>9, TimelyClose DEF Lost, Stored

LEMMA TimelyWriteCancelled ==
  ASSUME TypeOK, CancelInv, TimelyInv, NEW h \in Handler, WriteCancelled(h)
  PROVE  TimelyInv'
<1> DEFINE k == handler[h].job
<1>1. IsBusy(h) /\ k \in Job /\ UNCHANGED <<proc, task>> /\ At(h, "cancelled")
  BY AtIsBusy, BusyTypes DEF WriteCancelled
<1>2. task[k].pc = "none"
  BY <1>1 DEF CancelInv, ClosingIsOver
<1>3. MovesOn(h) /\ handler'[h].pc = "idle"
  BY <1>1, Moves DEF WriteCancelled
<1>4. UpdateJob(k, WithStatus(k, "cancelled"))
  BY DEF WriteCancelled
<1>5. \A j \in Job : j # k => table'[j] = table[j]
  BY <1>1, <1>4, CloseIs
<1>6. \/ table'[k] = table[k]
      \/ table'[k] # NoRow /\ table'[k].status = "cancelled" /\ table'[k].heartbeat = table[k].heartbeat
  BY <1>1, <1>4, CloseIs
<1>7. table'[k] # NoRow => Stored(k)
  BY <1>1, <1>4, CloseIs DEF Stored
<1>8. \A g \in Handler : g # h /\ (At(g, "cancelled") \/ At(g, "enqueue")) => handler[g].job # k
  BY <1>1 DEF TimelyInv, ClosingIsActive, CancelInv, SubmissionIsNew, Submitting, At
<1>9. \A g \in Handler : Stale(g) => handler[g].job # k
  BY <1>1 DEF TimelyInv, StaleIsOver, Lost
<1>10. PICK j \in Job : j = k
  BY <1>1
<1>11. QED
  BY <1>1, <1>2, <1>3, <1>5, <1>6, <1>7, <1>8, <1>9, <1>10, TimelyClose DEF Stored

(* future.cancel(): who withdraws a future finds its record open. *)
LEMMA TimelyCancelFuture ==
  ASSUME TypeOK, CancelInv, HandleInv, TimelyInv, NEW h \in Handler, CancelFuture(h)
  PROVE  TimelyInv'
<1> DEFINE k == handler[h].job
           q == handler[h].proc
<1> USE DEF At
<1>1. IsBusy(h) /\ k \in Job /\ q \in Process /\ At(h, "future") /\ UNCHANGED <<table, proc>>
  BY AtIsBusy, BusyTypes DEF CancelFuture
<1>2. CASE ~(k \in futures[q] /\ task[k].pc \in {"pending", "dropped"})
  BY <1>1, <1>2, TimelyMoves DEF CancelFuture
<1>3. CASE k \in futures[q] /\ task[k].pc \in {"pending", "dropped"}
  <2>1. task' = [task EXCEPT ![k] = NoTask] /\ Goto(h, "cancelled")
    BY <1>3 DEF CancelFuture
  <2>2. task'[k] = NoTask /\ \A j \in Job : j # k => task'[j] = task[j]
    BY <1>1, <2>1 DEF TypeOK
  <2>3. HasTask(k) /\ task[k].host = q /\ HostBusy(k)
    BY <1>1, <1>3 DEF HasTask, NoTask, HandleInv, HandleIsSound, HostBusy
  <2>4. Stored(k) => Active(k) /\ table[k].heartbeat < Timeout
    <3>1. ASSUME Stored(k), task[k].pc = "pending"
          PROVE  Active(k)
      BY <1>1, <3>1 DEF TimelyInv, StatusFollowsTask, Active, ACTIVE_STATUSES
    <3>2. ASSUME Stored(k), task[k].pc = "dropped"
          PROVE  Active(k)
      BY <1>1, <2>3, <3>2
         DEF TimelyInv, DroppedIsStopping, Active, Settled, ACTIVE_STATUSES, Stored, TypeOK, Row
    <3>3. QED
      BY <1>1, <1>3, <2>3, <3>1, <3>2 DEF TimelyInv, WorkIsBeating
  <2>5. \A g \in Handler : At(g, "cancelled") \/ Stale(g) => handler[g].job # k
    BY <1>1, <1>3, <2>3 DEF CancelInv, ClosingIsOver, TimelyInv, StaleIsOver, Lost, HasTask, NoTask
  <2>6. \A g \in Handler : Submitting(g) => handler[g].job # k
    BY <1>3 DEF CancelInv, SubmissionIsNew
  <2>7. /\ MovesOn(h) /\ handler'[h].pc = "cancelled" /\ handler'[h].job = k
        /\ \A g \in Handler : g # h => handler'[g] = handler[g]
    BY <1>1, <2>1, Moves, GotoIs DEF MovesOn
  <2>8. \A j \in Job : j # k => (HostBusy(j)' => HostBusy(j))
    BY <2>2, <2>7 DEF MovesOn, HostBusy, IsBusy
  <2>9. StatusFollowsTask'
    BY <1>1, <2>2 DEF TimelyInv, StatusFollowsTask, Live, Stored, NoTask
  <2>10. SubmittedIsQueued'
    BY <1>1, <2>7 DEF TimelyInv, SubmittedIsQueued
  <2>11. ClosingIsActive'
    BY <1>1, <2>4, <2>5, <2>7 DEF TimelyInv, ClosingIsActive, Stored, Active
  <2>12. WorkIsBeating' /\ DroppedIsStopping'
    BY <1>1, <2>2, <2>8
       DEF TimelyInv, WorkIsBeating, DroppedIsStopping, HasTask, NoTask, Stored, Settled
  <2>13. VictimIsOver'
    <3>1. SUFFICES ASSUME NEW g \in Handler, At(g, "delete")', NEW v \in handler'[g].victims
                   PROVE  /\ ~Stored(v) \/ Settled(v)
                          /\ task'[v].pc \in {"none", "dropped", "fail", "discard"}
                          /\ \A f \in Handler : Submitting(f)' => handler'[f].job # v
      BY <1>1 DEF VictimIsOver, Stored, Settled
    <3>2. At(g, "delete") /\ handler'[g] = handler[g] /\ v \in Job
      BY <2>7, <3>1, AtIsBusy, BusyTypes
    <3>3. QED
      BY <2>2, <2>7, <3>1, <3>2 DEF TimelyInv, VictimIsOver, Submitting, NoTask
  <2>14. StaleIsOver'
    <3>1. SUFFICES ASSUME NEW g \in Handler, Stale(g)'
                   PROVE  Lost(handler[g].job)'
      BY DEF StaleIsOver
    <3>2. Stale(g) /\ handler'[g] = handler[g] /\ handler[g].job \in Job /\ handler[g].job # k
      BY <2>5, <2>7, <3>1, AtIsBusy, BusyTypes DEF Stale
    <3>3. Lost(handler[g].job)
      BY <3>2 DEF TimelyInv, StaleIsOver
    <3>4. QED
      BY <1>1, <2>2, <2>7, <2>8, <3>2, <3>3 DEF Lost, Submitting
  <2>15. QED
    BY <2>9, <2>10, <2>11, <2>12, <2>13, <2>14 DEF TimelyInv
<1>4. QED
  BY <1>2, <1>3

LEMMA TimelyHandler ==
  ASSUME TypeOK, CancelInv, HandleInv, TimelyInv, NEW h \in Handler, HandlerStep(h)
  PROVE  TimelyInv'
BY TimelySelect, TimelyDelete, TimelyInsert, TimelyEnqueue, TimelyCheck, TimelyOrphan, TimelyFlag,
   TimelyCancelFuture, TimelyWriteCancelled
   DEF HandlerStep

LEMMA TimelyStoreError ==
  ASSUME TypeOK, TimelyInv, NEW h \in Handler, RequestStoreError(h)
  PROVE  TimelyInv'
<1>1. IsBusy(h) /\ Answer(h) /\ UNCHANGED <<table, proc, task>>
  BY DEF RequestStoreError, IsBusy, Idle, HandlerPCs
<1>2. QED
  BY <1>1, TimelyMoves

----------------------------------------------------------------------------
(* A step of a pool thread: no request has anything to do with its job. *)
LEMMA TimelyRunner ==
  ASSUME TypeOK, CancelInv, TimelyInv, NEW k \in Job,
         Take(k) \/ RunnerStep(k) \/ RunnerStoreError(k) \/ RunnerRereadError(k)
  PROVE  TimelyInv'
<1> USE DEF At
<1> DEFINE Steps == RunLoad(k) \/ RunCancelEarly(k) \/ RunStart(k) \/ RunCompute(k)
                      \/ RunFinish(k) \/ RunDiscard(k) \/ Take(k) \/ RunnerStoreError(k)
                      \/ RunnerRereadError(k)
<1>1. Steps
  BY DEF RunnerStep
<1>2. UNCHANGED <<handler, proc>> /\ HasTask(k) /\ task[k].pc \notin {"none", "dropped"}
  BY <1>1 DEF RunLoad, RunCancelEarly, RunStart, RunCompute, RunFinish, RunDiscard, Take,
              RunnerStoreError, RunnerRereadError, HasTask, NoTask
<1>3. \A j \in Job : j # k => table'[j] = table[j] /\ task'[j] = task[j]
  BY <1>1 DEF RunLoad, RunCancelEarly, RunStart, RunCompute, RunFinish, RunDiscard, Take,
              RunnerStoreError, RunnerRereadError, TypeOK, Finish, Step, UpdateJob
<1>4. task[k] \in [pc: {"pending", "dropped"} \cup Running, host: Process]
  BY <1>2 DEF TypeOK, Task, HasTask
<1>5. ASSUME NEW pc, Step(k, pc)
      PROVE  task'[k].pc = pc /\ task'[k].host = task[k].host
  <2>1. task'[k] = [task[k] EXCEPT !.pc = pc]
    BY <1>5 DEF Step, TypeOK
  <2>2. QED
    BY <1>4, <2>1
<1>6. Finish(k) => task'[k] = NoTask
  BY DEF Finish, TypeOK
<1>7. /\ ~Stored(k) => table'[k] = table[k]
      /\ Stored(k) => table'[k] # NoRow /\ table'[k].heartbeat = table[k].heartbeat
  <2>1. CASE RunCancelEarly(k) \/ RunStart(k) \/ RunFinish(k) \/ RunnerRereadError(k)
    BY <2>1, CloseIs DEF RunCancelEarly, RunStart, RunFinish, RunnerRereadError
  <2>2. CASE RunLoad(k) \/ RunCompute(k) \/ RunDiscard(k) \/ Take(k) \/ RunnerStoreError(k)
    BY <2>2 DEF RunLoad, RunCompute, RunDiscard, Take, RunnerStoreError, Stored
  <2>3. QED
    BY <1>1, <2>1, <2>2
<1>8. /\ task'[k] = NoTask \/ (task'[k].host = task[k].host /\ task'[k].pc # "dropped")
      /\ task'[k].pc \in {"load", "start", "compute"} => Stored(k)
      /\ task'[k].pc # "pending"
      /\ task'[k].pc \in {"load", "cancelEarly", "start"} /\ Stored(k) => table'[k].status = "queued"
      /\ task'[k].pc \in {"compute", "succeed", "cancel"} /\ Stored(k)
           => table'[k].status = "running"
      /\ task'[k].pc = "fail" /\ Stored(k)
           => \/ table'[k].status = "running"
              \/ StoreErrors /\ table'[k].status \in {"succeeded", "cancelled"}
  <2>1. CASE Take(k)
    <3>1. Step(k, "load") /\ UNCHANGED table
      BY <2>1 DEF Take, Step
    <3>2. QED
      BY <1>5, <2>1, <3>1 DEF Take, TimelyInv, StatusFollowsTask, Live
  <2>2. CASE RunLoad(k)
    <3>1. UNCHANGED table /\ \/ Finish(k)
                             \/ Stored(k) /\ \E pc \in {"cancelEarly", "start"} : Step(k, pc)
      BY <2>2 DEF RunLoad
    <3>2. QED
      BY <1>5, <1>6, <2>2, <3>1 DEF RunLoad, TimelyInv, StatusFollowsTask, NoTask
  <2>3. CASE RunCancelEarly(k) \/ RunDiscard(k)
    BY <1>6, <2>3 DEF RunCancelEarly, RunDiscard, NoTask
  <2>4. CASE RunStart(k)
    <3>1. Stored(k) /\ table'[k].status = "running"
      BY <2>4, CloseIs DEF RunStart, TimelyInv, StatusFollowsTask, Live
    <3>2. QED
      BY <1>5, <2>4, <3>1 DEF RunStart
  <2>5. CASE RunCompute(k)
    <3>1. UNCHANGED table /\ \E pc \in {"cancel", "succeed", "fail"} : Step(k, pc)
      BY <2>5 DEF RunCompute
    <3>2. QED
      BY <1>5, <2>5, <3>1 DEF RunCompute, TimelyInv, StatusFollowsTask
  <2>6. CASE RunFinish(k)
    BY <1>5, <2>6 DEF RunFinish
  <2>7. CASE RunnerStoreError(k)
    <3>1. UNCHANGED table /\ \/ Finish(k)
                             \/ task[k].pc \in {"succeed", "cancel"} /\ Step(k, "fail")
                             \/ Step(k, "discard")
      BY <2>7 DEF RunnerStoreError
    <3>2. QED
      BY <1>5, <1>6, <3>1 DEF TimelyInv, StatusFollowsTask, NoTask
  <2>8. CASE RunnerRereadError(k)
    <3>1. StoreErrors /\ \/ Finish(k)
                         \/ /\ Step(k, "fail")
                            /\ \E s \in {"succeeded", "cancelled"} : UpdateJob(k, WithStatus(k, s))
      BY <2>8 DEF RunnerRereadError
    <3>2. Step(k, "fail") /\ Stored(k) => table'[k].status \in {"succeeded", "cancelled"}
      BY <2>8, CloseIs DEF RunnerRereadError, Step, Finish, TypeOK, NoTask
    <3>3. QED
      BY <1>5, <1>6, <3>1, <3>2 DEF NoTask
  <2>9. QED
    BY <1>1, <2>1, <2>2, <2>3, <2>4, <2>5, <2>6, <2>7, <2>8
<1>9. /\ \A g \in Handler : Submitting(g) \/ At(g, "cancelled") \/ Stale(g) => handler[g].job # k
      /\ \A g \in Handler : Submitting(g) \/ At(g, "cancelled") \/ Stale(g) => handler[g].job \in Job
  BY <1>2, BusyTypes
     DEF CancelInv, ClosingIsOver, SubmissionIsNew, TimelyInv, StaleIsOver, Lost, Submitting, Stale,
         IsBusy, Idle
<1>10. \A j \in Job : j # k => (HostBusy(j)' => HostBusy(j))
  BY <1>2, <1>3 DEF HostBusy, IsBusy
<1>11. StatusFollowsTask'
  BY <1>3, <1>7, <1>8 DEF TimelyInv, StatusFollowsTask, Live, Stored, NoTask
<1>12. SubmittedIsQueued' /\ ClosingIsActive'
  BY <1>2, <1>3, <1>9 DEF TimelyInv, SubmittedIsQueued, ClosingIsActive, Stored, Active, Submitting
<1>13. WorkIsBeating' /\ DroppedIsStopping'
  BY <1>2, <1>3, <1>7, <1>8, <1>10
     DEF TimelyInv, WorkIsBeating, DroppedIsStopping, HasTask, NoTask, Stored, Settled
<1>14. VictimIsOver'
  <2>1. SUFFICES ASSUME NEW g \in Handler, At(g, "delete"), NEW v \in handler[g].victims
                 PROVE  /\ ~Stored(v)' \/ Settled(v)'
                        /\ task'[v].pc \in {"none", "dropped", "fail", "discard"}
                        /\ \A f \in Handler : Submitting(f) => handler[f].job # v
    BY <1>2 DEF VictimIsOver, Submitting
  <2>2. v \in Job
    BY <2>1, AtIsBusy, BusyTypes
  <2>3. CASE v # k
    BY <1>3, <2>1, <2>2, <2>3 DEF TimelyInv, VictimIsOver, Stored, Settled
  <2>4. CASE v = k
    <3>1. task[k].pc \in {"discard", "fail"} /\ (~Stored(k) \/ Settled(k))
      BY <1>2, <2>1, <2>4 DEF TimelyInv, VictimIsOver
    <3>2. CASE RunFinish(k)
      <4>1. UpdateJob(k, AsFailed(k, "job", 0)) /\ Step(k, "discard")
        BY <3>1, <3>2 DEF RunFinish
      <4>2. task'[k].pc = "discard"
        BY <1>5, <4>1
      <4>3. Stored(k) => table'[k].status = "failed"
        BY <4>1, CloseIs
      <4>4. QED
        BY <1>7, <2>1, <2>4, <4>2, <4>3 DEF TimelyInv, VictimIsOver, Stored, Settled, Terminal
    <3>3. CASE ~RunFinish(k)
      <4>1. (Finish(k) \/ Step(k, "discard")) /\ UNCHANGED table
        BY <1>1, <3>1, <3>3 DEF RunLoad, RunCancelEarly, RunStart, RunCompute, RunDiscard, Take,
                                RunnerStoreError, RunnerRereadError
      <4>2. task'[k].pc \in {"none", "discard"}
        BY <1>5, <1>6, <4>1 DEF NoTask
      <4>3. QED
        BY <2>1, <2>4, <4>1, <4>2 DEF TimelyInv, VictimIsOver, Stored, Settled
    <3>4. QED
      BY <3>2, <3>3
  <2>5. QED
    BY <2>3, <2>4
<1>15. StaleIsOver'
  <2>1. SUFFICES ASSUME NEW g \in Handler, Stale(g)
                 PROVE  Lost(handler[g].job)'
    BY <1>2 DEF StaleIsOver, Stale
  <2>2. Lost(handler[g].job)
    BY <2>1 DEF TimelyInv, StaleIsOver
  <2>3. QED
    BY <1>2, <1>3, <1>9, <1>10, <2>1, <2>2 DEF Lost, Submitting
<1>16. QED
  BY <1>11, <1>12, <1>13, <1>14, <1>15 DEF TimelyInv

----------------------------------------------------------------------------
(* Processes come and go. *)
LEMMA TimelyStart ==
  ASSUME TypeOK, CancelInv, TimelyInv, NEW q \in Process, StartRuntime(q)
  PROVE  TimelyInv'
<1> USE DEF At
<1>1. UNCHANGED <<futures, task, handler>>
  BY DEF StartRuntime
<1>2. proc[q] = "down" /\ \A p \in Process : p # q => proc'[p] = proc[p]
  BY DEF StartRuntime, TypeOK
<1>3. \A j \in Job : \/ table'[j] = table[j]
                     \/ Active(j) /\ table[j].heartbeat > Timeout
                        /\ table'[j] = AsFailed(j, "orphaned", Timeout)
  BY DEF StartRuntime
<1>4. ASSUME NEW j \in Job
      PROVE  \/ table'[j] = table[j]
             \/ /\ Stored(j) /\ Active(j) /\ ~(table[j].heartbeat < Timeout)
                /\ table'[j] # NoRow /\ table'[j].status = "failed"
                /\ table'[j].heartbeat = table[j].heartbeat
  <2>1. SUFFICES ASSUME Active(j), table[j].heartbeat > Timeout,
                        table'[j] = AsFailed(j, "orphaned", Timeout)
                 PROVE  /\ Stored(j) /\ ~(table[j].heartbeat < Timeout)
                        /\ table'[j] # NoRow /\ table'[j].status = "failed"
                        /\ table'[j].heartbeat = table[j].heartbeat
    BY <1>3
  <2>2. Stored(j) /\ table[j] \in Row
    BY <2>1 DEF Active, ACTIVE_STATUSES, Stored, NoRow, TypeOK
  <2>3. table[j].heartbeat \in Nat /\ Timeout \in Nat
    BY <2>2 DEF Row, Age, MaxAge
  <2>4. table'[j].status = "failed" /\ table'[j].heartbeat = table[j].heartbeat
    BY <2>1, <2>2 DEF AsFailed, Row
  <2>5. QED
    BY <2>1, <2>2, <2>3, <2>4 DEF NoRow
<1>5. \A j \in Job : table'[j] # table[j] =>
        task[j].pc \in {"none", "dropped"} /\ (task[j].pc = "dropped" => ~HostBusy(j))
  BY <1>4 DEF TimelyInv, WorkIsBeating, HasTask, NoTask
<1>6. \A g \in Handler : Submitting(g) \/ At(g, "cancelled") \/ Stale(g) \/ At(g, "delete")
                           => handler[g].job \in Job
  BY BusyTypes DEF Submitting, Stale, IsBusy, Idle
<1>7. StatusFollowsTask'
  BY <1>1, <1>4, <1>5 DEF TimelyInv, StatusFollowsTask, Live, Stored
<1>8. SubmittedIsQueued' /\ ClosingIsActive'
  BY <1>1, <1>4, <1>6 DEF TimelyInv, SubmittedIsQueued, ClosingIsActive, Stored, Active, Submitting
<1>9. WorkIsBeating'
  BY <1>1, <1>4 DEF TimelyInv, WorkIsBeating, HasTask, Stored, HostBusy, IsBusy
<1>10. DroppedIsStopping'
  <2>1. SUFFICES ASSUME NEW j \in Job, task[j].pc = "dropped"
                 PROVE  proc'[task[j].host] = "stopping" /\ (Settled(j)' => ~HostBusy(j))
    BY <1>1 DEF DroppedIsStopping, HostBusy, IsBusy
  <2>2. task[j].host \in Process
    BY <2>1 DEF TypeOK, Task, NoTask
  <2>3. QED
    BY <1>2, <1>5, <2>1, <2>2 DEF TimelyInv, DroppedIsStopping, Settled
<1>11. VictimIsOver'
  <2>1. SUFFICES ASSUME NEW g \in Handler, At(g, "delete"), NEW v \in handler[g].victims
                 PROVE  /\ ~Stored(v)' \/ Settled(v)'
                        /\ task[v].pc \in {"none", "dropped", "fail", "discard"}
                        /\ \A f \in Handler : Submitting(f) => handler[f].job # v
    BY <1>1 DEF VictimIsOver, Submitting
  <2>2. v \in Job
    BY <2>1, AtIsBusy, BusyTypes
  <2>3. QED
    BY <1>4, <2>1, <2>2 DEF TimelyInv, VictimIsOver, Stored, Settled, Terminal
<1>12. StaleIsOver'
  BY <1>1, <1>4, <1>6 DEF TimelyInv, StaleIsOver, Stale, Lost, HostBusy, IsBusy, Submitting
<1>13. QED
  BY <1>7, <1>8, <1>9, <1>10, <1>11, <1>12 DEF TimelyInv

LEMMA TimelyShutdown ==
  ASSUME TypeOK, TimelyInv, NEW q \in Process, Shutdown(q)
  PROVE  TimelyInv'
<1> USE DEF At
<1>1. UNCHANGED <<table, futures, handler>>
  BY DEF Shutdown
<1>2. proc'[q] = "stopping" /\ \A p \in Process : p # q => proc'[p] = proc[p]
  BY DEF Shutdown, TypeOK
<1>3. ASSUME NEW j \in Job
      PROVE  \/ task'[j] = task[j]
             \/ /\ task[j].pc = "pending" /\ task'[j].pc = "dropped" /\ HasTask(j)
                /\ task[j].host = q /\ task'[j].host = q
  <2>1. CASE j \in On(q, {"pending"})
    <3>1. task'[j] = [task[j] EXCEPT !.pc = "dropped"]
      BY <2>1 DEF Shutdown
    <3>2. task[j] \in [pc: {"pending", "dropped"} \cup Running, host: Process]
      BY <2>1 DEF On, HasTask, TypeOK, Task
    <3>3. QED
      BY <2>1, <3>1, <3>2 DEF On
  <2>2. CASE j \notin On(q, {"pending"})
    BY <2>2 DEF Shutdown
  <2>3. QED
    BY <2>1, <2>2
<1>4. \A j \in Job : task'[j] = task[j] => (HostBusy(j)' <=> HostBusy(j))
  BY <1>1 DEF HostBusy, IsBusy
<1>5. StatusFollowsTask'
  BY <1>1, <1>3 DEF TimelyInv, StatusFollowsTask, Live, Stored
<1>6. SubmittedIsQueued' /\ ClosingIsActive'
  BY <1>1 DEF TimelyInv, SubmittedIsQueued, ClosingIsActive, Stored, Active
<1>7. WorkIsBeating'
  BY <1>1, <1>3, <1>4 DEF TimelyInv, WorkIsBeating, HasTask, Stored
<1>8. DroppedIsStopping'
  <2>1. SUFFICES ASSUME NEW j \in Job, task'[j].pc = "dropped"
                 PROVE  proc'[task'[j].host] = "stopping" /\ (Settled(j) => ~HostBusy(j)')
    BY <1>1 DEF DroppedIsStopping, Settled
  <2>2. CASE task'[j] = task[j]
    <3>1. task[j].host \in Process
      BY <2>1, <2>2 DEF TypeOK, Task, NoTask
    <3>2. QED
      BY <1>2, <1>4, <2>1, <2>2, <3>1 DEF TimelyInv, DroppedIsStopping
  <2>3. CASE task'[j] # task[j]
    <3>1. task[j].pc = "pending" /\ task'[j].host = q
      BY <1>3, <2>3
    <3>2. ~Settled(j)
      BY <3>1 DEF TimelyInv, StatusFollowsTask, Settled, Stored, NoRow, Terminal
    <3>3. QED
      BY <1>2, <3>1, <3>2
  <2>4. QED
    BY <2>2, <2>3
<1>9. VictimIsOver'
  <2>1. SUFFICES ASSUME NEW g \in Handler, At(g, "delete"), NEW v \in handler[g].victims
                 PROVE  /\ ~Stored(v) \/ Settled(v)
                        /\ task'[v].pc \in {"none", "dropped", "fail", "discard"}
                        /\ \A f \in Handler : Submitting(f) => handler[f].job # v
    BY <1>1 DEF VictimIsOver, Submitting, Stored, Settled
  <2>2. v \in Job
    BY <2>1, AtIsBusy, BusyTypes
  <2>3. QED
    BY <1>3, <2>1, <2>2 DEF TimelyInv, VictimIsOver
<1>10. StaleIsOver'
  <2>1. SUFFICES ASSUME NEW g \in Handler, Stale(g)
                 PROVE  Lost(handler[g].job)'
    BY <1>1 DEF StaleIsOver, Stale
  <2>2. Lost(handler[g].job) /\ handler[g].job \in Job
    BY <2>1, BusyTypes DEF TimelyInv, StaleIsOver, Stale, IsBusy, Idle
  <2>3. task'[handler[g].job] = task[handler[g].job]
    BY <1>3, <2>2 DEF Lost
  <2>4. QED
    BY <1>1, <1>4, <2>2, <2>3 DEF Lost, Submitting
<1>11. QED
  BY <1>5, <1>6, <1>7, <1>8, <1>9, <1>10 DEF TimelyInv

(* A process ends, in order or not. *)
LEMMA TimelyEnd ==
  ASSUME TypeOK, TimelyInv, NEW q \in Process, FinishShutdown(q) \/ Crash(q)
  PROVE  TimelyInv'
<1> USE DEF At
<1>1. UNCHANGED table /\ task' = WithoutTasks(q) /\ handler' = WithoutHandlers(q)
  BY DEF FinishShutdown, Crash
<1>2. \A p \in Process : p # q => proc'[p] = proc[p]
  BY DEF FinishShutdown, Crash, TypeOK
<1>3. \A j \in Job : task'[j] = NoTask \/ (task'[j] = task[j] /\ (HasTask(j) => task[j].host # q))
  BY <1>1 DEF WithoutTasks, HasTask
<1>4. \A g \in Handler : handler'[g] = Idle \/ handler'[g] = handler[g]
  BY <1>1 DEF WithoutHandlers
<1>5. /\ \A j \in Job : task'[j] = task[j] => (HostBusy(j)' => HostBusy(j))
      /\ \A g \in Handler : Submitting(g)' \/ At(g, "cancelled")' \/ Stale(g)' \/ At(g, "delete")'
                              => handler'[g] = handler[g]
  BY <1>4 DEF HostBusy, IsBusy, Submitting, Stale, Idle
<1>6. StatusFollowsTask'
  BY <1>1, <1>3 DEF TimelyInv, StatusFollowsTask, Live, Stored, NoTask
<1>7. SubmittedIsQueued' /\ ClosingIsActive'
  BY <1>1, <1>4 DEF TimelyInv, SubmittedIsQueued, ClosingIsActive, Stored, Active, Idle
<1>8. WorkIsBeating'
  BY <1>1, <1>3, <1>5 DEF TimelyInv, WorkIsBeating, HasTask, Stored
<1>9. DroppedIsStopping'
  <2>1. SUFFICES ASSUME NEW j \in Job, task'[j].pc = "dropped"
                 PROVE  proc'[task'[j].host] = "stopping" /\ (Settled(j) => ~HostBusy(j)')
    BY <1>1 DEF DroppedIsStopping, Settled
  <2>2. task'[j] = task[j] /\ HasTask(j) /\ task[j].host # q /\ task[j].host \in Process
    BY <1>3, <2>1 DEF NoTask, HasTask, TypeOK, Task
  <2>3. QED
    BY <1>2, <1>5, <2>1, <2>2 DEF TimelyInv, DroppedIsStopping
<1>10. VictimIsOver'
  <2>1. SUFFICES ASSUME NEW g \in Handler, At(g, "delete")', NEW v \in handler'[g].victims
                 PROVE  /\ ~Stored(v) \/ Settled(v)
                        /\ task'[v].pc \in {"none", "dropped", "fail", "discard"}
                        /\ \A f \in Handler : Submitting(f)' => handler'[f].job # v
    BY <1>1 DEF VictimIsOver, Stored, Settled
  <2>2. At(g, "delete") /\ handler'[g] = handler[g] /\ v \in Job
    BY <1>5, <2>1, AtIsBusy, BusyTypes
  <2>3. QED
    BY <1>3, <1>5, <2>1, <2>2 DEF TimelyInv, VictimIsOver, Submitting, NoTask
<1>11. StaleIsOver'
  <2>1. SUFFICES ASSUME NEW g \in Handler, Stale(g)'
                 PROVE  Lost(handler[g].job)'
    BY DEF StaleIsOver
  <2>2. Stale(g) /\ handler'[g] = handler[g] /\ handler[g].job \in Job
    BY <1>5, <2>1, BusyTypes DEF Stale, IsBusy, Idle
  <2>3. Lost(handler[g].job)
    BY <2>2 DEF TimelyInv, StaleIsOver
  <2>4. QED
    BY <1>1, <1>3, <1>5, <2>2, <2>3 DEF Lost, Submitting, NoTask
<1>12. QED
  BY <1>6, <1>7, <1>8, <1>9, <1>10, <1>11 DEF TimelyInv

----------------------------------------------------------------------------
(* Time. *)
LEMMA TimelyHeartbeat ==
  ASSUME TypeOK, TimelyInv, NEW p \in Process, NEW k \in Job, Heartbeat(p, k)
  PROVE  TimelyInv'
<1> USE DEF At
<1>1. UNCHANGED <<proc, futures, task, handler>> /\ Stored(k) /\ table[k] \in Row
  BY DEF Heartbeat, Stored, TypeOK
<1>2. table'[k] = [table[k] EXCEPT !.heartbeat = 0] /\ \A j \in Job : j # k => table'[j] = table[j]
  BY DEF Heartbeat, TypeOK
<1>3. table'[k].heartbeat = 0 /\ table'[k].status = table[k].status
  BY <1>1, <1>2 DEF Row
<1>4. table'[k] # NoRow
  BY <1>1, <1>3 DEF Row, NoRow, ACTIVE_STATUSES, Terminal
<1>a. table'[k].heartbeat < Timeout
  BY <1>3
<1>5. ASSUME NEW j \in Job
      PROVE  /\ table'[j].status = table[j].status
             /\ Stored(j)' <=> Stored(j)
             /\ table[j].heartbeat < Timeout => table'[j].heartbeat < Timeout
  BY <1>1, <1>2, <1>3, <1>4, <1>a DEF Stored
<1>6. \A g \in Handler : Submitting(g) \/ At(g, "cancelled") \/ Stale(g) => handler[g].job \in Job
  BY BusyTypes DEF Submitting, Stale, IsBusy, Idle
<1>7. StatusFollowsTask' /\ SubmittedIsQueued' /\ ClosingIsActive'
  BY <1>1, <1>5, <1>6
     DEF TimelyInv, StatusFollowsTask, SubmittedIsQueued, ClosingIsActive, Live, Active, Submitting
<1>8. WorkIsBeating' /\ DroppedIsStopping'
  BY <1>1, <1>5 DEF TimelyInv, WorkIsBeating, DroppedIsStopping, HasTask, HostBusy, IsBusy, Settled
<1>9. VictimIsOver'
  <2>1. \A g \in Handler : At(g, "delete") => handler[g].victims \subseteq Job
    BY AtIsBusy, BusyTypes
  <2>2. QED
    BY <1>1, <1>5, <2>1 DEF TimelyInv, VictimIsOver, Settled, Submitting
<1>10. StaleIsOver'
  BY <1>1, <1>5, <1>6 DEF TimelyInv, StaleIsOver, Stale, Lost, HostBusy, IsBusy, Submitting
<1>11. QED
  BY <1>7, <1>8, <1>9, <1>10 DEF TimelyInv

(* A tick finds no request under way and every live job's heartbeat young. *)
LEMMA TimelyTick ==
  ASSUME Timely, TypeOK, TimelyInv, Tick
  PROVE  TimelyInv'
<1>1. KeptUp /\ UNCHANGED <<proc, futures, task>>
  BY DEF Tick
<1>2. \A g \in Handler : ~IsBusy(g)
  BY <1>1 DEF KeptUp
<1>3. \A g \in Handler : handler'[g] = Idle
  BY <1>2 DEF Tick, IsBusy
<1>4. \A g \in Handler : ~Submitting(g)' /\ ~Stale(g)' /\ ~IsBusy(g)' /\ ~At(g, "delete")'
                          /\ ~At(g, "cancelled")' /\ ~At(g, "enqueue")'
  BY <1>3 DEF Submitting, Stale, IsBusy, At, Idle
<1>5. ASSUME NEW j \in Job
      PROVE  /\ table'[j].status = table[j].status
             /\ Stored(j)' => Stored(j)
             /\ Stored(j) => Stored(j)' /\ table'[j].heartbeat = Older(table[j].heartbeat)
                             /\ table[j].heartbeat \in 0 .. Timeout + 1
  <2>1. CASE Stored(j)
    <3>1. table[j] \in Row
      BY <2>1 DEF Stored, TypeOK
    <3>2. table'[j].status = table[j].status /\ table'[j].heartbeat = Older(table[j].heartbeat)
      BY <2>1, <3>1 DEF Tick, Row
    <3>3. table'[j] # NoRow
      BY <3>1, <3>2 DEF Row, NoRow, ACTIVE_STATUSES, Terminal
    <3>4. QED
      BY <2>1, <3>1, <3>2, <3>3 DEF Stored, Row, Age, MaxAge
  <2>2. CASE ~Stored(j)
    BY <2>2 DEF Tick, Stored
  <2>3. QED
    BY <2>1, <2>2
<1>6. StatusFollowsTask'
  BY <1>1, <1>5 DEF TimelyInv, StatusFollowsTask, Live
<1>7. SubmittedIsQueued' /\ ClosingIsActive' /\ VictimIsOver' /\ StaleIsOver'
  BY <1>4 DEF SubmittedIsQueued, ClosingIsActive, VictimIsOver, StaleIsOver
<1>8. WorkIsBeating'
  <2>1. SUFFICES ASSUME NEW j \in Job, HasTask(j), Stored(j), task[j].pc # "dropped"
                 PROVE  table'[j].heartbeat < Timeout
    BY <1>1, <1>4, <1>5 DEF WorkIsBeating, HasTask, HostBusy
  <2>2. table[j].heartbeat + 1 < Timeout
    BY <1>1, <2>1 DEF KeptUp
  <2>3. QED
    BY <1>5, <2>1, <2>2 DEF Older, MaxAge
<1>9. DroppedIsStopping'
  BY <1>1, <1>4 DEF TimelyInv, DroppedIsStopping, HostBusy
<1>10. QED
  BY <1>6, <1>7, <1>8, <1>9 DEF TimelyInv

----------------------------------------------------------------------------
(* The invariant holds in every state. *)
LEMMA TimelyInvNext ==
  ASSUME Timely
  PROVE  TypeOK /\ CancelInv /\ HandleInv /\ TimelyInv /\ [Next]_vars => TimelyInv'
<1> SUFFICES ASSUME TypeOK, CancelInv, HandleInv, TimelyInv, [Next]_vars
             PROVE  TimelyInv'
  OBVIOUS
<1>1. CASE UNCHANGED vars
  BY <1>1 DEF vars, TimelyInv, StatusFollowsTask, SubmittedIsQueued, ClosingIsActive, HostBusy,
              WorkIsBeating, DroppedIsStopping, VictimIsOver, StaleIsOver, Stale, Lost, Live,
              Stored, Active, Settled, HasTask, IsBusy, At, Submitting
<1>2. CASE Next
  BY <1>2, TimelyRequest, TimelyHandler, TimelyStoreError, TimelyRunner, TimelyStart,
     TimelyShutdown, TimelyEnd, TimelyHeartbeat, TimelyTick DEF Next
<1>3. QED
  BY <1>1, <1>2

LEMMA TimelyInvInit == Init => TimelyInv
BY DEF Init, TimelyInv, StatusFollowsTask, SubmittedIsQueued, ClosingIsActive, WorkIsBeating,
       DroppedIsStopping, VictimIsOver, StaleIsOver, Stale, Live, Stored, HasTask, At, NoTask, Idle

LEMMA TimelyInvAlways ==
  ASSUME Timely
  PROVE  Spec => []TimelyInv
BY TimelyInvInit, TimelyInvNext, TypeCorrect, CancelInvAlways, HandleInvAlways, PTL DEF Spec

(* The idempotency key pays for one computation only: the record of a job
   that is queued or running is not pruned, so its key is not free again
   (prune_completed_jobs, LocalJobRuntime.submit). *)
THEOREM OneComputation ==
  ASSUME Timely
  PROVE  Spec => []OneComputationPerKey
<1>1. OneJobPerKey /\ TimelyInv => OneComputationPerKey
  BY DEF OneJobPerKey, TimelyInv, StatusFollowsTask, OneComputationPerKey
<1>2. QED
  BY <1>1, OneRecordPerClientKey, TimelyInvAlways, PTL

(* A job reported COMMON_ASYNC_JOB_ORPHANED, by a request that looked at its
   heartbeat or by a process that started, is not computed by any thread of
   any process, nor will it be. *)
THEOREM OrphansAreLost ==
  ASSUME Timely
  PROVE  Spec => []OrphanedHasNoWorker
<1>1. TimelyInv => OrphanedHasNoWorker
  <2>1. SUFFICES ASSUME TimelyInv, NEW j \in Job, Settled(j), Live(j)
                 PROVE  FALSE
    BY DEF OrphanedHasNoWorker
  <2>2. Stored(j) /\ table[j].status \in {"queued", "running"}
    BY <2>1 DEF TimelyInv, StatusFollowsTask, Live
  <2>3. QED
    BY <2>1, <2>2 DEF Settled, Terminal
<1>2. QED
  BY <1>1, TimelyInvAlways, PTL

----------------------------------------------------------------------------
(* The table implements the ledger. *)

Phase == [j \in Job |-> table[j].status]
LedgerVars == <<Phase, Unconfirmed>>

(* No record changes its status, and no thread comes to doubt an outcome. *)
LEMMA LedgerStays ==
  ASSUME \A j \in Job : table'[j].status = table[j].status,
         \A j \in Job : task'[j].pc = "fail"
                        => task[j].pc = "fail" \/ table[j].status \notin {"succeeded", "cancelled"}
  PROVE  [Ledger!Next]_LedgerVars
<1> DEFINE S == Unconfirmed \ Unconfirmed'
<1>1. Unconfirmed' \subseteq Unconfirmed /\ S \in SUBSET Job
  BY DEF Unconfirmed
<1>2. Phase' = Phase
  BY DEF Phase
<1>3. Ledger!Confirm(S)
  BY <1>1, <1>2 DEF Ledger!Confirm, Phase
<1>4. QED
  BY <1>1, <1>3 DEF Ledger!Next

LEMMA LedgerSettles ==
  ASSUME NEW S \in SUBSET Job, NEW outcome \in {"succeeded", "failed", "cancelled"},
         \A j \in Job : table'[j].status = IF j \in S THEN outcome ELSE table[j].status,
         \A j \in S : table[j].status \in {"queued", "running"},
         outcome = "succeeded" => \A j \in S : table[j].status = "running",
         \A j \in Job : j \in S \/ task'[j].pc = task[j].pc,
         \A j \in S : outcome = "failed" \/ task'[j].pc # "fail"
  PROVE  [Ledger!Next]_LedgerVars
<1>1. Ledger!Move(S, outcome)
  BY DEF Ledger!Move
<1>2. UNCHANGED Unconfirmed
  <2>1. ASSUME NEW j \in Job
        PROVE  (j \in Unconfirmed)' <=> j \in Unconfirmed
    BY DEF Unconfirmed
  <2>2. QED
    BY <2>1 DEF Unconfirmed
<1>3. \A j \in S : Phase[j] \in {"queued", "running"}
                  /\ (outcome = "succeeded" => Phase[j] = "running")
  BY DEF Phase
<1>4. Ledger!Settle(S, outcome)
  BY <1>1, <1>2, <1>3 DEF Ledger!Settle, Phase
<1>5. QED
  BY <1>4 DEF Ledger!Next, Ledger!Settled

(* One record takes the outcome of its job. *)
LEMMA LedgerSettlesOne ==
  ASSUME NEW k \in Job, NEW outcome \in {"succeeded", "failed", "cancelled"},
         \A j \in Job : j # k => table'[j] = table[j] /\ task'[j].pc = task[j].pc,
         table'[k].status = outcome,
         table[k].status \in {"queued", "running"},
         outcome = "succeeded" => table[k].status = "running",
         outcome = "failed" \/ task'[k].pc # "fail"
  PROVE  [Ledger!Next]_LedgerVars
<1>1. \A j \in Job : table'[j].status = IF j \in {k} THEN outcome ELSE table[j].status
  OBVIOUS
<1>2. \A j \in {k} :
        /\ table[j].status \in {"queued", "running"}
        /\ outcome = "succeeded" => table[j].status = "running"
        /\ outcome = "failed" \/ task'[j].pc # "fail"
  OBVIOUS
<1>3. \A j \in Job : j \in {k} \/ task'[j].pc = task[j].pc
  OBVIOUS
<1>4. QED
  BY <1>1, <1>2, <1>3, LedgerSettles

LEMMA LedgerForgets ==
  ASSUME TypeOK, TimelyInv, NEW h \in Handler, DeletePruned(h)
  PROVE  [Ledger!Next]_LedgerVars
<1>1. handler[h].victims \subseteq Job /\ At(h, "delete")
  BY AtIsBusy, BusyTypes DEF DeletePruned
<1>a. PICK S \in SUBSET Job : S = {j \in handler[h].victims : Stored(j)}
  BY <1>1
<1>2. \A j \in Job : table'[j] = IF j \in handler[h].victims THEN NoRow ELSE table[j]
  BY DEF DeletePruned
<1>3. \A j \in S : table[j].status \in {"succeeded", "failed", "cancelled"}
  BY <1>1, <1>a DEF TimelyInv, VictimIsOver, Settled, Terminal
<1>4. \A j \in Job : table'[j].status = IF j \in S THEN "absent" ELSE table[j].status
  BY <1>2, <1>a DEF Stored, NoRow
<1>5. Ledger!Move(S, "absent")
  BY <1>4 DEF Ledger!Move
<1>6. Unconfirmed' = Unconfirmed \ S
  <2>1. UNCHANGED task
    BY DEF DeletePruned
  <2>2. QED
    BY <1>4, <2>1 DEF Unconfirmed
<1>7. \A j \in S : Phase[j] \in Ledger!Settled
  BY <1>3 DEF Phase, Ledger!Settled
<1>8. Ledger!Forget(S)
  BY <1>5, <1>6, <1>7 DEF Ledger!Forget, Phase
<1>9. QED
  BY <1>8 DEF Ledger!Next

LEMMA LedgerAccepts ==
  ASSUME TypeOK, CancelInv, NEW h \in Handler, InsertRow(h)
  PROVE  [Ledger!Next]_LedgerVars
<1>0. PICK k \in Job : k = handler[h].job
  BY AtIsBusy, BusyTypes DEF InsertRow
<1>1. table[k].status = "absent"
  BY <1>0
     DEF InsertRow, CancelInv, SubmissionIsNew, Submitting, At, Stored, NoRow
<1>2. CASE KeyTaken(KeyOf[k])
  BY <1>0, <1>2, LedgerStays DEF InsertRow
<1>3. CASE ~KeyTaken(KeyOf[k])
  <2>1. PICK status \in {"queued", "succeeded"} : table' = [table EXCEPT ![k] = NewRow(status)]
    BY <1>0, <1>3 DEF InsertRow
  <2>2. \A j \in Job : table'[j].status = IF j \in {k} THEN status ELSE table[j].status
    BY <1>1, <2>1 DEF TypeOK, NewRow
  <2>3. Ledger!Move({k}, status)
    BY <2>2 DEF Ledger!Move
  <2>4. UNCHANGED Unconfirmed
    <3>1. UNCHANGED task /\ task[k].pc = "none"
      BY <1>0 DEF InsertRow, CancelInv, SubmissionIsNew, Submitting, At
    <3>2. ASSUME NEW j \in Job
          PROVE  (j \in Unconfirmed)' <=> j \in Unconfirmed
      BY <2>2, <3>1 DEF Unconfirmed
    <3>3. QED
      BY <3>2 DEF Unconfirmed
  <2>5. Phase[k] = "absent"
    BY <1>1 DEF Phase
  <2>6. Ledger!Accept(k) \/ Ledger!Archive(k)
    BY <2>1, <2>3, <2>4, <2>5 DEF Ledger!Accept, Ledger!Archive, Phase
  <2>7. QED
    BY <2>6 DEF Ledger!Next
<1>4. QED
  BY <1>2, <1>3

LEMMA LedgerHandler ==
  ASSUME TypeOK, CancelInv, TimelyInv, NEW h \in Handler, HandlerStep(h)
  PROVE  [Ledger!Next]_LedgerVars
<1>b. ASSUME NEW pc, pc # "idle", At(h, pc)
      PROVE  handler[h].job \in Job
  BY <1>b, AtIsBusy, BusyTypes
<1>c. \A j \in Job : task'[j].pc = "fail" => task[j].pc = "fail"
  BY DEF HandlerStep, SelectPruned, DeletePruned, InsertRow, Enqueue, CheckHandle, MarkOrphan,
         RereadRow, FlagCancel, CancelFuture, WriteCancelled, TypeOK, NoTask
<1>1. CASE SelectPruned(h) \/ Enqueue(h) \/ CheckHandle(h) \/ RereadRow(h) \/ CancelFuture(h)
  <2>1. UNCHANGED table
    BY <1>1 DEF SelectPruned, Enqueue, CheckHandle, RereadRow, CancelFuture
  <2>2. QED
    BY <2>1, <1>c, LedgerStays
<1>2. CASE MarkOrphan(h)
  <2> DEFINE k == handler[h].job
  <2>1. k \in Job /\ UpdateJob(k, AsFailed(k, "orphaned", 0))
    BY <1>2, <1>b DEF MarkOrphan
  <2>2. table[k].status \notin {"succeeded", "cancelled"}
    BY <1>2 DEF MarkOrphan, TimelyInv, StaleIsOver, Stale, Lost
  <2>3. \A j \in Job : j # k => table'[j] = table[j]
    BY <2>1, CloseIs
  <2>4. CASE ~Stored(k)
    <3>1. UNCHANGED table
      BY <2>1, <2>4, CloseIs
    <3>2. QED
      BY <3>1, <1>c, LedgerStays
  <2>5. CASE Stored(k)
    <3>1. table'[k].status = "failed"
      BY <2>1, <2>5, CloseIs
    <3>2. table[k].status \in {"queued", "running", "failed"}
      BY <2>1, <2>2, <2>5 DEF TypeOK, Stored, Row, ACTIVE_STATUSES, Terminal
    <3>3. CASE table[k].status = "failed"
      <4>1. \A j \in Job : table'[j].status = table[j].status
        BY <2>3, <3>1, <3>3
      <4>2. QED
        BY <4>1, <1>c, LedgerStays
    <3>4. CASE table[k].status # "failed"
      BY <1>2, <2>1, <2>3, <3>1, <3>2, <3>4, LedgerSettlesOne DEF MarkOrphan
    <3>5. QED
      BY <3>3, <3>4
  <2>6. QED
    BY <2>4, <2>5
<1>3. CASE WriteCancelled(h)
  <2> DEFINE k == handler[h].job
  <2>1. k \in Job /\ UpdateJob(k, WithStatus(k, "cancelled"))
    BY <1>3, <1>b DEF WriteCancelled
  <2>2. CASE ~Stored(k)
    <3>1. UNCHANGED table
      BY <2>1, <2>2, CloseIs
    <3>2. QED
      BY <3>1, <1>c, LedgerStays
  <2>3. CASE Stored(k)
    <3>1. table'[k].status = "cancelled" /\ \A j \in Job : j # k => table'[j] = table[j]
      BY <2>1, <2>3, CloseIs
    <3>2. table[k].status \in {"queued", "running"}
      BY <1>3, <2>3 DEF WriteCancelled, TimelyInv, ClosingIsActive, Active, ACTIVE_STATUSES
    <3>3. UNCHANGED task /\ task[k].pc = "none"
      BY <1>3 DEF WriteCancelled, CancelInv, ClosingIsOver
    <3>4. QED
      BY <2>1, <3>1, <3>2, <3>3, LedgerSettlesOne
  <2>4. QED
    BY <2>2, <2>3
<1>4. CASE FlagCancel(h)
  <2> DEFINE k == handler[h].job
             row == [table[k] EXCEPT !.cancelRequested = TRUE, !.updated = 0]
  <2>1. k \in Job /\ UpdateJob(k, row)
    BY <1>4, <1>b DEF FlagCancel
  <2>2. Stored(k) => row.status = table[k].status
    <3>1. Stored(k) => table[k] \in Row
      BY <2>1 DEF Stored, TypeOK
    <3>2. QED
      BY <3>1 DEF Row
  <2>3. \A j \in Job : table'[j].status = table[j].status
    BY <2>1, <2>2 DEF UpdateJob, TypeOK
  <2>4. QED
    BY <2>3, <1>c, LedgerStays
<1>5. QED
  BY <1>1, <1>2, <1>3, <1>4, LedgerForgets, LedgerAccepts DEF HandlerStep

(* A record turns from queued to running. *)
LEMMA LedgerPicksUp ==
  ASSUME TypeOK, NEW k \in Job, Stored(k), table[k].status = "queued",
         UpdateJob(k, WithStatus(k, "running")),
         \A j \in Job : j # k => task'[j] = task[j]
  PROVE  [Ledger!Next]_LedgerVars
<1>1. \A j \in Job : table'[j].status = IF j \in {k} THEN "running" ELSE table[j].status
  BY CloseIs
<1>2. Ledger!Move({k}, "running")
  BY <1>1 DEF Ledger!Move
<1>3. UNCHANGED Unconfirmed
  <2>1. ASSUME NEW j \in Job
        PROVE  (j \in Unconfirmed)' <=> j \in Unconfirmed
    BY <1>1 DEF Unconfirmed
  <2>2. QED
    BY <2>1 DEF Unconfirmed
<1>4. Phase[k] = "queued"
  BY DEF Phase
<1>5. Ledger!PickUp(k)
  BY <1>2, <1>3, <1>4 DEF Ledger!PickUp, Phase
<1>6. QED
  BY <1>5 DEF Ledger!Next

LEMMA LedgerRunner ==
  ASSUME TypeOK, TimelyInv, NEW k \in Job, Take(k) \/ RunnerStep(k) \/ RunnerStoreError(k)
  PROVE  [Ledger!Next]_LedgerVars
<1>0. \A j \in Job : j # k => task'[j] = task[j]
  BY DEF Take, RunnerStep, RunnerStoreError, RunLoad, RunCancelEarly, RunStart, RunCompute,
         RunFinish, RunDiscard, Step, Finish, TypeOK
<1>1. CASE Take(k) \/ RunLoad(k) \/ RunCompute(k) \/ RunDiscard(k) \/ RunnerStoreError(k)
  <2>1. UNCHANGED table
    BY <1>1 DEF Take, RunLoad, RunCompute, RunDiscard, RunnerStoreError
  <2>2. task[k].pc \in {"compute", "succeed", "cancel"}
          => table[k].status \notin {"succeeded", "cancelled"}
    BY DEF TimelyInv, StatusFollowsTask, Stored, NoRow
  <2>3. task'[k].pc = "fail" => task[k].pc \in {"compute", "succeed", "cancel", "fail"}
    <3>1. task[k].pc \notin {"compute", "succeed", "cancel"}
            => \/ Finish(k)
               \/ \E pc \in {"load", "cancelEarly", "start", "discard"} : Step(k, pc)
      BY <1>1 DEF Take, RunLoad, RunCompute, RunDiscard, RunnerStoreError, Step
    <3>2. task[k].pc = "none" \/ task[k] \in [pc: {"pending", "dropped"} \cup Running, host: Process]
      BY DEF TypeOK, Task, NoTask
    <3>3. task[k].pc # "none"
      BY <1>1 DEF Take, RunLoad, RunCompute, RunDiscard, RunnerStoreError
    <3>4. QED
      BY <3>1, <3>2, <3>3 DEF Finish, Step, TypeOK, NoTask
  <2>4. QED
    BY <1>0, <2>1, <2>2, <2>3, LedgerStays
<1>2. ASSUME NEW row \in {WithStatus(k, "cancelled"), WithStatus(k, "succeeded"), AsFailed(k, "job", 0)},
             UpdateJob(k, row), Stored(k) => table[k].status \in {"queued", "running"},
             Stored(k) /\ row = WithStatus(k, "succeeded") => table[k].status = "running",
             task'[k].pc # "fail"
      PROVE  [Ledger!Next]_LedgerVars
  <2>1. CASE ~Stored(k)
    <3>1. UNCHANGED table
      BY <1>2, <2>1, CloseIs
    <3>2. QED
      BY <1>0, <1>2, <3>1, LedgerStays
  <2>2. CASE Stored(k)
    <3>1. /\ \A j \in Job : j # k => table'[j] = table[j]
          /\ table'[k] = row
          /\ WithStatus(k, "cancelled").status = "cancelled"
          /\ WithStatus(k, "succeeded").status = "succeeded"
          /\ AsFailed(k, "job", 0).status = "failed"
      BY <1>2, <2>2, CloseIs
    <3>2. row.status \in {"succeeded", "failed", "cancelled"}
          /\ (row.status = "succeeded" => row = WithStatus(k, "succeeded"))
      BY <1>2, <3>1
    <3>3. QED
      BY <1>0, <1>2, <2>2, <3>1, <3>2, LedgerSettlesOne
  <2>3. QED
    BY <2>1, <2>2
<1>a. Stored(k) /\ (RunCancelEarly(k) \/ RunFinish(k))
        => /\ WithStatus(k, "cancelled") # WithStatus(k, "succeeded")
           /\ AsFailed(k, "job", 0) # WithStatus(k, "succeeded")
  <2>1. SUFFICES ASSUME Stored(k)
                 PROVE  /\ WithStatus(k, "cancelled") # WithStatus(k, "succeeded")
                        /\ AsFailed(k, "job", 0) # WithStatus(k, "succeeded")
    OBVIOUS
  <2>2. table[k] \in Row
    BY <2>1 DEF Stored, TypeOK
  <2>3. /\ WithStatus(k, "cancelled").status = "cancelled"
        /\ WithStatus(k, "succeeded").status = "succeeded"
        /\ AsFailed(k, "job", 0).status = "failed"
    BY <2>2 DEF WithStatus, AsFailed, Row
  <2>4. QED
    BY <2>3
<1>b. RunCancelEarly(k) \/ RunFinish(k) => task'[k].pc \in {"none", "discard"}
  <2>1. CASE RunCancelEarly(k)
    BY <2>1 DEF RunCancelEarly, Finish, NoTask, TypeOK
  <2>2. CASE RunFinish(k)
    BY <2>2 DEF RunFinish, Step, TypeOK, Task, NoTask
  <2>3. QED
    BY <2>1, <2>2
<1>3. CASE (RunCancelEarly(k) \/ RunFinish(k))
             /\ (Stored(k) => table[k].status \in {"queued", "running"})
  <2>1. \/ task[k].pc \in {"cancelEarly", "cancel"} /\ UpdateJob(k, WithStatus(k, "cancelled"))
        \/ task[k].pc = "succeed" /\ UpdateJob(k, WithStatus(k, "succeeded"))
        \/ task[k].pc = "fail" /\ UpdateJob(k, AsFailed(k, "job", 0))
    BY <1>3 DEF RunCancelEarly, RunFinish
  <2>2. Stored(k) /\ task[k].pc = "succeed" => table[k].status = "running"
    BY DEF TimelyInv, StatusFollowsTask
  <2>3. QED
    BY <1>2, <1>3, <1>a, <1>b, <2>1, <2>2
(* The failure branch writes over an outcome that was not confirmed. *)
<1>4. CASE (RunCancelEarly(k) \/ RunFinish(k)) /\ Stored(k)
             /\ table[k].status \notin {"queued", "running"}
  <2>1. table[k].status \in {"succeeded", "cancelled"} /\ task[k].pc = "fail"
    BY <1>4 DEF TimelyInv, StatusFollowsTask, RunCancelEarly, RunFinish
  <2>2. UpdateJob(k, AsFailed(k, "job", 0))
    BY <1>4, <2>1 DEF RunFinish, RunCancelEarly
  <2>3. /\ \A j \in Job : j # k => table'[j] = table[j]
        /\ table'[k].status = "failed"
    BY <1>4, <2>2, CloseIs
  <2>4. \A j \in Job : table'[j].status = IF j \in {k} THEN "failed" ELSE table[j].status
    BY <2>3
  <2>5. Ledger!Move({k}, "failed")
    BY <2>4 DEF Ledger!Move
  <2>6. k \in Unconfirmed /\ Unconfirmed' = Unconfirmed \ {k}
    BY <1>0, <2>1, <2>3 DEF Unconfirmed
  <2>7. Ledger!Retract(k)
    BY <2>5, <2>6 DEF Ledger!Retract
  <2>8. QED
    BY <2>7 DEF Ledger!Next
<1>5. CASE RunStart(k)
  <2>1. Stored(k) /\ table[k].status = "queued" /\ UpdateJob(k, WithStatus(k, "running"))
    BY <1>5 DEF RunStart, TimelyInv, StatusFollowsTask, Live
  <2>2. QED
    BY <1>0, <2>1, LedgerPicksUp
<1>6. QED
  BY <1>1, <1>3, <1>4, <1>5 DEF RunnerStep

(* An outcome, or the start of the job, is written and not confirmed. *)
LEMMA LedgerDoubts ==
  ASSUME TypeOK, TimelyInv, NEW k \in Job, RunnerRereadError(k)
  PROVE  [Ledger!Next]_LedgerVars
<1>1. \A j \in Job : j # k => task'[j] = task[j]
  BY DEF RunnerRereadError, Step, Finish, TypeOK
<1>2. CASE task[k].pc = "start"
  <2>1. Stored(k) /\ table[k].status = "queued" /\ UpdateJob(k, WithStatus(k, "running"))
    BY <1>2 DEF RunnerRereadError, TimelyInv, StatusFollowsTask, Live
  <2>2. QED
    BY <1>1, <2>1, LedgerPicksUp
<1>3. CASE task[k].pc # "start"
  <2>1. StoreErrors /\ Step(k, "fail") /\ task[k].pc \in {"succeed", "cancel"}
    BY <1>3 DEF RunnerRereadError
  <2>2. PICK outcome \in {"succeeded", "cancelled"} : UpdateJob(k, WithStatus(k, outcome))
    BY <1>3 DEF RunnerRereadError
  <2>3. Stored(k) => table[k].status = "running"
    BY <2>1 DEF TimelyInv, StatusFollowsTask
  <2>4. CASE ~Stored(k)
    <3>1. UNCHANGED table
      BY <2>2, <2>4, CloseIs
    <3>2. table[k].status = "absent"
      BY <2>4 DEF Stored, NoRow
    <3>3. QED
      BY <1>1, <3>1, <3>2, LedgerStays
  <2>5. CASE Stored(k)
    <3>1. /\ \A j \in Job : j # k => table'[j] = table[j]
          /\ table'[k].status = outcome
      BY <2>2, <2>5, CloseIs
    <3>2. \A j \in Job : table'[j].status = IF j \in {k} THEN outcome ELSE table[j].status
      BY <3>1
    <3>3. Ledger!Move({k}, outcome)
      BY <3>2 DEF Ledger!Move
    <3>4. task'[k].pc = "fail"
      BY <2>1 DEF Step, TypeOK, Task, NoTask
    <3>5. Unconfirmed' = Unconfirmed \cup {k}
      BY <1>1, <3>1, <3>4 DEF Unconfirmed
    <3>6. Phase[k] = "running"
      BY <2>3, <2>5 DEF Phase
    <3>7. Ledger!SettleUnconfirmed(k, outcome)
      BY <2>1, <3>3, <3>5, <3>6 DEF Ledger!SettleUnconfirmed, Phase
    <3>8. QED
      BY <3>7 DEF Ledger!Next, Ledger!Settled
  <2>6. QED
    BY <2>4, <2>5
<1>4. QED
  BY <1>2, <1>3

LEMMA LedgerStart ==
  ASSUME TypeOK, NEW q \in Process, StartRuntime(q)
  PROVE  [Ledger!Next]_LedgerVars
<1> DEFINE S == {j \in Job : table'[j] # table[j]}
<1>1. \A j \in S : Active(j) /\ table'[j] = AsFailed(j, "orphaned", Timeout)
  BY DEF StartRuntime
<1>2. \A j \in S : table[j] \in Row
  BY <1>1 DEF Active, ACTIVE_STATUSES, TypeOK, NoRow
<1>3. \A j \in S : table'[j].status = "failed"
  BY <1>1, <1>2 DEF AsFailed, Row
<1>4. \A j \in Job : table'[j].status = IF j \in S THEN "failed" ELSE table[j].status
  BY <1>3
<1>5. \A j \in S : table[j].status \in {"queued", "running"}
  BY <1>1 DEF Active, ACTIVE_STATUSES
<1>6. S \in SUBSET Job
  OBVIOUS
<1>7. UNCHANGED task
  BY DEF StartRuntime
<1>8. QED
  BY <1>4, <1>5, <1>6, <1>7, LedgerSettles

LEMMA LedgerNext ==
  TypeOK /\ CancelInv /\ TimelyInv /\ [Next]_vars => [Ledger!Next]_LedgerVars
<1> SUFFICES ASSUME TypeOK, CancelInv, TimelyInv, [Next]_vars
             PROVE  [Ledger!Next]_LedgerVars
  OBVIOUS
<1>1. ASSUME UNCHANGED table, \A j \in Job : task'[j].pc = "fail" => task[j].pc = "fail"
      PROVE  [Ledger!Next]_LedgerVars
  BY <1>1, LedgerStays
<1>2. ASSUME NEW h \in Handler, NEW p \in Process, NEW k \in Job, RequestBegin(h, p, k)
      PROVE  UNCHANGED <<table, task>>
  BY <1>2 DEF RequestBegin, SubmitBegin, CalculateBegin, LoadBegin
<1>3. ASSUME NEW h \in Handler, RequestStoreError(h)
      PROVE  UNCHANGED <<table, task>>
  BY <1>3 DEF RequestStoreError
<1>4. ASSUME NEW p \in Process, Shutdown(p) \/ FinishShutdown(p) \/ Crash(p)
      PROVE  UNCHANGED table /\ \A j \in Job : task'[j].pc = "fail" => task[j].pc = "fail"
  <2>1. UNCHANGED table
    BY <1>4 DEF Shutdown, FinishShutdown, Crash
  <2>2. CASE Shutdown(p)
    BY <2>2 DEF Shutdown, On, TypeOK, Task, HasTask
  <2>3. CASE FinishShutdown(p) \/ Crash(p)
    BY <2>3 DEF FinishShutdown, Crash, WithoutTasks, NoTask
  <2>4. QED
    BY <1>4, <2>1, <2>2, <2>3
<1>5. ASSUME NEW p \in Process, NEW k \in Job, Heartbeat(p, k)
      PROVE  [Ledger!Next]_LedgerVars
  <2>1. table[k] \in Row
    BY <1>5 DEF Heartbeat, TypeOK, Stored
  <2>2. \A j \in Job : table'[j].status = table[j].status
    BY <1>5, <2>1 DEF Heartbeat, TypeOK, Row
  <2>3. UNCHANGED task
    BY <1>5 DEF Heartbeat
  <2>4. QED
    BY <2>2, <2>3, LedgerStays
<1>6. CASE Tick
  <2>1. \A j \in Job : table'[j].status = table[j].status
    BY <1>6 DEF Tick, TypeOK, Stored, Row
  <2>2. UNCHANGED task
    BY <1>6 DEF Tick
  <2>3. QED
    BY <2>1, <2>2, LedgerStays
<1>7. CASE UNCHANGED vars
  BY <1>1, <1>7 DEF vars
<1>8. QED
  BY <1>1, <1>2, <1>3, <1>4, <1>5, <1>6, <1>7, LedgerHandler, LedgerRunner, LedgerDoubts, LedgerStart
     DEF Next

(* The records of solver_jobs follow the lifecycle the service promises: a
   job is picked up once and settles once, and neither a late write of a
   worker or a request nor pruning takes an outcome back, although no UPDATE
   checks the status it overwrites.  Only a store that fails to confirm what
   it committed (update_job's re-read raises) makes the worker that settled
   the job write "failed" over its own outcome. *)
THEOREM RecordsFollowLifecycle ==
  ASSUME Timely
  PROVE  Spec => FollowsLifecycle
<1>1. Init => Ledger!Init
  BY DEF Init, Ledger!Init, NoRow, Unconfirmed
<1>2. TypeOK /\ CancelInv /\ TimelyInv /\ [Next]_vars
        => [Ledger!Next]_(Ledger!vars)
  BY LedgerNext DEF LedgerVars, Phase, Ledger!vars
<1>3. QED
  BY <1>1, <1>2, TypeCorrect, CancelInvAlways, TimelyInvAlways, PTL
     DEF Spec, FollowsLifecycle, Ledger!Spec
=============================================================================
