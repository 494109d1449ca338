----------------------------- MODULE AsyncJobs ------------------------------
(***************************************************************************)
(* The asynchronous job service: backend/api/jobs.py on top of             *)
(* backend/services/job_store.py (one SQLite table shared by every server  *)
(* process) and backend/services/job_runtime.py (a thread pool, a          *)
(* dictionary of futures and a heartbeat thread private to each process),  *)
(* with the cache record backend/api/calculate.py writes in the table.     *)
(*                                                                         *)
(* Granularity: one step per database statement that another thread can    *)
(* observe and per critical section of the runtime's lock.  Every          *)
(* update_job is "UPDATE ... WHERE job_id = ?" with no condition on the    *)
(* status it overwrites, so what a thread decided from an earlier SELECT   *)
(* may be stale when it writes.                                            *)
(*                                                                         *)
(* Time is kept as ages, not as a clock: a record carries how long ago its *)
(* heartbeat and its last update were, capped one tick past the point      *)
(* where the code can tell two ages apart.                                 *)
(***************************************************************************)
EXTENDS Integers, FiniteSets

CONSTANTS
  Process,              \* server processes sharing the SQLite file
  Handler,              \* request threads that may be busy at one time
  Job,                  \* pool of job identifiers
  ClientKey,            \* (tenant, clientJobId) pairs
  NoKey,                \* a submission without clientJobId
  KeyOf,                \* the client key of the submission that draws an id
  Operations,           \* request kinds the clients send
  MaxWorkers,           \* MAX_WORKERS: threads of one process's pool
  MaxJobs,              \* MAX_JOBS: records kept before pruning
  Timeout,              \* HEARTBEAT_TIMEOUT_SECONDS, in ticks
  MaxFaults,            \* bound: crashes, shutdowns and store errors
  StoreErrors,          \* may a SQLite call raise ("database is locked")?
  Timely,               \* do heartbeats and requests keep up with the clock?
  OrphanCheckDisabled   \* ARCHSIGHT_SOLVER_DISABLE_ORPHAN_CHECK = 1

ASSUME KeyAssumption == NoKey \notin ClientKey /\ KeyOf \in [Job -> ClientKey \cup {NoKey}]
ASSUME OperationsAssumption == Operations \subseteq {"submit", "calculate", "get", "cancel"}
ASSUME LimitsAssumption ==
  /\ MaxWorkers \in Nat \ {0} /\ MaxJobs \in Nat
  /\ Timeout \in Nat \ {0} /\ MaxFaults \in Nat
ASSUME SwitchesAssumption == {StoreErrors, Timely, OrphanCheckDisabled} \subseteq BOOLEAN

VARIABLES
  table,     \* table[j]: the solver_jobs record of j, or NoRow
  proc,      \* proc[p]: is p down, serving, or shutting its runtime down
  futures,   \* futures[p]: keys of LocalJobRuntime.futures in p
  task,      \* task[j]: the future of j and the thread running _run_job(j)
  handler,   \* handler[h]: the request h is serving and how far it is
  faults     \* how many faults happened

vars == <<table, proc, futures, task, handler, faults>>

----------------------------------------------------------------------------
(* The table. *)

ACTIVE_STATUSES == {"queued", "running"}
Terminal == {"succeeded", "failed", "cancelled"}
MaxAge == Timeout + 1
Age == 0 .. MaxAge

Row == [status: ACTIVE_STATUSES \cup Terminal,
        cancelRequested: BOOLEAN,
        error: {"none", "job", "orphaned"},
        heartbeat: Age,       \* age of lastHeartbeatAt
        updated: Age]         \* age of updatedAt, kept for settled records
NoRow == [status |-> "absent"]

Stored(j) == table[j] # NoRow
Active(j) == table[j].status \in ACTIVE_STATUSES
Settled(j) == table[j].status \in Terminal

NewRow(status) ==
  [status |-> status, cancelRequested |-> FALSE, error |-> "none",
   heartbeat |-> 0, updated |-> 0]

(* "UPDATE solver_jobs SET ... WHERE job_id = ?" : nothing happens when the
   record is gone, and nothing is asked of the status it had. *)
UpdateJob(j, row) ==
  table' = IF Stored(j) THEN [table EXCEPT ![j] = row] ELSE table

WithStatus(j, status) == [table[j] EXCEPT !.status = status, !.updated = 0]
AsFailed(j, error, age) ==
  [table[j] EXCEPT !.status = "failed", !.error = error, !.updated = age]

(* The unique index on (tenant_id, client_job_id). *)
KeyTaken(key) == key # NoKey /\ \E i \in Job : Stored(i) /\ KeyOf[i] = key

(* Mutant: the SELECT without its status filter. *)
PruneCandidatesOfAnyStatus ==
  LET stored == {j \in Job : Stored(j)}
      excess == Cardinality(stored) - MaxJobs
  IN {V \in SUBSET stored :
        /\ V # {} => Cardinality(V) <= excess
        /\ V # stored => Cardinality(V) >= excess
        /\ \A v \in V, k \in stored \ V : table[v].updated >= table[k].updated}

(* The records prune_completed_jobs selects: as many as the table is over
   the limit, settled, those updated longest ago first. *)
PruneCandidates ==
  LET settled == {j \in Job : Settled(j)}
      excess == Cardinality({j \in Job : Stored(j)}) - MaxJobs
  IN {V \in SUBSET settled :
        /\ V # {} => Cardinality(V) <= excess
        /\ V # settled => Cardinality(V) >= excess
        /\ \A v \in V, k \in settled \ V : table[v].updated >= table[k].updated}

----------------------------------------------------------------------------
(* Process-local state. *)

(* Where _run_job(j) is: "pending" before a pool thread takes it, "dropped"
   once executor.shutdown cancelled it; then one value per step of the
   function; "none" before, after, and when its process is gone. *)
Running == {"load", "cancelEarly", "start", "compute", "succeed", "cancel", "fail", "discard"}
NoTask == [pc |-> "none"]
Task == {NoTask} \cup [pc: {"pending", "dropped"} \cup Running, host: Process]

HasTask(j) == task[j] # NoTask
On(p, pcs) == {j \in Job : HasTask(j) /\ task[j].pc \in pcs /\ task[j].host = p}

(* The job still has to be computed, or is being computed. *)
Live(j) == task[j].pc \in {"pending", "load", "start", "compute"}

Idle == [pc |-> "idle"]
HandlerPCs == {"prune", "delete", "insert", "enqueue",
               "check", "orphan", "reread", "flag", "future", "cancelled"}
Busy == [pc: HandlerPCs, op: Operations, proc: Process, job: Job,
         heartbeat: Age, victims: SUBSET Job]
IsBusy(h) == handler[h] # Idle
At(h, pc) == handler[h].pc = pc
Goto(h, pc) == handler' = [handler EXCEPT ![h].pc = pc]
Answer(h) == handler' = [handler EXCEPT ![h] = Idle]
Begin(h, p, op, j, pc, age) ==
  /\ op \in Operations
  /\ ~IsBusy(h)
  /\ proc[p] = "up"
  /\ handler' = [handler EXCEPT ![h] =
                  [pc |-> pc, op |-> op, proc |-> p, job |-> j,
                   heartbeat |-> age, victims |-> {}]]

(* uuid4 never returns an identifier twice; one that left no trace anywhere
   may stand for a new one. *)
Fresh(j) ==
  /\ ~Stored(j) /\ ~HasTask(j)
  /\ \A p \in Process : j \notin futures[p]
  /\ \A h \in Handler : IsBusy(h) => handler[h].job # j /\ j \notin handler[h].victims

----------------------------------------------------------------------------
Init ==
  /\ table = [j \in Job |-> NoRow]
  /\ proc = [p \in Process |-> "down"]
  /\ futures = [p \in Process |-> {}]
  /\ task = [j \in Job |-> NoTask]
  /\ handler = [h \in Handler |-> Idle]
  /\ faults = 0

(* POST /api/jobs: the lookup by client key.  When it finds a record the
   request ends there with that record and changes nothing. *)
SubmitBegin(h, p, j) ==
  /\ Fresh(j)
  /\ ~KeyTaken(KeyOf[j])
  /\ Begin(h, p, "submit", j, "prune", 0)
  /\ UNCHANGED <<table, proc, futures, task, faults>>

(* POST /api/calculate once the solver has answered: the record it is about
   to cache has no client key. *)
CalculateBegin(h, p, j) ==
  /\ Fresh(j)
  /\ KeyOf[j] = NoKey
  /\ Begin(h, p, "calculate", j, "prune", 0)
  /\ UNCHANGED <<table, proc, futures, task, faults>>

(* prune_completed_jobs, the two SELECTs: no transaction is open yet, so the
   records may change before the DELETE. *)
SelectPruned(h) ==
  /\ At(h, "prune")
  /\ \E V \in PruneCandidates :
       handler' = [handler EXCEPT ![h].pc = IF V = {} THEN "insert" ELSE "delete",
                                  ![h].victims = V]
  /\ UNCHANGED <<table, proc, futures, task, faults>>

(* prune_completed_jobs, the DELETE, with the discard_many of its caller in
   jobs.py; /api/calculate calls prune_completed_jobs directly and leaves
   the futures alone. *)
DeletePruned(h) ==
  /\ At(h, "delete")
  /\ LET V == handler[h].victims
         p == handler[h].proc
     IN /\ table' = [j \in Job |-> IF j \in V THEN NoRow ELSE table[j]]
        /\ futures' = IF handler[h].op = "submit"
                      THEN [futures EXCEPT ![p] = @ \ V] ELSE futures
  /\ handler' = [handler EXCEPT ![h].pc = "insert", ![h].victims = {}]
  /\ UNCHANGED <<proc, task, faults>>

(* Mutant: no unique index, only the lookup before. *)
InsertRowUnchecked(h) ==
  /\ At(h, "insert")
  /\ LET j == handler[h].job
         submitted == handler[h].op = "submit"
     IN /\ table' = [table EXCEPT ![j] = NewRow(IF submitted THEN "queued" ELSE "succeeded")]
        /\ IF submitted THEN Goto(h, "enqueue") ELSE Answer(h)
  /\ UNCHANGED <<proc, futures, task, faults>>

(* The INSERT.  A submission whose key was taken since the lookup answers
   with the record that took it, or with an error when that one is already
   pruned: either way the request ends. *)
InsertRow(h) ==
  /\ At(h, "insert")
  /\ LET j == handler[h].job
         submitted == handler[h].op = "submit"
     IN IF KeyTaken(KeyOf[j])
        THEN Answer(h) /\ table' = table
        ELSE /\ table' = [table EXCEPT ![j] = NewRow(IF submitted THEN "queued" ELSE "succeeded")]
             /\ IF submitted THEN Goto(h, "enqueue") ELSE Answer(h)
  /\ UNCHANGED <<proc, futures, task, faults>>

(* LocalJobRuntime.submit: the pool gets the job and the dictionary its
   future under one lock.  It raises when the runtime was shut down
   meanwhile, and the record stays behind queued. *)
Enqueue(h) ==
  /\ At(h, "enqueue")
  /\ LET j == handler[h].job
         p == handler[h].proc
     IN IF proc[p] = "up"
        THEN /\ task' = [task EXCEPT ![j] = [pc |-> "pending", host |-> p]]
             /\ futures' = [futures EXCEPT ![p] = @ \cup {j}]
        ELSE UNCHANGED <<task, futures>>
  /\ Answer(h)
  /\ UNCHANGED <<table, proc, faults>>

(* GET and DELETE /api/jobs/<id> start with load_job.  A record that is gone
   or settled is answered at once. *)
LoadBegin(h, p, op, j) ==
  /\ Active(j)
  /\ Begin(h, p, op, j, "check", table[j].heartbeat)
  /\ UNCHANGED <<table, proc, futures, task, faults>>

(* Mutant: only the local handle counts, not the heartbeat. *)
CheckHandleWithoutHeartbeat(h) ==
  /\ At(h, "check")
  /\ IF handler[h].job \in futures[handler[h].proc] \/ OrphanCheckDisabled
     THEN IF handler[h].op = "cancel" THEN Goto(h, "flag") ELSE Answer(h)
     ELSE Goto(h, "orphan")
  /\ UNCHANGED <<table, proc, futures, task, faults>>

(* Mutant: any heartbeat, however old, keeps the job. *)
CheckHandleTrustsAnyHeartbeat(h) ==
  /\ At(h, "check")
  /\ IF handler[h].op = "cancel" THEN Goto(h, "flag") ELSE Answer(h)
  /\ UNCHANGED <<table, proc, futures, task, faults>>

(* _reconcile_local_job_handle on the record loaded before: a handle in this
   process or a heartbeat younger than the timeout keeps the job. *)
CheckHandle(h) ==
  /\ At(h, "check")
  /\ IF \/ handler[h].job \in futures[handler[h].proc]
        \/ OrphanCheckDisabled
        \/ handler[h].heartbeat < Timeout
     THEN IF handler[h].op = "cancel" THEN Goto(h, "flag") ELSE Answer(h)
     ELSE Goto(h, "orphan")
  /\ UNCHANGED <<table, proc, futures, task, faults>>

(* ... and its write, COMMON_ASYNC_JOB_ORPHANED. *)
MarkOrphan(h) ==
  /\ At(h, "orphan")
  /\ UpdateJob(handler[h].job, AsFailed(handler[h].job, "orphaned", 0))
  /\ IF handler[h].op = "cancel" THEN Goto(h, "reread") ELSE Answer(h)
  /\ UNCHANGED <<proc, futures, task, faults>>

(* update_job re-reads the record it wrote.  DELETE ends on a settled one;
   it goes on when the record is gone, with the copy it loaded first. *)
RereadRow(h) ==
  /\ At(h, "reread")
  /\ IF Settled(handler[h].job) THEN Answer(h) ELSE Goto(h, "flag")
  /\ UNCHANGED <<table, proc, futures, task, faults>>

(* cancel_job: the request is recorded in the table ... *)
FlagCancel(h) ==
  /\ At(h, "flag")
  /\ LET j == handler[h].job
     IN UpdateJob(j, [table[j] EXCEPT !.cancelRequested = TRUE, !.updated = 0])
  /\ Goto(h, "future")
  /\ UNCHANGED <<proc, futures, task, faults>>

(* Mutant: what future.cancel() returns is ignored. *)
CancelFutureAlways(h) ==
  /\ At(h, "future")
  /\ LET j == handler[h].job
         p == handler[h].proc
     IN IF j \in futures[p]
        THEN /\ futures' = [futures EXCEPT ![p] = @ \ {j}]
             /\ task' = IF task[j].pc \in {"pending", "dropped"}
                        THEN [task EXCEPT ![j] = NoTask] ELSE task
             /\ Goto(h, "cancelled")
        ELSE Answer(h) /\ UNCHANGED <<futures, task>>
  /\ UNCHANGED <<table, proc, faults>>

(* ... then the future is cancelled if this process holds it and no pool
   thread has taken it ... *)
CancelFuture(h) ==
  /\ At(h, "future")
  /\ LET j == handler[h].job
         p == handler[h].proc
     IN IF j \in futures[p] /\ task[j].pc \in {"pending", "dropped"}
        THEN /\ futures' = [futures EXCEPT ![p] = @ \ {j}]
             /\ task' = [task EXCEPT ![j] = NoTask]
             /\ Goto(h, "cancelled")
        ELSE Answer(h) /\ UNCHANGED <<futures, task>>
  /\ UNCHANGED <<table, proc, faults>>

(* ... and only then is the record closed. *)
WriteCancelled(h) ==
  /\ At(h, "cancelled")
  /\ UpdateJob(handler[h].job, WithStatus(handler[h].job, "cancelled"))
  /\ Answer(h)
  /\ UNCHANGED <<proc, futures, task, faults>>

----------------------------------------------------------------------------
(* A pool thread of the process takes the next future.  The order in which
   the pool's queue hands them out is not told apart by any property. *)
Take(j) ==
  /\ task[j].pc = "pending"
  /\ Cardinality(On(task[j].host, Running)) < MaxWorkers
  /\ task' = [task EXCEPT ![j].pc = "load"]
  /\ UNCHANGED <<table, proc, futures, handler, faults>>

Step(j, pc) == task' = [task EXCEPT ![j].pc = pc]
Finish(j) == task' = [task EXCEPT ![j] = NoTask]

(* _run_job, load_job: returns at once, without discarding its future, when
   the record is gone. *)
RunLoad(j) ==
  /\ task[j].pc = "load"
  /\ IF ~Stored(j) THEN Finish(j)
     ELSE Step(j, IF table[j].cancelRequested THEN "cancelEarly" ELSE "start")
  /\ UNCHANGED <<table, proc, futures, handler, faults>>

(* Mutant: the early return forgets to close the record. *)
RunCancelEarlySilent(j) ==
  /\ task[j].pc = "cancelEarly"
  /\ Finish(j)
  /\ UNCHANGED <<table, proc, futures, handler, faults>>

(* The other return ahead of the try block that discards the future. *)
RunCancelEarly(j) ==
  /\ task[j].pc = "cancelEarly"
  /\ UpdateJob(j, WithStatus(j, "cancelled"))
  /\ Finish(j)
  /\ UNCHANGED <<proc, futures, handler, faults>>

RunStart(j) ==
  /\ task[j].pc = "start"
  /\ UpdateJob(j, WithStatus(j, "running"))
  /\ Step(j, "compute")
  /\ UNCHANGED <<proc, futures, handler, faults>>

(* The solver answers or raises; after an answer the record is read again
   for a cancel request that came in meanwhile. *)
RunCompute(j) ==
  /\ task[j].pc = "compute"
  /\ \/ Step(j, IF Stored(j) /\ table[j].cancelRequested THEN "cancel" ELSE "succeed")
     \/ Step(j, "fail")
  /\ UNCHANGED <<table, proc, futures, handler, faults>>

RunFinish(j) ==
  /\ \/ task[j].pc = "succeed" /\ UpdateJob(j, WithStatus(j, "succeeded"))
     \/ task[j].pc = "cancel" /\ UpdateJob(j, WithStatus(j, "cancelled"))
     \/ task[j].pc = "fail" /\ UpdateJob(j, AsFailed(j, "job", 0))
  /\ Step(j, "discard")
  /\ UNCHANGED <<proc, futures, handler, faults>>

(* The finally clause. *)
RunDiscard(j) ==
  /\ task[j].pc = "discard"
  /\ futures' = [futures EXCEPT ![task[j].host] = @ \ {j}]
  /\ Finish(j)
  /\ UNCHANGED <<table, proc, handler, faults>>

RunnerStep(j) ==
  \/ RunLoad(j) \/ RunCancelEarly(j) \/ RunStart(j)
  \/ RunCompute(j) \/ RunFinish(j) \/ RunDiscard(j)

HandlerStep(h) ==
  \/ SelectPruned(h) \/ DeletePruned(h) \/ InsertRow(h) \/ Enqueue(h)
  \/ CheckHandle(h) \/ MarkOrphan(h) \/ RereadRow(h)
  \/ FlagCancel(h) \/ CancelFuture(h) \/ WriteCancelled(h)

----------------------------------------------------------------------------
(* Heartbeats and time. *)

(* One turn of the loop of _write_job_heartbeats. *)
Heartbeat(p, j) ==
  /\ proc[p] = "up"
  /\ j \in futures[p]
  /\ Stored(j)
  /\ table' = [table EXCEPT ![j].heartbeat = 0]
  /\ UNCHANGED <<proc, futures, task, handler, faults>>

Older(age) == IF age < MaxAge THEN age + 1 ELSE age

(* With Timely, a tick is longer than a request, and no job a live process
   works on goes without a heartbeat for Timeout. *)
KeptUp ==
  /\ \A h \in Handler : ~IsBusy(h)
  /\ \A j \in Job : HasTask(j) /\ task[j].pc # "dropped" /\ Stored(j)
                      => table[j].heartbeat + 1 < Timeout

Tick ==
  /\ Timely => KeptUp
  /\ table' = [j \in Job |->
       IF Stored(j)
       THEN [table[j] EXCEPT !.heartbeat = Older(@),
                             !.updated = IF Settled(j) THEN Older(@) ELSE @]
       ELSE NoRow]
  /\ handler' = [h \in Handler |->
       IF IsBusy(h) /\ handler[h].pc = "check"
       THEN [handler[h] EXCEPT !.heartbeat = Older(@)] ELSE handler[h]]
  /\ UNCHANGED <<proc, futures, task, faults>>

----------------------------------------------------------------------------
(* Processes come and go. *)

WithoutHandlers(p) ==
  [h \in Handler |-> IF IsBusy(h) /\ handler[h].proc = p THEN Idle ELSE handler[h]]
WithoutTasks(p) ==
  [j \in Job |-> IF HasTask(j) /\ task[j].host = p THEN NoTask ELSE task[j]]

(* Mutant: the startup UPDATE without its heartbeat condition. *)
StartRuntimeFailsAll(p) ==
  /\ proc[p] = "down"
  /\ proc' = [proc EXCEPT ![p] = "up"]
  /\ table' = [j \in Job |->
       IF ~OrphanCheckDisabled /\ Active(j) /\ j \notin futures[p]
       THEN AsFailed(j, "orphaned", Timeout) ELSE table[j]]
  /\ UNCHANGED <<futures, task, handler, faults>>

(* The first request of a process starts its runtime and fails, in one
   UPDATE, every active record whose heartbeat is past the cutoff; the
   cutoff is also the time of failure it writes.  A store error there is
   logged and swallowed. *)
StartRuntime(p) ==
  /\ proc[p] = "down"
  /\ proc' = [proc EXCEPT ![p] = "up"]
  /\ \/ /\ table' = [j \in Job |->
             IF /\ ~OrphanCheckDisabled /\ Active(j) /\ j \notin futures[p]
                /\ table[j].heartbeat > Timeout
             THEN AsFailed(j, "orphaned", Timeout) ELSE table[j]]
        /\ faults' = faults
     \/ /\ StoreErrors /\ faults < MaxFaults
        /\ faults' = faults + 1
        /\ table' = table
  /\ UNCHANGED <<futures, task, handler>>

(* LocalJobRuntime.shutdown: no more submissions, heartbeats stop, futures
   no thread has taken are cancelled ... *)
Shutdown(p) ==
  /\ faults < MaxFaults
  /\ faults' = faults + 1
  /\ proc[p] = "up"
  /\ proc' = [proc EXCEPT ![p] = "stopping"]
  /\ task' = [j \in Job |-> IF j \in On(p, {"pending"})
                            THEN [task[j] EXCEPT !.pc = "dropped"] ELSE task[j]]
  /\ UNCHANGED <<table, futures, handler>>

(* ... the threads that run are waited for, the futures cleared, and the
   process ends with the requests it still had. *)
FinishShutdown(p) ==
  /\ proc[p] = "stopping"
  /\ On(p, Running) = {}
  /\ proc' = [proc EXCEPT ![p] = "down"]
  /\ futures' = [futures EXCEPT ![p] = {}]
  /\ task' = WithoutTasks(p)
  /\ handler' = WithoutHandlers(p)
  /\ UNCHANGED <<table, faults>>

(* The process dies; SQLite keeps what was committed. *)
Crash(p) ==
  /\ faults < MaxFaults
  /\ faults' = faults + 1
  /\ proc[p] # "down"
  /\ proc' = [proc EXCEPT ![p] = "down"]
  /\ futures' = [futures EXCEPT ![p] = {}]
  /\ task' = WithoutTasks(p)
  /\ handler' = WithoutHandlers(p)
  /\ UNCHANGED table

(* A SQLite call raises: the request answers with an error.  At "future" it
   is the re-read that follows the committed flag, at "reread" the one that
   follows the orphan report; the re-read after the last write of a request
   changes nothing any more. *)
RequestStoreError(h) ==
  /\ StoreErrors /\ faults < MaxFaults
  /\ faults' = faults + 1
  /\ handler[h].pc \in HandlerPCs \ {"enqueue", "check"}
  /\ Answer(h)
  /\ UNCHANGED <<table, proc, futures, task>>

(* _run_job takes the way out its try block gives it: none before the block,
   the failure branch inside it, the finally clause from there. *)
RunnerStoreError(j) ==
  /\ StoreErrors /\ faults < MaxFaults
  /\ faults' = faults + 1
  /\ \/ task[j].pc \in {"load", "cancelEarly", "start"} /\ Finish(j)
     \/ task[j].pc \in {"succeed", "cancel"} /\ Step(j, "fail")
     \/ task[j].pc = "fail" /\ Step(j, "discard")
  /\ UNCHANGED <<table, proc, futures, handler>>

(* update_job commits before it reads the record back, so the same way out is
   taken when the write is already in the table: the failure branch then
   writes over the outcome committed a moment ago.  Ahead of the early return
   and in the failure branch itself the thread was done with the record. *)
RunnerRereadError(j) ==
  /\ StoreErrors /\ faults < MaxFaults
  /\ faults' = faults + 1
  /\ \/ task[j].pc = "start" /\ UpdateJob(j, WithStatus(j, "running")) /\ Finish(j)
     \/ task[j].pc = "succeed" /\ UpdateJob(j, WithStatus(j, "succeeded")) /\ Step(j, "fail")
     \/ task[j].pc = "cancel" /\ UpdateJob(j, WithStatus(j, "cancelled")) /\ Step(j, "fail")
  /\ UNCHANGED <<proc, futures, handler>>

----------------------------------------------------------------------------
RequestBegin(h, p, j) ==
  \/ SubmitBegin(h, p, j) \/ CalculateBegin(h, p, j)
  \/ LoadBegin(h, p, "get", j) \/ LoadBegin(h, p, "cancel", j)

Next ==
  \/ \E h \in Handler, p \in Process, j \in Job : RequestBegin(h, p, j)
  \/ \E h \in Handler : HandlerStep(h) \/ RequestStoreError(h)
  \/ \E j \in Job : Take(j) \/ RunnerStep(j) \/ RunnerStoreError(j) \/ RunnerRereadError(j)
  \/ \E p \in Process : StartRuntime(p) \/ Shutdown(p) \/ FinishShutdown(p) \/ Crash(p)
  \/ \E p \in Process, j \in Job : Heartbeat(p, j)
  \/ Tick

Spec == Init /\ [][Next]_vars

(* Threads that can run do run; the pool's queue is first come first served,
   so no future waits forever behind later ones; time passes and heartbeats
   are written; a client that holds the id of a job keeps polling it. *)
Fairness ==
  /\ \A j \in Job : SF_vars(Take(j)) /\ WF_vars(RunnerStep(j))
  /\ \A h \in Handler : WF_vars(HandlerStep(h))
  /\ \A p \in Process : WF_vars(StartRuntime(p)) /\ WF_vars(FinishShutdown(p))
  /\ \A p \in Process, j \in Job : WF_vars(Heartbeat(p, j))
  /\ SF_vars(Tick)
  /\ \A j \in Job : SF_vars(\E h \in Handler, p \in Process : LoadBegin(h, p, "get", j))

FairSpec == Spec /\ Fairness
----------------------------------------------------------------------------
(* Properties. *)

(* Every variable keeps its shape; in particular a record never loses a
   column and a request only holds what its step needs. *)
TypeOK ==
  /\ table \in [Job -> Row \cup {NoRow}]
  /\ proc \in [Process -> {"down", "up", "stopping"}]
  /\ futures \in [Process -> SUBSET Job]
  /\ task \in [Job -> Task]
  /\ handler \in [Handler -> Busy \cup {Idle}]
  /\ faults \in 0 .. MaxFaults

(* clientJobId is an idempotency key (submit_job, api-reference.md): however
   the lookups and INSERTs of concurrent submissions interleave with pruning,
   at most one record carries a key. *)
OneJobPerKey ==
  \A i, j \in Job : Stored(i) /\ Stored(j) /\ KeyOf[i] = KeyOf[j] /\ KeyOf[i] # NoKey => i = j

(* ... and at most one computation runs for it: a record is not pruned, and
   its key not free again, while its own job is still computing. *)
OneComputationPerKey ==
  \A i, j \in Job : Live(i) /\ Live(j) /\ KeyOf[i] = KeyOf[j] /\ KeyOf[i] # NoKey => i = j

(* What orphan detection rests on (_reconcile_local_job_handle and the
   heartbeat loop both trust the dictionary of futures): a process that holds
   the handle of an active job really has it queued or running.  A leaked
   handle would keep the record active for ever. *)
HandleMeansWork ==
  \A p \in Process : \A j \in futures[p] :
    proc[p] = "up" /\ Active(j) => HasTask(j) /\ task[j].host = p /\ task[j].pc # "dropped"

(* A job reported lost (COMMON_ASYNC_JOB_ORPHANED) is lost: nothing is
   computing it any more, nor will. *)
OrphanedHasNoWorker ==
  \A j \in Job : Settled(j) /\ table[j].error = "orphaned" => ~Live(j)

(* Once a record says cancelled the job does not run: neither is it running
   then, nor does a later step start it or give it a result. *)
CancelledNeverRuns ==
  \A j \in Job : table[j].status = "cancelled" => ~Live(j) /\ task[j].pc # "succeed"

(* A record that says cancelled stays so until it is pruned, even if
   heartbeats are late, but for two writers: a request that reports it
   orphaned, and the thread of the job itself, whose own "cancelled" was
   committed but could not be read back.  FollowsLifecycle says more when
   heartbeats are not late. *)
CancelledStays ==
  [][\A j \in Job : table[j].status = "cancelled" =>
        \/ table'[j].status \in {"cancelled", "absent"}
        \/ table'[j].error = "orphaned"
        \/ StoreErrors /\ task[j].pc = "fail" /\ table'[j].status = "failed"]_table

(* Outcomes in the table that the thread that wrote them believes failed. *)
Unconfirmed == {j \in Job : table[j].status \in {"succeeded", "cancelled"} /\ task[j].pc = "fail"}

(* The records follow the lifecycle the service promises. *)
Ledger == INSTANCE JobLifecycle
  WITH phase <- [j \in Job |-> table[j].status], unconfirmed <- Unconfirmed,
       StoreMayFail <- StoreErrors
FollowsLifecycle == Ledger!Spec

(* No job stays queued or running for ever, whoever dies on the way, if its
   client keeps asking (api-reference.md: an orphan is marked failed so that
   no old record stays running). *)
EveryJobSettles == \A j \in Job : Active(j) ~> ~Active(j)
=============================================================================
