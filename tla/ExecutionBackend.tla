------------------------- MODULE ExecutionBackend -------------------------
(***************************************************************************)
(* LocalAsyncExecutionBackend (execution/local_async.py) and the           *)
(* idempotency ledger it asks (execution/idempotency.py): a bounded queue, *)
(* a pool of worker coroutines, the jobs and futures of the submitted runs *)
(* and what the state store holds of each run.                             *)
(*                                                                         *)
(* One event loop runs everything, so a step goes from one suspension to   *)
(* the next.  The in-memory and the SQLite store never suspend their       *)
(* caller: a submission, a cancellation and the settling of a result are   *)
(* one step each.  A worker is suspended while it waits for the queue and  *)
(* while the runtime executes its run; shutdown is suspended while it      *)
(* waits for active runs and while it gathers the workers.                 *)
(***************************************************************************)
EXTENDS Naturals, Sequences, FiniteSets

CONSTANTS
    Runs,            \* the run identifiers the service hands out
    Keys,            \* hashes of idempotency keys
    MaxWorkers,      \* bound on the worker coroutines that exist at once
    MaxConcurrency,  \* max_concurrency, the size of the pool
    MaxQueue,        \* max_queue_size
    MaxSubmissions,  \* bound on the accepted submissions
    Env,             \* which of "raise" and "restart" happen
    NONE             \* Python's None, and the sentinel that stops a worker

Workers == 1 .. MaxWorkers
JobStatus == {"queued", "running", "waiting_for_human",
              "completed", "failed", "cancelled"}
StoredStatus == {"idle", "running", "paused_for_human",
                 "completed", "failed", "cancelled"}
Terminal == {"completed", "failed", "cancelled"}

Item == [run : Runs, kind : {"run", "resume"},
         fut : 1 .. MaxSubmissions, key : Keys \cup {NONE}]
Job == [status : JobStatus, error : BOOLEAN]
Stored == [status : StoredStatus, requires_human : BOOLEAN]
Record == [fut : 0 .. MaxSubmissions, completed : BOOLEAN]
Slot == [at : {"gone", "queue", "runtime"},
         item : Item \cup {NONE}, cancel : BOOLEAN]

ASSUME SizesAssumption ==
    /\ MaxConcurrency \in Nat \ {0}
    /\ MaxWorkers \in Nat
    /\ MaxQueue \in Nat \ {0}
    /\ MaxSubmissions \in Nat
    /\ Env \subseteq {"raise", "restart"}

ASSUME NoneAssumption ==
    NONE \notin Runs \cup Keys \cup Workers \cup Item \cup Job \cup Stored \cup Record

VARIABLES
    started,      \* _is_started
    stopping,     \* "no", or where shutdown() is: "waiting" or "gathering"
    closed,       \* a shutdown has ended
    pool,         \* _workers, the coroutines the backend knows of
    worker,       \* where each coroutine is, its item, a cancel() in flight
    queue,        \* _queue
    jobs,         \* _jobs
    cancelled,    \* _cancelled_runs and the jobs' is_cancelled
    active,       \* _active_tasks
    futures,      \* _futures, by the number of the submission; 0 is none
    answered,     \* the submissions whose future is done
    submissions,  \* how many submissions were accepted
    ledger,       \* the ledger's _records
    stored,       \* the state store's copy of each run
    raced         \* history: the runs decided on while a worker or the queue
                  \* still carried an earlier submission of theirs

vars == <<started, stopping, closed, pool, worker, queue, jobs, cancelled,
          active, futures, answered, submissions, ledger, stored, raced>>
phase == <<started, stopping, closed, pool>>
intake == <<futures, submissions, raced>>

Gone == [at |-> "gone", item |-> NONE, cancel |-> FALSE]
Waiting == [at |-> "queue", item |-> NONE, cancel |-> FALSE]
Executing(i) == [at |-> "runtime", item |-> i, cancel |-> FALSE]

Live == {w \in Workers : worker[w].at # "gone"}
Queued == {queue[n] : n \in DOMAIN queue} \ {NONE}
InHand == {worker[w].item : w \in Workers} \ {NONE}

AtRest(r) == \A i \in Queued \cup InHand : i.run # r

\* Mutant: the capacity is not looked at.
FullNever == FALSE

Full == Len(queue) >= MaxQueue

-----------------------------------------------------------------------------
(* What several handlers do.                                               *)

\* Mutant: every submission starts a pool.
NeedsWorkersAlways == TRUE

\* start() returns early only if the pool it knows of is not empty and alive.
NeedsWorkers == ~(started /\ pool # {} /\ pool \subseteq Live)

EnsureStarted ==
    IF NeedsWorkers
    THEN /\ \E fresh \in SUBSET (Workers \ Live) :
              /\ Cardinality(fresh) = MaxConcurrency
              /\ \A w \in fresh, v \in (Workers \ Live) \ fresh : w < v
              /\ pool' = fresh
              /\ worker' = [w \in Workers |->
                               IF w \in fresh THEN Waiting ELSE worker[w]]
         /\ started' = TRUE
         /\ UNCHANGED <<stopping, closed>>
    ELSE UNCHANGED <<phase, worker>>

\* Calls come in while the backend is not shutting down, and after a shutdown
\* only where the environment restarts it.
Admits == stopping = "no" /\ (closed => "restart" \in Env)

\* InMemoryIdempotencyLedger.complete for the keys of some items.
Complete(items) ==
    ledger' = [k \in Keys |->
                  IF \E i \in items : i.key = k
                  THEN [ledger[k] EXCEPT !.completed = TRUE]
                  ELSE ledger[k]]

\* _finalize_cancelled of some items; every submitted run has a stored state.
Finalize(items) ==
    LET ended == {i.run : i \in items}
    IN  /\ jobs' = [r \in Runs |-> IF r \in ended
                                   THEN [jobs[r] EXCEPT !.status = "cancelled"]
                                   ELSE jobs[r]]
        /\ cancelled' = cancelled \cup ended
        /\ stored' = [r \in Runs |-> IF r \in ended
                                     THEN [stored[r] EXCEPT !.status = "cancelled"]
                                     ELSE stored[r]]
        /\ answered' = answered \cup {i.fut : i \in items}
        /\ Complete(items)

-----------------------------------------------------------------------------
(* Submissions.                                                            *)

Enqueue(r, kind, k) ==
    /\ submissions < MaxSubmissions
    /\ submissions' = submissions + 1
    /\ futures' = [futures EXCEPT ![r] = submissions + 1]
    /\ queue' = Append(queue, [run |-> r, kind |-> kind,
                               fut |-> submissions + 1, key |-> k])

\* Mutant: the key is claimed in a record that is not kept.
ClaimNothing(k, fut) == ledger

Claim(k, fut) == [ledger EXCEPT ![k] = [fut |-> fut, completed |-> FALSE]]

\* The key is claimed, the run is stored as IDLE and enqueued.
AcceptRun(r, k) ==
    /\ Admits
    /\ stored[r] = NONE
    /\ k \in Keys => ledger[k] = NONE
    /\ ~Full
    /\ EnsureStarted
    /\ Enqueue(r, "run", k)
    /\ ledger' = IF k \in Keys THEN Claim(k, submissions + 1) ELSE ledger
    /\ stored' = [stored EXCEPT ![r] = [status |-> "idle", requires_human |-> FALSE]]
    /\ jobs' = [jobs EXCEPT ![r] = [status |-> "queued", error |-> FALSE]]
    /\ UNCHANGED <<cancelled, active, answered, raced>>

\* The queue is full, and the key was claimed before it was looked at.  The
\* record holds the future of no submission.
RejectRun(k) ==
    /\ Admits
    /\ ledger[k] = NONE
    /\ Full
    /\ EnsureStarted
    /\ ledger' = Claim(k, 0)
    /\ UNCHANGED <<queue, jobs, cancelled, active, intake, answered, stored>>

\* Every other call that submits nothing: it joins the holder of its key, or
\* is refused after start().
SubmitNothing ==
    /\ Admits
    /\ EnsureStarted
    /\ UNCHANGED <<queue, jobs, cancelled, active, intake, answered, ledger, stored>>

\* Mutant: the terminal statuses are not looked at.
ResumableOnFlag(r) == stored[r] # NONE /\ stored[r].requires_human

Resumable(r) ==
    /\ stored[r] # NONE
    /\ stored[r].requires_human
    /\ stored[r].status \notin Terminal

\* A reviewer's decision.  The flag and the status are looked at, and not
\* whether an earlier decision is still queued or executed.
SubmitResume(r) ==
    /\ Admits
    /\ Resumable(r)
    /\ ~Full
    /\ EnsureStarted
    /\ Enqueue(r, "resume", NONE)
    /\ jobs' = [jobs EXCEPT ![r].status = "queued"]
    /\ cancelled' = cancelled \ {r}
    /\ raced' = IF AtRest(r) THEN raced ELSE raced \cup {r}
    /\ UNCHANGED <<active, answered, ledger, stored>>

\* Mutant: the status of the stored run is not looked at.
Stoppable(s) == TRUE
Cancellable(s) == s.status \notin Terminal

\* Mutant: the job is not told.
JobKept(r) == jobs
JobCancelled(r) == [jobs EXCEPT ![r].status = "cancelled"]

\* An active worker is cancelled and settles the run itself; a run that waits
\* in the queue or for a reviewer is settled here, and its item stays queued.
Cancel(r) ==
    /\ stored[r] # NONE
    /\ cancelled' = cancelled \cup {r}
    /\ IF active[r] # NONE
       THEN /\ worker' = [worker EXCEPT ![active[r]].cancel = TRUE]
            /\ UNCHANGED <<stored, answered, jobs>>
       ELSE /\ IF Cancellable(stored[r])
               THEN /\ stored' = [stored EXCEPT ![r].status = "cancelled"]
                    /\ answered' = answered \cup {futures[r]}
                    /\ jobs' = JobCancelled(r)
               ELSE UNCHANGED <<stored, answered, jobs>>
            /\ UNCHANGED worker
    /\ UNCHANGED <<phase, queue, active, intake, ledger>>

-----------------------------------------------------------------------------
(* The worker loop.                                                        *)

AtQueue(w) == worker[w].at = "queue" /\ ~worker[w].cancel
InRuntime(w) == worker[w].at = "runtime" /\ ~worker[w].cancel
Move(w, to) == worker' = [worker EXCEPT ![w] = to]

\* A sentinel ends the coroutine.
TakeSentinel(w) ==
    /\ AtQueue(w)
    /\ queue # <<>>
    /\ Head(queue) = NONE
    /\ queue' = Tail(queue)
    /\ Move(w, Gone)
    /\ UNCHANGED <<phase, jobs, cancelled, active, intake, answered, ledger, stored>>

\* Mutant: the cancellation is not looked at.
MayStartAny(i) == TRUE
MayStart(i) == i.run \notin cancelled

\* The item of a run that was cancelled while it waited is settled.
TakeCancelled(w) ==
    /\ AtQueue(w)
    /\ queue # <<>>
    /\ Head(queue) # NONE
    /\ ~MayStart(Head(queue))
    /\ queue' = Tail(queue)
    /\ Finalize({Head(queue)})
    /\ UNCHANGED <<phase, worker, active, intake>>

\* The runtime starts on the item; a resumed run is saved as RUNNING, in the
\* state its submission read.
Take(w) ==
    /\ AtQueue(w)
    /\ queue # <<>>
    /\ Head(queue) # NONE
    /\ MayStart(Head(queue))
    /\ queue' = Tail(queue)
    /\ LET i == Head(queue)
       IN  /\ Move(w, Executing(i))
           /\ active' = [active EXCEPT ![i.run] = w]
           /\ jobs' = [jobs EXCEPT ![i.run].status = "running"]
           /\ stored' = IF i.kind = "resume"
                        THEN [stored EXCEPT ![i.run] =
                                 [status |-> "running", requires_human |-> TRUE]]
                        ELSE stored
    /\ UNCHANGED <<phase, cancelled, intake, answered, ledger>>

\* The final states the runtime may return (see SupervisorGraph).
Result == {[status |-> "paused_for_human", requires_human |-> TRUE],
           [status |-> "paused_for_human", requires_human |-> FALSE],
           [status |-> "completed", requires_human |-> FALSE],
           [status |-> "failed", requires_human |-> FALSE],
           [status |-> "failed", requires_human |-> TRUE]}
JobOf == [paused_for_human |-> "waiting_for_human",
          completed |-> "completed", failed |-> "failed"]

\* The runtime returns: the result is stored and published, the future and the
\* key are answered, the worker is free.
Finish(w) ==
    /\ InRuntime(w)
    /\ \E result \in Result :
          LET i == worker[w].item
          IN  /\ stored' = [stored EXCEPT ![i.run] = result]
              /\ jobs' = [jobs EXCEPT ![i.run].status = JobOf[result.status]]
              /\ answered' = answered \cup {i.fut}
              /\ Complete({i})
              /\ active' = [active EXCEPT ![i.run] = NONE]
    /\ Move(w, Waiting)
    /\ UNCHANGED <<phase, queue, cancelled, intake>>

\* The runtime raises: the job fails, the key is released, and what is stored
\* under the run's identifier stays as it was.
Raise(w) ==
    /\ "raise" \in Env
    /\ InRuntime(w)
    /\ LET i == worker[w].item
       IN  /\ jobs' = [jobs EXCEPT ![i.run] = [status |-> "failed", error |-> TRUE]]
           /\ answered' = answered \cup {i.fut}
           /\ ledger' = [k \in Keys |-> IF k = i.key THEN NONE ELSE ledger[k]]
           /\ active' = [active EXCEPT ![i.run] = NONE]
    /\ Move(w, Waiting)
    /\ UNCHANGED <<phase, queue, cancelled, intake, stored>>

\* The cancellation reaches the worker in the runtime.
Cancelled(w) ==
    /\ worker[w].at = "runtime"
    /\ worker[w].cancel
    /\ Finalize({worker[w].item})
    /\ active' = [active EXCEPT ![worker[w].item.run] = NONE]
    /\ Move(w, Waiting)
    /\ UNCHANGED <<phase, queue, intake>>

\* The cancellation reaches the worker at the queue.
Stop(w) ==
    /\ worker[w].at = "queue"
    /\ worker[w].cancel
    /\ Move(w, Gone)
    /\ UNCHANGED <<phase, queue, jobs, cancelled, active, intake,
                   answered, ledger, stored>>

WorkerStep(w) ==
    \/ TakeSentinel(w) \/ TakeCancelled(w) \/ Take(w) \/ Finish(w)
    \/ Raise(w) \/ Cancelled(w) \/ Stop(w)

-----------------------------------------------------------------------------
(* shutdown().                                                             *)

\* Mutant: the queue is emptied and its items are forgotten.
DrainedNone == {}
Drained == Queued

\* What waits in the queue is cancelled.
Drain ==
    /\ started
    /\ stopping = "no"
    /\ stopping' = "waiting"
    /\ queue' = <<>>
    /\ Finalize(Drained)
    /\ UNCHANGED <<started, closed, pool, worker, active, intake>>

\* Mutant: the workers are cancelled and left no sentinels.
NoSentinels(space) == <<>>

\* One for each worker of the pool, while there is room.
Sentinels(space) ==
    [n \in 1 .. (IF Cardinality(pool) < space THEN Cardinality(pool) ELSE space)
        |-> NONE]

\* No run is active any more, or the timeout is over: active runs and all
\* workers are cancelled.
CancelWorkers ==
    /\ stopping = "waiting"
    /\ stopping' = "gathering"
    /\ queue' = queue \o Sentinels(MaxQueue - Len(queue))
    /\ worker' = [w \in Workers |->
          IF w \in Live /\ (w \in pool \/ \E r \in Runs : active[r] = w)
          THEN [worker[w] EXCEPT !.cancel = TRUE]
          ELSE worker[w]]
    /\ UNCHANGED <<started, closed, pool, jobs, cancelled, active, intake,
                   answered, ledger, stored>>

\* Mutant: the workers are cancelled and not waited for.
EndShutdownUngathered ==
    /\ stopping = "gathering"
    /\ pool' = {}
    /\ active' = [r \in Runs |-> NONE]
    /\ started' = FALSE
    /\ stopping' = "no"
    /\ closed' = TRUE
    /\ UNCHANGED <<worker, queue, jobs, cancelled, intake, answered, ledger, stored>>

\* All workers of the pool have ended.
EndShutdown ==
    /\ stopping = "gathering"
    /\ pool \cap Live = {}
    /\ pool' = {}
    /\ active' = [r \in Runs |-> NONE]
    /\ started' = FALSE
    /\ stopping' = "no"
    /\ closed' = TRUE
    /\ UNCHANGED <<worker, queue, jobs, cancelled, intake, answered, ledger, stored>>

-----------------------------------------------------------------------------
Init ==
    /\ started = FALSE
    /\ stopping = "no"
    /\ closed = FALSE
    /\ pool = {}
    /\ worker = [w \in Workers |-> Gone]
    /\ queue = <<>>
    /\ jobs = [r \in Runs |-> NONE]
    /\ cancelled = {}
    /\ active = [r \in Runs |-> NONE]
    /\ futures = [r \in Runs |-> 0]
    /\ answered = {}
    /\ submissions = 0
    /\ ledger = [k \in Keys |-> NONE]
    /\ stored = [r \in Runs |-> NONE]
    /\ raced = {}

Client ==
    \/ \E r \in Runs : \/ \E k \in Keys \cup {NONE} : AcceptRun(r, k)
                       \/ SubmitResume(r)
                       \/ Cancel(r)
    \/ \E k \in Keys : RejectRun(k)
    \/ SubmitNothing

Shutdown == Drain \/ CancelWorkers \/ EndShutdown

Next == Client \/ Shutdown \/ \E w \in Workers : WorkerStep(w)

Spec == Init /\ [][Next]_vars

\* The event loop resumes every coroutine that can go on, a run that executes
\* comes to an end (see SupervisorGraph), and shutdown() is driven to its end.
Fairness ==
    /\ \A w \in Workers : WF_vars(WorkerStep(w))
    /\ WF_vars(CancelWorkers)
    /\ WF_vars(EndShutdown)

FairSpec == Spec /\ Fairness

-----------------------------------------------------------------------------
(* Properties.                                                             *)

\* The type of the state; the queue keeps its capacity.
TypeOK ==
    /\ started \in BOOLEAN
    /\ stopping \in {"no", "waiting", "gathering"}
    /\ closed \in BOOLEAN
    /\ pool \in SUBSET Workers
    /\ worker \in [Workers -> Slot]
    /\ queue \in Seq(Item \cup {NONE})
    /\ Len(queue) <= MaxQueue
    /\ jobs \in [Runs -> Job \cup {NONE}]
    /\ cancelled \in SUBSET Runs
    /\ active \in [Runs -> Workers \cup {NONE}]
    /\ futures \in [Runs -> 0 .. MaxSubmissions]
    /\ answered \in SUBSET (1 .. MaxSubmissions)
    /\ submissions \in 0 .. MaxSubmissions
    /\ ledger \in [Keys -> Record \cup {NONE}]
    /\ stored \in [Runs -> Stored \cup {NONE}]
    /\ raced \in SUBSET Runs

\* The work an idempotency key stands for exists once: whoever carries the key
\* holds its open record, so no second run of the key is queued or executed
\* and none is carried after the key's result is known.
OneRunPerKey ==
    \A i \in Queued \cup InHand :
        i.key \in Keys => ledger[i.key] = [fut |-> i.fut, completed |-> FALSE]

\* local_async.py:31: the pool has max_concurrency workers while it runs.
FixedPool ==
    started /\ stopping = "no" => Cardinality(Live) = MaxConcurrency

\* A run whose decisions did not overlap is executed by one worker at a time,
\* the one a cancellation reaches.
OneWorkerPerRun ==
    \A w \in Workers :
        worker[w].at = "runtime" /\ worker[w].item.run \notin raced =>
            active[worker[w].item.run] = w

\* No worker goes on with a run whose result is stored, unless decisions on
\* the run overlapped.
NoWorkAfterResult ==
    \A i \in InHand : i.run \notin raced => stored[i.run].status \notin Terminal

\* At rest the job tells what the store tells, unless the runtime raised,
\* however decisions, cancellations and workers raced.
JobMatchesStore ==
    \A r \in Runs :
        stored[r] # NONE /\ AtRest(r) /\ ~jobs[r].error =>
            jobs[r].status = IF stored[r].status = "paused_for_human"
                             THEN "waiting_for_human"
                             ELSE stored[r].status

\* The stored result of a run whose decisions did not overlap is final,
\* whatever is cancelled, finished or drained.
ResultIsFinal ==
    [][\A r \in Runs \ raced :
          stored[r] # NONE /\ stored[r].status \in Terminal =>
              UNCHANGED stored[r]]_vars

\* Every accepted submission is answered, by its result, by a cancellation or
\* by the shutdown: there is always a moment to come when no client waits (the
\* submissions are bounded, and what is answered stays so).
EverySubmissionAnswered == []<>(answered = 1 .. submissions)

\* A shutdown comes to its end.
ShutdownEnds == stopping # "no" ~> stopping = "no"

\* What the documentation says and the code does not do.

\* local_async.py:329 asks the client to retry later and idempotency.py:37 lets
\* it wait on the one submission in flight: somebody must be in flight.
OpenKeyIsInFlight ==
    \A k \in Keys :
        ledger[k] # NONE /\ ~ledger[k].completed =>
            \E i \in Queued \cup InHand : i.key = k

\* local_async.py:407 says that a run in a terminal status cannot be resumed;
\* the status is looked at when the decision is submitted, not when it is taken.
TerminalRunIsNotResumed ==
    [][\A r \in Runs :
          stored[r] # NONE /\ stored[r].status \in Terminal =>
              stored'[r].status # "running"]_vars
=============================================================================
