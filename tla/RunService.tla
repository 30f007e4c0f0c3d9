----------------------------- MODULE RunService -----------------------------
(***************************************************************************)
(* One run as its clients see it: OrchestrationService (services/          *)
(* orchestration_service.py) with its event queues, the worker, the        *)
(* submission, the decisions and the cancellations of the run in           *)
(* execution/local_async.py, and the state store they all write to.        *)
(*                                                                         *)
(* "loop" is the coroutine that has the event loop.  A coroutine keeps it  *)
(* through the calls of a store that does not suspend, so that its steps   *)
(* up to its next suspension are one; with PostgreSQL it gives it up       *)
(* before and after each of them.  A label is the call a coroutine has     *)
(* issued, or the code it goes on with.                                    *)
(*                                                                         *)
(* The worker runs the graph under a run_id of the runtime's own (Inner)   *)
(* and copies the result to the one the client knows (Public).  One worker *)
(* takes the items of the run, one after the other.  Reviewers decide when *)
(* they like: a decision is accepted while another is queued or executed.  *)
(***************************************************************************)
EXTENDS StateStores, FiniteSets

CONSTANTS
    Public, Inner,   \* the client's run_id and the runtime's
    Stores,          \* the kinds of store considered
    Subscribers,     \* clients of the event stream
    MaxSubscribers,  \* max_subscribers_per_run
    QueueSize,       \* the capacity of a subscriber's queue
    Reviewers,       \* clients that decide, once each
    Cancellers,      \* clients that ask for the cancellation
    Deadline,        \* the synchronous client, whose patience ends
    Deciders,        \* bound on the decisions: who decides, for each store
    MaxFaults        \* bound on the errors of the database

ASSUME ServiceAssumption ==
    /\ RunIds = {Public, Inner} /\ Public # Inner
    /\ Stores \subseteq StoreKinds /\ Stores # {}
    /\ MaxSubscribers \in Nat \ {0}
    /\ QueueSize \in Nat \ {0}
    /\ Deciders \in [Stores -> SUBSET Reviewers]
    /\ MaxFaults \in Nat
    /\ IsFiniteSet(Subscribers)
    /\ Deadline \notin Cancellers

Event == {"run_started", "human_review_required", "human_decision_submitted",
          "run_completed", "run_failed", "run_cancelled"}
EndEvent == {"run_completed", "run_failed", "run_cancelled"}

\* CRITICAL_EVENTS, as far as the backend publishes them.
Critical == Event

Askers == Cancellers \cup {Deadline}

Clients == Subscribers \cup Askers \cup Reviewers

ASSUME CoroutinesAssumption == {"free", "submit", "worker"} \cap Clients = {}
ASSUME AskersAssumption ==
    /\ Subscribers \cap Askers = {}
    /\ Reviewers \cap (Subscribers \cup Askers) = {}

VARIABLES
    store,    \* the kind of store of this deployment
    loop,     \* the coroutine that has the event loop, or "free"
    db,       \* what the store holds
    faults,   \* the errors of the database so far
    room,     \* whether the execution queue has room
    submit,   \* where submit_run is
    items,    \* the run's items in the execution queue
    worker,   \* the worker that serves the run
    flagged,  \* _cancelled_runs and the job's is_cancelled
    future,   \* the futures of the submission and of the decisions
    latest,   \* whose future _futures has for the run
    decide,   \* where each submit_resume is, and the status it read
    cancel,   \* where each cancellation is
    log,      \* the events published, in order
    stream    \* the event streams and their queues

\* Not in the code: a decision was accepted before the worker was done with
\* what was accepted before it.
VARIABLE overlapped

queued == <<items, latest, overlapped>>
vars == <<store, loop, db, faults, room, submit, queued, worker, flagged,
          future, decide, cancel, log, stream>>

\* The worker's labels: calls of the store, and code that calls nothing.
Calls == {"begin", "first", "mark", "save_failed", "end", "checkpoint", "list", "move",
          "fin_get", "fin_put"}
Finalizing == {"fin_get", "fin_put", "fin_tell"}
WorkerLabel == Calls \cup {"waiting", "graph", "settle", "raised", "fin_tell", "lost"}
\* An item is the submission's or a decision's.
Items == {"run"} \cup Reviewers

ASSUME NoneIsNoItem == NONE \notin Items /\ "run" \notin Reviewers

Registering == {"opened", "waiting", "polling", "leaving"}
StreamLabel == {"new", "reading", "registering", "ended", "left", "refused"}
                   \cup Registering

Idle == [at |-> "waiting", item |-> NONE, active |-> FALSE, cancelled |-> FALSE,
         todo |-> <<>>, result |-> NONE]
NewStream == [at |-> "new", seen |-> NONE, queue |-> <<>>]
Registered == {s \in Subscribers : stream[s].at \in Registering}

Init ==
    /\ store \in Stores
    /\ loop = "free" /\ db = EmptyDatabase /\ faults = 0
    /\ room = TRUE /\ submit = "new"
    /\ items = <<>> /\ latest = "run" /\ overlapped = FALSE
    /\ worker = Idle /\ flagged = FALSE /\ future = [i \in Items |-> "none"]
    /\ decide = [d \in Reviewers |-> [at |-> "new", seen |-> NONE]]
    /\ cancel = [c \in Askers |-> "new"]
    /\ log = <<>>
    /\ stream = [s \in Subscribers |-> NewStream]

-----------------------------------------------------------------------------
(* The event loop, the store's errors and the event queues.                *)

Turn(c) == loop \in {"free", c}

\* The coroutine awaits a call of the store, or goes on after one.
Await(c) == loop' = IF Suspends(store) THEN "free" ELSE c

\* It awaits something else, or it ends.
Suspend == loop' = "free"

Fault ==
    /\ CanFail(store)
    /\ faults < MaxFaults
    /\ faults' = faults + 1

\* Mutant: the queue has no bound.
OfferUnbounded(q, n) == Append(q, n)

\* Mutant: a full queue loses the event.
OfferDropThis(q, n) == IF Len(q) < QueueSize THEN Append(q, n) ELSE q

\* put_nowait, or drop the oldest event for a critical one.
Offer(q, n) ==
    IF Len(q) < QueueSize THEN Append(q, n)
    ELSE IF log'[n] \in Critical THEN Append(Tail(q), n) ELSE q

\* _publish_event: a queue holds the numbers of its events in the log.
Publish(e) ==
    /\ log' = Append(log, e)
    /\ stream' = [s \in Subscribers |->
                     IF s \in Registered
                     THEN [stream[s] EXCEPT !.queue = Offer(@, Len(log) + 1)]
                     ELSE stream[s]]

\* Mutant: an exception is not passed on.
AnswerResults(i, outcome) ==
    future' = [future EXCEPT ![i] = IF @ = "pending" /\ outcome = "result"
                                    THEN outcome ELSE @]

\* set_result or set_exception, unless the future is done.
Answer(i, outcome) ==
    future' = [future EXCEPT ![i] = IF @ = "pending" THEN outcome ELSE @]
Saves(r, status) == db' = SaveState(db, r, status)

silent == <<log, stream>>
backend == <<queued, worker, flagged, future>>

-----------------------------------------------------------------------------
(* submit_run.                                                             *)

\* Mutant: the capacity is not looked at.
AdmitAny == TRUE
Admit == room

SubmitCheck ==
    /\ submit = "new" /\ Turn("submit")
    /\ IF Admit THEN submit' = "saving" /\ Await("submit")
                ELSE submit' = "refused" /\ Suspend
    /\ UNCHANGED <<store, db, faults, room, backend, decide, cancel, silent>>

SubmitSave ==
    /\ submit = "saving" /\ Turn("submit")
    /\ Saves(Public, "idle")
    /\ submit' = "saved"
    /\ Await("submit")
    /\ UNCHANGED <<store, faults, room, backend, decide, cancel, silent>>

\* put_nowait raises when others took the room while the state was saved.
SubmitPut ==
    /\ submit = "saved" /\ Turn("submit")
    /\ future' = [future EXCEPT !["run"] = "pending"]
    /\ IF room
       THEN /\ submit' = "accepted" /\ items' = Append(items, "run")
            /\ Publish("run_started")
       ELSE /\ submit' = "raised"
            /\ UNCHANGED <<items, silent>>
    /\ Suspend
    /\ UNCHANGED <<store, db, faults, room, latest, overlapped, worker, flagged,
                   decide, cancel>>

SubmitFault ==
    /\ submit = "saving" /\ Turn("submit")
    /\ Fault
    /\ submit' = "refused"
    /\ Suspend
    /\ UNCHANGED <<store, db, room, backend, decide, cancel, silent>>

\* Other submissions fill the queue, and workers empty it.
OthersQueue ==
    /\ submit \in {"new", "saving", "saved"} /\ loop = "free"
    /\ room' = ~room
    /\ UNCHANGED <<store, loop, db, faults, submit, backend, decide, cancel,
                   silent>>

Submit == SubmitCheck \/ SubmitSave \/ SubmitPut \/ SubmitFault

-----------------------------------------------------------------------------
(* The worker.                                                             *)

\* The run_id under which the graph saves what it does.
Owner == IF worker.item = "run" THEN Inner ELSE Public

WorkerAt(label) ==
    /\ worker.at = label /\ ~worker.cancelled
    /\ Turn("worker")

Goto(label) == worker' = [worker EXCEPT !.at = label]
untouched == <<store, faults, room, submit, queued, flagged, decide, cancel>>

Take ==
    /\ WorkerAt("waiting") /\ items # <<>>
    /\ worker' = [Idle EXCEPT !.item = Head(items),
                              !.active = ~flagged,
                              !.at = IF flagged THEN "fin_get"
                                     ELSE IF Head(items) = "run" THEN "begin" ELSE "mark"]
    /\ items' = Tail(items)
    /\ Await("worker")
    /\ UNCHANGED <<store, db, faults, room, submit, latest, overlapped, flagged,
                   future, decide, cancel, silent>>

\* runtime.run saves a state of its own, and then checkpoint 0.
Begin ==
    /\ WorkerAt("begin")
    /\ Saves(Inner, "running")
    /\ Goto("first")
    /\ Await("worker")
    /\ UNCHANGED <<untouched, future, silent>>

FirstCheckpoint ==
    /\ WorkerAt("first")
    /\ db' = NewCheckpoint(db, Inner)
    /\ Goto("graph")
    /\ Suspend
    /\ UNCHANGED <<untouched, future, silent>>

\* A resumed run is saved as RUNNING before the graph goes on.
Mark ==
    /\ WorkerAt("mark")
    /\ Saves(Public, "running")
    /\ Goto("graph")
    /\ Suspend
    /\ UNCHANGED <<untouched, future, silent>>

GraphReturns ==
    /\ WorkerAt("graph")
    /\ \E result \in {"completed", "failed", "paused"} :
          worker' = [worker EXCEPT !.at = "end", !.result = result]
    /\ Await("worker")
    /\ UNCHANGED <<untouched, db, future, silent>>

\* runtime.run saves a failed state before it raises, a resumption only raises.
GraphRaises ==
    /\ WorkerAt("graph")
    /\ Goto(IF worker.item = "run" THEN "save_failed" ELSE "raised")
    /\ Await("worker")
    /\ UNCHANGED <<untouched, db, future, silent>>

SaveFailed ==
    /\ WorkerAt("save_failed")
    /\ Saves(Inner, "failed")
    /\ Goto("raised")
    /\ Await("worker")
    /\ UNCHANGED <<untouched, future, silent>>

End ==
    /\ WorkerAt("end")
    /\ Saves(Owner, worker.result)
    /\ Goto("checkpoint")
    /\ Await("worker")
    /\ UNCHANGED <<untouched, future, silent>>

LastCheckpoint ==
    /\ WorkerAt("checkpoint")
    /\ db' = NewCheckpoint(db, Owner)
    /\ Goto(IF worker.item = "run" THEN "list" ELSE "settle")
    /\ Await("worker")
    /\ UNCHANGED <<untouched, future, silent>>

\* The checkpoints of the runtime's run are saved again under the client's.
ListOwn ==
    /\ WorkerAt("list")
    /\ worker' = [worker EXCEPT !.at = "move", !.todo = ListCheckpoints(db, Inner)]
    /\ Await("worker")
    /\ UNCHANGED <<untouched, db, future, silent>>

\* Mutant: the last checkpoint is not moved.
MoveButLast ==
    /\ WorkerAt("move") /\ Len(worker.todo) > 1
    /\ db' = SaveCheckpointAgain(store, db, Head(worker.todo), Public)
    /\ worker' = [worker EXCEPT !.todo = IF Len(@) = 2 THEN <<>> ELSE Tail(@)]
    /\ Await("worker")
    /\ UNCHANGED <<untouched, future, silent>>

Move ==
    /\ WorkerAt("move") /\ worker.todo # <<>>
    /\ db' = SaveCheckpointAgain(store, db, Head(worker.todo), Public)
    /\ worker' = [worker EXCEPT !.todo = Tail(@)]
    /\ Await("worker")
    /\ UNCHANGED <<untouched, future, silent>>

\* Mutant: the state of the client's run is left as it was.
MoveStateForgotten ==
    /\ WorkerAt("move") /\ worker.todo = <<>>
    /\ db' = db
    /\ Goto("settle")
    /\ Await("worker")
    /\ UNCHANGED <<untouched, future, silent>>

MoveState ==
    /\ WorkerAt("move") /\ worker.todo = <<>>
    /\ Saves(Public, worker.result)
    /\ Goto("settle")
    /\ Await("worker")
    /\ UNCHANGED <<untouched, future, silent>>

\* The ledger's lock is free when nobody holds it over a suspension.
Settle ==
    /\ WorkerAt("settle")
    /\ Answer(worker.item, "result")
    /\ Publish(CASE worker.result = "paused" -> "human_review_required"
                 [] worker.result = "completed" -> "run_completed"
                 [] worker.result = "failed" -> "run_failed")
    /\ worker' = Idle
    /\ Suspend
    /\ UNCHANGED <<untouched, db>>

\* An exception is told to the client, and leaves the stored state as it is.
Raised ==
    /\ WorkerAt("raised")
    /\ Answer(worker.item, "error")
    /\ Publish("run_failed")
    /\ worker' = Idle
    /\ Suspend
    /\ UNCHANGED <<untouched, db>>

\* _finalize_cancelled.
FinalizeGet ==
    /\ WorkerAt("fin_get")
    /\ Goto("fin_put")
    /\ Await("worker")
    /\ UNCHANGED <<untouched, db, future, silent>>

FinalizePut ==
    /\ WorkerAt("fin_put")
    /\ Saves(Public, "cancelled")
    /\ Goto("fin_tell")
    /\ Await("worker")
    /\ UNCHANGED <<untouched, future, silent>>

FinalizeTell ==
    /\ WorkerAt("fin_tell")
    /\ Answer(worker.item, "result")
    /\ Publish("run_cancelled")
    /\ worker' = Idle
    /\ Suspend
    /\ UNCHANGED <<untouched, db>>

Lost == [Idle EXCEPT !.at = "lost"]

\* Mutant: a cancellation is not caught.
InterruptedKilled ==
    /\ worker.cancelled /\ loop = "free"
    /\ worker' = Lost
    /\ Suspend
    /\ UNCHANGED <<untouched, db, future, silent>>

\* CancelledError where the worker waits.  In the handlers it has left the try
\* block: the exception ends the worker's loop.
Interrupted ==
    /\ worker.cancelled /\ loop = "free"
    /\ IF worker.at \in Finalizing
       THEN worker' = Lost /\ Suspend
       ELSE /\ worker' = [worker EXCEPT !.at = "fin_get", !.cancelled = FALSE]
            /\ Await("worker")
    /\ UNCHANGED <<untouched, db, future, silent>>

\* An error of the database: runtime.run saves a failed state first if its
\* graph was done, _finalize_cancelled is outside every handler.
WorkerFault ==
    /\ worker.at \in Calls /\ WorkerAt(worker.at)
    /\ Fault
    /\ IF worker.at \in Finalizing
       THEN worker' = Lost /\ Suspend
       ELSE /\ Goto(IF worker.at \in {"end", "checkpoint"} /\ worker.item = "run"
                    THEN "save_failed" ELSE "raised")
            /\ Await("worker")
    /\ UNCHANGED <<store, db, room, submit, queued, flagged, future, decide,
                   cancel, silent>>

Worker ==
    \/ Take \/ Begin \/ FirstCheckpoint \/ Mark \/ GraphReturns \/ GraphRaises \/ SaveFailed
    \/ End \/ LastCheckpoint \/ ListOwn \/ Move \/ MoveState \/ Settle \/ Raised
    \/ FinalizeGet \/ FinalizePut \/ FinalizeTell \/ Interrupted \/ WorkerFault

-----------------------------------------------------------------------------
(* submit_resume: a reviewer's decision.                                   *)

\* The stored statuses of which requires_human may hold: PAUSED, and the RUNNING
\* of a run that was resumed.
Reviewable == {"paused", "running"}

DecideAt(d, label) == decide[d].at = label /\ Turn(d)
DecideDone(d) == decide' = [decide EXCEPT ![d] = [at |-> "done", seen |-> NONE]]

\* A reviewer decides on a run that was submitted.
MayDecide(d) ==
    /\ DecideAt(d, "new") /\ submit = "accepted"
    /\ d \in Deciders[store]

DecideRead(d) ==
    /\ MayDecide(d)
    /\ decide' = [decide EXCEPT ![d] = [at |-> "read", seen |-> GetState(db, Public)]]
    /\ Await(d)
    /\ UNCHANGED <<store, db, faults, room, submit, backend, cancel, silent>>

\* The decision is queued on what was read before the suspension; that another
\* one is queued or executed is not looked at.
DecideQueue(d) ==
    /\ DecideAt(d, "read")
    /\ decide[d].seen \in Reviewable
    /\ DecideDone(d)
    /\ items' = Append(items, d) /\ latest' = d /\ flagged' = FALSE
    /\ overlapped' = (overlapped \/ items # <<>> \/ worker.item # NONE)
    /\ future' = [future EXCEPT ![d] = "pending"]
    /\ Publish("human_decision_submitted")
    /\ Suspend
    /\ UNCHANGED <<store, db, faults, room, submit, worker, cancel>>

\* The run is not under review, or the queue is full.
DecideRefused(d) ==
    /\ DecideAt(d, "read")
    /\ DecideDone(d)
    /\ Suspend
    /\ UNCHANGED <<store, db, faults, room, submit, backend, cancel, silent>>

DecideFault(d) ==
    /\ MayDecide(d)
    /\ Fault
    /\ DecideDone(d)
    /\ Suspend
    /\ UNCHANGED <<store, db, room, submit, backend, cancel, silent>>

Decide(d) == DecideRead(d) \/ DecideQueue(d) \/ DecideRefused(d) \/ DecideFault(d)

-----------------------------------------------------------------------------
(* cancel_run, for a client that asks and for one whose deadline passed.   *)

CancelAt(c, label) == cancel[c] = label /\ Turn(c)
CancelGoto(c, label) == cancel' = [cancel EXCEPT ![c] = label]

\* POST /runs/{id}/cancel looks at the state before it calls cancel_run.
CancelRoute(c) ==
    /\ c \in Cancellers /\ submit = "accepted" /\ CancelAt(c, "new")
    /\ IF GetState(db, Public) \in Terminal
       THEN CancelGoto(c, "done") /\ Suspend
       ELSE CancelGoto(c, "asked") /\ Await(c)
    /\ UNCHANGED <<store, db, faults, room, submit, backend, decide, silent>>

\* wait_for cancels the future of the submission that timed out.
DeadlinePasses ==
    /\ submit = "accepted" /\ future["run"] = "pending" /\ CancelAt(Deadline, "new")
    /\ future' = [future EXCEPT !["run"] = "cancelled"]
    /\ CancelGoto(Deadline, "asked")
    /\ Suspend
    /\ UNCHANGED <<store, db, faults, room, submit, queued, worker, flagged,
                   decide, silent>>

CancelAsk(c) ==
    /\ CancelAt(c, "asked")
    /\ flagged' = TRUE
    /\ IF worker.active
       THEN /\ worker' = [worker EXCEPT !.cancelled = TRUE]
            /\ CancelGoto(c, "done") /\ Suspend
       ELSE CancelGoto(c, "get") /\ Await(c) /\ UNCHANGED worker
    /\ UNCHANGED <<store, db, faults, room, submit, queued, future, decide,
                   silent>>

\* Mutant: whatever the stored status is.
CancellableAny == {"idle", "paused", "running"} \cup Terminal
Cancellable == {"idle", "paused", "running"}

CancelGet(c) ==
    /\ CancelAt(c, "get")
    /\ IF GetState(db, Public) \in Cancellable
       THEN CancelGoto(c, "put") /\ Await(c)
       ELSE CancelGoto(c, "done") /\ Suspend
    /\ UNCHANGED <<store, db, faults, room, submit, backend, decide, silent>>

CancelPut(c) ==
    /\ CancelAt(c, "put")
    /\ Saves(Public, "cancelled")
    /\ CancelGoto(c, "tell") /\ Await(c)
    /\ UNCHANGED <<store, faults, room, submit, backend, decide, silent>>

CancelTell(c) ==
    /\ CancelAt(c, "tell")
    /\ Answer(latest, "result")
    /\ Publish("run_cancelled")
    /\ CancelGoto(c, "done") /\ Suspend
    /\ UNCHANGED <<store, db, faults, room, submit, queued, worker, flagged,
                   decide>>

CancelFault(c) ==
    /\ cancel[c] \in {"get", "put"} /\ Turn(c)
    /\ Fault
    /\ CancelGoto(c, "done") /\ Suspend
    /\ UNCHANGED <<store, db, room, submit, backend, decide, silent>>

CancelGoesOn(c) ==
    CancelAsk(c) \/ CancelGet(c) \/ CancelPut(c) \/ CancelTell(c) \/ CancelFault(c)
Cancel(c) == CancelRoute(c) \/ CancelGoesOn(c)

-----------------------------------------------------------------------------
(* subscribe_events and the generator of GET /runs/{id}/events.            *)

StreamAt(s, label) == stream[s].at = label /\ Turn(s)
others == <<store, db, room, submit, queued, worker, flagged, future, decide,
            cancel, log>>

\* A stream that is over is taken out of the queues of its run.
Close(s, label) == stream' = [stream EXCEPT ![s] = [NewStream EXCEPT !.at = label]]

\* The route answers 404 for an unknown run.
Open(s) ==
    /\ StreamAt(s, "new")
    /\ IF GetState(db, Public) = NONE
       THEN Close(s, "refused")
       ELSE stream' = [stream EXCEPT ![s].at = "reading"]
    /\ Suspend
    /\ UNCHANGED <<others, faults>>

Read(s) ==
    /\ StreamAt(s, "reading")
    /\ stream' = [stream EXCEPT ![s].at = "registering",
                                ![s].seen = GetState(db, Public)]
    /\ Await(s)
    /\ UNCHANGED <<others, faults>>

\* No suspension between the limit and the registration; then run_status.
\* Other clients may hold the places of the run.
Register(s) ==
    /\ StreamAt(s, "registering")
    /\ \E elsewhere \in {0, MaxSubscribers} :
          IF elsewhere + Cardinality(Registered) >= MaxSubscribers
          THEN Close(s, "refused")
          ELSE stream' = [stream EXCEPT ![s].at = "opened"]
    /\ Suspend
    /\ UNCHANGED <<others, faults>>

\* A run that had ended when it was read: stream_closed.
Opened(s) ==
    /\ StreamAt(s, "opened")
    /\ stream' = [stream EXCEPT ![s].at =
                     IF stream[s].seen \in Terminal THEN "leaving" ELSE "waiting"]
    /\ Suspend
    /\ UNCHANGED <<others, faults>>

\* Mutant: a review closes the stream.
LastsUntilReview == EndEvent \cup {"human_review_required"}
LastsUntil == EndEvent

TakeEvent(s) ==
    /\ StreamAt(s, "waiting") /\ stream[s].queue # <<>>
    /\ stream' = [stream EXCEPT
                     ![s].queue = Tail(@),
                     ![s].at = IF log[Head(stream[s].queue)] \in LastsUntil
                               THEN "leaving" ELSE "waiting"]
    /\ Suspend
    /\ UNCHANGED <<others, faults>>

\* wait_for gives up; the coroutine goes on in a later turn of the loop.
Timeout(s) ==
    /\ StreamAt(s, "waiting") /\ stream[s].queue = <<>>
    /\ stream' = [stream EXCEPT ![s].at = "polling"]
    /\ Suspend
    /\ UNCHANGED <<others, faults>>

\* Mutant: the state is not looked at when nothing comes.
PollNever(s) ==
    /\ StreamAt(s, "polling")
    /\ stream' = [stream EXCEPT ![s].at = "waiting"]
    /\ Suspend
    /\ UNCHANGED <<others, faults>>

Poll(s) ==
    /\ StreamAt(s, "polling")
    /\ stream' = [stream EXCEPT ![s].at =
                     IF GetState(db, Public) \in Terminal THEN "leaving" ELSE "waiting"]
    /\ Suspend
    /\ UNCHANGED <<others, faults>>

Finish(s) ==
    /\ StreamAt(s, "leaving")
    /\ Close(s, "ended")
    /\ Suspend
    /\ UNCHANGED <<others, faults>>

\* The client disconnects.
Leave(s) ==
    /\ stream[s].at \in {"reading", "registering"} \cup Registering /\ loop = "free"
    /\ Close(s, "left")
    /\ Suspend
    /\ UNCHANGED <<others, faults>>

\* get_state raises in the generator.
StreamFault(s) ==
    /\ stream[s].at \in {"new", "reading", "polling"} /\ Turn(s)
    /\ Fault
    /\ Close(s, "left")
    /\ Suspend
    /\ UNCHANGED others

StreamGoesOn(s) ==
    \/ Read(s) \/ Register(s) \/ Opened(s) \/ TakeEvent(s) \/ Timeout(s)
    \/ Poll(s) \/ Finish(s) \/ StreamFault(s)

-----------------------------------------------------------------------------
Next ==
    \/ Submit \/ OthersQueue \/ Worker
    \/ DeadlinePasses
    \/ \E d \in Reviewers : Decide(d)
    \/ \E c \in Askers : Cancel(c)
    \/ \E s \in Subscribers : Open(s) \/ StreamGoesOn(s) \/ Leave(s)

\* Everything is over, but for streams that were never opened.
Spec == Init /\ [][Next]_vars

\* A coroutine that can go on does: the graph returns, a client reads what it
\* is sent, the timer of a poll fires.  Nobody has to submit, decide, cancel,
\* subscribe or leave.
FairSpec ==
    /\ Spec
    /\ WF_vars(Submit) /\ WF_vars(Worker)
    /\ \A d \in Reviewers : WF_vars(decide[d].at = "read" /\ Decide(d))
    /\ \A c \in Askers : WF_vars(CancelGoesOn(c))
    /\ \A s \in Subscribers : WF_vars(StreamGoesOn(s))
-----------------------------------------------------------------------------
(* Properties.                                                             *)

Stored == GetState(db, Public)
HasEnd(s) == \E n \in DOMAIN stream[s].queue : log[stream[s].queue[n]] \in EndEvent
Ended == \E n \in DOMAIN log : log[n] \in EndEvent

\* The variables keep their types, and a queue its capacity.
TypeOK ==
    /\ store \in Stores
    /\ loop \in {"free", "submit", "worker"} \cup Clients
    /\ db \in Database
    /\ faults \in 0 .. MaxFaults
    /\ room \in BOOLEAN /\ flagged \in BOOLEAN
    /\ submit \in {"new", "saving", "saved", "accepted", "refused", "raised"}
    /\ items \in Seq(Items) /\ latest \in Items /\ overlapped \in BOOLEAN
    /\ worker \in [at : WorkerLabel, item : Items \cup {NONE},
                   active : BOOLEAN, cancelled : BOOLEAN, todo : Seq(Nat),
                   result : {"completed", "failed", "paused", NONE}]
    /\ future \in [Items -> {"none", "pending", "result", "error", "cancelled"}]
    /\ decide \in [Reviewers -> [at : {"new", "read", "done"},
                                 seen : Status \cup {NONE}]]
    /\ cancel \in [Askers -> {"new", "asked", "get", "put", "tell", "done"}]
    /\ log \in Seq(Event)
    /\ stream \in [Subscribers -> [at : StreamLabel, seen : Status \cup {NONE},
                                  queue : Seq(Nat)]]
    /\ \A s \in Subscribers : Len(stream[s].queue) <= QueueSize

\* A stream that the service ended belongs to a run that has ended, or whose
\* result was stored when nothing was published of it yet.
NoEarlyEnd ==
    ~Suspends(store) =>
        \A s \in Subscribers : stream[s].at = "ended" => Ended \/ Stored \in Terminal

\* The last event tells what is stored whenever the event loop is free, as long
\* as no store call suspends and no decision overlapped another submission: a
\* result that was announced is there to be read, and a stored result was
\* announced.
EventTellsStore ==
    (loop = "free" /\ ~Suspends(store) /\ ~overlapped /\ log # <<>>) =>
        LET last == log[Len(log)]
        IN  /\ last = "run_completed" => Stored = "completed"
            /\ last = "run_cancelled" => Stored = "cancelled"
            /\ last = "human_review_required" => Stored = "paused"
            /\ Stored \in Terminal => last \in EndEvent
            /\ last = "run_failed" /\ faults = 0 => Stored \notin {"completed", "cancelled"}

\* list_checkpoints of a run that gave a result or paused: all its checkpoints,
\* those that were made under the runtime's run_id too, oldest first.
ListsAll ==
    LET list == ListCheckpoints(db, Public)
    IN  /\ \A n \in 1 .. Len(list) - 1 : list[n] < list[n + 1]
        /\ {list[n] : n \in DOMAIN list} = DOMAIN db.made
        /\ \A cp \in DOMAIN db.made : db.made[cp] = Public

\* So it is with the in-memory store, whatever overlaps, fails or is cancelled.
CheckpointsFollowRun ==
    (~CanFail(store) /\ worker.at = "waiting" /\ Stored \in {"completed", "paused"})
        => ListsAll

\* A worker is lost only to an error of the database or to a second cancellation
\* while it finalizes the first, which needs a store that suspends.
WorkerSurvives ==
    worker.at = "lost" =>
        \/ faults > 0
        \/ Suspends(store) /\ \E c, d \in Askers :
                                  c # d /\ cancel[c] = "done" /\ cancel[d] = "done"

\* A submission that was refused has stored nothing; with a store that suspends
\* the queue can fill up after the run was saved, and the run stays IDLE.
RefusedRunIsNotStored ==
    /\ submit = "refused" => Stored = NONE
    /\ submit = "raised" => Suspends(store) /\ Stored = "idle"

\* A stored result is replaced only where a store call suspends a coroutine
\* between its look at the state and its save, or by the execution of a decision
\* when decisions overlapped: never by the submission's execution, by a
\* cancellation, or by a decision alone.
ResultIsFinal ==
    [][(Stored \in Terminal /\ Stored' # Stored) =>
          \/ Suspends(store)
          \/ overlapped /\ worker.item \in Reviewers]_vars

\* Backpressure never costs a subscriber the end of its run: a queue that gets
\* an end event, or has one of a run that cannot be decided on any more, keeps
\* one until its stream takes it or is over, however decisions overlap.
EndEventKept ==
    [][~Suspends(store) =>
          \A s \in Subscribers :
              (/\ s \in Registered
               /\ \/ log' # log /\ log'[Len(log')] \in EndEvent
                  \/ HasEnd(s) /\ Stored' \notin Reviewable)
              => HasEnd(s)' \/ stream'[s].at \in {"leaving", "ended", "left"}]_vars

\* Every submission and every decision that was accepted is answered, unless the
\* worker is lost.
ClientIsAnswered ==
    \A i \in Items : (submit = "accepted" /\ future[i] = "pending") ~>
                         (future[i] # "pending" \/ worker.at = "lost")

\* When the stored result stays, all streams of the run come to their end, also
\* those that lost the event or were opened too late for it.
StreamsEnd ==
    <>[](Stored \in Terminal) => <>[](Registered = {})

\* What the documentation says and the code does not do.

\* memory/base.py:50 lists all checkpoints of a run, in every store; the SQL
\* stores leave those of its first execution with the runtime's run_id.
AllCheckpointsListed ==
    (worker.at = "waiting" /\ Stored \in {"completed", "paused"}) => ListsAll
=============================================================================
