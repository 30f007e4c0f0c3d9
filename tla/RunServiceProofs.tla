--------------------------- MODULE RunServiceProofs ---------------------------
(***************************************************************************)
(* Proofs about RunService, for every set of subscribers, reviewers and    *)
(* cancellers, every capacity of the queues and every number of faults.    *)
(*                                                                         *)
(* What is stored, published and queued agrees because a coroutine whose   *)
(* store does not suspend has the event loop from its look at the state to *)
(* its save and its event: the invariant says, for each label, what a      *)
(* coroutine at that label may rely on.                                    *)
(***************************************************************************)
EXTENDS RunService, TLAPS

(***************************************************************************)
(* The invariant, in named parts.                                          *)
(***************************************************************************)

\* The items in the execution queue, and those of them that are decisions.
Waiting == {items[n] : n \in DOMAIN items}
DecisionWaits == \E d \in Reviewers : d \in Waiting

\* Until its submission is accepted nobody else knows of the run.
SubmitInv ==
    /\ submit \in {"new", "saving", "refused"} => Stored = NONE
    /\ submit \in {"saved", "raised"} => Stored = "idle"
    /\ submit # "accepted" =>
           /\ items = <<>> /\ ~overlapped /\ worker = Idle /\ log = <<>>
           /\ \A d \in Reviewers : decide[d].at = "new" /\ decide[d].seen = NONE
           /\ \A c \in Askers : cancel[c] = "new"
    /\ submit \in {"saving", "saved"} /\ ~Suspends(store) => loop = "submit" /\ room
    /\ submit = "raised" => Suspends(store)

\* What the worker holds.
WorkerInv ==
    /\ worker.at \in {"waiting", "lost"} => ~worker.active /\ worker.item = NONE
    /\ worker.at \notin {"waiting", "lost"} => worker.item \in Items
    /\ worker.at \notin {"waiting", "lost"} \cup Finalizing => worker.active
    /\ worker.cancelled => worker.active
    /\ worker.at \in {"end", "checkpoint", "list", "move", "settle"} =>
           worker.result \in {"completed", "failed", "paused"}
    /\ worker.at \in {"begin", "first", "save_failed", "list", "move"} => worker.item = "run"
    /\ worker.at = "mark" => worker.item \in Reviewers

\* Each cancellation that reaches a worker is another canceller's.
CancelInv ==
    /\ worker.cancelled \/ (worker.active /\ worker.at \in Finalizing) =>
           \E c \in Askers : cancel[c] = "done"
    /\ worker.cancelled /\ worker.at \in Finalizing =>
           /\ Suspends(store)
           /\ \E c, d \in Askers : c # d /\ cancel[c] = "done" /\ cancel[d] = "done"
    /\ WorkerSurvives

\* Where the store does not suspend, a coroutine between two of its calls has the
\* event loop, and what it read is still so.
Atomic ==
    /\ worker.at \notin {"waiting", "graph", "lost"} => loop = "worker" /\ ~worker.cancelled
    /\ \A d \in Reviewers : decide[d].at = "read" => loop = d /\ decide[d].seen = Stored
    /\ \A c \in Askers : cancel[c] \in {"get", "put", "tell"} =>
           loop = c /\ flagged /\ worker.at \in {"waiting", "lost"}

\* What is stored, label by label.  A decision that overlaps another one finds
\* whatever that one left: then the worker may rely on what it saved itself only.
StoredInv ==
    /\ items # <<>> /\ ~overlapped =>
           /\ worker.at \in {"waiting", "lost"} /\ Tail(items) = <<>>
           /\ DecisionWaits => Stored \in {"paused", "running", "cancelled"}
           /\ Stored = "cancelled" => flagged
    /\ "run" \in Waiting => ~overlapped /\ Stored \in {"idle", "cancelled"}
    /\ worker.item = "run" /\ worker.at \in
           {"begin", "first", "graph", "save_failed", "end", "checkpoint", "list", "move"}
           => Stored = "idle"
    /\ worker.at = "mark" /\ ~overlapped => Stored \in {"paused", "running"}
    /\ worker.item \in Reviewers /\ worker.at \in {"graph", "end"} => Stored = "running"
    /\ worker.item \in Reviewers /\ worker.at = "checkpoint" => Stored = worker.result
    /\ worker.at = "settle" => Stored = worker.result
    /\ worker.at = "raised" /\ faults = 0 => Stored \notin {"completed", "cancelled"}
    /\ worker.at = "raised" /\ worker.item = "run" => Stored = "idle"
    /\ worker.at \in {"fin_get", "fin_put"} /\ (worker.item = "run" \/ ~overlapped)
           => Stored \in Cancellable \cup {"cancelled"}
    /\ worker.at = "fin_tell" => Stored = "cancelled"
    /\ \A c \in Askers : /\ cancel[c] = "put" => Stored \in Cancellable
                         /\ cancel[c] = "tell" => Stored = "cancelled"

LastEvent == IF log = <<>> THEN "nothing" ELSE log[Len(log)]

\* A result that is stored is about to be announced.
Announcing ==
    \/ worker.at \in {"settle", "raised", "fin_tell"}
    \/ worker.at = "checkpoint" /\ worker.item \in Reviewers
    \/ \E c \in Askers : cancel[c] = "tell"

Tells ==
    /\ LastEvent = "run_completed" => Stored = "completed"
    /\ LastEvent = "run_cancelled" => Stored = "cancelled"
    /\ LastEvent = "human_review_required" => Stored = "paused"
    /\ Stored \in Terminal => LastEvent \in EndEvent
    /\ LastEvent = "run_failed" /\ faults = 0 => Stored \notin {"completed", "cancelled"}

\* What was published: of the last save, as long as no decision overlapped, and of
\* every result that is or was stored.
EventInv ==
    /\ ~Announcing /\ ~overlapped => Tells
    /\ ~overlapped /\ ((DecisionWaits /\ ~flagged) \/ worker.at = "mark")
           => LastEvent = "human_decision_submitted"
    /\ Stored \in Terminal => Ended \/ Announcing

\* Streams, as far as their end goes.
StreamInv ==
    \A s \in Subscribers :
        /\ \A n \in DOMAIN stream[s].queue : stream[s].queue[n] \in DOMAIN log
        /\ stream[s].at \in {"leaving", "ended"} => Ended \/ Stored \in Terminal
        /\ stream[s].seen \in Terminal => Ended \/ Stored \in Terminal

RunInvariant ==
    /\ TypeOK
    /\ SubmitInv /\ WorkerInv /\ CancelInv
    /\ ~Suspends(store) => Atomic /\ StoredInv /\ EventInv /\ StreamInv

\* What a save leaves stored.
LEMMA SavedState ==
    ASSUME db \in Database, NEW r \in RunIds, NEW status \in Status, Saves(r, status)
    PROVE  db' \in Database /\ Stored' = IF r = Public THEN status ELSE Stored
  BY ServiceAssumption DEF Database, Saves, SaveState, Stored, GetState

\* Checkpoints leave the states alone.
LEMMA CheckpointAdded ==
    ASSUME NEW d \in Database, NEW r \in RunIds
    PROVE  NewCheckpoint(d, r) \in Database /\ NewCheckpoint(d, r).runs = d.runs
  <1>1. /\ Append(d.made, r) \in Seq(RunIds)
        /\ Append(d.lists[r], Len(d.made) + 1) \in Seq(Nat)
    BY DEF Database
  <1> QED BY <1>1 DEF Database, NewCheckpoint

\* And so the state of the run.
LEMMA CheckpointSaved ==
    ASSUME db \in Database, NEW r \in RunIds, db' = NewCheckpoint(db, r)
    PROVE  db' \in Database /\ Stored' = Stored
  BY CheckpointAdded DEF Stored, GetState

\* So does saving one again, in every store.
LEMMA CheckpointSavedAgain ==
    ASSUME db \in Database, NEW kind \in StoreKinds, NEW cp \in Nat, NEW r \in RunIds,
           db' = SaveCheckpointAgain(kind, db, cp, r)
    PROVE  db' \in Database /\ Stored' = Stored
  <1> DEFINE made == [db.made EXCEPT ![cp] = r]
  <1>1. made \in Seq(RunIds)
    <2>1. /\ db.made \in [1 .. Len(db.made) -> RunIds] /\ Len(db.made) \in Nat
      BY DEF Database
    <2>2. made \in [1 .. Len(db.made) -> RunIds]
      BY <2>1
    <2> QED BY <2>1, <2>2
  <1>2. Append(db.lists[r], cp) \in Seq(Nat)
    BY DEF Database
  <1>3. \/ db' = [db EXCEPT !.made = made, !.lists[r] = Append(@, cp)]
        \/ db' = [db EXCEPT !.made = made]
    BY DEF StoreKinds, SaveCheckpointAgain, SaveAgainInMemory, SaveAgainInSQLite,
           SaveAgainInPostgres
  <1> HIDE DEF made
  <1>4. CASE db' = [db EXCEPT !.made = made, !.lists[r] = Append(@, cp)]
    <2>1. /\ db'.runs = db.runs /\ db'.made = made
          /\ db'.lists = [db.lists EXCEPT ![r] = Append(db.lists[r], cp)]
          /\ db' = [runs |-> db'.runs, made |-> db'.made, lists |-> db'.lists]
      BY <1>4 DEF Database
    <2>2. db'.lists \in [RunIds -> Seq(Nat)]
      BY <1>2, <2>1 DEF Database
    <2> QED BY <1>1, <2>1, <2>2 DEF Database, Stored, GetState
  <1>5. CASE db' = [db EXCEPT !.made = made]
    BY <1>1, <1>5 DEF Database, Stored, GetState
  <1> QED BY <1>3, <1>4, <1>5

\* An event joins the log and the queues of the streams, whose bound is kept.
LEMMA Published ==
    ASSUME TypeOK, NEW e \in Event, Publish(e)
    PROVE  /\ log' \in Seq(Event) /\ log' = Append(log, e) /\ Len(log') = Len(log) + 1
           /\ LastEvent' = e
           /\ \A n \in DOMAIN log : n \in DOMAIN log' /\ log'[n] = log[n]
           /\ \A n \in DOMAIN log' : n \in DOMAIN log \/ (n = Len(log) + 1 /\ log'[n] = e)
           /\ Len(log) + 1 \in DOMAIN log' /\ log'[Len(log) + 1] = e
           /\ Ended' <=> Ended \/ e \in EndEvent
  <1>1. /\ log \in Seq(Event) /\ log' = Append(log, e)
    BY DEF TypeOK, Publish
  <1>2. /\ log' \in Seq(Event) /\ Len(log') = Len(log) + 1 /\ Len(log) \in Nat
        /\ DOMAIN log' = 1 .. Len(log) + 1 /\ DOMAIN log = 1 .. Len(log)
        /\ \A n \in DOMAIN log : log'[n] = log[n]
        /\ log'[Len(log) + 1] = e
    BY <1>1
  <1>3. LastEvent' = e
    BY <1>1, <1>2 DEF LastEvent
  <1>4. /\ \A n \in DOMAIN log : n \in DOMAIN log' /\ log'[n] = log[n]
        /\ \A n \in DOMAIN log' : n \in DOMAIN log \/ (n = Len(log) + 1 /\ log'[n] = e)
        /\ Len(log) + 1 \in DOMAIN log' /\ log'[Len(log) + 1] = e
    BY <1>2
  <1>5. Ended' <=> Ended \/ e \in EndEvent
    BY <1>4 DEF Ended
  <1> QED BY <1>1, <1>2, <1>3, <1>4, <1>5

\* The queue of a stream takes the new event and loses no other but its oldest.
LEMMA Queued ==
    ASSUME TypeOK, NEW e \in Event, Publish(e), NEW s \in Subscribers
    PROVE  /\ stream'[s] \in [at : StreamLabel, seen : Status \cup {NONE}, queue : Seq(Nat)]
           /\ Len(stream'[s].queue) <= QueueSize
           /\ stream'[s].at = stream[s].at /\ stream'[s].seen = stream[s].seen
           /\ \A n \in DOMAIN stream'[s].queue :
                 \/ stream'[s].queue[n] = Len(log) + 1
                 \/ \E m \in DOMAIN stream[s].queue : stream'[s].queue[n] = stream[s].queue[m]
           /\ s \in Registered =>
                 /\ \E n \in DOMAIN stream'[s].queue : stream'[s].queue[n] = Len(log) + 1
  <1> DEFINE q == stream[s].queue
             new == Len(log) + 1
  <1>1. /\ stream[s] \in [at : StreamLabel, seen : Status \cup {NONE}, queue : Seq(Nat)]
        /\ q \in Seq(Nat) /\ Len(q) \in Nat /\ Len(q) <= QueueSize /\ new \in Nat
        /\ QueueSize \in Nat \ {0}
    BY ServiceAssumption DEF TypeOK
  <1>2. log'[new] \in Critical
    BY Published DEF Critical
  <1>3. stream'[s] = IF s \in Registered
                     THEN [stream[s] EXCEPT !.queue = Offer(q, new)] ELSE stream[s]
    BY DEF Publish
  <1>4. CASE s \notin Registered
    BY <1>1, <1>3, <1>4
  <1>5. CASE s \in Registered /\ Len(q) < QueueSize
    <2>1. stream'[s] = [stream[s] EXCEPT !.queue = Append(q, new)]
      BY <1>3, <1>5 DEF Offer
    <2>2. /\ Append(q, new) \in Seq(Nat) /\ Len(Append(q, new)) = Len(q) + 1
          /\ Append(q, new)[Len(q) + 1] = new
          /\ \A n \in DOMAIN Append(q, new) :
                \/ n \in DOMAIN q /\ Append(q, new)[n] = q[n]
                \/ Append(q, new)[n] = new
          /\ Len(q) + 1 \in DOMAIN Append(q, new)
      BY <1>1
    <2>3. Len(q) + 1 <= QueueSize
      BY <1>1, <1>5
    <2> HIDE DEF q, new
    <2>4. stream'[s].queue = Append(q, new) /\ stream'[s].at = stream[s].at
          /\ stream'[s].seen = stream[s].seen
          /\ stream'[s] \in [at : StreamLabel, seen : Status \cup {NONE}, queue : Seq(Nat)]
      BY <1>1, <2>1, <2>2
    <2> QED BY <2>2, <2>3, <2>4 DEF q, new
  <1>6. CASE s \in Registered /\ ~(Len(q) < QueueSize)
    <2> DEFINE t == Tail(q)
    <2>1. stream'[s] = [stream[s] EXCEPT !.queue = Append(t, new)]
      BY <1>2, <1>3, <1>6 DEF Offer
    <2>2. /\ q # <<>> /\ t \in Seq(Nat) /\ Len(t) = Len(q) - 1
          /\ \A n \in 1 .. Len(t) : n + 1 \in DOMAIN q /\ t[n] = q[n + 1]
      BY <1>1, <1>6
    <2>3. /\ Append(t, new) \in Seq(Nat) /\ Len(Append(t, new)) = Len(q)
          /\ Append(t, new)[Len(q)] = new
          /\ \A n \in DOMAIN Append(t, new) :
                \/ n \in 1 .. Len(t) /\ Append(t, new)[n] = t[n]
                \/ Append(t, new)[n] = new
          /\ Len(q) \in DOMAIN Append(t, new)
      BY <1>1, <2>2
    <2>4. \A n \in DOMAIN Append(t, new) :
              \/ Append(t, new)[n] = new
              \/ \E m \in DOMAIN q : Append(t, new)[n] = q[m]
      BY <2>2, <2>3
    <2> HIDE DEF q, new, t
    <2>5. stream'[s].queue = Append(t, new) /\ stream'[s].at = stream[s].at
          /\ stream'[s].seen = stream[s].seen
          /\ stream'[s] \in [at : StreamLabel, seen : Status \cup {NONE}, queue : Seq(Nat)]
      BY <1>1, <2>1, <2>3
    <2> QED BY <1>1, <2>3, <2>4, <2>5 DEF q, new
  <1> QED BY <1>4, <1>5, <1>6

\* Nothing is published.
LEMMA Silent ==
    ASSUME UNCHANGED silent
    PROVE  /\ log' = log /\ stream' = stream
           /\ LastEvent' = LastEvent /\ (Ended' <=> Ended)
  BY DEF silent, LastEvent, Ended

\* Nothing is stored.
LEMMA NothingStored == ASSUME db' = db PROVE Stored' = Stored
  BY DEF Stored

(***************************************************************************)
(* The variables keep their types.                                         *)
(***************************************************************************)

Coroutines == {"free", "submit", "worker"} \cup Clients
WorkerType == [at : WorkerLabel, item : Items \cup {NONE},
               active : BOOLEAN, cancelled : BOOLEAN, todo : Seq(Nat),
               result : {"completed", "failed", "paused", NONE}]
DecideType == [at : {"new", "read", "done"}, seen : Status \cup {NONE}]
SmallTypes ==
    /\ store \in Stores
    /\ faults \in 0 .. MaxFaults
    /\ room \in BOOLEAN /\ flagged \in BOOLEAN
    /\ submit \in {"new", "saving", "saved", "accepted", "refused", "raised"}
    /\ items \in Seq(Items) /\ latest \in Items /\ overlapped \in BOOLEAN
    /\ decide \in [Reviewers -> DecideType]
    /\ cancel \in [Askers -> {"new", "asked", "get", "put", "tell", "done"}]
FutureType == future \in [Items -> {"none", "pending", "result", "error", "cancelled"}]
EventTypes ==
    /\ log \in Seq(Event)
    /\ stream \in [Subscribers -> [at : StreamLabel, seen : Status \cup {NONE},
                                   queue : Seq(Nat)]]
    /\ \A s \in Subscribers : Len(stream[s].queue) <= QueueSize

\* TypeOK in five parts.
LEMMA TypeParts ==
    /\ TypeOK <=> /\ loop \in Coroutines /\ db \in Database /\ worker \in WorkerType
                  /\ SmallTypes /\ FutureType /\ EventTypes
    /\ TypeOK' <=> /\ loop' \in Coroutines /\ db' \in Database /\ worker' \in WorkerType
                   /\ SmallTypes' /\ FutureType' /\ EventTypes'
  BY DEF TypeOK, Coroutines, WorkerType, SmallTypes, DecideType, FutureType, EventTypes

\* What an event changes.
LEMMA PublishedTypes ==
    ASSUME TypeOK, NEW e \in Event, Publish(e)
    PROVE  EventTypes'
  <1>1. stream' = [s \in Subscribers |-> stream'[s]]
    BY DEF Publish
  <1>2. \A s \in Subscribers :
            /\ stream'[s] \in [at : StreamLabel, seen : Status \cup {NONE}, queue : Seq(Nat)]
            /\ Len(stream'[s].queue) <= QueueSize
    BY Queued
  <1> QED BY <1>1, <1>2, Published DEF EventTypes

\* What an answer changes.
LEMMA AnswerType ==
    ASSUME TypeOK, NEW i \in Items, NEW outcome \in {"result", "error"}, Answer(i, outcome)
    PROVE  FutureType'
  BY DEF TypeOK, Answer, FutureType

\* A coroutine that runs or waits is one of those there are.
LEMMA LoopType ==
    ASSUME TypeOK, NEW c \in Coroutines, Await(c) \/ Suspend
    PROVE  loop' \in Coroutines
  BY DEF Await, Suspend, Coroutines

\* The worker goes to one of its labels.
LEMMA GotoType ==
    ASSUME TypeOK, NEW label \in WorkerLabel, Goto(label)
    PROVE  worker' \in WorkerType
  BY DEF TypeOK, Goto, WorkerType

\* The worker's records.
LEMMA WorkerRecords ==
    /\ Idle \in WorkerType /\ Lost \in WorkerType
    /\ \A w \in WorkerType, label \in WorkerLabel, flag \in BOOLEAN, i \in Items \cup {NONE} :
           [w EXCEPT !.item = i, !.active = flag, !.at = label] \in WorkerType
    /\ \A w \in WorkerType, label \in WorkerLabel :
           /\ [w EXCEPT !.at = label] \in WorkerType
           /\ [w EXCEPT !.at = label, !.cancelled = FALSE] \in WorkerType
    /\ \A w \in WorkerType : [w EXCEPT !.cancelled = TRUE] \in WorkerType
    /\ \A w \in WorkerType, todo \in Seq(Nat) : [w EXCEPT !.todo = todo] \in WorkerType
  <1>1. Idle \in WorkerType
    BY DEF WorkerType, WorkerLabel, Calls, Idle
  <1>2. \A w \in WorkerType, label \in WorkerLabel : [w EXCEPT !.at = label] \in WorkerType
    BY DEF WorkerType
  <1>3. Lost \in WorkerType
    BY <1>1 DEF WorkerType, WorkerLabel, Lost
  <1>4. \A w \in WorkerType : /\ [w EXCEPT !.cancelled = FALSE] \in WorkerType
                              /\ [w EXCEPT !.cancelled = TRUE] \in WorkerType
    BY DEF WorkerType
  <1>5. \A w \in WorkerType, flag \in BOOLEAN : [w EXCEPT !.active = flag] \in WorkerType
    BY DEF WorkerType
  <1>6. \A w \in WorkerType, i \in Items \cup {NONE} : [w EXCEPT !.item = i] \in WorkerType
    BY DEF WorkerType
  <1>7. \A w \in WorkerType, todo \in Seq(Nat) : [w EXCEPT !.todo = todo] \in WorkerType
    BY DEF WorkerType
  <1>8. \A w \in WorkerType, label \in WorkerLabel, flag \in BOOLEAN, i \in Items \cup {NONE} :
            [w EXCEPT !.item = i, !.active = flag, !.at = label] \in WorkerType
    BY <1>2, <1>5, <1>6
  <1>9. \A w \in WorkerType, label \in WorkerLabel :
            [w EXCEPT !.at = label, !.cancelled = FALSE] \in WorkerType
    BY <1>2, <1>4
  <1> QED BY <1>1, <1>2, <1>3, <1>4, <1>7, <1>8, <1>9

\* An error is counted.
LEMMA FaultType ==
    ASSUME TypeOK, Fault
    PROVE  faults' \in 0 .. MaxFaults /\ faults' > 0
  BY ServiceAssumption DEF TypeOK, Fault

\* What the state of the run may be.
LEMMA StoredType == TypeOK => Stored \in Status \cup {NONE}
  BY ServiceAssumption DEF TypeOK, Database, Stored, GetState

\* What is not touched keeps its type.
LEMMA UntouchedTypes ==
    ASSUME TypeOK
    PROVE  /\ UNCHANGED untouched => SmallTypes'
           /\ UNCHANGED future => FutureType'
           /\ UNCHANGED silent => EventTypes'
           /\ UNCHANGED db => db' \in Database
           /\ UNCHANGED worker => worker' \in WorkerType
  BY DEF TypeOK, untouched, queued, silent, SmallTypes, DecideType, FutureType, EventTypes,
         WorkerType

\* What the queue of items holds.
LEMMA ItemsQueue ==
    ASSUME TypeOK
    PROVE  /\ Waiting \subseteq Items
           /\ items = <<>> <=> Waiting = {}
           /\ \A i \in Items : items' = Append(items, i) =>
                 /\ items' \in Seq(Items) /\ items' # <<>> /\ Waiting' = Waiting \cup {i}
                 /\ items = <<>> => Tail(items') = <<>>
           /\ items # <<>> =>
                 /\ Head(items) \in Waiting /\ Head(items) \in Items
                 /\ Tail(items) \in Seq(Items)
                 /\ items' = Tail(items) => /\ Waiting = Waiting' \cup {Head(items)}
                                            /\ items' = <<>> <=> Waiting' = {}
           /\ items' = items => Waiting' = Waiting
  <1>1. /\ items \in Seq(Items) /\ Len(items) \in Nat /\ DOMAIN items = 1 .. Len(items)
        /\ \A n \in 1 .. Len(items) : items[n] \in Items
    BY DEF TypeOK
  <1>2. Waiting \subseteq Items /\ (items = <<>> <=> Waiting = {})
    <2>1. items # <<>> => 1 \in DOMAIN items
      BY <1>1
    <2>2. items = <<>> => DOMAIN items = {}
      BY <1>1
    <2> QED BY <1>1, <2>1, <2>2 DEF Waiting
  <1>3. ASSUME NEW i \in Items, items' = Append(items, i)
        PROVE  /\ items' \in Seq(Items) /\ items' # <<>> /\ Waiting' = Waiting \cup {i}
               /\ items = <<>> => Tail(items') = <<>>
    <2>1. /\ items' \in Seq(Items) /\ items' # <<>> /\ Len(items') = Len(items) + 1
          /\ DOMAIN items' = 1 .. Len(items) + 1
          /\ \A n \in 1 .. Len(items) : items'[n] = items[n]
          /\ items'[Len(items) + 1] = i
      BY <1>1, <1>3
    <2>2. \A x : x \in Waiting' <=> x \in Waiting \/ x = i
      <3>1. \A n \in DOMAIN items' : n \in DOMAIN items \/ n = Len(items) + 1
        BY <1>1, <2>1
      <3>2. Len(items) + 1 \in DOMAIN items' /\ \A n \in DOMAIN items : n \in DOMAIN items'
        BY <1>1, <2>1
      <3> QED BY <1>1, <2>1, <3>1, <3>2 DEF Waiting
    <2>3. items = <<>> => Tail(items') = <<>>
      BY <1>3
    <2> QED BY <2>1, <2>2, <2>3
  <1>4. ASSUME items # <<>>
        PROVE  /\ Head(items) \in Waiting /\ Head(items) \in Items
               /\ Tail(items) \in Seq(Items)
               /\ items' = Tail(items) => /\ Waiting = Waiting' \cup {Head(items)}
                                          /\ items' = <<>> <=> Waiting' = {}
    <2>1. /\ Head(items) = items[1] /\ 1 \in DOMAIN items /\ Tail(items) \in Seq(Items)
          /\ Len(Tail(items)) = Len(items) - 1 /\ DOMAIN Tail(items) = 1 .. Len(items) - 1
          /\ \A n \in 1 .. Len(items) - 1 : Tail(items)[n] = items[n + 1]
      BY <1>1, <1>4
    <2>2. ASSUME items' = Tail(items)
          PROVE  Waiting = Waiting' \cup {Head(items)} /\ (items' = <<>> <=> Waiting' = {})
      <3>1. \A n \in DOMAIN items : n = 1 \/ (n - 1 \in DOMAIN items' /\ items'[n - 1] = items[n])
        BY <1>1, <2>1, <2>2
      <3>2. \A n \in DOMAIN items' : n + 1 \in DOMAIN items /\ items'[n] = items[n + 1]
        BY <1>1, <2>1, <2>2
      <3>3. \A x : x \in Waiting <=> x \in Waiting' \/ x = Head(items)
        BY <2>1, <3>1, <3>2 DEF Waiting
      <3>4. items' # <<>> => 1 \in DOMAIN items'
        BY <1>1, <2>1, <2>2
      <3>5. items' = <<>> => DOMAIN items' = {}
        BY <1>1, <2>1, <2>2
      <3> QED BY <3>3, <3>4, <3>5 DEF Waiting
    <2>3. Head(items) \in Waiting /\ Head(items) \in Items
      BY <1>1, <2>1 DEF Waiting
    <2> QED BY <2>1, <2>2, <2>3
  <1>5. items' = items => Waiting' = Waiting
    BY DEF Waiting
  <1> QED BY <1>2, <1>3, <1>4, <1>5

\* The submission.
LEMMA SubmitTypes ==
    ASSUME TypeOK, Submit
    PROVE  TypeOK'
  <1>1. CASE SubmitCheck
    <2>1. loop' \in Coroutines
      BY <1>1, LoopType DEF SubmitCheck, Coroutines
    <2>2. db' \in Database
      BY <1>1, UntouchedTypes DEF SubmitCheck, backend
    <2>3. worker' \in WorkerType
      BY <1>1, UntouchedTypes DEF SubmitCheck, backend
    <2>4. SmallTypes'
      BY <1>1 DEF SubmitCheck, TypeOK, SmallTypes, DecideType, backend, queued
    <2>5. FutureType' /\ EventTypes'
      BY <1>1, UntouchedTypes DEF SubmitCheck, backend
    <2> QED BY <2>1, <2>2, <2>3, <2>4, <2>5, TypeParts
  <1>2. CASE SubmitSave
    <2>1. loop' \in Coroutines
      BY <1>2, LoopType DEF SubmitSave, Coroutines
    <2>2. db' \in Database
      BY <1>2, ServiceAssumption, SavedState DEF SubmitSave, TypeOK, Status
    <2>3. worker' \in WorkerType
      BY <1>2, UntouchedTypes DEF SubmitSave, backend
    <2>4. SmallTypes'
      BY <1>2 DEF SubmitSave, TypeOK, SmallTypes, DecideType, backend, queued
    <2>5. FutureType' /\ EventTypes'
      BY <1>2, UntouchedTypes DEF SubmitSave, backend
    <2> QED BY <2>1, <2>2, <2>3, <2>4, <2>5, TypeParts
  <1>3. CASE SubmitPut
    <2>1. loop' \in Coroutines
      BY <1>3, LoopType DEF SubmitPut, Coroutines
    <2>2. db' \in Database
      BY <1>3, UntouchedTypes DEF SubmitPut
    <2>3. worker' \in WorkerType
      BY <1>3, UntouchedTypes DEF SubmitPut
    <2>4. SmallTypes'
      BY <1>3, ItemsQueue DEF SubmitPut, TypeOK, SmallTypes, DecideType, Items, silent
    <2>5. FutureType' /\ EventTypes'
      BY <1>3, UntouchedTypes, PublishedTypes
         DEF SubmitPut, TypeOK, FutureType, Event, Items
    <2> QED BY <2>1, <2>2, <2>3, <2>4, <2>5, TypeParts
  <1>4. CASE SubmitFault
    <2>1. loop' \in Coroutines
      BY <1>4, LoopType DEF SubmitFault, Coroutines
    <2>2. db' \in Database
      BY <1>4, UntouchedTypes DEF SubmitFault, backend
    <2>3. worker' \in WorkerType
      BY <1>4, UntouchedTypes DEF SubmitFault, backend
    <2>4. SmallTypes'
      BY <1>4, FaultType DEF SubmitFault, TypeOK, SmallTypes, DecideType, backend, queued
    <2>5. FutureType' /\ EventTypes'
      BY <1>4, UntouchedTypes DEF SubmitFault, backend
    <2> QED BY <2>1, <2>2, <2>3, <2>4, <2>5, TypeParts
  <1> QED BY <1>1, <1>2, <1>3, <1>4 DEF Submit

\* The worker.
LEMMA WorkerTypes ==
    ASSUME TypeOK, WorkerInv, Worker
    PROVE  TypeOK'
  <1>1. CASE Take
    <2>1. loop' \in Coroutines
      BY <1>1, LoopType DEF Take, Coroutines
    <2>2. db' \in Database
      BY <1>1, UntouchedTypes DEF Take
    <2>3. worker' \in WorkerType
      <3> DEFINE next == Head(items)
                 label == IF flagged THEN "fin_get" ELSE IF next = "run" THEN "begin" ELSE "mark"
      <3>1. label \in WorkerLabel
        BY DEF WorkerLabel, Calls
      <3>2. next \in Items \cup {NONE}
        BY <1>1, ItemsQueue DEF Take
      <3>3. worker' = [Idle EXCEPT !.item = next, !.active = ~flagged, !.at = label]
        BY <1>1 DEF Take
      <3> HIDE DEF label, next
      <3>4. \E flag \in BOOLEAN : worker' = [Idle EXCEPT !.item = next, !.active = flag, !.at = label]
        <4>1. flagged \in BOOLEAN
          BY DEF TypeOK
        <4> QED BY <3>3, <4>1, Zenon
      <3>5. \A flag \in BOOLEAN :
                [Idle EXCEPT !.item = next, !.active = flag, !.at = label] \in WorkerType
        BY <3>1, <3>2, WorkerRecords
      <3> QED BY <3>4, <3>5
    <2>4. SmallTypes'
      BY <1>1, ItemsQueue DEF Take, TypeOK, SmallTypes, DecideType
    <2>5. FutureType' /\ EventTypes'
      BY <1>1, UntouchedTypes DEF Take
    <2> QED BY <2>1, <2>2, <2>3, <2>4, <2>5, TypeParts
  <1>2. CASE Begin
    <2>1. loop' \in Coroutines
      BY <1>2, LoopType DEF Begin, Coroutines
    <2>2. db' \in Database
      BY <1>2, ServiceAssumption, SavedState DEF Begin, TypeOK, Status
    <2>3. worker' \in WorkerType
      BY <1>2, GotoType DEF Begin, WorkerLabel, Calls
    <2>4. SmallTypes'
      BY <1>2, UntouchedTypes DEF Begin
    <2>5. FutureType' /\ EventTypes'
      BY <1>2, UntouchedTypes DEF Begin
    <2> QED BY <2>1, <2>2, <2>3, <2>4, <2>5, TypeParts
  <1>3. CASE Mark
    <2>1. loop' \in Coroutines
      BY <1>3, LoopType DEF Mark, Coroutines
    <2>2. db' \in Database
      BY <1>3, ServiceAssumption, SavedState DEF Mark, TypeOK, Status
    <2>3. worker' \in WorkerType
      BY <1>3, GotoType DEF Mark, WorkerLabel, Calls
    <2>4. SmallTypes'
      BY <1>3, UntouchedTypes DEF Mark
    <2>5. FutureType' /\ EventTypes'
      BY <1>3, UntouchedTypes DEF Mark
    <2> QED BY <2>1, <2>2, <2>3, <2>4, <2>5, TypeParts
  <1>4. CASE GraphReturns
    <2>1. loop' \in Coroutines
      BY <1>4, LoopType DEF GraphReturns, Coroutines
    <2>2. db' \in Database
      BY <1>4, UntouchedTypes DEF GraphReturns
    <2>3. worker' \in WorkerType
      BY <1>4 DEF GraphReturns, TypeOK, WorkerType, WorkerLabel, Calls, WorkerAt
    <2>4. SmallTypes'
      BY <1>4, UntouchedTypes DEF GraphReturns
    <2>5. FutureType' /\ EventTypes'
      BY <1>4, UntouchedTypes DEF GraphReturns
    <2> QED BY <2>1, <2>2, <2>3, <2>4, <2>5, TypeParts
  <1>5. CASE GraphRaises
    <2>1. loop' \in Coroutines
      BY <1>5, LoopType DEF GraphRaises, Coroutines
    <2>2. db' \in Database
      BY <1>5, UntouchedTypes DEF GraphRaises
    <2>3. worker' \in WorkerType
      BY <1>5, GotoType DEF GraphRaises, WorkerLabel, Calls
    <2>4. SmallTypes'
      BY <1>5, UntouchedTypes DEF GraphRaises
    <2>5. FutureType' /\ EventTypes'
      BY <1>5, UntouchedTypes DEF GraphRaises
    <2> QED BY <2>1, <2>2, <2>3, <2>4, <2>5, TypeParts
  <1>6. CASE SaveFailed
    <2>1. loop' \in Coroutines
      BY <1>6, LoopType DEF SaveFailed, Coroutines
    <2>2. db' \in Database
      BY <1>6, ServiceAssumption, SavedState DEF SaveFailed, TypeOK, Status
    <2>3. worker' \in WorkerType
      BY <1>6, GotoType DEF SaveFailed, WorkerLabel, Calls
    <2>4. SmallTypes'
      BY <1>6, UntouchedTypes DEF SaveFailed
    <2>5. FutureType' /\ EventTypes'
      BY <1>6, UntouchedTypes DEF SaveFailed
    <2> QED BY <2>1, <2>2, <2>3, <2>4, <2>5, TypeParts
  <1>7. CASE End
    <2>1. loop' \in Coroutines
      BY <1>7, LoopType DEF End, Coroutines
    <2>2. db' \in Database
      BY <1>7, ServiceAssumption, SavedState
         DEF End, TypeOK, Status, WorkerInv, WorkerAt, Owner
    <2>3. worker' \in WorkerType
      BY <1>7, GotoType DEF End, WorkerLabel, Calls
    <2>4. SmallTypes'
      BY <1>7, UntouchedTypes DEF End
    <2>5. FutureType' /\ EventTypes'
      BY <1>7, UntouchedTypes DEF End
    <2> QED BY <2>1, <2>2, <2>3, <2>4, <2>5, TypeParts
  <1>8. CASE LastCheckpoint
    <2>1. loop' \in Coroutines
      BY <1>8, LoopType DEF LastCheckpoint, Coroutines
    <2>2. db' \in Database
      BY <1>8, ServiceAssumption, CheckpointSaved DEF LastCheckpoint, TypeOK, Owner
    <2>3. worker' \in WorkerType
      BY <1>8, GotoType DEF LastCheckpoint, WorkerLabel, Calls
    <2>4. SmallTypes'
      BY <1>8, UntouchedTypes DEF LastCheckpoint
    <2>5. FutureType' /\ EventTypes'
      BY <1>8, UntouchedTypes DEF LastCheckpoint
    <2> QED BY <2>1, <2>2, <2>3, <2>4, <2>5, TypeParts
  <1>9. CASE ListOwn
    <2>1. loop' \in Coroutines
      BY <1>9, LoopType DEF ListOwn, Coroutines
    <2>2. db' \in Database
      BY <1>9, UntouchedTypes DEF ListOwn
    <2>3. worker' \in WorkerType
      BY <1>9, ServiceAssumption
         DEF ListOwn, TypeOK, WorkerType, WorkerLabel, Calls, ListCheckpoints, Database
    <2>4. SmallTypes'
      BY <1>9, UntouchedTypes DEF ListOwn
    <2>5. FutureType' /\ EventTypes'
      BY <1>9, UntouchedTypes DEF ListOwn
    <2> QED BY <2>1, <2>2, <2>3, <2>4, <2>5, TypeParts
  <1>10. CASE Move
    <2>1. loop' \in Coroutines
      BY <1>10, LoopType DEF Move, Coroutines
    <2>2. db' \in Database
      <3>1. Head(worker.todo) \in Nat /\ store \in StoreKinds /\ Public \in RunIds /\ db \in Database
        BY <1>10, ServiceAssumption DEF Move, TypeOK
      <3>2. db' = SaveCheckpointAgain(store, db, Head(worker.todo), Public)
        BY <1>10 DEF Move
      <3> QED BY <3>1, <3>2, CheckpointSavedAgain
    <2>3. worker' \in WorkerType
      <3>1. Tail(worker.todo) \in Seq(Nat)
        BY <1>10 DEF Move, TypeOK
      <3>2. worker' = [worker EXCEPT !.todo = Tail(worker.todo)]
        BY <1>10 DEF Move
      <3> QED BY <3>1, <3>2, WorkerRecords, TypeParts
    <2>4. SmallTypes'
      BY <1>10, UntouchedTypes DEF Move
    <2>5. FutureType' /\ EventTypes'
      BY <1>10, UntouchedTypes DEF Move
    <2> QED BY <2>1, <2>2, <2>3, <2>4, <2>5, TypeParts
  <1>11. CASE MoveState
    <2>1. loop' \in Coroutines
      BY <1>11, LoopType DEF MoveState, Coroutines
    <2>2. db' \in Database
      BY <1>11, ServiceAssumption, SavedState
         DEF MoveState, TypeOK, Status, WorkerInv, WorkerAt
    <2>3. worker' \in WorkerType
      BY <1>11, GotoType DEF MoveState, WorkerLabel, Calls
    <2>4. SmallTypes'
      BY <1>11, UntouchedTypes DEF MoveState
    <2>5. FutureType' /\ EventTypes'
      BY <1>11, UntouchedTypes DEF MoveState
    <2> QED BY <2>1, <2>2, <2>3, <2>4, <2>5, TypeParts
  <1>12. CASE Settle
    <2>1. loop' \in Coroutines
      BY <1>12, LoopType DEF Settle, Coroutines
    <2>2. db' \in Database
      BY <1>12, UntouchedTypes DEF Settle
    <2>3. worker' \in WorkerType
      BY <1>12 DEF Settle, TypeOK, WorkerType, WorkerLabel, Calls, Idle
    <2>4. SmallTypes'
      BY <1>12, UntouchedTypes DEF Settle
    <2>5. FutureType' /\ EventTypes'
      <3>1. PICK e \in Event : Answer(worker.item, "result") /\ Publish(e)
        BY <1>12 DEF Settle, WorkerInv, WorkerAt, Event
      <3>2. worker.item \in Items
        BY <1>12 DEF Settle, WorkerInv, WorkerAt, Finalizing
      <3> QED BY <3>1, <3>2, PublishedTypes, AnswerType
    <2> QED BY <2>1, <2>2, <2>3, <2>4, <2>5, TypeParts
  <1>13. CASE Raised
    <2>1. loop' \in Coroutines
      BY <1>13, LoopType DEF Raised, Coroutines
    <2>2. db' \in Database
      BY <1>13, UntouchedTypes DEF Raised
    <2>3. worker' \in WorkerType
      BY <1>13 DEF Raised, TypeOK, WorkerType, WorkerLabel, Calls, Idle
    <2>4. SmallTypes'
      BY <1>13, UntouchedTypes DEF Raised
    <2>5. FutureType' /\ EventTypes'
      <3>1. /\ Answer(worker.item, "error") /\ Publish("run_failed")
        BY <1>13 DEF Raised
      <3>2. worker.item \in Items
        BY <1>13 DEF Raised, WorkerInv, WorkerAt, Finalizing
      <3> QED BY <3>1, <3>2, PublishedTypes, AnswerType DEF Event
    <2> QED BY <2>1, <2>2, <2>3, <2>4, <2>5, TypeParts
  <1>14. CASE FinalizeGet
    <2>1. loop' \in Coroutines
      BY <1>14, LoopType DEF FinalizeGet, Coroutines
    <2>2. db' \in Database
      BY <1>14, UntouchedTypes DEF FinalizeGet
    <2>3. worker' \in WorkerType
      BY <1>14, GotoType DEF FinalizeGet, WorkerLabel, Calls
    <2>4. SmallTypes'
      BY <1>14, UntouchedTypes DEF FinalizeGet
    <2>5. FutureType' /\ EventTypes'
      BY <1>14, UntouchedTypes DEF FinalizeGet
    <2> QED BY <2>1, <2>2, <2>3, <2>4, <2>5, TypeParts
  <1>15. CASE FinalizePut
    <2>1. loop' \in Coroutines
      BY <1>15, LoopType DEF FinalizePut, Coroutines
    <2>2. db' \in Database
      BY <1>15, ServiceAssumption, SavedState DEF FinalizePut, TypeOK, Status
    <2>3. worker' \in WorkerType
      BY <1>15, GotoType DEF FinalizePut, WorkerLabel, Calls
    <2>4. SmallTypes'
      BY <1>15, UntouchedTypes DEF FinalizePut
    <2>5. FutureType' /\ EventTypes'
      BY <1>15, UntouchedTypes DEF FinalizePut
    <2> QED BY <2>1, <2>2, <2>3, <2>4, <2>5, TypeParts
  <1>16. CASE FinalizeTell
    <2>1. loop' \in Coroutines
      BY <1>16, LoopType DEF FinalizeTell, Coroutines
    <2>2. db' \in Database
      BY <1>16, UntouchedTypes DEF FinalizeTell
    <2>3. worker' \in WorkerType
      BY <1>16 DEF FinalizeTell, TypeOK, WorkerType, WorkerLabel, Calls, Idle
    <2>4. SmallTypes'
      BY <1>16, UntouchedTypes DEF FinalizeTell
    <2>5. FutureType' /\ EventTypes'
      <3>1. /\ Answer(worker.item, "result") /\ Publish("run_cancelled")
        BY <1>16 DEF FinalizeTell
      <3>2. worker.item \in Items
        BY <1>16 DEF FinalizeTell, WorkerInv, WorkerAt, Finalizing
      <3> QED BY <3>1, <3>2, PublishedTypes, AnswerType DEF Event
    <2> QED BY <2>1, <2>2, <2>3, <2>4, <2>5, TypeParts
  <1>17. CASE Interrupted
    <2>1. loop' \in Coroutines
      BY <1>17, LoopType DEF Interrupted, Coroutines
    <2>2. db' \in Database
      BY <1>17, UntouchedTypes DEF Interrupted
    <2>3. worker' \in WorkerType
      <3>1. "fin_get" \in WorkerLabel
        BY DEF WorkerLabel, Calls
      <3>2. worker' = Lost \/ worker' = [worker EXCEPT !.at = "fin_get", !.cancelled = FALSE]
        BY <1>17 DEF Interrupted
      <3>3. worker \in WorkerType
        BY TypeParts
      <3>4. [worker EXCEPT !.at = "fin_get", !.cancelled = FALSE] \in WorkerType
        BY <3>1, <3>3, WorkerRecords
      <3>5. Lost \in WorkerType
        BY WorkerRecords
      <3> QED BY <3>2, <3>4, <3>5
    <2>4. SmallTypes'
      BY <1>17, UntouchedTypes DEF Interrupted
    <2>5. FutureType' /\ EventTypes'
      BY <1>17, UntouchedTypes DEF Interrupted
    <2> QED BY <2>1, <2>2, <2>3, <2>4, <2>5, TypeParts
  <1>18. CASE WorkerFault
    <2>1. loop' \in Coroutines
      BY <1>18, LoopType DEF WorkerFault, Coroutines
    <2>2. db' \in Database
      BY <1>18, UntouchedTypes DEF WorkerFault
    <2>3. worker' \in WorkerType
      <3>1. PICK label \in WorkerLabel : worker' = Lost \/ worker' = [worker EXCEPT !.at = label]
        BY <1>18 DEF WorkerFault, Goto, WorkerLabel, Calls
      <3> QED BY <3>1, WorkerRecords, TypeParts
    <2>4. SmallTypes'
      BY <1>18, FaultType DEF WorkerFault, TypeOK, SmallTypes, DecideType, queued
    <2>5. FutureType' /\ EventTypes'
      BY <1>18, UntouchedTypes DEF WorkerFault
    <2> QED BY <2>1, <2>2, <2>3, <2>4, <2>5, TypeParts
  <1>19. CASE FirstCheckpoint
    <2>1. loop' \in Coroutines
      BY <1>19, LoopType DEF FirstCheckpoint, Coroutines
    <2>2. db' \in Database
      BY <1>19, ServiceAssumption, CheckpointSaved DEF FirstCheckpoint, TypeOK
    <2>3. worker' \in WorkerType
      BY <1>19, GotoType DEF FirstCheckpoint, WorkerLabel, Calls
    <2>4. SmallTypes'
      BY <1>19, UntouchedTypes DEF FirstCheckpoint
    <2>5. FutureType' /\ EventTypes'
      BY <1>19, UntouchedTypes DEF FirstCheckpoint
    <2> QED BY <2>1, <2>2, <2>3, <2>4, <2>5, TypeParts
  <1> QED BY <1>1, <1>2, <1>3, <1>4, <1>5, <1>6, <1>7, <1>8, <1>9, <1>10, <1>11, <1>12,
             <1>13, <1>14, <1>15, <1>16, <1>17, <1>18, <1>19
             DEF Worker

\* A decision is done.
LEMMA DecidesDone ==
    ASSUME TypeOK, NEW d \in Reviewers, DecideDone(d)
    PROVE  /\ decide' \in [Reviewers -> DecideType]
           /\ decide'[d].at = "done" /\ decide'[d].seen = NONE
           /\ \A e \in Reviewers \ {d} : decide'[e] = decide[e]
  BY DEF TypeOK, DecideDone, DecideType

\* The decisions.
LEMMA DecideTypes ==
    ASSUME TypeOK, NEW d \in Reviewers, Decide(d)
    PROVE  TypeOK'
  <1>1. CASE DecideRead(d)
    <2>1. loop' \in Coroutines
      BY <1>1, LoopType DEF DecideRead, Coroutines, Clients
    <2>2. db' \in Database
      BY <1>1, UntouchedTypes DEF DecideRead, backend
    <2>3. worker' \in WorkerType
      BY <1>1, UntouchedTypes DEF DecideRead, backend
    <2>4. SmallTypes'
      <3>1. [at |-> "read", seen |-> Stored] \in DecideType
        BY StoredType DEF DecideType
      <3> QED BY <1>1, <3>1 DEF DecideRead, TypeOK, SmallTypes, DecideType, Stored, backend,
                  queued
    <2>5. FutureType' /\ EventTypes'
      BY <1>1, UntouchedTypes DEF DecideRead, backend
    <2> QED BY <2>1, <2>2, <2>3, <2>4, <2>5, TypeParts
  <1>2. CASE DecideQueue(d)
    <2>1. loop' \in Coroutines
      BY <1>2, LoopType DEF DecideQueue, Coroutines, Clients
    <2>2. db' \in Database
      BY <1>2, UntouchedTypes DEF DecideQueue
    <2>3. worker' \in WorkerType
      BY <1>2, UntouchedTypes DEF DecideQueue
    <2>4. SmallTypes'
      BY <1>2, DecidesDone, ItemsQueue DEF DecideQueue, TypeOK, SmallTypes, Items
    <2>5. FutureType' /\ EventTypes'
      BY <1>2, PublishedTypes DEF DecideQueue, TypeOK, FutureType, Event, Items
    <2> QED BY <2>1, <2>2, <2>3, <2>4, <2>5, TypeParts
  <1>3. CASE DecideRefused(d)
    <2>1. loop' \in Coroutines
      BY <1>3, LoopType DEF DecideRefused, Coroutines, Clients
    <2>2. db' \in Database
      BY <1>3, UntouchedTypes DEF DecideRefused, backend
    <2>3. worker' \in WorkerType
      BY <1>3, UntouchedTypes DEF DecideRefused, backend
    <2>4. SmallTypes'
      BY <1>3, DecidesDone DEF DecideRefused, TypeOK, SmallTypes, backend, queued
    <2>5. FutureType' /\ EventTypes'
      BY <1>3, UntouchedTypes DEF DecideRefused, backend
    <2> QED BY <2>1, <2>2, <2>3, <2>4, <2>5, TypeParts
  <1>4. CASE DecideFault(d)
    <2>1. loop' \in Coroutines
      BY <1>4, LoopType DEF DecideFault, Coroutines, Clients
    <2>2. db' \in Database
      BY <1>4, UntouchedTypes DEF DecideFault, backend
    <2>3. worker' \in WorkerType
      BY <1>4, UntouchedTypes DEF DecideFault, backend
    <2>4. SmallTypes'
      BY <1>4, FaultType, DecidesDone DEF DecideFault, TypeOK, SmallTypes, backend, queued
    <2>5. FutureType' /\ EventTypes'
      BY <1>4, UntouchedTypes DEF DecideFault, backend
    <2> QED BY <2>1, <2>2, <2>3, <2>4, <2>5, TypeParts
  <1> QED BY <1>1, <1>2, <1>3, <1>4 DEF Decide

\* The cancellations.
LEMMA CancelTypes ==
    ASSUME TypeOK, NEW c \in Askers, Cancel(c)
    PROVE  TypeOK'
  <1>1. CASE CancelRoute(c)
    <2>1. loop' \in Coroutines
      BY <1>1, LoopType DEF CancelRoute, Coroutines, Clients
    <2>2. db' \in Database
      BY <1>1, UntouchedTypes DEF CancelRoute, backend
    <2>3. worker' \in WorkerType
      BY <1>1, UntouchedTypes DEF CancelRoute, backend
    <2>4. SmallTypes'
      BY <1>1 DEF CancelRoute, TypeOK, SmallTypes, DecideType, backend, queued,
             CancelGoto
    <2>5. FutureType' /\ EventTypes'
      BY <1>1, UntouchedTypes DEF CancelRoute, backend
    <2> QED BY <2>1, <2>2, <2>3, <2>4, <2>5, TypeParts
  <1>2. CASE CancelAsk(c)
    <2>1. loop' \in Coroutines
      BY <1>2, LoopType DEF CancelAsk, Coroutines, Clients
    <2>2. db' \in Database
      BY <1>2, UntouchedTypes DEF CancelAsk
    <2>3. worker' \in WorkerType
      BY <1>2, WorkerRecords, TypeParts DEF CancelAsk
    <2>4. SmallTypes'
      BY <1>2 DEF CancelAsk, TypeOK, SmallTypes, DecideType, backend, queued,
             CancelGoto
    <2>5. FutureType' /\ EventTypes'
      BY <1>2, UntouchedTypes DEF CancelAsk
    <2> QED BY <2>1, <2>2, <2>3, <2>4, <2>5, TypeParts
  <1>3. CASE CancelGet(c)
    <2>1. loop' \in Coroutines
      BY <1>3, LoopType DEF CancelGet, Coroutines, Clients
    <2>2. db' \in Database
      BY <1>3, UntouchedTypes DEF CancelGet, backend
    <2>3. worker' \in WorkerType
      BY <1>3, UntouchedTypes DEF CancelGet, backend
    <2>4. SmallTypes'
      BY <1>3 DEF CancelGet, TypeOK, SmallTypes, DecideType, backend, queued,
             CancelGoto
    <2>5. FutureType' /\ EventTypes'
      BY <1>3, UntouchedTypes DEF CancelGet, backend
    <2> QED BY <2>1, <2>2, <2>3, <2>4, <2>5, TypeParts
  <1>4. CASE CancelPut(c)
    <2>1. loop' \in Coroutines
      BY <1>4, LoopType DEF CancelPut, Coroutines, Clients
    <2>2. db' \in Database
      BY <1>4, ServiceAssumption, SavedState DEF CancelPut, TypeOK, Status
    <2>3. worker' \in WorkerType
      BY <1>4, UntouchedTypes DEF CancelPut, backend
    <2>4. SmallTypes'
      BY <1>4 DEF CancelPut, TypeOK, SmallTypes, DecideType, backend, queued,
             CancelGoto
    <2>5. FutureType' /\ EventTypes'
      BY <1>4, UntouchedTypes DEF CancelPut, backend
    <2> QED BY <2>1, <2>2, <2>3, <2>4, <2>5, TypeParts
  <1>5. CASE CancelTell(c)
    <2>1. loop' \in Coroutines
      BY <1>5, LoopType DEF CancelTell, Coroutines, Clients
    <2>2. db' \in Database
      BY <1>5, UntouchedTypes DEF CancelTell
    <2>3. worker' \in WorkerType
      BY <1>5, UntouchedTypes DEF CancelTell
    <2>4. SmallTypes'
      BY <1>5 DEF CancelTell, TypeOK, SmallTypes, DecideType, backend, queued,
             CancelGoto
    <2>5. FutureType' /\ EventTypes'
      BY <1>5, PublishedTypes, AnswerType DEF CancelTell, TypeOK, Event
    <2> QED BY <2>1, <2>2, <2>3, <2>4, <2>5, TypeParts
  <1>6. CASE CancelFault(c)
    <2>1. loop' \in Coroutines
      BY <1>6, LoopType DEF CancelFault, Coroutines, Clients
    <2>2. db' \in Database
      BY <1>6, UntouchedTypes DEF CancelFault, backend
    <2>3. worker' \in WorkerType
      BY <1>6, UntouchedTypes DEF CancelFault, backend
    <2>4. SmallTypes'
      BY <1>6, FaultType DEF CancelFault, TypeOK, SmallTypes, DecideType, backend, queued,
             CancelGoto
    <2>5. FutureType' /\ EventTypes'
      BY <1>6, UntouchedTypes DEF CancelFault, backend
    <2> QED BY <2>1, <2>2, <2>3, <2>4, <2>5, TypeParts
  <1> QED BY <1>1, <1>2, <1>3, <1>4, <1>5, <1>6 DEF Cancel, CancelGoesOn

(***************************************************************************)
(* The streams: they read the store and the log, and change no state but   *)
(* their own.                                                              *)
(***************************************************************************)

StreamType == [at : StreamLabel, seen : Status \cup {NONE}, queue : Seq(Nat)]
StreamAction(s) == Open(s) \/ StreamGoesOn(s) \/ Leave(s)

\* What a stream may turn into: where it goes, what it has read, what it has queued.
Becomes(s, x) ==
    /\ x.seen \in {NONE, stream[s].seen, Stored}
    /\ \/ x.queue \in {<<>>, stream[s].queue}
       \/ stream[s].queue # <<>> /\ x.queue = Tail(stream[s].queue)
    /\ x.at \in {"leaving", "ended"} =>
           \/ stream[s].at = "leaving"
           \/ stream[s].seen \in Terminal
           \/ Stored \in Terminal
           \/ stream[s].queue # <<>> /\ log[Head(stream[s].queue)] \in EndEvent
    /\ stream[s].at \in Registering =>
           \/ x.at \in {"leaving", "ended", "left"}
           \/ x.queue = stream[s].queue
           \/ /\ stream[s].queue # <<>> /\ x.queue = Tail(stream[s].queue)
              /\ log[Head(stream[s].queue)] \notin EndEvent

\* Each step of a stream.
LEMMA StreamStep ==
    ASSUME TypeOK, NEW s \in Subscribers, StreamAction(s)
    PROVE  /\ UNCHANGED others
           /\ Turn(s) /\ loop' \in {"free", s}
           /\ faults' = faults \/ Fault
           /\ \E x \in StreamType : stream' = [stream EXCEPT ![s] = x] /\ Becomes(s, x)
  <1> DEFINE x == stream'[s]
  <1>1. /\ stream[s] \in StreamType /\ stream[s].queue \in Seq(Nat)
        /\ stream \in [Subscribers -> StreamType]
        /\ stream[s].queue # <<>> => Tail(stream[s].queue) \in Seq(Nat)
        /\ <<>> \in Seq(Nat)
    BY DEF TypeOK, StreamType
  <1>2. Stored \in Status \cup {NONE}
    BY StoredType
  <1>3. CASE Open(s)
    <2>1. UNCHANGED others /\ Turn(s) /\ loop' \in {"free", s} /\ (faults' = faults \/ Fault)
      BY <1>3 DEF Open, StreamAt, Await, Suspend, Turn
    <2>2. stream' = [stream EXCEPT ![s] = x] /\ x \in StreamType
      <3>1. PICK label \in StreamLabel :
                \/ stream' = [stream EXCEPT ![s] = [NewStream EXCEPT !.at = label]]
                \/ stream' = [stream EXCEPT ![s].at = label]
        BY <1>3 DEF Open, Close, StreamLabel, Registering
      <3>2. [NewStream EXCEPT !.at = label] \in StreamType
        BY <1>1 DEF NewStream, StreamType
      <3>3. [stream[s] EXCEPT !.at = label] \in StreamType
        BY <1>1 DEF StreamType
      <3> QED BY <3>1, <3>2, <3>3, <1>1
    <2>3. Becomes(s, x)
      BY <1>3, <1>1
         DEF Open, StreamAt, Close, NewStream, Becomes, StreamType, Registering, Terminal,
             Stored
    <2> QED BY <2>1, <2>2, <2>3
  <1>4. CASE Read(s)
    <2>1. UNCHANGED others /\ Turn(s) /\ loop' \in {"free", s} /\ (faults' = faults \/ Fault)
      BY <1>4 DEF Read, StreamAt, Await, Suspend, Turn
    <2>2. stream' = [stream EXCEPT ![s] = x] /\ x \in StreamType
      BY <1>4, <1>1, <1>2
         DEF Read, Close, NewStream, StreamType, StreamLabel, Registering, Stored
    <2>3. Becomes(s, x)
      BY <1>4, <1>1
         DEF Read, StreamAt, Close, NewStream, Becomes, StreamType, Registering, Terminal,
             Stored
    <2> QED BY <2>1, <2>2, <2>3
  <1>5. CASE Register(s)
    <2>1. UNCHANGED others /\ Turn(s) /\ loop' \in {"free", s} /\ (faults' = faults \/ Fault)
      BY <1>5 DEF Register, StreamAt, Await, Suspend, Turn
    <2>2. stream' = [stream EXCEPT ![s] = x] /\ x \in StreamType
      <3>1. PICK label \in StreamLabel :
                \/ stream' = [stream EXCEPT ![s] = [NewStream EXCEPT !.at = label]]
                \/ stream' = [stream EXCEPT ![s].at = label]
        BY <1>5 DEF Register, Close, StreamLabel, Registering
      <3>2. [NewStream EXCEPT !.at = label] \in StreamType
        BY <1>1 DEF NewStream, StreamType
      <3>3. [stream[s] EXCEPT !.at = label] \in StreamType
        BY <1>1 DEF StreamType
      <3> QED BY <3>1, <3>2, <3>3, <1>1
    <2>3. Becomes(s, x)
      BY <1>5, <1>1
         DEF Register, StreamAt, Close, NewStream, Becomes, StreamType, Registering,
             Terminal, Stored
    <2> QED BY <2>1, <2>2, <2>3
  <1>6. CASE Opened(s)
    <2>1. UNCHANGED others /\ Turn(s) /\ loop' \in {"free", s} /\ (faults' = faults \/ Fault)
      BY <1>6 DEF Opened, StreamAt, Await, Suspend, Turn
    <2>2. stream' = [stream EXCEPT ![s] = x] /\ x \in StreamType
      BY <1>6, <1>1, <1>2
         DEF Opened, Close, NewStream, StreamType, StreamLabel, Registering, Stored
    <2>3. Becomes(s, x)
      BY <1>6, <1>1
         DEF Opened, StreamAt, Close, NewStream, Becomes, StreamType, Registering, Terminal,
             Stored
    <2> QED BY <2>1, <2>2, <2>3
  <1>7. CASE TakeEvent(s)
    <2>1. UNCHANGED others /\ Turn(s) /\ loop' \in {"free", s} /\ (faults' = faults \/ Fault)
      BY <1>7 DEF TakeEvent, StreamAt, Await, Suspend, Turn
    <2>2. stream' = [stream EXCEPT ![s] = x] /\ x \in StreamType
      BY <1>7, <1>1, <1>2
         DEF TakeEvent, Close, NewStream, StreamType, StreamLabel, Registering, Stored
    <2>3. Becomes(s, x)
      BY <1>7, <1>1
         DEF TakeEvent, StreamAt, Close, NewStream, Becomes, StreamType, Registering,
             Terminal, Stored, LastsUntil
    <2> QED BY <2>1, <2>2, <2>3
  <1>8. CASE Timeout(s)
    <2>1. UNCHANGED others /\ Turn(s) /\ loop' \in {"free", s} /\ (faults' = faults \/ Fault)
      BY <1>8 DEF Timeout, StreamAt, Await, Suspend, Turn
    <2>2. stream' = [stream EXCEPT ![s] = x] /\ x \in StreamType
      BY <1>8, <1>1, <1>2
         DEF Timeout, Close, NewStream, StreamType, StreamLabel, Registering, Stored
    <2>3. Becomes(s, x)
      BY <1>8, <1>1
         DEF Timeout, StreamAt, Close, NewStream, Becomes, StreamType, Registering,
             Terminal, Stored
    <2> QED BY <2>1, <2>2, <2>3
  <1>9. CASE Poll(s)
    <2>1. UNCHANGED others /\ Turn(s) /\ loop' \in {"free", s} /\ (faults' = faults \/ Fault)
      BY <1>9 DEF Poll, StreamAt, Await, Suspend, Turn
    <2>2. stream' = [stream EXCEPT ![s] = x] /\ x \in StreamType
      BY <1>9, <1>1, <1>2
         DEF Poll, Close, NewStream, StreamType, StreamLabel, Registering, Stored
    <2>3. Becomes(s, x)
      BY <1>9, <1>1
         DEF Poll, StreamAt, Close, NewStream, Becomes, StreamType, Registering, Terminal,
             Stored
    <2> QED BY <2>1, <2>2, <2>3
  <1>10. CASE Finish(s)
    <2>1. UNCHANGED others /\ Turn(s) /\ loop' \in {"free", s} /\ (faults' = faults \/ Fault)
      BY <1>10 DEF Finish, StreamAt, Await, Suspend, Turn
    <2>2. stream' = [stream EXCEPT ![s] = x] /\ x \in StreamType
      BY <1>10, <1>1, <1>2
         DEF Finish, Close, NewStream, StreamType, StreamLabel, Registering, Stored
    <2>3. Becomes(s, x)
      BY <1>10, <1>1
         DEF Finish, StreamAt, Close, NewStream, Becomes, StreamType, Registering, Terminal,
             Stored
    <2> QED BY <2>1, <2>2, <2>3
  <1>11. CASE StreamFault(s)
    <2>1. UNCHANGED others /\ Turn(s) /\ loop' \in {"free", s} /\ (faults' = faults \/ Fault)
      BY <1>11 DEF StreamFault, StreamAt, Await, Suspend, Turn
    <2>2. stream' = [stream EXCEPT ![s] = x] /\ x \in StreamType
      BY <1>11, <1>1, <1>2
         DEF StreamFault, Close, NewStream, StreamType, StreamLabel, Registering, Stored
    <2>3. Becomes(s, x)
      BY <1>11, <1>1
         DEF StreamFault, StreamAt, Close, NewStream, Becomes, StreamType, Registering,
             Terminal, Stored
    <2> QED BY <2>1, <2>2, <2>3
  <1>12. CASE Leave(s)
    <2>1. UNCHANGED others /\ Turn(s) /\ loop' \in {"free", s} /\ (faults' = faults \/ Fault)
      BY <1>12 DEF Leave, StreamAt, Await, Suspend, Turn
    <2>2. stream' = [stream EXCEPT ![s] = x] /\ x \in StreamType
      BY <1>12, <1>1, <1>2
         DEF Leave, Close, NewStream, StreamType, StreamLabel, Registering, Stored
    <2>3. Becomes(s, x)
      BY <1>12, <1>1
         DEF Leave, StreamAt, Close, NewStream, Becomes, StreamType, Registering, Terminal,
             Stored
    <2> QED BY <2>1, <2>2, <2>3
  <1> QED BY <1>3, <1>4, <1>5, <1>6, <1>7, <1>8, <1>9, <1>10, <1>11, <1>12
             DEF StreamAction, StreamGoesOn

(***************************************************************************)
(* What the invariant says of the submission and of the worker.            *)
(***************************************************************************)

\* Nobody but the submission and the streams acts before the run is accepted.
LEMMA AcceptedFirst ==
    ASSUME SubmitInv,
           \/ Worker \/ DeadlinePasses
           \/ (\E d \in Reviewers : Decide(d)) \/ (\E c \in Askers : Cancel(c))
    PROVE  submit = "accepted" /\ submit' = "accepted"
  <1>1. CASE Worker
    <2>1. submit' = submit
      BY <1>1
         DEF Worker, Take, Begin, FirstCheckpoint, Mark, GraphReturns, GraphRaises, SaveFailed, End,
             LastCheckpoint, ListOwn, Move, MoveState, Settle, Raised, FinalizeGet,
             FinalizePut, FinalizeTell, Interrupted, WorkerFault, untouched
    <2>2. worker # Idle \/ items # <<>>
      BY <1>1
         DEF Worker, Take, Begin, FirstCheckpoint, Mark, GraphReturns, GraphRaises, SaveFailed, End,
             LastCheckpoint, ListOwn, Move, MoveState, Settle, Raised, FinalizeGet,
             FinalizePut, FinalizeTell, Interrupted, WorkerFault, WorkerAt, Calls, Idle
    <2> QED BY <2>1, <2>2 DEF SubmitInv
  <1>2. CASE \E d \in Reviewers : Decide(d)
    BY <1>2 DEF Decide, DecideRead, DecideQueue, DecideRefused, DecideFault, DecideAt, MayDecide,
           SubmitInv
  <1>3. CASE DeadlinePasses
    BY <1>3 DEF DeadlinePasses
  <1>4. CASE \E c \in Askers : Cancel(c)
    BY <1>4 DEF Cancel, CancelGoesOn, CancelRoute, CancelAsk, CancelGet, CancelPut,
           CancelTell, CancelFault, CancelAt, SubmitInv
  <1> QED BY <1>1, <1>2, <1>3, <1>4

\* The submission's own steps.
LEMMA SubmitKeepsSubmit ==
    ASSUME TypeOK, SubmitInv, Submit
    PROVE  SubmitInv'
  <1>1. CASE SubmitCheck
    BY <1>1, NothingStored
       DEF SubmitCheck, backend, queued, silent, Admit, SubmitInv, Turn, Await, Suspend, Suspends
  <1>2. CASE SubmitSave
    BY <1>2, ServiceAssumption, SavedState
       DEF SubmitSave, backend, queued, silent, SubmitInv, Turn, Await, Suspend, Suspends, TypeOK,
           Status
  <1>3. CASE SubmitPut
    BY <1>3, NothingStored
       DEF SubmitPut, silent, SubmitInv, Turn, Await, Suspend, Suspends
  <1>4. CASE SubmitFault
    BY <1>4, NothingStored
       DEF SubmitFault, backend, queued, silent, Fault, SubmitInv, Turn, Await, Suspend, Suspends
  <1> QED BY <1>1, <1>2, <1>3, <1>4 DEF Submit

\* Everybody's steps.
LEMMA SubmitStep ==
    ASSUME TypeOK, SubmitInv, Next
    PROVE  SubmitInv'
  <1>1. CASE Submit
    BY <1>1, SubmitKeepsSubmit
  <1>2. CASE OthersQueue
    BY <1>2, NothingStored DEF OthersQueue, backend, queued, silent, SubmitInv, Idle
  <1>3. CASE \/ Worker \/ DeadlinePasses
              \/ (\E d \in Reviewers : Decide(d)) \/ (\E c \in Askers : Cancel(c))
    BY <1>3, AcceptedFirst DEF SubmitInv
  <1>4. ASSUME NEW s \in Subscribers, StreamAction(s)
        PROVE  SubmitInv'
    <2>1. UNCHANGED others /\ Turn(s)
      BY <1>4, StreamStep
    <2>2. loop # "submit"
      BY <2>1, CoroutinesAssumption DEF Turn, Clients
    <2> QED BY <2>1, <2>2, NothingStored DEF SubmitInv, others, queued
  <1> QED BY <1>1, <1>2, <1>3, <1>4 DEF Next, StreamAction

\* The worker's own steps.
LEMMA WorkerKeepsWorker ==
    ASSUME TypeOK, WorkerInv, Worker
    PROVE  WorkerInv'
  <1>1. CASE Take
    <2>1. /\ worker'.item = Head(items) /\ ~worker'.cancelled
          /\ worker'.active <=> ~flagged
          /\ worker'.at = IF flagged THEN "fin_get"
                          ELSE IF Head(items) = "run" THEN "begin" ELSE "mark"
      BY <1>1 DEF Take, Idle, TypeOK
    <2>2. worker'.item \in Items /\ (worker'.item # "run" => worker'.item \in Reviewers)
      BY <1>1, <2>1, ItemsQueue DEF Take, Items
    <2>3. CASE flagged
      BY <2>1, <2>2, <2>3 DEF WorkerInv, Finalizing
    <2>4. CASE ~flagged
      BY <2>1, <2>2, <2>4 DEF WorkerInv, Finalizing
    <2> QED BY <2>3, <2>4
  <1>2. CASE Begin
    BY <1>2
       DEF Begin, untouched, silent, WorkerAt, Goto, WorkerInv, TypeOK, WorkerLabel, Calls,
           Finalizing
  <1>3. CASE Mark
    BY <1>3
       DEF Mark, untouched, silent, WorkerAt, Goto, WorkerInv, TypeOK, WorkerLabel, Calls,
           Finalizing
  <1>4. CASE GraphReturns
    BY <1>4
       DEF GraphReturns, untouched, silent, WorkerAt, Goto, WorkerInv, TypeOK, WorkerLabel,
           Calls, Finalizing
  <1>5. CASE GraphRaises
    BY <1>5
       DEF GraphRaises, untouched, silent, WorkerAt, Goto, WorkerInv, TypeOK, WorkerLabel,
           Calls, Finalizing
  <1>6. CASE SaveFailed
    BY <1>6
       DEF SaveFailed, untouched, silent, WorkerAt, Goto, WorkerInv, TypeOK, WorkerLabel,
           Calls, Finalizing
  <1>7. CASE End
    BY <1>7
       DEF End, untouched, silent, WorkerAt, Goto, Owner, WorkerInv, TypeOK, WorkerLabel,
           Calls, Finalizing
  <1>8. CASE LastCheckpoint
    BY <1>8
       DEF LastCheckpoint, untouched, silent, WorkerAt, Goto, Owner, WorkerInv, TypeOK,
           WorkerLabel, Calls, Finalizing
  <1>9. CASE ListOwn
    BY <1>9
       DEF ListOwn, untouched, silent, WorkerAt, Goto, WorkerInv, TypeOK, WorkerLabel,
           Calls, Finalizing
  <1>10. CASE Move
    BY <1>10
       DEF Move, untouched, silent, WorkerAt, Goto, WorkerInv, TypeOK, WorkerLabel, Calls,
           Finalizing
  <1>11. CASE MoveState
    BY <1>11
       DEF MoveState, untouched, silent, WorkerAt, Goto, WorkerInv, TypeOK, WorkerLabel,
           Calls, Finalizing
  <1>12. CASE Settle
    BY <1>12
       DEF Settle, untouched, silent, WorkerAt, Goto, Idle, WorkerInv, TypeOK, WorkerLabel,
           Calls, Finalizing
  <1>13. CASE Raised
    BY <1>13
       DEF Raised, untouched, silent, WorkerAt, Goto, Idle, WorkerInv, TypeOK, WorkerLabel,
           Calls, Finalizing
  <1>14. CASE FinalizeGet
    BY <1>14
       DEF FinalizeGet, untouched, silent, WorkerAt, Goto, WorkerInv, TypeOK, WorkerLabel,
           Calls, Finalizing
  <1>15. CASE FinalizePut
    BY <1>15
       DEF FinalizePut, untouched, silent, WorkerAt, Goto, WorkerInv, TypeOK, WorkerLabel,
           Calls, Finalizing
  <1>16. CASE FinalizeTell
    BY <1>16
       DEF FinalizeTell, untouched, silent, WorkerAt, Goto, Idle, WorkerInv, TypeOK,
           WorkerLabel, Calls, Finalizing
  <1>17. CASE Interrupted
    <2>1. CASE worker.at \in Finalizing
      BY <1>17, <2>1 DEF Interrupted, Lost, Idle, WorkerInv, Finalizing
    <2>2. CASE worker.at \notin Finalizing
      <3>1. /\ worker'.at = "fin_get" /\ worker'.cancelled = FALSE
            /\ worker'.item = worker.item /\ worker'.active = worker.active
            /\ worker.cancelled
        BY <1>17, <2>2 DEF Interrupted, TypeOK
      <3> QED BY <3>1 DEF WorkerInv, Finalizing
    <2> QED BY <2>1, <2>2
  <1>18. CASE WorkerFault
    <2>1. CASE worker' = Lost
      BY <2>1 DEF Lost, Idle, WorkerInv, Finalizing
    <2>2. CASE worker.at \notin Finalizing
      <3>1. /\ worker.at \in Calls
            /\ Goto(IF worker.at \in {"end", "checkpoint"} /\ worker.item = "run"
                    THEN "save_failed" ELSE "raised")
        BY <1>18, <2>2 DEF WorkerFault
      <3>2. CASE worker.at \in {"end", "checkpoint"} /\ worker.item = "run"
        <4>1. /\ worker'.at = "save_failed" /\ worker'.item = worker.item
              /\ worker'.active = worker.active /\ worker'.cancelled = worker.cancelled
          BY <3>1, <3>2 DEF Goto, TypeOK
        <4> QED BY <2>2, <3>1, <3>2, <4>1 DEF WorkerInv, Finalizing, Calls, Items
      <3>3. CASE ~(worker.at \in {"end", "checkpoint"} /\ worker.item = "run")
        <4>1. /\ worker'.at = "raised" /\ worker'.item = worker.item
              /\ worker'.active = worker.active /\ worker'.cancelled = worker.cancelled
          BY <3>1, <3>3 DEF Goto, TypeOK
        <4> QED BY <2>2, <3>1, <4>1 DEF WorkerInv, Finalizing, Calls, Items
      <3> QED BY <3>2, <3>3
    <2> QED BY <1>18, <2>1, <2>2 DEF WorkerFault
  <1>19. CASE FirstCheckpoint
    BY <1>19
       DEF FirstCheckpoint, untouched, silent, WorkerAt, Goto, WorkerInv, TypeOK,
           WorkerLabel, Calls, Finalizing
  <1> QED BY <1>1, <1>2, <1>3, <1>4, <1>5, <1>6, <1>7, <1>8, <1>9, <1>10, <1>11, <1>12,
             <1>13,
             <1>14, <1>15, <1>16, <1>17, <1>18, <1>19 DEF Worker

\* Everybody's steps.
LEMMA WorkerStep ==
    ASSUME TypeOK, WorkerInv, Next
    PROVE  WorkerInv'
  <1>1. CASE Worker
    BY <1>1, WorkerKeepsWorker
  <1>2. CASE Submit \/ OthersQueue \/ (\E d \in Reviewers : Decide(d)) \/ DeadlinePasses
    BY <1>2
       DEF Submit, SubmitCheck, SubmitSave, SubmitPut, SubmitFault, OthersQueue, Decide,
           DecideRead, DecideQueue, DecideRefused, DecideFault, DeadlinePasses, backend,
           WorkerInv
  <1>3. ASSUME NEW c \in Askers, Cancel(c)
        PROVE  WorkerInv'
    <2>1. worker' = worker \/ (worker.active /\ worker' = [worker EXCEPT !.cancelled = TRUE])
      BY <1>3 DEF Cancel, CancelGoesOn, CancelRoute, CancelAsk, CancelGet, CancelPut,
             CancelTell, CancelFault, backend
    <2>2. /\ worker'.at = worker.at /\ worker'.item = worker.item
          /\ worker'.result = worker.result /\ (worker'.active <=> worker.active)
          /\ worker'.cancelled => worker.cancelled \/ worker.active
      BY <2>1 DEF TypeOK
    <2> QED BY <2>2 DEF WorkerInv
  <1>4. ASSUME NEW s \in Subscribers, StreamAction(s)
        PROVE  WorkerInv'
    BY <1>4, StreamStep DEF WorkerInv, others
  <1> QED BY <1>1, <1>2, <1>3, <1>4 DEF Next, StreamAction

(***************************************************************************)
(* Where no store call suspends.                                           *)
(***************************************************************************)

\* What the steps of the worker leave stored.
LEMMA WorkerStores ==
    ASSUME TypeOK, WorkerInv
    PROVE  /\ \/ Take \/ Begin \/ FirstCheckpoint \/ GraphReturns \/ GraphRaises
              \/ SaveFailed \/ LastCheckpoint
              \/ ListOwn \/ Move \/ Settle \/ Raised \/ FinalizeGet \/ FinalizeTell
              \/ Interrupted \/ WorkerFault
              => Stored' = Stored
           /\ Mark => Stored' = "running"
           /\ End => Stored' = IF worker.item = "run" THEN Stored ELSE worker.result
           /\ MoveState => Stored' = worker.result
           /\ FinalizePut => Stored' = "cancelled"
  <1>1. \/ Take \/ GraphReturns \/ GraphRaises \/ ListOwn \/ Settle \/ Raised
        \/ FinalizeGet \/ FinalizeTell \/ Interrupted \/ WorkerFault
        => Stored' = Stored
    BY NothingStored DEF Take, GraphReturns, GraphRaises, ListOwn, Settle, Raised,
           FinalizeGet, FinalizeTell, Interrupted, WorkerFault
  <1>2. ASSUME Begin PROVE Stored' = Stored
    BY <1>2, ServiceAssumption, SavedState DEF Begin, TypeOK, Status
  <1>10. ASSUME FirstCheckpoint PROVE Stored' = Stored
    BY <1>10, ServiceAssumption, CheckpointSaved DEF FirstCheckpoint, TypeOK
  <1>3. ASSUME SaveFailed PROVE Stored' = Stored
    BY <1>3, ServiceAssumption, SavedState DEF SaveFailed, TypeOK, Status
  <1>4. ASSUME LastCheckpoint PROVE Stored' = Stored
    BY <1>4, ServiceAssumption, CheckpointSaved DEF LastCheckpoint, TypeOK, Owner
  <1>5. ASSUME Move PROVE Stored' = Stored
    <2>1. /\ Head(worker.todo) \in Nat /\ store \in StoreKinds /\ Public \in RunIds
          /\ db \in Database
      BY <1>5, ServiceAssumption DEF Move, TypeOK
    <2> QED BY <1>5, <2>1, CheckpointSavedAgain DEF Move
  <1>6. ASSUME Mark PROVE Stored' = "running"
    BY <1>6, ServiceAssumption, SavedState DEF Mark, TypeOK, Status
  <1>7. ASSUME End PROVE Stored' = IF worker.item = "run" THEN Stored ELSE worker.result
    BY <1>7, ServiceAssumption, SavedState
       DEF End, WorkerAt, WorkerInv, Owner, TypeOK, Status
  <1>8. ASSUME MoveState PROVE Stored' = worker.result
    BY <1>8, ServiceAssumption, SavedState
       DEF MoveState, WorkerAt, WorkerInv, TypeOK, Status
  <1>9. ASSUME FinalizePut PROVE Stored' = "cancelled"
    BY <1>9, ServiceAssumption, SavedState DEF FinalizePut, TypeOK, Status
  <1> QED BY <1>1, <1>2, <1>3, <1>4, <1>5, <1>6, <1>7, <1>8, <1>9, <1>10

\* And those of all others.
LEMMA OthersStore ==
    ASSUME TypeOK
    PROVE  /\ SubmitCheck \/ SubmitPut \/ SubmitFault \/ OthersQueue \/ DeadlinePasses
              => Stored' = Stored
           /\ \A d \in Reviewers : Decide(d) => Stored' = Stored
           /\ SubmitSave => Stored' = "idle"
           /\ \A c \in Askers :
                 /\ CancelPut(c) => Stored' = "cancelled"
                 /\ \/ CancelRoute(c) \/ CancelAsk(c) \/ CancelGet(c) \/ CancelTell(c)
                    \/ CancelFault(c)
                    => Stored' = Stored
           /\ \A s \in Subscribers : StreamAction(s) => Stored' = Stored
  <1>1. SubmitCheck \/ SubmitPut \/ SubmitFault \/ OthersQueue \/ DeadlinePasses
        => Stored' = Stored
    BY NothingStored DEF SubmitCheck, SubmitPut, SubmitFault, OthersQueue, DeadlinePasses
  <1>6. \A d \in Reviewers : Decide(d) => Stored' = Stored
    BY NothingStored DEF Decide, DecideRead, DecideQueue, DecideRefused, DecideFault
  <1>2. SubmitSave => Stored' = "idle"
    BY ServiceAssumption, SavedState DEF SubmitSave, TypeOK, Status
  <1>3. \A c \in Askers : CancelPut(c) => Stored' = "cancelled"
    BY ServiceAssumption, SavedState DEF CancelPut, TypeOK, Status
  <1>4. \A c \in Askers :
            CancelRoute(c) \/ CancelAsk(c) \/ CancelGet(c) \/ CancelTell(c) \/ CancelFault(c)
            => Stored' = Stored
    BY NothingStored DEF CancelRoute, CancelAsk, CancelGet, CancelTell, CancelFault
  <1>5. \A s \in Subscribers : StreamAction(s) => Stored' = Stored
    BY StreamStep, NothingStored DEF others
  <1> QED BY <1>1, <1>2, <1>3, <1>4, <1>5, <1>6

\* The store and the types of the coroutines.
LEMMA StoreStays == ASSUME TypeOK, Next PROVE store' = store
  <1>1. Submit \/ OthersQueue \/ (\E d \in Reviewers : Decide(d)) \/ DeadlinePasses
        => store' = store
    BY DEF Submit, SubmitCheck, SubmitSave, SubmitPut, SubmitFault, OthersQueue, Decide,
           DecideRead, DecideQueue, DecideRefused, DecideFault, DeadlinePasses
  <1>2. Worker => store' = store
    BY DEF Worker, Take, Begin, FirstCheckpoint, Mark, GraphReturns, GraphRaises, SaveFailed, End,
           LastCheckpoint, ListOwn, Move, MoveState, Settle, Raised, FinalizeGet,
           FinalizePut, FinalizeTell, Interrupted, WorkerFault, untouched
  <1>3. \A c \in Askers : Cancel(c) => store' = store
    BY DEF Cancel, CancelGoesOn, CancelRoute, CancelAsk, CancelGet, CancelPut, CancelTell,
           CancelFault
  <1>4. \A s \in Subscribers : StreamAction(s) => store' = store
    BY StreamStep DEF others
  <1> QED BY <1>1, <1>2, <1>3, <1>4 DEF Next, StreamAction

\* Whoever has its turn finds no other coroutine between two of its calls.
LEMMA Alone ==
    ASSUME TypeOK, SubmitInv, Atomic, ~Suspends(store), NEW c \in Coroutines, Turn(c)
    PROVE  /\ c # "worker" => worker.at \in {"waiting", "graph", "lost"}
           /\ \A d \in Reviewers : d # c => decide[d].at # "read"
           /\ \A d \in Askers : d # c => cancel[d] \notin {"get", "put", "tell"}
           /\ c # "submit" => submit \notin {"saving", "saved"}
  <1>1. loop \in {"free", c} /\ {"free", "submit", "worker"} \cap Clients = {}
    BY CoroutinesAssumption DEF Turn
  <1>2. c # "worker" => worker.at \in {"waiting", "graph", "lost"}
    BY <1>1 DEF Atomic, TypeOK
  <1>3. \A d \in Reviewers \cup Askers : d # "free"
    BY <1>1 DEF Clients
  <1>4. \A d \in Reviewers : d # c => decide[d].at # "read"
    BY <1>1, <1>3 DEF Atomic
  <1>5. \A d \in Askers : d # c => cancel[d] \notin {"get", "put", "tell"}
    BY <1>1, <1>3 DEF Atomic
  <1>6. c # "submit" => submit \notin {"saving", "saved"}
    BY <1>1 DEF SubmitInv
  <1> QED BY <1>2, <1>4, <1>5, <1>6

\* The coroutines have different names.
LEMMA Names ==
    /\ \A c \in Clients : c \notin {"free", "submit", "worker"}
    /\ \A s \in Subscribers : s \notin Askers /\ s \notin Reviewers
    /\ \A d \in Reviewers : d \notin Askers
    /\ \A c \in Subscribers \cup Reviewers \cup Askers : c \in Clients /\ c \in Coroutines
    /\ "free" \in Coroutines /\ "submit" \in Coroutines /\ "worker" \in Coroutines
  BY CoroutinesAssumption, AskersAssumption DEF Coroutines, Clients

(***************************************************************************)
(* Between two of its calls a coroutine has the event loop.                *)
(***************************************************************************)

\* The submission.
LEMMA SubmitAtomic ==
    ASSUME TypeOK, SubmitInv, WorkerInv, Atomic, ~Suspends(store), Submit
    PROVE  Atomic'
  <1>1. ASSUME Turn("submit")
        PROVE  /\ worker.at \in {"waiting", "graph", "lost"}
               /\ \A d \in Reviewers : decide[d].at # "read"
               /\ \A d \in Askers : cancel[d] \notin {"get", "put", "tell"}
    BY <1>1, Alone, Names
  <1>2. CASE SubmitCheck
    BY <1>2, <1>1 DEF SubmitCheck, backend, queued, silent, Admit, Atomic
  <1>3. CASE SubmitSave
    BY <1>3, <1>1 DEF SubmitSave, backend, queued, silent, Atomic
  <1>4. CASE SubmitPut
    BY <1>4, <1>1 DEF SubmitPut, backend, queued, silent, Atomic
  <1>5. CASE SubmitFault
    BY <1>5, <1>1 DEF SubmitFault, backend, queued, silent, Fault, Atomic
  <1> QED BY <1>2, <1>3, <1>4, <1>5 DEF Submit

\* The worker.
LEMMA WorkerAtomic ==
    ASSUME TypeOK, SubmitInv, WorkerInv, Atomic, ~Suspends(store), Worker
    PROVE  Atomic'
  <1>1. ASSUME Turn("worker")
        PROVE  /\ \A d \in Reviewers : decide[d].at # "read"
               /\ \A d \in Askers : cancel[d] \notin {"get", "put", "tell"}
    BY <1>1, Alone, Names
  <1>2. CASE Take
    BY <1>2, <1>1
       DEF Take, silent, WorkerAt, Goto, Idle, Atomic, TypeOK, Turn, Await,
           Suspend, Suspends
  <1>3. CASE Begin
    BY <1>3, <1>1
       DEF Begin, untouched, silent, WorkerAt, Goto, Atomic, TypeOK, Turn, Await, Suspend,
           Suspends
  <1>4. CASE Mark
    BY <1>4, <1>1
       DEF Mark, untouched, silent, WorkerAt, Goto, Atomic, TypeOK, Turn, Await, Suspend,
           Suspends
  <1>5. CASE GraphReturns
    BY <1>5, <1>1
       DEF GraphReturns, untouched, silent, WorkerAt, Goto, Atomic, TypeOK, Turn, Await,
           Suspend, Suspends
  <1>6. CASE GraphRaises
    BY <1>6, <1>1
       DEF GraphRaises, untouched, silent, WorkerAt, Goto, Atomic, TypeOK, Turn, Await,
           Suspend, Suspends
  <1>7. CASE SaveFailed
    BY <1>7, <1>1
       DEF SaveFailed, untouched, silent, WorkerAt, Goto, Atomic, TypeOK, Turn, Await,
           Suspend, Suspends
  <1>8. CASE End
    BY <1>8, <1>1
       DEF End, untouched, silent, WorkerAt, Goto, Owner, Atomic, TypeOK, Turn, Await,
           Suspend, Suspends
  <1>9. CASE LastCheckpoint
    BY <1>9, <1>1
       DEF LastCheckpoint, untouched, silent, WorkerAt, Goto, Owner, Atomic, TypeOK, Turn,
           Await, Suspend, Suspends
  <1>10. CASE ListOwn
    BY <1>10, <1>1
       DEF ListOwn, untouched, silent, WorkerAt, Goto, Atomic, TypeOK, Turn, Await, Suspend,
           Suspends
  <1>11. CASE Move
    BY <1>11, <1>1
       DEF Move, untouched, silent, WorkerAt, Goto, Atomic, TypeOK, Turn, Await, Suspend,
           Suspends
  <1>12. CASE MoveState
    BY <1>12, <1>1
       DEF MoveState, untouched, silent, WorkerAt, Goto, Atomic, TypeOK, Turn, Await,
           Suspend, Suspends
  <1>13. CASE Settle
    BY <1>13, <1>1
       DEF Settle, untouched, silent, WorkerAt, Goto, Idle, Atomic, TypeOK, Turn, Await,
           Suspend, Suspends
  <1>14. CASE Raised
    BY <1>14, <1>1
       DEF Raised, untouched, silent, WorkerAt, Goto, Idle, Atomic, TypeOK, Turn, Await,
           Suspend, Suspends
  <1>15. CASE FinalizeGet
    BY <1>15, <1>1
       DEF FinalizeGet, untouched, silent, WorkerAt, Goto, Atomic, TypeOK, Turn, Await,
           Suspend, Suspends
  <1>16. CASE FinalizePut
    BY <1>16, <1>1
       DEF FinalizePut, untouched, silent, WorkerAt, Goto, Atomic, TypeOK, Turn, Await,
           Suspend, Suspends
  <1>17. CASE FinalizeTell
    BY <1>17, <1>1
       DEF FinalizeTell, untouched, silent, WorkerAt, Goto, Idle, Atomic, TypeOK, Turn,
           Await, Suspend, Suspends
  <1>18. CASE Interrupted
    <2>1. worker.cancelled /\ loop = "free" /\ worker.at = "graph"
      BY <1>18 DEF Interrupted, WorkerInv, Atomic
    <2>2. /\ worker' = [worker EXCEPT !.at = "fin_get", !.cancelled = FALSE]
          /\ loop' = "worker" /\ decide' = decide /\ cancel' = cancel
      BY <1>18, <2>1 DEF Interrupted, Finalizing, Await, untouched
    <2>3. worker'.at = "fin_get" /\ ~worker'.cancelled
      BY <2>2 DEF TypeOK
    <2>4. Turn("worker")
      BY <2>1 DEF Turn
    <2> QED BY <1>1, <2>2, <2>3, <2>4 DEF Atomic
  <1>19. CASE WorkerFault
    BY <1>19, <1>1
       DEF WorkerFault, untouched, silent, WorkerAt, Goto, Lost, Idle, Finalizing, Calls,
           Fault, Atomic, TypeOK, Turn, Await, Suspend, Suspends
  <1>20. CASE FirstCheckpoint
    BY <1>20, <1>1
       DEF FirstCheckpoint, untouched, silent, WorkerAt, Goto, Atomic, TypeOK, Turn, Await,
           Suspend, Suspends
  <1> QED BY <1>2, <1>3, <1>4, <1>5, <1>6, <1>7, <1>8, <1>9, <1>10, <1>11, <1>12, <1>13,
             <1>14, <1>15, <1>16, <1>17, <1>18, <1>19, <1>20 DEF Worker

\* The decisions.
LEMMA DecideAtomic ==
    ASSUME TypeOK, SubmitInv, WorkerInv, Atomic, ~Suspends(store), NEW d \in Reviewers,
           Decide(d)
    PROVE  Atomic'
  <1>1. ASSUME Turn(d)
        PROVE  /\ worker.at \in {"waiting", "graph", "lost"}
               /\ \A e \in Reviewers \ {d} : decide[e].at # "read"
               /\ \A c \in Askers : cancel[c] \notin {"get", "put", "tell"}
    BY <1>1, Alone, Names
  <1>2. CASE DecideRead(d)
    <2>1. /\ worker' = worker /\ cancel' = cancel /\ db' = db /\ loop' = d
          /\ decide'[d].seen = Stored
          /\ \A e \in Reviewers \ {d} : decide'[e] = decide[e]
      BY <1>2 DEF DecideRead, backend, TypeOK, Stored, Await
    <2>2. Turn(d)
      BY <1>2 DEF DecideRead, DecideAt, MayDecide
    <2> QED BY <1>1, <2>1, <2>2, NothingStored DEF Atomic
  <1>3. CASE DecideQueue(d) \/ DecideRefused(d) \/ DecideFault(d)
    <2>1. worker' = worker /\ cancel' = cancel /\ DecideDone(d) /\ Turn(d)
      BY <1>3 DEF DecideQueue, DecideRefused, DecideFault, DecideAt, MayDecide, backend
    <2>2. \A e \in Reviewers : decide'[e].at # "read"
      BY <1>1, <2>1, DecidesDone
    <2> QED BY <1>1, <2>1, <2>2 DEF Atomic
  <1> QED BY <1>2, <1>3 DEF Decide

\* The cancellations.
LEMMA CancelAtomic ==
    ASSUME TypeOK, SubmitInv, WorkerInv, Atomic, ~Suspends(store), NEW c \in Askers,
           Cancel(c)
    PROVE  Atomic'
  <1>1. ASSUME Turn(c)
        PROVE  /\ worker.at \in {"waiting", "graph", "lost"}
               /\ \A d \in Reviewers : decide[d].at # "read"
               /\ \A d \in Askers \ {c} : cancel[d] \notin {"get", "put", "tell"}
    BY <1>1, Alone, Names
  <1>2. CASE CancelRoute(c)
    BY <1>2, <1>1
       DEF CancelRoute, backend, queued, silent, CancelAt, CancelGoto, Atomic, TypeOK, WorkerInv,
           Turn, Await, Suspend, Suspends
  <1>3. CASE CancelAsk(c)
    <2>1. /\ worker'.at = worker.at /\ worker.at \in {"waiting", "graph", "lost"}
          /\ flagged' = TRUE
          /\ \A d \in Reviewers : decide'[d].at # "read"
          /\ \A d \in Askers \ {c} : cancel'[d] \notin {"get", "put", "tell"}
      BY <1>3, <1>1 DEF CancelAsk, CancelAt, CancelGoto, TypeOK
    <2>2. CASE worker.active
      <3>1. worker' = [worker EXCEPT !.cancelled = TRUE] /\ CancelGoto(c, "done")
        BY <1>3, <2>2 DEF CancelAsk
      <3>2. cancel'[c] = "done" /\ worker.at = "graph"
        BY <2>1, <2>2, <3>1 DEF CancelGoto, TypeOK, WorkerInv
      <3> QED BY <2>1, <3>2 DEF Atomic
    <2>3. CASE ~worker.active
      <3>1. worker.at # "graph"
        BY <2>1, <2>3 DEF WorkerInv, Finalizing
      <3>2. CancelGoto(c, "get") /\ Await(c)
        BY <1>3, <2>3 DEF CancelAsk
      <3>3. cancel'[c] = "get" /\ loop' = c
        BY <3>2 DEF CancelGoto, Await, TypeOK
      <3> QED BY <2>1, <3>1, <3>3 DEF Atomic
    <2> QED BY <2>2, <2>3
  <1>4. CASE CancelGet(c)
    BY <1>4, <1>1
       DEF CancelGet, backend, queued, silent, CancelAt, CancelGoto, Atomic, TypeOK, WorkerInv,
           Turn, Await, Suspend, Suspends
  <1>5. CASE CancelPut(c)
    BY <1>5, <1>1
       DEF CancelPut, backend, queued, silent, CancelAt, CancelGoto, Atomic, TypeOK, WorkerInv,
           Turn, Await, Suspend, Suspends
  <1>6. CASE CancelTell(c)
    BY <1>6, <1>1
       DEF CancelTell, backend, queued, silent, CancelAt, CancelGoto, Atomic, TypeOK,
           WorkerInv, Turn, Await, Suspend, Suspends
  <1>7. CASE CancelFault(c)
    BY <1>7, <1>1
       DEF CancelFault, backend, queued, silent, CancelAt, CancelGoto, Fault, Atomic, TypeOK,
           WorkerInv, Turn, Await, Suspend, Suspends
  <1> QED BY <1>2, <1>3, <1>4, <1>5, <1>6, <1>7 DEF Cancel, CancelGoesOn

\* Everybody's steps.
LEMMA AtomicStep ==
    ASSUME TypeOK, SubmitInv, WorkerInv, Atomic, ~Suspends(store), Next
    PROVE  Atomic'
  <1>1. CASE OthersQueue \/ DeadlinePasses
    <2>1. \E c \in {"free", Deadline} : Turn(c)
      BY <1>1 DEF OthersQueue, DeadlinePasses, CancelAt, Turn
    <2>2. /\ worker.at \in {"waiting", "graph", "lost"}
          /\ \A d \in Reviewers : decide[d].at # "read"
          /\ \A d \in Askers : cancel[d] \notin {"get", "put", "tell"} \/ d = Deadline
      BY <2>1, Alone, Names DEF Askers
    <2>3. /\ worker' = worker /\ decide' = decide
          /\ \A d \in Askers : cancel'[d] \notin {"get", "put", "tell"}
      <3>1. CASE OthersQueue
        <4>1. \A d \in Askers : cancel[d] \notin {"get", "put", "tell"}
          BY <3>1, Alone, Names DEF OthersQueue, Turn
        <4> QED BY <3>1, <4>1 DEF OthersQueue, backend
      <3>2. CASE DeadlinePasses
        BY <2>2, <3>2 DEF DeadlinePasses, CancelAt, CancelGoto, TypeOK
      <3> QED BY <1>1, <3>1, <3>2
    <2> QED BY <2>2, <2>3 DEF Atomic
  <1>2. ASSUME NEW s \in Subscribers, StreamAction(s)
        PROVE  Atomic'
    <2>1. UNCHANGED others /\ Turn(s)
      BY <1>2, StreamStep
    <2>2. /\ worker.at \in {"waiting", "graph", "lost"}
          /\ \A d \in Reviewers : decide[d].at # "read"
          /\ \A d \in Askers : cancel[d] \notin {"get", "put", "tell"}
      BY <2>1, Alone, Names
    <2> QED BY <2>1, <2>2 DEF Atomic, others
  <1> QED BY <1>1, <1>2, SubmitAtomic, WorkerAtomic, DecideAtomic, CancelAtomic
          DEF Next, StreamAction

(***************************************************************************)
(* A worker is lost to an error, or to a second cancellation.              *)
(***************************************************************************)

TwoDone == \E c, d \in Askers : c # d /\ cancel[c] = "done" /\ cancel[d] = "done"
OneDone == \E c \in Askers : cancel[c] = "done"

\* Cancellations stay done and errors are not forgotten.
LEMMA DoneStays ==
    ASSUME TypeOK, Next
    PROVE  /\ OneDone => OneDone'
           /\ TwoDone => TwoDone'
           /\ faults > 0 => faults' > 0
  <1>1. \A c \in Askers : cancel[c] = "done" => cancel'[c] = "done"
    <2>1. Submit \/ OthersQueue \/ Worker \/ (\E d \in Reviewers : Decide(d))
          => cancel' = cancel
      BY DEF Submit, SubmitCheck, SubmitSave, SubmitPut, SubmitFault, OthersQueue, Decide,
             DecideRead, DecideQueue, DecideRefused, DecideFault, Worker, Take, Begin,
             FirstCheckpoint, Mark,
             GraphReturns, GraphRaises, SaveFailed, End, LastCheckpoint, ListOwn, Move,
             MoveState, Settle, Raised, FinalizeGet, FinalizePut, FinalizeTell, Interrupted,
             WorkerFault, untouched
    <2>2. DeadlinePasses => \A c \in Askers : cancel[c] = "done" => cancel'[c] = "done"
      BY DEF DeadlinePasses, CancelAt, CancelGoto, TypeOK
    <2>3. ASSUME NEW d \in Askers, Cancel(d)
          PROVE  \A c \in Askers : cancel[c] = "done" => cancel'[c] = "done"
      BY <2>3 DEF Cancel, CancelGoesOn, CancelRoute, CancelAsk, CancelGet, CancelPut,
             CancelTell, CancelFault, CancelAt, CancelGoto, TypeOK
    <2>4. \A s \in Subscribers : StreamAction(s) => cancel' = cancel
      BY StreamStep DEF others
    <2> QED BY <2>1, <2>2, <2>3, <2>4 DEF Next, StreamAction
  <1>2. faults' = faults \/ Fault
    <2>1. Submit \/ OthersQueue \/ (\E d \in Reviewers : Decide(d)) \/ DeadlinePasses
          => faults' = faults \/ Fault
      BY DEF Submit, SubmitCheck, SubmitSave, SubmitPut, SubmitFault, OthersQueue, Decide,
             DecideRead, DecideQueue, DecideRefused, DecideFault, DeadlinePasses
    <2>2. Worker => faults' = faults \/ Fault
      BY DEF Worker, Take, Begin, FirstCheckpoint, Mark, GraphReturns, GraphRaises, SaveFailed, End,
             LastCheckpoint, ListOwn, Move, MoveState, Settle, Raised, FinalizeGet,
             FinalizePut, FinalizeTell, Interrupted, WorkerFault, untouched
    <2>3. \A c \in Askers : Cancel(c) => faults' = faults \/ Fault
      BY DEF Cancel, CancelGoesOn, CancelRoute, CancelAsk, CancelGet, CancelPut, CancelTell,
             CancelFault
    <2>4. \A s \in Subscribers : StreamAction(s) => faults' = faults \/ Fault
      BY StreamStep
    <2> QED BY <2>1, <2>2, <2>3, <2>4 DEF Next, StreamAction
  <1>3. faults > 0 => faults' > 0
    BY <1>2, FaultType
  <1> QED BY <1>1, <1>3 DEF OneDone, TwoDone

\* The invariant with the two facts named.
LEMMA CancelNamed ==
    /\ CancelInv <=>
        /\ worker.cancelled \/ (worker.active /\ worker.at \in Finalizing) => OneDone
        /\ worker.cancelled /\ worker.at \in Finalizing => Suspends(store) /\ TwoDone
        /\ worker.at = "lost" => faults > 0 \/ (Suspends(store) /\ TwoDone)
    /\ CancelInv' <=>
        /\ worker'.cancelled \/ (worker'.active /\ worker'.at \in Finalizing) => OneDone'
        /\ worker'.cancelled /\ worker'.at \in Finalizing => Suspends(store') /\ TwoDone'
        /\ worker'.at = "lost" => faults' > 0 \/ (Suspends(store') /\ TwoDone')
  BY DEF CancelInv, WorkerSurvives, OneDone, TwoDone

\* Where the worker goes, it keeps all else.
LEMMA GotoKeeps ==
    ASSUME TypeOK, NEW label \in WorkerLabel, Goto(label)
    PROVE  /\ worker'.at = label /\ worker'.item = worker.item /\ worker'.result = worker.result
           /\ (worker'.active <=> worker.active) /\ (worker'.cancelled <=> worker.cancelled)
  BY DEF TypeOK, Goto

\* The worker: a cancellation that reaches its handlers is the second one.
LEMMA WorkerKeepsCancel ==
    ASSUME TypeOK, WorkerInv, CancelInv, Next, Worker
    PROVE  CancelInv'
  <1>1. /\ (OneDone => OneDone') /\ (TwoDone => TwoDone')
        /\ (faults > 0 => faults' > 0) /\ store' = store
    BY DoneStays, StoreStays
  <1>2. CASE Take
    BY <1>2, <1>1, CancelNamed
       DEF Take, silent, WorkerAt, Goto, Idle, Finalizing, TypeOK, WorkerInv
  <1>3. CASE Begin
    BY <1>3, <1>1, CancelNamed
       DEF Begin, untouched, silent, WorkerAt, Goto, Finalizing, TypeOK, WorkerInv
  <1>4. CASE Mark
    BY <1>4, <1>1, CancelNamed
       DEF Mark, untouched, silent, WorkerAt, Goto, Finalizing, TypeOK, WorkerInv
  <1>5. CASE GraphReturns
    BY <1>5, <1>1, CancelNamed
       DEF GraphReturns, untouched, silent, WorkerAt, Goto, Finalizing, TypeOK, WorkerInv
  <1>6. CASE GraphRaises
    BY <1>6, <1>1, CancelNamed
       DEF GraphRaises, untouched, silent, WorkerAt, Goto, Finalizing, TypeOK, WorkerInv
  <1>7. CASE SaveFailed
    BY <1>7, <1>1, CancelNamed
       DEF SaveFailed, untouched, silent, WorkerAt, Goto, Finalizing, TypeOK, WorkerInv
  <1>8. CASE End
    BY <1>8, <1>1, CancelNamed
       DEF End, untouched, silent, WorkerAt, Goto, Owner, Finalizing, TypeOK, WorkerInv
  <1>9. CASE LastCheckpoint
    BY <1>9, <1>1, CancelNamed
       DEF LastCheckpoint, untouched, silent, WorkerAt, Goto, Owner, Finalizing, TypeOK,
           WorkerInv
  <1>10. CASE ListOwn
    BY <1>10, <1>1, CancelNamed
       DEF ListOwn, untouched, silent, WorkerAt, Goto, Finalizing, TypeOK, WorkerInv
  <1>11. CASE Move
    BY <1>11, <1>1, CancelNamed
       DEF Move, untouched, silent, WorkerAt, Goto, Finalizing, TypeOK, WorkerInv
  <1>12. CASE MoveState
    BY <1>12, <1>1, CancelNamed
       DEF MoveState, untouched, silent, WorkerAt, Goto, Finalizing, TypeOK, WorkerInv
  <1>13. CASE Settle
    BY <1>13, <1>1, CancelNamed
       DEF Settle, untouched, silent, WorkerAt, Goto, Idle, Finalizing, TypeOK, WorkerInv
  <1>14. CASE Raised
    BY <1>14, <1>1, CancelNamed
       DEF Raised, untouched, silent, WorkerAt, Goto, Idle, Finalizing, TypeOK, WorkerInv
  <1>15. CASE FinalizeGet
    <2>1. /\ worker.at = "fin_get" /\ worker'.at = "fin_put" /\ (worker'.active <=> worker.active)
          /\ ~worker'.cancelled
      BY <1>15, GotoKeeps DEF FinalizeGet, WorkerAt, WorkerLabel, Calls
    <2> QED BY <2>1, <1>1, CancelNamed DEF Finalizing
  <1>16. CASE FinalizePut
    <2>1. /\ worker.at = "fin_put" /\ worker'.at = "fin_tell" /\ (worker'.active <=> worker.active)
          /\ ~worker'.cancelled
      BY <1>16, GotoKeeps DEF FinalizePut, WorkerAt, WorkerLabel, Calls
    <2> QED BY <2>1, <1>1, CancelNamed DEF Finalizing
  <1>17. CASE FinalizeTell
    BY <1>17, <1>1, CancelNamed
       DEF FinalizeTell, untouched, silent, WorkerAt, Goto, Idle, Finalizing, TypeOK,
           WorkerInv
  <1>18. CASE Interrupted
    <2>1. OneDone /\ worker.cancelled
      BY <1>18, CancelNamed DEF Interrupted
    <2>2. CASE worker.at \in Finalizing
      <3>1. worker'.at = "lost" /\ ~worker'.active /\ ~worker'.cancelled
        BY <1>18, <2>2 DEF Interrupted, Lost, Idle
      <3> QED BY <2>1, <2>2, <3>1, <1>1, CancelNamed DEF Finalizing
    <2>3. CASE worker.at \notin Finalizing
      <3>1. worker'.at = "fin_get" /\ ~worker'.cancelled
        BY <1>18, <2>3 DEF Interrupted, TypeOK
      <3> QED BY <2>1, <3>1, <1>1, CancelNamed
    <2> QED BY <2>2, <2>3
  <1>19. CASE WorkerFault
    <2>1. faults' > 0 /\ ~worker.cancelled
      BY <1>19, FaultType DEF WorkerFault, WorkerAt
    <2>2. CASE worker.at \in Finalizing
      <3>1. worker'.at = "lost" /\ ~worker'.active /\ ~worker'.cancelled
        BY <1>19, <2>2 DEF WorkerFault, Lost, Idle
      <3> QED BY <2>1, <3>1, <1>1, CancelNamed DEF Finalizing
    <2>3. CASE worker.at \notin Finalizing
      <3>1. worker'.at \in {"save_failed", "raised"} /\ ~worker'.cancelled
        BY <1>19, <2>1, <2>3 DEF WorkerFault, Goto, TypeOK
      <3> QED BY <2>1, <3>1, <1>1, CancelNamed DEF Finalizing
    <2> QED BY <2>2, <2>3
  <1>20. CASE FirstCheckpoint
    BY <1>20, <1>1, CancelNamed
       DEF FirstCheckpoint, untouched, silent, WorkerAt, Goto, Finalizing, TypeOK, WorkerInv
  <1> QED BY <1>2, <1>3, <1>4, <1>5, <1>6, <1>7, <1>8, <1>9, <1>10, <1>11, <1>12, <1>13,
             <1>14, <1>15, <1>16, <1>17, <1>18, <1>19, <1>20 DEF Worker

\* Everybody's steps.
LEMMA CancelStep ==
    ASSUME TypeOK, WorkerInv, CancelInv, ~Suspends(store) => Atomic, SubmitInv, Next
    PROVE  CancelInv'
  <1>1. /\ (OneDone => OneDone') /\ (TwoDone => TwoDone')
        /\ (faults > 0 => faults' > 0) /\ store' = store
    BY DoneStays, StoreStays
  <1>2. ASSUME worker' = worker
        PROVE  CancelInv'
    BY <1>1, <1>2, CancelNamed
  <1>3. CASE Submit \/ OthersQueue \/ (\E d \in Reviewers : Decide(d)) \/ DeadlinePasses
    BY <1>2, <1>3 DEF Submit, SubmitCheck, SubmitSave, SubmitPut, SubmitFault, OthersQueue,
           Decide, DecideRead, DecideQueue, DecideRefused, DecideFault, DeadlinePasses, backend
  <1>4. ASSUME NEW s \in Subscribers, StreamAction(s)
        PROVE  CancelInv'
    BY <1>2, <1>4, StreamStep DEF others
  <1>5. ASSUME NEW c \in Askers, Cancel(c)
        PROVE  CancelInv'
    <2>1. CASE worker' = worker
      BY <1>2, <2>1
    <2>2. CASE worker' # worker
      <3>1. CancelAsk(c) /\ worker.active
        BY <1>5, <2>2
           DEF Cancel, CancelGoesOn, CancelRoute, CancelAsk, CancelGet, CancelPut,
               CancelTell, CancelFault, backend
      <3>2. /\ worker' = [worker EXCEPT !.cancelled = TRUE] /\ Turn(c)
            /\ cancel[c] = "asked" /\ cancel' = [cancel EXCEPT ![c] = "done"]
        BY <3>1 DEF CancelAsk, CancelAt, CancelGoto
      <3>3. worker'.at = worker.at /\ cancel'[c] = "done" /\ worker.at # "lost"
            /\ \A d \in Askers \ {c} : cancel'[d] = cancel[d]
        BY <3>1, <3>2 DEF TypeOK, WorkerInv
      <3>4. OneDone'
        BY <3>3 DEF OneDone
      <3>5. ASSUME worker.at \in Finalizing
            PROVE  Suspends(store) /\ TwoDone'
        <4>1. PICK d \in Askers : cancel[d] = "done"
          BY <3>1, <3>5 DEF CancelInv
        <4>2. d # c /\ cancel'[d] = "done"
          BY <3>2, <3>3, <4>1
        <4>3. ASSUME ~Suspends(store) PROVE FALSE
          BY <3>2, <3>5, <4>3, Alone, Names DEF Finalizing
        <4> QED BY <3>3, <4>2, <4>3 DEF TwoDone
      <3> QED BY <1>1, <3>3, <3>4, <3>5, CancelNamed
    <2> QED BY <2>1, <2>2
  <1> QED BY <1>3, <1>4, <1>5, WorkerKeepsCancel DEF Next, StreamAction

(***************************************************************************)
(* What the worker's steps do, in terms of the invariant.                  *)
(***************************************************************************)

\* The worker goes from one of its calls to the next.
Moves(from, to) ==
    /\ worker.at = from /\ worker'.at = to /\ worker'.item = worker.item
    /\ Turn("worker")
    /\ UNCHANGED <<items, overlapped, flagged, cancel, decide, submit, log, stream>>

\* The steps that do no more than that and their call.
LEMMA WorkerMoves ==
    ASSUME TypeOK, WorkerInv
    PROVE  /\ Begin => /\ Moves("begin", "first")
                       /\ faults' = faults /\ Stored' = Stored
                       /\ worker'.result = worker.result
           /\ FirstCheckpoint => /\ Moves("first", "graph")
                                 /\ faults' = faults /\ Stored' = Stored
                                 /\ worker'.result = worker.result
           /\ Mark => /\ Moves("mark", "graph")
                      /\ faults' = faults /\ Stored' = "running"
                      /\ worker'.result = worker.result
           /\ SaveFailed => /\ Moves("save_failed", "raised")
                            /\ faults' = faults /\ Stored' = Stored
                            /\ worker'.result = worker.result
           /\ MoveState => /\ Moves("move", "settle")
                           /\ faults' = faults /\ Stored' = worker.result
                           /\ worker'.result = worker.result
           /\ FinalizeGet => /\ Moves("fin_get", "fin_put")
                             /\ faults' = faults /\ Stored' = Stored
                             /\ worker'.result = worker.result
           /\ FinalizePut => /\ Moves("fin_put", "fin_tell")
                             /\ faults' = faults /\ Stored' = "cancelled"
                             /\ worker'.result = worker.result
           /\ ListOwn => /\ Moves("list", "move")
                         /\ faults' = faults /\ Stored' = Stored
                         /\ worker'.result = worker.result
           /\ Move => /\ Moves("move", "move")
                      /\ faults' = faults /\ Stored' = Stored
                      /\ worker'.result = worker.result
           /\ GraphReturns => /\ Moves("graph", "end")
                              /\ faults' = faults /\ Stored' = Stored
                              /\ worker'.result \in {"completed", "failed", "paused"}
           /\ GraphRaises =>
                 /\ Moves("graph", IF worker.item = "run" THEN "save_failed" ELSE "raised")
                 /\ faults' = faults /\ Stored' = Stored /\ worker'.result = worker.result
           /\ End => /\ Moves("end", "checkpoint") /\ faults' = faults
                     /\ Stored' = IF worker.item = "run" THEN Stored ELSE worker.result
                     /\ worker'.result = worker.result
           /\ LastCheckpoint =>
                 /\ Moves("checkpoint", IF worker.item = "run" THEN "list" ELSE "settle")
                 /\ faults' = faults /\ Stored' = Stored /\ worker'.result = worker.result
  <1>1. ASSUME Begin
        PROVE  Moves("begin", "first") /\ faults' = faults /\ Stored' = Stored
               /\ worker'.result = worker.result
    BY <1>1, WorkerStores, GotoKeeps
       DEF Begin, WorkerAt, Moves, untouched, queued, silent, WorkerLabel, Calls
  <1>2. ASSUME Mark
        PROVE  Moves("mark", "graph") /\ faults' = faults /\ Stored' = "running"
               /\ worker'.result = worker.result
    BY <1>2, WorkerStores, GotoKeeps
       DEF Mark, WorkerAt, Moves, untouched, queued, silent, WorkerLabel, Calls
  <1>3. ASSUME SaveFailed
        PROVE  Moves("save_failed", "raised") /\ faults' = faults /\ Stored' = Stored
               /\ worker'.result = worker.result
    BY <1>3, WorkerStores, GotoKeeps
       DEF SaveFailed, WorkerAt, Moves, untouched, queued, silent, WorkerLabel, Calls
  <1>4. ASSUME MoveState
        PROVE  Moves("move", "settle") /\ faults' = faults /\ Stored' = worker.result
               /\ worker'.result = worker.result
    BY <1>4, WorkerStores, GotoKeeps
       DEF MoveState, WorkerAt, Moves, untouched, queued, silent, WorkerLabel, Calls
  <1>5. ASSUME FinalizeGet
        PROVE  Moves("fin_get", "fin_put") /\ faults' = faults /\ Stored' = Stored
               /\ worker'.result = worker.result
    BY <1>5, WorkerStores, GotoKeeps
       DEF FinalizeGet, WorkerAt, Moves, untouched, queued, silent, WorkerLabel, Calls
  <1>6. ASSUME FinalizePut
        PROVE  Moves("fin_put", "fin_tell") /\ faults' = faults /\ Stored' = "cancelled"
               /\ worker'.result = worker.result
    BY <1>6, WorkerStores, GotoKeeps
       DEF FinalizePut, WorkerAt, Moves, untouched, queued, silent, WorkerLabel, Calls
  <1>7. ASSUME ListOwn
        PROVE  Moves("list", "move") /\ faults' = faults /\ Stored' = Stored
               /\ worker'.result = worker.result
    BY <1>7, WorkerStores DEF ListOwn, WorkerAt, Moves, untouched, queued, silent, TypeOK
  <1>8. ASSUME Move
        PROVE  Moves("move", "move") /\ faults' = faults /\ Stored' = Stored
               /\ worker'.result = worker.result
    BY <1>8, WorkerStores DEF Move, WorkerAt, Moves, untouched, queued, silent, TypeOK
  <1>9. ASSUME GraphReturns
        PROVE  /\ Moves("graph", "end") /\ faults' = faults /\ Stored' = Stored
               /\ worker'.result \in {"completed", "failed", "paused"}
    BY <1>9, WorkerStores DEF GraphReturns, WorkerAt, Moves, untouched, queued, silent, TypeOK
  <1>10. ASSUME GraphRaises
        PROVE  /\ Moves("graph", IF worker.item = "run" THEN "save_failed" ELSE "raised")
               /\ faults' = faults /\ Stored' = Stored /\ worker'.result = worker.result
    BY <1>10, WorkerStores, GotoKeeps
       DEF GraphRaises, WorkerAt, Moves, untouched, queued, silent, WorkerLabel, Calls
  <1>11. ASSUME End
        PROVE  /\ Moves("end", "checkpoint") /\ faults' = faults
               /\ Stored' = IF worker.item = "run" THEN Stored ELSE worker.result
               /\ worker'.result = worker.result
    BY <1>11, WorkerStores, GotoKeeps
       DEF End, WorkerAt, Moves, untouched, queued, silent, WorkerLabel, Calls
  <1>12. ASSUME LastCheckpoint
        PROVE  /\ Moves("checkpoint", IF worker.item = "run" THEN "list" ELSE "settle")
               /\ faults' = faults /\ Stored' = Stored /\ worker'.result = worker.result
    BY <1>12, WorkerStores, GotoKeeps
       DEF LastCheckpoint, WorkerAt, Moves, untouched, queued, silent, WorkerLabel, Calls
  <1>13. ASSUME FirstCheckpoint
        PROVE  Moves("first", "graph") /\ faults' = faults /\ Stored' = Stored
               /\ worker'.result = worker.result
    BY <1>13, WorkerStores, GotoKeeps
       DEF FirstCheckpoint, WorkerAt, Moves, untouched, queued, silent, WorkerLabel, Calls
  <1> QED BY <1>1, <1>2, <1>3, <1>4, <1>5, <1>6, <1>7, <1>8, <1>9, <1>10, <1>11, <1>12, <1>13

\* The worker takes an item of the run.
LEMMA Takes ==
    ASSUME TypeOK, Take
    PROVE  /\ worker.at = "waiting" /\ Turn("worker") /\ items # <<>>
           /\ worker'.item = Head(items) /\ items' = Tail(items)
           /\ worker'.item \in Items /\ worker'.item \in Waiting
           /\ Waiting = Waiting' \cup {worker'.item} /\ (items' = <<>> <=> Waiting' = {})
           /\ (worker'.active <=> ~flagged)
           /\ worker'.at = IF flagged THEN "fin_get"
                           ELSE IF worker'.item = "run" THEN "begin" ELSE "mark"
           /\ Stored' = Stored
           /\ UNCHANGED <<faults, overlapped, flagged, cancel, decide, submit, log, stream>>
  <1>1. /\ worker.at = "waiting" /\ Turn("worker") /\ items # <<>>
        /\ worker'.item = Head(items) /\ items' = Tail(items)
        /\ (worker'.active <=> ~flagged)
        /\ worker'.at = IF flagged THEN "fin_get"
                        ELSE IF Head(items) = "run" THEN "begin" ELSE "mark"
        /\ Stored' = Stored
        /\ UNCHANGED <<faults, overlapped, flagged, cancel, decide, submit, log, stream>>
    BY NothingStored DEF Take, WorkerAt, Idle, silent
  <1> QED BY <1>1, ItemsQueue

\* What waits, as long as the queue of items stays.
LEMMA WaitingStays ==
    ASSUME items' = items
    PROVE  Waiting' = Waiting /\ (DecisionWaits' <=> DecisionWaits)
  BY DEF Waiting, DecisionWaits

\* It is interrupted, ...
LEMMA Interrupts ==
    ASSUME TypeOK, WorkerInv, Atomic, ~Suspends(store), Interrupted
    PROVE  /\ worker.at = "graph" /\ worker'.at = "fin_get" /\ worker'.item = worker.item
           /\ Turn("worker") /\ Stored' = Stored
           /\ UNCHANGED <<faults, items, overlapped, flagged, cancel, decide, submit, log, stream>>
  <1>1. worker.cancelled /\ loop = "free" /\ worker.at = "graph"
    BY DEF Interrupted, WorkerInv, Atomic
  <1>2. worker' = [worker EXCEPT !.at = "fin_get", !.cancelled = FALSE]
    BY <1>1 DEF Interrupted, Finalizing
  <1> QED BY <1>1, <1>2, NothingStored DEF Interrupted, Turn, TypeOK, untouched, queued, silent

\* ... fails in a call of the store, ...
LEMMA Fails ==
    ASSUME TypeOK, WorkerFault
    PROVE  /\ worker.at \in Calls /\ Turn("worker") /\ faults' > 0 /\ Stored' = Stored
           /\ \/ worker.at \in Finalizing /\ worker'.at = "lost"
              \/ /\ worker.at \in {"end", "checkpoint"} /\ worker.item = "run"
                 /\ worker'.at = "save_failed" /\ worker'.item = worker.item
              \/ /\ worker.at \notin Finalizing /\ worker'.at = "raised"
                 /\ worker'.item = worker.item
           /\ UNCHANGED <<items, overlapped, flagged, cancel, decide, submit, log, stream>>
  <1>1. /\ worker.at \in Calls /\ Turn("worker") /\ faults' > 0 /\ Stored' = Stored
        /\ UNCHANGED <<items, overlapped, flagged, cancel, decide, submit, log, stream>>
    <2>1. faults' > 0
      BY FaultType DEF WorkerFault
    <2>2. Stored' = Stored
      BY NothingStored DEF WorkerFault
    <2> QED BY <2>1, <2>2 DEF WorkerFault, WorkerAt, queued, silent
  <1>2. CASE worker.at \in Finalizing
    BY <1>1, <1>2 DEF WorkerFault, Lost, Idle
  <1>3. CASE worker.at \notin Finalizing
    BY <1>1, <1>3 DEF WorkerFault, Goto, TypeOK
  <1> QED BY <1>1, <1>2, <1>3

\* ... or tells how its work ended.
LEMMA Settles ==
    ASSUME TypeOK, WorkerInv, Settle \/ Raised \/ FinalizeTell
    PROVE  /\ worker'.at = "waiting" /\ Turn("worker") /\ Stored' = Stored
           /\ UNCHANGED <<faults, items, overlapped, flagged, cancel, decide, submit>>
           /\ \/ /\ worker.at = "settle" /\ worker.result = "paused"
                 /\ Publish("human_review_required")
              \/ worker.at = "settle" /\ worker.result = "completed" /\ Publish("run_completed")
              \/ worker.at = "settle" /\ worker.result = "failed" /\ Publish("run_failed")
              \/ worker.at = "raised" /\ Publish("run_failed")
              \/ worker.at = "fin_tell" /\ Publish("run_cancelled")
  <1>1. CASE Settle
    <2>1. /\ worker'.at = "waiting" /\ Turn("worker") /\ Stored' = Stored
          /\ UNCHANGED <<faults, items, overlapped, flagged, cancel, decide, submit>>
          /\ worker.at = "settle" /\ worker.result \in {"completed", "failed", "paused"}
      BY <1>1, WorkerStores DEF Settle, WorkerAt, Idle, untouched, queued, WorkerInv
    <2>2. CASE worker.result = "paused"
      BY <1>1, <2>1, <2>2 DEF Settle
    <2>3. CASE worker.result = "completed"
      BY <1>1, <2>1, <2>3 DEF Settle
    <2>4. CASE worker.result = "failed"
      BY <1>1, <2>1, <2>4 DEF Settle
    <2> QED BY <2>1, <2>2, <2>3, <2>4
  <1>2. CASE Raised
    BY <1>2, WorkerStores DEF Raised, WorkerAt, Idle, untouched, queued
  <1>3. CASE FinalizeTell
    BY <1>3, WorkerStores DEF FinalizeTell, WorkerAt, Idle, untouched, queued
  <1> QED BY <1>1, <1>2, <1>3

(***************************************************************************)
(* What is stored.                                                         *)
(***************************************************************************)

\* The worker.
LEMMA WorkerStored ==
    ASSUME TypeOK, SubmitInv, WorkerInv, Atomic, StoredInv, ~Suspends(store), Worker
    PROVE  StoredInv'
  <1> "run" \notin Reviewers /\ NONE \notin Reviewers /\ NONE # "run"
    BY NoneIsNoItem DEF Items
  <1>1. ASSUME Turn("worker")
        PROVE  \A d \in Askers : cancel[d] \notin {"get", "put", "tell"}
    BY <1>1, Alone, Names
  <1>a. ASSUME worker.at \notin {"waiting", "lost"}
        PROVE  (items # <<>> => overlapped) /\ "run" \notin Waiting
    BY <1>a, ItemsQueue DEF StoredInv
  <1>2. CASE Take
    <2>1. /\ worker.at = "waiting" /\ items # <<>> /\ items' = Tail(items)
          /\ Stored' = Stored /\ worker'.item \in Items /\ worker'.item \in Waiting
          /\ Waiting = Waiting' \cup {worker'.item} /\ (items' = <<>> <=> Waiting' = {})
          /\ worker'.at = IF flagged THEN "fin_get"
                          ELSE IF worker'.item = "run" THEN "begin" ELSE "mark"
          /\ overlapped' = overlapped /\ faults' = faults
          /\ \A d \in Askers : cancel'[d] \notin {"get", "put", "tell"}
      BY <1>2, <1>1, Takes
    <2>2. /\ worker'.item = "run" => ~overlapped /\ Stored \in {"idle", "cancelled"}
          /\ worker'.item \in Reviewers /\ ~overlapped =>
                 Stored \in {"paused", "running", "cancelled"}
          /\ ~overlapped /\ Stored = "cancelled" => flagged
          /\ ~overlapped => items' = <<>>
          /\ "run" \in Waiting => ~overlapped
      BY <2>1 DEF StoredInv, DecisionWaits
    <2>3. /\ items' # <<>> => overlapped
          /\ "run" \notin Waiting'
      BY <2>1, <2>2
    <2>4. worker'.item = "run" \/ worker'.item \in Reviewers
      BY <2>1 DEF Items
    <2>5. CASE flagged
      BY <2>1, <2>2, <2>3, <2>4, <2>5 DEF StoredInv, Cancellable
    <2>6. CASE ~flagged
      BY <2>1, <2>2, <2>3, <2>4, <2>6 DEF StoredInv
    <2> QED BY <2>5, <2>6
  <1>3. CASE Begin
    BY <1>3, <1>1, <1>a, WorkerMoves, WaitingStays
       DEF Moves, StoredInv, WorkerInv, Cancellable, Items
  <1>4. CASE Mark
    BY <1>4, <1>1, <1>a, WorkerMoves, WaitingStays
       DEF Moves, StoredInv, WorkerInv, Cancellable, Items
  <1>5. CASE GraphReturns
    BY <1>5, <1>1, <1>a, WorkerMoves, WaitingStays
       DEF Moves, StoredInv, WorkerInv, Cancellable, Items
  <1>6. CASE GraphRaises
    BY <1>6, <1>1, <1>a, WorkerMoves, WaitingStays
       DEF Moves, StoredInv, WorkerInv, Cancellable, Items
  <1>7. CASE SaveFailed
    BY <1>7, <1>1, <1>a, WorkerMoves, WaitingStays
       DEF Moves, StoredInv, WorkerInv, Cancellable, Items
  <1>8. CASE End
    BY <1>8, <1>1, <1>a, WorkerMoves, WaitingStays
       DEF Moves, StoredInv, WorkerInv, Cancellable, Items
  <1>9. CASE LastCheckpoint
    BY <1>9, <1>1, <1>a, WorkerMoves, WaitingStays
       DEF Moves, StoredInv, WorkerInv, Cancellable, Items
  <1>10. CASE ListOwn
    BY <1>10, <1>1, <1>a, WorkerMoves, WaitingStays
       DEF Moves, StoredInv, WorkerInv, Cancellable, Items
  <1>11. CASE Move
    BY <1>11, <1>1, <1>a, WorkerMoves, WaitingStays
       DEF Moves, StoredInv, WorkerInv, Cancellable, Items
  <1>12. CASE MoveState
    BY <1>12, <1>1, <1>a, WorkerMoves, WaitingStays
       DEF Moves, StoredInv, WorkerInv, Cancellable, Items
  <1>13. CASE Settle
    BY <1>13, <1>1, <1>a, Settles, WaitingStays DEF StoredInv, WorkerInv, Cancellable, Items
  <1>14. CASE Raised
    BY <1>14, <1>1, <1>a, Settles, WaitingStays DEF StoredInv, WorkerInv, Cancellable, Items
  <1>15. CASE FinalizeGet
    BY <1>15, <1>1, <1>a, WorkerMoves, WaitingStays
       DEF Moves, StoredInv, WorkerInv, Cancellable, Items
  <1>16. CASE FinalizePut
    BY <1>16, <1>1, <1>a, WorkerMoves, WaitingStays
       DEF Moves, StoredInv, WorkerInv, Cancellable, Items
  <1>17. CASE FinalizeTell
    BY <1>17, <1>1, <1>a, Settles, WaitingStays DEF StoredInv, WorkerInv, Cancellable, Items
  <1>18. CASE Interrupted
    BY <1>18, <1>1, <1>a, Interrupts, WaitingStays DEF StoredInv, WorkerInv, Cancellable, Items
  <1>19. CASE WorkerFault
    BY <1>19, <1>1, <1>a, Fails, WaitingStays
       DEF StoredInv, WorkerInv, Cancellable, Items, Calls, Finalizing
  <1>20. CASE FirstCheckpoint
    BY <1>20, <1>1, <1>a, WorkerMoves, WaitingStays
       DEF Moves, StoredInv, WorkerInv, Cancellable, Items
  <1> QED BY <1>2, <1>3, <1>4, <1>5, <1>6, <1>7, <1>8, <1>9, <1>10, <1>11, <1>12, <1>13,
             <1>14, <1>15, <1>16, <1>17, <1>18, <1>19, <1>20 DEF Worker

\* The submission.
LEMMA SubmitStored ==
    ASSUME TypeOK, SubmitInv, WorkerInv, Atomic, StoredInv, ~Suspends(store), Submit
    PROVE  StoredInv'
  <1> "run" \notin Reviewers /\ NONE \notin Reviewers /\ NONE # "run"
    BY NoneIsNoItem DEF Items
  <1>1. /\ submit \in {"new", "saving", "saved"}
        /\ items = <<>> /\ Waiting = {} /\ ~overlapped /\ worker.at = "waiting"
        /\ worker.item = NONE /\ \A c \in Askers : cancel[c] = "new"
        /\ worker' = worker /\ cancel' = cancel /\ overlapped' = overlapped
        /\ flagged' = flagged
    BY ItemsQueue DEF Submit, SubmitCheck, SubmitSave, SubmitPut, SubmitFault, SubmitInv,
                      Idle, backend, queued
  <1>2. CASE SubmitCheck \/ SubmitSave \/ SubmitFault
    <2>1. items' = items
      BY <1>2 DEF SubmitCheck, SubmitSave, SubmitFault, backend, queued
    <2> QED BY <1>1, <2>1, WaitingStays DEF StoredInv
  <1>3. CASE SubmitPut
    <2>1. /\ Stored = "idle" /\ Stored' = Stored
          /\ items' = items \/ items' = Append(items, "run")
      BY <1>3, OthersStore DEF SubmitPut, SubmitInv, silent
    <2>2. CASE items' = items
      BY <1>1, <2>1, <2>2, WaitingStays DEF StoredInv
    <2>3. CASE items' = Append(items, "run")
      <3>1. Waiting' = {"run"} /\ Tail(items') = <<>>
        BY <1>1, <2>3, ItemsQueue DEF Items
      <3>2. ~DecisionWaits'
        BY <3>1 DEF DecisionWaits
      <3> QED BY <1>1, <2>1, <3>1, <3>2 DEF StoredInv
    <2> QED BY <2>1, <2>2, <2>3
  <1> QED BY <1>2, <1>3 DEF Submit

\* The decision, which finds the run as it was read.
LEMMA DecideStored ==
    ASSUME TypeOK, SubmitInv, WorkerInv, Atomic, StoredInv, ~Suspends(store),
           NEW d \in Reviewers, Decide(d)
    PROVE  StoredInv'
  <1> "run" \notin Reviewers /\ NONE \notin Reviewers /\ NONE # "run"
    BY NoneIsNoItem DEF Items
  <1>1. /\ Stored' = Stored /\ worker' = worker /\ cancel' = cancel
        /\ faults' = 0 => faults = 0
    <2>1. Stored' = Stored
      BY OthersStore
    <2>2. worker' = worker /\ cancel' = cancel /\ (faults' = faults \/ Fault)
      BY DEF Decide, DecideRead, DecideQueue, DecideRefused, DecideFault, backend
    <2> QED BY <2>1, <2>2, FaultType
  <1>2. CASE DecideRead(d) \/ DecideRefused(d) \/ DecideFault(d)
    <2>1. items' = items /\ overlapped' = overlapped /\ flagged' = flagged
      BY <1>2 DEF DecideRead, DecideRefused, DecideFault, backend, queued
    <2> QED BY <1>1, <2>1, WaitingStays DEF StoredInv
  <1>3. CASE DecideQueue(d)
    <2>1. /\ items' = Append(items, d)
          /\ overlapped' = (overlapped \/ items # <<>> \/ worker.item # NONE)
          /\ faults' = faults
          /\ decide[d].at = "read" /\ decide[d].seen \in Reviewable /\ Turn(d)
      BY <1>3 DEF DecideQueue, DecideAt
    <2>2. Stored \in {"paused", "running"}
      BY <2>1 DEF Atomic, Reviewable
    <2>3. /\ Waiting' = Waiting \cup {d} /\ (items = <<>> => Tail(items') = <<>>)
          /\ items = <<>> <=> Waiting = {}
      BY <2>1, ItemsQueue DEF Items
    <2>4. "run" \notin Waiting'
      BY <2>2, <2>3 DEF StoredInv
    <2>5. /\ worker.at \in {"waiting", "graph", "lost"}
          /\ \A c \in Askers : cancel[c] \notin {"get", "put", "tell"}
      BY <2>1, Alone, Names
    <2>6. ~overlapped' => items = <<>> /\ ~overlapped /\ worker.at \in {"waiting", "lost"}
      BY <2>1 DEF WorkerInv, Items
    <2>7. worker.at = "graph" /\ worker.item = "run" => Stored = "idle"
      BY DEF StoredInv
    <2>8. worker.at = "graph" /\ worker.item \in Reviewers => Stored = "running"
      BY DEF StoredInv
    <2> QED BY <1>1, <2>1, <2>2, <2>3, <2>4, <2>5, <2>6, <2>7, <2>8 DEF StoredInv
  <1> QED BY <1>2, <1>3 DEF Decide

\* The cancellations, too.
LEMMA CancelStored ==
    ASSUME TypeOK, SubmitInv, WorkerInv, Atomic, StoredInv, ~Suspends(store),
           NEW c \in Askers, Cancel(c)
    PROVE  StoredInv'
  <1> "run" \notin Reviewers /\ NONE \notin Reviewers /\ NONE # "run"
    BY NoneIsNoItem DEF Items
  <1>1. /\ worker.at \in {"waiting", "graph", "lost"}
        /\ \A a \in Askers : a # c => cancel[a] \notin {"get", "put", "tell"}
        /\ \A a \in Askers : a # c => cancel'[a] \notin {"get", "put", "tell"}
    <2>1. Turn(c)
      BY DEF Cancel, CancelGoesOn, CancelRoute, CancelAsk, CancelGet, CancelPut, CancelTell,
             CancelFault, CancelAt
    <2>2. /\ worker.at \in {"waiting", "graph", "lost"}
          /\ \A a \in Askers : a # c => cancel[a] \notin {"get", "put", "tell"}
      BY <2>1, Alone, Names
    <2>3. \A a \in Askers : a # c => cancel'[a] = cancel[a]
      BY DEF Cancel, CancelGoesOn, CancelRoute, CancelAsk, CancelGet, CancelPut, CancelTell,
             CancelFault, CancelGoto, TypeOK
    <2> QED BY <2>2, <2>3
  <1>2. /\ items' = items /\ overlapped' = overlapped
        /\ worker'.at = worker.at /\ worker'.item = worker.item
        /\ worker'.result = worker.result
        /\ faults' = 0 => faults = 0 
        /\ flagged => flagged'
    BY FaultType
       DEF Cancel, CancelGoesOn, CancelRoute, CancelAsk, CancelGet, CancelPut, CancelTell,
           CancelFault, backend, queued, TypeOK
  <1>3. CASE CancelRoute(c) \/ CancelAsk(c) \/ CancelGet(c) \/ CancelTell(c) \/ CancelFault(c)
    <2>1. Stored' = Stored
      BY <1>3, OthersStore
    <2>2. /\ cancel'[c] = "put" => Stored \in Cancellable
          /\ cancel'[c] # "tell"
      BY <1>3 DEF CancelRoute, CancelAsk, CancelGet, CancelTell, CancelFault, CancelGoto,
                  TypeOK, Stored
    <2> QED BY <1>1, <1>2, <2>1, <2>2, WaitingStays DEF StoredInv
  <1>4. CASE CancelPut(c)
    <2>1. /\ cancel[c] = "put" /\ cancel'[c] = "tell" /\ Stored' = "cancelled"
          /\ faults' = faults /\ flagged' = flagged
      BY <1>4, OthersStore DEF CancelPut, CancelAt, CancelGoto, TypeOK, backend
    <2>2. flagged /\ worker.at \in {"waiting", "lost"}
      BY <2>1 DEF Atomic
    <2> QED BY <1>1, <1>2, <2>1, <2>2, WaitingStays DEF StoredInv, WorkerInv
  <1> QED BY <1>3, <1>4 DEF Cancel, CancelGoesOn

\* Everybody's steps.
LEMMA StoredStep ==
    ASSUME TypeOK, SubmitInv, WorkerInv, Atomic, StoredInv, ~Suspends(store), Next
    PROVE  StoredInv'
  <1>1. CASE OthersQueue
    BY <1>1, OthersStore, WaitingStays DEF OthersQueue, backend, queued, StoredInv
  <1>2. CASE DeadlinePasses
    <2>1. /\ Stored' = Stored
          /\ UNCHANGED <<items, overlapped, flagged, worker, faults>>
          /\ \A c \in Askers : cancel'[c] = cancel[c] \/ cancel'[c] = "asked"
      BY <1>2, OthersStore DEF DeadlinePasses, CancelGoto, TypeOK, queued
    <2> QED BY <2>1, WaitingStays DEF StoredInv
  <1>3. ASSUME NEW s \in Subscribers, StreamAction(s)
        PROVE  StoredInv'
    <2>1. UNCHANGED others /\ Stored' = Stored /\ (faults' = 0 => faults = 0)
      BY <1>3, StreamStep, OthersStore, FaultType
    <2> QED BY <2>1, WaitingStays DEF StoredInv, others, queued
  <1> QED BY <1>1, <1>2, <1>3, SubmitStored, WorkerStored, DecideStored, CancelStored
          DEF Next, StreamAction

(***************************************************************************)
(* A result is final, unless decisions overlap.                            *)
(***************************************************************************)

\* Whoever saves has just looked at a state that is not the end of the run, but
\* for the execution of a decision that overlaps what gave the result.
LEMMA FinalStep ==
    ASSUME TypeOK, SubmitInv, WorkerInv, Atomic, StoredInv, ~Suspends(store), Next,
           Stored \in Terminal, Stored' # Stored
    PROVE  /\ overlapped /\ worker.item \in Reviewers
           /\ Mark \/ FinalizePut
  <1> "run" \notin Reviewers /\ NONE \notin Reviewers /\ NONE # "run"
    BY NoneIsNoItem DEF Items
  <1>1. CASE Mark
    BY <1>1 DEF Mark, WorkerAt, StoredInv, WorkerInv, Terminal
  <1>2. CASE End
    <2>1. worker.at = "end" /\ worker.item \in Items /\ worker.item # "run"
      BY <1>2, WorkerMoves DEF Moves, WorkerInv
    <2> QED BY <2>1 DEF StoredInv, Items, Terminal
  <1>3. CASE MoveState
    BY <1>3 DEF MoveState, WorkerAt, WorkerInv, StoredInv, Terminal
  <1>4. CASE FinalizePut
    <2>1. worker.at = "fin_put" /\ Stored' = "cancelled" /\ worker.item \in Items
      BY <1>4, WorkerMoves DEF Moves, WorkerInv
    <2> QED BY <1>4, <2>1 DEF StoredInv, Items, Terminal, Cancellable
  <1>5. CASE Worker
    BY <1>1, <1>2, <1>3, <1>4, <1>5, WorkerStores DEF Worker
  <1>6. CASE Submit
    <2>1. SubmitSave => Stored = NONE
      BY DEF SubmitSave, SubmitInv
    <2>2. NONE \notin Terminal
      BY NoneIsNoStatus DEF Status, Terminal
    <2> QED BY <1>6, <2>1, <2>2, OthersStore DEF Submit
  <1>7. ASSUME NEW c \in Askers, Cancel(c)
        PROVE  FALSE
    <2>1. CancelPut(c) => Stored \in Cancellable
      BY DEF CancelPut, CancelAt, StoredInv
    <2> QED BY <1>7, <2>1, OthersStore DEF Cancel, CancelGoesOn, Cancellable, Terminal
  <1>8. CASE OthersQueue \/ DeadlinePasses \/ (\E d \in Reviewers : Decide(d))
    BY <1>8, OthersStore
  <1>9. ASSUME NEW s \in Subscribers, StreamAction(s)
        PROVE  FALSE
    BY <1>9, OthersStore
  <1> QED BY <1>5, <1>6, <1>7, <1>8, <1>9 DEF Next, StreamAction

(***************************************************************************)
(* What is published.                                                      *)
(***************************************************************************)

\* Nothing new in the log.
LEMMA LogStays == ASSUME log' = log PROVE LastEvent' = LastEvent /\ (Ended' <=> Ended)
  BY DEF LastEvent, Ended

\* The statements of the invariant for the next state.
LEMMA EventNamed ==
    /\ Tells' <=>
         /\ LastEvent' = "run_completed" => Stored' = "completed"
         /\ LastEvent' = "run_cancelled" => Stored' = "cancelled"
         /\ LastEvent' = "human_review_required" => Stored' = "paused"
         /\ Stored' \in Terminal => LastEvent' \in EndEvent
         /\ LastEvent' = "run_failed" /\ faults' = 0 => Stored' \notin {"completed", "cancelled"}
    /\ Announcing' <=>
         \/ worker'.at \in {"settle", "raised", "fin_tell"}
         \/ worker'.at = "checkpoint" /\ worker'.item \in Reviewers
         \/ \E c \in Askers : cancel'[c] = "tell"
    /\ EventInv' <=>
         /\ ~Announcing' /\ ~overlapped' => Tells'
         /\ ~overlapped' /\ ((DecisionWaits' /\ ~flagged') \/ worker'.at = "mark")
                => LastEvent' = "human_decision_submitted"
         /\ Stored' \in Terminal => Ended' \/ Announcing'
  BY DEF EventInv, Tells, Announcing, Terminal, EndEvent

\* What the log may tell does not depend on errors that are to come.
LEMMA TellsStays ==
    ASSUME TypeOK, Tells, Stored' = Stored, LastEvent' = LastEvent,
           faults' = 0 => faults = 0
    PROVE  Tells'
  BY EventNamed DEF Tells

\* The worker.
LEMMA WorkerEvents ==
    ASSUME TypeOK, SubmitInv, WorkerInv, Atomic, StoredInv, EventInv, ~Suspends(store), Worker
    PROVE  EventInv'
  <1> "run" \notin Reviewers /\ NONE \notin Reviewers /\ NONE # "run"
    BY NoneIsNoItem DEF Items
  <1>1. ASSUME Turn("worker")
        PROVE  \A d \in Askers : cancel[d] \notin {"get", "put", "tell"}
    BY <1>1, Alone, Names
  <1>a. ASSUME worker.at \notin {"waiting", "lost"}, ~overlapped
        PROVE  ~DecisionWaits
    <2>1. Waiting = {}
      BY <1>a, ItemsQueue DEF StoredInv
    <2> QED BY <2>1 DEF DecisionWaits
  <1>2. CASE Take
    <2>1. /\ LastEvent' = LastEvent /\ (Ended' <=> Ended) /\ Stored' = Stored /\ faults' = faults
          /\ worker.at = "waiting" /\ items # <<>> /\ items' = Tail(items)
          /\ worker'.item \in Waiting /\ worker'.item \in Items
          /\ (items' = <<>> <=> Waiting' = {})
          /\ flagged' = flagged /\ overlapped' = overlapped
          /\ worker'.at = IF flagged THEN "fin_get"
                          ELSE IF worker'.item = "run" THEN "begin" ELSE "mark"
          /\ \A d \in Askers : cancel[d] # "tell" /\ cancel'[d] # "tell"
      BY <1>2, <1>1, Takes, LogStays
    <2>2. ~Announcing
      BY <2>1 DEF Announcing
    <2>3. ~overlapped => Tells'
      BY <2>1, <2>2, TellsStays DEF EventInv
    <2>4. worker'.at = "mark" /\ ~overlapped => LastEvent = "human_decision_submitted"
      BY <2>1 DEF EventInv, Items, DecisionWaits
    <2>5. ~overlapped => ~DecisionWaits'
      BY <2>1 DEF StoredInv, DecisionWaits
    <2>6. Stored \in Terminal => Ended
      BY <2>2 DEF EventInv
    <2> QED BY <2>1, <2>3, <2>4, <2>5, <2>6, EventNamed
  <1>3. CASE Begin
    BY <1>3, <1>1, <1>a, WorkerMoves, LogStays, WaitingStays, EventNamed
       DEF Moves, WorkerInv, EventInv, Announcing, Tells, EndEvent, Terminal, Items
  <1>4. CASE Mark
    BY <1>4, <1>1, <1>a, WorkerMoves, LogStays, WaitingStays, EventNamed
       DEF Moves, WorkerInv, EventInv, Announcing, Tells, EndEvent, Terminal, Items
  <1>5. CASE GraphReturns
    BY <1>5, <1>1, <1>a, WorkerMoves, LogStays, WaitingStays, EventNamed
       DEF Moves, WorkerInv, EventInv, Announcing, Tells, EndEvent, Terminal, Items
  <1>6. CASE GraphRaises
    BY <1>6, <1>1, <1>a, WorkerMoves, LogStays, WaitingStays, EventNamed
       DEF Moves, WorkerInv, EventInv, Announcing, Tells, EndEvent, Terminal, Items
  <1>7. CASE SaveFailed
    BY <1>7, <1>1, <1>a, WorkerMoves, LogStays, WaitingStays, EventNamed
       DEF Moves, WorkerInv, EventInv, Announcing, Tells, EndEvent, Terminal, Items
  <1>8. CASE End
    BY <1>8, <1>1, <1>a, WorkerMoves, LogStays, WaitingStays, EventNamed
       DEF Moves, WorkerInv, EventInv, Announcing, Tells, EndEvent, Terminal, Items
  <1>9. CASE LastCheckpoint
    BY <1>9, <1>1, <1>a, WorkerMoves, LogStays, WaitingStays, EventNamed
       DEF Moves, WorkerInv, EventInv, Announcing, Tells, EndEvent, Terminal, Items
  <1>10. CASE ListOwn
    BY <1>10, <1>1, <1>a, WorkerMoves, LogStays, WaitingStays, EventNamed
       DEF Moves, WorkerInv, EventInv, Announcing, Tells, EndEvent, Terminal, Items
  <1>11. CASE Move
    BY <1>11, <1>1, <1>a, WorkerMoves, LogStays, WaitingStays, EventNamed
       DEF Moves, WorkerInv, EventInv, Announcing, Tells, EndEvent, Terminal, Items
  <1>12. CASE MoveState
    BY <1>12, <1>1, <1>a, WorkerMoves, LogStays, WaitingStays, EventNamed
       DEF Moves, WorkerInv, EventInv, Announcing, Tells, EndEvent, Terminal, Items
  <1>13. CASE Settle
    <2>1. /\ worker'.at = "waiting" /\ Stored' = Stored /\ faults' = faults
          /\ items' = items /\ overlapped' = overlapped
      BY <1>13, Settles
    <2>2. PICK e \in Event :
             /\ Publish(e)
             /\ \/ e = "human_review_required" /\ Stored = "paused"
                \/ e = "run_completed" /\ Stored = "completed"
                \/ e = "run_failed" /\ (faults = 0 => Stored \notin {"completed", "cancelled"})
                \/ e = "run_cancelled" /\ Stored = "cancelled"
      <3>1. worker.at = "settle" /\ Stored = worker.result
        BY <1>13 DEF Settle, WorkerAt, StoredInv
      <3> QED BY <1>13, <3>1, Settles DEF Event
    <2>3. LastEvent' = e /\ (Ended' <=> Ended \/ e \in EndEvent)
      BY <2>2, Published
    <2>4. Tells'
      BY <2>1, <2>2, <2>3, EventNamed DEF Terminal, EndEvent
    <2>5. Stored \in Terminal => e \in EndEvent
      BY <2>2 DEF Terminal, EndEvent
    <2>6. ~overlapped => ~DecisionWaits'
      BY <1>a, <1>13, <2>1, WaitingStays DEF Settle, WorkerAt
    <2> QED BY <2>1, <2>3, <2>4, <2>5, <2>6, EventNamed
  <1>14. CASE Raised
    <2>1. /\ worker'.at = "waiting" /\ Stored' = Stored /\ faults' = faults
          /\ items' = items /\ overlapped' = overlapped
      BY <1>14, Settles
    <2>2. PICK e \in Event :
             /\ Publish(e)
             /\ \/ e = "human_review_required" /\ Stored = "paused"
                \/ e = "run_completed" /\ Stored = "completed"
                \/ e = "run_failed" /\ (faults = 0 => Stored \notin {"completed", "cancelled"})
                \/ e = "run_cancelled" /\ Stored = "cancelled"
      <3>1. Publish("run_failed") /\ (faults = 0 => Stored \notin {"completed", "cancelled"})
        BY <1>14 DEF Raised, WorkerAt, StoredInv
      <3> QED BY <3>1 DEF Event
    <2>3. LastEvent' = e /\ (Ended' <=> Ended \/ e \in EndEvent)
      BY <2>2, Published
    <2>4. Tells'
      BY <2>1, <2>2, <2>3, EventNamed DEF Terminal, EndEvent
    <2>5. Stored \in Terminal => e \in EndEvent
      BY <2>2 DEF Terminal, EndEvent
    <2>6. ~overlapped => ~DecisionWaits'
      BY <1>a, <1>14, <2>1, WaitingStays DEF Raised, WorkerAt
    <2> QED BY <2>1, <2>3, <2>4, <2>5, <2>6, EventNamed
  <1>15. CASE FinalizeGet
    BY <1>15, <1>1, <1>a, WorkerMoves, LogStays, WaitingStays, EventNamed
       DEF Moves, WorkerInv, EventInv, Announcing, Tells, EndEvent, Terminal, Items
  <1>16. CASE FinalizePut
    BY <1>16, <1>1, <1>a, WorkerMoves, LogStays, WaitingStays, EventNamed
       DEF Moves, WorkerInv, EventInv, Announcing, Tells, EndEvent, Terminal, Items
  <1>17. CASE FinalizeTell
    <2>1. /\ worker'.at = "waiting" /\ Stored' = Stored /\ faults' = faults
          /\ items' = items /\ overlapped' = overlapped
      BY <1>17, Settles
    <2>2. PICK e \in Event :
             /\ Publish(e)
             /\ \/ e = "human_review_required" /\ Stored = "paused"
                \/ e = "run_completed" /\ Stored = "completed"
                \/ e = "run_failed" /\ (faults = 0 => Stored \notin {"completed", "cancelled"})
                \/ e = "run_cancelled" /\ Stored = "cancelled"
      <3>1. Publish("run_cancelled") /\ Stored = "cancelled"
        BY <1>17 DEF FinalizeTell, WorkerAt, StoredInv
      <3> QED BY <3>1 DEF Event
    <2>3. LastEvent' = e /\ (Ended' <=> Ended \/ e \in EndEvent)
      BY <2>2, Published
    <2>4. Tells'
      BY <2>1, <2>2, <2>3, EventNamed DEF Terminal, EndEvent
    <2>5. Stored \in Terminal => e \in EndEvent
      BY <2>2 DEF Terminal, EndEvent
    <2>6. ~overlapped => ~DecisionWaits'
      BY <1>a, <1>17, <2>1, WaitingStays DEF FinalizeTell, WorkerAt
    <2> QED BY <2>1, <2>3, <2>4, <2>5, <2>6, EventNamed
  <1>18. CASE Interrupted
    BY <1>18, <1>1, <1>a, Interrupts, LogStays, WaitingStays, EventNamed
       DEF WorkerInv, EventInv, Announcing, Tells, EndEvent, Terminal, Items
  <1>19. CASE WorkerFault
    BY <1>19, <1>1, <1>a, Fails, LogStays, WaitingStays, EventNamed
       DEF WorkerInv, EventInv, Announcing, Tells, EndEvent, Terminal, Items, Finalizing, Calls
  <1>20. CASE FirstCheckpoint
    BY <1>20, <1>1, <1>a, WorkerMoves, LogStays, WaitingStays, EventNamed
       DEF Moves, WorkerInv, EventInv, Announcing, Tells, EndEvent, Terminal, Items
  <1> QED BY <1>2, <1>3, <1>4, <1>5, <1>6, <1>7, <1>8, <1>9, <1>10, <1>11, <1>12, <1>13,
             <1>14, <1>15, <1>16, <1>17, <1>18, <1>19, <1>20 DEF Worker

\* Nothing changes that the events are about.
LEMMA EventsStay ==
    ASSUME TypeOK, EventInv, worker'.at = worker.at, worker'.item = worker.item,
           Stored' = Stored, log' = log, faults' = 0 => faults = 0, flagged => flagged',
           \A c \in Askers : cancel'[c] = "tell" <=> cancel[c] = "tell",
           items' = items, overlapped' = overlapped
    PROVE  EventInv'
  <1>1. LastEvent' = LastEvent /\ (Ended' <=> Ended)
    BY LogStays
  <1>2. Announcing' <=> Announcing
    BY DEF Announcing
  <1>3. Tells => Tells'
    BY <1>1, TellsStays
  <1> QED BY <1>1, <1>2, <1>3, WaitingStays, EventNamed DEF EventInv

\* The submission.
LEMMA SubmitEvents ==
    ASSUME TypeOK, SubmitInv, WorkerInv, Atomic, StoredInv, EventInv, ~Suspends(store),
           Submit
    PROVE  EventInv'
  <1>1. /\ log = <<>> /\ worker.at = "waiting" /\ ~Ended /\ items = <<>>
        /\ worker' = worker /\ cancel' = cancel /\ Waiting = {} /\ overlapped' = overlapped
    BY ItemsQueue DEF Submit, SubmitCheck, SubmitSave, SubmitPut, SubmitFault, SubmitInv,
                      Idle, backend, queued, Ended
  <1>2. CASE SubmitCheck \/ SubmitFault
    BY <1>2, OthersStore, EventsStay, FaultType
       DEF SubmitCheck, SubmitFault, backend, queued, silent
  <1>3. CASE SubmitSave
    <2>1. log' = log /\ items' = items /\ Stored' = "idle"
      BY <1>3, OthersStore DEF SubmitSave, backend, queued, silent
    <2>2. LastEvent' = "nothing" /\ ~Ended' /\ ~DecisionWaits'
      BY <1>1, <2>1, LogStays, WaitingStays DEF LastEvent, DecisionWaits
    <2> QED BY <1>1, <2>1, <2>2, EventNamed DEF Terminal
  <1>4. CASE SubmitPut
    <2>1. Stored' = "idle" /\ items' = Append(items, "run") /\ Publish("run_started")
      BY <1>4, OthersStore DEF SubmitPut, SubmitInv
    <2>2. LastEvent' = "run_started" /\ ~Ended'
      BY <1>1, <2>1, Published DEF Event, EndEvent
    <2>3. ~DecisionWaits'
      <3>1. Waiting' = {"run"}
        BY <1>1, <2>1, ItemsQueue DEF Items
      <3> QED BY <3>1, NoneIsNoItem DEF DecisionWaits
    <2> QED BY <1>1, <2>1, <2>2, <2>3, EventNamed DEF Terminal
  <1> QED BY <1>2, <1>3, <1>4 DEF Submit

\* The decision.
LEMMA DecideEvents ==
    ASSUME TypeOK, SubmitInv, WorkerInv, Atomic, StoredInv, EventInv, ~Suspends(store),
           NEW d \in Reviewers, Decide(d)
    PROVE  EventInv'
  <1>1. CASE DecideRead(d) \/ DecideRefused(d) \/ DecideFault(d)
    <2>1. worker' = worker /\ log' = log /\ items' = items /\ overlapped' = overlapped
          /\ flagged' = flagged /\ cancel' = cancel /\ (faults' = faults \/ Fault)
      BY <1>1 DEF DecideRead, DecideRefused, DecideFault, backend, queued, silent
    <2> QED BY <2>1, OthersStore, EventsStay, FaultType
  <1>2. CASE DecideQueue(d)
    <2>1. /\ Stored' = Stored /\ worker' = worker /\ cancel' = cancel
          /\ Publish("human_decision_submitted")
          /\ decide[d].at = "read" /\ decide[d].seen \in Reviewable
      BY <1>2, OthersStore DEF DecideQueue, DecideAt
    <2>2. Stored \in Reviewable
      BY <2>1 DEF Atomic
    <2>3. LastEvent' = "human_decision_submitted"
      BY <2>1, Published DEF Event
    <2> QED BY <2>1, <2>2, <2>3, EventNamed DEF Terminal, Reviewable
  <1> QED BY <1>1, <1>2 DEF Decide

\* The cancellations.
LEMMA CancelEvents ==
    ASSUME TypeOK, SubmitInv, WorkerInv, Atomic, StoredInv, EventInv, ~Suspends(store),
           NEW c \in Askers, Cancel(c)
    PROVE  EventInv'
  <1>1. /\ items' = items /\ overlapped' = overlapped
        /\ worker'.at = worker.at /\ worker'.item = worker.item
        /\ flagged => flagged'
        /\ faults' = 0 => faults = 0
    BY FaultType
       DEF Cancel, CancelGoesOn, CancelRoute, CancelAsk, CancelGet, CancelPut, CancelTell,
           CancelFault, backend, queued, TypeOK
  <1>2. CASE CancelRoute(c) \/ CancelAsk(c) \/ CancelGet(c) \/ CancelFault(c)
    <2>1. /\ \A a \in Askers : cancel'[a] = "tell" <=> cancel[a] = "tell"
          /\ log' = log
      BY <1>2 DEF CancelRoute, CancelAsk, CancelGet, CancelFault, CancelAt, CancelGoto, silent,
                  TypeOK
    <2> QED BY <1>1, <1>2, <2>1, OthersStore, EventsStay
  <1>3. CASE CancelPut(c)
    <2>1. /\ Stored' = "cancelled" /\ log' = log /\ worker' = worker
          /\ flagged' = flagged /\ flagged /\ worker.at \in {"waiting", "lost"}
          /\ cancel'[c] = "tell"
      BY <1>3, OthersStore
         DEF CancelPut, CancelAt, CancelGoto, backend, silent, Atomic, TypeOK
    <2>2. Announcing'
      BY <2>1, EventNamed
    <2> QED BY <1>1, <2>1, <2>2, LogStays, EventNamed
  <1>4. CASE CancelTell(c)
    <2>1. /\ Stored' = Stored /\ Stored = "cancelled" /\ worker' = worker
          /\ flagged' = flagged /\ flagged /\ worker.at \in {"waiting", "lost"}
      BY <1>4, OthersStore DEF CancelTell, CancelAt, Atomic, StoredInv
    <2>2. LastEvent' = "run_cancelled" /\ Ended'
      BY <1>4, Published DEF CancelTell, Event, EndEvent
    <2> QED BY <2>1, <2>2, EventNamed DEF EndEvent
  <1> QED BY <1>2, <1>3, <1>4 DEF Cancel, CancelGoesOn

\* Everybody's steps.
LEMMA EventStep ==
    ASSUME TypeOK, SubmitInv, WorkerInv, Atomic, StoredInv, EventInv,
           ~Suspends(store), Next
    PROVE  EventInv'
  <1>1. CASE OthersQueue
    BY <1>1, OthersStore, EventsStay DEF OthersQueue, backend, queued, silent
  <1>2. CASE DeadlinePasses
    <2>1. \A d \in Askers : cancel'[d] = "tell" <=> cancel[d] = "tell"
      BY <1>2 DEF DeadlinePasses, CancelAt, CancelGoto, TypeOK
    <2> QED BY <1>2, <2>1, OthersStore, EventsStay DEF DeadlinePasses, queued, silent
  <1>3. ASSUME NEW s \in Subscribers, StreamAction(s)
        PROVE  EventInv'
    <2>1. UNCHANGED others /\ Stored' = Stored /\ (faults' = 0 => faults = 0)
      BY <1>3, StreamStep, OthersStore, FaultType
    <2> QED BY <2>1, EventsStay DEF others, queued
  <1>4. CASE Worker
    BY <1>4, WorkerEvents
  <1>5. CASE Submit
    BY <1>5, SubmitEvents
  <1>6. ASSUME NEW d \in Reviewers, Decide(d)
        PROVE  EventInv'
    BY <1>6, DecideEvents
  <1>7. ASSUME NEW c \in Askers, Cancel(c)
        PROVE  EventInv'
    BY <1>7, CancelEvents
  <1> QED BY <1>1, <1>2, <1>3, <1>4, <1>5, <1>6, <1>7 DEF Next, StreamAction

(***************************************************************************)
(* The streams.                                                            *)
(***************************************************************************)

\* A step is silent, publishes an event, or is one of a stream.  Only the
\* submission, a pause and a decision publish anything that is not an end.
LEMMA Publishes ==
    ASSUME TypeOK, WorkerInv, Next
    PROVE  \/ UNCHANGED silent
           \/ \E e \in Event :
                 /\ Publish(e)
                 /\ \/ e \in EndEvent
                    \/ submit = "saved"
                    \/ worker.at = "settle" /\ worker.result = "paused" /\ Stored' = Stored
                    \/ \E d \in Reviewers : /\ decide[d].at = "read" /\ Stored' = Stored
                                            /\ decide[d].seen \in Reviewable
           \/ \E s \in Subscribers : StreamAction(s)
  <1>1. CASE Submit
    BY <1>1 DEF Submit, SubmitCheck, SubmitSave, SubmitPut, SubmitFault, Event, silent
  <1>2. CASE OthersQueue \/ DeadlinePasses
    BY <1>2 DEF OthersQueue, DeadlinePasses
  <1>3. CASE Settle \/ Raised \/ FinalizeTell
    BY <1>3, Settles DEF Event, EndEvent
  <1>4. CASE Worker /\ ~(Settle \/ Raised \/ FinalizeTell)
    BY <1>4 DEF Worker, Take, Begin, FirstCheckpoint, Mark, GraphReturns, GraphRaises, SaveFailed,
           End, LastCheckpoint, ListOwn, Move, MoveState, FinalizeGet, FinalizePut, Interrupted,
           WorkerFault
  <1>5. ASSUME NEW d \in Reviewers, Decide(d)
        PROVE  \/ UNCHANGED silent
               \/ /\ Publish("human_decision_submitted") /\ Stored' = Stored
                  /\ decide[d].at = "read" /\ decide[d].seen \in Reviewable
    BY <1>5, OthersStore
       DEF Decide, DecideRead, DecideQueue, DecideRefused, DecideFault, DecideAt, MayDecide
  <1>6. ASSUME NEW c \in Askers, Cancel(c)
        PROVE  \/ UNCHANGED silent
               \/ Publish("run_cancelled")
    BY <1>6 DEF Cancel, CancelGoesOn, CancelRoute, CancelAsk, CancelGet, CancelPut,
           CancelTell, CancelFault
  <1> QED BY <1>1, <1>2, <1>3, <1>4, <1>5, <1>6 DEF Next, StreamAction, Event, EndEvent

\* Streams keep what the invariant says of them.
LEMMA StreamsStep ==
    ASSUME TypeOK, SubmitInv, WorkerInv, Atomic, StoredInv, EventInv, StreamInv,
           ~Suspends(store), Next
    PROVE  StreamInv'
  <1>1. Ended \/ Stored \in Terminal => Ended \/ Stored' \in Terminal
    <2>1. SUFFICES ASSUME Stored \in Terminal, Stored' # Stored
                   PROVE  Ended \/ Stored' \in Terminal
      OBVIOUS
    <2>2. CASE Mark
      <3>1. worker.at = "mark" /\ Turn("worker")
        BY <2>2, WorkerMoves DEF Moves
      <3>2. ~Announcing
        BY <3>1, Alone, Names DEF Announcing
      <3> QED BY <2>1, <3>2 DEF EventInv
    <2>3. CASE FinalizePut
      BY <2>3, WorkerMoves DEF Terminal
    <2> QED BY <2>1, <2>2, <2>3, FinalStep
  <1>2. CASE UNCHANGED silent
    BY <1>1, <1>2, Silent DEF StreamInv
  <1>3. ASSUME NEW e \in Event, Publish(e)
        PROVE  StreamInv'
    <2>1. /\ Ended => Ended'
          /\ \A n \in DOMAIN log : n \in DOMAIN log'
          /\ Len(log) + 1 \in DOMAIN log'
      BY <1>3, Published
    <2>2. ASSUME NEW s \in Subscribers
          PROVE  /\ \A n \in DOMAIN stream'[s].queue : stream'[s].queue[n] \in DOMAIN log'
                 /\ stream'[s].at = stream[s].at /\ stream'[s].seen = stream[s].seen
      BY <1>3, <2>1, Queued DEF StreamInv
    <2> QED BY <1>1, <2>1, <2>2 DEF StreamInv
  <1>4. ASSUME NEW s \in Subscribers, StreamAction(s)
        PROVE  StreamInv'
    <2>1. PICK x \in StreamType : stream' = [stream EXCEPT ![s] = x] /\ Becomes(s, x)
      BY <1>4, StreamStep
    <2>2. log' = log /\ Stored' = Stored /\ (Ended' <=> Ended)
      BY <1>4, StreamStep, OthersStore, LogStays DEF others
    <2>3. stream \in [Subscribers -> StreamType]
      BY DEF TypeOK, StreamType
    <2>4. stream[s].queue # <<>> =>
             /\ \A n \in DOMAIN Tail(stream[s].queue) :
                   /\ n + 1 \in DOMAIN stream[s].queue
                   /\ Tail(stream[s].queue)[n] = stream[s].queue[n + 1]
             /\ 1 \in DOMAIN stream[s].queue
             /\ Head(stream[s].queue) = stream[s].queue[1]
      BY <2>3 DEF StreamType
    <2>5. \A n \in DOMAIN x.queue : x.queue[n] \in DOMAIN log
      <3>1. \A n \in DOMAIN stream[s].queue : stream[s].queue[n] \in DOMAIN log
        BY DEF StreamInv
      <3>2. CASE x.queue = <<>>
        BY <3>2
      <3>3. CASE x.queue = stream[s].queue
        BY <3>1, <3>3
      <3>4. CASE stream[s].queue # <<>> /\ x.queue = Tail(stream[s].queue)
        <4>1. \A n \in DOMAIN Tail(stream[s].queue) :
                 Tail(stream[s].queue)[n] \in DOMAIN log
          BY <2>4, <3>1, <3>4
        <4> QED BY <3>4, <4>1
      <3> QED BY <2>1, <3>2, <3>3, <3>4 DEF Becomes
    <2>6. stream[s].queue # <<>> /\ log[Head(stream[s].queue)] \in EndEvent => Ended
      BY <2>4 DEF StreamInv, Ended
    <2>7. /\ x.at \in {"leaving", "ended"} => Ended \/ Stored \in Terminal
          /\ x.seen \in Terminal => Ended \/ Stored \in Terminal
      <3>1. NONE \notin Terminal
        BY NoneIsNoStatus DEF Status, Terminal
      <3> QED BY <2>1, <2>6, <3>1 DEF Becomes, StreamInv
    <2> QED BY <2>1, <2>2, <2>3, <2>5, <2>7 DEF StreamInv
  <1> QED BY <1>2, <1>3, <1>4, Publishes

\* A queue that gets an end has one afterwards, and so has the queue of a run that
\* is not under review, or its stream is over.
LEMMA EndKept ==
    ASSUME TypeOK, SubmitInv, WorkerInv, Atomic, StoredInv, StreamInv, ~Suspends(store), Next,
           NEW s \in Subscribers, s \in Registered,
           \/ HasEnd(s) /\ Stored' \notin Reviewable
           \/ log' # log /\ log'[Len(log')] \in EndEvent
    PROVE  HasEnd(s)' \/ stream'[s].at \in {"leaving", "ended", "left"}
  <1>1. CASE UNCHANGED silent
    BY <1>1, Silent DEF HasEnd
  <1>2. ASSUME NEW e \in Event, Publish(e),
               \/ e \in EndEvent
               \/ submit = "saved"
               \/ worker.at = "settle" /\ worker.result = "paused" /\ Stored' = Stored
               \/ \E d \in Reviewers : /\ decide[d].at = "read" /\ Stored' = Stored
                                       /\ decide[d].seen \in Reviewable
        PROVE  HasEnd(s)'
    <2>1. HasEnd(s) => Ended
      BY DEF HasEnd, StreamInv, Ended
    <2>2. log'[Len(log')] = e
      BY <1>2, Published
    <2>3. submit = "saved" => ~Ended
      BY DEF SubmitInv, Ended
    <2>4. worker.at = "settle" /\ worker.result = "paused" => Stored \in Reviewable
      BY DEF StoredInv, Reviewable
    <2>5. \A d \in Reviewers : decide[d].at = "read" /\ decide[d].seen \in Reviewable
                                   => Stored \in Reviewable
      BY DEF Atomic
    <2>6. e \in EndEvent
      BY <1>2, <2>1, <2>2, <2>3, <2>4, <2>5
    <2>7. PICK n \in DOMAIN stream'[s].queue : stream'[s].queue[n] = Len(log) + 1
      BY <1>2, Queued
    <2>8. log'[Len(log) + 1] = e
      BY <1>2, Published
    <2> QED BY <2>6, <2>7, <2>8 DEF HasEnd
  <1>3. ASSUME NEW t \in Subscribers, StreamAction(t)
        PROVE  HasEnd(s)' \/ stream'[s].at \in {"leaving", "ended", "left"}
    <2>1. PICK x \in StreamType : stream' = [stream EXCEPT ![t] = x] /\ Becomes(t, x)
      BY <1>3, StreamStep
    <2>2. log' = log
      BY <1>3, StreamStep DEF others
    <2>3. HasEnd(s)
      BY <2>2
    <2>4. stream \in [Subscribers -> StreamType]
      BY DEF TypeOK, StreamType
    <2>5. CASE t # s \/ x.queue = stream[s].queue
      BY <2>1, <2>2, <2>3, <2>4, <2>5 DEF HasEnd
    <2>6. CASE t = s /\ stream[s].queue # <<>> /\ x.queue = Tail(stream[s].queue)
               /\ log[Head(stream[s].queue)] \notin EndEvent
      <3>1. PICK n \in DOMAIN stream[s].queue : log[stream[s].queue[n]] \in EndEvent
        BY <2>3 DEF HasEnd
      <3>2. /\ Head(stream[s].queue) = stream[s].queue[1] /\ n \in Nat \ {0}
            /\ n # 1 => /\ n - 1 \in DOMAIN Tail(stream[s].queue)
                        /\ Tail(stream[s].queue)[n - 1] = stream[s].queue[n]
        <4> DEFINE q == stream[s].queue
        <4>1. q \in Seq(Nat) /\ q # <<>> /\ n \in 1 .. Len(q) /\ Len(q) \in Nat
          BY <2>4, <2>6, <3>1 DEF StreamType
        <4> HIDE DEF q
        <4>2. Head(q) = q[1]
          BY <4>1
        <4>3. Len(Tail(q)) = Len(q) - 1 /\ Tail(q) \in Seq(Nat)
          BY <4>1
        <4>4. \A i \in 1 .. Len(q) - 1 : Tail(q)[i] = q[i + 1]
          BY <4>1
        <4>5. n # 1 => n - 1 \in 1 .. Len(q) - 1 /\ (n - 1) + 1 = n
          BY <4>1
        <4>6. n # 1 => n - 1 \in DOMAIN Tail(q)
          BY <4>3, <4>5
        <4> QED BY <4>1, <4>2, <4>4, <4>5, <4>6 DEF q
      <3>3. n # 1
        BY <2>6, <3>1, <3>2
      <3>4. stream'[s].queue = Tail(stream[s].queue)
        BY <2>1, <2>4, <2>6
      <3> QED BY <2>2, <3>1, <3>2, <3>3, <3>4 DEF HasEnd
    <2>7. CASE t = s /\ x.at \in {"leaving", "ended", "left"}
      BY <2>1, <2>4, <2>7
    <2>8. stream[s].at \in Registering
      BY DEF Registered
    <2> QED BY <2>1, <2>5, <2>6, <2>7, <2>8 DEF Becomes
  <1> QED BY <1>1, <1>2, <1>3, Publishes

(***************************************************************************)
(* The invariant and the theorems.                                         *)
(***************************************************************************)

\* Every step keeps the types.
LEMMA TypeStep ==
    ASSUME TypeOK, WorkerInv, Next
    PROVE  TypeOK'
  <1>1. CASE OthersQueue
    <2>1. /\ SmallTypes' /\ loop' = loop /\ UNCHANGED <<db, worker, future>>
          /\ UNCHANGED silent
      BY <1>1 DEF OthersQueue, TypeOK, SmallTypes, DecideType, backend, queued
    <2> QED BY <2>1, UntouchedTypes, TypeParts
  <1>2. CASE DeadlinePasses
    <2>1. SmallTypes'
      BY <1>2 DEF DeadlinePasses, CancelGoto, TypeOK, SmallTypes, DecideType, queued, Askers
    <2>2. FutureType'
      BY <1>2 DEF DeadlinePasses, TypeOK, FutureType, Items
    <2>3. loop' \in Coroutines /\ UNCHANGED <<db, worker>> /\ UNCHANGED silent
      BY <1>2 DEF DeadlinePasses, Suspend, Coroutines
    <2> QED BY <2>1, <2>2, <2>3, UntouchedTypes, TypeParts
  <1>3. ASSUME NEW s \in Subscribers, StreamAction(s)
        PROVE  TypeOK'
    <2>1. PICK x \in StreamType : stream' = [stream EXCEPT ![s] = x] /\ Becomes(s, x)
      BY <1>3, StreamStep
    <2>2. UNCHANGED others /\ loop' \in {"free", s} /\ (faults' = faults \/ Fault)
      BY <1>3, StreamStep
    <2>3. SmallTypes' /\ loop' \in Coroutines /\ UNCHANGED <<db, worker, future>>
      BY <2>2, FaultType, Names
         DEF others, queued, TypeOK, SmallTypes, DecideType
    <2>4. stream' \in [Subscribers -> StreamType] /\ log' \in Seq(Event)
      BY <2>1, <2>2 DEF TypeOK, StreamType, others
    <2>5. \A r \in Subscribers : Len(stream'[r].queue) <= QueueSize
      <3>1. \A r \in Subscribers : /\ stream[r].queue \in Seq(Nat)
                                   /\ Len(stream[r].queue) <= QueueSize
        BY DEF TypeOK
      <3>2. Len(x.queue) <= QueueSize
        <4>1. stream[s].queue # <<>> => Len(Tail(stream[s].queue)) <= Len(stream[s].queue)
          BY <3>1
        <4>2. QueueSize \in Nat /\ Len(<<>>) = 0 /\ Len(stream[s].queue) \in Nat
              /\ Len(x.queue) \in Nat
          BY <3>1, ServiceAssumption DEF StreamType
        <4>3. CASE x.queue = <<>>
          BY <4>2, <4>3
        <4>4. CASE x.queue = stream[s].queue
          BY <3>1, <4>4
        <4>5. CASE stream[s].queue # <<>> /\ x.queue = Tail(stream[s].queue)
          BY <3>1, <4>1, <4>2, <4>5
        <4> QED BY <2>1, <4>3, <4>4, <4>5 DEF Becomes
      <3>3. stream \in [Subscribers -> StreamType]
        BY DEF TypeOK, StreamType
      <3> QED BY <2>1, <3>1, <3>2, <3>3
    <2> QED BY <2>3, <2>4, <2>5, UntouchedTypes, TypeParts DEF EventTypes, StreamType
  <1> QED BY <1>1, <1>2, <1>3, SubmitTypes, WorkerTypes, DecideTypes, CancelTypes
          DEF Next, StreamAction

\* It holds at first.
LEMMA RunInit == Init => RunInvariant
  <1> SUFFICES ASSUME Init PROVE RunInvariant
    OBVIOUS
  <1>1. db \in Database /\ Stored = NONE
    BY ServiceAssumption DEF Init, EmptyDatabase, Database, Stored, GetState
  <1>2. NewStream \in StreamType /\ Len(NewStream.queue) = 0
    BY DEF NewStream, StreamType, StreamLabel
  <1>3. TypeOK
    <2>1. loop \in Coroutines /\ worker \in WorkerType
      BY WorkerRecords DEF Init, Coroutines
    <2>2. SmallTypes
      <3>1. 0 \in 0 .. MaxFaults
        BY ServiceAssumption
      <3>2. decide \in [Reviewers -> DecideType]
        BY DEF Init, DecideType
      <3>3. cancel \in [Askers -> {"new", "asked", "get", "put", "tell", "done"}]
        BY DEF Init
      <3>4. items \in Seq(Items) /\ latest \in Items
        BY DEF Init, Items
      <3> QED BY <3>1, <3>2, <3>3, <3>4 DEF Init, SmallTypes
    <2>3. FutureType
      BY DEF Init, FutureType
    <2>4. EventTypes
      BY <1>2, ServiceAssumption DEF Init, EventTypes, StreamType
    <2> QED BY <1>1, <2>1, <2>2, <2>3, <2>4, TypeParts
  <1>4. SubmitInv /\ WorkerInv /\ CancelInv
    BY <1>1, NoneIsNoItem
       DEF Init, SubmitInv, WorkerInv, CancelInv, WorkerSurvives, Idle, Finalizing, Items
  <1>5. NONE \notin Terminal /\ NONE # "paused"
    BY NoneIsNoStatus DEF Status, Terminal
  <1>6. Waiting = {} /\ ~DecisionWaits
    <2>1. Waiting = {}
      BY <1>3, ItemsQueue DEF Init
    <2> QED BY <2>1 DEF DecisionWaits
  <1>7. Atomic /\ StoredInv
    BY <1>1, <1>6, NoneIsNoItem DEF Init, Atomic, StoredInv, Idle, Items
  <1>8. EventInv
    BY <1>1, <1>5, <1>6, NoneIsNoItem
       DEF Init, EventInv, Announcing, Tells, LastEvent, Ended, Idle, Items
  <1>9. StreamInv
    BY <1>5 DEF Init, StreamInv, NewStream
  <1> QED BY <1>3, <1>4, <1>7, <1>8, <1>9 DEF RunInvariant

\* Every step keeps it.
LEMMA RunStep == RunInvariant /\ [Next]_vars => RunInvariant'
  <1> SUFFICES ASSUME RunInvariant, [Next]_vars PROVE RunInvariant'
    OBVIOUS
  <1>1. CASE Next
    <2>1. store' = store
      BY <1>1, StoreStays DEF RunInvariant
    <2>2. TypeOK' /\ SubmitInv' /\ WorkerInv' /\ CancelInv'
      BY <1>1, TypeStep, SubmitStep, WorkerStep, CancelStep DEF RunInvariant
    <2>3. ASSUME ~Suspends(store)
          PROVE  Atomic' /\ StoredInv' /\ EventInv' /\ StreamInv'
      BY <1>1, <2>3, AtomicStep, StoredStep, EventStep, StreamsStep DEF RunInvariant
    <2> QED BY <2>1, <2>2, <2>3 DEF RunInvariant
  <1>2. CASE UNCHANGED vars
    BY <1>2
       DEF vars, queued, RunInvariant, TypeOK, SubmitInv, WorkerInv, CancelInv,
           WorkerSurvives, Atomic, StoredInv, EventInv, Announcing, Tells, LastEvent, Ended,
           StreamInv, Stored, Waiting, DecisionWaits
  <1> QED BY <1>1, <1>2

\* It holds always.
THEOREM RunInvariantHolds == Spec => []RunInvariant
  BY RunInit, RunStep, PTL DEF Spec

\* The variables keep their types, and the queues of the streams their bound.
THEOREM RunTypeCorrect == Spec => []TypeOK
  <1>1. RunInvariant => TypeOK
    BY DEF RunInvariant
  <1> QED BY <1>1, RunInvariantHolds, PTL

\* No worker is lost but to an error of the database or to two cancellations.
THEOREM WorkersSurvive == Spec => []WorkerSurvives
  <1>1. RunInvariant => WorkerSurvives
    BY DEF RunInvariant, CancelInv
  <1> QED BY <1>1, RunInvariantHolds, PTL

\* A refused submission stored nothing, but where the store suspends.
THEOREM RefusedIsNotStored == Spec => []RefusedRunIsNotStored
  <1>1. RunInvariant => RefusedRunIsNotStored
    BY DEF RunInvariant, SubmitInv, RefusedRunIsNotStored
  <1> QED BY <1>1, RunInvariantHolds, PTL

\* No stream ends before its run, however decisions overlap.
THEOREM StreamsEndLate == Spec => []NoEarlyEnd
  <1>1. RunInvariant => NoEarlyEnd
    BY DEF RunInvariant, StreamInv, NoEarlyEnd
  <1> QED BY <1>1, RunInvariantHolds, PTL

\* What was published last is what can be read, as long as no decision overlapped.
THEOREM EventsTellStore == Spec => []EventTellsStore
  <1>1. ASSUME RunInvariant PROVE EventTellsStore
    <2> SUFFICES ASSUME loop = "free", ~Suspends(store), ~overlapped, log # <<>>
                 PROVE  Tells
      BY DEF EventTellsStore, Tells, LastEvent
    <2>1. Atomic /\ EventInv
      BY <1>1 DEF RunInvariant
    <2>2. \A c \in Askers : c # "free"
      BY Names
    <2>3. ~Announcing
      BY <2>1, <2>2 DEF Atomic, Announcing
    <2> QED BY <2>1, <2>3 DEF EventInv
  <1> QED BY <1>1, RunInvariantHolds, PTL

\* A stored result stays, but where the store suspends or a decision is executed
\* that overlapped another one.
THEOREM ResultsStay == Spec => ResultIsFinal
  <1>1. ASSUME RunInvariant, [Next]_vars
        PROVE  [(Stored \in Terminal /\ Stored' # Stored) =>
                    \/ Suspends(store)
                    \/ overlapped /\ worker.item \in Reviewers]_vars
    <2>1. CASE Next
      BY <1>1, <2>1, FinalStep DEF RunInvariant
    <2>2. CASE UNCHANGED vars
      BY <2>2
    <2> QED BY <1>1, <2>1, <2>2
  <1> QED BY <1>1, RunInvariantHolds, PTL DEF Spec, ResultIsFinal

\* Backpressure never takes the end of its run from a stream, however decisions
\* overlap.
THEOREM EndsAreKept == Spec => EndEventKept
  <1> DEFINE Kept == ~Suspends(store) =>
                        \A s \in Subscribers :
                            (/\ s \in Registered
                             /\ \/ log' # log /\ log'[Len(log')] \in EndEvent
                                \/ HasEnd(s) /\ Stored' \notin Reviewable)
                            => HasEnd(s)' \/ stream'[s].at \in {"leaving", "ended", "left"}
  <1>1. ASSUME RunInvariant, [Next]_vars
        PROVE  [Kept]_vars
    <2>1. CASE Next
      <3> SUFFICES ASSUME ~Suspends(store), NEW s \in Subscribers, s \in Registered,
                          \/ log' # log /\ log'[Len(log')] \in EndEvent
                          \/ HasEnd(s) /\ Stored' \notin Reviewable
                   PROVE  HasEnd(s)' \/ stream'[s].at \in {"leaving", "ended", "left"}
        OBVIOUS
      <3> QED BY <1>1, <2>1, EndKept DEF RunInvariant
    <2>2. CASE UNCHANGED vars
      BY <2>2
    <2> QED BY <1>1, <2>1, <2>2
  <1> QED BY <1>1, RunInvariantHolds, PTL DEF Spec, EndEventKept

(***************************************************************************)
(* The checkpoints.  A run's first execution leaves them with the runtime's *)
(* run_id and moves them one after the other; nothing says that the run     *)
(* completed or paused before the last of them has moved, and a resumption  *)
(* adds to them under the client's run_id.                                  *)
(***************************************************************************)

\* Before the runtime has begun, while it makes checkpoints, while they are moved.
Fresh == submit # "accepted" \/ "run" \in Waiting \/ worker.at \in {"begin", "first"}
Making == worker.item = "run" /\ worker.at \in {"graph", "end", "checkpoint", "list"}
Moving == worker.at = "move"

\* Something tells that the first execution gave a result or paused.
Told ==
    \/ Stored \in {"completed", "paused", "running"}
    \/ \E d \in Reviewers : decide[d].seen \in Reviewable
    \/ DecisionWaits \/ worker.item \in Reviewers
    \/ worker.at = "settle"

\* The numbers 1, 2, ..., in order.
Counts(numbers) == \A n \in 1 .. Len(numbers) : numbers[n] = n

\* The checkpoints of the first execution, in the order they were made.
OwnList(d) == Len(d.lists[Inner]) <= Len(d.made) /\ Counts(d.lists[Inner])

NoCheckpoint(d) == d.made = <<>> /\ d.lists[Inner] = <<>> /\ d.lists[Public] = <<>>
OwnOnly(d) == OwnList(d) /\ Len(d.made) = Len(d.lists[Inner]) /\ d.lists[Public] = <<>>

\* Those up to a number, and the later ones of a resumption, are the client's.
MovedTo(d, gone) ==
    /\ \A cp \in 1 .. Len(d.made) : cp <= gone \/ Len(d.lists[Inner]) < cp
                                    => d.made[cp] = Public
    /\ Counts(d.lists[Public])
    /\ Len(d.lists[Public]) = gone + (Len(d.made) - Len(d.lists[Inner]))

Partly(d, todo) ==
    LET gone == Len(d.made) - Len(todo)
    IN  /\ OwnList(d) /\ Len(d.made) = Len(d.lists[Inner])
        /\ Len(todo) <= Len(d.made) /\ \A n \in 1 .. Len(todo) : todo[n] = gone + n
        /\ MovedTo(d, gone)
Moved(d) == OwnList(d) /\ MovedTo(d, Len(d.lists[Inner]))

CheckpointInv ==
    /\ "run" \in Waiting => worker.item = NONE
    /\ Fresh \/ Making \/ Moving => ~Told
    /\ Fresh => NoCheckpoint(db)
    /\ Making => OwnOnly(db)
    /\ Moving => Partly(db, worker.todo)
    /\ Told => Moved(db)
MemoryCheckpoints == ~CanFail(store) => CheckpointInv

\* The statements for the next state.
LEMMA CheckpointNamed ==
    CheckpointInv' <=>
        /\ "run" \in Waiting' => worker'.item = NONE
        /\ Fresh' \/ Making' \/ Moving' => ~Told'
        /\ Fresh' => NoCheckpoint(db')
        /\ Making' => OwnOnly(db')
        /\ Moving' => Partly(db', worker'.todo)
        /\ Told' => Moved(db')
  BY DEF CheckpointInv, NoCheckpoint, OwnOnly, OwnList, Partly, Moved, MovedTo, Counts

\* The checkpoints and the lists of a store.
LEMMA CheckpointTypes ==
    ASSUME NEW d \in Database
    PROVE  /\ d.made \in Seq(RunIds) /\ Len(d.made) \in Nat
           /\ \A r \in RunIds : d.lists[r] \in Seq(Nat) /\ Len(d.lists[r]) \in Nat
           /\ DOMAIN d.lists = RunIds /\ Public \in RunIds /\ Inner \in RunIds
           /\ Public # Inner
  BY ServiceAssumption DEF Database

\* A new checkpoint is the last of its run.
LEMMA CheckpointParts ==
    ASSUME NEW d \in Database, NEW r \in RunIds, NEW q \in RunIds
    PROVE  /\ NewCheckpoint(d, r).made = Append(d.made, r)
           /\ NewCheckpoint(d, r).lists[q] =
                 IF q = r THEN Append(d.lists[r], Len(d.made) + 1) ELSE d.lists[q]
  BY DEF Database, NewCheckpoint

\* Numbers in order, and one more.
LEMMA CountsOneMore ==
    ASSUME NEW numbers \in Seq(Nat), Counts(numbers)
    PROVE  Counts(Append(numbers, Len(numbers) + 1))
  <1> DEFINE x == Len(numbers) + 1
  <1>1. Len(numbers) \in Nat /\ x \in Nat
    OBVIOUS
  <1>2. /\ Len(Append(numbers, x)) = Len(numbers) + 1
        /\ \A n \in 1 .. Len(numbers) : Append(numbers, x)[n] = numbers[n]
        /\ Append(numbers, x)[Len(numbers) + 1] = x
    BY <1>1
  <1>3. \A n \in 1 .. Len(numbers) : numbers[n] = n
    BY DEF Counts
  <1> HIDE DEF x
  <1>4. \A n \in 1 .. Len(numbers) + 1 : Append(numbers, x)[n] = n
    <2> TAKE n \in 1 .. Len(numbers) + 1
    <2>1. CASE n = Len(numbers) + 1
      BY <1>1, <1>2, <2>1 DEF x
    <2>2. CASE n # Len(numbers) + 1
      BY <1>1, <1>2, <1>3, <2>2
    <2> QED BY <2>1, <2>2
  <1> QED BY <1>2, <1>4 DEF Counts, x

\* The lists after a new checkpoint.
LEMMA NewLengths ==
    ASSUME NEW d \in Database, NEW r \in RunIds
    PROVE  /\ Len(NewCheckpoint(d, r).made) = Len(d.made) + 1
           /\ Len(NewCheckpoint(d, r).lists[r]) = Len(d.lists[r]) + 1
           /\ \A cp \in 1 .. Len(d.made) : NewCheckpoint(d, r).made[cp] = d.made[cp]
           /\ NewCheckpoint(d, r).made[Len(d.made) + 1] = r
  <1> DEFINE n == NewCheckpoint(d, r)
             list == d.lists[r]
             made == d.made
  <1>1. n.made = Append(made, r) /\ n.lists[r] = Append(list, Len(made) + 1)
    BY CheckpointParts
  <1>2. made \in Seq(RunIds) /\ list \in Seq(Nat) /\ Len(made) + 1 \in Nat
    BY CheckpointTypes
  <1> HIDE DEF n, list, made
  <1>3. /\ Len(n.made) = Len(made) + 1 /\ Len(n.lists[r]) = Len(list) + 1
        /\ \A cp \in 1 .. Len(made) : n.made[cp] = made[cp]
        /\ n.made[Len(made) + 1] = r
    BY <1>1, <1>2
  <1> QED BY <1>3 DEF n, list, made

\* The runtime's run adds to its own, ...
LEMMA OwnGoesOn ==
    ASSUME NEW d \in Database, OwnOnly(d)
    PROVE  OwnOnly(NewCheckpoint(d, Inner))
  <1> DEFINE n == NewCheckpoint(d, Inner)
  <1>1. /\ Len(d.made) \in Nat /\ d.lists[Inner] \in Seq(Nat) /\ Len(d.lists[Inner]) = Len(d.made)
        /\ Counts(d.lists[Inner])
    BY CheckpointTypes DEF OwnOnly, OwnList
  <1>2. n.lists[Inner] = Append(d.lists[Inner], Len(d.lists[Inner]) + 1)
    <2>1. n.lists[Inner] = Append(d.lists[Inner], Len(d.made) + 1)
      BY CheckpointParts, CheckpointTypes
    <2> QED BY <1>1, <2>1
  <1>3. Counts(n.lists[Inner])
    BY <1>1, <1>2, CountsOneMore
  <1>4. Len(n.made) = Len(d.made) + 1 /\ Len(n.lists[Inner]) = Len(d.lists[Inner]) + 1
    BY NewLengths, CheckpointTypes
  <1>5. n.lists[Public] = <<>>
    BY CheckpointParts, CheckpointTypes DEF OwnOnly
  <1> QED BY <1>1, <1>3, <1>4, <1>5 DEF OwnOnly, OwnList

\* ... which were none at first.
LEMMA OwnBegins == ASSUME NEW d, NoCheckpoint(d) PROVE OwnOnly(d)
  BY DEF NoCheckpoint, OwnOnly, OwnList, Counts

\* When they are listed all are left to move, ...
LEMMA OwnListed ==
    ASSUME NEW d \in Database, OwnOnly(d)
    PROVE  Partly(d, d.lists[Inner])
  <1>1. Len(d.made) \in Nat /\ Len(d.lists[Inner]) = Len(d.made) /\ d.lists[Public] = <<>>
    BY CheckpointTypes DEF OwnOnly
  <1>2. MovedTo(d, 0)
    BY <1>1 DEF MovedTo, Counts
  <1>3. \A n \in 1 .. Len(d.lists[Inner]) : d.lists[Inner][n] = 0 + n
    BY <1>1 DEF OwnOnly, OwnList, Counts
  <1>4. Len(d.made) - Len(d.lists[Inner]) = 0
    BY <1>1
  <1> QED BY <1>1, <1>2, <1>3, <1>4 DEF Partly, OwnOnly

\* ... and when none is left they have all moved.
LEMMA AllMoved ==
    ASSUME NEW d \in Database, Partly(d, <<>>)
    PROVE  Moved(d)
  BY CheckpointTypes DEF Partly, Moved

\* What saving one again changes in the in-memory store.
LEMMA SavedAgain ==
    ASSUME NEW d \in Database, NEW cp \in 1 .. Len(d.made)
    PROVE  LET n == SaveCheckpointAgain("memory", d, cp, Public)
           IN  /\ n.lists[Inner] = d.lists[Inner]
               /\ n.lists[Public] = Append(d.lists[Public], cp)
               /\ Len(n.made) = Len(d.made)
               /\ \A i \in 1 .. Len(d.made) :
                      n.made[i] = IF i = cp THEN Public ELSE d.made[i]
  <1> DEFINE n == SaveCheckpointAgain("memory", d, cp, Public)
             made == [d.made EXCEPT ![cp] = Public]
             list == Append(d.lists[Public], cp)
  <1>1. n = [d EXCEPT !.made = made, !.lists[Public] = list]
    BY DEF SaveCheckpointAgain, SaveAgainInMemory
  <1>2. Len(made) = Len(d.made) /\ \A i \in 1 .. Len(d.made) :
                                       made[i] = IF i = cp THEN Public ELSE d.made[i]
    BY CheckpointTypes
  <1> HIDE DEF n, made, list
  <1>3. n.made = made /\ n.lists[Inner] = d.lists[Inner] /\ n.lists[Public] = list
    BY <1>1, CheckpointTypes DEF Database
  <1> QED BY <1>2, <1>3 DEF n, list

\* One more is moved.
LEMMA OneMoved ==
    ASSUME NEW d \in Database, NEW todo \in Seq(Nat), todo # <<>>, Partly(d, todo)
    PROVE  Partly(SaveCheckpointAgain("memory", d, Head(todo), Public), Tail(todo))
  <1> DEFINE cp == Head(todo)
             n == SaveCheckpointAgain("memory", d, cp, Public)
             k == Len(d.made)
             gone == k - Len(todo)
  <1>1. /\ k \in Nat /\ Len(d.lists[Inner]) = k /\ d.lists[Public] \in Seq(Nat)
        /\ Len(d.lists[Public]) \in Nat
    BY CheckpointTypes DEF Partly
  <1>2. /\ Len(todo) \in Nat /\ Len(todo) >= 1 /\ Len(Tail(todo)) = Len(todo) - 1
        /\ cp = todo[1] /\ \A i \in 1 .. Len(todo) - 1 : Tail(todo)[i] = todo[i + 1]
    OBVIOUS
  <1>3. /\ Len(todo) <= k /\ \A i \in 1 .. Len(todo) : todo[i] = gone + i
        /\ MovedTo(d, gone) /\ OwnList(d)
    BY DEF Partly
  <1>4. gone \in Nat /\ gone + 1 = k - Len(Tail(todo)) /\ gone + 1 \in 1 .. k
    BY <1>1, <1>2, <1>3
  <1>5. cp = gone + 1 /\ \A i \in 1 .. Len(Tail(todo)) : Tail(todo)[i] = (gone + 1) + i
    BY <1>2, <1>3, <1>4
  <1>6. /\ n.lists[Inner] = d.lists[Inner]
        /\ n.lists[Public] = Append(d.lists[Public], cp)
        /\ Len(n.made) = k
        /\ \A i \in 1 .. k : n.made[i] = IF i = cp THEN Public ELSE d.made[i]
    <2>1. cp \in 1 .. Len(d.made)
      BY <1>4, <1>5
    <2> HIDE DEF cp
    <2> QED BY <2>1, SavedAgain
  <1> HIDE DEF cp, n, k, gone
  <1>7. OwnList(n) /\ Len(n.made) = Len(n.lists[Inner])
    BY <1>1, <1>3, <1>6 DEF OwnList, k
  <1>8. MovedTo(n, gone + 1)
    <2>1. Len(d.lists[Public]) = gone /\ Counts(d.lists[Public])
      BY <1>1, <1>3, <1>4 DEF MovedTo, k
    <2>2. n.lists[Public] = Append(d.lists[Public], Len(d.lists[Public]) + 1)
      BY <1>5, <1>6, <2>1
    <2>3. Counts(n.lists[Public])
      BY <1>1, <2>1, <2>2, CountsOneMore
    <2>4. Len(n.lists[Public]) = gone + 1
      BY <1>1, <1>4, <2>1, <2>2
    <2>5. Len(n.lists[Public]) = (gone + 1) + (Len(n.made) - Len(n.lists[Inner]))
      <3>1. Len(n.made) = k /\ Len(n.lists[Inner]) = k /\ k \in Nat /\ gone \in Nat
        BY <1>1, <1>4, <1>6
      <3> QED BY <2>4, <3>1
    <2>6. \A i \in 1 .. Len(n.made) : i <= gone + 1 \/ Len(n.lists[Inner]) < i
                                      => n.made[i] = Public
      BY <1>1, <1>3, <1>4, <1>5, <1>6 DEF MovedTo, k
    <2> QED BY <2>3, <2>5, <2>6 DEF MovedTo
  <1>9. Len(Tail(todo)) <= Len(n.made) /\ Len(n.made) - Len(Tail(todo)) = gone + 1
    BY <1>1, <1>2, <1>3, <1>4, <1>6
  <1> QED BY <1>5, <1>7, <1>8, <1>9 DEF Partly, n, cp

\* A resumption adds one of the client's.
LEMMA OneAdded ==
    ASSUME NEW d \in Database, Moved(d)
    PROVE  Moved(NewCheckpoint(d, Public))
  <1> DEFINE n == NewCheckpoint(d, Public)
             k == Len(d.made)
             own == Len(d.lists[Inner])
  <1>1. k \in Nat /\ own \in Nat /\ own <= k /\ d.lists[Public] \in Seq(Nat)
    BY CheckpointTypes DEF Moved, OwnList
  <1>2. /\ n.lists[Inner] = d.lists[Inner] /\ Len(n.made) = k + 1
        /\ n.lists[Public] = Append(d.lists[Public], k + 1)
        /\ Len(n.lists[Public]) = Len(d.lists[Public]) + 1
        /\ \A cp \in 1 .. k : n.made[cp] = d.made[cp]
        /\ n.made[k + 1] = Public
    <2>1. /\ Public \in RunIds /\ Inner \in RunIds /\ Public # Inner
      BY CheckpointTypes
    <2>2. /\ n.lists[Inner] = d.lists[Inner] /\ n.lists[Public] = Append(d.lists[Public], k + 1)
      BY <2>1, CheckpointParts
    <2> QED BY <2>1, <2>2, NewLengths
  <1>3. /\ OwnList(d) /\ MovedTo(d, own) /\ Counts(d.lists[Public])
        /\ Len(d.lists[Public]) = own + (k - own)
    BY DEF Moved, MovedTo
  <1> HIDE DEF n, k, own
  <1>4. Len(d.lists[Public]) = k
    BY <1>1, <1>3
  <1>5. Counts(n.lists[Public])
    BY <1>1, <1>2, <1>3, <1>4, CountsOneMore
  <1>6. Len(n.lists[Public]) = own + (k + 1 - own)
    BY <1>1, <1>2, <1>4
  <1>7. OwnList(n)
    BY <1>1, <1>2, <1>3 DEF OwnList, k, own
  <1>8. MovedTo(n, own)
    <2>1. \A cp \in 1 .. k : d.made[cp] = Public
      BY <1>1, <1>3 DEF MovedTo, k, own
    <2>2. \A cp \in 1 .. k + 1 : n.made[cp] = Public
      BY <1>1, <1>2, <2>1
    <2>3. Len(n.lists[Public]) = own + (Len(n.made) - Len(n.lists[Inner]))
      <3>1. Len(n.lists[Inner]) = own
        BY <1>2 DEF own
      <3> QED BY <1>1, <1>2, <1>6, <3>1
    <2> QED BY <1>2, <1>5, <2>2, <2>3 DEF MovedTo
  <1> QED BY <1>2, <1>7, <1>8 DEF Moved, n, own

\* What they say depends on the checkpoints and the lists only.
LEMMA SameCheckpoints ==
    ASSUME NEW d, NEW e, e.made = d.made, e.lists = d.lists
    PROVE  /\ NoCheckpoint(d) => NoCheckpoint(e)
           /\ OwnOnly(d) => OwnOnly(e)
           /\ \A todo : Partly(d, todo) => Partly(e, todo)
           /\ Moved(d) => Moved(e)
  BY DEF NoCheckpoint, OwnOnly, OwnList, Partly, Moved, MovedTo, Counts

\* A state that is saved leaves them.
LEMMA SaveLeavesCheckpoints ==
    ASSUME NEW d \in Database, NEW r, NEW status
    PROVE  /\ SaveState(d, r, status).made = d.made
           /\ SaveState(d, r, status).lists = d.lists
  BY DEF Database, SaveState

\* Steps that leave the checkpoints alone and tell nothing new.
LEMMA CheckpointsStay ==
    ASSUME CheckpointInv, db'.made = db.made, db'.lists = db.lists,
           Fresh' => Fresh, Making' => Making, Told' => Told,
           Moving' => Moving /\ worker'.todo = worker.todo,
           "run" \in Waiting' => worker'.item = NONE
    PROVE  CheckpointInv'
  BY CheckpointNamed, SameCheckpoints DEF CheckpointInv

\* A worker that has work: the run's item is not in the queue any more.
LEMMA NotFreshAtWork ==
    ASSUME TypeOK, SubmitInv, WorkerInv, CheckpointInv, Worker,
           worker.at \notin {"waiting", "lost"}
    PROVE  /\ submit' = "accepted" /\ "run" \notin Waiting
           /\ worker.at \notin {"begin", "first"} => ~Fresh
  <1>1. submit = "accepted" /\ submit' = "accepted"
    BY AcceptedFirst
  <1>2. worker.item # NONE
    BY NoneIsNoItem DEF WorkerInv
  <1>3. "run" \notin Waiting
    BY <1>2 DEF CheckpointInv
  <1> QED BY <1>1, <1>3 DEF Fresh

\* The worker's steps that save no checkpoint.
LEMMA WorkerLeavesCheckpoints ==
    ASSUME TypeOK, SubmitInv, WorkerInv, CheckpointInv, Worker,
           \/ Begin \/ Mark \/ GraphReturns \/ GraphRaises \/ SaveFailed \/ End
           \/ FinalizeGet \/ FinalizePut
    PROVE  CheckpointInv'
  <1> "run" \notin Reviewers /\ NONE \notin Reviewers /\ NONE # "run"
    BY NoneIsNoItem DEF Items
  <1>1. db'.made = db.made /\ db'.lists = db.lists
    <2>1. db \in Database
      BY DEF TypeOK
    <2> QED BY <2>1, SaveLeavesCheckpoints
            DEF Begin, Mark, GraphReturns, GraphRaises, SaveFailed, End, FinalizeGet,
                FinalizePut, Saves
  <1>2. worker.at \in {"begin", "mark", "graph", "save_failed", "end", "fin_get", "fin_put"}
    BY DEF Begin, Mark, GraphReturns, GraphRaises, SaveFailed, End, FinalizeGet, FinalizePut,
           WorkerAt
  <1>3. /\ submit' = "accepted" /\ "run" \notin Waiting
        /\ worker.at # "begin" => ~Fresh
    BY <1>2, NotFreshAtWork
  <1>4. /\ Waiting' = Waiting /\ (DecisionWaits' <=> DecisionWaits)
        /\ decide' = decide /\ worker'.item = worker.item
        /\ worker'.at \notin {"begin", "list", "move", "settle"}
        /\ worker'.at = "first" => worker.at = "begin"
        /\ worker'.at \in {"graph", "end", "checkpoint"}
               => worker.at = "mark" \/ worker.at \in {"graph", "end"}
    BY WorkerMoves, WaitingStays DEF Moves
  <1>5. \/ Stored' \in {Stored, "cancelled"}
        \/ worker.item \in Reviewers
    BY WorkerMoves DEF Moves, WorkerInv, Items
  <1>6. (Fresh' => Fresh) /\ ~Moving'
    BY <1>2, <1>3, <1>4 DEF Fresh, Moving
  <1>7. Making' => Making
    BY <1>4 DEF Making, WorkerInv
  <1>8. Told' => Told
    BY <1>4, <1>5 DEF Told
  <1> QED BY <1>1, <1>3, <1>4, <1>6, <1>7, <1>8, CheckpointsStay

\* It takes an item, or its work is over.
LEMMA WorkerBetweenCheckpoints ==
    ASSUME TypeOK, SubmitInv, WorkerInv, StoredInv, CheckpointInv, ~CanFail(store), Worker,
           \/ Take \/ Settle \/ Raised \/ FinalizeTell \/ Interrupted \/ WorkerFault
    PROVE  CheckpointInv'
  <1> "run" \notin Reviewers /\ NONE \notin Reviewers /\ NONE # "run"
    BY NoneIsNoItem DEF Items
  <1>1. db' = db /\ Stored' = Stored /\ decide' = decide
    <2>1. db' = db /\ decide' = decide
      BY DEF Take, Settle, Raised, FinalizeTell, Interrupted, WorkerFault, untouched
    <2> QED BY <2>1, NothingStored
  <1>2. submit' = "accepted"
    BY AcceptedFirst
  <1>3. CASE Take
    <2>1. /\ items # <<>> /\ items' = Tail(items)
          /\ worker'.item \in Items /\ worker'.item \in Waiting
          /\ Waiting = Waiting' \cup {worker'.item} /\ (items' = <<>> <=> Waiting' = {})
          /\ worker'.at \in {"fin_get", "begin", "mark"}
          /\ worker'.at = "begin" => worker'.item = "run"
      BY <1>3, Takes
    <2>2. "run" \in Waiting => Waiting' = {}
      BY <2>1 DEF StoredInv
    <2>3. (Fresh' => Fresh) /\ ~Making' /\ ~Moving'
      BY <1>2, <2>1, <2>2 DEF Fresh, Making, Moving
    <2>4. Told' => Told
      <3>1. worker'.item \in Reviewers => DecisionWaits
        BY <2>1 DEF DecisionWaits
      <3>2. DecisionWaits' => DecisionWaits
        BY <2>1 DEF DecisionWaits
      <3> QED BY <1>1, <2>1, <3>1, <3>2 DEF Told
    <2>5. "run" \notin Waiting'
      BY <2>1, <2>2
    <2> QED BY <1>1, <2>3, <2>4, <2>5, CheckpointsStay
  <1>4. CASE Settle \/ Raised \/ FinalizeTell \/ Interrupted \/ WorkerFault
    <2>1. /\ items' = items
          /\ worker'.item \in {worker.item, NONE}
          /\ worker'.at \in {"waiting", "lost", "fin_get"}
      <3>1. Settle \/ Raised \/ FinalizeTell
            => items' = items /\ worker'.item = NONE /\ worker'.at = "waiting"
        BY DEF Settle, Raised, FinalizeTell, untouched, queued, Idle
      <3>2. Interrupted => /\ items' = items /\ worker'.item \in {worker.item, NONE}
                           /\ worker'.at \in {"lost", "fin_get"}
        BY DEF Interrupted, untouched, queued, Lost, Idle, TypeOK
      <3>3. ~WorkerFault
        BY DEF WorkerFault, Fault
      <3> QED BY <1>4, <3>1, <3>2, <3>3
    <2>2. Waiting' = Waiting /\ (DecisionWaits' <=> DecisionWaits)
      BY <2>1, WaitingStays
    <2>3. "run" \in Waiting => worker'.item = NONE
      BY <2>1 DEF CheckpointInv
    <2>4. (Fresh' => Fresh) /\ ~Making' /\ ~Moving'
      BY <1>2, <2>1, <2>2 DEF Fresh, Making, Moving
    <2>5. Told' => Told
      BY <1>1, <2>1, <2>2 DEF Told
    <2> QED BY <1>1, <2>2, <2>3, <2>4, <2>5, CheckpointsStay
  <1> QED BY <1>3, <1>4

\* The steps that make, list and move the checkpoints.
LEMMA WorkerSavesCheckpoints ==
    ASSUME TypeOK, SubmitInv, WorkerInv, CheckpointInv, ~CanFail(store), Worker,
           FirstCheckpoint \/ LastCheckpoint \/ ListOwn \/ Move \/ MoveState
    PROVE  CheckpointInv'
  <1> "run" \notin Reviewers /\ NONE \notin Reviewers /\ NONE # "run"
    BY NoneIsNoItem DEF Items
  <1>1. /\ db \in Database /\ Public \in RunIds /\ Inner \in RunIds
        /\ worker.todo \in Seq(Nat) /\ store = "memory"
    BY ServiceAssumption DEF TypeOK, CanFail
  <1>2. worker.at \in {"first", "checkpoint", "list", "move"}
    BY DEF FirstCheckpoint, LastCheckpoint, ListOwn, Move, MoveState, WorkerAt
  <1>3. /\ Waiting' = Waiting /\ (DecisionWaits' <=> DecisionWaits)
        /\ decide' = decide /\ worker'.item = worker.item
    BY WorkerMoves, WaitingStays DEF Moves
  <1>4. submit' = "accepted" /\ "run" \notin Waiting'
    BY <1>2, <1>3, NotFreshAtWork
  <1>5. CASE FirstCheckpoint
    <2>1. worker.at = "first" /\ worker'.at = "graph" /\ Stored' = Stored
      BY <1>5, WorkerMoves DEF Moves
    <2>2. Fresh /\ ~Told /\ NoCheckpoint(db)
      BY <2>1 DEF Fresh, CheckpointInv
    <2>3. ~Told' /\ ~Fresh' /\ ~Moving'
      BY <1>3, <1>4, <2>1, <2>2 DEF Told, Fresh, Moving
    <2>4. OwnOnly(db')
      BY <1>1, <1>5, <2>2, OwnBegins, OwnGoesOn DEF FirstCheckpoint
    <2> QED BY <1>4, <2>3, <2>4, CheckpointNamed
  <1>6. CASE LastCheckpoint
    <2>1. /\ worker.at = "checkpoint" /\ Stored' = Stored
          /\ worker'.at = IF worker.item = "run" THEN "list" ELSE "settle"
          /\ db' = NewCheckpoint(db, IF worker.item = "run" THEN Inner ELSE Public)
      BY <1>6, WorkerMoves DEF Moves, LastCheckpoint, Owner
    <2>2. CASE worker.item = "run"
      <3>1. Making /\ ~Told /\ OwnOnly(db)
        BY <2>1, <2>2 DEF Making, CheckpointInv
      <3>2. ~Told' /\ ~Fresh' /\ ~Moving'
        BY <1>3, <1>4, <2>1, <2>2, <3>1 DEF Told, Fresh, Moving
      <3>3. OwnOnly(db')
        BY <1>1, <2>1, <2>2, <3>1, OwnGoesOn
      <3> QED BY <1>4, <3>2, <3>3, CheckpointNamed
    <2>3. CASE worker.item # "run"
      <3>1. worker.item \in Reviewers
        BY <2>1, <2>3 DEF WorkerInv, Items
      <3>2. Moved(db)
        BY <3>1 DEF Told, CheckpointInv
      <3>3. ~Fresh' /\ ~Making' /\ ~Moving'
        BY <1>3, <1>4, <2>1, <2>3 DEF Fresh, Making, Moving
      <3>4. Moved(db')
        BY <1>1, <2>1, <2>3, <3>2, OneAdded
      <3> QED BY <1>4, <3>3, <3>4, CheckpointNamed
    <2> QED BY <2>2, <2>3
  <1>7. CASE ListOwn
    <2>1. /\ worker.at = "list" /\ worker'.at = "move" /\ Stored' = Stored
          /\ db' = db /\ worker'.todo = db.lists[Inner]
      BY <1>7, WorkerMoves DEF Moves, ListOwn, ListCheckpoints, TypeOK
    <2>2. Making /\ ~Told /\ OwnOnly(db)
      BY <2>1 DEF Making, CheckpointInv, WorkerInv
    <2>3. ~Told' /\ ~Fresh' /\ ~Making'
      BY <1>3, <1>4, <2>1, <2>2 DEF Told, Fresh, Making
    <2>4. Partly(db', worker'.todo)
      BY <1>1, <2>1, <2>2, OwnListed
    <2> QED BY <1>4, <2>3, <2>4, CheckpointNamed
  <1>8. CASE Move
    <2>1. /\ worker.at = "move" /\ worker'.at = "move" /\ Stored' = Stored
          /\ worker.todo # <<>> /\ worker'.todo = Tail(worker.todo)
          /\ db' = SaveCheckpointAgain("memory", db, Head(worker.todo), Public)
      BY <1>1, <1>8, WorkerMoves DEF Moves, Move, TypeOK
    <2>2. Moving /\ ~Told /\ Partly(db, worker.todo)
      BY <2>1 DEF Moving, CheckpointInv
    <2>3. ~Told' /\ ~Fresh' /\ ~Making'
      BY <1>3, <1>4, <2>1, <2>2 DEF Told, Fresh, Making
    <2>4. Partly(db', worker'.todo)
      BY <1>1, <2>1, <2>2, OneMoved
    <2> QED BY <1>4, <2>3, <2>4, CheckpointNamed
  <1>9. CASE MoveState
    <2>1. worker.at = "move" /\ worker'.at = "settle" /\ worker.todo = <<>>
      BY <1>9, WorkerMoves DEF Moves, MoveState
    <2>2. ~Fresh' /\ ~Making' /\ ~Moving'
      BY <1>4, <2>1 DEF Fresh, Making, Moving
    <2>3. Moved(db)
      BY <1>1, <2>1, AllMoved DEF Moving, CheckpointInv
    <2>4. Moved(db')
      BY <1>1, <1>9, <2>3, SaveLeavesCheckpoints, SameCheckpoints DEF MoveState, Saves
    <2> QED BY <1>4, <2>2, <2>4, CheckpointNamed
  <1> QED BY <1>5, <1>6, <1>7, <1>8, <1>9

\* Everybody's steps.
LEMMA CheckpointStep ==
    ASSUME TypeOK, SubmitInv, WorkerInv, StoredInv, CheckpointInv, ~CanFail(store), Next
    PROVE  CheckpointInv'
  <1> "run" \notin Reviewers /\ NONE \notin Reviewers /\ NONE # "run"
    BY NoneIsNoItem DEF Items
  <1>1. db \in Database
    BY DEF TypeOK
  <1>2. CASE Worker
    BY <1>2, WorkerLeavesCheckpoints, WorkerBetweenCheckpoints, WorkerSavesCheckpoints
       DEF Worker
  <1>3. ASSUME db'.made = db.made, db'.lists = db.lists, worker'.at = worker.at,
               worker'.item = worker.item, worker'.todo = worker.todo,
               items' = items, submit' = submit,
               Stored' \in {Stored, "idle", "cancelled"},
               \A d \in Reviewers : decide'[d].seen \in {decide[d].seen, Stored, NONE}
        PROVE  CheckpointInv'
    <2>1. Waiting' = Waiting /\ (DecisionWaits' <=> DecisionWaits)
      BY <1>3, WaitingStays
    <2>2. (Fresh' <=> Fresh) /\ (Making' <=> Making) /\ (Moving' <=> Moving)
      BY <1>3, <2>1 DEF Fresh, Making, Moving
    <2>3. Told' => Told
      <3>1. NONE \notin Reviewable
        BY NoneIsNoStatus DEF Status, Reviewable
      <3> QED BY <1>3, <2>1, <3>1 DEF Told, Reviewable
    <2>4. "run" \in Waiting' => worker'.item = NONE
      BY <1>3, <2>1 DEF CheckpointInv
    <2> QED BY <1>3, <2>2, <2>3, <2>4, CheckpointsStay
  <1>4. CASE Submit
    <2>1. /\ db'.made = db.made /\ db'.lists = db.lists /\ worker' = worker
          /\ decide' = decide /\ submit # "accepted"
          /\ items' = items \/ items' = Append(items, "run")
      BY <1>1, <1>4, SaveLeavesCheckpoints
         DEF Submit, SubmitCheck, SubmitSave, SubmitPut, SubmitFault, backend, queued, Saves
    <2>2. worker.item = NONE /\ worker.at = "waiting"
      BY <2>1 DEF SubmitInv, Idle
    <2>3. Stored' \in {Stored, "idle"}
      BY <1>4, OthersStore DEF Submit
    <2>4. Fresh /\ (Making' <=> Making) /\ ~Moving'
      BY <2>1, <2>2 DEF Fresh, Making, Moving
    <2>5. DecisionWaits' => DecisionWaits
      <3>1. Waiting' = Waiting \/ Waiting' = Waiting \cup {"run"}
        BY <2>1, ItemsQueue DEF Items
      <3> QED BY <3>1 DEF DecisionWaits
    <2>6. Told' => Told
      BY <2>1, <2>3, <2>5 DEF Told
    <2> QED BY <2>1, <2>2, <2>4, <2>6, CheckpointsStay
  <1>5. CASE OthersQueue \/ DeadlinePasses
    BY <1>3, <1>5, OthersStore DEF OthersQueue, DeadlinePasses, backend, queued
  <1>6. ASSUME NEW d \in Reviewers, Decide(d)
        PROVE  CheckpointInv'
    <2>1. /\ db' = db /\ worker' = worker /\ submit' = submit /\ Stored' = Stored
          /\ \A e \in Reviewers : decide'[e].seen \in {decide[e].seen, Stored, NONE}
      <3>1. db' = db /\ worker' = worker /\ submit' = submit
        BY <1>6 DEF Decide, DecideRead, DecideQueue, DecideRefused, DecideFault, backend
      <3>2. \A e \in Reviewers : decide'[e].seen \in {decide[e].seen, Stored, NONE}
        <4>1. CASE DecideRead(d)
          BY <4>1 DEF DecideRead, Stored, TypeOK
        <4>2. CASE DecideQueue(d) \/ DecideRefused(d) \/ DecideFault(d)
          <5>1. DecideDone(d)
            BY <4>2 DEF DecideQueue, DecideRefused, DecideFault
          <5> QED BY <5>1, DecidesDone
        <4> QED BY <1>6, <4>1, <4>2 DEF Decide
      <3> QED BY <3>1, <3>2, NothingStored
    <2>2. CASE DecideRead(d) \/ DecideRefused(d) \/ DecideFault(d)
      <3>1. items' = items
        BY <2>2 DEF DecideRead, DecideRefused, DecideFault, backend, queued
      <3> QED BY <1>3, <2>1, <3>1
    <2>3. CASE DecideQueue(d)
      <3>1. decide[d].seen \in Reviewable /\ items' = Append(items, d)
        BY <2>3 DEF DecideQueue
      <3>2. Told
        BY <3>1 DEF Told
      <3>3. Waiting' = Waiting \cup {d}
        BY <3>1, ItemsQueue DEF Items
      <3>4. (Fresh' => Fresh) /\ (Making' <=> Making) /\ (Moving' <=> Moving)
        BY <2>1, <3>3 DEF Fresh, Making, Moving
      <3>5. "run" \in Waiting' => worker'.item = NONE
        BY <2>1, <3>3 DEF CheckpointInv
      <3> QED BY <2>1, <3>2, <3>4, <3>5, CheckpointsStay
    <2> QED BY <1>6, <2>2, <2>3 DEF Decide
  <1>7. ASSUME NEW c \in Askers, Cancel(c)
        PROVE  CheckpointInv'
    <2>1. /\ items' = items /\ decide' = decide /\ submit' = submit
          /\ worker'.item = worker.item /\ worker'.at = worker.at /\ worker'.todo = worker.todo
      BY <1>7 DEF Cancel, CancelGoesOn, CancelRoute, CancelAsk, CancelGet, CancelPut,
             CancelTell, CancelFault, backend, queued, TypeOK
    <2>2. db'.made = db.made /\ db'.lists = db.lists
      BY <1>1, <1>7, SaveLeavesCheckpoints
         DEF Cancel, CancelGoesOn, CancelRoute, CancelAsk, CancelGet, CancelPut, CancelTell,
             CancelFault, Saves
    <2>3. Stored' \in {Stored, "cancelled"}
      BY <1>7, OthersStore DEF Cancel, CancelGoesOn
    <2> QED BY <1>3, <2>1, <2>2, <2>3
  <1>8. ASSUME NEW s \in Subscribers, StreamAction(s)
        PROVE  CheckpointInv'
    <2>1. UNCHANGED others /\ Stored' = Stored
      BY <1>8, StreamStep, OthersStore
    <2> QED BY <1>3, <2>1 DEF others, queued
  <1> QED BY <1>2, <1>4, <1>5, <1>6, <1>7, <1>8 DEF Next, StreamAction

\* At first there are none.
LEMMA CheckpointInit == Init => CheckpointInv
  <1> SUFFICES ASSUME Init PROVE CheckpointInv
    OBVIOUS
  <1>1. NoCheckpoint(db) /\ Stored = NONE
    BY ServiceAssumption DEF Init, EmptyDatabase, NoCheckpoint, Stored, GetState
  <1>2. NONE \notin Status /\ NONE \notin Items
    BY NoneIsNoStatus, NoneIsNoItem
  <1>3. TypeOK
    BY RunInit DEF RunInvariant
  <1>4. Waiting = {}
    BY <1>3, ItemsQueue DEF Init
  <1>5. ~Told /\ ~Making /\ ~Moving
    BY <1>1, <1>2, <1>4
       DEF Init, Told, Making, Moving, Idle, Status, Items, Reviewable, DecisionWaits
  <1> QED BY <1>1, <1>2, <1>4, <1>5 DEF Init, CheckpointInv, Idle, Items

\* What the list has of the checkpoints when all have moved.
LEMMA MovedFollowRun ==
    ASSUME NEW d \in Database, Moved(d)
    PROVE  LET list == d.lists[Public]
           IN  /\ \A n \in 1 .. Len(list) - 1 : list[n] < list[n + 1]
               /\ {list[n] : n \in DOMAIN list} = DOMAIN d.made
               /\ \A cp \in DOMAIN d.made : d.made[cp] = Public
  <1> DEFINE own == Len(d.lists[Inner])
             k == Len(d.made)
             list == d.lists[Public]
  <1>1. /\ own \in Nat /\ k \in Nat /\ own <= k
        /\ DOMAIN d.made = 1 .. k
        /\ DOMAIN list = 1 .. Len(list) /\ Len(list) \in Nat
    BY CheckpointTypes DEF Moved, OwnList
  <1>2. /\ Len(list) = own + (k - own)
        /\ \A n \in 1 .. Len(list) : list[n] = n
    BY DEF Moved, MovedTo, Counts
  <1>3. \A cp \in 1 .. k : d.made[cp] = Public
    BY <1>1 DEF Moved, MovedTo
  <1> HIDE DEF own, k, list
  <1>4. Len(list) = k
    BY <1>1, <1>2
  <1>5. \A n \in 1 .. Len(list) - 1 : list[n] < list[n + 1]
    <2> TAKE n \in 1 .. Len(list) - 1
    <2>1. n \in 1 .. Len(list) /\ n + 1 \in 1 .. Len(list)
      BY <1>1
    <2>2. list[n] = n /\ list[n + 1] = n + 1
      BY <1>2, <2>1
    <2> QED BY <1>1, <2>2
  <1>6. {list[n] : n \in DOMAIN list} = DOMAIN d.made
    <2>1. \A x \in {list[n] : n \in DOMAIN list} : x \in 1 .. k
      BY <1>1, <1>2, <1>4
    <2>2. \A cp \in 1 .. k : cp \in {list[n] : n \in DOMAIN list}
      BY <1>1, <1>2, <1>4
    <2> QED BY <1>1, <2>1, <2>2
  <1> QED BY <1>1, <1>3, <1>5, <1>6 DEF list, k

\* With the in-memory store the checkpoints of a run that gave a result or paused are
\* all listed as its own, in their order, however decisions overlap and whatever is
\* cancelled.
THEOREM CheckpointsAreTheRuns == Spec => []CheckpointsFollowRun
  <1>1. RunInvariant /\ MemoryCheckpoints /\ [Next]_vars => MemoryCheckpoints'
    <2> SUFFICES ASSUME RunInvariant, MemoryCheckpoints, [Next]_vars PROVE MemoryCheckpoints'
      OBVIOUS
    <2>1. CASE Next
      <3>1. TypeOK /\ SubmitInv /\ WorkerInv /\ store' = store
        BY <2>1, StoreStays DEF RunInvariant
      <3>2. ASSUME ~CanFail(store)
            PROVE  CheckpointInv'
        <4>1. CheckpointInv /\ ~Suspends(store)
          BY <3>2 DEF MemoryCheckpoints, CanFail, Suspends
        <4>2. StoredInv
          BY <4>1 DEF RunInvariant
        <4> QED BY <2>1, <3>1, <3>2, <4>1, <4>2, CheckpointStep
      <3> QED BY <3>1, <3>2 DEF MemoryCheckpoints
    <2>2. CASE UNCHANGED vars
      BY <2>2, CheckpointNamed
         DEF vars, queued, MemoryCheckpoints, CheckpointInv, Fresh, Making, Moving, Told, Stored,
             Waiting, DecisionWaits
    <2> QED BY <2>1, <2>2
  <1>2. RunInvariant /\ MemoryCheckpoints => CheckpointsFollowRun
    <2> SUFFICES ASSUME RunInvariant, MemoryCheckpoints, ~CanFail(store),
                        Stored \in {"completed", "paused"}
                 PROVE  ListsAll
      BY DEF CheckpointsFollowRun
    <2>1. db \in Database /\ Moved(db)
      BY DEF RunInvariant, TypeOK, MemoryCheckpoints, CheckpointInv, Told
    <2> QED BY <2>1, MovedFollowRun DEF ListsAll, ListCheckpoints
  <1>3. Init => MemoryCheckpoints
    BY CheckpointInit DEF MemoryCheckpoints
  <1> QED BY <1>1, <1>2, <1>3, RunInvariantHolds, PTL DEF Spec
=============================================================================
