----------------------- MODULE BackendOwnershipProofs -----------------------
(***************************************************************************)
(* Who works on what in ExecutionBackend, and what the store and the jobs  *)
(* hold of it, for every set of runs and keys, every size of the pool and  *)
(* the queue, and every sequence of decisions, overlapping ones included.  *)
(* All but the last theorem are for the Calm environment, where nobody     *)
(* submits after a shutdown: the sentinels a shutdown leaves in the queue  *)
(* stop the workers of the next start, and FixedPool fails.                *)
(***************************************************************************)
EXTENDS ExecutionBackendProofs

Calm == "restart" \notin Env

\* The pool: the workers that live are those the backend knows of, until a
\* shutdown gathers them; until then no worker is told to stop at the queue.
PoolInv ==
    /\ started => Cardinality(pool) = MaxConcurrency
    /\ ~started => stopping = "no" /\ pool = {}
    /\ stopping = "no" => Live = pool
    /\ Live \subseteq pool
    /\ closed => ~started
    /\ stopping # "gathering" /\ ~closed =>
          /\ \A n \in DOMAIN queue : queue[n] # NONE
          /\ \A w \in Workers : worker[w].cancel => worker[w].at = "runtime"

\* The active worker of a run is the one that executes it.
ActiveInv ==
    /\ OneWorkerPerRun
    /\ \A r \in Runs : active[r] # NONE =>
          worker[active[r]].item # NONE /\ worker[active[r]].item.run = r

\* Unless its decisions overlapped, the future of a run is that of the one
\* submission of it that is carried.
Latest ==
    \A i \in Carried, r \in Runs \ raced :
        stored[r] # NONE => (futures[r] = i.fut <=> i.run = r)

\* Unless its decisions overlapped, a run in hand has no result, and one in the
\* queue has none either, or was cancelled there.
OpenWork ==
    /\ NoWorkAfterResult
    /\ \A i \in Queued : i.run \notin raced =>
          \/ stored[i.run].status \notin Terminal
          \/ i.run \in cancelled /\ stored[i.run].status = "cancelled"

Ownership == PoolInv /\ ActiveInv /\ Latest /\ OpenWork

-----------------------------------------------------------------------------
(* What the steps have in common.                                          *)

\* Two submissions that are carried are of two runs.
LEMMA RunsApart ==
    ASSUME Bookkeeping, Latest, NEW i \in Carried, NEW j \in Carried, i.fut # j.fut,
           i.run \notin raced
    PROVE  i.run # j.run
<1>1. SUFFICES ASSUME i.run = j.run PROVE FALSE
  OBVIOUS
<1>2. i.run \in Runs \ raced /\ stored[i.run] # NONE
  BY CarriedTyped DEF Bookkeeping, CarriedKnown
<1>3. futures[i.run] = i.fut /\ futures[i.run] = j.fut
  BY <1>1, <1>2 DEF Latest
<1> QED
  BY <1>3

\* Nothing is submitted and no run is stored anew.
LEMMA LatestKept ==
    ASSUME Latest, Carried' \subseteq Carried, futures' = futures, raced' = raced,
           \A r \in Runs : stored'[r] # NONE => stored[r] # NONE
    PROVE  Latest'
  BY DEF Latest

\* The pool is the same, and nobody is told to stop at the queue.
LEMMA PoolKept ==
    ASSUME PoolInv, UNCHANGED <<started, stopping, closed, pool>>,
           \A w \in Workers : worker'[w].at = "gone" <=> worker[w].at = "gone",
           \A w \in Workers : worker'[w].cancel /\ worker'[w].at # "runtime" =>
                                   worker[w].cancel /\ worker[w].at # "runtime",
           \A n \in DOMAIN queue' : queue'[n] = NONE =>
                                        \E m \in DOMAIN queue : queue[m] = NONE
    PROVE  PoolInv'
<1>1. Live' = Live
  BY DEF Live
<1> QED
  BY <1>1 DEF PoolInv

\* The hands and the active workers are the same.
LEMMA ActiveKept ==
    ASSUME HandsFull, HandsFull', ActiveInv, TypeOK, active' = active,
           raced \subseteq raced',
           \A w \in Workers : worker'[w].item = worker[w].item
    PROVE  ActiveInv'
<1>1. \A r \in Runs : active[r] # NONE => active[r] \in Workers
  BY DEF TypeOK
<1>2. \A w \in Workers : worker'[w].at = "runtime" => worker[w].at = "runtime"
  BY DEF HandsFull
<1> QED
  BY <1>1, <1>2 DEF ActiveInv, OneWorkerPerRun

\* An item is settled: its run has what result it may, and no other has.
LEMMA OpenKept ==
    ASSUME Bookkeeping, Latest, OpenWork, NEW i \in Carried,
           Queued' \subseteq Queued, InHand' \subseteq InHand,
           \A j \in Carried' : j.fut # i.fut,
           \A r \in Runs : r # i.run => stored'[r] = stored[r],
           cancelled \subseteq cancelled', raced' = raced
    PROVE  OpenWork'
<1>1. Carried' \subseteq Carried
  BY DEF Carried
<1>2. \A j \in Carried' : j.run \notin raced => j.run \in Runs /\ j.run # i.run
  BY <1>1, RunsApart, CarriedTyped
<1>3. \A j \in Carried' : j.run \notin raced => stored'[j.run] = stored[j.run]
  BY <1>2
<1>4. NoWorkAfterResult'
  BY <1>3 DEF OpenWork, NoWorkAfterResult, Carried
<1>5. \A j \in Queued' : j.run \notin raced =>
          \/ stored'[j.run].status \notin Terminal
          \/ j.run \in cancelled' /\ stored'[j.run].status = "cancelled"
  BY <1>3 DEF OpenWork, Carried
<1> QED
  BY <1>4, <1>5 DEF OpenWork

\* Before a shutdown start() creates the pool, once.
LEMMA StartOwns ==
    ASSUME Calm, Bookkeeping, Ownership, Admits, EnsureStarted, active' = active,
           raced \subseteq raced',
           \A n \in DOMAIN queue' : queue'[n] # NONE
    PROVE  PoolInv' /\ ActiveInv'
<1>1. /\ TypeOK /\ HandsFull /\ PoolInv /\ ActiveInv
      /\ worker \in [Workers -> Slot]
      /\ started \in BOOLEAN
  BY DEF Bookkeeping, Ownership, TypeOK
<1>2. stopping = "no" /\ ~closed
  BY DEF Admits, Calm
<1>3. ActiveInv'
  <2>1. HandsFull' /\ \A w \in Workers : worker'[w].item = worker[w].item
    BY <1>1, StartKeeps
  <2> QED
    BY <1>1, <2>1, ActiveKept
<1>4. CASE started
  <2>1. pool # {}
    BY <1>1, <1>4, FS_EmptySet, SizesAssumption DEF PoolInv
  <2>2. ~NeedsWorkers
    BY <1>1, <1>2, <1>4, <2>1 DEF NeedsWorkers, PoolInv
  <2>3. UNCHANGED <<started, stopping, closed, pool, worker>>
    BY <2>2 DEF EnsureStarted, phase
  <2>4. Live' = Live
    BY <2>3 DEF Live
  <2>5. PoolInv'
    BY <1>1, <1>2, <2>3, <2>4 DEF PoolInv
  <2> QED
    BY <1>3, <2>5
<1>5. CASE ~started
  <2>1. NeedsWorkers /\ Live = {} /\ pool = {}
    BY <1>1, <1>2, <1>5 DEF NeedsWorkers, PoolInv
  <2>2. PICK fresh \in SUBSET (Workers \ Live) :
            /\ Cardinality(fresh) = MaxConcurrency
            /\ pool' = fresh
            /\ worker' = [w \in Workers |-> IF w \in fresh THEN Waiting ELSE worker[w]]
    BY <2>1 DEF EnsureStarted
  <2>3. started' = TRUE /\ stopping' = "no" /\ closed' = closed
    BY <1>2, <2>1 DEF EnsureStarted
  <2>4. Live' = fresh
    BY <1>1, <2>1, <2>2, Slots DEF Live
  <2>5. \A w \in Workers : worker'[w].cancel => worker'[w].at = "runtime"
    <3>1. ~Waiting.cancel
      BY DEF Waiting
    <3> QED
      BY <1>1, <1>2, <2>2, <3>1 DEF PoolInv
  <2>6. PoolInv'
    BY <1>2, <2>2, <2>3, <2>4, <2>5 DEF PoolInv
  <2> QED
    BY <1>3, <2>6
<1> QED
  BY <1>1, <1>4, <1>5

\* A worker in the runtime gives its item up and goes back to the queue.
LEMMA GivesUpOwns ==
    ASSUME Bookkeeping, Ownership, NEW w \in Workers, worker[w].at = "runtime",
           queue' = queue, Move(w, Waiting), UNCHANGED <<started, stopping, closed, pool>>,
           active' = [active EXCEPT ![worker[w].item.run] = NONE],
           \A r \in Runs : r # worker[w].item.run => stored'[r] = stored[r],
           cancelled \subseteq cancelled', futures' = futures, raced' = raced
    PROVE  Ownership'
<1>1. /\ TypeOK /\ HandsFull /\ PoolInv /\ ActiveInv /\ Latest /\ OpenWork
      /\ active \in [Runs -> Workers \cup {NONE}]
  BY DEF Bookkeeping, Ownership, TypeOK
<1> DEFINE i == worker[w].item
<1>2. /\ HandsFull'
      /\ Queued' = Queued
      /\ InHand' \subseteq InHand
      /\ Carried' \subseteq Carried
      /\ i \in Carried
      /\ \A j \in Carried' : j.fut # i.fut
      /\ worker'[w] = Waiting
      /\ \A v \in Workers \ {w} : worker'[v] = worker[v]
  BY HandEmptied
<1>3. i.run \in Runs /\ stored[i.run] # NONE
  BY <1>2, CarriedTyped DEF Bookkeeping, CarriedKnown
<1>4. PoolInv'
  <2>1. ~Waiting.cancel
    BY DEF Waiting
  <2>2. \A v \in Workers : worker'[v].at = "gone" <=> worker[v].at = "gone"
    BY <1>2, Slots
  <2>3. \A v \in Workers : worker'[v].cancel /\ worker'[v].at # "runtime" =>
                               worker[v].cancel /\ worker[v].at # "runtime"
    BY <1>2, <2>1
  <2> QED
    BY <1>1, <2>2, <2>3, PoolKept
<1>5. ActiveInv'
  <2>1. active'[i.run] = NONE /\ \A r \in Runs : r # i.run => active'[r] = active[r]
    BY <1>1, <1>3
  <2>2. OneWorkerPerRun'
    <3>1. SUFFICES ASSUME NEW v \in Workers, worker'[v].at = "runtime",
                          worker'[v].item.run \notin raced
                   PROVE  active'[worker'[v].item.run] = v
      BY DEF OneWorkerPerRun
    <3>2. v # w /\ worker'[v] = worker[v]
      BY <1>2, <3>1, Slots
    <3>3. active[worker[v].item.run] = v
      BY <1>1, <3>1, <3>2 DEF ActiveInv, OneWorkerPerRun
    <3>4. i.run \notin raced => active[i.run] = w
      BY <1>1 DEF ActiveInv, OneWorkerPerRun
    <3>5. worker[v].item \in Carried
      BY <1>1, <3>1, <3>2, CarriedItems DEF HandsFull, Carried
    <3>6. worker[v].item.run \in Runs
      BY <3>5, CarriedTyped
    <3> QED
      BY <2>1, <3>1, <3>2, <3>3, <3>4, <3>6
  <2>3. ASSUME NEW r \in Runs, active'[r] # NONE
        PROVE  worker'[active'[r]].item # NONE /\ worker'[active'[r]].item.run = r
    <3>1. r # i.run /\ active'[r] = active[r] /\ active[r] \in Workers
      BY <1>1, <2>1, <2>3
    <3>2. worker[active[r]].item # NONE /\ worker[active[r]].item.run = r
      BY <1>1, <2>3, <3>1 DEF ActiveInv
    <3>3. active[r] # w
      BY <3>1, <3>2
    <3> QED
      BY <1>2, <3>1, <3>2, <3>3
  <2> QED
    BY <2>2, <2>3 DEF ActiveInv
<1> HIDE DEF i
<1>6. \A r \in Runs : stored'[r] # NONE => stored[r] # NONE
  BY <1>3 DEF i
<1>7. Latest'
  BY <1>1, <1>2, <1>6, LatestKept
<1>8. OpenWork'
  <2>1. \A r \in Runs : r # i.run => stored'[r] = stored[r]
    BY DEF i
  <2> QED
    BY <1>1, <1>2, <2>1, OpenKept
<1> QED
  BY <1>4, <1>5, <1>7, <1>8 DEF Ownership

-----------------------------------------------------------------------------
(* The steps keep the ownership.                                           *)

\* A new run is carried by nobody before, has no result and no answer.
LEMMA AcceptRunOwns ==
    ASSUME Calm, Bookkeeping, Ownership, Bookkeeping',
           NEW r \in Runs, NEW k \in Keys \cup {NONE}, AcceptRun(r, k)
    PROVE  Ownership'
<1>1. /\ TypeOK /\ HandsFull /\ Known /\ CarriedKnown
      /\ PoolInv /\ ActiveInv /\ Latest /\ OpenWork
      /\ submissions \in Nat
  BY DEF Bookkeeping, Ownership, TypeOK
<1> DEFINE i == [run |-> r, kind |-> "run", fut |-> submissions + 1, key |-> k]
<1>2. /\ Admits /\ EnsureStarted
      /\ stored[r] = NONE
      /\ submissions < MaxSubmissions
      /\ submissions' = submissions + 1
      /\ futures' = [futures EXCEPT ![r] = submissions + 1]
      /\ queue' = Append(queue, i)
      /\ stored' = [stored EXCEPT ![r] = [status |-> "idle", requires_human |-> FALSE]]
      /\ UNCHANGED <<cancelled, active, raced>>
  BY DEF AcceptRun, Enqueue
<1>3. i \in Item /\ i.run = r /\ i.fut = submissions + 1 /\ i # NONE
  BY <1>1, <1>2, SizesAssumption, NoneAssumption DEF Item, TypeOK
<1> HIDE DEF i
<1>4. \A w \in Workers : worker'[w].item = worker[w].item
  BY <1>1, <1>2, StartKeeps
<1>5. /\ Queued' = Queued \cup {i}
      /\ InHand' = InHand
      /\ \A n \in DOMAIN queue' : \/ n \in DOMAIN queue /\ queue'[n] = queue[n]
                                  \/ queue'[n] = i
  BY <1>2, <1>3, <1>4, ItemJoins
<1>6. PoolInv' /\ ActiveInv'
  <2>1. \A n \in DOMAIN queue' : queue'[n] # NONE
    BY <1>1, <1>2, <1>3, <1>5 DEF PoolInv, Admits, Calm
  <2> QED
    BY <1>2, <2>1, StartOwns
<1>7. \A j \in Carried : /\ j.run \in Runs /\ j.run # r
                         /\ j.fut \in 1 .. submissions
                         /\ stored'[j.run] = stored[j.run]
  <2>1. SUFFICES ASSUME NEW j \in Carried
                 PROVE  /\ j.run \in Runs /\ j.run # r
                        /\ j.fut \in 1 .. submissions
                        /\ stored'[j.run] = stored[j.run]
    OBVIOUS
  <2>2. j.run \in Runs /\ stored[j.run] # NONE /\ j.fut \in 1 .. submissions
    BY <1>1, CarriedTyped DEF CarriedKnown
  <2> QED
    BY <1>1, <1>2, <2>2 DEF TypeOK
<1>8. stored'[r].status = "idle"
  BY <1>1, <1>2 DEF TypeOK
<1>9. Latest'
  <2>1. SUFFICES ASSUME NEW j \in Carried', NEW x \in Runs \ raced, stored'[x] # NONE
                 PROVE  futures'[x] = j.fut <=> j.run = x
    BY <1>2 DEF Latest
  <2>2. futures'[r] = submissions + 1 /\ \A y \in Runs : y # r => futures'[y] = futures[y]
    BY <1>1, <1>2 DEF TypeOK
  <2>3. x # r => stored[x] # NONE /\ futures[x] \in 1 .. submissions
    BY <1>1, <1>2, <2>1 DEF Known, TypeOK
  <2>4. CASE j = i
    BY <1>1, <1>3, <2>2, <2>3, <2>4
  <2>5. CASE j \in Carried
    BY <1>1, <1>7, <2>2, <2>3, <2>5 DEF Latest
  <2> QED
    BY <1>5, <2>4, <2>5 DEF Carried
<1>10. OpenWork'
  <2>1. NoWorkAfterResult'
    BY <1>1, <1>2, <1>5, <1>7 DEF OpenWork, NoWorkAfterResult, Carried
  <2>2. \A j \in Queued' : j.run \notin raced =>
            \/ stored'[j.run].status \notin Terminal
            \/ j.run \in cancelled' /\ stored'[j.run].status = "cancelled"
    <3>1. "idle" \notin Terminal
      BY DEF Terminal
    <3> QED
      BY <1>1, <1>2, <1>3, <1>5, <1>7, <1>8, <3>1 DEF OpenWork, Carried
  <2> QED
    BY <1>2, <2>1, <2>2 DEF OpenWork
<1> QED
  BY <1>6, <1>9, <1>10 DEF Ownership

\* A decision overlaps with what is carried of its run, or finds it at rest.
LEMMA DecidedAtRest ==
    ASSUME NEW r \in Runs, SubmitResume(r)
    PROVE  /\ raced \subseteq raced'
           /\ \A x \in Runs : x # r => (x \in raced' <=> x \in raced)
           /\ r \notin raced' => \A j \in Carried : j.run # r
  BY DEF SubmitResume, AtRest, Carried

\* A decision that finds its run at rest has it carried once afterwards.
LEMMA SubmitResumeOwns ==
    ASSUME Calm, Bookkeeping, Ownership, Bookkeeping', NEW r \in Runs, SubmitResume(r)
    PROVE  Ownership'
<1>1. /\ TypeOK /\ HandsFull /\ Known /\ CarriedKnown
      /\ PoolInv /\ ActiveInv /\ Latest /\ OpenWork
      /\ submissions \in Nat
  BY DEF Bookkeeping, Ownership, TypeOK
<1> DEFINE i == [run |-> r, kind |-> "resume", fut |-> submissions + 1, key |-> NONE]
<1>2. /\ Admits /\ EnsureStarted
      /\ stored[r] # NONE /\ stored[r].status \notin Terminal
      /\ submissions < MaxSubmissions
      /\ submissions' = submissions + 1
      /\ futures' = [futures EXCEPT ![r] = submissions + 1]
      /\ queue' = Append(queue, i)
      /\ cancelled' = cancelled \ {r}
      /\ UNCHANGED <<active, stored>>
  BY DEF SubmitResume, Enqueue, Resumable
<1>3. i \in Item /\ i.run = r /\ i.fut = submissions + 1 /\ i # NONE
  BY <1>1, <1>2, SizesAssumption, NoneAssumption DEF Item, TypeOK
<1> HIDE DEF i
<1>4. \A w \in Workers : worker'[w].item = worker[w].item
  BY <1>1, <1>2, StartKeeps
<1>5. /\ Queued' = Queued \cup {i}
      /\ InHand' = InHand
      /\ \A n \in DOMAIN queue' : \/ n \in DOMAIN queue /\ queue'[n] = queue[n]
                                  \/ queue'[n] = i
  BY <1>2, <1>3, <1>4, ItemJoins
<1>6. PoolInv' /\ ActiveInv'
  <2>1. \A n \in DOMAIN queue' : queue'[n] # NONE
    BY <1>1, <1>2, <1>3, <1>5 DEF PoolInv, Admits, Calm
  <2> QED
    BY <1>2, <2>1, StartOwns, DecidedAtRest
<1>7. /\ \A j \in Carried : j.run \in Runs /\ j.fut \in 1 .. submissions
      /\ \A j \in Carried : j.run \notin raced' => j.run # r
      /\ \A x \in Runs : x \notin raced' => x \notin raced
  BY <1>1, CarriedTyped, DecidedAtRest DEF CarriedKnown
<1>8. Latest'
  <2>1. SUFFICES ASSUME NEW j \in Carried', NEW x \in Runs, x \notin raced',
                        stored'[x] # NONE
                 PROVE  futures'[x] = j.fut <=> j.run = x
    BY DEF Latest
  <2>2. futures'[r] = submissions + 1 /\ \A y \in Runs : y # r => futures'[y] = futures[y]
    BY <1>1, <1>2 DEF TypeOK
  <2>3. stored[x] # NONE /\ futures[x] \in 1 .. submissions
    BY <1>1, <1>2, <2>1 DEF Known
  <2>4. CASE j = i
    BY <1>1, <1>3, <2>2, <2>3, <2>4
  <2>5. CASE j \in Carried
    <3>1. j.fut \in 1 .. submissions /\ x \notin raced
      BY <1>7, <2>1, <2>5
    <3>2. futures[x] = j.fut <=> j.run = x
      BY <1>1, <2>3, <2>5, <3>1 DEF Latest
    <3> QED
      BY <1>1, <1>7, <2>1, <2>2, <2>5, <3>1, <3>2
  <2> QED
    BY <1>5, <2>4, <2>5 DEF Carried
<1>9. OpenWork'
  <2>1. NoWorkAfterResult'
    BY <1>1, <1>2, <1>5, <1>7 DEF OpenWork, NoWorkAfterResult, Carried
  <2>2. \A j \in Queued' : j.run \notin raced' =>
            \/ stored'[j.run].status \notin Terminal
            \/ j.run \in cancelled' /\ stored'[j.run].status = "cancelled"
    BY <1>1, <1>2, <1>3, <1>5, <1>7 DEF OpenWork, Carried
  <2> QED
    BY <2>1, <2>2 DEF OpenWork
<1> QED
  BY <1>6, <1>8, <1>9 DEF Ownership

\* A call that submits nothing leaves the queue and the runs alone.
LEMMA IdleCallOwns ==
    ASSUME Calm, Bookkeeping, Ownership, Bookkeeping', Admits, EnsureStarted,
           UNCHANGED <<queue, cancelled, active, futures, raced, stored>>
    PROVE  Ownership'
<1>1. /\ TypeOK /\ HandsFull /\ PoolInv /\ ActiveInv /\ Latest /\ OpenWork
  BY DEF Bookkeeping, Ownership
<1>2. \A w \in Workers : worker'[w].item = worker[w].item
  BY <1>1, StartKeeps
<1>3. Queued' = Queued /\ InHand' = InHand
  BY <1>2, NothingMoves
<1>4. PoolInv' /\ ActiveInv'
  <2>1. \A n \in DOMAIN queue' : queue'[n] # NONE
    BY <1>1 DEF PoolInv, Admits, Calm
  <2> QED
    BY <2>1, StartOwns
<1>5. Latest' /\ OpenWork'
  BY <1>1, <1>3 DEF Latest, OpenWork, NoWorkAfterResult, Carried
<1> QED
  BY <1>4, <1>5 DEF Ownership

\* A cancellation reaches the worker of the run, or settles a run that no
\* worker has in hand.
LEMMA CancelOwns ==
    ASSUME Bookkeeping, Ownership, NEW r \in Runs, Cancel(r)
    PROVE  Ownership'
<1>1. /\ TypeOK /\ HandsFull /\ Known /\ CarriedKnown
      /\ PoolInv /\ ActiveInv /\ Latest /\ OpenWork
      /\ worker \in [Workers -> Slot]
      /\ stored \in [Runs -> Stored \cup {NONE}]
      /\ active \in [Runs -> Workers \cup {NONE}]
  BY DEF Bookkeeping, Ownership, TypeOK
<1>2. /\ stored[r] # NONE
      /\ cancelled' = cancelled \cup {r}
      /\ UNCHANGED <<started, stopping, closed, pool, queue, active, futures, raced>>
  BY DEF Cancel, phase, intake
<1>3. CASE active[r] # NONE
  <2>1. /\ active[r] \in Workers
        /\ worker' = [worker EXCEPT ![active[r]].cancel = TRUE]
        /\ stored' = stored
    BY <1>1, <1>3 DEF Cancel
  <2>2. worker[active[r]].at = "runtime"
    BY <1>1, <1>3, <2>1 DEF ActiveInv, HandsFull
  <2>3. /\ [worker[active[r]] EXCEPT !.cancel = TRUE].item = worker[active[r]].item
        /\ [worker[active[r]] EXCEPT !.cancel = TRUE].at = worker[active[r]].at
    BY <1>1, <2>1 DEF Slot
  <2>4. /\ \A w \in Workers : /\ worker'[w].item = worker[w].item
                              /\ worker'[w].at = worker[w].at
        /\ \A w \in Workers \ {active[r]} : worker'[w] = worker[w]
    BY <1>1, <2>1, <2>3
  <2>5. PoolInv'
    <3>1. \A w \in Workers : worker'[w].cancel /\ worker'[w].at # "runtime" =>
                                  worker[w].cancel /\ worker[w].at # "runtime"
      BY <2>2, <2>4
    <3> QED
      BY <1>1, <1>2, <2>4, <3>1, PoolKept
  <2>6. ActiveInv'
    BY <1>1, <1>2, <2>4 DEF ActiveInv, OneWorkerPerRun
  <2>7. Queued' = Queued /\ InHand' = InHand
    BY <1>2, <2>4, NothingMoves
  <2>8. Latest'
    BY <1>1, <1>2, <2>1, <2>7 DEF Latest, Carried
  <2>9. OpenWork'
    BY <1>1, <1>2, <2>1, <2>7 DEF OpenWork, NoWorkAfterResult, Carried
  <2> QED
    BY <2>5, <2>6, <2>8, <2>9 DEF Ownership
<1>4. CASE active[r] = NONE
  <2>1. worker' = worker
    BY <1>4 DEF Cancel
  <2>2. Queued' = Queued /\ InHand' = InHand
    BY <1>2, <2>1, NothingMoves
  <2>3. PoolInv' /\ ActiveInv'
    BY <1>1, <1>2, <2>1 DEF PoolInv, Live, ActiveInv, OneWorkerPerRun
  <2>4. CASE stored' = stored
    <3>1. Latest'
      BY <1>1, <1>2, <2>2, <2>4 DEF Latest, Carried
    <3>2. OpenWork'
      BY <1>1, <1>2, <2>2, <2>4 DEF OpenWork, NoWorkAfterResult, Carried
    <3> QED
      BY <2>3, <3>1, <3>2 DEF Ownership
  <2>5. CASE stored' = [stored EXCEPT ![r].status = "cancelled"]
    <3>1. /\ stored'[r].status = "cancelled" /\ stored'[r] # NONE
          /\ \A x \in Runs : x # r => stored'[x] = stored[x]
      <4>1. /\ [stored[r] EXCEPT !.status = "cancelled"] \in Stored
            /\ [stored[r] EXCEPT !.status = "cancelled"].status = "cancelled"
        BY <1>1, <1>2 DEF Stored, StoredStatus
      <4> QED
        BY <1>1, <2>5, <4>1, NoneAssumption
    <3>2. \A j \in Carried : j.run \in Runs
      BY CarriedTyped
    <3>3. \A j \in InHand : j.run \notin raced => j.run # r
      BY <1>1, <1>4, NoneAssumption DEF ActiveInv, OneWorkerPerRun, HandsFull, InHand
    <3>4. Latest'
      <4>1. \A x \in Runs : stored'[x] # NONE => stored[x] # NONE
        BY <1>2, <3>1
      <4> QED
        BY <1>1, <1>2, <2>2, <4>1, LatestKept DEF Carried
    <3>5. NoWorkAfterResult'
      BY <1>1, <1>2, <2>2, <3>1, <3>2, <3>3 DEF OpenWork, NoWorkAfterResult, Carried
    <3>6. \A j \in Queued' : j.run \notin raced =>
             \/ stored'[j.run].status \notin Terminal
             \/ j.run \in cancelled' /\ stored'[j.run].status = "cancelled"
      BY <1>1, <1>2, <2>2, <3>1, <3>2 DEF OpenWork, Carried
    <3> QED
      BY <1>2, <2>3, <3>4, <3>5, <3>6 DEF Ownership, OpenWork
  <2> QED
    BY <1>4, <2>4, <2>5 DEF Cancel
<1> QED
  BY <1>3, <1>4

\* Outside the end of a shutdown the queue has no sentinel, and no worker at
\* the queue is told to stop.
LEMMA WorkersKept ==
    ASSUME PoolInv, NEW w \in Workers, worker[w].at # "gone",
           \/ \E n \in DOMAIN queue : queue[n] = NONE
           \/ worker[w].cancel /\ worker[w].at # "runtime"
    PROVE  started /\ stopping = "gathering"
<1>1. w \in pool
  BY DEF PoolInv, Live
<1>2. started /\ ~closed
  BY <1>1 DEF PoolInv
<1> QED
  BY <1>2 DEF PoolInv

\* Workers end while a shutdown gathers them.
LEMMA PoolShrinks ==
    ASSUME PoolInv, started, stopping = "gathering",
           UNCHANGED <<started, stopping, closed, pool>>, Live' \subseteq Live
    PROVE  PoolInv'
  BY DEF PoolInv

\* A worker ends at the queue only while a shutdown gathers the workers.
LEMMA EndingOwns ==
    ASSUME Bookkeeping, Ownership, Bookkeeping', NEW w \in Workers,
           TakeSentinel(w) \/ Stop(w)
    PROVE  Ownership'
<1>1. /\ TypeOK /\ HandsFull /\ PoolInv /\ ActiveInv /\ Latest /\ OpenWork
      /\ HandsFull'
      /\ worker \in [Workers -> Slot]
  BY DEF Bookkeeping, Ownership, TypeOK
<1>2. /\ worker[w].at = "queue"
      /\ Move(w, Gone)
      /\ UNCHANGED <<started, stopping, closed, pool, cancelled, active, futures,
                     raced, stored>>
  BY DEF TakeSentinel, Stop, AtQueue, phase, intake
<1>3. /\ worker'[w] = Gone
      /\ \A v \in Workers \ {w} : worker'[v] = worker[v]
  BY <1>1, <1>2, MoveKeeps, Slots
<1>4. \A v \in Workers : worker'[v].item = worker[v].item
  BY <1>1, <1>2, <1>3, Slots DEF HandsFull
<1>5. Queued' \subseteq Queued /\ InHand' = InHand
  <2>1. CASE TakeSentinel(w)
    BY <1>4, <2>1, HeadLeaves DEF TakeSentinel
  <2>2. CASE Stop(w)
    BY <1>4, <2>2, NothingMoves DEF Stop
  <2> QED
    BY <2>1, <2>2
<1>6. started /\ stopping = "gathering"
  <2>1. CASE TakeSentinel(w)
    <3>1. queue[1] = NONE /\ 1 \in DOMAIN queue
      BY <1>1, <2>1, QueueTail DEF TakeSentinel
    <3> QED
      BY <1>1, <1>2, <3>1, WorkersKept
  <2>2. CASE Stop(w)
    BY <1>1, <1>2, <2>2, WorkersKept DEF Stop
  <2> QED
    BY <2>1, <2>2
<1>7. PoolInv'
  <2>1. Live' \subseteq Live
    BY <1>3, Slots DEF Live
  <2> QED
    BY <1>1, <1>2, <1>6, <2>1, PoolShrinks
<1>8. ActiveInv'
  BY <1>1, <1>2, <1>4, ActiveKept
<1>9. Latest' /\ OpenWork'
  BY <1>1, <1>2, <1>5 DEF Latest, OpenWork, NoWorkAfterResult, Carried
<1> QED
  BY <1>7, <1>8, <1>9 DEF Ownership

\* Settling items leaves the runs of the others alone.
LEMMA FinalizeOthers ==
    ASSUME Bookkeeping, NEW items \in SUBSET Carried, Finalize(items)
    PROVE  /\ \A r \in Runs : (\A i \in items : i.run # r) => stored'[r] = stored[r]
           /\ \A i \in items : stored'[i.run] = [stored[i.run] EXCEPT !.status = "cancelled"]
           /\ \A i \in items : i.run \in cancelled'
           /\ \A i \in items : jobs'[i.run] = [jobs[i.run] EXCEPT !.status = "cancelled"]
           /\ \A r \in Runs : (\A i \in items : i.run # r) => jobs'[r] = jobs[r]
           /\ cancelled \subseteq cancelled'
<1>1. \A i \in items : i.run \in Runs
  BY CarriedTyped
<1> DEFINE ended == {i.run : i \in items}
<1>2. /\ jobs' = [r \in Runs |-> IF r \in ended
                                 THEN [jobs[r] EXCEPT !.status = "cancelled"] ELSE jobs[r]]
      /\ stored' = [r \in Runs |-> IF r \in ended
                                 THEN [stored[r] EXCEPT !.status = "cancelled"] ELSE stored[r]]
      /\ cancelled' = cancelled \cup ended
  BY DEF Finalize
<1>3. /\ \A i \in items : i.run \in ended
      /\ \A r \in Runs : (\A i \in items : i.run # r) => r \notin ended
  OBVIOUS
<1> HIDE DEF ended
<1> QED
  BY <1>1, <1>2, <1>3

\* Settling a queued item touches no other run.
LEMMA TakeCancelledOwns ==
    ASSUME Bookkeeping, Ownership, NEW w \in Workers, TakeCancelled(w)
    PROVE  Ownership'
<1>1. /\ TypeOK /\ HandsFull /\ PoolInv /\ ActiveInv /\ Latest /\ OpenWork
  BY DEF Bookkeeping, Ownership
<1> DEFINE i == Head(queue)
<1>2. /\ queue # <<>> /\ i # NONE
      /\ queue' = Tail(queue)
      /\ Finalize({i})
      /\ UNCHANGED <<started, stopping, closed, pool, worker, active, futures, raced>>
  BY DEF TakeCancelled, phase, intake
<1>3. /\ Queued' \subseteq Queued
      /\ InHand' = InHand
      /\ i \in Carried
      /\ \A j \in Carried' : j.fut # i.fut
  BY <1>2, HeadLeaves DEF Carried
<1> HIDE DEF i
<1>4. /\ \A r \in Runs : r # i.run => stored'[r] = stored[r]
      /\ cancelled \subseteq cancelled'
  <2>1. {i} \in SUBSET Carried
    BY <1>3
  <2> HIDE DEF Finalize
  <2> QED
    BY <1>2, <2>1, FinalizeOthers
<1>5. PoolInv'
  <2>1. \A n \in DOMAIN queue' : n + 1 \in DOMAIN queue /\ queue'[n] = queue[n + 1]
    BY <1>1, <1>2, QueueTail
  <2> QED
    BY <1>1, <1>2, <2>1, PoolKept
<1>6. ActiveInv'
  BY <1>1, <1>2 DEF ActiveInv, OneWorkerPerRun
<1>7. Latest'
  <2>1. stored[i.run] # NONE
    BY <1>3 DEF Bookkeeping, CarriedKnown
  <2> QED
    BY <1>1, <1>2, <1>3, <1>4, <2>1, LatestKept DEF Carried
<1>8. OpenWork'
  BY <1>1, <1>2, <1>3, <1>4, OpenKept
<1> QED
  BY <1>5, <1>6, <1>7, <1>8 DEF Ownership

\* What a worker takes up has no result, unless decisions on it overlapped.
LEMMA TakenOpen ==
    ASSUME Bookkeeping, Ownership, NEW w \in Workers, Take(w)
    PROVE  /\ Head(queue) \in Queued
           /\ Head(queue).run \notin raced => stored[Head(queue).run].status \notin Terminal
<1>1. Head(queue) # NONE /\ Head(queue).run \notin cancelled /\ queue # <<>>
  BY DEF Take, MayStart
<1>2. Head(queue) \in Queued
  <2>1. 1 \in DOMAIN queue /\ Head(queue) = queue[1]
    BY <1>1, QueueTail DEF Bookkeeping, Take
  <2> QED
    BY <1>1, <2>1 DEF Queued
<1> QED
  BY <1>1, <1>2 DEF Ownership, OpenWork, Carried

\* A worker becomes the one worker of a run that has no result, unless
\* decisions on it overlapped.
LEMMA TakeOwns ==
    ASSUME Bookkeeping, Ownership, NEW w \in Workers, Take(w)
    PROVE  Ownership'
<1>1. /\ TypeOK /\ HandsFull /\ PoolInv /\ ActiveInv /\ Latest /\ OpenWork
      /\ active \in [Runs -> Workers \cup {NONE}]
      /\ stored \in [Runs -> Stored \cup {NONE}]
  BY DEF Bookkeeping, Ownership, TypeOK
<1> DEFINE i == Head(queue)
<1>2. /\ AtQueue(w) /\ queue # <<>> /\ i # NONE
      /\ queue' = Tail(queue)
      /\ Move(w, Executing(i))
      /\ active' = [active EXCEPT ![i.run] = w]
      /\ stored' = IF i.kind = "resume"
                   THEN [stored EXCEPT ![i.run] =
                            [status |-> "running", requires_human |-> TRUE]]
                   ELSE stored
      /\ UNCHANGED <<started, stopping, closed, pool, cancelled, futures, raced>>
  BY DEF Take, phase, intake
<1>3. i \in Queued
  BY TakenOpen
<1>4. i \in Carried /\ i \in Item /\ i.run \in Runs /\ stored[i.run] # NONE
  BY <1>3, CarriedTyped DEF Carried, Bookkeeping, CarriedKnown
<1>5. /\ worker'[w] = Executing(i)
      /\ worker'[w].item = i /\ worker'[w].at = "runtime" /\ ~worker'[w].cancel
      /\ \A v \in Workers \ {w} : worker'[v] = worker[v]
  <2>1. ~Executing(i).cancel
    BY DEF Executing
  <2> QED
    BY <1>1, <1>2, <1>4, <2>1, MoveKeeps, Slots
<1>6. worker[w].item = NONE
  BY <1>1, <1>2 DEF AtQueue, HandsFull
<1>7. /\ Queued' \subseteq Queued
      /\ InHand' = InHand \cup {i}
      /\ \A j \in Queued' \cup InHand : j.fut # i.fut
  BY <1>2, <1>5, <1>6, HeadTaken
<1>8. \A n \in DOMAIN queue' : n + 1 \in DOMAIN queue /\ queue'[n] = queue[n + 1]
  BY <1>1, <1>2, QueueTail
<1> HIDE DEF i
<1>9. PoolInv'
  <2>1. \A v \in Workers : worker'[v].at = "gone" <=> worker[v].at = "gone"
    BY <1>2, <1>5 DEF AtQueue
  <2>2. \A v \in Workers : worker'[v].cancel /\ worker'[v].at # "runtime" =>
                               worker[v].cancel /\ worker[v].at # "runtime"
    BY <1>5
  <2> QED
    BY <1>1, <1>2, <1>8, <2>1, <2>2, PoolKept
<1>10. \A j \in Queued' \cup InHand :
          /\ j \in Carried /\ j.run \in Runs
          /\ j.run \notin raced => j.run # i.run
  <2>1. \A j \in Queued' \cup InHand : j \in Carried
    BY <1>7 DEF Carried
  <2> QED
    BY <1>1, <1>4, <1>7, <2>1, RunsApart, CarriedTyped
<1>11. ActiveInv'
  <2>1. active'[i.run] = w /\ \A r \in Runs : r # i.run => active'[r] = active[r]
    BY <1>1, <1>2, <1>4
  <2>2. OneWorkerPerRun'
    <3>1. SUFFICES ASSUME NEW v \in Workers, worker'[v].at = "runtime",
                          worker'[v].item.run \notin raced
                   PROVE  active'[worker'[v].item.run] = v
      BY <1>2 DEF OneWorkerPerRun
    <3>2. CASE v = w
      BY <1>5, <2>1, <3>2
    <3>3. CASE v # w
      <4>1. worker'[v] = worker[v] /\ worker[v].item \in InHand
        BY <1>1, <1>5, <3>1, <3>3, CarriedItems DEF HandsFull
      <4> QED
        BY <1>1, <1>10, <2>1, <3>1, <4>1 DEF ActiveInv, OneWorkerPerRun
    <3> QED
      BY <3>2, <3>3
  <2>3. ASSUME NEW r \in Runs, active'[r] # NONE
        PROVE  worker'[active'[r]].item # NONE /\ worker'[active'[r]].item.run = r
    <3>1. CASE r = i.run
      BY <1>2, <1>5, <2>1, <3>1
    <3>2. CASE r # i.run
      <4>1. active'[r] = active[r] /\ active[r] \in Workers
        BY <1>1, <2>1, <2>3, <3>2
      <4>2. worker[active[r]].item # NONE /\ worker[active[r]].item.run = r
        BY <1>1, <2>3, <4>1 DEF ActiveInv
      <4> QED
        BY <1>5, <1>6, <4>1, <4>2
    <3> QED
      BY <3>1, <3>2
  <2> QED
    BY <2>2, <2>3 DEF ActiveInv
<1>12. /\ stored'[i.run] # NONE
       /\ i.run \notin raced => stored'[i.run].status \notin Terminal
       /\ \A r \in Runs : r # i.run => stored'[r] = stored[r]
  <2>1. [status |-> "running", requires_human |-> TRUE] \in Stored
    BY DEF Stored, StoredStatus
  <2>2. "running" \notin Terminal
    BY DEF Terminal
  <2>3. i.run \notin raced => stored[i.run].status \notin Terminal
    BY TakenOpen DEF i
  <2> QED
    BY <1>1, <1>2, <1>4, <2>1, <2>2, <2>3, NoneAssumption
<1>13. Latest'
  <2>1. Carried' \subseteq Carried
    BY <1>4, <1>7 DEF Carried
  <2> QED
    BY <1>1, <1>2, <1>4, <1>12, <2>1, LatestKept
<1>14. OpenWork'
  <2>1. NoWorkAfterResult'
    BY <1>1, <1>2, <1>7, <1>10, <1>12 DEF OpenWork, NoWorkAfterResult
  <2>2. \A j \in Queued' : j.run \notin raced =>
            \/ stored'[j.run].status \notin Terminal
            \/ j.run \in cancelled' /\ stored'[j.run].status = "cancelled"
    BY <1>1, <1>2, <1>7, <1>10, <1>12 DEF OpenWork
  <2> QED
    BY <1>2, <2>1, <2>2 DEF OpenWork
<1> QED
  BY <1>9, <1>11, <1>13, <1>14 DEF Ownership

\* A worker that finishes gives its run up with the result.
LEMMA FinishOwns ==
    ASSUME Bookkeeping, Ownership, NEW w \in Workers, Finish(w)
    PROVE  Ownership'
<1>1. /\ worker[w].at = "runtime"
      /\ queue' = queue
      /\ Move(w, Waiting)
      /\ UNCHANGED <<started, stopping, closed, pool, cancelled, futures, raced>>
  BY DEF Finish, InRuntime, phase, intake
<1>2. PICK result \in Result :
          /\ stored' = [stored EXCEPT ![worker[w].item.run] = result]
          /\ active' = [active EXCEPT ![worker[w].item.run] = NONE]
  BY DEF Finish
<1>3. \A r \in Runs : r # worker[w].item.run => stored'[r] = stored[r]
  BY <1>2 DEF Bookkeeping, TypeOK
<1> QED
  BY <1>1, <1>2, <1>3, GivesUpOwns

\* A worker whose runtime raises gives its run up without a result.
LEMMA RaiseOwns ==
    ASSUME Bookkeeping, Ownership, NEW w \in Workers, Raise(w)
    PROVE  Ownership'
<1>1. /\ worker[w].at = "runtime"
      /\ queue' = queue
      /\ Move(w, Waiting)
      /\ active' = [active EXCEPT ![worker[w].item.run] = NONE]
      /\ UNCHANGED <<started, stopping, closed, pool, cancelled, futures, raced, stored>>
  BY DEF Raise, InRuntime, phase, intake
<1> QED
  BY <1>1, GivesUpOwns

\* A worker cancelled in the runtime gives its run up as cancelled.
LEMMA CancelledOwns ==
    ASSUME Bookkeeping, Ownership, NEW w \in Workers, Cancelled(w)
    PROVE  Ownership'
<1> DEFINE i == worker[w].item
<1>1. /\ worker[w].at = "runtime"
      /\ queue' = queue
      /\ Move(w, Waiting)
      /\ active' = [active EXCEPT ![i.run] = NONE]
      /\ Finalize({i})
      /\ UNCHANGED <<started, stopping, closed, pool, futures, raced>>
  BY DEF Cancelled, phase, intake
<1>2. i \in Carried
  BY <1>1, HandEmptied
<1>3. /\ \A r \in Runs : r # i.run => stored'[r] = stored[r]
      /\ cancelled \subseteq cancelled'
  <2>1. {i} \in SUBSET Carried
    BY <1>2
  <2> HIDE DEF Finalize, i
  <2> QED
    BY <1>1, <2>1, FinalizeOthers
<1> QED
  BY <1>1, <1>3, GivesUpOwns

\* A shutdown settles the queued runs, none of which is in hand.
LEMMA DrainOwns ==
    ASSUME Bookkeeping, Ownership, Drain
    PROVE  Ownership'
<1>1. /\ TypeOK /\ HandsFull /\ PoolInv /\ ActiveInv /\ Latest /\ OpenWork
  BY DEF Bookkeeping, Ownership
<1>2. /\ started /\ stopping = "no" /\ stopping' = "waiting"
      /\ queue' = <<>>
      /\ Finalize(Queued)
      /\ UNCHANGED <<started, closed, pool, worker, active, futures, raced>>
  BY DEF Drain, Drained, intake
<1>3. /\ Queued' = {}
      /\ InHand' = InHand
      /\ \A i \in Queued, j \in InHand : j.fut # i.fut
  BY <1>2, QueueEmptied
<1>4. /\ \A r \in Runs : (\A i \in Queued : i.run # r) => stored'[r] = stored[r]
      /\ \A i \in Queued : stored[i.run] # NONE
  <2>1. Queued \in SUBSET Carried
    BY DEF Carried
  <2> HIDE DEF Finalize
  <2> QED
    BY <1>2, <2>1, FinalizeOthers DEF Bookkeeping, CarriedKnown
<1>5. PoolInv'
  <2>1. Live' = Live /\ DOMAIN queue' = {}
    BY <1>2 DEF Live
  <2> QED
    BY <1>1, <1>2, <2>1 DEF PoolInv
<1>6. ActiveInv'
  BY <1>1, <1>2 DEF ActiveInv, OneWorkerPerRun
<1>7. \A j \in Carried' :
          j \in InHand /\ (j.run \notin raced => stored'[j.run] = stored[j.run])
  <2>1. SUFFICES ASSUME NEW j \in InHand, j.run \notin raced
                 PROVE  stored'[j.run] = stored[j.run]
    BY <1>3 DEF Carried
  <2>2. j.run \in Runs /\ \A i \in Queued : i.run # j.run
    BY <1>1, <1>3, <2>1, RunsApart, CarriedTyped DEF Carried
  <2> QED
    BY <1>4, <2>2
<1>8. Latest'
  <2>1. \A r \in Runs : stored'[r] # NONE => stored[r] # NONE
    BY <1>4
  <2> QED
    BY <1>1, <1>2, <1>7, <2>1, LatestKept DEF Carried
<1>9. OpenWork'
  BY <1>1, <1>2, <1>3, <1>7 DEF OpenWork, NoWorkAfterResult, Carried
<1> QED
  BY <1>5, <1>6, <1>8, <1>9 DEF Ownership

\* Sentinels and stops come up when the shutdown starts to gather.
LEMMA CancelWorkersOwns ==
    ASSUME Bookkeeping, Ownership, CancelWorkers
    PROVE  Ownership'
<1>1. /\ TypeOK /\ HandsFull /\ PoolInv /\ ActiveInv /\ Latest /\ OpenWork
      /\ worker \in [Workers -> Slot]
  BY DEF Bookkeeping, Ownership, TypeOK
<1>2. Queued' = Queued /\ InHand' = InHand
  BY SentinelsJoin
<1>3. /\ stopping = "waiting" /\ stopping' = "gathering"
      /\ UNCHANGED <<started, closed, pool, cancelled, active, futures, raced,
                     stored>>
  BY DEF CancelWorkers, intake
<1>4. \A w \in Workers : /\ worker'[w].item = worker[w].item
                         /\ worker'[w].at = worker[w].at
  <2>1. \A x \in Slot : /\ [x EXCEPT !.cancel = TRUE].item = x.item
                        /\ [x EXCEPT !.cancel = TRUE].at = x.at
    BY DEF Slot
  <2> QED
    BY <1>1, <2>1 DEF CancelWorkers
<1>5. PoolInv'
  <2>1. Live' = Live
    BY <1>4 DEF Live
  <2> QED
    BY <1>1, <1>3, <2>1 DEF PoolInv
<1>6. ActiveInv'
  <2>1. \A r \in Runs : active[r] # NONE => active[r] \in Workers
    BY <1>1 DEF TypeOK
  <2> QED
    BY <1>1, <1>3, <1>4, <2>1 DEF ActiveInv, OneWorkerPerRun
<1>7. Latest' /\ OpenWork'
  BY <1>1, <1>2, <1>3 DEF Latest, OpenWork, NoWorkAfterResult, Carried
<1> QED
  BY <1>5, <1>6, <1>7 DEF Ownership

\* When a shutdown has ended no worker lives and no run is active.
LEMMA EndShutdownOwns ==
    ASSUME Bookkeeping, Ownership, EndShutdown
    PROVE  Ownership'
<1>1. /\ TypeOK /\ HandsFull /\ PoolInv /\ Latest /\ OpenWork
  BY DEF Bookkeeping, Ownership
<1>2. /\ pool \cap Live = {}
      /\ started' = FALSE /\ stopping' = "no" /\ closed' = TRUE /\ pool' = {}
      /\ active' = [r \in Runs |-> NONE]
      /\ UNCHANGED <<worker, queue, cancelled, futures, raced, stored>>
  BY DEF EndShutdown, intake
<1>3. Live = {} /\ Live' = {}
  BY <1>1, <1>2 DEF PoolInv, Live
<1>4. PoolInv'
  BY <1>2, <1>3 DEF PoolInv
<1>5. ActiveInv'
  <2>1. \A w \in Workers : worker'[w].at # "runtime"
    BY <1>2, <1>3 DEF Live
  <2> QED
    BY <1>2, <2>1 DEF ActiveInv, OneWorkerPerRun
<1>6. Queued' = Queued /\ InHand' = InHand
  BY <1>2, NothingMoves
<1>7. Latest' /\ OpenWork'
  BY <1>1, <1>2, <1>6 DEF Latest, OpenWork, NoWorkAfterResult, Carried
<1> QED
  BY <1>4, <1>5, <1>7 DEF Ownership

\* Nobody owns anything at the start.
LEMMA OwnershipInit == Init => Ownership
<1>1. SUFFICES ASSUME Init PROVE Ownership
  OBVIOUS
<1>2. Queued = {} /\ InHand = {} /\ Live = {}
  BY <1>1, Slots DEF Init, Queued, InHand, Live
<1>3. PoolInv
  <2>1. \A w \in Workers : ~worker[w].cancel
    BY <1>1 DEF Init, Gone
  <2>2. DOMAIN queue = {}
    BY <1>1 DEF Init
  <2> QED
    BY <1>1, <1>2, <2>1, <2>2 DEF Init, PoolInv
<1>4. ActiveInv
  BY <1>1, Slots DEF Init, ActiveInv, OneWorkerPerRun
<1>5. Latest /\ OpenWork
  BY <1>1, <1>2 DEF Init, Latest, OpenWork, NoWorkAfterResult, Carried
<1> QED
  BY <1>3, <1>4, <1>5 DEF Ownership

\* Every step of a calm environment keeps the ownership.
LEMMA OwnershipNext ==
    ASSUME Calm
    PROVE  Bookkeeping /\ Ownership /\ [Next]_vars => Ownership'
<1> SUFFICES ASSUME Bookkeeping, Ownership, [Next]_vars PROVE Ownership'
  OBVIOUS
<1>1. Bookkeeping'
  BY BookkeepingNext
<1>2. ASSUME NEW r \in Runs, NEW k \in Keys \cup {NONE}, AcceptRun(r, k)
      PROVE  Ownership'
  BY <1>1, <1>2, AcceptRunOwns
<1>3. ASSUME NEW r \in Runs, SubmitResume(r) PROVE Ownership'
  BY <1>1, <1>3, SubmitResumeOwns
<1>4. ASSUME NEW r \in Runs, Cancel(r) PROVE Ownership'
  BY <1>4, CancelOwns
<1>5. ASSUME NEW k \in Keys, RejectRun(k) PROVE Ownership'
  BY <1>1, <1>5, IdleCallOwns DEF RejectRun, intake
<1>6. CASE SubmitNothing
  BY <1>1, <1>6, IdleCallOwns DEF SubmitNothing, intake
<1>7. ASSUME NEW w \in Workers, WorkerStep(w) PROVE Ownership'
  BY <1>1, <1>7, EndingOwns, TakeCancelledOwns, TakeOwns, FinishOwns, RaiseOwns,
     CancelledOwns DEF WorkerStep
<1>8. CASE Shutdown
  BY <1>8, DrainOwns, CancelWorkersOwns, EndShutdownOwns DEF Shutdown
<1>9. CASE UNCHANGED vars
  <2>1. UNCHANGED <<started, stopping, closed, pool, worker, queue, cancelled,
                    active, futures, raced, stored>>
    BY <1>9 DEF vars
  <2>2. Queued' = Queued /\ InHand' = InHand
    BY <2>1, NothingMoves
  <2>3. PoolInv' /\ ActiveInv'
    BY <2>1 DEF Ownership, PoolInv, Live, ActiveInv, OneWorkerPerRun
  <2>4. Latest' /\ OpenWork'
    BY <2>1, <2>2 DEF Ownership, Latest, OpenWork, NoWorkAfterResult, Carried
  <2> QED
    BY <2>3, <2>4 DEF Ownership
<1> QED
  BY <1>2, <1>3, <1>4, <1>5, <1>6, <1>7, <1>8, <1>9 DEF Next, Client

\* In a calm environment the books and the ownership are always in order.
LEMMA Owned ==
    ASSUME Calm
    PROVE  Spec => [](Bookkeeping /\ Ownership)
<1>1. Bookkeeping /\ Ownership /\ [Next]_vars => Ownership'
  BY OwnershipNext
<1> QED
  BY <1>1, BookkeepingInit, BookkeepingNext, OwnershipInit, PTL DEF Spec

-----------------------------------------------------------------------------
(* The theorems.                                                           *)

\* local_async.py:31 and _worker_loop: while the backend takes submissions,
\* max_concurrency workers live, whatever was cancelled or raised.
THEOREM PoolIsWhole ==
    ASSUME Calm
    PROVE  Spec => []FixedPool
<1>1. Bookkeeping /\ Ownership => FixedPool
  BY DEF Ownership, PoolInv, FixedPool
<1> QED
  BY <1>1, Owned, PTL

\* _active_tasks: unless decisions on it overlapped, no two workers execute one
\* run, and a cancellation reaches the worker that does.
THEOREM RunsHaveOneWorker ==
    ASSUME Calm
    PROVE  Spec => []OneWorkerPerRun
<1>1. Bookkeeping /\ Ownership => OneWorkerPerRun
  BY DEF Ownership, ActiveInv
<1> QED
  BY <1>1, Owned, PTL

\* Unless decisions on the run overlapped, no worker goes on with a run whose
\* result was stored, by it, by a cancellation or by a shutdown.
THEOREM WorkEndsWithResult ==
    ASSUME Calm
    PROVE  Spec => []NoWorkAfterResult
<1>1. Bookkeeping /\ Ownership => NoWorkAfterResult
  BY DEF Ownership, OpenWork
<1> QED
  BY <1>1, Owned, PTL

\* Settling an item whose run has a result changes nothing in the store.
LEMMA SettledStays ==
    ASSUME NEW t \in Stored, t.status = "cancelled"
    PROVE  [t EXCEPT !.status = "cancelled"] = t
  BY DEF Stored

\* No step writes over the result of a run whose decisions did not overlap:
\* what is in hand has none, and what is queued with one was cancelled there.
LEMMA FinalStep ==
    ASSUME Bookkeeping, Ownership, Next,
           NEW r \in Runs \ raced, stored[r] # NONE, stored[r].status \in Terminal
    PROVE  stored'[r] = stored[r]
<1>1. /\ TypeOK /\ HandsFull /\ OpenWork
      /\ stored \in [Runs -> Stored \cup {NONE}]
  BY DEF Bookkeeping, Ownership, TypeOK
<1>2. \A i \in InHand : i.run # r
  BY <1>1 DEF OpenWork, NoWorkAfterResult
<1>3. ASSUME NEW items \in SUBSET Carried, Finalize(items)
      PROVE  stored'[r] = stored[r]
  <2>1. CASE \A i \in items : i.run # r
    BY <1>3, <2>1, FinalizeOthers
  <2>2. CASE \E i \in items : i.run = r
    <3>1. PICK i \in items : i.run = r
      BY <2>2
    <3>2. stored[r] \in Stored /\ stored[r].status = "cancelled"
      BY <1>1, <1>2, <3>1 DEF OpenWork, Carried
    <3> QED
      BY <1>3, <3>1, <3>2, FinalizeOthers, SettledStays
  <2> QED
    BY <2>1, <2>2
<1>4. ASSUME NEW x \in Runs, NEW k \in Keys \cup {NONE}, AcceptRun(x, k)
      PROVE  stored'[r] = stored[r]
  BY <1>1, <1>4 DEF AcceptRun
<1>5. ASSUME NEW x \in Runs, Cancel(x) PROVE stored'[r] = stored[r]
  <2>1. \/ stored' = stored
        \/ Cancellable(stored[x]) /\ stored' = [stored EXCEPT ![x].status = "cancelled"]
    BY <1>5 DEF Cancel
  <2> QED
    BY <1>1, <2>1 DEF Cancellable
<1>6. ASSUME NEW w \in Workers, WorkerStep(w) PROVE stored'[r] = stored[r]
  <2>1. CASE TakeCancelled(w)
    <3>1. {Head(queue)} \in SUBSET Carried /\ Finalize({Head(queue)})
      BY <1>1, <2>1, QueueTail DEF TakeCancelled, Queued, Carried
    <3> QED
      BY <3>1, <1>3
  <2>2. CASE Take(w)
    <3>1. Head(queue).run # r
      BY <2>2, TakenOpen
    <3>2. \/ stored' = stored
          \/ stored' = [stored EXCEPT ![Head(queue).run] =
                           [status |-> "running", requires_human |-> TRUE]]
      BY <2>2 DEF Take
    <3> QED
      BY <1>1, <3>1, <3>2
  <2>3. CASE Finish(w)
    <3>1. worker[w].item \in InHand
      BY <1>1, <2>3, CarriedItems DEF Finish, InRuntime, HandsFull
    <3> QED
      BY <1>1, <1>2, <2>3, <3>1 DEF Finish
  <2>4. CASE Cancelled(w)
    <3>1. {worker[w].item} \in SUBSET Carried /\ Finalize({worker[w].item})
      BY <1>1, <2>4, CarriedItems DEF Cancelled, HandsFull, Carried
    <3> QED
      BY <3>1, <1>3
  <2>5. CASE TakeSentinel(w) \/ Raise(w) \/ Stop(w)
    BY <2>5 DEF TakeSentinel, Raise, Stop
  <2> QED
    BY <1>6, <2>1, <2>2, <2>3, <2>4, <2>5 DEF WorkerStep
<1>7. CASE Drain
  <2>1. Queued \in SUBSET Carried /\ Finalize(Queued)
    BY <1>7 DEF Drain, Drained, Carried
  <2> QED
    BY <2>1, <1>3
<1>8. CASE CancelWorkers \/ EndShutdown
  BY <1>8 DEF CancelWorkers, EndShutdown
<1>9. ASSUME NEW x \in Runs, SubmitResume(x) PROVE stored'[r] = stored[r]
  BY <1>9 DEF SubmitResume
<1>10. ASSUME NEW k \in Keys, RejectRun(k) PROVE stored'[r] = stored[r]
  BY <1>10 DEF RejectRun
<1>11. CASE SubmitNothing
  BY <1>11 DEF SubmitNothing
<1> QED
  BY <1>4, <1>5, <1>6, <1>7, <1>8, <1>9, <1>10, <1>11 DEF Next, Client, Shutdown

\* The stored result of a run whose decisions did not overlap is final:
\* cancellations, late items of the queue and shutdowns write nothing over it.
THEOREM ResultsAreFinal ==
    ASSUME Calm
    PROVE  Spec => ResultIsFinal
<1>1. ASSUME Bookkeeping, Ownership, [Next]_vars
      PROVE  [\A r \in Runs \ raced :
                 stored[r] # NONE /\ stored[r].status \in Terminal =>
                     UNCHANGED stored[r]]_vars
  BY <1>1, FinalStep
<1>2. Bookkeeping /\ Ownership /\ [Next]_vars =>
          [\A r \in Runs \ raced :
              stored[r] # NONE /\ stored[r].status \in Terminal =>
                  UNCHANGED stored[r]]_vars
  BY <1>1
<1> QED
  BY <1>2, Owned, PTL DEF Spec, ResultIsFinal

-----------------------------------------------------------------------------
(* The job and the store, in every environment.                            *)

\* What the job of a run tells of its result.
JobTold(r) ==
    ~jobs[r].error =>
        jobs[r].status = IF stored[r].status = "paused_for_human"
                         THEN "waiting_for_human"
                         ELSE stored[r].status

\* A step that changes the runs of S and lets go of no other's items.
LEMMA JobsElsewhere ==
    ASSUME JobMatchesStore, NEW S \in SUBSET Runs,
           \A r \in Runs \ S : stored'[r] = stored[r] /\ jobs'[r] = jobs[r],
           \A j \in Carried : j \in Carried' \/ j.run \in S,
           \A r \in S : stored'[r] # NONE /\ AtRest(r)' => JobTold(r)'
    PROVE  JobMatchesStore'
<1>1. SUFFICES ASSUME NEW r \in Runs, stored'[r] # NONE, AtRest(r)'
               PROVE  JobTold(r)'
  BY DEF JobMatchesStore, JobTold
<1>2. CASE r \in S
  BY <1>1, <1>2
<1>3. CASE r \notin S
  <2>1. AtRest(r)
    BY <1>1, <1>3 DEF AtRest, Carried
  <2>2. JobTold(r)
    BY <1>1, <1>3, <2>1 DEF JobMatchesStore, JobTold
  <2> QED
    BY <1>3, <2>2 DEF JobTold
<1> QED
  BY <1>2, <1>3

\* Settled items: the jobs and the store say cancelled.
LEMMA SettledTold ==
    ASSUME Bookkeeping, JobMatchesStore, NEW items \in SUBSET Carried, Finalize(items),
           \A j \in Carried : j \in Carried' \/ j \in items
    PROVE  JobMatchesStore'
<1> DEFINE S == {i.run : i \in items}
<1>1. S \in SUBSET Runs /\ \A j \in Carried : j \in Carried' \/ j.run \in S
  BY CarriedTyped
<1>2. /\ \A r \in Runs : (\A i \in items : i.run # r) =>
                            stored'[r] = stored[r] /\ jobs'[r] = jobs[r]
      /\ \A i \in items :
            /\ stored'[i.run] = [stored[i.run] EXCEPT !.status = "cancelled"]
            /\ jobs'[i.run] = [jobs[i.run] EXCEPT !.status = "cancelled"]
  BY FinalizeOthers
<1>3. ASSUME NEW i \in items
      PROVE  stored'[i.run].status = "cancelled" /\ jobs'[i.run].status = "cancelled"
  <2>1. stored[i.run] \in Stored /\ jobs[i.run] \in Job
    BY CarriedTyped
  <2>2. /\ [stored[i.run] EXCEPT !.status = "cancelled"].status = "cancelled"
        /\ [jobs[i.run] EXCEPT !.status = "cancelled"].status = "cancelled"
    BY <2>1 DEF Stored, Job
  <2> QED
    BY <1>2, <2>2
<1>4. \A r \in S : JobTold(r)'
  BY <1>3 DEF JobTold
<1>5. \A r \in Runs \ S : stored'[r] = stored[r] /\ jobs'[r] = jobs[r]
  BY <1>2
<1> HIDE DEF S
<1> QED
  BY <1>1, <1>4, <1>5, JobsElsewhere

\* A submission puts its own run to work and touches no other job.
LEMMA SubmittedTold ==
    ASSUME Bookkeeping, JobMatchesStore, NEW r \in Runs, NEW i \in Item, i.run = r,
           i.fut = submissions + 1, queue' = Append(queue, i), EnsureStarted,
           \A x \in Runs \ {r} : stored'[x] = stored[x] /\ jobs'[x] = jobs[x]
    PROVE  JobMatchesStore'
<1>1. \A w \in Workers : worker'[w].item = worker[w].item
  BY StartKeeps DEF Bookkeeping
<1>2. Queued' = Queued \cup {i} /\ InHand' = InHand
  BY <1>1, ItemJoins
<1>3. ~AtRest(r)'
  BY <1>2 DEF AtRest
<1>4. {r} \in SUBSET Runs
  OBVIOUS
<1>5. \A j \in Carried : j \in Carried'
  BY <1>2 DEF Carried
<1> QED
  BY <1>3, <1>4, <1>5, JobsElsewhere

\* A cancellation changes the job and the store of its run together.
LEMMA CancelTold ==
    ASSUME Bookkeeping, JobMatchesStore, NEW r \in Runs, Cancel(r)
    PROVE  JobMatchesStore'
<1>1. /\ stored[r] \in Stored /\ jobs[r] \in Job
      /\ worker \in [Workers -> Slot]
      /\ stored \in [Runs -> Stored \cup {NONE}]
      /\ jobs \in [Runs -> Job \cup {NONE}]
      /\ active \in [Runs -> Workers \cup {NONE}]
  BY DEF Bookkeeping, TypeOK, Known, Cancel
<1>2. queue' = queue /\ \A w \in Workers : worker'[w].item = worker[w].item
  <2>1. CASE active[r] # NONE
    <3>1. /\ active[r] \in Workers
          /\ worker' = [worker EXCEPT ![active[r]].cancel = TRUE]
          /\ [worker[active[r]] EXCEPT !.cancel = TRUE].item = worker[active[r]].item
      BY <1>1, <2>1 DEF Cancel, Slot
    <3> QED
      BY <1>1, <3>1 DEF Cancel
  <2>2. CASE active[r] = NONE
    BY <2>2 DEF Cancel
  <2> QED
    BY <2>1, <2>2
<1>3. Queued' = Queued /\ InHand' = InHand
  BY <1>2, NothingMoves
<1>4. \A j \in Carried : j \in Carried'
  BY <1>3 DEF Carried
<1>5. CASE UNCHANGED <<stored, jobs>>
  BY <1>3, <1>5 DEF JobMatchesStore, AtRest
<1>6. CASE /\ stored' = [stored EXCEPT ![r].status = "cancelled"]
           /\ jobs' = JobCancelled(r)
  <2>1. /\ [stored[r] EXCEPT !.status = "cancelled"].status = "cancelled"
        /\ [jobs[r] EXCEPT !.status = "cancelled"].status = "cancelled"
    BY <1>1 DEF Stored, Job
  <2>2. JobTold(r)'
    BY <1>1, <1>6, <2>1 DEF JobTold, JobCancelled
  <2>3. \A x \in Runs \ {r} : stored'[x] = stored[x] /\ jobs'[x] = jobs[x]
    BY <1>1, <1>6 DEF JobCancelled
  <2>4. {r} \in SUBSET Runs
    OBVIOUS
  <2> QED
    BY <1>4, <2>2, <2>3, <2>4, JobsElsewhere
<1> QED
  BY <1>5, <1>6 DEF Cancel

\* A worker that lets go of a run leaves its job and the store in agreement.
LEMMA WorkerTold ==
    ASSUME Bookkeeping, JobMatchesStore, NEW w \in Workers, WorkerStep(w)
    PROVE  JobMatchesStore'
<1>1. /\ TypeOK /\ HandsFull
      /\ worker \in [Workers -> Slot]
      /\ stored \in [Runs -> Stored \cup {NONE}]
      /\ jobs \in [Runs -> Job \cup {NONE}]
  BY DEF Bookkeeping, TypeOK
<1>2. CASE TakeSentinel(w) \/ Stop(w)
  <2>1. UNCHANGED <<stored, jobs>>
    BY <1>2 DEF TakeSentinel, Stop
  <2>2. worker'[w] = Gone /\ \A v \in Workers \ {w} : worker'[v] = worker[v]
    BY <1>1, <1>2, MoveKeeps, Slots DEF TakeSentinel, Stop
  <2>3. \A v \in Workers : worker'[v].item = worker[v].item
    BY <1>1, <1>2, <2>2, Slots DEF TakeSentinel, Stop, AtQueue, HandsFull
  <2>4. Queued \subseteq Queued' \cup {NONE} /\ InHand' = InHand
    <3>1. CASE TakeSentinel(w)
      BY <2>3, <3>1, HeadLeaves DEF TakeSentinel
    <3>2. CASE Stop(w)
      BY <2>3, <3>2, NothingMoves DEF Stop
    <3> QED
      BY <1>2, <3>1, <3>2
  <2>5. \A j \in Carried : j \in Carried'
    BY <2>4 DEF Carried, Queued
  <2> QED
    BY <2>1, <2>5 DEF JobMatchesStore, AtRest, Carried
<1>3. CASE TakeCancelled(w)
  <2>1. /\ queue # <<>> /\ queue' = Tail(queue) /\ worker' = worker
        /\ Head(queue) # NONE
        /\ Finalize({Head(queue)})
    BY <1>3 DEF TakeCancelled
  <2>2. /\ Queued \subseteq Queued' \cup {Head(queue)}
        /\ InHand' = InHand
        /\ Head(queue) \in Queued
    BY <2>1, HeadLeaves
  <2>3. /\ {Head(queue)} \in SUBSET Carried
        /\ \A j \in Carried : j \in Carried' \/ j \in {Head(queue)}
    BY <2>2 DEF Carried
  <2> QED
    BY <2>1, <2>3, SettledTold
<1>4. CASE Take(w)
  <2>0. PICK i : i = Head(queue)
    OBVIOUS
  <2>1. /\ AtQueue(w) /\ queue # <<>> /\ queue' = Tail(queue) /\ i # NONE
        /\ Move(w, Executing(i))
        /\ jobs' = [jobs EXCEPT ![i.run].status = "running"]
        /\ \/ stored' = stored
           \/ stored' = [stored EXCEPT ![i.run] =
                            [status |-> "running", requires_human |-> TRUE]]
    BY <1>4, <2>0 DEF Take
  <2>2. i \in Carried
    BY <1>1, <2>0, <2>1, QueueTail DEF Queued, Carried
  <2>3. i \in Item /\ i.run \in Runs
    BY <2>2, CarriedTyped
  <2>4. worker'[w].item = i /\ \A v \in Workers \ {w} : worker'[v] = worker[v]
    BY <1>1, <2>1, <2>3, MoveKeeps, Slots
  <2>5. worker[w].item = NONE
    BY <1>1, <2>1 DEF AtQueue, HandsFull
  <2>6. Queued \subseteq Queued' \cup {i} /\ InHand' = InHand \cup {i}
    BY <2>0, <2>1, <2>4, <2>5, HeadTaken
  <2>7. \A j \in Carried : j \in Carried'
    BY <2>6 DEF Carried
  <2>8. ~AtRest(i.run)'
    BY <2>6 DEF AtRest
  <2>9. \A r \in Runs \ {i.run} : stored'[r] = stored[r] /\ jobs'[r] = jobs[r]
    BY <1>1, <2>1, <2>3
  <2>10. {i.run} \in SUBSET Runs
    BY <2>3
  <2> QED
    BY <2>7, <2>8, <2>9, <2>10, JobsElsewhere
<1>5. CASE Finish(w) \/ Raise(w)
  <2>0. PICK i : i = worker[w].item
    OBVIOUS
  <2>1. worker[w].at = "runtime" /\ queue' = queue /\ Move(w, Waiting)
    BY <1>5 DEF Finish, Raise, InRuntime
  <2>2. i \in Carried /\ Carried \subseteq Carried' \cup {i}
    BY <2>0, <2>1, HandEmptied
  <2>3. i.run \in Runs /\ jobs[i.run] \in Job /\ {i.run} \in SUBSET Runs
    BY <2>2, CarriedTyped
  <2>4. \A j \in Carried : j \in Carried' \/ j.run \in {i.run}
    BY <2>2
  <2>5. CASE Finish(w)
    <3>1. PICK result \in Result :
              /\ stored' = [stored EXCEPT ![i.run] = result]
              /\ jobs' = [jobs EXCEPT ![i.run].status = JobOf[result.status]]
      BY <2>0, <2>5 DEF Finish
    <3>2. stored'[i.run] = result /\ jobs'[i.run].status = JobOf[result.status]
      <4>1. [jobs[i.run] EXCEPT !.status = JobOf[result.status]].status = JobOf[result.status]
        BY <2>3 DEF Job
      <4> QED
        BY <1>1, <2>3, <3>1, <4>1
    <3>3. JobOf[result.status] = IF result.status = "paused_for_human"
                                 THEN "waiting_for_human" ELSE result.status
      <4>1. result.status \in {"paused_for_human", "completed", "failed"}
        BY ResultTyped
      <4> QED
        BY <4>1 DEF JobOf
    <3>4. JobTold(i.run)'
      BY <3>2, <3>3 DEF JobTold
    <3>5. \A r \in Runs \ {i.run} : stored'[r] = stored[r] /\ jobs'[r] = jobs[r]
      BY <1>1, <3>1
    <3> QED
      BY <2>3, <2>4, <3>4, <3>5, JobsElsewhere
  <2>6. CASE Raise(w)
    <3>1. /\ stored' = stored
          /\ jobs' = [jobs EXCEPT ![i.run] = [status |-> "failed", error |-> TRUE]]
      BY <2>0, <2>6 DEF Raise
    <3>2. jobs'[i.run].error
      BY <1>1, <2>3, <3>1
    <3>3. JobTold(i.run)'
      BY <3>2 DEF JobTold
    <3>4. \A r \in Runs \ {i.run} : stored'[r] = stored[r] /\ jobs'[r] = jobs[r]
      BY <1>1, <3>1
    <3> QED
      BY <2>3, <2>4, <3>3, <3>4, JobsElsewhere
  <2> QED
    BY <1>5, <2>5, <2>6
<1>6. CASE Cancelled(w)
  <2>1. /\ worker[w].at = "runtime" /\ queue' = queue /\ Move(w, Waiting)
        /\ Finalize({worker[w].item})
    BY <1>6 DEF Cancelled
  <2>2. worker[w].item \in Carried /\ Carried \subseteq Carried' \cup {worker[w].item}
    BY <2>1, HandEmptied
  <2>3. /\ {worker[w].item} \in SUBSET Carried
        /\ \A j \in Carried : j \in Carried' \/ j \in {worker[w].item}
    BY <2>2
  <2> QED
    BY <2>1, <2>3, SettledTold
<1> QED
  BY <1>2, <1>3, <1>4, <1>5, <1>6 DEF WorkerStep

\* Every step, in every environment, keeps jobs and store in agreement.
LEMMA ToldNext == Bookkeeping /\ JobMatchesStore /\ [Next]_vars => JobMatchesStore'
<1> SUFFICES ASSUME Bookkeeping, JobMatchesStore, [Next]_vars PROVE JobMatchesStore'
  OBVIOUS
<1>1. /\ TypeOK /\ HandsFull
      /\ submissions \in Nat
      /\ stored \in [Runs -> Stored \cup {NONE}]
      /\ jobs \in [Runs -> Job \cup {NONE}]
  BY DEF Bookkeeping, TypeOK
<1>2. ASSUME NEW r \in Runs, NEW k \in Keys \cup {NONE}, AcceptRun(r, k)
      PROVE  JobMatchesStore'
  <2> DEFINE i == [run |-> r, kind |-> "run", fut |-> submissions + 1, key |-> k]
  <2>1. i \in Item /\ i.run = r /\ i.fut = submissions + 1
    BY <1>1, <1>2, SizesAssumption DEF AcceptRun, Enqueue, Item
  <2>2. queue' = Append(queue, i) /\ EnsureStarted
    BY <1>2 DEF AcceptRun, Enqueue
  <2>3. \A x \in Runs \ {r} : stored'[x] = stored[x] /\ jobs'[x] = jobs[x]
    BY <1>1, <1>2 DEF AcceptRun
  <2> HIDE DEF i
  <2> QED
    BY <2>1, <2>2, <2>3, SubmittedTold
<1>3. ASSUME NEW r \in Runs, SubmitResume(r) PROVE JobMatchesStore'
  <2> DEFINE i == [run |-> r, kind |-> "resume", fut |-> submissions + 1, key |-> NONE]
  <2>1. i \in Item /\ i.run = r /\ i.fut = submissions + 1
    BY <1>1, <1>3, SizesAssumption DEF SubmitResume, Enqueue, Item
  <2>2. queue' = Append(queue, i) /\ EnsureStarted
    BY <1>3 DEF SubmitResume, Enqueue
  <2>3. \A x \in Runs \ {r} : stored'[x] = stored[x] /\ jobs'[x] = jobs[x]
    BY <1>1, <1>3 DEF SubmitResume
  <2> HIDE DEF i
  <2> QED
    BY <2>1, <2>2, <2>3, SubmittedTold
<1>4. ASSUME NEW r \in Runs, Cancel(r) PROVE JobMatchesStore'
  BY <1>4, CancelTold
<1>5. ASSUME EnsureStarted, UNCHANGED <<queue, stored, jobs>> PROVE JobMatchesStore'
  <2>1. \A w \in Workers : worker'[w].item = worker[w].item
    BY <1>1, <1>5, StartKeeps
  <2>2. Queued' = Queued /\ InHand' = InHand
    BY <1>5, <2>1, NothingMoves
  <2> QED
    BY <1>5, <2>2 DEF JobMatchesStore, AtRest
<1>6. ASSUME NEW k \in Keys, RejectRun(k) PROVE JobMatchesStore'
  BY <1>5, <1>6 DEF RejectRun
<1>7. CASE SubmitNothing
  BY <1>5, <1>7 DEF SubmitNothing
<1>8. ASSUME NEW w \in Workers, WorkerStep(w) PROVE JobMatchesStore'
  BY <1>8, WorkerTold
<1>9. CASE Drain
  <2>1. Finalize(Queued) /\ queue' = <<>> /\ worker' = worker
    BY <1>9 DEF Drain, Drained
  <2>2. Queued \in SUBSET Carried /\ InHand' = InHand
    BY <2>1, QueueEmptied DEF Carried
  <2>3. \A j \in Carried : j \in Carried' \/ j \in Queued
    BY <2>2 DEF Carried
  <2> QED
    BY <2>1, <2>2, <2>3, SettledTold
<1>10. CASE CancelWorkers
  <2>1. Queued' = Queued /\ InHand' = InHand
    BY <1>10, SentinelsJoin
  <2>2. UNCHANGED <<stored, jobs>>
    BY <1>10 DEF CancelWorkers
  <2> QED
    BY <2>1, <2>2 DEF JobMatchesStore, AtRest
<1>11. CASE EndShutdown \/ UNCHANGED vars
  <2>1. UNCHANGED <<worker, queue, stored, jobs>>
    BY <1>11 DEF EndShutdown, vars
  <2>2. Queued' = Queued /\ InHand' = InHand
    BY <2>1, NothingMoves
  <2> QED
    BY <2>1, <2>2 DEF JobMatchesStore, AtRest
<1> QED
  BY <1>2, <1>3, <1>4, <1>6, <1>7, <1>8, <1>9, <1>10, <1>11 DEF Next, Client, Shutdown

\* In every environment: of a run that nobody carries the job tells what the
\* store tells, unless the runtime raised.
THEOREM JobTellsResult == Spec => []JobMatchesStore
<1>1. Init => JobMatchesStore
  BY DEF Init, JobMatchesStore
<1> QED
  BY <1>1, BookkeepingInit, BookkeepingNext, ToldNext, PTL DEF Spec
=============================================================================
