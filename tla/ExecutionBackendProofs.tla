---------------------- MODULE ExecutionBackendProofs ----------------------
(***************************************************************************)
(* The types and the idempotency ledger of ExecutionBackend, for every set *)
(* of runs and keys, every size of the pool and the queue, and every       *)
(* environment.  BackendOwnershipProofs builds on the lemmas.              *)
(***************************************************************************)
EXTENDS ExecutionBackend, SequenceTheorems, FiniteSetTheorems, TLAPS

Carried == Queued \cup InHand

\* A worker has an item in hand exactly while it is in the runtime.
HandsFull ==
    \A w \in Workers : worker[w].at = "runtime" <=> worker[w].item # NONE

\* A stored run has a job and the future of an accepted submission.
Known ==
    \A r \in Runs : stored[r] # NONE =>
        jobs[r] # NONE /\ futures[r] \in 1 .. submissions

\* What is carried belongs to a stored run and an accepted submission.
CarriedKnown ==
    \A i \in Carried : stored[i.run] # NONE /\ i.fut \in 1 .. submissions

\* A submission is carried in one place.
Apart ==
    /\ \A m, n \in DOMAIN queue :
          queue[m] # NONE /\ queue[n] # NONE /\ queue[m].fut = queue[n].fut => m = n
    /\ \A v, w \in Workers :
          worker[v].item # NONE /\ worker[w].item # NONE
          /\ worker[v].item.fut = worker[w].item.fut => v = w
    /\ \A n \in DOMAIN queue, w \in Workers :
          queue[n] # NONE /\ worker[w].item # NONE =>
              queue[n].fut # worker[w].item.fut

Bookkeeping == TypeOK /\ HandsFull /\ Known /\ CarriedKnown /\ OneRunPerKey /\ Apart

-----------------------------------------------------------------------------
(* How the steps move the items, and that they keep them apart.            *)

\* What is queued and in hand are items.
LEMMA CarriedItems ==
    ASSUME TypeOK
    PROVE  /\ Queued \subseteq Item
           /\ InHand \subseteq Item
           /\ DOMAIN queue = 1 .. Len(queue)
           /\ \A n \in DOMAIN queue : queue[n] # NONE => queue[n] \in Queued
           /\ \A w \in Workers : worker[w].item # NONE => worker[w].item \in InHand
<1>1. queue \in Seq(Item \cup {NONE}) /\ worker \in [Workers -> Slot]
  BY DEF TypeOK
<1>2. DOMAIN queue = 1 .. Len(queue) /\ \A n \in DOMAIN queue : queue[n] \in Item \cup {NONE}
  BY <1>1, LenProperties, ElementOfSeq
<1> QED
  BY <1>1, <1>2 DEF Queued, InHand, Slot

\* Nothing moves.
LEMMA NothingMoves ==
    ASSUME Bookkeeping, queue' = queue,
           \A w \in Workers : worker'[w].item = worker[w].item
    PROVE  Apart' /\ Queued' = Queued /\ InHand' = InHand
<1>1. Queued' = Queued
  BY DEF Queued
<1>2. InHand' = InHand
  BY DEF InHand
<1>3. Apart'
  BY DEF Bookkeeping, Apart
<1> QED
  BY <1>1, <1>2, <1>3

\* The first entry leaves the queue.
LEMMA QueueTail ==
    ASSUME TypeOK, queue # <<>>, queue' = Tail(queue)
    PROVE  /\ queue' \in Seq(Item \cup {NONE})
           /\ Len(queue') = Len(queue) - 1
           /\ 1 \in DOMAIN queue
           /\ Head(queue) = queue[1]
           /\ Head(queue) \in Item \cup {NONE}
           /\ \A n \in DOMAIN queue' : n + 1 \in DOMAIN queue /\ queue'[n] = queue[n + 1]
           /\ DOMAIN queue' \subseteq Nat \ {0}
           /\ Queued' \subseteq Queued
           /\ Queued \subseteq Queued' \cup {Head(queue)}
<1>1. queue \in Seq(Item \cup {NONE})
  BY DEF TypeOK
<1>2. /\ Head(queue) \in Item \cup {NONE}
      /\ Tail(queue) \in Seq(Item \cup {NONE})
      /\ Len(Tail(queue)) = Len(queue) - 1
      /\ \A n \in 1 .. Len(Tail(queue)) : Tail(queue)[n] = queue[n + 1]
  BY <1>1, HeadTailProperties
<1>3. Len(queue) \in Nat \ {0} /\ DOMAIN queue = 1 .. Len(queue)
  BY <1>1, EmptySeq, LenProperties
<1>4. DOMAIN queue' = 1 .. Len(queue')
  BY <1>2, LenProperties
<1>5. Head(queue) = queue[1]
  BY <1>1
<1>6. \A n \in DOMAIN queue' : n + 1 \in DOMAIN queue /\ queue'[n] = queue[n + 1]
  BY <1>2, <1>3, <1>4
<1>7. Queued' \subseteq Queued
  BY <1>6 DEF Queued
<1>8. Queued \subseteq Queued' \cup {Head(queue)}
  <2>1. SUFFICES ASSUME NEW i \in Queued, i # Head(queue) PROVE i \in Queued'
    OBVIOUS
  <2>2. PICK n \in DOMAIN queue : i = queue[n] /\ i # NONE
    BY DEF Queued
  <2>3. n \in Nat /\ n > 1 /\ n <= Len(queue)
    BY <1>3, <1>5, <2>1, <2>2
  <2>4. n - 1 \in 1 .. Len(Tail(queue)) /\ n - 1 + 1 = n
    BY <1>2, <1>3, <2>3
  <2>5. Tail(queue)[n - 1] = queue[n]
    BY <1>2, <2>4
  <2> QED
    BY <1>4, <2>2, <2>4, <2>5 DEF Queued
<1> QED
  BY <1>2, <1>3, <1>4, <1>5, <1>6, <1>7, <1>8

\* The first entry leaves, and no worker takes it in hand.
LEMMA HeadLeaves ==
    ASSUME Bookkeeping, queue # <<>>, queue' = Tail(queue),
           \A w \in Workers : worker'[w].item = worker[w].item
    PROVE  /\ Apart'
           /\ Queued' \subseteq Queued
           /\ Queued \subseteq Queued' \cup {Head(queue)}
           /\ InHand' = InHand
           /\ Head(queue) # NONE => /\ Head(queue) \in Queued
                                    /\ \A j \in Carried' : j.fut # Head(queue).fut
<1>1. TypeOK /\ Apart
  BY DEF Bookkeeping
<1>2. /\ 1 \in DOMAIN queue
      /\ Head(queue) = queue[1]
      /\ \A n \in DOMAIN queue' : n + 1 \in DOMAIN queue /\ queue'[n] = queue[n + 1]
      /\ DOMAIN queue' \subseteq Nat \ {0}
      /\ Queued' \subseteq Queued
      /\ Queued \subseteq Queued' \cup {Head(queue)}
  BY <1>1, QueueTail
<1>3. InHand' = InHand
  BY DEF InHand
<1>4. Apart'
  BY <1>1, <1>2 DEF Apart
<1>5. ASSUME Head(queue) # NONE, NEW j \in Carried'
      PROVE  j.fut # Head(queue).fut
  <2>1. CASE j \in Queued'
    <3>1. PICK n \in DOMAIN queue' : j = queue'[n] /\ j # NONE
      BY <2>1 DEF Queued
    <3>2. n + 1 # 1 /\ j = queue[n + 1] /\ n + 1 \in DOMAIN queue
      BY <1>2, <3>1
    <3> QED
      BY <1>1, <1>2, <1>5, <3>1, <3>2 DEF Apart
  <2>2. CASE j \in InHand
    <3>1. PICK w \in Workers : j = worker[w].item /\ j # NONE
      BY <2>2 DEF InHand
    <3> QED
      BY <1>1, <1>2, <1>5, <3>1 DEF Apart
  <2> QED
    BY <1>3, <2>1, <2>2 DEF Carried
<1>6. Head(queue) # NONE => Head(queue) \in Queued
  BY <1>2 DEF Queued
<1> QED
  BY <1>2, <1>3, <1>4, <1>5, <1>6

\* A worker takes the first entry in hand.
LEMMA HeadTaken ==
    ASSUME Bookkeeping, queue # <<>>, queue' = Tail(queue), Head(queue) # NONE,
           NEW w \in Workers, worker[w].item = NONE,
           worker'[w].item = Head(queue),
           \A v \in Workers \ {w} : worker'[v].item = worker[v].item
    PROVE  /\ Apart'
           /\ Queued' \subseteq Queued
           /\ Queued \subseteq Queued' \cup {Head(queue)}
           /\ InHand' = InHand \cup {Head(queue)}
           /\ Head(queue) \in Queued
           /\ \A j \in Queued' \cup InHand : j.fut # Head(queue).fut
<1>1. TypeOK /\ Apart
  BY DEF Bookkeeping
<1>2. /\ 1 \in DOMAIN queue
      /\ Head(queue) = queue[1]
      /\ \A n \in DOMAIN queue' : n + 1 \in DOMAIN queue /\ queue'[n] = queue[n + 1]
      /\ DOMAIN queue' \subseteq Nat \ {0}
      /\ Queued' \subseteq Queued
      /\ Queued \subseteq Queued' \cup {Head(queue)}
  BY <1>1, QueueTail
<1>3. InHand' = InHand \cup {Head(queue)}
  BY DEF InHand
<1>4. Apart'
  <2>1. \A n \in DOMAIN queue' : queue'[n] # NONE => queue'[n].fut # Head(queue).fut
    BY <1>1, <1>2 DEF Apart
  <2>2. \A v \in Workers \ {w} :
            worker'[v].item # NONE => worker'[v].item.fut # Head(queue).fut
    BY <1>1, <1>2 DEF Apart
  <2>3. \A m, n \in DOMAIN queue' :
            queue'[m] # NONE /\ queue'[n] # NONE /\ queue'[m].fut = queue'[n].fut => m = n
    BY <1>1, <1>2 DEF Apart
  <2>4. \A u, v \in Workers :
            worker'[u].item # NONE /\ worker'[v].item # NONE
            /\ worker'[u].item.fut = worker'[v].item.fut => u = v
    BY <1>1, <2>2 DEF Apart
  <2>5. \A n \in DOMAIN queue', v \in Workers :
            queue'[n] # NONE /\ worker'[v].item # NONE =>
                queue'[n].fut # worker'[v].item.fut
    BY <1>1, <1>2, <2>1 DEF Apart
  <2> QED
    BY <2>3, <2>4, <2>5 DEF Apart
<1>5. Head(queue) \in Queued
  BY <1>2 DEF Queued
<1>6. \A j \in Queued' : j.fut # Head(queue).fut
  <2>1. SUFFICES ASSUME NEW j \in Queued' PROVE j.fut # Head(queue).fut
    OBVIOUS
  <2>2. PICK n \in DOMAIN queue' : j = queue'[n] /\ j # NONE
    BY DEF Queued
  <2> QED
    BY <1>1, <1>2, <2>2 DEF Apart
<1>7. \A j \in InHand : j.fut # Head(queue).fut
  BY <1>1, <1>2 DEF Apart, InHand
<1> QED
  BY <1>2, <1>3, <1>4, <1>5, <1>6, <1>7

\* A worker lets go of its item.
LEMMA ItemLeaves ==
    ASSUME Bookkeeping, queue' = queue,
           NEW w \in Workers, worker[w].item # NONE, worker'[w].item = NONE,
           \A v \in Workers \ {w} : worker'[v].item = worker[v].item
    PROVE  /\ Apart'
           /\ Queued' = Queued
           /\ InHand' \subseteq InHand
           /\ InHand \subseteq InHand' \cup {worker[w].item}
           /\ worker[w].item \in InHand
           /\ \A j \in Carried' : j.fut # worker[w].item.fut
<1>1. Apart
  BY DEF Bookkeeping
<1>2. Queued' = Queued
  BY DEF Queued
<1>3. /\ InHand' \subseteq InHand
      /\ InHand \subseteq InHand' \cup {worker[w].item}
      /\ worker[w].item \in InHand
  BY DEF InHand
<1>4. Apart'
  BY <1>1 DEF Apart
<1>5. \A j \in Queued : j.fut # worker[w].item.fut
  BY <1>1 DEF Apart, Queued
<1>6. \A j \in InHand' : j.fut # worker[w].item.fut
  <2>1. SUFFICES ASSUME NEW j \in InHand' PROVE j.fut # worker[w].item.fut
    OBVIOUS
  <2>2. PICK v \in Workers : j = worker'[v].item /\ j # NONE
    BY DEF InHand
  <2> QED
    BY <1>1, <2>2 DEF Apart
<1> QED
  BY <1>2, <1>3, <1>4, <1>5, <1>6 DEF Carried

\* An item of a new submission joins the queue.
LEMMA ItemJoins ==
    ASSUME Bookkeeping, NEW i \in Item, queue' = Append(queue, i),
           i.fut = submissions + 1,
           \A w \in Workers : worker'[w].item = worker[w].item
    PROVE  /\ queue' \in Seq(Item \cup {NONE})
           /\ Len(queue') = Len(queue) + 1
           /\ Apart'
           /\ Queued' = Queued \cup {i}
           /\ InHand' = InHand
           /\ \A n \in DOMAIN queue' : \/ n \in DOMAIN queue /\ queue'[n] = queue[n]
                                       \/ queue'[n] = i
<1>1. /\ TypeOK /\ Apart /\ CarriedKnown
      /\ queue \in Seq(Item \cup {NONE})
      /\ submissions \in Nat
      /\ i # NONE
  BY NoneAssumption DEF Bookkeeping, TypeOK
<1>2. /\ queue' \in Seq(Item \cup {NONE})
      /\ Len(queue') = Len(queue) + 1
      /\ \A n \in 1 .. Len(queue) : queue'[n] = queue[n]
      /\ queue'[Len(queue) + 1] = i
  BY <1>1, AppendProperties
<1>3. /\ DOMAIN queue = 1 .. Len(queue)
      /\ DOMAIN queue' = 1 .. Len(queue) + 1
      /\ Len(queue) \in Nat
  BY <1>1, <1>2, LenProperties
<1>4. InHand' = InHand
  BY DEF InHand
<1>5. Queued' = Queued \cup {i}
  BY <1>1, <1>2, <1>3 DEF Queued
<1>6. \A j \in Carried : j.fut # i.fut
  BY <1>1 DEF CarriedKnown
<1>7. /\ \A n \in DOMAIN queue : queue[n] # NONE => queue[n].fut # i.fut
      /\ \A w \in Workers : worker[w].item # NONE => worker[w].item.fut # i.fut
  BY <1>1, <1>6, CarriedItems DEF Carried
<1>8. Apart'
  BY <1>1, <1>2, <1>3, <1>7 DEF Apart
<1> QED
  BY <1>2, <1>3, <1>4, <1>5, <1>8

\* The queue is emptied.
LEMMA QueueEmptied ==
    ASSUME Bookkeeping, queue' = <<>>,
           \A w \in Workers : worker'[w].item = worker[w].item
    PROVE  /\ Apart'
           /\ Queued' = {}
           /\ InHand' = InHand
           /\ \A i \in Queued, j \in InHand : j.fut # i.fut
<1>1. Apart
  BY DEF Bookkeeping
<1>2. Queued' = {}
  BY DEF Queued
<1>3. InHand' = InHand
  BY DEF InHand
<1>4. Apart'
  BY <1>1 DEF Apart
<1>5. \A i \in Queued, j \in InHand : j.fut # i.fut
  BY <1>1 DEF Apart, Queued, InHand
<1> QED
  BY <1>2, <1>3, <1>4, <1>5

\* Sentinels join the queue.
LEMMA SentinelsJoin ==
    ASSUME Bookkeeping, CancelWorkers
    PROVE  /\ queue' \in Seq(Item \cup {NONE})
           /\ Len(queue') <= MaxQueue
           /\ Apart'
           /\ Queued' = Queued
           /\ InHand' = InHand
<1>1. /\ TypeOK /\ Apart
      /\ queue \in Seq(Item \cup {NONE})
      /\ worker \in [Workers -> Slot]
      /\ Len(queue) <= MaxQueue
      /\ pool \in SUBSET Workers
  BY DEF Bookkeeping, TypeOK
<1> DEFINE space == MaxQueue - Len(queue)
           count == IF Cardinality(pool) < space THEN Cardinality(pool) ELSE space
           added == [n \in 1 .. count |-> NONE]
<1>2. queue' = queue \o added
  BY DEF CancelWorkers, Sentinels
<1>3. /\ Len(queue) \in Nat
      /\ DOMAIN queue = 1 .. Len(queue)
      /\ MaxQueue \in Nat
  BY <1>1, LenProperties, SizesAssumption
<1>4. Cardinality(pool) \in Nat
  <2>1. IsFiniteSet(Workers)
    BY FS_Interval, SizesAssumption DEF Workers
  <2> QED
    BY <1>1, <2>1, FS_Subset, FS_CardinalityType
<1>5. count \in Nat /\ count <= space
  BY <1>1, <1>3, <1>4
<1> HIDE DEF count
<1>6. /\ added \in Seq(Item \cup {NONE})
      /\ Len(added) = count
      /\ \A n \in 1 .. count : added[n] = NONE
  BY <1>5
<1> HIDE DEF added
<1>7. /\ queue' \in Seq(Item \cup {NONE})
      /\ Len(queue') = Len(queue) + count
      /\ \A n \in 1 .. Len(queue) + count :
            queue'[n] = IF n <= Len(queue) THEN queue[n] ELSE added[n - Len(queue)]
  BY <1>1, <1>2, <1>6, ConcatProperties
<1>8. DOMAIN queue' = 1 .. Len(queue) + count
  BY <1>7, LenProperties
<1>9. /\ \A n \in DOMAIN queue : n \in DOMAIN queue' /\ queue'[n] = queue[n]
      /\ \A n \in DOMAIN queue' \ DOMAIN queue : queue'[n] = NONE
  BY <1>3, <1>5, <1>6, <1>7, <1>8
<1>10. Queued' = Queued
  BY <1>9 DEF Queued
<1>11. \A w \in Workers : worker'[w].item = worker[w].item
  BY <1>1 DEF CancelWorkers, Slot
<1>12. InHand' = InHand
  BY <1>11 DEF InHand
<1>13. Apart'
  BY <1>1, <1>9, <1>11 DEF Apart
<1> QED
  BY <1>1, <1>3, <1>5, <1>7, <1>10, <1>12, <1>13

-----------------------------------------------------------------------------
(* What the shared parts of the handlers do.                               *)

\* start() gives the workers it creates nothing in hand.
LEMMA StartKeeps ==
    ASSUME TypeOK, HandsFull, EnsureStarted
    PROVE  /\ started' \in BOOLEAN
           /\ stopping' = stopping /\ closed' = closed
           /\ pool' \in SUBSET Workers
           /\ worker' \in [Workers -> Slot]
           /\ HandsFull'
           /\ \A w \in Workers : worker'[w].item = worker[w].item
<1>1. worker \in [Workers -> Slot] /\ started \in BOOLEAN /\ pool \in SUBSET Workers
  BY DEF TypeOK
<1>2. CASE UNCHANGED <<phase, worker>>
  BY <1>1, <1>2 DEF phase, HandsFull
<1>3. CASE NeedsWorkers
  <2>1. PICK fresh \in SUBSET (Workers \ Live) :
            /\ pool' = fresh
            /\ worker' = [w \in Workers |-> IF w \in fresh THEN Waiting ELSE worker[w]]
    BY <1>3 DEF EnsureStarted
  <2>2. Waiting \in Slot /\ Waiting.item = NONE /\ Waiting.at # "runtime"
    BY DEF Waiting, Slot
  <2>3. \A w \in fresh : worker[w].item = NONE
    BY <1>1 DEF Live, HandsFull
  <2>4. started' \in BOOLEAN /\ stopping' = stopping /\ closed' = closed
    BY <1>3 DEF EnsureStarted
  <2> QED
    BY <1>1, <2>1, <2>2, <2>3, <2>4 DEF HandsFull
<1> QED
  BY <1>2, <1>3 DEF EnsureStarted

\* What is carried has its run, its job and its key's record.
LEMMA CarriedTyped ==
    ASSUME Bookkeeping, NEW i \in Carried
    PROVE  /\ i \in Item
           /\ i.run \in Runs
           /\ i.fut \in 1 .. MaxSubmissions
           /\ i.key \in Keys \cup {NONE}
           /\ stored[i.run] \in Stored
           /\ jobs[i.run] \in Job
           /\ i.key \in Keys => ledger[i.key] \in Record
<1>1. /\ TypeOK /\ Known /\ CarriedKnown /\ OneRunPerKey
      /\ jobs \in [Runs -> Job \cup {NONE}]
      /\ stored \in [Runs -> Stored \cup {NONE}]
      /\ ledger \in [Keys -> Record \cup {NONE}]
  BY DEF Bookkeeping, TypeOK
<1>2. /\ i \in Item
      /\ i.run \in Runs
      /\ i.fut \in 1 .. MaxSubmissions
      /\ i.key \in Keys \cup {NONE}
  BY <1>1, CarriedItems DEF Carried, Item
<1>3. stored[i.run] # NONE /\ jobs[i.run] # NONE
  BY <1>1, <1>2 DEF CarriedKnown, Known
<1>4. ASSUME i.key \in Keys PROVE ledger[i.key] \in Record
  <2>1. ledger[i.key] = [fut |-> i.fut, completed |-> FALSE]
    BY <1>1, <1>4 DEF OneRunPerKey, Carried
  <2>2. [fut |-> i.fut, completed |-> FALSE] \in Record
    BY <1>2 DEF Record
  <2> QED
    BY <2>1, <2>2
<1> QED
  BY <1>1, <1>2, <1>3, <1>4

\* Settling items leaves the types, and touches the runs and keys of those only.
LEMMA FinalizeKeeps ==
    ASSUME Bookkeeping, NEW items \in SUBSET Carried, Finalize(items)
    PROVE  /\ jobs' \in [Runs -> Job \cup {NONE}]
           /\ cancelled' \in SUBSET Runs
           /\ stored' \in [Runs -> Stored \cup {NONE}]
           /\ answered' \in SUBSET (1 .. MaxSubmissions)
           /\ ledger' \in [Keys -> Record \cup {NONE}]
           /\ \A r \in Runs : stored[r] # NONE => stored'[r] # NONE /\ jobs'[r] # NONE
           /\ \A r \in Runs : stored'[r] # NONE => stored[r] # NONE
           /\ \A k \in Keys : (\A i \in items : i.key # k) => ledger'[k] = ledger[k]
<1>1. /\ TypeOK /\ Known /\ CarriedKnown /\ OneRunPerKey
      /\ jobs \in [Runs -> Job \cup {NONE}]
      /\ stored \in [Runs -> Stored \cup {NONE}]
      /\ ledger \in [Keys -> Record \cup {NONE}]
      /\ cancelled \in SUBSET Runs
      /\ answered \in SUBSET (1 .. MaxSubmissions)
  BY DEF Bookkeeping, TypeOK
<1>2. \A i \in items : /\ i \in Item
                       /\ i.run \in Runs
                       /\ i.fut \in 1 .. MaxSubmissions
                       /\ stored[i.run] \in Stored
                       /\ jobs[i.run] \in Job
                       /\ i.key \in Keys => ledger[i.key] \in Record
  BY CarriedTyped
<1> DEFINE ended == {i.run : i \in items}
<1>3. ended \subseteq Runs /\ \A r \in ended : stored[r] \in Stored /\ jobs[r] \in Job
  BY <1>2
<1>4. /\ jobs' = [r \in Runs |-> IF r \in ended
                                 THEN [jobs[r] EXCEPT !.status = "cancelled"] ELSE jobs[r]]
      /\ stored' = [r \in Runs |-> IF r \in ended
                                 THEN [stored[r] EXCEPT !.status = "cancelled"] ELSE stored[r]]
      /\ cancelled' = cancelled \cup ended
      /\ answered' = answered \cup {i.fut : i \in items}
      /\ Complete(items)
  BY DEF Finalize
<1>5. answered' \in SUBSET (1 .. MaxSubmissions)
  BY <1>1, <1>2, <1>4
<1> HIDE DEF ended
<1>6. /\ \A j \in Job : [j EXCEPT !.status = "cancelled"] \in Job
      /\ \A t \in Stored : [t EXCEPT !.status = "cancelled"] \in Stored
      /\ \A c \in Record : [c EXCEPT !.completed = TRUE] \in Record
  BY DEF Job, JobStatus, Stored, StoredStatus, Record
<1>7. jobs' \in [Runs -> Job \cup {NONE}] /\ stored' \in [Runs -> Stored \cup {NONE}]
  BY <1>1, <1>3, <1>4, <1>6
<1>8. \A r \in Runs : stored[r] # NONE => stored'[r] # NONE /\ jobs'[r] # NONE
  BY <1>1, <1>3, <1>4, <1>6, NoneAssumption DEF Known
<1>9. \A r \in Runs : stored'[r] # NONE => stored[r] # NONE
  BY <1>1, <1>3, <1>4, NoneAssumption
<1>10. ledger' \in [Keys -> Record \cup {NONE}]
  BY <1>1, <1>2, <1>4, <1>6 DEF Complete
<1>11. \A k \in Keys : (\A i \in items : i.key # k) => ledger'[k] = ledger[k]
  BY <1>4 DEF Complete
<1> QED
  BY <1>1, <1>3, <1>4, <1>5, <1>7, <1>8, <1>9, <1>10, <1>11

\* What stays carried keeps its open record, if the steps that complete or
\* release a key do it for an item that is no longer carried.
LEMMA RecordsKept ==
    ASSUME Bookkeeping, Carried' \subseteq Carried,
           \A j \in Carried' :
              j.key \in Keys => \/ ledger'[j.key] = ledger[j.key]
                                \/ \E i \in Carried : i.key = j.key /\ i.fut # j.fut
    PROVE  OneRunPerKey'
<1>1. SUFFICES ASSUME NEW j \in Carried', j.key \in Keys
               PROVE  ledger'[j.key] = [fut |-> j.fut, completed |-> FALSE]
  BY DEF OneRunPerKey, Carried
<1>2. ledger[j.key] = [fut |-> j.fut, completed |-> FALSE]
  BY <1>1 DEF Bookkeeping, OneRunPerKey, Carried
<1>3. ASSUME NEW i \in Carried, i.key = j.key PROVE i.fut = j.fut
  <2>1. ledger[j.key] = [fut |-> i.fut, completed |-> FALSE]
    BY <1>1, <1>3 DEF Bookkeeping, OneRunPerKey, Carried
  <2>2. ledger[j.key].fut = i.fut /\ ledger[j.key].fut = j.fut
    BY <1>2, <2>1
  <2> QED
    BY <2>2
<1> QED
  BY <1>1, <1>2, <1>3

-----------------------------------------------------------------------------
(* The steps keep the books.                                               *)

\* An accepted run brings a new submission, a new stored run and, with a key,
\* the first record of it.
LEMMA AcceptRunKeeps ==
    ASSUME Bookkeeping, NEW r \in Runs, NEW k \in Keys \cup {NONE}, AcceptRun(r, k)
    PROVE  Bookkeeping'
<1>1. /\ TypeOK /\ HandsFull /\ Known /\ CarriedKnown /\ OneRunPerKey
      /\ submissions \in 0 .. MaxSubmissions
      /\ MaxSubmissions \in Nat
      /\ MaxQueue \in Nat
  BY SizesAssumption DEF Bookkeeping, TypeOK
<1>2. EnsureStarted
  BY DEF AcceptRun
<1>3. /\ started' \in BOOLEAN
      /\ stopping' = stopping /\ closed' = closed
      /\ pool' \in SUBSET Workers
      /\ worker' \in [Workers -> Slot]
      /\ HandsFull'
      /\ \A w \in Workers : worker'[w].item = worker[w].item
  BY <1>1, <1>2, StartKeeps
<1> DEFINE i == [run |-> r, kind |-> "run", fut |-> submissions + 1, key |-> k]
<1>4. /\ submissions < MaxSubmissions
      /\ submissions' = submissions + 1
      /\ futures' = [futures EXCEPT ![r] = submissions + 1]
      /\ queue' = Append(queue, i)
  BY DEF AcceptRun, Enqueue
<1>5. /\ i \in Item
      /\ i.run = r /\ i.key = k /\ i.fut = submissions + 1
  BY <1>1, <1>4 DEF Item
<1> HIDE DEF i
<1>6. /\ queue' \in Seq(Item \cup {NONE})
      /\ Len(queue') = Len(queue) + 1
      /\ Apart'
      /\ Queued' = Queued \cup {i}
      /\ InHand' = InHand
  BY <1>3, <1>4, <1>5, ItemJoins
<1>7. /\ stored[r] = NONE
      /\ k \in Keys => ledger[k] = NONE
      /\ ledger' = IF k \in Keys THEN Claim(k, submissions + 1) ELSE ledger
      /\ stored' = [stored EXCEPT ![r] = [status |-> "idle", requires_human |-> FALSE]]
      /\ jobs' = [jobs EXCEPT ![r] = [status |-> "queued", error |-> FALSE]]
      /\ UNCHANGED <<cancelled, active, answered, raced>>
  BY DEF AcceptRun
<1>8. TypeOK'
  <2>1. Len(queue') <= MaxQueue
    <3>1. Len(queue) < MaxQueue
      <4>1. Len(queue) \in Nat
        BY <1>1, LenProperties DEF TypeOK
      <4> QED
        BY <1>1, <4>1 DEF AcceptRun, Full
    <3>2. Len(queue) \in Nat
      BY <1>1, LenProperties DEF TypeOK
    <3> QED
      BY <1>1, <1>6, <3>1, <3>2
  <2>2. /\ submissions' \in 0 .. MaxSubmissions
        /\ futures' \in [Runs -> 0 .. MaxSubmissions]
    BY <1>1, <1>4 DEF TypeOK
  <2>3. jobs' \in [Runs -> Job \cup {NONE}]
    BY <1>1, <1>7 DEF TypeOK, Job, JobStatus
  <2>4. stored' \in [Runs -> Stored \cup {NONE}]
    BY <1>1, <1>7 DEF TypeOK, Stored, StoredStatus
  <2>5. ledger' \in [Keys -> Record \cup {NONE}]
    BY <1>1, <1>4, <1>7 DEF TypeOK, Claim, Record
  <2> QED
    BY <1>1, <1>3, <1>6, <1>7, <2>1, <2>2, <2>3, <2>4, <2>5 DEF TypeOK
<1>9. Known'
  <2>1. [status |-> "queued", error |-> FALSE] # NONE
    <3>1. [status |-> "queued", error |-> FALSE] \in Job
      BY DEF Job, JobStatus
    <3> QED
      BY <3>1, NoneAssumption
  <2> QED
    BY <1>1, <1>4, <1>7, <2>1 DEF Known, TypeOK
<1>10. CarriedKnown'
  <2>1. [status |-> "idle", requires_human |-> FALSE] # NONE
    <3>1. [status |-> "idle", requires_human |-> FALSE] \in Stored
      BY DEF Stored, StoredStatus
    <3> QED
      BY <3>1, NoneAssumption
  <2>2. \A j \in Carried : j.run \in Runs
    BY CarriedTyped
  <2>3. \A x \in Runs : stored[x] # NONE => stored'[x] # NONE
    BY <1>1, <1>7, <2>1 DEF TypeOK
  <2>4. stored'[r] # NONE
    BY <1>1, <1>7, <2>1 DEF TypeOK
  <2> QED
    BY <1>1, <1>4, <1>5, <1>6, <2>2, <2>3, <2>4 DEF CarriedKnown, Carried
<1>11. OneRunPerKey'
  <2>1. ASSUME NEW j \in Carried, j.key \in Keys
        PROVE  ledger'[j.key] = [fut |-> j.fut, completed |-> FALSE]
    <3>1. ledger[j.key] \in Record
      BY <2>1, CarriedTyped
    <3>2. k \in Keys => j.key # k
      BY <1>7, <3>1, NoneAssumption
    <3>3. ledger'[j.key] = ledger[j.key]
      BY <1>1, <1>7, <2>1, <3>2 DEF TypeOK, Claim
    <3> QED
      BY <1>1, <2>1, <3>3 DEF OneRunPerKey, Carried
  <2>2. k \in Keys => ledger'[k] = [fut |-> i.fut, completed |-> FALSE]
    BY <1>1, <1>5, <1>7 DEF TypeOK, Claim
  <2> QED
    BY <1>5, <1>6, <2>1, <2>2 DEF OneRunPerKey, Carried
<1> QED
  BY <1>3, <1>6, <1>8, <1>9, <1>10, <1>11 DEF Bookkeeping

\* A decision brings a new submission of a stored run, without a key.
LEMMA SubmitResumeKeeps ==
    ASSUME Bookkeeping, NEW r \in Runs, SubmitResume(r)
    PROVE  Bookkeeping'
<1>1. /\ TypeOK /\ HandsFull /\ Known /\ CarriedKnown /\ OneRunPerKey
      /\ submissions \in 0 .. MaxSubmissions
      /\ MaxSubmissions \in Nat
      /\ MaxQueue \in Nat
  BY SizesAssumption DEF Bookkeeping, TypeOK
<1>2. EnsureStarted
  BY DEF SubmitResume
<1>3. /\ started' \in BOOLEAN
      /\ stopping' = stopping /\ closed' = closed
      /\ pool' \in SUBSET Workers
      /\ worker' \in [Workers -> Slot]
      /\ HandsFull'
      /\ \A w \in Workers : worker'[w].item = worker[w].item
  BY <1>1, <1>2, StartKeeps
<1> DEFINE i == [run |-> r, kind |-> "resume", fut |-> submissions + 1, key |-> NONE]
<1>4. /\ submissions < MaxSubmissions
      /\ submissions' = submissions + 1
      /\ futures' = [futures EXCEPT ![r] = submissions + 1]
      /\ queue' = Append(queue, i)
  BY DEF SubmitResume, Enqueue
<1>5. /\ i \in Item
      /\ i.run = r /\ i.key = NONE /\ i.fut = submissions + 1
  BY <1>1, <1>4 DEF Item
<1> HIDE DEF i
<1>6. /\ queue' \in Seq(Item \cup {NONE})
      /\ Len(queue') = Len(queue) + 1
      /\ Apart'
      /\ Queued' = Queued \cup {i}
      /\ InHand' = InHand
  BY <1>3, <1>4, <1>5, ItemJoins
<1>7. /\ stored[r] # NONE /\ jobs[r] # NONE
      /\ jobs' = [jobs EXCEPT ![r].status = "queued"]
      /\ cancelled' = cancelled \ {r}
      /\ UNCHANGED <<active, answered, ledger, stored>>
      /\ raced' \in {raced, raced \cup {r}}
  BY <1>1 DEF SubmitResume, Resumable, Known
<1>8. jobs' \in [Runs -> Job \cup {NONE}] /\ \A x \in Runs : jobs[x] # NONE => jobs'[x] # NONE
  <2>1. jobs \in [Runs -> Job \cup {NONE}] /\ jobs[r] \in Job
    BY <1>1, <1>7 DEF TypeOK
  <2>2. [jobs[r] EXCEPT !.status = "queued"] \in Job
    BY <2>1 DEF Job, JobStatus
  <2> QED
    BY <1>7, <2>1, <2>2, NoneAssumption
<1>9. TypeOK'
  <2>1. Len(queue') <= MaxQueue
    <3>1. Len(queue) \in Nat
      BY <1>1, LenProperties DEF TypeOK
    <3> QED
      BY <1>1, <1>6, <3>1 DEF SubmitResume, Full
  <2>2. /\ submissions' \in 0 .. MaxSubmissions
        /\ futures' \in [Runs -> 0 .. MaxSubmissions]
    BY <1>1, <1>4 DEF TypeOK
  <2> QED
    BY <1>1, <1>3, <1>6, <1>7, <1>8, <2>1, <2>2 DEF TypeOK
<1>10. Known'
  BY <1>1, <1>4, <1>7, <1>8 DEF Known, TypeOK
<1>11. CarriedKnown'
  BY <1>1, <1>4, <1>5, <1>6, <1>7 DEF CarriedKnown, Carried
<1>12. OneRunPerKey'
  BY <1>1, <1>5, <1>6, <1>7, NoneAssumption DEF OneRunPerKey
<1> QED
  BY <1>3, <1>6, <1>9, <1>10, <1>11, <1>12 DEF Bookkeeping

\* A rejected run leaves the record of a key that nobody carries.
LEMMA RejectRunKeeps ==
    ASSUME Bookkeeping, NEW k \in Keys, RejectRun(k)
    PROVE  Bookkeeping'
<1>1. TypeOK /\ HandsFull /\ Known /\ CarriedKnown /\ OneRunPerKey
  BY DEF Bookkeeping
<1>2. /\ started' \in BOOLEAN
      /\ stopping' = stopping /\ closed' = closed
      /\ pool' \in SUBSET Workers
      /\ worker' \in [Workers -> Slot]
      /\ HandsFull'
      /\ \A w \in Workers : worker'[w].item = worker[w].item
  BY <1>1, StartKeeps DEF RejectRun
<1>3. /\ ledger[k] = NONE
      /\ ledger' = Claim(k, 0)
      /\ UNCHANGED <<queue, jobs, cancelled, active, futures, submissions, raced,
                     answered, stored>>
  BY DEF RejectRun, intake
<1>4. Apart' /\ Queued' = Queued /\ InHand' = InHand
  BY <1>2, <1>3, NothingMoves
<1>5. TypeOK'
  <2>1. ledger' \in [Keys -> Record \cup {NONE}]
    BY <1>1, <1>3, SizesAssumption DEF TypeOK, Claim, Record
  <2> QED
    BY <1>1, <1>2, <1>3, <2>1 DEF TypeOK
<1>6. Known'
  BY <1>1, <1>3 DEF Known
<1>7. CarriedKnown'
  BY <1>1, <1>3, <1>4 DEF CarriedKnown, Carried
<1>8. OneRunPerKey'
  <2>1. ASSUME NEW j \in Carried, j.key \in Keys
        PROVE  ledger'[j.key] = ledger[j.key]
    <3>1. ledger[j.key] \in Record
      BY <2>1, CarriedTyped
    <3>2. j.key # k
      BY <1>3, <3>1, NoneAssumption
    <3> QED
      BY <1>1, <1>3, <2>1, <3>2 DEF TypeOK, Claim
  <2> QED
    BY <1>1, <1>4, <2>1 DEF OneRunPerKey, Carried
<1> QED
  BY <1>2, <1>4, <1>5, <1>6, <1>7, <1>8 DEF Bookkeeping

\* A call that submits nothing may start the pool only.
LEMMA SubmitNothingKeeps ==
    ASSUME Bookkeeping, SubmitNothing
    PROVE  Bookkeeping'
<1>1. TypeOK /\ HandsFull /\ Known /\ CarriedKnown /\ OneRunPerKey
  BY DEF Bookkeeping
<1>2. /\ started' \in BOOLEAN
      /\ stopping' = stopping /\ closed' = closed
      /\ pool' \in SUBSET Workers
      /\ worker' \in [Workers -> Slot]
      /\ HandsFull'
      /\ \A w \in Workers : worker'[w].item = worker[w].item
  BY <1>1, StartKeeps DEF SubmitNothing
<1>3. UNCHANGED <<queue, jobs, cancelled, active, futures, submissions, raced,
                  answered, ledger, stored>>
  BY DEF SubmitNothing, intake
<1>4. Apart' /\ Queued' = Queued /\ InHand' = InHand
  BY <1>2, <1>3, NothingMoves
<1>5. TypeOK'
  BY <1>1, <1>2, <1>3 DEF TypeOK
<1>6. Known' /\ CarriedKnown' /\ OneRunPerKey'
  BY <1>1, <1>3, <1>4 DEF Known, CarriedKnown, OneRunPerKey, Carried
<1> QED
  BY <1>2, <1>4, <1>5, <1>6 DEF Bookkeeping

\* A cancellation moves no item: the worker or the store is told.
LEMMA CancelKeeps ==
    ASSUME Bookkeeping, NEW r \in Runs, Cancel(r)
    PROVE  Bookkeeping'
<1>1. /\ TypeOK /\ HandsFull /\ Known /\ CarriedKnown /\ OneRunPerKey
      /\ worker \in [Workers -> Slot]
      /\ stored \in [Runs -> Stored \cup {NONE}]
      /\ jobs \in [Runs -> Job \cup {NONE}]
      /\ active \in [Runs -> Workers \cup {NONE}]
  BY DEF Bookkeeping, TypeOK
<1>2. /\ stored[r] \in Stored /\ jobs[r] \in Job
      /\ cancelled' = cancelled \cup {r}
      /\ UNCHANGED <<started, stopping, closed, pool, queue, active, futures,
                     submissions, raced, ledger>>
  BY <1>1 DEF Cancel, Known, phase, intake
<1>3. /\ worker' \in [Workers -> Slot]
      /\ \A w \in Workers : /\ worker'[w].item = worker[w].item
                            /\ worker'[w].at = worker[w].at
  <2>1. CASE worker' = worker
    BY <1>1, <2>1
  <2>2. CASE active[r] # NONE /\ worker' = [worker EXCEPT ![active[r]].cancel = TRUE]
    <3>1. active[r] \in Workers
      BY <1>1, <2>2
    <3>2. /\ worker[active[r]] \in Slot
          /\ [worker[active[r]] EXCEPT !.cancel = TRUE] \in Slot
          /\ [worker[active[r]] EXCEPT !.cancel = TRUE].item = worker[active[r]].item
          /\ [worker[active[r]] EXCEPT !.cancel = TRUE].at = worker[active[r]].at
      BY <1>1, <3>1 DEF Slot
    <3> QED
      BY <1>1, <2>2, <3>1, <3>2
  <2> QED
    BY <2>1, <2>2 DEF Cancel
<1>4. /\ stored' \in [Runs -> Stored \cup {NONE}]
      /\ jobs' \in [Runs -> Job \cup {NONE}]
      /\ answered' \in SUBSET (1 .. MaxSubmissions)
      /\ \A x \in Runs : stored[x] # NONE <=> stored'[x] # NONE
      /\ \A x \in Runs : jobs[x] # NONE => jobs'[x] # NONE
  <2>1. CASE UNCHANGED <<stored, answered, jobs>>
    BY <1>1, <2>1 DEF TypeOK
  <2>2. CASE /\ stored' = [stored EXCEPT ![r].status = "cancelled"]
             /\ answered' = answered \cup {futures[r]}
             /\ jobs' = JobCancelled(r)
    <3>1. /\ [stored[r] EXCEPT !.status = "cancelled"] \in Stored
          /\ [jobs[r] EXCEPT !.status = "cancelled"] \in Job
      BY <1>2 DEF Stored, StoredStatus, Job, JobStatus
    <3>2. futures[r] \in 1 .. MaxSubmissions
      BY <1>1, <1>2, NoneAssumption, SizesAssumption DEF Known, TypeOK
    <3>3. answered' \in SUBSET (1 .. MaxSubmissions)
      BY <1>1, <2>2, <3>2 DEF TypeOK
    <3> QED
      BY <1>1, <1>2, <2>2, <3>1, <3>3, NoneAssumption DEF JobCancelled
  <2> QED
    BY <2>1, <2>2 DEF Cancel
<1>5. Apart' /\ Queued' = Queued /\ InHand' = InHand
  BY <1>2, <1>3, NothingMoves
<1>6. TypeOK'
  BY <1>1, <1>2, <1>3, <1>4 DEF TypeOK
<1>7. HandsFull'
  BY <1>1, <1>3 DEF HandsFull
<1>8. Known'
  BY <1>1, <1>2, <1>4 DEF Known
<1>9. CarriedKnown'
  <2>1. \A j \in Carried : j.run \in Runs
    BY CarriedTyped
  <2> QED
    BY <1>1, <1>2, <1>4, <1>5, <2>1 DEF CarriedKnown, Carried
<1>10. OneRunPerKey'
  BY <1>1, <1>2, <1>5 DEF OneRunPerKey
<1> QED
  BY <1>5, <1>6, <1>7, <1>8, <1>9, <1>10 DEF Bookkeeping

\* A worker moves to a slot; it is in the runtime exactly if it has an item.
LEMMA MoveKeeps ==
    ASSUME TypeOK, HandsFull, NEW w \in Workers, NEW to \in Slot, Move(w, to),
           to.at = "runtime" <=> to.item # NONE
    PROVE  /\ worker' \in [Workers -> Slot]
           /\ HandsFull'
           /\ worker'[w] = to
           /\ \A v \in Workers \ {w} : worker'[v] = worker[v]
  BY DEF TypeOK, HandsFull, Move

\* The slots a worker moves to.
LEMMA Slots ==
    /\ Gone \in Slot /\ Gone.item = NONE /\ Gone.at = "gone"
    /\ Waiting \in Slot /\ Waiting.item = NONE /\ Waiting.at = "queue"
    /\ \A i \in Item : /\ Executing(i) \in Slot
                       /\ Executing(i).item = i
                       /\ Executing(i).at = "runtime"
                       /\ i # NONE
<1>1. \A i \in Item : i # NONE
  BY NoneAssumption
<1> QED
  BY <1>1 DEF Gone, Waiting, Executing, Slot

\* A sentinel leaves the queue and the coroutine ends empty-handed.
LEMMA TakeSentinelKeeps ==
    ASSUME Bookkeeping, NEW w \in Workers, TakeSentinel(w)
    PROVE  Bookkeeping'
<1>1. TypeOK /\ HandsFull /\ Known /\ CarriedKnown /\ OneRunPerKey
  BY DEF Bookkeeping
<1>2. /\ AtQueue(w) /\ queue # <<>> /\ Head(queue) = NONE
      /\ queue' = Tail(queue)
      /\ Move(w, Gone)
      /\ UNCHANGED <<started, stopping, closed, pool, jobs, cancelled, active,
                     futures, submissions, raced, answered, ledger, stored>>
  BY DEF TakeSentinel, phase, intake
<1>3. /\ worker' \in [Workers -> Slot]
      /\ HandsFull'
      /\ worker'[w] = Gone
      /\ \A v \in Workers \ {w} : worker'[v] = worker[v]
  BY <1>1, <1>2, MoveKeeps, Slots
<1>4. \A v \in Workers : worker'[v].item = worker[v].item
  BY <1>1, <1>2, <1>3, Slots DEF AtQueue, HandsFull
<1>5. Apart' /\ Queued' \subseteq Queued /\ InHand' = InHand
  BY <1>2, <1>4, HeadLeaves
<1>6. TypeOK'
  <2>1. queue' \in Seq(Item \cup {NONE}) /\ Len(queue') = Len(queue) - 1
    BY <1>1, <1>2, QueueTail
  <2>2. Len(queue) \in Nat /\ MaxQueue \in Nat /\ Len(queue) <= MaxQueue
    BY <1>1, LenProperties, SizesAssumption DEF TypeOK
  <2>3. Len(queue') <= MaxQueue
    BY <2>1, <2>2
  <2> QED
    BY <1>1, <1>2, <1>3, <2>1, <2>3 DEF TypeOK
<1>7. Known' /\ CarriedKnown' /\ OneRunPerKey'
  BY <1>1, <1>2, <1>5 DEF Known, CarriedKnown, OneRunPerKey, Carried
<1> QED
  BY <1>3, <1>5, <1>6, <1>7 DEF Bookkeeping

\* A worker that is stopped at the queue has nothing in hand.
LEMMA StopKeeps ==
    ASSUME Bookkeeping, NEW w \in Workers, Stop(w)
    PROVE  Bookkeeping'
<1>1. TypeOK /\ HandsFull /\ Known /\ CarriedKnown /\ OneRunPerKey
  BY DEF Bookkeeping
<1>2. /\ worker[w].at = "queue"
      /\ Move(w, Gone)
      /\ UNCHANGED <<started, stopping, closed, pool, queue, jobs, cancelled, active,
                     futures, submissions, raced, answered, ledger, stored>>
  BY DEF Stop, phase, intake
<1>3. /\ worker' \in [Workers -> Slot]
      /\ HandsFull'
      /\ worker'[w] = Gone
      /\ \A v \in Workers \ {w} : worker'[v] = worker[v]
  BY <1>1, <1>2, MoveKeeps, Slots
<1>4. \A v \in Workers : worker'[v].item = worker[v].item
  BY <1>1, <1>2, <1>3, Slots DEF HandsFull
<1>5. Apart' /\ Queued' = Queued /\ InHand' = InHand
  BY <1>2, <1>4, NothingMoves
<1>6. TypeOK'
  BY <1>1, <1>2, <1>3 DEF TypeOK
<1>7. Known' /\ CarriedKnown' /\ OneRunPerKey'
  BY <1>1, <1>2, <1>5 DEF Known, CarriedKnown, OneRunPerKey, Carried
<1> QED
  BY <1>3, <1>5, <1>6, <1>7 DEF Bookkeeping

\* Taking the first entry leaves the queue within its capacity.
LEMMA TailFits ==
    ASSUME TypeOK, queue # <<>>, queue' = Tail(queue)
    PROVE  queue' \in Seq(Item \cup {NONE}) /\ Len(queue') <= MaxQueue
<1>1. queue' \in Seq(Item \cup {NONE}) /\ Len(queue') = Len(queue) - 1
  BY QueueTail
<1>2. Len(queue) \in Nat /\ MaxQueue \in Nat /\ Len(queue) <= MaxQueue
  BY LenProperties, SizesAssumption DEF TypeOK
<1> QED
  BY <1>1, <1>2

\* The item of a cancelled run leaves the queue settled.
LEMMA TakeCancelledKeeps ==
    ASSUME Bookkeeping, NEW w \in Workers, TakeCancelled(w)
    PROVE  Bookkeeping'
<1>1. TypeOK /\ HandsFull /\ Known /\ CarriedKnown
  BY DEF Bookkeeping
<1>2. /\ queue # <<>> /\ Head(queue) # NONE
      /\ queue' = Tail(queue)
      /\ Finalize({Head(queue)})
      /\ UNCHANGED <<started, stopping, closed, pool, worker, active, futures, submissions, raced>>
  BY DEF TakeCancelled, phase, intake
<1>3. /\ Apart'
      /\ Queued' \subseteq Queued
      /\ InHand' = InHand
      /\ Head(queue) \in Queued
      /\ \A j \in Carried' : j.fut # Head(queue).fut
  BY <1>2, HeadLeaves
<1>4. /\ jobs' \in [Runs -> Job \cup {NONE}]
      /\ cancelled' \in SUBSET Runs
      /\ stored' \in [Runs -> Stored \cup {NONE}]
      /\ answered' \in SUBSET (1 .. MaxSubmissions)
      /\ ledger' \in [Keys -> Record \cup {NONE}]
      /\ \A r \in Runs : stored[r] # NONE => stored'[r] # NONE /\ jobs'[r] # NONE
      /\ \A r \in Runs : stored'[r] # NONE => stored[r] # NONE
      /\ \A k \in Keys : (\A i \in {Head(queue)} : i.key # k) => ledger'[k] = ledger[k]
  <2>1. {Head(queue)} \in SUBSET Carried
    BY <1>3 DEF Carried
  <2> HIDE DEF Finalize
  <2> QED
    BY <1>2, <2>1, FinalizeKeeps
<1>5. TypeOK'
  BY <1>1, <1>2, <1>4, TailFits DEF TypeOK
<1>6. HandsFull'
  BY <1>1, <1>2 DEF HandsFull
<1>7. Known'
  BY <1>1, <1>2, <1>4 DEF Known
<1>8. Carried' \subseteq Carried
  BY <1>3 DEF Carried
<1>9. CarriedKnown'
  BY <1>1, <1>2, <1>4, <1>8, CarriedTyped DEF CarriedKnown
<1>10. OneRunPerKey'
  <2>1. Head(queue) \in Carried
    BY <1>3 DEF Carried
  <2>2. \A j \in Carried' :
           j.key \in Keys => \/ ledger'[j.key] = ledger[j.key]
                             \/ Head(queue).key = j.key /\ Head(queue).fut # j.fut
    BY <1>3, <1>4
  <2> QED
    BY <1>8, <2>1, <2>2, RecordsKept
<1> QED
  BY <1>3, <1>5, <1>6, <1>7, <1>9, <1>10 DEF Bookkeeping

\* An item goes from the queue to a worker's hand.
LEMMA TakeKeeps ==
    ASSUME Bookkeeping, NEW w \in Workers, Take(w)
    PROVE  Bookkeeping'
<1>1. TypeOK /\ HandsFull /\ Known /\ CarriedKnown /\ OneRunPerKey
  BY DEF Bookkeeping
<1> DEFINE i == Head(queue)
<1>2. /\ AtQueue(w) /\ queue # <<>> /\ i # NONE
      /\ queue' = Tail(queue)
      /\ Move(w, Executing(i))
      /\ active' = [active EXCEPT ![i.run] = w]
      /\ jobs' = [jobs EXCEPT ![i.run].status = "running"]
      /\ stored' = IF i.kind = "resume"
                   THEN [stored EXCEPT ![i.run] =
                            [status |-> "running", requires_human |-> TRUE]]
                   ELSE stored
      /\ UNCHANGED <<started, stopping, closed, pool, cancelled, futures, submissions, raced,
                     answered, ledger>>
  BY DEF Take, phase, intake
<1>3. i \in Carried
  BY <1>1, <1>2, QueueTail DEF Queued, Carried
<1>4. /\ i \in Item /\ i.run \in Runs
      /\ stored[i.run] \in Stored /\ jobs[i.run] \in Job
  BY <1>3, CarriedTyped
<1>5. /\ worker' \in [Workers -> Slot]
      /\ HandsFull'
      /\ worker'[w].item = i
      /\ \A v \in Workers \ {w} : worker'[v] = worker[v]
  BY <1>1, <1>2, <1>4, MoveKeeps, Slots
<1>6. worker[w].item = NONE
  BY <1>1, <1>2 DEF AtQueue, HandsFull
<1>7. /\ Apart'
      /\ Queued' \subseteq Queued
      /\ InHand' \subseteq InHand \cup {i}
      /\ i \in Queued
  BY <1>2, <1>5, <1>6, HeadTaken
<1> HIDE DEF i
<1>8. Carried' \subseteq Carried
  BY <1>7 DEF Carried
<1>9. /\ jobs' \in [Runs -> Job \cup {NONE}]
      /\ \A r \in Runs : jobs[r] # NONE => jobs'[r] # NONE
  <2>1. [jobs[i.run] EXCEPT !.status = "running"] \in Job
    BY <1>4 DEF Job, JobStatus
  <2> QED
    BY <1>1, <1>2, <1>4, <2>1, NoneAssumption DEF TypeOK
<1>10. /\ stored' \in [Runs -> Stored \cup {NONE}]
       /\ \A r \in Runs : stored[r] # NONE <=> stored'[r] # NONE
  <2>1. [status |-> "running", requires_human |-> TRUE] \in Stored
    BY DEF Stored, StoredStatus
  <2> QED
    BY <1>1, <1>2, <1>4, <2>1, NoneAssumption DEF TypeOK
<1>11. active' \in [Runs -> Workers \cup {NONE}]
  BY <1>1, <1>2, <1>4 DEF TypeOK
<1>12. TypeOK'
  BY <1>1, <1>2, <1>5, <1>9, <1>10, <1>11, TailFits DEF TypeOK
<1>13. Known'
  BY <1>1, <1>2, <1>9, <1>10 DEF Known
<1>14. CarriedKnown'
  BY <1>1, <1>2, <1>8, <1>10, CarriedTyped DEF CarriedKnown
<1>15. OneRunPerKey'
  BY <1>1, <1>2, <1>8 DEF OneRunPerKey, Carried
<1> QED
  BY <1>5, <1>7, <1>12, <1>13, <1>14, <1>15 DEF Bookkeeping

\* What a worker in the runtime has in hand is carried, and is given up when
\* the worker goes back to the queue.
LEMMA HandEmptied ==
    ASSUME Bookkeeping, NEW w \in Workers, worker[w].at = "runtime",
           queue' = queue, Move(w, Waiting)
    PROVE  /\ worker' \in [Workers -> Slot]
           /\ HandsFull'
           /\ Apart'
           /\ Queued' = Queued
           /\ InHand' \subseteq InHand
           /\ Carried' \subseteq Carried
           /\ Carried \subseteq Carried' \cup {worker[w].item}
           /\ worker[w].item \in InHand
           /\ worker[w].item \in Carried
           /\ \A j \in Carried' : j.fut # worker[w].item.fut
           /\ worker'[w] = Waiting
           /\ \A v \in Workers \ {w} : worker'[v] = worker[v]
<1>1. TypeOK /\ HandsFull
  BY DEF Bookkeeping
<1>2. /\ worker' \in [Workers -> Slot]
      /\ HandsFull'
      /\ worker'[w] = Waiting
      /\ \A v \in Workers \ {w} : worker'[v] = worker[v]
  BY <1>1, MoveKeeps, Slots
<1>3. worker[w].item # NONE /\ worker'[w].item = NONE
  BY <1>1, <1>2, Slots DEF HandsFull
<1>4. /\ Apart'
      /\ Queued' = Queued
      /\ InHand' \subseteq InHand
      /\ InHand \subseteq InHand' \cup {worker[w].item}
      /\ worker[w].item \in InHand
      /\ \A j \in Carried' : j.fut # worker[w].item.fut
  BY <1>2, <1>3, ItemLeaves
<1> QED
  BY <1>2, <1>4 DEF Carried

\* What the runtime returns can be stored and published.
LEMMA ResultTyped ==
    ASSUME NEW x \in Result
    PROVE  /\ x \in Stored
           /\ x.status \in {"paused_for_human", "completed", "failed"}
           /\ JobOf[x.status] \in JobStatus
<1>1. /\ [status |-> "paused_for_human", requires_human |-> TRUE] \in Stored
      /\ [status |-> "paused_for_human", requires_human |-> FALSE] \in Stored
      /\ [status |-> "completed", requires_human |-> FALSE] \in Stored
      /\ [status |-> "failed", requires_human |-> FALSE] \in Stored
      /\ [status |-> "failed", requires_human |-> TRUE] \in Stored
  BY DEF Stored, StoredStatus
<1>2. x \in Stored
  BY <1>1 DEF Result
<1>3. x.status \in {"paused_for_human", "completed", "failed"}
  <2>1. CASE x = [status |-> "paused_for_human", requires_human |-> TRUE]
    BY <2>1
  <2>2. CASE x = [status |-> "completed", requires_human |-> FALSE]
    BY <2>2
  <2>3. CASE x = [status |-> "failed", requires_human |-> FALSE]
    BY <2>3
  <2>4. CASE x = [status |-> "failed", requires_human |-> TRUE]
    BY <2>4
  <2>5. CASE x = [status |-> "paused_for_human", requires_human |-> FALSE]
    BY <2>5
  <2> QED
    BY <2>1, <2>2, <2>3, <2>4, <2>5 DEF Result
<1>4. \A s \in {"paused_for_human", "completed", "failed"} : JobOf[s] \in JobStatus
  BY DEF JobOf, JobStatus
<1> QED
  BY <1>2, <1>3, <1>4

\* The item of a run that ends leaves the hand, and its key is answered.
LEMMA FinishKeeps ==
    ASSUME Bookkeeping, NEW w \in Workers, Finish(w)
    PROVE  Bookkeeping'
<1>1. TypeOK /\ HandsFull /\ Known /\ CarriedKnown /\ OneRunPerKey
  BY DEF Bookkeeping
<1> DEFINE i == worker[w].item
<1>2. PICK result \in Result :
          /\ stored' = [stored EXCEPT ![i.run] = result]
          /\ jobs' = [jobs EXCEPT ![i.run].status = JobOf[result.status]]
          /\ answered' = answered \cup {i.fut}
          /\ Complete({i})
          /\ active' = [active EXCEPT ![i.run] = NONE]
  BY DEF Finish
<1>3. /\ worker[w].at = "runtime"
      /\ queue' = queue
      /\ Move(w, Waiting)
      /\ UNCHANGED <<started, stopping, closed, pool, cancelled, futures, submissions, raced>>
  BY DEF Finish, InRuntime, phase, intake
<1>4. /\ worker' \in [Workers -> Slot]
      /\ HandsFull'
      /\ Apart'
      /\ Carried' \subseteq Carried
      /\ i \in Carried
      /\ \A j \in Carried' : j.fut # i.fut
  BY <1>3, HandEmptied
<1>5. /\ i.run \in Runs
      /\ i.fut \in 1 .. MaxSubmissions
      /\ jobs[i.run] \in Job
      /\ i.key \in Keys => ledger[i.key] \in Record
  BY <1>4, CarriedTyped
<1> HIDE DEF i
<1>6. result \in Stored /\ JobOf[result.status] \in JobStatus
  BY ResultTyped
<1>7. /\ jobs' \in [Runs -> Job \cup {NONE}]
      /\ \A r \in Runs : jobs[r] # NONE => jobs'[r] # NONE
  <2>1. [jobs[i.run] EXCEPT !.status = JobOf[result.status]] \in Job
    BY <1>5, <1>6 DEF Job
  <2> QED
    BY <1>1, <1>2, <1>5, <2>1, NoneAssumption DEF TypeOK
<1>8. /\ stored' \in [Runs -> Stored \cup {NONE}]
      /\ \A r \in Runs : stored[r] # NONE => stored'[r] # NONE
      /\ \A r \in Runs : r # i.run => stored'[r] = stored[r]
  BY <1>1, <1>2, <1>5, <1>6, NoneAssumption DEF TypeOK
<1>9. /\ ledger' \in [Keys -> Record \cup {NONE}]
      /\ \A k \in Keys : i.key # k => ledger'[k] = ledger[k]
  <2>1. \A c \in Record : [c EXCEPT !.completed = TRUE] \in Record
    BY DEF Record
  <2> QED
    BY <1>1, <1>2, <1>5, <2>1 DEF TypeOK, Complete
<1>10. /\ active' \in [Runs -> Workers \cup {NONE}]
       /\ answered' \in SUBSET (1 .. MaxSubmissions)
  BY <1>1, <1>2, <1>5 DEF TypeOK
<1>11. TypeOK'
  BY <1>1, <1>3, <1>4, <1>7, <1>8, <1>9, <1>10 DEF TypeOK
<1>12. Known'
  <2>1. stored[i.run] # NONE
    BY <1>1, <1>4 DEF CarriedKnown
  <2> QED
    BY <1>1, <1>3, <1>5, <1>7, <1>8, <2>1 DEF Known
<1>13. CarriedKnown'
  BY <1>1, <1>3, <1>4, <1>8, CarriedTyped DEF CarriedKnown
<1>14. OneRunPerKey'
  BY <1>4, <1>9, RecordsKept
<1> QED
  BY <1>4, <1>11, <1>12, <1>13, <1>14 DEF Bookkeeping

\* The item of a run that raises leaves the hand, and its key is released.
LEMMA RaiseKeeps ==
    ASSUME Bookkeeping, NEW w \in Workers, Raise(w)
    PROVE  Bookkeeping'
<1>1. TypeOK /\ HandsFull /\ Known /\ CarriedKnown /\ OneRunPerKey
  BY DEF Bookkeeping
<1> DEFINE i == worker[w].item
<1>2. /\ jobs' = [jobs EXCEPT ![i.run] = [status |-> "failed", error |-> TRUE]]
      /\ answered' = answered \cup {i.fut}
      /\ ledger' = [k \in Keys |-> IF k = i.key THEN NONE ELSE ledger[k]]
      /\ active' = [active EXCEPT ![i.run] = NONE]
      /\ worker[w].at = "runtime"
      /\ queue' = queue
      /\ Move(w, Waiting)
      /\ UNCHANGED <<started, stopping, closed, pool, cancelled, futures, submissions, raced, stored>>
  BY DEF Raise, InRuntime, phase, intake
<1>3. /\ worker' \in [Workers -> Slot]
      /\ HandsFull'
      /\ Apart'
      /\ Carried' \subseteq Carried
      /\ i \in Carried
      /\ \A j \in Carried' : j.fut # i.fut
  BY <1>2, HandEmptied
<1>4. i.run \in Runs /\ i.fut \in 1 .. MaxSubmissions
  BY <1>3, CarriedTyped
<1> HIDE DEF i
<1>5. /\ jobs' \in [Runs -> Job \cup {NONE}]
      /\ \A r \in Runs : jobs[r] # NONE => jobs'[r] # NONE
  <2>1. [status |-> "failed", error |-> TRUE] \in Job
    BY DEF Job, JobStatus
  <2> QED
    BY <1>1, <1>2, <1>4, <2>1, NoneAssumption DEF TypeOK
<1>6. /\ active' \in [Runs -> Workers \cup {NONE}]
      /\ answered' \in SUBSET (1 .. MaxSubmissions)
      /\ ledger' \in [Keys -> Record \cup {NONE}]
      /\ \A k \in Keys : i.key # k => ledger'[k] = ledger[k]
  BY <1>1, <1>2, <1>4 DEF TypeOK
<1>7. TypeOK'
  BY <1>1, <1>2, <1>3, <1>5, <1>6 DEF TypeOK
<1>8. Known'
  BY <1>1, <1>2, <1>5 DEF Known
<1>9. CarriedKnown'
  BY <1>1, <1>2, <1>3 DEF CarriedKnown
<1>10. OneRunPerKey'
  BY <1>3, <1>6, RecordsKept
<1> QED
  BY <1>3, <1>7, <1>8, <1>9, <1>10 DEF Bookkeeping

\* The item of a run cancelled in the runtime leaves the hand settled.
LEMMA CancelledKeeps ==
    ASSUME Bookkeeping, NEW w \in Workers, Cancelled(w)
    PROVE  Bookkeeping'
<1>1. TypeOK /\ HandsFull /\ Known /\ CarriedKnown
  BY DEF Bookkeeping
<1> DEFINE i == worker[w].item
<1>2. /\ Finalize({i})
      /\ active' = [active EXCEPT ![i.run] = NONE]
      /\ worker[w].at = "runtime"
      /\ queue' = queue
      /\ Move(w, Waiting)
      /\ UNCHANGED <<started, stopping, closed, pool, futures, submissions, raced>>
  BY DEF Cancelled, phase, intake
<1>3. /\ worker' \in [Workers -> Slot]
      /\ HandsFull'
      /\ Apart'
      /\ Carried' \subseteq Carried
      /\ i \in Carried
      /\ \A j \in Carried' : j.fut # i.fut
  BY <1>2, HandEmptied
<1>4. i.run \in Runs
  BY <1>3, CarriedTyped
<1> HIDE DEF i
<1>5. /\ jobs' \in [Runs -> Job \cup {NONE}]
      /\ cancelled' \in SUBSET Runs
      /\ stored' \in [Runs -> Stored \cup {NONE}]
      /\ answered' \in SUBSET (1 .. MaxSubmissions)
      /\ ledger' \in [Keys -> Record \cup {NONE}]
      /\ \A r \in Runs : stored[r] # NONE => stored'[r] # NONE /\ jobs'[r] # NONE
      /\ \A r \in Runs : stored'[r] # NONE => stored[r] # NONE
      /\ \A k \in Keys : (\A j \in {i} : j.key # k) => ledger'[k] = ledger[k]
  <2>1. {i} \in SUBSET Carried
    BY <1>3
  <2> HIDE DEF Finalize
  <2> QED
    BY <1>2, <2>1, FinalizeKeeps
<1>6. active' \in [Runs -> Workers \cup {NONE}]
  BY <1>1, <1>2, <1>4 DEF TypeOK
<1>7. TypeOK'
  BY <1>1, <1>2, <1>3, <1>5, <1>6 DEF TypeOK
<1>8. Known'
  BY <1>1, <1>2, <1>5 DEF Known
<1>9. CarriedKnown'
  BY <1>1, <1>2, <1>3, <1>5, CarriedTyped DEF CarriedKnown
<1>10. OneRunPerKey'
  <2>1. \A j \in Carried' :
           j.key \in Keys => \/ ledger'[j.key] = ledger[j.key]
                             \/ i.key = j.key /\ i.fut # j.fut
    BY <1>3, <1>5
  <2> QED
    BY <1>3, <2>1, RecordsKept
<1> QED
  BY <1>3, <1>7, <1>8, <1>9, <1>10 DEF Bookkeeping

\* A shutdown settles what is queued and leaves what is in hand.
LEMMA DrainKeeps ==
    ASSUME Bookkeeping, Drain
    PROVE  Bookkeeping'
<1>1. TypeOK /\ HandsFull /\ Known /\ CarriedKnown
  BY DEF Bookkeeping
<1>2. /\ stopping' = "waiting"
      /\ queue' = <<>>
      /\ Finalize(Queued)
      /\ UNCHANGED <<started, closed, pool, worker, active, futures, submissions, raced>>
  BY DEF Drain, Drained, intake
<1>3. /\ Apart'
      /\ Queued' = {}
      /\ InHand' = InHand
      /\ \A i \in Queued, j \in InHand : j.fut # i.fut
  BY <1>2, QueueEmptied
<1>4. /\ jobs' \in [Runs -> Job \cup {NONE}]
      /\ cancelled' \in SUBSET Runs
      /\ stored' \in [Runs -> Stored \cup {NONE}]
      /\ answered' \in SUBSET (1 .. MaxSubmissions)
      /\ ledger' \in [Keys -> Record \cup {NONE}]
      /\ \A r \in Runs : stored[r] # NONE => stored'[r] # NONE /\ jobs'[r] # NONE
      /\ \A r \in Runs : stored'[r] # NONE => stored[r] # NONE
      /\ \A k \in Keys : (\A i \in Queued : i.key # k) => ledger'[k] = ledger[k]
  <2>1. Queued \in SUBSET Carried
    BY DEF Carried
  <2> HIDE DEF Finalize
  <2> QED
    BY <1>2, <2>1, FinalizeKeeps
<1>5. TypeOK'
  <2>1. queue' \in Seq(Item \cup {NONE}) /\ Len(queue') <= MaxQueue
    BY <1>2, SizesAssumption
  <2> QED
    BY <1>1, <1>2, <1>4, <2>1 DEF TypeOK
<1>6. HandsFull'
  BY <1>1, <1>2 DEF HandsFull
<1>7. Known'
  BY <1>1, <1>2, <1>4 DEF Known
<1>8. Carried' \subseteq Carried
  BY <1>3 DEF Carried
<1>9. CarriedKnown'
  BY <1>1, <1>2, <1>4, <1>8, CarriedTyped DEF CarriedKnown
<1>10. OneRunPerKey'
  <2>1. ASSUME NEW j \in Carried', j.key \in Keys
        PROVE  \/ ledger'[j.key] = ledger[j.key]
               \/ \E i \in Carried : i.key = j.key /\ i.fut # j.fut
    <3>1. j \in InHand
      BY <1>3, <2>1 DEF Carried
    <3>2. CASE \E i \in Queued : i.key = j.key
      BY <1>3, <3>1, <3>2 DEF Carried
    <3>3. CASE \A i \in Queued : i.key # j.key
      BY <1>4, <2>1, <3>3
    <3> QED
      BY <3>2, <3>3
  <2> QED
    BY <1>8, <2>1, RecordsKept
<1> QED
  BY <1>3, <1>5, <1>6, <1>7, <1>9, <1>10 DEF Bookkeeping

\* A shutdown tells the workers to stop and moves no item.
LEMMA CancelWorkersKeeps ==
    ASSUME Bookkeeping, CancelWorkers
    PROVE  Bookkeeping'
<1>1. /\ TypeOK /\ HandsFull /\ Known /\ CarriedKnown /\ OneRunPerKey
      /\ worker \in [Workers -> Slot]
  BY DEF Bookkeeping, TypeOK
<1>2. /\ queue' \in Seq(Item \cup {NONE})
      /\ Len(queue') <= MaxQueue
      /\ Apart'
      /\ Queued' = Queued
      /\ InHand' = InHand
  BY SentinelsJoin
<1>3. /\ stopping' = "gathering"
      /\ UNCHANGED <<started, closed, pool, jobs, cancelled, active, futures,
                     submissions, raced, answered, ledger, stored>>
  BY DEF CancelWorkers, intake
<1>4. /\ worker' \in [Workers -> Slot]
      /\ \A w \in Workers : /\ worker'[w].item = worker[w].item
                            /\ worker'[w].at = worker[w].at
  <2>1. \A x \in Slot : /\ [x EXCEPT !.cancel = TRUE] \in Slot
                        /\ [x EXCEPT !.cancel = TRUE].item = x.item
                        /\ [x EXCEPT !.cancel = TRUE].at = x.at
    BY DEF Slot
  <2> QED
    BY <1>1, <2>1 DEF CancelWorkers
<1>5. TypeOK'
  BY <1>1, <1>2, <1>3, <1>4 DEF TypeOK
<1>6. HandsFull'
  BY <1>1, <1>4 DEF HandsFull
<1>7. Known' /\ CarriedKnown' /\ OneRunPerKey'
  BY <1>1, <1>2, <1>3 DEF Known, CarriedKnown, OneRunPerKey, Carried
<1> QED
  BY <1>2, <1>5, <1>6, <1>7 DEF Bookkeeping

\* The end of a shutdown forgets the pool and moves no item.
LEMMA EndShutdownKeeps ==
    ASSUME Bookkeeping, EndShutdown
    PROVE  Bookkeeping'
<1>1. TypeOK /\ HandsFull /\ Known /\ CarriedKnown /\ OneRunPerKey
  BY DEF Bookkeeping
<1>2. /\ started' = FALSE /\ stopping' = "no" /\ closed' = TRUE /\ pool' = {}
      /\ active' = [r \in Runs |-> NONE]
      /\ UNCHANGED <<worker, queue, jobs, cancelled, futures, submissions, raced, answered,
                     ledger, stored>>
  BY DEF EndShutdown, intake
<1>3. Apart' /\ Queued' = Queued /\ InHand' = InHand
  BY <1>2, NothingMoves
<1>4. TypeOK'
  BY <1>1, <1>2 DEF TypeOK
<1>5. HandsFull' /\ Known' /\ CarriedKnown' /\ OneRunPerKey'
  BY <1>1, <1>2, <1>3 DEF HandsFull, Known, CarriedKnown, OneRunPerKey, Carried
<1> QED
  BY <1>3, <1>4, <1>5 DEF Bookkeeping

\* The books are in order at the start.
LEMMA BookkeepingInit == Init => Bookkeeping
<1>1. SUFFICES ASSUME Init PROVE Bookkeeping
  OBVIOUS
<1>2. Queued = {} /\ InHand = {}
  BY <1>1, Slots DEF Init, Queued, InHand
<1>3. TypeOK
  <2>1. queue \in Seq(Item \cup {NONE}) /\ Len(queue) = 0 /\ 0 <= MaxQueue
    BY <1>1, SizesAssumption DEF Init
  <2>2. worker \in [Workers -> Slot]
    BY <1>1, Slots DEF Init
  <2>3. submissions \in 0 .. MaxSubmissions /\ futures \in [Runs -> 0 .. MaxSubmissions]
    BY <1>1, SizesAssumption DEF Init
  <2> QED
    BY <1>1, <2>1, <2>2, <2>3 DEF Init, TypeOK
<1>4. HandsFull
  BY <1>1, Slots DEF Init, HandsFull
<1>5. Known /\ CarriedKnown /\ OneRunPerKey
  BY <1>1, <1>2 DEF Init, Known, CarriedKnown, OneRunPerKey, Carried
<1>6. Apart
  BY <1>1, Slots DEF Init, Apart
<1> QED
  BY <1>3, <1>4, <1>5, <1>6 DEF Bookkeeping

\* Every step, in every environment, keeps the books in order.
LEMMA BookkeepingNext == Bookkeeping /\ [Next]_vars => Bookkeeping'
<1> SUFFICES ASSUME Bookkeeping, [Next]_vars PROVE Bookkeeping'
  OBVIOUS
<1>1. ASSUME NEW r \in Runs, NEW k \in Keys \cup {NONE}, AcceptRun(r, k)
      PROVE  Bookkeeping'
  BY <1>1, AcceptRunKeeps
<1>2. ASSUME NEW r \in Runs, SubmitResume(r) PROVE Bookkeeping'
  BY <1>2, SubmitResumeKeeps
<1>3. ASSUME NEW r \in Runs, Cancel(r) PROVE Bookkeeping'
  BY <1>3, CancelKeeps
<1>4. ASSUME NEW k \in Keys, RejectRun(k) PROVE Bookkeeping'
  BY <1>4, RejectRunKeeps
<1>5. CASE SubmitNothing
  BY <1>5, SubmitNothingKeeps
<1>6. ASSUME NEW w \in Workers, WorkerStep(w) PROVE Bookkeeping'
  BY <1>6, TakeSentinelKeeps, TakeCancelledKeeps, TakeKeeps, FinishKeeps, RaiseKeeps,
     CancelledKeeps, StopKeeps DEF WorkerStep
<1>7. CASE Shutdown
  BY <1>7, DrainKeeps, CancelWorkersKeeps, EndShutdownKeeps DEF Shutdown
<1>8. CASE UNCHANGED vars
  <2>1. UNCHANGED <<started, stopping, closed, pool, worker, queue, jobs, cancelled,
                    active, futures, answered, submissions, raced, ledger, stored>>
    BY <1>8 DEF vars
  <2>2. Apart' /\ Queued' = Queued /\ InHand' = InHand
    BY <2>1, NothingMoves
  <2>3. TypeOK' /\ HandsFull'
    BY <2>1 DEF Bookkeeping, TypeOK, HandsFull
  <2>4. Known' /\ CarriedKnown' /\ OneRunPerKey'
    BY <2>1, <2>2 DEF Bookkeeping, Known, CarriedKnown, OneRunPerKey, Carried
  <2> QED
    BY <2>2, <2>3, <2>4 DEF Bookkeeping
<1> QED
  BY <1>1, <1>2, <1>3, <1>4, <1>5, <1>6, <1>7, <1>8 DEF Next, Client

\* The state has its type, and the queue never holds more than its capacity.
THEOREM BackendTypeCorrect == Spec => []TypeOK
<1>1. Bookkeeping => TypeOK
  BY DEF Bookkeeping
<1> QED
  BY <1>1, BookkeepingInit, BookkeepingNext, PTL DEF Spec

\* Whatever fails, is cancelled, shut down or restarted, and however often a
\* run is decided on, an idempotency key has one run at most in flight, its
\* record is the open one, and no run of it is left once its result is known.
THEOREM KeysRunOnce == Spec => []OneRunPerKey
<1>1. Bookkeeping => OneRunPerKey
  BY DEF Bookkeeping
<1> QED
  BY <1>1, BookkeepingInit, BookkeepingNext, PTL DEF Spec
=============================================================================
