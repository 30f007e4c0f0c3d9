---------------------------- MODULE StateStores ----------------------------
(***************************************************************************)
(* The three state stores (memory/in_memory.py, memory/sqlite.py,          *)
(* memory/postgres.py) as operators on what they hold: the latest state of *)
(* each run, the checkpoints in the order of their creation, and for each  *)
(* run the checkpoints that list_checkpoints returns.                      *)
(*                                                                         *)
(* A checkpoint is the number of its creation, which orders checkpoints as *)
(* the steps and the timestamps in them do.                                *)
(***************************************************************************)
EXTENDS Naturals, Sequences

CONSTANTS RunIds, NONE

ASSUME NoneIsNoRun == NONE \notin RunIds

StoreKinds == {"memory", "sqlite", "postgres"}
Status == {"idle", "running", "paused", "completed", "failed", "cancelled"}
Terminal == {"completed", "failed", "cancelled"}

ASSUME NoneIsNoStatus == NONE \notin Status

Database == [runs : [RunIds -> Status \cup {NONE}],
             made : Seq(RunIds),
             lists : [RunIds -> Seq(Nat)]]

EmptyDatabase == [runs |-> [r \in RunIds |-> NONE],
                  made |-> <<>>,
                  lists |-> [r \in RunIds |-> <<>>]]

\* Only the PostgreSQL store suspends the coroutine that calls it: it waits
\* for the schema, for a connection of the pool and for the answer.
Suspends(kind) == kind = "postgres"

\* The SQL stores turn an error of the database into an exception, after a
\* rollback; the dictionaries of the in-memory store do not fail.
CanFail(kind) == kind # "memory"

\* save_state: insert the run, or update it.
SaveState(db, r, status) == [db EXCEPT !.runs[r] = status]

\* get_state: the latest state, or None.
GetState(db, r) == db.runs[r]

\* A checkpoint with a fresh identifier, the same in every store.
NewCheckpoint(db, r) ==
    [db EXCEPT !.made = Append(@, r),
               !.lists[r] = Append(@, Len(db.made) + 1)]

\* The in-memory store lists a checkpoint saved again under another run there too.
SaveAgainInMemory(db, cp, r) ==
    [db EXCEPT !.made[cp] = r, !.lists[r] = Append(@, cp)]

\* ON CONFLICT(checkpoint_id) DO UPDATE SET checkpoint_json: the row keeps the
\* run_id it was inserted with, which is the one list_checkpoints selects by.
SaveAgainInSQLite(db, cp, r) == [db EXCEPT !.made[cp] = r]
SaveAgainInPostgres(db, cp, r) == [db EXCEPT !.made[cp] = r]

SaveCheckpointAgain(kind, db, cp, r) ==
    CASE kind = "memory" -> SaveAgainInMemory(db, cp, r)
      [] kind = "sqlite" -> SaveAgainInSQLite(db, cp, r)
      [] kind = "postgres" -> SaveAgainInPostgres(db, cp, r)

\* list_checkpoints, oldest first.
ListCheckpoints(db, r) == db.lists[r]
=============================================================================
