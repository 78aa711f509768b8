-------------------------- MODULE SchemaMigration --------------------------
(***************************************************************************)
(* The migration of the subscription tables when the workers start          *)
(* (app/services/database_schema.py, the start of lifespan in main.py).     *)
(* PostgreSQL runs it in one transaction under an advisory lock.  SQLite    *)
(* has no such lock; there the transaction begins with the first UPDATE, so *)
(* what comes before is committed at once and may be stale by then.  One    *)
(* table stands for the two, which are treated alike; MediaIdentity says    *)
(* what becomes of a row.                                                   *)
(***************************************************************************)
EXTENDS Naturals

CONSTANTS
    Workers,
    None,           \* nobody
    MaxFaults       \* bound: crashes and statements that fail

VARIABLES
    dialect,        \* "postgresql" or "sqlite"
    db,             \* the committed table
    draft,          \* the table as the open transaction of each worker sees it
    seen,           \* the columns that each worker has inspected
    writer,         \* who has an open transaction with changes in it
    lock,           \* who holds the advisory lock
    pc,             \* step of each worker
    hit,            \* workers that a fault has met in this start
    faults

vars == <<dialect, db, draft, seen, writer, lock, pc, hit, faults>>

\* exists, the unified columns, the legacy columns, whether the rows have been
\* rewritten, the indexes, the constraint.
Table(exists, unified, legacy, moved, indexed, checked) ==
    [exists |-> exists, unified |-> unified, legacy |-> legacy, moved |-> moved,
     indexed |-> indexed, checked |-> checked]

Absent == Table(FALSE, FALSE, FALSE, TRUE, FALSE, FALSE)
Final == Table(TRUE, TRUE, FALSE, TRUE, TRUE, TRUE)
Oldest == Table(TRUE, FALSE, TRUE, FALSE, FALSE, FALSE)
\* Releases in between: both kinds of columns; a constraint without length.
Earlier == {Table(TRUE, TRUE, TRUE, FALSE, FALSE, FALSE), Table(TRUE, TRUE, FALSE, TRUE, TRUE, FALSE)}

Steps == <<"create", "inspect", "columns", "inspect rows", "rows", "legacy", "indexes", "constraint", "commit">>
StepNames == {Steps[i] : i \in DOMAIN Steps}

TypeOK ==
    /\ dialect \in {"postgresql", "sqlite"}
    /\ \A t \in {db} \cup {draft[w] : w \in Workers} \cup {seen[w] : w \in Workers} :
          t = Absent \/ (t.exists /\ (t.unified \/ t.legacy))
    /\ {writer, lock} \subseteq Workers \cup {None}
    /\ pc \in [Workers -> StepNames \cup {"start", "serving", "old schema"}]
    /\ hit \subseteq Workers /\ faults \in 0..MaxFaults

Init ==
    /\ dialect \in {"postgresql", "sqlite"}
    /\ db \in {Absent, Oldest, Final} \cup Earlier
    /\ draft = [w \in Workers |-> db] /\ seen = [w \in Workers |-> db]
    /\ writer = None /\ lock = None
    /\ pc = [w \in Workers |-> "start"]
    /\ hit = {} /\ faults = 0

Goto(w, step) == pc' = [pc EXCEPT ![w] = step]
Fixed == UNCHANGED <<dialect, hit, faults>>

\* A transaction sees what is committed until it writes; then it is alone:
\* the statement waits for the writer, who holds the lock on the table.
Sees(w) == IF writer = w THEN draft[w] ELSE db

Changed(w, table) ==
    IF table = Sees(w) THEN UNCHANGED <<db, draft, writer>>
    ELSE /\ draft' = [draft EXCEPT ![w] = table]
         /\ writer' = w /\ UNCHANGED db

\* Mutant of Abandon: a lock of the session, not of the transaction.
AbandonLocked(w) ==
    /\ Goto(w, "old schema")
    /\ writer' = IF writer = w THEN None ELSE writer
    /\ UNCHANGED <<db, draft, seen, lock>>

\* A statement that fails ends the transaction; the lifespan logs the error
\* and the worker serves all the same.
Abandon(w) ==
    /\ Goto(w, "old schema")
    /\ writer' = IF writer = w THEN None ELSE writer
    /\ lock' = IF lock = w THEN None ELSE lock
    /\ UNCHANGED <<db, draft, seen>>

-----------------------------------------------------------------------------
\* Mutant of Begin: no advisory lock.
BeginUnlocked(w) ==
    /\ pc[w] = "start"
    /\ seen' = [seen EXCEPT ![w] = db]
    /\ Goto(w, "create")
    /\ UNCHANGED <<db, draft, writer, lock>> /\ Fixed

\* ensure_database_schema, ensure_postgresql_schema, and what create_all looks
\* up before it creates anything.
Begin(w) ==
    /\ pc[w] = "start"
    /\ IF dialect = "postgresql" THEN lock = None /\ lock' = w ELSE UNCHANGED lock
    /\ seen' = [seen EXCEPT ![w] = db]
    /\ Goto(w, "create")
    /\ UNCHANGED <<db, draft, writer>> /\ Fixed

Free(w) == writer \in {None, w}

\* create_all: the tables that are not there, with all that belongs to them.
CreateAll(w) ==
    /\ pc[w] = "create" /\ Free(w)
    /\ IF ~seen[w].exists /\ Sees(w).exists THEN Abandon(w)
       ELSE /\ IF seen[w].exists THEN UNCHANGED <<db, draft, writer>>
               ELSE IF dialect = "sqlite" THEN db' = Final /\ UNCHANGED <<draft, writer>>
               ELSE Changed(w, Final)
            /\ Goto(w, "inspect")
            /\ UNCHANGED <<seen, lock>>
    /\ Fixed

Inspect(w) ==
    /\ \/ pc[w] = "inspect" /\ Goto(w, "columns")
       \/ pc[w] = "inspect rows" /\ Goto(w, "rows")
    /\ seen' = [seen EXCEPT ![w] = Sees(w)]
    /\ UNCHANGED <<db, draft, writer, lock>> /\ Fixed

\* ADD COLUMN for what was missing: an error when it is there by now.
AddColumns(w) ==
    /\ pc[w] = "columns" /\ Free(w)
    /\ IF ~seen[w].unified /\ Sees(w).unified THEN Abandon(w)
       ELSE /\ IF seen[w].unified THEN UNCHANGED <<db, draft, writer>>
               ELSE IF dialect = "sqlite"
               THEN db' = [db EXCEPT !.unified = TRUE] /\ UNCHANGED <<draft, writer>>
               ELSE Changed(w, [Sees(w) EXCEPT !.unified = TRUE])
            /\ Goto(w, "inspect rows")
            /\ UNCHANGED <<seen, lock>>
    /\ Fixed

\* The UPDATEs name the legacy columns that the inspection has found.
MoveRows(w) ==
    /\ pc[w] = "rows" /\ Free(w)
    /\ IF seen[w].legacy /\ ~Sees(w).legacy THEN Abandon(w)
       ELSE /\ draft' = [draft EXCEPT ![w] = [Sees(w) EXCEPT !.moved = @ \/ (seen[w].legacy <=> Sees(w).legacy)]]
            /\ writer' = w
            /\ Goto(w, "legacy")
            /\ UNCHANGED <<db, seen, lock>>
    /\ Fixed

\* The indexes over the legacy columns and the columns themselves.
DropLegacy(w) ==
    /\ pc[w] = "legacy"
    /\ draft' = [draft EXCEPT ![w].legacy = @ /\ ~seen[w].legacy]
    /\ Goto(w, "indexes")
    /\ UNCHANGED <<db, seen, writer, lock>> /\ Fixed

CreateIndexes(w) ==
    /\ pc[w] = "indexes"
    /\ draft' = [draft EXCEPT ![w].indexed = TRUE]
    /\ Goto(w, "constraint")
    /\ UNCHANGED <<db, seen, writer, lock>> /\ Fixed

\* A constraint of an earlier release is replaced: on PostgreSQL in place, on
\* SQLite by a copy of the table.  It holds for the rows that have been moved.
EnsureConstraints(w) ==
    /\ pc[w] = "constraint"
    /\ IF draft[w].checked \/ draft[w].moved
       THEN /\ draft' = [draft EXCEPT ![w].checked = TRUE]
            /\ Goto(w, "commit") /\ UNCHANGED <<db, seen, writer, lock>>
       ELSE Abandon(w)
    /\ Fixed

Commit(w) ==
    /\ pc[w] = "commit"
    /\ db' = draft[w] /\ writer' = None
    /\ lock' = IF lock = w THEN None ELSE lock
    /\ Goto(w, "serving")
    /\ UNCHANGED <<draft, seen>> /\ Fixed

\* A statement fails for a reason of its own, or the worker dies: the
\* transaction is rolled back and the lock is gone with it.
Fault(w) ==
    /\ pc[w] \in StepNames /\ faults < MaxFaults
    /\ faults' = faults + 1 /\ hit' = hit \cup {w}
    /\ Abandon(w) /\ UNCHANGED dialect

\* A worker is started again: the next release, the supervisor, a crash.
Restart(w) ==
    /\ pc[w] \in {"serving", "old schema"} /\ faults < MaxFaults
    /\ faults' = faults + 1 /\ hit' = hit \ {w}
    /\ Goto(w, "start")
    /\ UNCHANGED <<dialect, db, draft, seen, writer, lock>>

Step(w) ==
    \/ Begin(w) \/ CreateAll(w) \/ Inspect(w) \/ AddColumns(w) \/ MoveRows(w) \/ DropLegacy(w)
    \/ CreateIndexes(w) \/ EnsureConstraints(w) \/ Commit(w)

Next == \E w \in Workers : Step(w) \/ Fault(w) \/ Restart(w)

\* The workers run and the database executes what it is sent.
Fairness == \A w \in Workers : WF_vars(Step(w))
Spec == Init /\ [][Next]_vars /\ Fairness

-----------------------------------------------------------------------------
(* Workers that start together on PostgreSQL do not make one another fail:  *)
(* only a fault of its own leaves a worker with a schema it did not check.  *)
NobodyFails == dialect = "postgresql" => \A w \in Workers : pc[w] = "old schema" => w \in hit

(* What a crash, an error or a second worker leaves behind can always be    *)
(* migrated: the legacy columns are gone, and the constraint is there, only *)
(* when the rows have been rewritten.                                       *)
NothingHalfDone == (~db.legacy \/ db.checked) => db.moved

(* A worker that migrated serves with the final schema, for as long as it   *)
(* serves and whatever the others do.                                       *)
MigratedMeansFinal == (\E w \in Workers : pc[w] = "serving") => db = Final

(* No worker waits for ever, whoever dies with the lock in its hands.       *)
Serves(w) == pc[w] \in {"serving", "old schema"}
EveryoneServes == \A w \in Workers : pc[w] = "start" ~> Serves(w)
=============================================================================
