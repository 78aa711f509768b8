---------------------------- MODULE DataCleanup ----------------------------
(***************************************************************************)
(* The cleanup of old rows (app/services/data_cleanup.py) in the life of   *)
(* the server processes (main.py): a scheduled task of every process and   *)
(* the administrators' requests compete for a lock in Redis that carries   *)
(* the token of its holder and lapses after six hours, delete in one       *)
(* transaction with the audit record, and release the lock on every way    *)
(* out.  A process that is shut down cancels its task at an await; one     *)
(* that crashes does nothing more.                                         *)
(***************************************************************************)
EXTENDS FiniteSetsExt, Integers

CONSTANTS
    Procs,          \* server processes
    None,           \* no lock
    Rows,           \* rows that fall under cleanup_conditions
    MaxRuns         \* bound: cleanups that are begun

VARIABLES
    proc,           \* "off", "up" or "down": off after close_redis
    lock,           \* Redis: the run that holds the lock
    lapsed,         \* the lock of some run has lapsed before its release
    orphaned,       \* some run crashed or lost its connection with the lock in Redis
    rows,           \* rows that are left
    audited,        \* rows that the audit records report as deleted
    pc, marked,     \* step of each cleaner and the rows its transaction has deleted
    runs

vars == <<proc, lock, lapsed, orphaned, rows, audited, pc, marked, runs>>

\* The scheduled task of a process, and a request of an administrator to it.
Cleaners == Procs \X {"scheduler", "manual"}
Holding == {"delete", "commit", "clear", "failed", "release"}
Steps == {"idle", "set", "answer"} \cup Holding

TypeOK ==
    /\ proc \in [Procs -> {"off", "up", "down"}]
    /\ lock \in Cleaners \cup {None}
    /\ {lapsed, orphaned} \subseteq BOOLEAN
    /\ rows \subseteq Rows /\ audited \in Nat
    /\ pc \in [Cleaners -> Steps]
    /\ marked \in [Cleaners -> SUBSET Rows]
    /\ runs \in 0..MaxRuns

Init ==
    /\ proc = [p \in Procs |-> "up"]
    /\ lock = None /\ lapsed = FALSE /\ orphaned = FALSE
    /\ rows = Rows /\ audited = 0
    /\ pc = [c \in Cleaners |-> "idle"]
    /\ marked = [c \in Cleaners |-> {}]
    /\ runs = 0

Goto(c, step) == pc' = [pc EXCEPT ![c] = step]
flags == <<lapsed, orphaned>>
database == <<rows, audited, marked>>

\* Midnight, or a confirmed request.
Begin(c) ==
    /\ pc[c] = "idle" /\ proc[c[1]] = "up" /\ runs < MaxRuns
    /\ runs' = runs + 1
    /\ Goto(c, "set")
    /\ UNCHANGED <<proc, lock, flags, database>>

\* Mutant of SetLock: without NX.
SetOver(c) ==
    /\ pc[c] = "set"
    /\ lock' = c /\ Goto(c, "answer")
    /\ UNCHANGED <<proc, flags, database, runs>>

\* Redis executes SET ... NX; the answer comes later.
SetLock(c) ==
    /\ pc[c] = "set"
    /\ IF lock = None THEN lock' = c /\ Goto(c, "answer") ELSE Goto(c, "idle") /\ UNCHANGED lock
    /\ UNCHANGED <<proc, flags, database, runs>>

\* The answer, or the end of the connection: the run does not know its token.
LockAnswer(c) ==
    /\ pc[c] = "answer"
    /\ \/ Goto(c, "delete") /\ UNCHANGED orphaned
       \/ Goto(c, "idle") /\ orphaned' = TRUE
    /\ UNCHANGED <<proc, lock, lapsed, database, runs>>

\* The DELETE statements; rows another transaction has deleted are waited for,
\* and one of the statements or the audit record may fail.
DeleteRows(c) ==
    /\ pc[c] = "delete"
    /\ \A o \in Cleaners : marked[o] = {}
    /\ \/ marked' = [marked EXCEPT ![c] = rows] /\ Goto(c, "commit")
       \/ UNCHANGED marked /\ Goto(c, "failed")
    /\ UNCHANGED <<proc, lock, flags, rows, audited, runs>>

\* The deletions and the audit record, together.
Commit(c) ==
    /\ pc[c] = "commit"
    /\ rows' = rows \ marked[c]
    /\ audited' = audited + Cardinality(marked[c])
    /\ marked' = [marked EXCEPT ![c] = {}]
    /\ Goto(c, IF marked[c] = {} THEN "release" ELSE "clear")
    /\ UNCHANGED <<proc, lock, flags, runs>>

\* The caches and admin_cache_invalidation; or the record of the failure.
Finish(c) ==
    /\ pc[c] \in {"clear", "failed"}
    /\ Goto(c, "release")
    /\ UNCHANGED <<proc, lock, flags, database, runs>>

\* Mutant of Unlock: DEL without a look at the token.
UnlockAny(c) == lock' = None

\* The script of _release_cleanup_lock compares the token.
Unlock(c) == lock' = IF lock = c THEN None ELSE lock

\* A failure of Redis is logged, and the lock stays until it lapses.
LoseLock(c) == UNCHANGED lock /\ orphaned' = (orphaned \/ lock = c)

Release(c) ==
    /\ pc[c] = "release"
    /\ (Unlock(c) /\ UNCHANGED orphaned) \/ LoseLock(c)
    /\ Goto(c, "idle")
    /\ UNCHANGED <<proc, lapsed, database, runs>>

\* Six hours are over.
Lapse ==
    /\ lock # None
    /\ lapsed' = (lapsed \/ pc[lock] # "idle")
    /\ lock' = None
    /\ UNCHANGED <<proc, orphaned, database, pc, runs>>

\* stop() of the services in the order of the lifespan: the scheduled task is
\* cancelled wherever it waits, its transaction is rolled back, and its finally
\* clause releases a lock that it knows of, unless it was waiting there.
Cancel(c) ==
    /\ pc' = [pc EXCEPT ![c] = IF @ \in Holding \ {"release"} THEN "release" ELSE "idle"]
    /\ marked' = [marked EXCEPT ![c] = {}]
    /\ \/ pc[c] = "release" /\ ((Unlock(c) /\ UNCHANGED orphaned) \/ LoseLock(c))
       \/ pc[c] = "answer" /\ LoseLock(c)
       \/ pc[c] \notin {"answer", "release"} /\ UNCHANGED <<lock, orphaned>>
    /\ UNCHANGED <<lapsed, rows, audited, runs>>

\* Requests in flight are answered before the shutdown begins.
StopServices(p) ==
    /\ proc[p] = "up" /\ pc[<<p, "manual">>] = "idle"
    /\ proc' = [proc EXCEPT ![p] = "down"]
    /\ Cancel(<<p, "scheduler">>)

CloseRedis(p) ==
    /\ proc[p] = "down" /\ pc[<<p, "scheduler">>] = "idle"
    /\ proc' = [proc EXCEPT ![p] = "off"]
    /\ UNCHANGED <<lock, flags, database, pc, runs>>

Crash(p) ==
    LET own == {c \in Cleaners : c[1] = p} IN
    /\ proc[p] # "off"
    /\ proc' = [proc EXCEPT ![p] = "off"]
    /\ pc' = [c \in Cleaners |-> IF c \in own THEN "idle" ELSE pc[c]]
    /\ marked' = [c \in Cleaners |-> IF c \in own THEN {} ELSE marked[c]]
    /\ orphaned' = (orphaned \/ lock \in own)
    /\ UNCHANGED <<lock, lapsed, rows, audited, runs>>

Start(p) ==
    /\ proc[p] = "off"
    /\ proc' = [proc EXCEPT ![p] = "up"]
    /\ UNCHANGED <<lock, flags, database, pc, runs>>

Next ==
    \/ \E c \in Cleaners : \/ Begin(c) \/ SetLock(c) \/ LockAnswer(c) \/ DeleteRows(c)
                           \/ Commit(c) \/ Finish(c) \/ Release(c)
    \/ \E p \in Procs : StopServices(p) \/ CloseRedis(p) \/ Crash(p) \/ Start(p)
    \/ Lapse

Spec == Init /\ [][Next]_vars

-----------------------------------------------------------------------------
(* The audit log reports every deletion and no other, whatever fails, is    *)
(* cancelled or crashes in between.                                         *)
AuditExact == audited = Cardinality(Rows \ rows)

(* One cleanup at a time, unless the lock of a running one has lapsed.      *)
OneCleanup == ~lapsed => \A c, d \in Cleaners : pc[c] \in Holding /\ pc[d] \in Holding => c = d

(* A run gives up its own lock only: a run whose lock has lapsed does not   *)
(* release the lock of the next one.                                        *)
OwnRelease == \A c \in Cleaners : Release(c) /\ lock # c => lock' = lock
ForeignLockKept == [][OwnRelease]_vars

(* The lock is never left behind, neither by a failure nor by a shutdown:   *)
(* whoever holds it is going to release it, unless a run crashed or lost    *)
(* its connection while it held the lock.                                   *)
LockNotLeft == lock # None /\ ~orphaned => pc[lock] \in Holding \cup {"answer"}
=============================================================================
