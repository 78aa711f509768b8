------------------------- MODULE CacheInvalidation -------------------------
(***************************************************************************)
(* How an administrator's edit reaches the caches of all processes         *)
(* (app/admin/invalidation.py): the process that commits the edit clears   *)
(* its caches and increments a revision in Redis, every process polls the  *)
(* revision, and a flag in memory makes the poll retry an increment that   *)
(* failed.                                                                 *)
(***************************************************************************)
EXTENDS PublicCache

CONSTANTS
    Tasks,          \* administrators' requests in flight at the same time
    MaxEdits,       \* bound: edits
    MaxOutages      \* bound: how often Redis is lost

VARIABLES
    revision,       \* Redis: the revision, 0 for no key
    up,             \* Redis answers
    outages,
    seen, pending,  \* AdminCacheInvalidation of each process
    commits,        \* committed edits
    told,           \* commits when the revision was last incremented
    lost,           \* a process died before it told of its edit
    pc, mem         \* of the requests and of the poll of each process

vars == <<cache, fills, revision, up, outages, seen, pending, commits, told, lost, pc, mem>>

Runners == Tasks \cup Procs
\* home is the process of a request; rev the revision a poll has read.
Memory == [home : Procs, rev : Nat]
Steps == {"idle", "clear", "incr", "told", "failed", "get", "compare"}

TypeOK ==
    /\ CacheTypeOK
    /\ revision \in Nat /\ up \in BOOLEAN /\ outages \in 0..MaxOutages
    /\ seen \in [Procs -> Nat] /\ pending \in [Procs -> BOOLEAN]
    /\ commits \in 0..MaxEdits /\ told \in Nat /\ lost \in BOOLEAN
    /\ pc \in [Runners -> Steps]
    /\ mem \in [Runners -> Memory]

Init ==
    /\ CacheInit
    /\ revision = 0 /\ up = TRUE /\ outages = 0
    /\ seen = [p \in Procs |-> 0]
    /\ pending = [p \in Procs |-> FALSE]
    /\ commits = 0 /\ told = 0 /\ lost = FALSE
    /\ pc = [x \in Runners |-> "idle"]
    /\ mem = [x \in Runners |->
                 [home |-> IF x \in Procs THEN x ELSE CHOOSE p \in Procs : TRUE, rev |-> 0]]

caches == <<cache, fills>>
redis == <<revision, up, outages, told>>
history == <<commits, lost>>

Break == up /\ outages < MaxOutages /\ up' = FALSE /\ outages' = outages + 1

Goto(x, step) == pc' = [pc EXCEPT ![x] = step]

\* The handler's commit; invalidate follows when the answer is back.
CommitEdit(t, p) ==
    /\ pc[t] = "idle" /\ commits < MaxEdits
    /\ commits' = commits + 1
    /\ mem' = [mem EXCEPT ![t].home = p]
    /\ Goto(t, "clear")
    /\ UNCHANGED <<caches, redis, seen, pending, lost>>

\* Mutant of ClearAll: the poll does not retry.
ClearOnce(x) ==
    /\ pc[x] = "clear"
    /\ Forget(mem[x].home)
    /\ pending' = [pending EXCEPT ![mem[x].home] = TRUE]
    /\ Goto(x, "incr")
    /\ UNCHANGED <<redis, history, seen, mem>>

\* invalidate: clear_all, set the flag and send the INCR.  The poll does it as
\* well, after its three seconds of sleep, when it finds the flag set.
ClearAll(x) ==
    /\ pc[x] = "clear" \/ (x \in Procs /\ pc[x] = "idle" /\ pending[x])
    /\ Forget(mem[x].home)
    /\ pending' = [pending EXCEPT ![mem[x].home] = TRUE]
    /\ Goto(x, "incr")
    /\ UNCHANGED <<redis, history, seen, mem>>

\* Redis executes the INCR, and the connection may break before the answer; or
\* it is not reached.
Increment(x) ==
    /\ pc[x] = "incr"
    /\ \/ /\ up
          /\ revision' = revision + 1 /\ told' = commits
          /\ \/ Goto(x, "told") /\ UNCHANGED <<up, outages>>
             \/ Goto(x, "failed") /\ Break
       \/ ~up /\ Goto(x, "failed") /\ UNCHANGED redis
    /\ UNCHANGED <<caches, history, seen, pending, mem>>

\* Mutant of Answered: the flag is cleared in a finally clause.
AnsweredAnyway(x) ==
    /\ pc[x] \in {"told", "failed"}
    /\ pending' = [pending EXCEPT ![mem[x].home] = FALSE]
    /\ Goto(x, IF x \in Procs THEN "get" ELSE "idle")
    /\ UNCHANGED <<caches, redis, history, seen, mem>>

\* The answer, or the exception that invalidate swallows.
Answered(x) ==
    /\ pc[x] \in {"told", "failed"}
    /\ pending' = IF pc[x] = "told" THEN [pending EXCEPT ![mem[x].home] = FALSE] ELSE pending
    /\ Goto(x, IF x \in Procs THEN "get" ELSE "idle")
    /\ UNCHANGED <<caches, redis, history, seen, mem>>

GetRevision(p) ==
    /\ pc[p] = "get" \/ (pc[p] = "idle" /\ ~pending[p])
    /\ IF up THEN mem' = [mem EXCEPT ![p].rev = revision] /\ Goto(p, "compare")
             ELSE UNCHANGED mem /\ Goto(p, "idle")
    /\ UNCHANGED <<caches, redis, history, seen, pending>>

Compare(p) ==
    /\ pc[p] = "compare"
    /\ IF mem[p].rev # seen[p]
       THEN Forget(p) /\ seen' = [seen EXCEPT ![p] = mem[p].rev]
       ELSE UNCHANGED <<caches, seen>>
    /\ Goto(p, "idle")
    /\ mem' = [mem EXCEPT ![p].rev = 0]
    /\ UNCHANGED <<redis, history, pending>>

LoseRedis == Break /\ UNCHANGED <<caches, revision, told, history, seen, pending, pc, mem>>

Recover ==
    /\ ~up /\ up' = TRUE
    /\ UNCHANGED <<outages, caches, revision, told, history, seen, pending, pc, mem>>

\* The flag, the caches and the requests of a process die with it.
Restart(p) ==
    LET gone == {x \in Runners : mem[x].home = p} IN
    /\ Vanish(p)
    /\ seen' = [seen EXCEPT ![p] = 0]
    /\ pending' = [pending EXCEPT ![p] = FALSE]
    /\ lost' = (lost \/ pending[p] \/ \E x \in gone : pc[x] \in {"clear", "incr"})
    /\ pc' = [x \in Runners |-> IF x \in gone THEN "idle" ELSE pc[x]]
    /\ UNCHANGED <<redis, commits, mem>>

\* Some readers ask the cache first; others, which do not, have more behaviours.
Reading ==
    /\ \/ \E p \in Procs : Expire(p) \/ Query(p, TRUE, commits)
       \/ \E f \in fills : Store(f)
    /\ UNCHANGED <<redis, history, seen, pending, pc, mem>>

Step(x) == ClearAll(x) \/ Increment(x) \/ Answered(x)
Poll(p) == Step(p) \/ GetRevision(p) \/ Compare(p)

Next ==
    \/ \E t \in Tasks, p \in Procs : CommitEdit(t, p)
    \/ \E t \in Tasks : Step(t)
    \/ \E p \in Procs : Poll(p) \/ Restart(p)
    \/ LoseRedis \/ Recover \/ Reading

\* The event loop runs what is ready, the poll sleeps three seconds and goes on;
\* Redis comes back, and the bound on outages lets some round meet it up.
Fairness ==
    /\ \A t \in Tasks : WF_vars(Step(t))
    /\ \A p \in Procs : WF_vars(Poll(p))
    /\ WF_vars(Recover)

Spec == Init /\ [][Next]_vars /\ Fairness

-----------------------------------------------------------------------------
(* A process that has seen the current revision answers with all the edits  *)
(* that this revision announces.                                            *)
SeenMeansCleared == \A p \in Procs : seen[p] = revision => Fresh(p, told)

(* An edit that is committed and not announced is on its way: a request is  *)
(* about to increment the revision or some flag makes a poll retry it.      *)
AnnouncementKept ==
    commits > told => \/ lost
                      \/ \E x \in Runners : pc[x] \in {"clear", "incr"}
                      \/ \E p \in Procs : pending[p]

(* Every edit reaches all processes, through outages of Redis, unless the   *)
(* process that knew of it died first.                                      *)
Reached(n) == lost \/ \A p \in Procs : Fresh(p, n)
EditsReachProcs == \A n \in 1..MaxEdits : commits = n ~> Reached(n)
=============================================================================
