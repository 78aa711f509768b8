---------------------------- MODULE PluginRating ----------------------------
(***************************************************************************)
(* The ratings of one plugin (app/services/plugin_rating.py): the details, *)
(* the summary row whose lock orders the writers, the summary cached by    *)
(* every process, and the deletion of a rating by an administrator         *)
(* (app/admin/data.py).  Transactions are PostgreSQL's READ COMMITTED.     *)
(***************************************************************************)
EXTENDS PublicCache, FiniteSetsExt

CONSTANTS
    Tasks,          \* requests in flight at the same time
    Users,          \* installations that rate
    Marks,          \* ratings in tenths
    MaxWrites       \* bound: writes that may be asked for

VARIABLES
    rating,         \* committed rows of PLUGIN_RATING
    summary,        \* committed row of PLUGIN_RATING_SUMMARY
    holder,         \* transaction that has locked or inserted the summary row
    commits, asked, \* how many writes were committed and asked for
    done,           \* last commit a process has finished with
    pc, mem

vars == <<cache, fills, rating, summary, holder, commits, asked, done, pc, mem>>

Row == [mark : Marks, id : Nat]
Totals == [count : Nat, average : Nat]
Memory == [kind : {"rate", "delete"}, user : Users, mark : Marks, id : Nat, home : Procs,
           retried : BOOLEAN, found : BOOLEAN, totals : Totals]
Committed == [home : Procs, id : Nat]
Steps == {"idle", "lock", "insert", "detail", "flush", "commit", "refresh", "refused"}

TypeOK ==
    /\ CacheTypeOK
    /\ rating \in [Users -> Row \cup {None}]
    /\ summary \in Totals \cup {None}
    /\ holder \in Tasks \cup {None}
    /\ commits \in Nat /\ asked \in 0..MaxWrites
    /\ done \in [Procs -> Nat]
    /\ pc \in [Tasks -> Steps]
    /\ mem \in [Tasks -> Memory \cup Committed \cup {None}]

Init ==
    /\ CacheInit
    /\ rating = [u \in Users |-> None]
    /\ summary = None
    /\ holder = None
    /\ commits = 0 /\ asked = 0
    /\ done = [p \in Procs |-> 0]
    /\ pc = [t \in Tasks |-> "idle"]
    /\ mem = [t \in Tasks |-> None]

data == <<rating, summary, commits, asked, done>>
caches == <<cache, fills>>

Rated(r) == {u \in DOMAIN r : r[u] # None}

SumOf(r) == SumFunctionOnSet([u \in Users |-> r[u].mark], Rated(r))

\* avg and count, rounded half up to a tenth.
Aggregate(r) ==
    LET count == Cardinality(Rated(r))
    IN [count |-> count, average |-> IF count = 0 THEN 0 ELSE (2 * SumOf(r) + count) \div (2 * count)]

\* The rows as the transaction of t will leave them; a DELETE names the row by its id.
After(t) ==
    LET m == mem[t] IN
    IF m.kind = "rate"
    THEN [rating EXCEPT ![m.user] = [mark |-> m.mark, id |-> IF rating[m.user] = None THEN commits + 1 ELSE rating[m.user].id]]
    ELSE [rating EXCEPT ![m.user] = IF rating[m.user] # None /\ rating[m.user].id = m.id THEN None ELSE @]

Goto(t, step) == pc' = [pc EXCEPT ![t] = step]

Ask(t, kind, u, mark, id, p) ==
    /\ pc[t] = "idle" /\ asked < MaxWrites
    /\ mem' = [mem EXCEPT ![t] = [kind |-> kind, user |-> u, mark |-> mark, id |-> id, home |-> p,
                                  retried |-> FALSE, found |-> FALSE,
                                  totals |-> [count |-> 0, average |-> 0]]]
    /\ asked' = asked + 1
    /\ Goto(t, "lock")
    /\ UNCHANGED <<caches, rating, summary, holder, commits, done>>

RatePlugin(t, u, mark, p) == Ask(t, "rate", u, mark, 0, p)

\* The administrator's handler has read the row before it locks anything.
DeleteRating(t, u, p) == rating[u] # None /\ Ask(t, "delete", u, rating[u].mark, rating[u].id, p)

\* Mutant of Lock: the row is read without FOR UPDATE.
ReadUnlocked(t) ==
    /\ pc[t] = "lock"
    /\ Goto(t, IF summary = None THEN "insert" ELSE IF mem[t].kind = "rate" THEN "detail" ELSE "flush")
    /\ UNCHANGED <<caches, data, mem, holder>>

\* SELECT ... FOR UPDATE; without a committed row there is nothing to wait for.
Lock(t) ==
    /\ pc[t] = "lock"
    /\ \/ summary # None /\ holder = None /\ holder' = t
          /\ Goto(t, IF mem[t].kind = "rate" THEN "detail" ELSE "flush")
       \/ summary = None /\ Goto(t, "insert") /\ UNCHANGED holder
    /\ UNCHANGED <<caches, data, mem>>

\* IntegrityError: a submission rolls back and starts over once, a deletion fails.
Conflict(t) ==
    IF mem[t].kind = "rate" /\ ~mem[t].retried
    THEN mem' = [mem EXCEPT ![t].retried = TRUE] /\ Goto(t, "lock")
    ELSE UNCHANGED mem /\ Goto(t, "refused")

\* The unique index makes the second inserter wait for the end of the first.
Insert(t) ==
    /\ pc[t] = "insert" /\ holder = None
    /\ \/ /\ summary = None
          /\ holder' = t
          /\ Goto(t, IF mem[t].kind = "rate" THEN "detail" ELSE "flush")
          /\ UNCHANGED mem
       \/ summary # None /\ Conflict(t) /\ UNCHANGED holder
    /\ UNCHANGED <<caches, data>>

Detail(t) ==
    /\ pc[t] = "detail"
    /\ mem' = [mem EXCEPT ![t].found = rating[mem[t].user] # None]
    /\ Goto(t, "flush")
    /\ UNCHANGED <<caches, data, holder>>

\* flush and aggregate; an INSERT fails on a row that has come since.
Flush(t) ==
    /\ pc[t] = "flush"
    /\ IF mem[t].kind = "rate" /\ mem[t].found # (rating[mem[t].user] # None)
       THEN Conflict(t) /\ holder' = IF holder = t THEN None ELSE holder
       ELSE /\ mem' = [mem EXCEPT ![t].totals = Aggregate(After(t))]
            /\ Goto(t, "commit")
            /\ UNCHANGED holder
    /\ UNCHANGED <<caches, data>>

Commit(t) ==
    /\ pc[t] = "commit"
    /\ rating' = After(t)
    /\ summary' = mem[t].totals
    /\ commits' = commits + 1
    /\ mem' = [mem EXCEPT ![t] = [home |-> @.home, id |-> commits + 1]]
    /\ holder' = IF holder = t THEN None ELSE holder
    /\ Goto(t, "refresh")
    /\ UNCHANGED <<caches, asked, done>>

\* The entry of this process is deleted, by the administrator's handler with all others.
Refresh(t) ==
    LET m == mem[t] IN
    /\ pc[t] = "refresh"
    /\ Forget(m.home)
    /\ done' = [done EXCEPT ![m.home] = IF @ < m.id THEN m.id ELSE @]
    /\ Goto(t, "idle")
    /\ mem' = [mem EXCEPT ![t] = None]
    /\ UNCHANGED <<rating, summary, holder, commits, asked>>

\* get_rating asks the cache first; get_ratings for all plugins does not, and
\* has all the behaviours of the other.
ReadSummary(p) == Query(p, TRUE, commits) /\ UNCHANGED <<data, holder, pc, mem>>
StoreSummary(f) == Store(f) /\ UNCHANGED <<data, holder, pc, mem>>
ExpireSummary(p) == Expire(p) /\ UNCHANGED <<data, holder, pc, mem>>

\* A process dies; the database ends its transactions.
Crash(p) ==
    LET own(t) == mem[t] # None /\ mem[t].home = p IN
    /\ Vanish(p)
    /\ holder' = IF holder # None /\ own(holder) THEN None ELSE holder
    /\ pc' = [t \in Tasks |-> IF own(t) THEN "idle" ELSE pc[t]]
    /\ mem' = [t \in Tasks |-> IF own(t) THEN None ELSE mem[t]]
    /\ UNCHANGED data

Next ==
    \/ \E t \in Tasks : Lock(t) \/ Insert(t) \/ Detail(t) \/ Flush(t) \/ Commit(t) \/ Refresh(t)
    \/ \E t \in Tasks, u \in Users, p \in Procs :
          DeleteRating(t, u, p) \/ \E mark \in Marks : RatePlugin(t, u, mark, p)
    \/ \E p \in Procs : Crash(p) \/ ExpireSummary(p) \/ ReadSummary(p)
    \/ \E f \in fills : StoreSummary(f)

Spec == Init /\ [][Next]_vars

-----------------------------------------------------------------------------
(* Every committed summary is the count and the average of the committed    *)
(* ratings, whatever submissions, deletions and crashes come between.       *)
SummaryMatches ==
    IF summary = None THEN Rated(rating) = {} ELSE summary = Aggregate(rating)

(* Nobody is refused: the one retry after a lost race for the first summary *)
(* row is enough, and a deletion finds the summary of the rating it read.   *)
NobodyRefused == \A t \in Tasks : pc[t] # "refused"

(* A process that has answered a submission or a deletion does not go on    *)
(* serving a summary that was queried before it.                            *)
RefreshedAfterRating == \A p \in Procs : Fresh(p, done[p])
=============================================================================
