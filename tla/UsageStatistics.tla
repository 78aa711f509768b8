-------------------------- MODULE UsageStatistics --------------------------
(***************************************************************************)
(* The report on installed versions (app/services/usage_statistic.py).     *)
(* Installations report their versions, one row each; a process assembles  *)
(* the report from several queries, between which other requests commit,   *)
(* and caches it.  A report of an installation drops the cached figures of *)
(* its process, but at most once in five minutes.                          *)
(***************************************************************************)
EXTENDS FiniteSetsExt, Integers

CONSTANTS
    Tasks,          \* reports in flight at the same time
    Users,          \* installations
    Windows,        \* how many recent periods are counted
    None,
    MaxReports,     \* bound: reports
    MaxDeletes      \* bound: rows an administrator deletes

VARIABLES
    row,            \* committed rows of USAGE_STATISTICS by user_uid
    asked, credited, \* reports begun; reports committed
    removed, deletes, \* reports counted in deleted rows; rows deleted
    pc, mem,        \* of the reports
    quiet,          \* the cache of this process was cleared in the last five minutes
    swept,          \* commits when the cache was last cleared
    reader,         \* the figures this process is collecting
    cached          \* the figures it serves

vars == <<row, asked, credited, removed, deletes, pc, mem, quiet, swept, reader, cached>>

\* A row has a back-end version, a front-end version, and was last seen within
\* the window of this number and the wider ones; Windows + 1 is longer ago.
Versions == [backend : BOOLEAN, frontend : BOOLEAN]
Row == [versions : Versions, seen : 1..(Windows + 1), count : Nat]

\* at: commits when the collection began; late: cleared or a row deleted since.
Figures == [backend : Nat, frontend : Nat, total : Nat, active : [1..Windows -> Nat],
            step : 1..(Windows + 3), at : Nat, late : BOOLEAN]

TypeOK ==
    /\ row \in [Users -> Row \cup {None}]
    /\ asked \in 0..MaxReports /\ {credited, removed, swept} \subseteq Nat
    /\ deletes \in 0..MaxDeletes
    /\ pc \in [Tasks -> {"idle", "update", "insert", "invalidate", "refused"}]
    /\ mem \in [Tasks -> [user : Users, versions : Versions, retried : BOOLEAN] \cup {None}]
    /\ quiet \in BOOLEAN
    /\ {reader, cached} \subseteq Figures \cup {None}

\* The database has a history: rows without any version, seen long ago, and
\* rows with both, seen within the widest window.
History == {[versions |-> [backend |-> b, frontend |-> b], seen |-> IF b THEN Windows ELSE Windows + 1,
             count |-> 1] : b \in BOOLEAN}

Init ==
    /\ row \in [Users -> History \cup {None}]
    /\ asked = 0 /\ removed = 0 /\ deletes = 0 /\ swept = 0
    /\ credited = Cardinality({u \in Users : row[u] # None})
    /\ pc = [t \in Tasks |-> "idle"]
    /\ mem = [t \in Tasks |-> None]
    /\ quiet = FALSE /\ reader = None /\ cached = None

Goto(t, step) == pc' = [pc EXCEPT ![t] = step]
counts == <<asked, credited, removed, deletes>>
figures == <<quiet, swept, reader, cached>>

\* _should_record_usage: a report without any version changes nothing.
ReportUsage(t, u, v) ==
    /\ pc[t] = "idle" /\ asked < MaxReports
    /\ v.backend \/ v.frontend
    /\ asked' = asked + 1
    /\ mem' = [mem EXCEPT ![t] = [user |-> u, versions |-> v, retried |-> FALSE]]
    /\ Goto(t, "update")
    /\ UNCHANGED <<row, credited, removed, deletes, figures>>

\* upsert_by_user_uid is an UPDATE, whose row is locked until the commit.
Update(t) ==
    LET m == mem[t] IN
    /\ pc[t] = "update"
    /\ IF row[m.user] # None
       THEN /\ row' = [row EXCEPT ![m.user] = [versions |-> m.versions, seen |-> 1, count |-> @.count + 1]]
            /\ credited' = credited + 1
            /\ Goto(t, "invalidate")
       ELSE Goto(t, "insert") /\ UNCHANGED <<row, credited>>
    /\ UNCHANGED <<asked, removed, deletes, mem, figures>>

\* The unique index on user_uid.
Insertable(u) == row[u] = None

\* IntegrityError: the report starts over once.
Conflict(t) ==
    /\ Goto(t, IF mem[t].retried THEN "refused" ELSE "update")
    /\ mem' = [mem EXCEPT ![t].retried = TRUE]

\* db.add and the commit.
Insert(t) ==
    LET m == mem[t] IN
    /\ pc[t] = "insert"
    /\ IF Insertable(m.user)
       THEN /\ row' = [row EXCEPT ![m.user] = [versions |-> m.versions, seen |-> 1, count |-> 1]]
            /\ credited' = credited + 1
            /\ Goto(t, "invalidate")
            /\ UNCHANGED mem
       ELSE Conflict(t) /\ UNCHANGED <<row, credited>>
    /\ UNCHANGED <<asked, removed, deletes, figures>>

Late(f) == IF f = None THEN None ELSE [f EXCEPT !.late = TRUE]

\* Mutant of Clear: only the time of the clear is noted.
ClearNothing == swept' = credited /\ UNCHANGED <<cached, reader>>

Clear == cached' = None /\ swept' = credited /\ reader' = Late(reader)

\* In this process, or in another one whose cache is not modelled.
InvalidateStatisticsCache(t) ==
    /\ pc[t] = "invalidate"
    /\ \/ quiet /\ UNCHANGED figures
       \/ ~quiet /\ quiet' = TRUE /\ Clear
       \/ UNCHANGED figures
    /\ Goto(t, "idle")
    /\ mem' = [mem EXCEPT ![t] = None]
    /\ UNCHANGED <<row, counts>>

\* _last_statistics_cache_invalidated_at is five minutes ago.
IntervalOver == quiet /\ quiet' = FALSE /\ UNCHANGED <<row, counts, pc, mem, swept, reader, cached>>

\* The life time of the entry, which the cleanup of all caches ends early.
Expire == cached # None /\ cached' = None /\ UNCHANGED <<row, counts, pc, mem, quiet, swept, reader>>

Delete(u) ==
    /\ row[u] # None /\ deletes < MaxDeletes
    /\ deletes' = deletes + 1
    /\ removed' = removed + row[u].count
    /\ row' = [row EXCEPT ![u] = None]
    /\ reader' = Late(reader) /\ cached' = Late(cached)
    /\ UNCHANGED <<asked, credited, pc, mem, quiet, swept>>

Countable == {u \in Users : row[u] # None /\ (row[u].versions.backend \/ row[u].versions.frontend)}
WithBackend == Cardinality({u \in Countable : row[u].versions.backend})
WithFrontend == Cardinality({u \in Countable : row[u].versions.frontend})
ActiveSince(w) == Cardinality({u \in Countable : row[u].seen <= w})

\* The first query, with the cut-off times of this moment.
Begin ==
    /\ cached = None /\ reader = None
    /\ reader' = [backend |-> WithBackend, frontend |-> 0, total |-> 0,
                  active |-> [w \in 1..Windows |-> 0], step |-> 1, at |-> credited, late |-> FALSE]
    /\ UNCHANGED <<row, counts, pc, mem, quiet, swept, cached>>

Queried == Windows + 3

\* The windows are asked from the narrowest to the widest.
WindowAt(s) == s - 2

\* The next query: the other breakdown, the total, the windows.
Collect ==
    /\ reader # None /\ reader.step < Queried
    /\ LET s == reader.step
           next == [reader EXCEPT !.step = s + 1] IN
       reader' = IF s = 1 THEN [next EXCEPT !.frontend = WithFrontend]
                 ELSE IF s = 2 THEN [next EXCEPT !.total = Cardinality(Countable)]
                 ELSE [next EXCEPT !.active[WindowAt(s)] = ActiveSince(WindowAt(s))]
    /\ UNCHANGED <<row, counts, pc, mem, quiet, swept, cached>>

StoreFigures ==
    /\ reader # None /\ reader.step = Queried
    /\ cached' = reader /\ reader' = None
    /\ UNCHANGED <<row, counts, pc, mem, quiet, swept>>

Next ==
    \/ \E t \in Tasks : Update(t) \/ Insert(t) \/ InvalidateStatisticsCache(t)
    \/ \E t \in Tasks, u \in Users, v \in Versions : ReportUsage(t, u, v)
    \/ \E u \in Users : Delete(u)
    \/ IntervalOver \/ Expire \/ Begin \/ Collect \/ StoreFigures

Spec == Init /\ [][Next]_vars

-----------------------------------------------------------------------------
(* The figures that are served fit together although each comes from a      *)
(* query of its own: no version breakdown exceeds the total, no period has  *)
(* more active installations than a longer one; unless a row was deleted.   *)
FiguresFit ==
    cached # None /\ ~cached.late =>
        /\ cached.backend <= cached.total /\ cached.frontend <= cached.total
        /\ \A w \in 1..(Windows - 1) : cached.active[w] <= cached.active[w + 1]

(* Every report that is answered is counted in exactly one row, also when   *)
(* two first reports of an installation race for its insert.                *)
ReportsCounted ==
    SumFunctionOnSet([u \in Users |-> row[u].count], {u \in Users : row[u] # None}) + removed = credited

(* The figures served are as new as the last clear of the cache, unless     *)
(* their collection was under way at that moment.                           *)
ClearedForGood == cached # None /\ ~cached.late => cached.at >= swept

(* The one retry is enough: a report fails only when a row was deleted.     *)
ReportRefused == (\E t \in Tasks : pc[t] = "refused") => deletes > 0
=============================================================================
