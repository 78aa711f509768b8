------------------------ MODULE SubscribeStatistics ------------------------
(***************************************************************************)
(* The popularity of one medium (app/services/subscribe_statistic.py): how *)
(* many installations subscribe to it.  A request reads a row, computes    *)
(* the new count in Python and writes it back; no lock, version or unique  *)
(* index keeps two requests apart.  The session neither flushes before a   *)
(* query nor forgets an object it has loaded.  Rows are written by their   *)
(* ids, and SQLite gives the id of the last row, once it is gone, to the    *)
(* next row of the table, of whatever medium.                              *)
(***************************************************************************)
EXTENDS FiniteSetsExt, Integers

CONSTANTS
    Tasks,          \* requests in flight at the same time
    None,           \* no row
    MaxRequests     \* bound: requests and deletions

VARIABLES
    dialect,        \* the database
    row,            \* committed rows of the medium by id
    born,           \* rows inserted so far
    added, asked,   \* subscriptions committed; requests and deletions so far
    tally,          \* the count if requests had come one after the other
    raced,          \* two requests, or one and a deletion, have overlapped
    pc, mem

vars == <<dialect, row, born, added, asked, tally, raced, pc, mem>>

Ids == 1..(2 * MaxRequests)
\* Counts of other media (bound).
Counts == 1..MaxRequests
\* left: reads to come; loaded: the objects of the session with their counts;
\* fresh: new objects.
Memory == [kind : {"add", "batch", "done"}, left : Nat,
           loaded : [Ids -> Int \cup {None}], fresh : Nat]

TypeOK ==
    /\ dialect \in {"sqlite", "postgresql"}
    /\ row \in [Ids -> Int \cup {None}]
    /\ born \in 0..(2 * MaxRequests) /\ added \in Nat /\ asked \in 0..MaxRequests
    /\ tally \in Int /\ raced \in BOOLEAN
    /\ pc \in [Tasks -> {"idle", "read", "commit", "refresh", "failed"}]
    /\ mem \in [Tasks -> Memory \cup {None}]

NoRows == [i \in Ids |-> None]

Init ==
    /\ dialect \in {"sqlite", "postgresql"}
    /\ row = NoRows
    /\ born = 0 /\ added = 0 /\ asked = 0 /\ tally = 0 /\ raced = FALSE
    /\ pc = [t \in Tasks |-> "idle"]
    /\ mem = [t \in Tasks |-> None]

Goto(t, step) == pc' = [pc EXCEPT ![t] = step]
Present(r) == {i \in Ids : r[i] # None}
Overlaps == \E t \in Tasks : pc[t] \in {"read", "commit", "refresh"}

Ask(t, kind, k) ==
    /\ pc[t] = "idle" /\ asked < MaxRequests
    /\ asked' = asked + 1
    /\ raced' = (raced \/ Overlaps)
    /\ mem' = [mem EXCEPT ![t] = [kind |-> kind, left |-> k, loaded |-> NoRows, fresh |-> 0]]
    /\ Goto(t, "read")
    /\ UNCHANGED <<dialect, row, born, added, tally>>

AddSubscribe(t) == Ask(t, "add", 1)
BatchReport(t) == Ask(t, "batch", 2)
DoneSubscribe(t) == Ask(t, "done", 1)

\* A row that the session knows keeps the count it has there.
Known(t, i) == IF mem[t].loaded[i] # None THEN mem[t].loaded[i] ELSE row[i]

\* SubscribeStatistics.read takes the first row in no order.
Read(t) ==
    LET m == mem[t]
        change == IF m.kind = "done" THEN -1 ELSE 1
    IN
    /\ pc[t] = "read"
    /\ \/ \E i \in Present(row) :
             mem' = [mem EXCEPT ![t].left = @ - 1, ![t].loaded[i] = Known(t, i) + change]
       \/ Present(row) = {} /\ m.kind # "done" /\ mem' = [mem EXCEPT ![t].left = @ - 1, ![t].fresh = @ + 1]
       \/ Present(row) = {} /\ m.kind = "done" /\ mem' = [mem EXCEPT ![t].left = 0]
    /\ Goto(t, IF m.left = 1 THEN "commit" ELSE "read")
    /\ UNCHANGED <<dialect, row, born, added, asked, tally, raced>>

\* New rows follow the last id that PostgreSQL has drawn.  In SQLite they follow
\* the last row of the table, which may be one of another medium.
Lasts == {n \in 0..born : (dialect = "postgresql" => n = born) /\ \A i \in Present(row) : i <= n}

\* Mutant of Written: a new row of a batch starts with all that the batch brings.
WrittenTwice(t, last) ==
    [i \in Ids |-> IF i > last /\ i <= last + mem[t].fresh THEN mem[t].fresh
                   ELSE IF mem[t].loaded[i] = None \/ row[i] = None THEN row[i]
                   ELSE IF mem[t].loaded[i] > 0 THEN mem[t].loaded[i] ELSE None]

\* The rows of the medium as the commit of t leaves them.
Written(t, last) ==
    [i \in Ids |-> IF i > last /\ i <= last + mem[t].fresh THEN 1
                   ELSE IF mem[t].loaded[i] = None \/ row[i] = None THEN row[i]
                   ELSE IF mem[t].loaded[i] > 0 THEN mem[t].loaded[i] ELSE None]

\* An UPDATE of a row that is gone fails, with the whole transaction, unless a
\* row of another medium has its id by now; the DELETE of done_subscribe, at a
\* count of one, does not mind.
Stale(t) == \E i \in Present(mem[t].loaded) : mem[t].loaded[i] > 0 /\ row[i] = None

Commit(t) ==
    LET m == mem[t]
        brought == IF m.kind = "done" THEN 0 ELSE IF m.kind = "add" THEN 1 ELSE 2
    IN
    /\ pc[t] = "commit"
    /\ \/ /\ Stale(t)
          /\ Goto(t, "failed") /\ mem' = [mem EXCEPT ![t] = None]
          /\ UNCHANGED <<row, born, added, tally>>
       \/ /\ Stale(t) => dialect = "sqlite"
          /\ \E last \in Lasts : row' = Written(t, last)
          /\ born' = born + m.fresh
          /\ added' = added + brought
          /\ tally' = IF m.kind # "done" THEN tally + brought ELSE IF tally > 0 THEN tally - 1 ELSE 0
          /\ IF m.kind = "batch"
             THEN Goto(t, "idle") /\ mem' = [mem EXCEPT ![t] = None]
             ELSE /\ Goto(t, "refresh")
                  /\ mem' = [mem EXCEPT ![t].loaded =
                         [i \in Ids |-> IF row'[i] # row[i] THEN row'[i] ELSE None]]
    /\ UNCHANGED <<dialect, asked, raced>>

\* update and create end with db.refresh: it fails when the row is gone, unless
\* another has its id, although the transaction is committed.
Refresh(t) ==
    LET found == \A i \in Present(mem[t].loaded) : row[i] # None
    IN
    /\ pc[t] = "refresh"
    /\ \/ (found \/ dialect = "sqlite") /\ Goto(t, "idle")
       \/ ~found /\ Goto(t, "failed")
    /\ mem' = [mem EXCEPT ![t] = None]
    /\ UNCHANGED <<dialect, row, born, added, asked, tally, raced>>

\* An administrator or the cleanup.
Delete(i) ==
    /\ row[i] # None /\ asked < MaxRequests
    /\ row' = [row EXCEPT ![i] = None]
    /\ asked' = asked + 1
    /\ tally' = tally - row[i]
    /\ raced' = (raced \/ Overlaps)
    /\ UNCHANGED <<dialect, born, added, pc, mem>>

\* A request for another medium whose row is gone writes the count it has
\* computed for it, or deletes at a count of one: the id is now that of this row.
ForeignWrite(i, n) ==
    /\ dialect = "sqlite" /\ row[i] # None /\ asked < MaxRequests
    /\ row' = [row EXCEPT ![i] = n]
    /\ asked' = asked + 1
    /\ raced' = TRUE
    /\ UNCHANGED <<dialect, born, added, tally, pc, mem>>

Next ==
    \/ \E t \in Tasks : \/ AddSubscribe(t) \/ BatchReport(t) \/ DoneSubscribe(t)
                        \/ Read(t) \/ Commit(t) \/ Refresh(t)
    \/ \E i \in Ids : Delete(i) \/ \E n \in Counts \cup {None} : ForeignWrite(i, n)

Spec == Init /\ [][Next]_vars

-----------------------------------------------------------------------------
Popularity == SumFunctionOnSet(row, Present(row))

(* No interleaving of reports and cancellations leaves a medium with a      *)
(* count of zero or less: the row disappears instead.                       *)
PopularityPositive == \A i \in Present(row) : row[i] > 0

(* Reports that overlap may lose subscriptions, but never invent one, as    *)
(* long as no id is given twice: a count that SQLite lets into another row  *)
(* may be any.                                                              *)
NeverOvercounted == dialect = "postgresql" => Popularity <= added

(* Requests that do not overlap are counted exactly, also by a batch that   *)
(* names the medium twice, and none of them fails.                          *)
CountedAlone == ~raced => Popularity = tally /\ \A t \in Tasks : pc[t] # "failed"
=============================================================================
