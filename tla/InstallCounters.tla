-------------------------- MODULE InstallCounters --------------------------
(***************************************************************************)
(* The installation counter of one plugin (app/services/plugin_statistic.  *)
(* py), whose rows may differ in the case of the plugin's identifier: an   *)
(* atomic UPDATE of the exact spelling, else of a row that is found without *)
(* regard to case, else an INSERT that the unique index may refuse.        *)
(* The interleavings are those of PostgreSQL: on SQLite every report begins *)
(* with an UPDATE, which takes the write lock until the commit, so that its *)
(* behaviours are the serial ones among these, up to the names of ids.     *)
(***************************************************************************)
EXTENDS FiniteSetsExt, Integers

CONSTANTS
    Tasks,          \* requests in flight at the same time
    Names,          \* spellings of the plugin's identifier
    Camel,          \* those with a capital letter
    None,           \* no row
    MaxInstalls,    \* bound: installations that are reported
    MaxDeletes      \* bound: deletions by an administrator or the cleanup

VARIABLES
    row,            \* committed rows of PLUGIN_STATISTICS by spelling
    born,           \* rows inserted so far, the source of the ids
    reported,       \* installations that requests have brought
    credited,       \* of these, the ones whose transaction was committed
    removed,        \* installations counted in rows that were deleted
    deletes,        \* rows deleted
    pc, mem

vars == <<row, born, reported, credited, removed, deletes, pc, mem>>

Row == [id : Nat, count : Nat]
\* todo: the batch, aggregated by spelling; id: the row the lookup found.
Memory == [todo : [Names -> Nat], name : Names, id : Nat, retried : BOOLEAN]

TypeOK ==
    /\ row \in [Names -> Row \cup {None}]
    /\ {born, credited, removed} \subseteq Nat
    /\ reported \in 0..MaxInstalls /\ deletes \in 0..MaxDeletes
    /\ pc \in [Tasks -> {"idle", "update", "lookup", "byid", "insert", "refused"}]
    /\ mem \in [Tasks -> Memory \cup {None}]

Init ==
    /\ row = [n \in Names |-> None]
    /\ born = 0 /\ reported = 0 /\ credited = 0 /\ removed = 0 /\ deletes = 0
    /\ pc = [t \in Tasks |-> "idle"]
    /\ mem = [t \in Tasks |-> None]

Goto(t, step) == pc' = [pc EXCEPT ![t] = step]
Total(todo) == SumFunctionOnSet(todo, Names)
Present == {n \in Names : row[n] # None}

\* install_plugin and batch_install_plugins: one item per distinct spelling.
Report(t, todo, first) ==
    /\ pc[t] = "idle" /\ todo[first] > 0
    /\ reported + Total(todo) <= MaxInstalls
    /\ reported' = reported + Total(todo)
    /\ mem' = [mem EXCEPT ![t] = [todo |-> todo, name |-> first, id |-> 0, retried |-> FALSE]]
    /\ Goto(t, "update")
    /\ UNCHANGED <<row, born, credited, removed, deletes>>

\* The commit of one item; the loop goes on to the next one or answers.
Done(t) ==
    LET left == [mem[t].todo EXCEPT ![mem[t].name] = 0] IN
    /\ credited' = credited + mem[t].todo[mem[t].name]
    /\ \/ /\ Total(left) = 0
          /\ mem' = [mem EXCEPT ![t] = None] /\ Goto(t, "idle")
       \/ \E n \in Names :
             /\ left[n] > 0
             /\ mem' = [mem EXCEPT ![t] = [todo |-> left, name |-> n, id |-> 0, retried |-> FALSE]]
             /\ Goto(t, "update")
    /\ UNCHANGED <<reported, removed, deletes>>

\* Mutant of Add: an item counts once, however often it was in the batch.
AddOne(t, n) == row' = [row EXCEPT ![n].count = @ + 1] /\ UNCHANGED born

Add(t, n) == row' = [row EXCEPT ![n].count = @ + mem[t].todo[mem[t].name]] /\ UNCHANGED born

\* increment_count_by_plugin_id: UPDATE ... WHERE plugin_id = ...
UpdateExact(t) ==
    /\ pc[t] = "update"
    /\ IF row[mem[t].name] # None
       THEN Add(t, mem[t].name) /\ Done(t)
       ELSE Goto(t, "lookup") /\ UNCHANGED <<row, born, reported, credited, removed, deletes, mem>>

\* read_prefer_camel: the rows come in no order.
Lookup(t) ==
    /\ pc[t] = "lookup"
    /\ IF Present = {}
       THEN Goto(t, "insert") /\ UNCHANGED mem
       ELSE /\ \E n \in Present : /\ Present \cap Camel # {} => n \in Camel
                                  /\ mem' = [mem EXCEPT ![t].id = row[n].id]
            /\ Goto(t, "byid")
    /\ UNCHANGED <<row, born, reported, credited, removed, deletes>>

\* increment_count_by_id; nobody looks at the number of rows it updated.
UpdateById(t) ==
    /\ pc[t] = "byid"
    /\ \/ \E n \in Present : row[n].id = mem[t].id /\ Add(t, n)
       \/ (\A n \in Present : row[n].id # mem[t].id) /\ UNCHANGED <<row, born>>
    /\ Done(t)

\* IntegrityError: the item starts over once.
Conflict(t) ==
    /\ Goto(t, IF mem[t].retried THEN "refused" ELSE "update")
    /\ mem' = [mem EXCEPT ![t].retried = TRUE]

\* db.add and the commit.
InsertRow(t) ==
    LET n == mem[t].name IN
    /\ pc[t] = "insert"
    /\ IF row[n] = None
       THEN /\ row' = [row EXCEPT ![n] = [id |-> born + 1, count |-> mem[t].todo[n]]]
            /\ born' = born + 1
            /\ Done(t)
       ELSE Conflict(t) /\ UNCHANGED <<row, born, reported, credited, removed, deletes>>

Delete(n) ==
    /\ row[n] # None /\ deletes < MaxDeletes
    /\ removed' = removed + row[n].count
    /\ deletes' = deletes + 1
    /\ row' = [row EXCEPT ![n] = None]
    /\ UNCHANGED <<born, reported, credited, pc, mem>>

Next ==
    \/ \E t \in Tasks : UpdateExact(t) \/ Lookup(t) \/ UpdateById(t) \/ InsertRow(t)
    \/ \E t \in Tasks, todo \in [Names -> 0..2], first \in Names : Report(t, todo, first)
    \/ \E n \in Names : Delete(n)

Spec == Init /\ [][Next]_vars

-----------------------------------------------------------------------------
Counted == SumFunctionOnSet([n \in Names |-> row[n].count], Present) + removed

(* Every installation whose request was committed is counted once, in       *)
(* whichever spelling of the plugin; only the deletion of the row that a    *)
(* request has looked up makes it count nowhere.                            *)
InstallsCounted == Counted <= credited /\ (deletes = 0 => Counted = credited)

(* The one retry after a lost insert race is enough: a report fails only    *)
(* when the row that refused its insert was deleted again.                  *)
RefusedOnlyAfterDelete == (\E t \in Tasks : pc[t] = "refused") => deletes > 0
=============================================================================
