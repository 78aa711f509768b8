------------------------------- MODULE Shares -------------------------------
(***************************************************************************)
(* Shared subscriptions and shared workflows (app/services/subscribe_share. *)
(* py, workflow_share.py): their authors create and delete them, everybody *)
(* reuses them, and every process caches the listings.  A title is looked  *)
(* up before a share is inserted; no unique index backs the look-up.       *)
(***************************************************************************)
EXTENDS PublicCache, FiniteSetsExt

CONSTANTS
    Tasks,          \* requests in flight at the same time
    Titles,         \* title and nickname of a share
    Uids,           \* installations
    MaxShares,      \* bound: creations that are asked for
    MaxForks        \* bound: times a share is reused

VARIABLES
    table,          \* which of the two tables the behaviour is about
    dialect,        \* the database behind it, SQLite unless configured
    share,          \* committed rows by id
    drawn, asked,   \* ids the database has drawn; creations asked for
    commits,        \* creations and deletions committed
    done,           \* last of them a process has finished with
    raced,          \* two creations have overlapped
    chosen,         \* some creation brought an id of its own
    pc, mem

vars == <<cache, fills, table, dialect, share, drawn, asked, commits, done, raced, chosen, pc, mem>>

\* An id that a payload chooses is a small one (bound).
Chosen == 1..MaxShares
Ids == 1..(2 * MaxShares)
Share == [title : Titles, uid : Uids, count : Nat]
Memory == [kind : {"create", "delete"}, title : Titles, uid : Uids, home : Procs, id : Nat, at : Nat]

TypeOK ==
    /\ CacheTypeOK
    /\ table \in {"subscribe", "workflow"} /\ dialect \in {"sqlite", "postgresql"}
    /\ share \in [Ids -> Share \cup {None}]
    /\ drawn \in 0..MaxShares /\ asked \in 0..MaxShares
    /\ commits \in Nat /\ done \in [Procs -> Nat] /\ {raced, chosen} \subseteq BOOLEAN
    /\ pc \in [Tasks -> {"idle", "read", "insert", "delete", "refresh", "clear", "refused"}]
    /\ mem \in [Tasks -> Memory \cup {None}]

Init ==
    /\ CacheInit
    /\ table \in {"subscribe", "workflow"} /\ dialect \in {"sqlite", "postgresql"}
    /\ share = [i \in Ids |-> None]
    /\ drawn = 0 /\ asked = 0
    /\ commits = 0 /\ done = [p \in Procs |-> 0] /\ raced = FALSE /\ chosen = FALSE
    /\ pc = [t \in Tasks |-> "idle"]
    /\ mem = [t \in Tasks |-> None]

caches == <<cache, fills>>
tables == <<table, dialect>>
rows == <<tables, share, drawn, commits>>
history == <<asked, raced, chosen>>
Goto(t, step) == pc' = [pc EXCEPT ![t] = step]
Drop(t) == Goto(t, "idle") /\ mem' = [mem EXCEPT ![t] = None]
Present == {i \in Ids : share[i] # None}

\* A shared subscription counts its author as its first user.
FirstCount == IF table = "subscribe" THEN 1 ELSE 0

Ask(t, kind, title, uid, p, id) ==
    /\ pc[t] = "idle"
    /\ mem' = [mem EXCEPT ![t] = [kind |-> kind, title |-> title, uid |-> uid, home |-> p, id |-> id, at |-> 0]]
    /\ Goto(t, "read")
    /\ UNCHANGED <<caches, rows, done>>

\* The payload has a field "id": 0 stands for its usual value, null.
CreateShare(t, title, uid, p, id) ==
    /\ asked < MaxShares
    /\ asked' = asked + 1
    /\ raced' = (raced \/ \E o \in Tasks : mem[o] # None /\ mem[o].kind = "create")
    /\ chosen' = (chosen \/ id # 0)
    /\ Ask(t, "create", title, uid, p, id)

\* With the id of a share, whoever created it.
DeleteShare(t, id, uid, p) ==
    /\ \E title \in Titles : Ask(t, "delete", title, uid, p, id)
    /\ UNCHANGED history

\* Mutants of Taken, the look-up by the whole payload, and of Own.
Unknown(t) == \E i \in Present : share[i].title = mem[t].title /\ share[i].uid = mem[t].uid
Exists(t) == share[mem[t].id] # None

\* The look-ups: read by title and nickname, read_by_id with the check of the
\* installation.
Taken(t) == \E i \in Present : share[i].title = mem[t].title
Own(t) == share[mem[t].id] # None /\ share[mem[t].id].uid = mem[t].uid

\* A request that may not go on is answered with a code.
Read(t) ==
    /\ pc[t] = "read"
    /\ IF mem[t].kind = "create" /\ ~Taken(t) THEN Goto(t, "insert") /\ UNCHANGED mem
       ELSE IF mem[t].kind = "delete" /\ Own(t) THEN Goto(t, "delete") /\ UNCHANGED mem
       ELSE Drop(t)
    /\ UNCHANGED <<caches, rows, done, history>>

\* The ids of PostgreSQL come from the identity of the table.  SQLite gives an
\* integer key without AUTOINCREMENT: one more than the last row that is there.
NextId == IF dialect = "sqlite" THEN Max(Present \cup {0}) + 1 ELSE drawn + 1

\* The id is the payload's or the database's; the primary key refuses one that
\* is taken, and the request fails.
Insert(t) ==
    LET m == mem[t]
        id == IF m.id = 0 THEN NextId ELSE m.id IN
    /\ pc[t] = "insert"
    /\ drawn' = IF m.id = 0 THEN drawn + 1 ELSE drawn
    /\ IF share[id] = None
       THEN /\ share' = [share EXCEPT ![id] = [title |-> m.title, uid |-> m.uid, count |-> FirstCount]]
            /\ commits' = commits + 1
            /\ mem' = [mem EXCEPT ![t].id = id, ![t].at = commits + 1]
            /\ Goto(t, "refresh")
       ELSE /\ Goto(t, "refused") /\ UNCHANGED <<share, commits, mem>>
    /\ UNCHANGED <<caches, tables, done, history>>

\* db.refresh after the commit: without the row the request fails, and the
\* cache is not cleared.
Refresh(t) ==
    /\ pc[t] = "refresh"
    /\ IF share[mem[t].id] # None THEN Goto(t, "clear") /\ UNCHANGED mem ELSE Drop(t)
    /\ UNCHANGED <<caches, rows, done, history>>

\* DELETE ... WHERE id and its commit, whatever is left of the row.
Delete(t) ==
    /\ pc[t] = "delete"
    /\ share' = [share EXCEPT ![mem[t].id] = None]
    /\ commits' = commits + 1
    /\ mem' = [mem EXCEPT ![t].at = commits + 1]
    /\ Goto(t, "clear")
    /\ UNCHANGED <<caches, tables, drawn, done, history>>

ClearCache(t) ==
    LET m == mem[t] IN
    /\ pc[t] = "clear"
    /\ Forget(m.home)
    /\ done' = [done EXCEPT ![m.home] = IF @ < m.at THEN m.at ELSE @]
    /\ Drop(t)
    /\ UNCHANGED <<rows, history>>

\* An administrator, or the cleanup of old shares; the invalidation that follows
\* is the subject of CacheInvalidation.
Remove(i) ==
    /\ share[i] # None
    /\ share' = [share EXCEPT ![i] = None]
    /\ UNCHANGED <<caches, tables, drawn, commits, done, history, pc, mem>>

\* increment_count_by_id and its commit, one UPDATE; a share that is gone is
\* answered with success as well.
ForkShare(i) ==
    /\ share[i] # None /\ share[i].count < FirstCount + MaxForks
    /\ share' = [share EXCEPT ![i].count = @ + 1]
    /\ UNCHANGED <<caches, tables, drawn, commits, done, history, pc, mem>>

GetShares(p) == Query(p, FALSE, commits) /\ UNCHANGED <<rows, done, history, pc, mem>>
StoreShares(f) == Store(f) /\ UNCHANGED <<rows, done, history, pc, mem>>
ExpireShares(p) == Expire(p) /\ UNCHANGED <<rows, done, history, pc, mem>>

Next ==
    \/ \E t \in Tasks : Read(t) \/ Insert(t) \/ Refresh(t) \/ Delete(t) \/ ClearCache(t)
    \/ \E t \in Tasks, uid \in Uids, p \in Procs :
          \/ \E title \in Titles, id \in Chosen \cup {0} : CreateShare(t, title, uid, p, id)
          \/ \E i \in Ids : DeleteShare(t, i, uid, p)
    \/ \E i \in Ids : Remove(i) \/ ForkShare(i)
    \/ \E p \in Procs : GetShares(p) \/ ExpireShares(p)
    \/ \E f \in fills : StoreShares(f)

Spec == Init /\ [][Next]_vars

-----------------------------------------------------------------------------
(* A nickname shares a title once at a time, unless two of its requests     *)
(* overlap: nothing but the look-up before the insert prevents it.          *)
OneShareAlone ==
    ~raced => \A i, j \in Present : share[i].title = share[j].title => i = j

(* A request that was allowed to delete deletes the share it has looked up: *)
(* what disappears for its installation is its installation's, as long as   *)
(* the ids are drawn by PostgreSQL, which gives none twice.                 *)
OwnDeletion ==
    \A t \in Tasks, i \in Ids :
        Delete(t) /\ share[i] # None /\ share'[i] = None => share[i].uid = mem[t].uid
OwnersDelete == [][dialect = "postgresql" /\ ~chosen => OwnDeletion]_vars

(* "Only the sharer may delete" (subscribe_share.py, line 62; workflow_share *)
(* .py says the same), on either database and with the database's ids.      *)
(* SQLite gives the id of a share that is gone to the next one, and the     *)
(* deletion that follows the look-up asks for nothing but the id.           *)
OnlyOwnersDelete == [][~chosen => OwnDeletion]_vars

(* No creation fails on an id that is taken, unless payloads bring ids.     *)
IdsFit == (\E t \in Tasks : pc[t] = "refused") => chosen

(* A process that has answered a creation or a deletion does not go on      *)
(* serving a listing that was queried before it.                            *)
ListedAfterChange == \A p \in Procs : Fresh(p, done[p])
=============================================================================
