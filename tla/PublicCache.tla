---------------------------- MODULE PublicCache ----------------------------
(***************************************************************************)
(* One entry of the in-process caches of app/core/cache.py.  Each server   *)
(* process has its own; a reader that misses queries the database, awaits  *)
(* the answer and stores it, and whatever happens between the two it       *)
(* stores what it has read.  The data are abstracted to the number of      *)
(* commits they contain.                                                   *)
(***************************************************************************)
EXTENDS FiniteSets, Integers

CONSTANTS
    Procs,          \* server processes
    None,           \* no entry
    MaxFills        \* bound: readers between their query and their store

VARIABLES
    cache,          \* what each process has stored
    fills           \* readers that have queried and not stored yet

\* late: the entry was deleted between the query and the store.
Entry == [at : Nat, late : BOOLEAN]
Fill == [home : Procs, at : Nat, late : BOOLEAN]

CacheTypeOK ==
    /\ cache \in [Procs -> Entry \cup {None}]
    /\ fills \subseteq Fill

CacheInit == cache = [p \in Procs |-> None] /\ fills = {}

\* cache.get finds nothing, or the caller does not ask; the query sees now.
Query(p, listing, now) ==
    /\ listing \/ cache[p] = None
    /\ Cardinality(fills) < MaxFills
    /\ fills' = fills \cup {[home |-> p, at |-> now, late |-> FALSE]}
    /\ UNCHANGED cache

\* cache.set with the payload of the query.
Store(f) ==
    /\ cache' = [cache EXCEPT ![f.home] = [at |-> f.at, late |-> f.late]]
    /\ fills' = fills \ {f}

\* cache.delete and clear_all: the entry goes, the readers in flight do not.
Forget(p) ==
    /\ cache' = [cache EXCEPT ![p] = None]
    /\ fills' = {[f EXCEPT !.late = f.late \/ f.home = p] : f \in fills}

\* The life time of the entry is over.
Expire(p) == cache[p] # None /\ cache' = [cache EXCEPT ![p] = None] /\ UNCHANGED fills

\* The process is gone with its memory.
Vanish(p) ==
    /\ cache' = [cache EXCEPT ![p] = None]
    /\ fills' = {f \in fills : f.home # p}

\* The process answers with data at least as new as the commit v, except from
\* an entry whose reader was under way when the entry was last deleted.
Fresh(p, v) == cache[p] # None /\ ~cache[p].late => cache[p].at >= v
=============================================================================
