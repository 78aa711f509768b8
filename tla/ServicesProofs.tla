--------------------------- MODULE ServicesProofs ---------------------------
(* Proofs about the components of MCServices: what holds of each on small  *)
(* instances holds for every value of the constants.                       *)
EXTENDS MCServices, FiniteSetTheorems, TLAPS

-----------------------------------------------------------------------------
(* Cleanup.  While no lease has lapsed, who deletes has the lock; one       *)
(* transaction at a time has deletions in it, and of rows that are there.   *)

CleanupInv ==
    /\ Cleanup!TypeOK
    /\ ~lapsed => \A c \in Cleanup!Cleaners : pc[c] \in Cleanup!Holding \cup {"answer"} => lock = c
    /\ Cleanup!LockNotLeft
    /\ Cleanup!AuditExact
    /\ \A c \in Cleanup!Cleaners : marked[c] \subseteq rows
    /\ \A c, d \in Cleanup!Cleaners : marked[c] # {} /\ marked[d] # {} => c = d

\* The bounds, one by one.
LEMMA Bounds ==
    /\ MaxFaults \in Nat /\ MaxRuns \in Nat /\ Lifetime \in Nat /\ MaxTime \in Nat
    /\ Second \in Nat /\ Second > 0
BY BoundsAssumption

\* A set that is renamed keeps its size.
LEMMA SameCardinality == \A S : Cleanup!Cardinality(S) = Cardinality(S)
BY DEF Cleanup!Cardinality, Cardinality

\* Nothing is due at first.
LEMMA CleanupInit == Cleanup!Init => CleanupInv
<1> SUFFICES ASSUME Cleanup!Init PROVE CleanupInv
  OBVIOUS
<1>1. Cleanup!AuditExact
  <2>1. Rows \ rows = {}
    BY DEF Cleanup!Init
  <2> QED BY <2>1, FS_EmptySet, SameCardinality DEF Cleanup!Init, Cleanup!AuditExact
<1>2. Cleanup!TypeOK
  <2>1. lapsed \in BOOLEAN /\ orphaned \in BOOLEAN
    BY Zenon DEF Cleanup!Init
  <2>5. runs \in 0..MaxRuns /\ audited \in Nat
    BY Bounds DEF Cleanup!Init
  <2>2. proc \in [Procs -> {"off", "up", "down"}] /\ lock = None /\ rows \subseteq Rows
    BY DEF Cleanup!Init
  <2>3. pc \in [Cleanup!Cleaners -> Cleanup!Steps]
    BY DEF Cleanup!Init, Cleanup!Steps
  <2>4. marked \in [Cleanup!Cleaners -> SUBSET Rows]
    BY DEF Cleanup!Init
  <2> QED BY <2>1, <2>2, <2>3, <2>4, <2>5 DEF Cleanup!TypeOK
<1> QED BY <1>1, <1>2 DEF Cleanup!Init, CleanupInv, Cleanup!LockNotLeft, Cleanup!Holding

\* Rows that are deleted and reported together.
LEMMA AuditGrows ==
    ASSUME Cleanup!AuditExact, rows \subseteq Rows, NEW D, D \subseteq rows,
           rows' = rows \ D, audited' = audited + Cardinality(D)
    PROVE  Cleanup!AuditExact' /\ audited' \in Nat
<1>1. IsFiniteSet(Rows \ rows) /\ IsFiniteSet(D)
  BY BoundsAssumption, FS_Subset
<1>2. Rows \ rows' = (Rows \ rows) \cup D /\ (Rows \ rows) \cap D = {}
  OBVIOUS
<1>3. Cardinality(Rows \ rows') = Cardinality(Rows \ rows) + Cardinality(D)
  <2> DEFINE A == Rows \ rows
  <2>1. Cardinality(A \cup D) = Cardinality(A) + Cardinality(D) - Cardinality(A \cap D)
    BY <1>1, FS_Union
  <2>2. Cardinality(A \cap D) = 0
    BY <1>2, FS_EmptySet
  <2>3. Cardinality(A) \in Nat /\ Cardinality(D) \in Nat
    BY <1>1, FS_CardinalityType
  <2>4. Rows \ rows' = A \cup D
    BY <1>2
  <2> HIDE DEF A
  <2>5. Cardinality(A \cup D) = Cardinality(A) + Cardinality(D)
    BY <2>1, <2>2, <2>3
  <2> QED BY <2>4, <2>5 DEF A
<1>4. Cardinality(Rows \ rows) \in Nat /\ Cardinality(D) \in Nat
  BY <1>1, FS_CardinalityType
<1> QED BY <1>3, <1>4, SameCardinality DEF Cleanup!AuditExact

\* Steps of a cleanup before and after its transaction.
LEMMA CleanupLocks ==
    ASSUME CleanupInv, NEW c \in Cleanup!Cleaners,
           Cleanup!Begin(c) \/ Cleanup!SetLock(c) \/ Cleanup!LockAnswer(c) \/ Cleanup!Finish(c) \/ Cleanup!Release(c)
    PROVE  CleanupInv'
<1> USE DEF CleanupInv, Cleanup!TypeOK, Cleanup!Goto, Cleanup!flags, Cleanup!database
<1>1. UNCHANGED <<rows, audited, marked, lapsed>>
  BY DEF Cleanup!Begin, Cleanup!SetLock, Cleanup!LockAnswer, Cleanup!Finish, Cleanup!Release
<1>2. Cleanup!AuditExact'
  BY <1>1 DEF Cleanup!AuditExact
<1>3. Cleanup!TypeOK'
  <2>1. proc' = proc /\ lock' \in Cleanup!Cleaners \cup {None} /\ orphaned' \in BOOLEAN
    BY DEF Cleanup!Begin, Cleanup!SetLock, Cleanup!LockAnswer, Cleanup!Finish, Cleanup!Release, Cleanup!Unlock,
           Cleanup!LoseLock
  <2>2. runs' \in 0..MaxRuns
    BY Bounds DEF Cleanup!Begin, Cleanup!SetLock, Cleanup!LockAnswer, Cleanup!Finish, Cleanup!Release
  <2>3. pc' \in [Cleanup!Cleaners -> Cleanup!Steps]
    BY DEF Cleanup!Begin, Cleanup!SetLock, Cleanup!LockAnswer, Cleanup!Finish, Cleanup!Release,
           Cleanup!Steps, Cleanup!Holding
  <2> QED BY <1>1, <2>1, <2>2, <2>3
<1>4. ~lapsed' => \A d \in Cleanup!Cleaners : pc'[d] \in Cleanup!Holding \cup {"answer"} => lock' = d
  BY <1>1, AbsentAssumption
     DEF Cleanup!Begin, Cleanup!SetLock, Cleanup!LockAnswer, Cleanup!Finish, Cleanup!Release, Cleanup!Unlock,
         Cleanup!LoseLock, Cleanup!Holding
<1>5. Cleanup!LockNotLeft'
  <2> USE DEF Cleanup!LockNotLeft, Cleanup!Holding
  <2>1. CASE Cleanup!Begin(c) \/ Cleanup!Finish(c)
    BY <2>1 DEF Cleanup!Begin, Cleanup!Finish
  <2>2. CASE Cleanup!SetLock(c)
    BY <2>2, AbsentAssumption DEF Cleanup!SetLock
  <2>3. CASE Cleanup!LockAnswer(c)
    BY <2>3 DEF Cleanup!LockAnswer
  <2>4. CASE Cleanup!Release(c)
    BY <2>4 DEF Cleanup!Release, Cleanup!Unlock, Cleanup!LoseLock
  <2> QED BY <2>1, <2>2, <2>3, <2>4
<1> QED BY <1>1, <1>2, <1>3, <1>4, <1>5

\* The transaction.
LEMMA CleanupDeletes ==
    ASSUME CleanupInv, NEW c \in Cleanup!Cleaners, Cleanup!DeleteRows(c) \/ Cleanup!Commit(c)
    PROVE  CleanupInv'
<1> USE DEF CleanupInv, Cleanup!TypeOK, Cleanup!Goto, Cleanup!flags
<1>1. UNCHANGED <<lock, lapsed, orphaned, proc, runs>>
  BY DEF Cleanup!DeleteRows, Cleanup!Commit
<1>2. pc[c] \in Cleanup!Holding /\ pc'[c] \in Cleanup!Holding /\ \A d \in Cleanup!Cleaners \ {c} : pc'[d] = pc[d]
  BY DEF Cleanup!DeleteRows, Cleanup!Commit, Cleanup!Holding
<1>3. pc' \in [Cleanup!Cleaners -> Cleanup!Steps] /\ marked' \in [Cleanup!Cleaners -> SUBSET Rows]
  BY DEF Cleanup!DeleteRows, Cleanup!Commit, Cleanup!Steps, Cleanup!Holding
<1>4. /\ rows' \subseteq Rows /\ audited' \in Nat /\ Cleanup!AuditExact'
      /\ \A d \in Cleanup!Cleaners : marked'[d] \subseteq rows'
      /\ \A d, e \in Cleanup!Cleaners : marked'[d] # {} /\ marked'[e] # {} => d = e
  <2>1. CASE Cleanup!DeleteRows(c)
    <3>1. UNCHANGED <<rows, audited>> /\ \A d \in Cleanup!Cleaners : marked[d] = {}
      BY <2>1 DEF Cleanup!DeleteRows
    <3>2. marked' = [marked EXCEPT ![c] = rows] \/ marked' = marked
      BY <2>1 DEF Cleanup!DeleteRows
    <3>3. Cleanup!AuditExact'
      BY <3>1 DEF Cleanup!AuditExact
    <3>4. CASE marked' = marked
      BY <3>1, <3>3, <3>4
    <3>5. CASE marked' = [marked EXCEPT ![c] = rows]
      <4>1. \A d \in Cleanup!Cleaners : marked'[d] = IF d = c THEN rows ELSE {}
        BY <3>1, <3>5
      <4> QED BY <3>1, <3>3, <4>1
    <3> QED BY <3>2, <3>4, <3>5
  <2>2. CASE Cleanup!Commit(c)
    <3>1. rows' = rows \ marked[c] /\ audited' = audited + Cardinality(marked[c])
          /\ marked' = [marked EXCEPT ![c] = {}]
      BY <2>2, SameCardinality DEF Cleanup!Commit
    <3>2. Cleanup!AuditExact' /\ audited' \in Nat
      BY <3>1, AuditGrows
    <3>3. \A d \in Cleanup!Cleaners \ {c} : marked[d] # {} => marked[c] = {}
      OBVIOUS
    <3> QED BY <3>1, <3>2, <3>3
  <2> QED BY <2>1, <2>2
<1>5. Cleanup!LockNotLeft'
  BY <1>1, <1>2 DEF Cleanup!LockNotLeft
<1> QED BY <1>1, <1>2, <1>3, <1>4, <1>5

\* A scheduled task is cancelled with its process, or dies with it.
LEMMA CleanupStops ==
    ASSUME CleanupInv, NEW p \in Procs, Cleanup!StopServices(p) \/ Cleanup!Crash(p)
    PROVE  CleanupInv'
<1> USE DEF CleanupInv, Cleanup!TypeOK
<1>1. UNCHANGED <<rows, audited, lapsed, runs>>
  BY DEF Cleanup!StopServices, Cleanup!Cancel, Cleanup!Crash
<1>2. Cleanup!AuditExact'
  BY <1>1 DEF Cleanup!AuditExact
<1>3. /\ proc' \in [Procs -> {"off", "up", "down"}]
      /\ pc' \in [Cleanup!Cleaners -> Cleanup!Steps] /\ marked' \in [Cleanup!Cleaners -> SUBSET Rows]
      /\ \A d \in Cleanup!Cleaners : marked'[d] = marked[d] \/ marked'[d] = {}
      /\ \A d \in Cleanup!Cleaners : pc'[d] = pc[d] \/ pc'[d] = "idle" \/ (pc'[d] = "release" /\ pc[d] \in Cleanup!Holding)
  BY DEF Cleanup!StopServices, Cleanup!Cancel, Cleanup!Crash, Cleanup!Steps, Cleanup!Holding
<1>4. lock' \in Cleanup!Cleaners \cup {None} /\ orphaned' \in BOOLEAN
  BY DEF Cleanup!StopServices, Cleanup!Cancel, Cleanup!Crash, Cleanup!Unlock, Cleanup!LoseLock
<1>5. ~lapsed' => \A d \in Cleanup!Cleaners : pc'[d] \in Cleanup!Holding \cup {"answer"} => lock' = d
  <2> USE DEF Cleanup!Holding
  <2>1. CASE Cleanup!Crash(p)
    BY <1>1, <2>1 DEF Cleanup!Crash
  <2>2. CASE Cleanup!StopServices(p)
    <3> DEFINE c == <<p, "scheduler">>
    <3>1. Cleanup!Cancel(c) /\ c \in Cleanup!Cleaners
      BY <2>2 DEF Cleanup!StopServices, Cleanup!Cleaners
    <3> HIDE DEF c
    <3> QED BY <1>1, <3>1 DEF Cleanup!Cancel, Cleanup!Unlock, Cleanup!LoseLock
  <2> QED BY <2>1, <2>2
<1>6. Cleanup!LockNotLeft'
  <2> USE DEF Cleanup!LockNotLeft, Cleanup!Holding
  <2>1. CASE Cleanup!Crash(p)
    BY <2>1 DEF Cleanup!Crash
  <2>2. CASE Cleanup!StopServices(p)
    <3> DEFINE c == <<p, "scheduler">>
    <3>1. Cleanup!Cancel(c) /\ c \in Cleanup!Cleaners
      BY <2>2 DEF Cleanup!StopServices, Cleanup!Cleaners
    <3> HIDE DEF c
    <3>2. CASE pc[c] \in {"answer", "release"}
      <4>1. lock # c => lock' = lock /\ (orphaned' <=> orphaned)
        BY <3>1, <3>2 DEF Cleanup!Cancel, Cleanup!Unlock, Cleanup!LoseLock
      <4>2. lock = c => lock' = None \/ orphaned'
        BY <3>1, <3>2 DEF Cleanup!Cancel, Cleanup!Unlock, Cleanup!LoseLock
      <4>3. \A d \in Cleanup!Cleaners \ {c} : pc'[d] = pc[d]
        BY <3>1 DEF Cleanup!Cancel
      <4> QED BY <3>1, <4>1, <4>2, <4>3
    <3>3. CASE pc[c] \notin {"answer", "release"}
      BY <3>1, <3>3 DEF Cleanup!Cancel
    <3> QED BY <3>2, <3>3
  <2> QED BY <2>1, <2>2
<1> QED BY <1>1, <1>2, <1>3, <1>4, <1>5, <1>6

\* The invariant of the cleanup is inductive.
LEMMA CleanupStep ==
    ASSUME CleanupInv, Cleanup!Next
    PROVE  CleanupInv'
<1>1. ASSUME NEW p \in Procs, Cleanup!CloseRedis(p) \/ Cleanup!Start(p) PROVE CleanupInv'
  BY <1>1 DEF CleanupInv, Cleanup!TypeOK, Cleanup!CloseRedis, Cleanup!Start, Cleanup!flags, Cleanup!database,
              Cleanup!AuditExact, Cleanup!LockNotLeft
<1>2. CASE Cleanup!Lapse
  <2> USE DEF CleanupInv, Cleanup!TypeOK, Cleanup!database
  <2>1. lock \in Cleanup!Cleaners /\ lock' = None /\ lapsed' = (lapsed \/ pc[lock] # "idle")
        /\ UNCHANGED <<proc, orphaned, rows, audited, marked, pc, runs>>
    BY <1>2 DEF Cleanup!Lapse
  <2>2. lapsed' \in BOOLEAN /\ (~lapsed' => ~lapsed /\ pc[lock] = "idle")
    BY <2>1
  <2>3. ~lapsed' => \A d \in Cleanup!Cleaners : pc[d] \notin Cleanup!Holding \cup {"answer"}
    BY <2>1, <2>2 DEF Cleanup!Holding
  <2>4. Cleanup!AuditExact' /\ Cleanup!LockNotLeft'
    BY <2>1, AbsentAssumption DEF Cleanup!AuditExact, Cleanup!LockNotLeft
  <2>5. Cleanup!TypeOK'
    <3>1. orphaned' \in BOOLEAN /\ lapsed' \in BOOLEAN
      BY <2>1, <2>2
    <3> QED BY <2>1, <3>1
  <2>6. \A c \in Cleanup!Cleaners : marked'[c] \subseteq rows'
    BY <2>1
  <2>7. \A c, d \in Cleanup!Cleaners : marked'[c] # {} /\ marked'[d] # {} => c = d
    BY <2>1
  <2>8. ~lapsed' => \A c \in Cleanup!Cleaners : pc'[c] \in Cleanup!Holding \cup {"answer"} => lock' = c
    BY <2>1, <2>3
  <2> QED BY <2>4, <2>5, <2>6, <2>7, <2>8
<1> QED BY <1>1, <1>2, CleanupLocks, CleanupDeletes, CleanupStops DEF Cleanup!Next

\* One cleanup at a time, no lock left behind, an exact audit log.
THEOREM CleansUp == Spec => []CleanupCorrect
<1> DEFINE Inv == part = "cleanup" => CleanupInv
<1>1. Init => Inv
  BY CleanupInit DEF Init
<1>2. Inv /\ [Next]_vars => Inv'
  <2> SUFFICES ASSUME Inv, [Next]_vars, part' = "cleanup" PROVE CleanupInv'
    OBVIOUS
  <2>1. part = "cleanup" /\ (Cleanup!Next \/ UNCHANGED vars)
    BY DEF Next, vars
  <2>2. CASE UNCHANGED vars
    BY <2>1, <2>2 DEF vars, CleanupInv, Cleanup!TypeOK, Cleanup!AuditExact, Cleanup!LockNotLeft
  <2> QED BY <2>1, <2>2, CleanupStep
<1>3. Inv => CleanupCorrect
  BY DEF CleanupCorrect, CleanupInv, Cleanup!OneCleanup
<1> HIDE DEF Inv
<1> QED BY <1>1, <1>2, <1>3, PTL DEF Spec

-----------------------------------------------------------------------------
(* Migration.  Who writes is alone; what a worker has inspected is behind   *)
(* what it sees, never ahead; each step has done its part of the table, so  *)
(* that the one who commits commits the final schema.                       *)

Tables == [exists : BOOLEAN, unified : BOOLEAN, legacy : BOOLEAN,
           moved : BOOLEAN, indexed : BOOLEAN, checked : BOOLEAN]

Good(t) ==
    /\ t \in Tables
    /\ t = Schema!Absent \/ (t.exists /\ (t.unified \/ t.legacy))
    /\ ~t.legacy \/ t.checked => t.moved

Opening == {"create", "inspect", "columns", "inspect rows", "rows"}
Writing == {"legacy", "indexes", "constraint", "commit"}

\* What the step of a worker says of the table it sees, t, and of the one it
\* has inspected, s.
Reached(step, s, t) ==
    /\ step \in Opening \cup Writing =>
          (s.exists => t.exists) /\ (s.unified => t.unified) /\ (t.legacy => s.legacy)
    /\ step \in (Opening \cup Writing) \ {"create"} => t.exists
    /\ step \in {"inspect rows", "rows"} \cup Writing => t.unified
    /\ step \in Writing => t.moved
    /\ step = "legacy" => (s.legacy => t.legacy)
    /\ step \in Writing \ {"legacy"} => ~t.legacy
    /\ step \in {"constraint", "commit"} => t.indexed
    /\ step = "commit" => t.checked

\* On PostgreSQL the lock keeps what was inspected true.
Undisturbed(w) ==
    /\ pc[w] \in Opening \cup Writing => lock = w
    /\ pc[w] \in {"create", "columns", "rows"} => seen[w] = Schema!Sees(w)
    /\ pc[w] = "old schema" => w \in hit

Alone(w) ==
    /\ pc[w] \in Writing => writer = w
    /\ writer = w => pc[w] \in (Opening \cup Writing) \ {"create"}
    /\ dialect = "sqlite" /\ writer = w => pc[w] \in Writing

SchemaTypes ==
    /\ dialect \in {"postgresql", "sqlite"}
    /\ db \in Tables /\ draft \in [Procs -> Tables] /\ seen \in [Procs -> Tables]
    /\ writer \in Procs \cup {None} /\ lock \in Procs \cup {None}
    /\ pc \in [Procs -> Opening \cup Writing \cup {"start", "serving", "old schema"}]
    /\ hit \subseteq Procs /\ faults \in 0..MaxFaults

SchemaInv ==
    /\ SchemaTypes
    /\ Good(db)
    /\ \A w \in Procs : Good(draft[w]) /\ Good(seen[w])
    /\ \A w \in Procs : Reached(pc[w], seen[w], Schema!Sees(w))
    /\ \A w \in Procs : Alone(w)
    /\ dialect = "postgresql" => \A w \in Procs : Undisturbed(w)
    /\ Schema!MigratedMeansFinal

\* The steps by name.
LEMMA SchemaSteps == Schema!StepNames = Opening \cup Writing
<1>1. DOMAIN Schema!Steps = 1..9
  BY DEF Schema!Steps
<1>2. /\ Schema!Steps[1] = "create" /\ Schema!Steps[2] = "inspect" /\ Schema!Steps[3] = "columns"
      /\ Schema!Steps[4] = "inspect rows" /\ Schema!Steps[5] = "rows" /\ Schema!Steps[6] = "legacy"
      /\ Schema!Steps[7] = "indexes" /\ Schema!Steps[8] = "constraint" /\ Schema!Steps[9] = "commit"
  BY DEF Schema!Steps
<1>3. \A i \in 1..9 : i = 1 \/ i = 2 \/ i = 3 \/ i = 4 \/ i = 5 \/ i = 6 \/ i = 7 \/ i = 8 \/ i = 9
  OBVIOUS
<1>4. {1, 2, 3, 4, 5, 6, 7, 8, 9} \subseteq 1..9
  OBVIOUS
<1>5. \A x \in Schema!StepNames : x \in Opening \cup Writing
  BY ZenonT(30), <1>1, <1>2, <1>3 DEF Schema!StepNames, Opening, Writing
<1>6. \A i \in 1..9 : Schema!Steps[i] \in Schema!StepNames
  BY <1>1 DEF Schema!StepNames
<1>7. \A x \in Opening \cup Writing : x \in Schema!StepNames
  BY <1>2, <1>4, <1>6 DEF Opening, Writing
<1> QED BY <1>5, <1>7

\* A table is what its columns and constraints are.
LEMMA FinalTable ==
    ASSUME NEW t \in Tables, t.exists, t.unified, ~t.legacy, t.moved, t.indexed, t.checked
    PROVE  t = Schema!Final
BY DEF Tables, Schema!Final, Schema!Table

\* The tables that a migration may find.
LEMMA FoundTables ==
    \A t \in {Schema!Absent, Schema!Oldest, Schema!Final} \cup Schema!Earlier : Good(t)
<1>1. \A e, u, l, m, i, c \in BOOLEAN : Schema!Table(e, u, l, m, i, c) \in Tables
  BY DEF Tables, Schema!Table
<1>2. Good(Schema!Absent)
  <2>1. Schema!Absent \in Tables
    BY <1>1 DEF Schema!Absent
  <2>2. Schema!Absent.moved
    BY DEF Schema!Absent, Schema!Table
  <2> QED BY <2>1, <2>2 DEF Good
<1>3. ASSUME NEW u \in BOOLEAN, NEW l \in BOOLEAN, NEW m \in BOOLEAN, NEW i \in BOOLEAN, NEW c \in BOOLEAN,
             u \/ l, ~l \/ c => m
      PROVE  Good(Schema!Table(TRUE, u, l, m, i, c))
  <2> DEFINE t == Schema!Table(TRUE, u, l, m, i, c)
  <2>1. t \in Tables
    BY <1>1
  <2>2. t.exists = TRUE /\ t.unified = u /\ t.legacy = l /\ t.moved = m /\ t.checked = c
    BY Zenon DEF Schema!Table
  <2> HIDE DEF t
  <2>3. Good(t)
    BY Zenon, <1>3, <2>1, <2>2 DEF Good
  <2> QED BY <2>3 DEF t
<1> QED BY <1>2, <1>3 DEF Schema!Oldest, Schema!Final, Schema!Earlier

\* The type of the component, from the stronger one.
LEMMA SchemaTyped == SchemaInv => Schema!TypeOK
<1> SUFFICES ASSUME SchemaInv PROVE Schema!TypeOK
  OBVIOUS
<1>1. \A t \in {db} \cup {draft[w] : w \in Procs} \cup {seen[w] : w \in Procs} :
          t = Schema!Absent \/ (t.exists /\ (t.unified \/ t.legacy))
  BY DEF SchemaInv, Good
<1> QED BY <1>1, SchemaSteps DEF SchemaInv, SchemaTypes, Schema!TypeOK

\* Any former schema, and no start yet.
LEMMA SchemaInit == Schema!Init => SchemaInv
<1> SUFFICES ASSUME Schema!Init PROVE SchemaInv
  OBVIOUS
<1>1. Good(db)
  BY FoundTables DEF Schema!Init
<1>2. /\ db \in Tables /\ draft = [w \in Procs |-> db] /\ seen = [w \in Procs |-> db]
      /\ pc = [w \in Procs |-> "start"]
      /\ writer = None /\ lock = None /\ hit = {} /\ faults = 0 /\ dialect \in {"postgresql", "sqlite"}
  BY <1>1 DEF Schema!Init, Good
<1>3. SchemaTypes
  BY <1>2, Bounds DEF SchemaTypes
<1>4. \A w \in Procs : Reached(pc[w], seen[w], Schema!Sees(w)) /\ Alone(w) /\ Undisturbed(w)
  BY <1>2, AbsentAssumption DEF Reached, Alone, Undisturbed, Opening, Writing
<1> QED BY <1>1, <1>2, <1>3, <1>4 DEF SchemaInv, Schema!MigratedMeansFinal
\* What may become of a table that another worker has inspected.
Later(s, t) == (s.exists => t.exists) /\ (s.unified => t.unified) /\ (t.legacy => s.legacy)

\* The others, when u takes a step.
LEMMA Bystanders ==
    ASSUME SchemaInv, NEW u \in Procs, dialect' = dialect,
           NEW w \in Procs \ {u},
           pc'[w] = pc[w], seen'[w] = seen[w],
           writer' = w <=> writer = w,
           lock = w => lock' = w,
           w \in hit => w \in hit',
           \/ pc[w] \notin Opening \cup Writing
           \/ Schema!Sees(w)' = Schema!Sees(w)
           \/ dialect = "sqlite" /\ pc[w] \in Opening /\ Later(Schema!Sees(w), Schema!Sees(w)')
    PROVE  Reached(pc[w], seen[w], Schema!Sees(w))' /\ Alone(w)' /\ (dialect' = "postgresql" => Undisturbed(w)')
<1>1. Reached(pc[w], seen[w], Schema!Sees(w)) /\ Alone(w) /\ (dialect = "postgresql" => Undisturbed(w))
  BY DEF SchemaInv
<1>2. Reached(pc[w], seen[w], Schema!Sees(w)')
  BY <1>1 DEF Reached, Later, Opening, Writing
<1>3. Reached(pc[w], seen[w], Schema!Sees(w))'
  BY <1>2
<1>4. Alone(w)'
  BY <1>1 DEF Alone
<1>5. dialect' = "postgresql" => Undisturbed(w)'
  BY <1>1 DEF Undisturbed, Opening, Writing
<1> QED BY <1>3, <1>4, <1>5

\* A step that leaves the tables alone.
LEMMA Watching ==
    ASSUME SchemaInv, NEW u \in Procs,
           UNCHANGED <<dialect, db, draft, writer, faults>>,
           NEW step \in Opening \cup {"start"}, pc' = [pc EXCEPT ![u] = step], writer = u => step \notin {"start", "create"},
           writer = u => dialect # "sqlite",
           seen' \in [Procs -> Tables], Good(seen'[u]), \A w \in Procs \ {u} : seen'[w] = seen[w],
           lock' \in Procs \cup {None}, \A w \in Procs \ {u} : lock = w => lock' = w,
           hit' \subseteq Procs, \A w \in Procs \ {u} : w \in hit => w \in hit',
           Reached(step, seen'[u], Schema!Sees(u)),
           dialect = "postgresql" /\ step # "start" => lock' = u /\ (step \in {"create", "columns", "rows"} => seen'[u] = Schema!Sees(u))
    PROVE  SchemaInv'
<1>1. SchemaTypes'
  BY DEF SchemaInv, SchemaTypes
<1>2. \A w \in Procs : Schema!Sees(w)' = Schema!Sees(w)
  BY DEF Schema!Sees
<1>3. pc'[u] = step /\ \A w \in Procs \ {u} : pc'[w] = pc[w]
  BY DEF SchemaInv, SchemaTypes
<1>4. \A w \in Procs \ {u} : Reached(pc[w], seen[w], Schema!Sees(w))' /\ Alone(w)'
                            /\ (dialect' = "postgresql" => Undisturbed(w)')
  BY <1>2, <1>3, Bystanders
<1>5. Reached(pc[u], seen[u], Schema!Sees(u))'
  BY <1>2, <1>3
<1>6. Alone(u)'
  BY <1>3 DEF Alone, Opening, Writing
<1>7. dialect' = "postgresql" => Undisturbed(u)'
  BY <1>2, <1>3 DEF Undisturbed, Opening, Writing
<1>8. Schema!MigratedMeansFinal'
  BY <1>3 DEF SchemaInv, Schema!MigratedMeansFinal, Opening
<1>9. Good(db)' /\ \A w \in Procs : Good(draft[w])' /\ Good(seen[w])'
  BY DEF SchemaInv
<1> QED BY <1>1, <1>4, <1>5, <1>6, <1>7, <1>8, <1>9 DEF SchemaInv

\* A worker that writes in its transaction.
LEMMA Drafting ==
    ASSUME SchemaInv, NEW u \in Procs, writer \in {None, u}, writer' = u,
           UNCHANGED <<dialect, db, seen, lock, hit, faults>>,
           pc[u] \in Opening \cup Writing,
           NEW t, Good(t), draft' = [draft EXCEPT ![u] = t],
           NEW step \in (Opening \cup Writing) \ {"create"}, pc' = [pc EXCEPT ![u] = step],
           dialect = "sqlite" => step \in Writing,
           dialect = "postgresql" => step \notin {"columns", "rows"},
           Reached(step, seen[u], t)
    PROVE  SchemaInv'
<1>1. t \in Tables
  BY DEF Good
<1>2. SchemaTypes'
  BY <1>1 DEF SchemaInv, SchemaTypes
<1>3. /\ pc'[u] = step /\ draft'[u] = t
      /\ \A w \in Procs \ {u} : pc'[w] = pc[w] /\ draft'[w] = draft[w]
  BY DEF SchemaInv, SchemaTypes
<1>4. Schema!Sees(u)' = t /\ \A w \in Procs \ {u} : Schema!Sees(w)' = Schema!Sees(w)
  BY <1>3, AbsentAssumption DEF Schema!Sees
<1>5. \A w \in Procs \ {u} : Reached(pc[w], seen[w], Schema!Sees(w))' /\ Alone(w)'
                            /\ (dialect' = "postgresql" => Undisturbed(w)')
  BY <1>3, <1>4, Bystanders, AbsentAssumption
<1>6. Reached(pc[u], seen[u], Schema!Sees(u))'
  BY <1>3, <1>4
<1>7. Alone(u)'
  BY <1>3 DEF Alone
<1>8. dialect' = "postgresql" => Undisturbed(u)'
  BY <1>3 DEF SchemaInv, Undisturbed, Opening, Writing
<1>9. Schema!MigratedMeansFinal'
  BY <1>3 DEF SchemaInv, Schema!MigratedMeansFinal, Opening, Writing
<1>10. Good(db)' /\ \A w \in Procs : Good(draft[w])' /\ Good(seen[w])'
  BY <1>3 DEF SchemaInv
<1> QED BY <1>2, <1>5, <1>6, <1>7, <1>8, <1>9, <1>10 DEF SchemaInv

\* One fault more.
LEMMA FaultCounted ==
    ASSUME SchemaInv, faults < MaxFaults, faults' = faults + 1
    PROVE  faults' \in 0..MaxFaults
<1>1. faults \in 0..MaxFaults
  BY DEF SchemaInv, SchemaTypes
<1> QED BY <1>1, Bounds

\* A statement that fails, when it is not the fault of another worker.
LEMMA Abandoning ==
    ASSUME SchemaInv, NEW u \in Procs, Schema!Abandon(u), dialect' = dialect,
           pc[u] \in Opening \cup Writing,
           faults' \in 0..MaxFaults, hit' \subseteq Procs, hit \subseteq hit',
           dialect = "postgresql" => u \in hit'
    PROVE  SchemaInv'
<1>1. SchemaTypes'
  BY DEF SchemaInv, SchemaTypes, Schema!Abandon, Schema!Goto
<1>2. pc'[u] = "old schema" /\ \A w \in Procs \ {u} : pc'[w] = pc[w]
  BY DEF SchemaInv, SchemaTypes, Schema!Abandon, Schema!Goto
<1>3. /\ UNCHANGED <<db, draft, seen>>
      /\ writer' = (IF writer = u THEN None ELSE writer) /\ lock' = (IF lock = u THEN None ELSE lock)
  BY DEF Schema!Abandon
<1>4. \A w \in Procs \ {u} : Schema!Sees(w)' = Schema!Sees(w)
  BY <1>3, AbsentAssumption DEF Schema!Sees
<1>5. \A w \in Procs \ {u} : Reached(pc[w], seen[w], Schema!Sees(w))' /\ Alone(w)'
                            /\ (dialect' = "postgresql" => Undisturbed(w)')
  BY <1>2, <1>3, <1>4, Bystanders, AbsentAssumption
<1>6. Reached(pc[u], seen[u], Schema!Sees(u))' /\ Alone(u)' /\ (dialect' = "postgresql" => Undisturbed(u)')
  BY <1>2, <1>3, AbsentAssumption DEF Reached, Alone, Undisturbed, Opening, Writing
<1>7. Schema!MigratedMeansFinal'
  BY <1>2, <1>3 DEF SchemaInv, Schema!MigratedMeansFinal
<1>8. Good(db)' /\ \A w \in Procs : Good(draft[w])' /\ Good(seen[w])'
  BY <1>3 DEF SchemaInv
<1> QED BY <1>1, <1>5, <1>6, <1>7, <1>8 DEF SchemaInv
\* One column or one constraint of a table is changed.
LEMMA Edited ==
    ASSUME NEW t \in Tables, NEW b \in BOOLEAN
    PROVE  /\ [t EXCEPT !.unified = b] \in Tables /\ [t EXCEPT !.legacy = b] \in Tables
           /\ [t EXCEPT !.moved = b] \in Tables /\ [t EXCEPT !.indexed = b] \in Tables
           /\ [t EXCEPT !.checked = b] \in Tables
           /\ \A r : r = [t EXCEPT !.unified = b] =>
                r.unified = b /\ r.exists = t.exists /\ r.legacy = t.legacy /\ r.moved = t.moved
                /\ r.indexed = t.indexed /\ r.checked = t.checked
           /\ \A r : r = [t EXCEPT !.legacy = b] =>
                r.legacy = b /\ r.exists = t.exists /\ r.unified = t.unified /\ r.moved = t.moved
                /\ r.indexed = t.indexed /\ r.checked = t.checked
           /\ \A r : r = [t EXCEPT !.moved = b] =>
                r.moved = b /\ r.exists = t.exists /\ r.unified = t.unified /\ r.legacy = t.legacy
                /\ r.indexed = t.indexed /\ r.checked = t.checked
           /\ \A r : r = [t EXCEPT !.indexed = b] =>
                r.indexed = b /\ r.exists = t.exists /\ r.unified = t.unified /\ r.legacy = t.legacy
                /\ r.moved = t.moved /\ r.checked = t.checked
           /\ \A r : r = [t EXCEPT !.checked = b] =>
                r.checked = b /\ r.exists = t.exists /\ r.unified = t.unified /\ r.legacy = t.legacy
                /\ r.moved = t.moved /\ r.indexed = t.indexed
BY DEF Tables

\* What a worker sees is a table that may be there.
LEMMA Seeing ==
    ASSUME SchemaInv, NEW w \in Procs
    PROVE  /\ Good(Schema!Sees(w)) /\ Schema!Sees(w) \in Tables /\ seen[w] \in Tables /\ draft[w] \in Tables
           /\ Reached(pc[w], seen[w], Schema!Sees(w)) /\ Alone(w)
           /\ dialect = "postgresql" => Undisturbed(w)
           /\ Schema!Sees(w) = IF writer = w THEN draft[w] ELSE db
<1>1. Schema!Sees(w) = IF writer = w THEN draft[w] ELSE db
  BY DEF Schema!Sees
<1> QED BY <1>1 DEF SchemaInv, Good, SchemaTypes

\* A start begins its migration.
LEMMA SchemaBegins ==
    ASSUME SchemaInv, NEW u \in Procs, Schema!Begin(u)
    PROVE  SchemaInv'
<1>1. /\ UNCHANGED <<dialect, db, draft, writer, faults, hit>>
      /\ pc[u] = "start" /\ pc' = [pc EXCEPT ![u] = "create"] /\ seen' = [seen EXCEPT ![u] = db]
  BY DEF Schema!Begin, Schema!Goto, Schema!Fixed
<1>2. lock' \in Procs \cup {None} /\ (\A w \in Procs \ {u} : lock = w => lock' = w)
      /\ (dialect = "postgresql" => lock' = u)
  BY AbsentAssumption DEF Schema!Begin, SchemaInv, SchemaTypes
<1>3. writer # u
  BY <1>1, Seeing DEF Alone, Opening, Writing
<1>4. Schema!Sees(u) = db
  BY <1>3, Seeing
<1>5. seen' \in [Procs -> Tables] /\ seen'[u] = db /\ (\A w \in Procs \ {u} : seen'[w] = seen[w])
  BY <1>1 DEF SchemaInv, SchemaTypes
<1>6. Good(seen'[u]) /\ hit \subseteq Procs
  BY <1>5 DEF SchemaInv, SchemaTypes
<1>7. Reached("create", seen'[u], Schema!Sees(u))
  BY <1>4, <1>5 DEF Reached, Writing
<1> QED BY <1>1, <1>2, <1>3, <1>4, <1>5, <1>6, <1>7, Watching DEF Opening

\* The schema is inspected.
LEMMA SchemaInspects ==
    ASSUME SchemaInv, NEW u \in Procs, Schema!Inspect(u)
    PROVE  SchemaInv'
<1>1. /\ UNCHANGED <<dialect, db, draft, writer, faults, hit, lock>>
      /\ seen' = [seen EXCEPT ![u] = Schema!Sees(u)]
  BY DEF Schema!Inspect, Schema!Fixed
<1>2. PICK step \in {"columns", "rows"} :
          /\ pc' = [pc EXCEPT ![u] = step]
          /\ step = "columns" => pc[u] = "inspect"
          /\ step = "rows" => pc[u] = "inspect rows"
  BY DEF Schema!Inspect, Schema!Goto
<1>3. writer = u => dialect # "sqlite"
  BY <1>2, Seeing DEF Alone, Writing
<1>4. seen' \in [Procs -> Tables] /\ seen'[u] = Schema!Sees(u) /\ (\A w \in Procs \ {u} : seen'[w] = seen[w])
  BY <1>1, Seeing DEF SchemaInv, SchemaTypes
<1>5. Good(seen'[u]) /\ hit \subseteq Procs /\ lock \in Procs \cup {None}
  BY <1>4, Seeing DEF SchemaInv, SchemaTypes
<1>6. Reached(step, seen'[u], Schema!Sees(u))
  BY <1>2, <1>4, Seeing DEF Reached, Opening, Writing
<1>7. dialect = "postgresql" => lock' = u
  BY <1>1, <1>2, Seeing DEF Undisturbed, Opening
<1>8. step \in Opening \cup {"start"} /\ step \notin {"start", "create"}
  BY <1>2 DEF Opening
<1> QED BY <1>1, <1>2, <1>3, <1>4, <1>5, <1>6, <1>7, <1>8, Watching

\* The process starts again.
LEMMA SchemaRestarts ==
    ASSUME SchemaInv, NEW u \in Procs, Schema!Restart(u)
    PROVE  SchemaInv'
<1>1. /\ UNCHANGED <<dialect, db, draft, seen, writer, lock>>
      /\ faults' \in 0..MaxFaults /\ hit' = hit \ {u}
      /\ pc[u] \in {"serving", "old schema"} /\ pc' = [pc EXCEPT ![u] = "start"]
  BY FaultCounted DEF Schema!Restart, Schema!Goto
<1>2. writer # u
  BY <1>1, Seeing DEF Alone, Opening, Writing
<1>3. SchemaTypes'
  BY <1>1 DEF SchemaInv, SchemaTypes
<1>4. pc'[u] = "start" /\ \A w \in Procs \ {u} : pc'[w] = pc[w]
  BY <1>1 DEF SchemaInv, SchemaTypes
<1>5. \A w \in Procs : Schema!Sees(w)' = Schema!Sees(w)
  BY <1>1 DEF Schema!Sees
<1>6. \A w \in Procs \ {u} : Reached(pc[w], seen[w], Schema!Sees(w))' /\ Alone(w)'
                            /\ (dialect' = "postgresql" => Undisturbed(w)')
  BY <1>1, <1>4, <1>5, Bystanders
<1>7. Reached(pc[u], seen[u], Schema!Sees(u))' /\ Alone(u)' /\ Undisturbed(u)'
  BY <1>1, <1>2, <1>4 DEF Reached, Alone, Undisturbed, Opening, Writing
<1>8. Schema!MigratedMeansFinal'
  BY <1>1, <1>4 DEF SchemaInv, Schema!MigratedMeansFinal
<1>9. Good(db)' /\ \A w \in Procs : Good(draft[w])' /\ Good(seen[w])'
  BY <1>1 DEF SchemaInv
<1> QED BY <1>3, <1>6, <1>7, <1>8, <1>9 DEF SchemaInv

\* A statement fails, or the process dies.
LEMMA SchemaFaults ==
    ASSUME SchemaInv, NEW u \in Procs, Schema!Fault(u)
    PROVE  SchemaInv'
<1>1. faults' \in 0..MaxFaults /\ hit' = hit \cup {u} /\ hit' \subseteq Procs
  BY FaultCounted DEF Schema!Fault, SchemaInv, SchemaTypes
<1>2. pc[u] \in Opening \cup Writing /\ Schema!Abandon(u) /\ dialect' = dialect
  BY SchemaSteps DEF Schema!Fault
<1> QED BY <1>1, <1>2, Abandoning
\* What comes before the transaction of SQLite is committed at once.
LEMMA Publishing ==
    ASSUME SchemaInv, NEW u \in Procs, dialect = "sqlite", pc[u] \in Opening, writer \in {None, u},
           UNCHANGED <<dialect, draft, seen, writer, lock, hit, faults>>,
           NEW t, Good(t), db' = t, Later(db, t), db # Schema!Final \/ t = Schema!Final,
           NEW step \in Opening, pc' = [pc EXCEPT ![u] = step],
           Reached(step, seen[u], t)
    PROVE  SchemaInv'
<1>1. writer = None
  BY Seeing DEF Alone, Opening, Writing
<1>2. SchemaTypes'
  BY DEF SchemaInv, SchemaTypes, Good
<1>3. pc'[u] = step /\ \A w \in Procs \ {u} : pc'[w] = pc[w]
  BY DEF SchemaInv, SchemaTypes
<1>4. \A w \in Procs : Schema!Sees(w) = db /\ Schema!Sees(w)' = t
  BY <1>1, AbsentAssumption DEF Schema!Sees
<1>5. \A w \in Procs : pc[w] \notin Writing
  BY <1>1, Seeing, AbsentAssumption DEF Alone
<1>6. ASSUME NEW w \in Procs \ {u}
      PROVE  Reached(pc[w], seen[w], Schema!Sees(w))' /\ Alone(w)' /\ (dialect' = "postgresql" => Undisturbed(w)')
  <2>1. pc[w] \notin Opening \cup Writing \/ (pc[w] \in Opening /\ Later(Schema!Sees(w), Schema!Sees(w)'))
    BY <1>4, <1>5
  <2> QED BY <1>3, <2>1, Bystanders
<1>7. Reached(pc[u], seen[u], Schema!Sees(u))' /\ Alone(u)'
  BY <1>1, <1>3, <1>4, AbsentAssumption DEF Alone, Opening, Writing
<1>8. Schema!MigratedMeansFinal'
  BY <1>3 DEF SchemaInv, Schema!MigratedMeansFinal, Opening
<1>9. Good(db)' /\ \A w \in Procs : Good(draft[w])' /\ Good(seen[w])'
  BY DEF SchemaInv
<1> QED BY <1>2, <1>6, <1>7, <1>8, <1>9 DEF SchemaInv

\* What was inspected on PostgreSQL is still there, so that a statement fails
\* on SQLite only.
LEMMA SchemaOverruled ==
    ASSUME SchemaInv, NEW u \in Procs, Schema!Abandon(u), Schema!Fixed,
           pc[u] \in {"create", "columns", "rows"}, seen[u] # Schema!Sees(u)
    PROVE  SchemaInv'
<1>1. dialect # "postgresql"
  BY Seeing DEF Undisturbed
<1>2. UNCHANGED <<dialect, hit, faults>> /\ faults \in 0..MaxFaults /\ hit \subseteq Procs
  BY DEF Schema!Fixed, SchemaInv, SchemaTypes
<1>3. pc[u] \in Opening \cup Writing
  BY DEF Opening
<1> QED BY <1>1, <1>2, <1>3, Abandoning

\* A worker that does nothing in a step of its migration.
LEMMA SchemaSkips ==
    ASSUME SchemaInv, NEW u \in Procs, Schema!Fixed, UNCHANGED <<db, draft, writer, seen, lock>>,
           pc[u] \in Opening, NEW step \in {"inspect", "inspect rows"}, pc' = [pc EXCEPT ![u] = step],
           Reached(step, seen[u], Schema!Sees(u))
    PROVE  SchemaInv'
<1>1. UNCHANGED <<dialect, hit, faults>>
  BY DEF Schema!Fixed
<1>2. seen \in [Procs -> Tables] /\ Good(seen[u]) /\ lock \in Procs \cup {None} /\ hit \subseteq Procs
  BY DEF SchemaInv, SchemaTypes
<1>3. writer = u => dialect # "sqlite"
  BY Seeing DEF Alone, Opening, Writing
<1>4. dialect = "postgresql" => lock' = u
  BY Seeing DEF Undisturbed
<1>5. step \in Opening
  BY DEF Opening
<1> QED BY <1>1, <1>2, <1>3, <1>4, <1>5, Watching

\* Tables are created.
LEMMA SchemaCreates ==
    ASSUME SchemaInv, NEW u \in Procs, Schema!CreateAll(u)
    PROVE  SchemaInv'
<1>1. pc[u] = "create" /\ pc[u] \in Opening /\ writer \in {None, u} /\ Schema!Fixed
  BY DEF Schema!CreateAll, Schema!Free, Opening
<1>2. CASE ~seen[u].exists /\ Schema!Sees(u).exists
  <2>1. Schema!Abandon(u)
    BY <1>2 DEF Schema!CreateAll
  <2> QED BY <1>1, <1>2, <2>1, SchemaOverruled
<1>3. CASE ~(~seen[u].exists /\ Schema!Sees(u).exists)
  <2>1. pc' = [pc EXCEPT ![u] = "inspect"] /\ UNCHANGED <<seen, lock>>
    BY <1>3 DEF Schema!CreateAll, Schema!Goto
  <2>2. CASE seen[u].exists
    <3>1. UNCHANGED <<db, draft, writer>>
      BY <1>3, <2>2 DEF Schema!CreateAll
    <3>2. Reached("inspect", seen[u], Schema!Sees(u))
      BY <1>1, <2>2, Seeing DEF Reached, Opening, Writing
    <3> QED BY <1>1, <2>1, <3>1, <3>2, SchemaSkips
  <2>3. CASE ~seen[u].exists
    <3>1. Schema!Sees(u) = Schema!Absent /\ ~Schema!Sees(u).exists
      BY <1>3, <2>3, Seeing DEF Good
    <3>2. Good(Schema!Final) /\ Schema!Final # Schema!Absent
      <4>1. Schema!Final.exists /\ Schema!Absent.exists = FALSE
        BY DEF Schema!Final, Schema!Absent, Schema!Table
      <4> QED BY <4>1, FoundTables
    <3>3. \A s : s \in Tables => Reached("inspect", s, Schema!Final)
      <4>1. Schema!Final.exists /\ Schema!Final.unified /\ Schema!Final.legacy = FALSE
        BY DEF Schema!Final, Schema!Table
      <4> QED BY <4>1 DEF Reached, Opening, Writing
    <3>4. CASE dialect = "sqlite"
      <4>1. db' = Schema!Final /\ UNCHANGED <<draft, writer>>
        BY <1>3, <2>3, <3>4 DEF Schema!CreateAll
      <4>2. Later(db, Schema!Final)
        <5>1. Schema!Final.exists /\ Schema!Final.unified /\ Schema!Final.legacy = FALSE
          BY DEF Schema!Final, Schema!Table
        <5> QED BY <5>1 DEF Later
      <4>3. UNCHANGED <<dialect, hit, faults>>
        BY <1>1 DEF Schema!Fixed
      <4>4. Reached("inspect", seen[u], Schema!Final) /\ "inspect" \in Opening
        BY <3>3, Seeing DEF Opening
      <4> QED BY <1>1, <2>1, <3>2, <3>4, <4>1, <4>2, <4>3, <4>4, Publishing
    <3>5. CASE dialect # "sqlite"
      <4>1. Schema!Changed(u, Schema!Final)
        BY <1>3, <2>3, <3>5 DEF Schema!CreateAll
      <4>2. draft' = [draft EXCEPT ![u] = Schema!Final] /\ writer' = u /\ db' = db
        BY <3>1, <3>2, <4>1 DEF Schema!Changed
      <4>3. UNCHANGED <<dialect, hit, faults>>
        BY <1>1 DEF Schema!Fixed
      <4>4. Reached("inspect", seen[u], Schema!Final) /\ "inspect" \in (Opening \cup Writing) \ {"create"}
        BY <3>3, Seeing DEF Opening
      <4> QED BY <1>1, <2>1, <3>2, <3>5, <4>2, <4>3, <4>4, Drafting
    <3> QED BY <3>4, <3>5
  <2> QED BY <2>2, <2>3
<1> QED BY <1>2, <1>3
\* A column is added.
LEMMA SchemaExtends ==
    ASSUME SchemaInv, NEW u \in Procs, Schema!AddColumns(u)
    PROVE  SchemaInv'
<1>1. pc[u] = "columns" /\ pc[u] \in Opening /\ writer \in {None, u} /\ Schema!Fixed
  BY DEF Schema!AddColumns, Schema!Free, Opening
<1>2. CASE ~seen[u].unified /\ Schema!Sees(u).unified
  <2>1. Schema!Abandon(u)
    BY <1>2 DEF Schema!AddColumns
  <2> QED BY <1>1, <1>2, <2>1, SchemaOverruled
<1>3. CASE ~(~seen[u].unified /\ Schema!Sees(u).unified)
  <2>1. pc' = [pc EXCEPT ![u] = "inspect rows"] /\ UNCHANGED <<seen, lock>>
    BY <1>3 DEF Schema!AddColumns, Schema!Goto
  <2>2. CASE seen[u].unified
    <3>1. UNCHANGED <<db, draft, writer>>
      BY <1>3, <2>2 DEF Schema!AddColumns
    <3>2. Reached("inspect rows", seen[u], Schema!Sees(u))
      BY <1>1, <2>2, Seeing DEF Reached, Opening, Writing
    <3> QED BY <1>1, <2>1, <3>1, <3>2, SchemaSkips
  <2>3. CASE ~seen[u].unified
    <3> DEFINE t == Schema!Sees(u)
               r == [t EXCEPT !.unified = TRUE]
    <3>1. ~t.unified /\ t.exists /\ Good(t) /\ t \in Tables /\ (t.legacy => seen[u].legacy)
      BY <1>1, <1>3, <2>3, Seeing DEF Reached, Opening, Writing
    <3> HIDE DEF t
    <3>2. r \in Tables /\ r.unified /\ r.exists = t.exists /\ r.legacy = t.legacy /\ r.moved = t.moved
          /\ r.checked = t.checked
      <4>1. t \in Tables
        BY <3>1
      <4> QED BY <4>1 DEF Tables
    <3>3. (dialect = "sqlite" => t = db) /\ (dialect = "sqlite" /\ writer = u => FALSE)
      BY <1>1, Seeing DEF Alone, Opening, Writing, t
    <3>4. dialect = "sqlite" => db' = r /\ UNCHANGED <<draft, writer>>
      BY <1>3, <2>3, <3>3 DEF Schema!AddColumns, t
    <3>5. dialect # "sqlite" => Schema!Changed(u, r)
      BY <1>3, <2>3 DEF Schema!AddColumns, t
    <3>6. dialect # "sqlite" => (IF r = t THEN UNCHANGED <<db, draft, writer>>
                                 ELSE draft' = [draft EXCEPT ![u] = r] /\ writer' = u /\ UNCHANGED db)
      BY <3>5 DEF Schema!Changed, t
    <3> HIDE DEF r
    <3>7. Good(r)
      <4>1. t.legacy = FALSE \/ t.checked = TRUE => t.moved = TRUE
        BY <3>1 DEF Good, Tables
      <4> QED BY <3>1, <3>2, <4>1 DEF Good
    <3>8. Later(t, r) /\ Reached("inspect rows", seen[u], r)
      BY <3>1, <3>2 DEF Later, Reached, Writing
    <3>9. UNCHANGED <<dialect, hit, faults>> /\ "inspect rows" \in Opening
      BY <1>1 DEF Schema!Fixed, Opening
    <3>10. CASE dialect = "sqlite"
      <4>1. db # Schema!Final
        <5>1. Schema!Final.unified
          BY DEF Schema!Final, Schema!Table
        <5> QED BY <3>1, <3>3, <3>10, <5>1
      <4> QED BY <1>1, <2>1, <3>3, <3>4, <3>7, <3>8, <3>9, <3>10, <4>1, Publishing
    <3>11. CASE dialect # "sqlite"
      <4>1. r # t
        BY <3>1, <3>2
      <4> QED BY <1>1, <2>1, <3>6, <3>7, <3>8, <3>9, <3>11, <4>1, Drafting
    <3> QED BY <3>10, <3>11
  <2> QED BY <2>2, <2>3
<1> QED BY <1>2, <1>3

\* The rows are moved.
LEMMA SchemaMoves ==
    ASSUME SchemaInv, NEW u \in Procs, Schema!MoveRows(u)
    PROVE  SchemaInv'
<1>1. pc[u] = "rows" /\ pc[u] \in Opening /\ writer \in {None, u} /\ Schema!Fixed
  BY DEF Schema!MoveRows, Schema!Free, Opening
<1>2. CASE seen[u].legacy /\ ~Schema!Sees(u).legacy
  <2>1. Schema!Abandon(u)
    BY <1>2 DEF Schema!MoveRows
  <2> QED BY <1>1, <1>2, <2>1, SchemaOverruled
<1>3. CASE ~(seen[u].legacy /\ ~Schema!Sees(u).legacy)
  <2> DEFINE t == Schema!Sees(u)
             b == t.moved \/ (seen[u].legacy <=> t.legacy)
             r == [t EXCEPT !.moved = b]
  <2>1. /\ pc' = [pc EXCEPT ![u] = "legacy"] /\ UNCHANGED <<db, seen, lock>> /\ writer' = u
        /\ draft' = [draft EXCEPT ![u] = r]
    BY <1>3 DEF Schema!MoveRows, Schema!Goto
  <2>2. /\ t \in Tables /\ t.exists /\ t.unified /\ Good(t)
        /\ (seen[u].exists => t.exists) /\ (seen[u].unified => t.unified) /\ (t.legacy <=> seen[u].legacy)
    BY <1>1, <1>3, Seeing DEF Reached, Opening, Writing
  <2>3. b = TRUE
    BY <2>2
  <2> HIDE DEF t, b
  <2>4. r \in Tables /\ r.moved /\ r.exists = t.exists /\ r.legacy = t.legacy /\ r.unified = t.unified
    BY ZenonT(30), <2>2, <2>3, Edited
  <2> HIDE DEF r
  <2>5. Good(r)
    BY <2>2, <2>4 DEF Good
  <2>6. Reached("legacy", seen[u], r)
    BY <2>2, <2>4 DEF Reached, Writing
  <2>7. UNCHANGED <<dialect, hit, faults>> /\ "legacy" \in Writing
    BY <1>1 DEF Schema!Fixed, Writing
  <2>8. "legacy" \notin {"create", "columns", "rows"}
    OBVIOUS
  <2> QED BY <1>1, <2>1, <2>5, <2>6, <2>7, <2>8, Drafting
<1> QED BY <1>2, <1>3

\* In the transaction a worker sees its own draft.
LEMMA SchemaAlone ==
    ASSUME SchemaInv, NEW u \in Procs, pc[u] \in Writing
    PROVE  /\ writer = u /\ Good(draft[u]) /\ draft[u] \in Tables /\ seen[u] \in Tables
           /\ Reached(pc[u], seen[u], draft[u])
BY Seeing DEF Alone

\* The former column is dropped.
LEMMA SchemaDrops ==
    ASSUME SchemaInv, NEW u \in Procs, Schema!DropLegacy(u)
    PROVE  SchemaInv'
<1>1. pc[u] = "legacy" /\ pc[u] \in Writing /\ Schema!Fixed
  BY DEF Schema!DropLegacy, Writing
<1> DEFINE t == draft[u]
           b == t.legacy /\ ~seen[u].legacy
           r == [t EXCEPT !.legacy = b]
<1>2. /\ pc' = [pc EXCEPT ![u] = "indexes"] /\ UNCHANGED <<db, seen, writer, lock>>
      /\ draft' = [draft EXCEPT ![u] = r]
  BY DEF Schema!DropLegacy, Schema!Goto
<1>3. /\ writer = u /\ t \in Tables /\ t.exists /\ t.unified /\ t.moved /\ (t.legacy <=> seen[u].legacy)
  BY <1>1, SchemaAlone DEF Reached, Opening, Writing
<1>4. b = FALSE
  BY <1>3
<1> HIDE DEF t, b
<1>5. r \in Tables /\ ~r.legacy /\ r.exists = t.exists /\ r.moved = t.moved /\ r.unified = t.unified
  BY ZenonT(30), <1>3, <1>4, Edited
<1> HIDE DEF r
<1>6. Good(r)
  BY <1>3, <1>5 DEF Good
<1>7. Reached("indexes", seen[u], r)
  BY <1>3, <1>5 DEF Reached, Writing
<1>8. UNCHANGED <<dialect, hit, faults>> /\ "indexes" \in Writing
  BY <1>1 DEF Schema!Fixed, Writing
<1> QED BY <1>1, <1>2, <1>3, <1>6, <1>7, <1>8, Drafting

\* The index is created.
LEMMA SchemaIndexes ==
    ASSUME SchemaInv, NEW u \in Procs, Schema!CreateIndexes(u)
    PROVE  SchemaInv'
<1>1. pc[u] = "indexes" /\ pc[u] \in Writing /\ Schema!Fixed
  BY DEF Schema!CreateIndexes, Writing
<1> DEFINE t == draft[u]
           r == [t EXCEPT !.indexed = TRUE]
<1>2. /\ pc' = [pc EXCEPT ![u] = "constraint"] /\ UNCHANGED <<db, seen, writer, lock>>
      /\ draft' = [draft EXCEPT ![u] = r]
  BY DEF Schema!CreateIndexes, Schema!Goto
<1>3. writer = u /\ t \in Tables /\ t.exists /\ t.unified /\ t.moved /\ ~t.legacy
  BY <1>1, SchemaAlone DEF Reached, Opening, Writing
<1> HIDE DEF t
<1>4. /\ r \in Tables /\ r.indexed /\ r.exists = t.exists /\ r.moved = t.moved /\ r.unified = t.unified
      /\ r.legacy = t.legacy
  BY ZenonT(30), <1>3, Edited
<1> HIDE DEF r
<1>5. Good(r)
  BY <1>3, <1>4 DEF Good
<1>6. Reached("constraint", seen[u], r)
  BY <1>3, <1>4 DEF Reached, Writing
<1>7. UNCHANGED <<dialect, hit, faults>> /\ "constraint" \in Writing
  BY <1>1 DEF Schema!Fixed, Writing
<1> QED BY <1>1, <1>2, <1>3, <1>5, <1>6, <1>7, Drafting

\* The constraint is added.
LEMMA SchemaConstrains ==
    ASSUME SchemaInv, NEW u \in Procs, Schema!EnsureConstraints(u)
    PROVE  SchemaInv'
<1>1. pc[u] = "constraint" /\ pc[u] \in Writing /\ Schema!Fixed
  BY DEF Schema!EnsureConstraints, Writing
<1> DEFINE t == draft[u]
           r == [t EXCEPT !.checked = TRUE]
<1>2. writer = u /\ t \in Tables /\ t.exists /\ t.unified /\ t.moved /\ ~t.legacy /\ t.indexed
  BY <1>1, SchemaAlone DEF Reached, Opening, Writing
<1>3. /\ pc' = [pc EXCEPT ![u] = "commit"] /\ UNCHANGED <<db, seen, writer, lock>>
      /\ draft' = [draft EXCEPT ![u] = r]
  BY <1>2 DEF Schema!EnsureConstraints, Schema!Goto
<1> HIDE DEF t
<1>4. /\ r \in Tables /\ r.checked /\ r.exists = t.exists /\ r.moved = t.moved /\ r.unified = t.unified
      /\ r.legacy = t.legacy /\ r.indexed = t.indexed
  BY ZenonT(30), <1>2, Edited
<1> HIDE DEF r
<1>5. Good(r)
  BY <1>2, <1>4 DEF Good
<1>6. Reached("commit", seen[u], r)
  BY <1>2, <1>4 DEF Reached, Writing
<1>7. UNCHANGED <<dialect, hit, faults>> /\ "commit" \in Writing
  BY <1>1 DEF Schema!Fixed, Writing
<1> QED BY <1>1, <1>2, <1>3, <1>5, <1>6, <1>7, Drafting

\* The transaction commits.
LEMMA SchemaCommits ==
    ASSUME SchemaInv, NEW u \in Procs, Schema!Commit(u)
    PROVE  SchemaInv'
<1>1. pc[u] = "commit" /\ pc[u] \in Writing
  BY DEF Schema!Commit, Writing
<1>2. draft[u] = Schema!Final /\ Good(draft[u]) /\ writer = u
  <2>1. /\ writer = u /\ draft[u] \in Tables /\ draft[u].exists /\ draft[u].unified /\ draft[u].moved
        /\ ~draft[u].legacy /\ draft[u].indexed /\ draft[u].checked
    BY <1>1, SchemaAlone DEF Reached, Opening, Writing
  <2> QED BY <1>1, <2>1, FinalTable, SchemaAlone
<1>3. /\ UNCHANGED <<draft, seen, dialect, hit, faults>> /\ db' = Schema!Final /\ writer' = None
      /\ lock' = (IF lock = u THEN None ELSE lock) /\ pc' = [pc EXCEPT ![u] = "serving"]
  BY <1>2 DEF Schema!Commit, Schema!Goto, Schema!Fixed
<1>4. SchemaTypes'
  BY <1>2, <1>3 DEF SchemaInv, SchemaTypes, Good
<1>5. pc'[u] = "serving" /\ \A w \in Procs \ {u} : pc'[w] = pc[w]
  BY <1>3 DEF SchemaInv, SchemaTypes
<1>6. ASSUME NEW w \in Procs \ {u}
      PROVE  Reached(pc[w], seen[w], Schema!Sees(w))' /\ Alone(w)' /\ (dialect' = "postgresql" => Undisturbed(w)')
  <2>1. Schema!Sees(w) = db /\ Schema!Sees(w)' = Schema!Final
    BY <1>2, <1>3, AbsentAssumption DEF Schema!Sees
  <2>2. Later(db, Schema!Final)
    <3>1. Schema!Final.exists /\ Schema!Final.unified /\ Schema!Final.legacy = FALSE
      BY DEF Schema!Final, Schema!Table
    <3> QED BY <3>1 DEF Later
  <2>3. dialect # "sqlite" => pc[w] \notin Opening \cup Writing
    <3>1. dialect # "sqlite" => lock = u
      BY <1>1, Seeing DEF Undisturbed, SchemaInv, SchemaTypes
    <3> QED BY <3>1, Seeing DEF Undisturbed, SchemaInv, SchemaTypes
  <2>4. pc[w] \notin Writing
    BY <1>2, Seeing DEF Alone
  <2>5. \/ pc[w] \notin Opening \cup Writing
        \/ dialect = "sqlite" /\ pc[w] \in Opening /\ Later(Schema!Sees(w), Schema!Sees(w)')
    BY <2>1, <2>2, <2>3, <2>4
  <2> QED BY <1>2, <1>3, <1>5, <2>5, Bystanders, AbsentAssumption
<1>7. Reached(pc[u], seen[u], Schema!Sees(u))' /\ Alone(u)' /\ Undisturbed(u)'
  BY <1>3, <1>5, AbsentAssumption DEF Reached, Alone, Undisturbed, Opening, Writing
<1>8. Schema!MigratedMeansFinal'
  BY <1>3 DEF Schema!MigratedMeansFinal
<1>9. Good(db)' /\ \A w \in Procs : Good(draft[w])' /\ Good(seen[w])'
  BY <1>2, <1>3 DEF SchemaInv
<1> QED BY <1>4, <1>6, <1>7, <1>8, <1>9 DEF SchemaInv

\* The invariant of the migration is inductive.
LEMMA SchemaStep ==
    ASSUME SchemaInv, Schema!Next
    PROVE  SchemaInv'
<1>1. PICK w \in Procs : Schema!Step(w) \/ Schema!Fault(w) \/ Schema!Restart(w)
  BY DEF Schema!Next
<1> QED BY <1>1, SchemaBegins, SchemaCreates, SchemaInspects, SchemaExtends, SchemaMoves, SchemaDrops,
           SchemaIndexes, SchemaConstrains, SchemaCommits, SchemaFaults, SchemaRestarts DEF Schema!Step

\* The variables of the migration are all that its invariant is about.
LEMMA SchemaStutter ==
    ASSUME SchemaInv, UNCHANGED <<dialect, db, draft, seen, writer, lock, pc, hit, faults>>
    PROVE  SchemaInv'
<1>1. \A w \in Procs : Schema!Sees(w)' = Schema!Sees(w)
  BY DEF Schema!Sees
<1>2. SchemaTypes' /\ Schema!MigratedMeansFinal'
  BY DEF SchemaInv, SchemaTypes, Schema!MigratedMeansFinal
<1>3. \A w \in Procs : Alone(w)'
  BY DEF SchemaInv, Alone
<1>4. \A w \in Procs : Reached(pc[w], seen[w], Schema!Sees(w))'
  BY <1>1 DEF SchemaInv
<1>5. dialect' = "postgresql" => \A w \in Procs : Undisturbed(w)'
  BY <1>1 DEF SchemaInv, Undisturbed
<1> QED BY <1>2, <1>3, <1>4, <1>5 DEF SchemaInv

\* Workers that start together do not make one another fail, nothing is left
\* half done, and who has migrated serves with the final schema.
THEOREM Migrates == Spec => []MigrationCorrect
<1> DEFINE Inv == part = "schema" => SchemaInv
<1>1. Init => Inv
  BY SchemaInit DEF Init
<1>2. Inv /\ [Next]_vars => Inv'
  <2> SUFFICES ASSUME Inv, [Next]_vars, part' = "schema" PROVE SchemaInv'
    OBVIOUS
  <2>1. part = "schema" /\ (Schema!Next \/ UNCHANGED vars)
    BY DEF Next, vars
  <2>2. CASE UNCHANGED vars
    BY <2>1, <2>2, SchemaStutter DEF vars
  <2> QED BY <2>1, <2>2, SchemaStep
<1>3. Inv => MigrationCorrect
  <2> SUFFICES ASSUME SchemaInv PROVE /\ Schema!TypeOK /\ Schema!NobodyFails
                                      /\ Schema!NothingHalfDone /\ Schema!MigratedMeansFinal
    BY DEF MigrationCorrect
  <2>1. Schema!NobodyFails
    BY DEF SchemaInv, Undisturbed, Schema!NobodyFails
  <2>2. Schema!NothingHalfDone
    BY DEF SchemaInv, Good, Schema!NothingHalfDone
  <2> QED BY <2>1, <2>2, SchemaTyped DEF SchemaInv
<1> HIDE DEF Inv
<1> QED BY <1>1, <1>2, <1>3, PTL DEF Spec
-----------------------------------------------------------------------------
(* 115.  The token of a callback that has not ended is nowhere but in its   *)
(* own copy of the session, so that what was taken cannot come back; a      *)
(* session that is stored lives into the last second of its lifetime.       *)

Requests == Callbacks \cup Polls
LoginSteps == {"idle", "check", "discard", "exchange", "save", "take", "answer", "over"}

Sane(s) == s # None => s.expires = Lifetime /\ (s.status = "completed" => s.token \in Callbacks)

Unused(r) ==
    /\ r \notin gone
    /\ session # None => session.token # r
    /\ \A q \in Requests \ {r} : mem[q] # None => mem[q].token # r

\* What the step of a request says of the session it has loaded.
Loaded(r) ==
    /\ pc[r] \notin {"idle", "over"} => mem[r] # None
    /\ pc[r] = "discard" => Lifetime < now
    /\ pc[r] = "take" => mem[r].status = "completed" /\ picked
    /\ pc[r] \in {"exchange", "save"} => r \in Callbacks
    /\ pc[r] \in {"take", "answer"} => r \notin Callbacks
    /\ pc[r] = "save" => mem[r].status = "completed" /\ mem[r].token = r

LoginTypes ==
    /\ now \in 0..MaxTime
    /\ session \in Login!Session \cup {None}
    /\ pc \in [Requests -> LoginSteps] /\ mem \in [Requests -> Login!Session \cup {None}]
    /\ gone \subseteq Callbacks

Waiting == stored /\ ~picked =>
    \/ Lifetime < now + Second
    \/ session # None /\ session.status = "completed" /\ Lifetime < session.dies + Second

LoginInv ==
    /\ LoginTypes
    /\ stored \in BOOLEAN /\ picked \in BOOLEAN
    /\ Sane(session)
    /\ \A r \in Requests : Sane(mem[r]) /\ Loaded(r)
    /\ \A r \in Callbacks : pc[r] # "over" => Unused(r)
    /\ Login!NotServedAgain
    /\ Waiting

\* Whole seconds lose less than one.
LEMMA WholeSeconds ==
    ASSUME NEW x \in Nat
    PROVE  /\ (x \div Second) * Second \in Nat
           /\ x < (x \div Second) * Second + Second
<1>1. x \div Second \in Nat
  BY Bounds
<1> QED BY <1>1, Bounds

\* A session that is saved is as it was, and lives into its last second.
LEMMA SavedLives ==
    ASSUME NEW s \in Login!Session, s.expires = Lifetime, now \in 0..MaxTime
    PROVE  /\ Login!Saved(s) \in Login!Session
           /\ Login!Saved(s).status = s.status /\ Login!Saved(s).token = s.token
           /\ Login!Saved(s).expires = s.expires
           /\ Lifetime < Login!Saved(s).dies + Second
<1>1. now \in Nat /\ Lifetime \in Nat /\ Second \in Nat /\ Second > 0
  BY Bounds
<1>2. Login!SessionTtl(s) \in Nat /\ Lifetime < now + Login!SessionTtl(s) + Second
  <2>1. CASE Lifetime - now >= Second
    <3>1. Login!SessionTtl(s) = ((Lifetime - now) \div Second) * Second
      BY <2>1 DEF Login!SessionTtl
    <3>2. Lifetime - now \in Nat
      BY <1>1, <2>1
    <3>3. /\ ((Lifetime - now) \div Second) * Second \in Nat
          /\ Lifetime - now < ((Lifetime - now) \div Second) * Second + Second
      BY <3>2, WholeSeconds
    <3> DEFINE k == ((Lifetime - now) \div Second) * Second
    <3>4. k \in Nat /\ Lifetime - now < k + Second
      BY <3>3
    <3> HIDE DEF k
    <3>5. Lifetime < now + k + Second
      BY <1>1, <3>4
    <3> QED BY <3>1, <3>4, <3>5 DEF k
  <2>2. CASE ~(Lifetime - now >= Second)
    <3>1. Login!SessionTtl(s) = Second
      BY <2>2 DEF Login!SessionTtl
    <3> QED BY <1>1, <2>2, <3>1
  <2> QED BY <2>1, <2>2
<1>3. Login!Saved(s) = [s EXCEPT !.dies = now + Login!SessionTtl(s)]
  BY DEF Login!Saved
<1>4. now + Login!SessionTtl(s) \in Nat
  BY <1>1, <1>2
<1>5. \A n \in Nat : LET t == [s EXCEPT !.dies = n] IN
          t \in Login!Session /\ t.status = s.status /\ t.token = s.token /\ t.expires = s.expires /\ t.dies = n
  BY DEF Login!Session
<1> QED BY <1>2, <1>3, <1>4, <1>5

\* Nobody logs in at first.
LEMMA LoginInit == Login!Init => LoginInv
<1> SUFFICES ASSUME Login!Init PROVE LoginInv
  OBVIOUS
<1> DEFINE s == [status |-> "pending", token |-> None, expires |-> Lifetime, dies |-> 0]
<1>1. s \in Login!Session /\ s.status = "pending" /\ s.token = None /\ s.expires = Lifetime
  BY Bounds DEF Login!Session
<1>2. session = Login!Saved(s)
  BY DEF Login!Init
<1>3. /\ now = 0 /\ pc = [r \in Requests |-> "idle"] /\ mem = [r \in Requests |-> None] /\ gone = {}
  BY DEF Login!Init, Requests
<1>4. stored = FALSE /\ picked = FALSE
  BY DEF Login!Init
<1>5. now \in 0..MaxTime
  BY <1>3, Bounds
<1> HIDE DEF s
<1>6. session \in Login!Session /\ session.status = "pending" /\ session.token = None /\ session.expires = Lifetime
  BY <1>1, <1>2, <1>5, SavedLives
<1>7. LoginTypes
  BY <1>3, <1>5, <1>6 DEF LoginTypes, LoginSteps
<1>8. \A r \in Requests : Sane(mem[r]) /\ Loaded(r)
  BY <1>3 DEF Sane, Loaded
<1>9. \A r \in Callbacks : Unused(r)
  BY <1>3, <1>6, AbsentAssumption DEF Unused, Requests
<1>10. stored \in BOOLEAN /\ picked \in BOOLEAN
  BY Zenon, <1>4
<1>11. Waiting /\ Sane(session) /\ Login!NotServedAgain
  BY <1>3, <1>4, <1>6 DEF Waiting, Sane, Login!NotServedAgain
<1> QED BY <1>7, <1>8, <1>9, <1>10, <1>11 DEF LoginInv
\* A session is a record, and the absence of one is none.
LEMMA Sessions ==
    ASSUME LoginInv, NEW r \in Requests
    PROVE  /\ mem[r] # None => mem[r] \in Login!Session /\ mem[r].expires = Lifetime
           /\ session # None => session \in Login!Session /\ session.expires = Lifetime
           /\ mem[r] \in Login!Session => mem[r] # None
BY AbsentAssumption DEF LoginInv, LoginTypes, Sane

\* The clock, and Redis that drops the key.
LEMMA LoginTicks ==
    ASSUME LoginInv, Login!Tick
    PROVE  LoginInv'
<1>1. /\ now' = now + 1 /\ UNCHANGED <<pc, mem, stored, picked, gone>> /\ session' \in {session, None}
      /\ session # None /\ session' = None => session.dies =< now + 1
  BY DEF Login!Tick
<1>2. now' \in 0..MaxTime /\ now \in Nat
  BY Bounds DEF Login!Tick, LoginInv, LoginTypes
<1>3. LoginTypes' /\ stored' \in BOOLEAN /\ picked' \in BOOLEAN
  BY <1>1, <1>2 DEF LoginInv, LoginTypes
<1>4. Sane(session)' /\ \A r \in Requests : Sane(mem[r])'
  BY <1>1 DEF LoginInv, Sane
<1>5. \A r \in Requests : Loaded(r)'
  <2> SUFFICES ASSUME NEW r \in Requests PROVE Loaded(r)'
    OBVIOUS
  <2>1. Loaded(r)
    BY DEF LoginInv
  <2> QED BY <1>1, <1>2, <2>1, Bounds DEF Loaded
<1>6. \A r \in Callbacks : pc'[r] # "over" => Unused(r)'
  BY <1>1 DEF LoginInv, Unused
<1>7. Login!NotServedAgain'
  BY <1>1 DEF LoginInv, Login!NotServedAgain
<1>8. Waiting'
  <2>1. Waiting
    BY DEF LoginInv
  <2>2. CASE session' = session
    BY <1>1, <1>2, <2>1, <2>2, Bounds DEF Waiting
  <2>3. CASE session # None /\ session' = None
    <3>1. session.dies \in Nat
      BY <2>3 DEF LoginInv, LoginTypes, Login!Session
    <3> QED BY <1>1, <1>2, <2>1, <2>3, <3>1, Bounds DEF Waiting
  <2> QED BY <1>1, <2>2, <2>3
<1> QED BY <1>3, <1>4, <1>5, <1>6, <1>7, <1>8 DEF LoginInv

\* A step of one request that leaves the session alone.
LEMMA Handled ==
    ASSUME LoginInv, NEW r \in Requests, UNCHANGED <<now, session, stored, gone>>,
           picked' \in BOOLEAN, picked => picked',
           NEW step \in LoginSteps, pc' = [pc EXCEPT ![r] = step], pc[r] # "over",
           NEW s \in Login!Session \cup {None}, mem' = [mem EXCEPT ![r] = s],
           Sane(s), s # None => s.token \notin Callbacks \ {r} \/ (session # None /\ s.token = session.token)
                                \/ (mem[r] # None /\ s.token = mem[r].token),
           Loaded(r)'
    PROVE  LoginInv'
<1>1. /\ pc'[r] = step /\ mem'[r] = s
      /\ \A q \in Requests \ {r} : pc'[q] = pc[q] /\ mem'[q] = mem[q]
  BY DEF LoginInv, LoginTypes
<1>2. LoginTypes' /\ stored' \in BOOLEAN
  BY DEF LoginInv, LoginTypes
<1>3. Sane(session)' /\ \A q \in Requests : Sane(mem[q])'
  BY <1>1 DEF LoginInv, Sane
<1>4. \A q \in Requests : Loaded(q)'
  <2>1. ASSUME NEW q \in Requests \ {r} PROVE Loaded(q)'
    <3>1. Loaded(q)
      BY DEF LoginInv
    <3> QED BY <1>1, <3>1 DEF Loaded
  <2> QED BY <2>1
<1>5. ASSUME NEW q \in Callbacks, pc'[q] # "over" PROVE Unused(q)'
  <2>1. q \in Requests
    BY DEF Requests
  <2>2. pc[q] # "over"
    BY <1>1, <1>5, <2>1
  <2>3. Unused(q)
    BY <2>2 DEF LoginInv
  <2>4. r # q /\ s # None => s.token # q
    BY <2>3 DEF Unused
  <2>5. \A p \in Requests \ {q} : mem'[p] # None => mem'[p].token # q
    BY <1>1, <2>3, <2>4 DEF Unused
  <2> QED BY <2>3, <2>5 DEF Unused
<1>6. Login!NotServedAgain'
  BY DEF LoginInv, Login!NotServedAgain
<1>7. Waiting'
  BY DEF LoginInv, Waiting
<1> QED BY <1>2, <1>3, <1>4, <1>5, <1>6, <1>7 DEF LoginInv

\* The state of a login is loaded.
LEMMA LoginLoads ==
    ASSUME LoginInv, NEW r \in Requests, Login!Load(r)
    PROVE  LoginInv'
<1> DEFINE step == IF session = None THEN "over" ELSE "check"
<1>1. /\ pc[r] = "idle" /\ UNCHANGED <<now, session, stored, picked, gone>>
      /\ pc' = [pc EXCEPT ![r] = step] /\ mem' = [mem EXCEPT ![r] = session]
  BY DEF Login!Load, Login!Goto
<1>2. picked' \in BOOLEAN /\ session \in Login!Session \cup {None} /\ Sane(session)
  BY <1>1 DEF LoginInv, LoginTypes
<1>3. step \in LoginSteps
  BY DEF LoginSteps
<1>4. pc'[r] = step /\ mem'[r] = session
  BY <1>1 DEF LoginInv, LoginTypes
<1>5. Loaded(r)'
  BY <1>4 DEF Loaded
<1> HIDE DEF step
<1> QED BY <1>1, <1>2, <1>3, <1>5, Handled

\* The status is asked for.
LEMMA LoginChecks ==
    ASSUME LoginInv, NEW r \in Requests, Login!Check(r)
    PROVE  LoginInv'
<1> DEFINE step == IF Login!Expired(mem[r]) THEN "discard"
                   ELSE IF r \in Callbacks THEN "exchange"
                   ELSE IF Login!Ready(mem[r]) THEN "take" ELSE "over"
<1>1. /\ pc[r] = "check" /\ UNCHANGED <<now, session, mem, stored, gone>> /\ pc' = [pc EXCEPT ![r] = step]
  BY DEF Login!Check, Login!Goto
<1>2. picked' = (picked \/ (r \in Polls /\ ~Login!Expired(mem[r]) /\ mem[r].status = "completed"))
  BY DEF Login!Check
<1>3. picked' \in BOOLEAN /\ (picked => picked')
  BY Zenon, <1>2
<1>4. mem[r] # None /\ mem[r] \in Login!Session /\ mem[r].expires = Lifetime /\ Sane(mem[r])
  BY <1>1, Sessions DEF LoginInv, Loaded
<1>5. step \in LoginSteps
  BY DEF LoginSteps
<1>6. pc'[r] = step /\ mem'[r] = mem[r] /\ mem' = [mem EXCEPT ![r] = mem[r]]
  BY <1>1 DEF LoginInv, LoginTypes
<1>7. Loaded(r)'
  <2>1. step = "discard" => Lifetime < now
    BY <1>4 DEF Login!Expired
  <2>2. step = "take" => mem[r].status = "completed" /\ r \notin Callbacks /\ picked'
    BY <1>2 DEF Login!Ready, Requests
  <2>3. step = "exchange" => r \in Callbacks
    OBVIOUS
  <2>4. step \in {"discard", "exchange", "take", "over"}
    OBVIOUS
  <2> HIDE DEF step
  <2> QED BY <1>1, <1>4, <1>6, <2>1, <2>2, <2>3, <2>4 DEF Loaded
<1> HIDE DEF step
<1> QED BY <1>1, <1>3, <1>4, <1>5, <1>6, <1>7, Handled

\* The code is exchanged for tokens.
LEMMA LoginExchanges ==
    ASSUME LoginInv, NEW r \in Requests, Login!Exchange(r)
    PROVE  LoginInv'
<1>1. pc[r] = "exchange" /\ UNCHANGED <<now, session, stored, picked, gone>>
  BY DEF Login!Exchange
<1>2. /\ r \in Callbacks /\ mem[r] # None /\ mem[r] \in Login!Session /\ mem[r].expires = Lifetime
      /\ picked' \in BOOLEAN /\ Sane(mem[r])
  BY <1>1, Sessions DEF LoginInv, Loaded
<1>3. CASE pc' = [pc EXCEPT ![r] = "over"] /\ UNCHANGED mem
  <2>1. pc'[r] = "over" /\ mem' = [mem EXCEPT ![r] = mem[r]] /\ "over" \in LoginSteps
    BY <1>3 DEF LoginInv, LoginTypes, LoginSteps
  <2>2. Loaded(r)'
    BY <2>1 DEF Loaded
  <2> QED BY <1>1, <1>2, <1>3, <2>1, <2>2, Handled
<1>4. CASE pc' = [pc EXCEPT ![r] = "save"] /\ mem' = [mem EXCEPT ![r].status = "completed", ![r].token = r]
  <2> DEFINE s == [mem[r] EXCEPT !.status = "completed", !.token = r]
  <2>1. s \in Login!Session /\ s.status = "completed" /\ s.token = r /\ s.expires = Lifetime
    <3>1. \A t \in Login!Session : LET u == [t EXCEPT !.status = "completed", !.token = r] IN
              u \in Login!Session /\ u.status = "completed" /\ u.token = r /\ u.expires = t.expires
      BY <1>2 DEF Login!Session, Login!Tokens
    <3> QED BY <1>2, <3>1
  <2>2. mem' = [mem EXCEPT ![r] = s]
    BY <1>4 DEF LoginInv, LoginTypes
  <2> HIDE DEF s
  <2>3. mem'[r] = s /\ pc'[r] = "save" /\ "save" \in LoginSteps
    BY <1>4, <2>2 DEF LoginInv, LoginTypes, LoginSteps
  <2>4. s # None
    BY <2>1, AbsentAssumption
  <2>5. Loaded(r)'
    BY <1>2, <2>1, <2>3, <2>4 DEF Loaded
  <2>6. Sane(s) /\ s.token \notin Callbacks \ {r}
    BY <1>2, <2>1 DEF Sane
  <2> QED BY <1>1, <1>2, <1>4, <2>1, <2>2, <2>3, <2>5, <2>6, Handled
<1> QED BY <1>3, <1>4 DEF Login!Exchange, Login!Goto
\* A login is discarded.
LEMMA LoginDiscards ==
    ASSUME LoginInv, NEW r \in Requests, Login!Discard(r)
    PROVE  LoginInv'
<1> DEFINE step == IF pc[r] = "take" THEN "answer" ELSE "over"
<1>1. /\ pc[r] \in {"discard", "take"} /\ UNCHANGED <<now, mem, stored, picked>>
      /\ session' = None /\ pc' = [pc EXCEPT ![r] = step]
      /\ gone' = (IF pc[r] = "take" THEN gone \cup {mem[r].token} ELSE gone)
  BY DEF Login!Discard, Login!Goto
<1>2. /\ pc'[r] = step /\ \A q \in Requests \ {r} : pc'[q] = pc[q]
  BY <1>1 DEF LoginInv, LoginTypes
<1>3. Loaded(r) /\ Sane(mem[r]) /\ mem[r] # None
  BY <1>1 DEF LoginInv, Loaded
<1>4. pc[r] = "take" => mem[r].token \in Callbacks /\ r \notin Callbacks /\ picked
  BY <1>3 DEF Loaded, Sane
<1>5. LoginTypes' /\ stored' \in BOOLEAN /\ picked' \in BOOLEAN
  <2>1. pc' \in [Requests -> LoginSteps]
    BY <1>1 DEF LoginInv, LoginTypes, LoginSteps
  <2> QED BY <1>1, <1>4, <2>1 DEF LoginInv, LoginTypes
<1>6. Sane(session)' /\ \A q \in Requests : Sane(mem[q])'
  BY <1>1 DEF LoginInv, Sane
<1>7. \A q \in Requests : Loaded(q)'
  <2>1. ASSUME NEW q \in Requests \ {r} PROVE Loaded(q)'
    <3>1. Loaded(q)
      BY DEF LoginInv
    <3> QED BY <1>1, <1>2, <3>1 DEF Loaded
  <2>2. Loaded(r)'
    BY <1>1, <1>2, <1>3, <1>4 DEF Loaded
  <2> QED BY <2>1, <2>2
<1>8. ASSUME NEW q \in Callbacks, pc'[q] # "over" PROVE Unused(q)'
  <2>1. q \in Requests
    BY DEF Requests
  <2>2. pc[q] # "over"
    BY <1>1, <1>2, <1>8, <2>1
  <2>3. Unused(q)
    BY <2>2 DEF LoginInv
  <2>4. q \notin gone'
    <3>1. CASE q = r
      BY <1>1, <1>2, <1>4, <1>8, <3>1
    <3>2. CASE q # r
      BY <1>1, <1>3, <2>3, <3>2 DEF Unused
    <3> QED BY <3>1, <3>2
  <2> QED BY <1>1, <2>3, <2>4 DEF Unused
<1>9. Login!NotServedAgain'
  BY <1>1 DEF Login!NotServedAgain
<1>10. Waiting'
  <2>1. now \in Nat /\ (Lifetime < now + Second \/ picked)
    BY <1>1, <1>3, Bounds DEF Loaded, LoginInv, LoginTypes
  <2> QED BY <1>1, <2>1 DEF Waiting
<1> QED BY <1>5, <1>6, <1>7, <1>8, <1>9, <1>10 DEF LoginInv

\* The state of a login is saved.
LEMMA LoginSaves ==
    ASSUME LoginInv, NEW r \in Requests, Login!Save(r)
    PROVE  LoginInv'
<1>1. pc[r] = "save" /\ pc' = [pc EXCEPT ![r] = "over"] /\ UNCHANGED <<now, mem, picked, gone>>
  BY DEF Login!Save, Login!Goto
<1>2. /\ r \in Callbacks /\ mem[r] # None /\ mem[r] \in Login!Session /\ mem[r].expires = Lifetime
      /\ mem[r].status = "completed" /\ mem[r].token = r
  BY <1>1, Sessions DEF LoginInv, Loaded
<1>3. /\ pc'[r] = "over" /\ \A q \in Requests \ {r} : pc'[q] = pc[q]
  BY <1>1 DEF LoginInv, LoginTypes
<1>4. \/ session' = session /\ stored' = stored
      \/ session' = Login!Saved(mem[r]) /\ stored' = TRUE
  BY DEF Login!Save
<1>5. now \in 0..MaxTime
  BY DEF LoginInv, LoginTypes
<1> DEFINE s == Login!Saved(mem[r])
<1>6. /\ s \in Login!Session /\ s.status = "completed" /\ s.token = r /\ s.expires = Lifetime
      /\ Lifetime < s.dies + Second
  BY <1>2, <1>5, SavedLives
<1> HIDE DEF s
<1>7. s # None /\ Unused(r)
  BY <1>1, <1>2, <1>6, AbsentAssumption DEF LoginInv
<1>8. session' \in {session, s} /\ stored' \in BOOLEAN /\ picked' \in BOOLEAN
  <2>1. stored' \in BOOLEAN
    BY Zenon, <1>4 DEF LoginInv
  <2> QED BY <1>1, <1>4, <2>1 DEF LoginInv, s
<1>9. LoginTypes'
  BY <1>1, <1>6, <1>8 DEF LoginInv, LoginTypes, LoginSteps
<1>10. Sane(session)' /\ \A q \in Requests : Sane(mem[q])'
  BY <1>1, <1>2, <1>6, <1>8 DEF LoginInv, Sane
<1>11. \A q \in Requests : Loaded(q)'
  <2>1. ASSUME NEW q \in Requests \ {r} PROVE Loaded(q)'
    <3>1. Loaded(q)
      BY DEF LoginInv
    <3> QED BY <1>1, <1>3, <3>1 DEF Loaded
  <2>2. Loaded(r)'
    BY <1>3 DEF Loaded
  <2> QED BY <2>1, <2>2
<1>12. ASSUME NEW q \in Callbacks, pc'[q] # "over" PROVE Unused(q)'
  <2>1. q \in Requests \ {r}
    BY <1>3, <1>12 DEF Requests
  <2>2. Unused(q)
    BY <1>3, <1>12, <2>1 DEF LoginInv
  <2> QED BY <1>1, <1>6, <1>8, <2>1, <2>2 DEF Unused
<1>13. Login!NotServedAgain'
  BY <1>1, <1>6, <1>7, <1>8 DEF LoginInv, Unused, Login!NotServedAgain
<1>14. Waiting'
  <2>1. CASE session' = session /\ stored' = stored
    BY <1>1, <2>1 DEF LoginInv, Waiting
  <2>2. CASE session' = s
    BY <1>6, <1>7, <2>2 DEF Waiting
  <2> QED BY <1>4, <2>1, <2>2 DEF s
<1> QED BY <1>8, <1>9, <1>10, <1>11, <1>12, <1>13, <1>14 DEF LoginInv

\* The answer to the browser.
LEMMA LoginAnswers ==
    ASSUME LoginInv, NEW r \in Requests, Login!Answer(r)
    PROVE  LoginInv'
<1>1. /\ pc[r] = "answer" /\ UNCHANGED <<now, session, mem, stored, picked, gone>>
      /\ pc' = [pc EXCEPT ![r] = "over"] /\ "over" \in LoginSteps
  BY DEF Login!Answer, Login!Goto, LoginSteps
<1>2. /\ picked' \in BOOLEAN /\ Sane(mem[r]) /\ mem' = [mem EXCEPT ![r] = mem[r]] /\ pc'[r] = "over"
      /\ mem[r] \in Login!Session \cup {None}
  BY <1>1 DEF LoginInv, LoginTypes
<1>3. Loaded(r)'
  BY <1>2 DEF Loaded
<1> QED BY <1>1, <1>2, <1>3, Handled

\* The invariant of the logins is inductive.
LEMMA LoginStep ==
    ASSUME LoginInv, Login!Next
    PROVE  LoginInv'
<1>1. CASE Login!Tick
  BY <1>1, LoginTicks
<1>2. ASSUME NEW r \in Requests,
             Login!Load(r) \/ Login!Check(r) \/ Login!Discard(r) \/ Login!Exchange(r) \/ Login!Save(r)
             \/ Login!Answer(r)
      PROVE  LoginInv'
  BY <1>2, LoginLoads, LoginChecks, LoginDiscards, LoginExchanges, LoginSaves, LoginAnswers
<1> QED BY <1>1, <1>2 DEF Login!Next, Requests

\* A step of another component changes nothing here.
LEMMA LoginStutter ==
    ASSUME LoginInv, UNCHANGED <<now, session, pc, mem, stored, picked, gone>>
    PROVE  LoginInv'
<1>1. \A r \in Requests : (Sane(mem[r]) /\ Loaded(r))'
  BY DEF LoginInv, Sane, Loaded
<1>2. \A r \in Callbacks : (pc[r] # "over" => Unused(r))'
  BY DEF LoginInv, Unused
<1> QED BY <1>1, <1>2 DEF LoginInv, LoginTypes, Sane, Login!NotServedAgain, Waiting

\* Sessions through requests, polls, callbacks and the clock.
LEMMA LoginKept == Spec => [](part = "login" => LoginInv)
<1> DEFINE Inv == part = "login" => LoginInv
<1>1. Init => Inv
  BY LoginInit DEF Init
<1>2. Inv /\ [Next]_vars => Inv'
  <2> SUFFICES ASSUME Inv, [Next]_vars, part' = "login" PROVE LoginInv'
    OBVIOUS
  <2>1. part = "login" /\ (Login!Next \/ UNCHANGED vars)
    BY DEF Next, vars
  <2>2. CASE UNCHANGED vars
    BY <2>1, <2>2, LoginStutter DEF vars
  <2> QED BY <2>1, <2>2, LoginStep
<1> HIDE DEF Inv
<1>3. Spec => []Inv
  BY <1>1, <1>2, PTL DEF Spec
<1> QED BY <1>3 DEF Inv

\* A token that was announced is there for the one who waits for it, and one
\* that was taken is not served again.
THEOREM LogsIn == Spec => []LoginCorrect
<1>1. (part = "login" => LoginInv) => LoginCorrect
  <2> SUFFICES ASSUME LoginInv PROVE Login!TypeOK /\ Login!SuccessNotLost /\ Login!NotServedAgain
    BY DEF LoginCorrect
  <2>1. Login!TypeOK
    BY DEF LoginInv, LoginTypes, LoginSteps, Requests, Login!TypeOK, Login!Tokens
  <2>2. Login!SuccessNotLost
    <3>1. now + Second =< Lifetime => ~(Lifetime < now + Second)
      BY Bounds DEF LoginInv, LoginTypes
    <3> QED BY <3>1 DEF LoginInv, Waiting, Login!SuccessNotLost
  <2> QED BY <2>1, <2>2 DEF LoginInv
<1> QED BY <1>1, LoginKept, PTL

-----------------------------------------------------------------------------
(* Invalidation.  A process that has seen the current revision has, and is  *)
(* about to store, nothing older than what the revision announced; and an   *)
(* edit that no revision announces is one that is going to be.              *)

Runners == Tasks \cup Procs
Readers == [home : Procs, at : Nat, late : BOOLEAN]

InvalidationTypes ==
    /\ cache \in [Procs -> [at : Nat, late : BOOLEAN] \cup {None}] /\ fills \subseteq Readers
    /\ revision \in Nat /\ up \in BOOLEAN /\ outages \in 0..MaxOutages
    /\ seen \in [Procs -> Nat] /\ pending \in [Procs -> BOOLEAN]
    /\ commits \in 0..MaxEdits /\ told \in Nat /\ lost \in BOOLEAN
    /\ pc \in [Runners -> {"idle", "clear", "incr", "told", "failed", "get", "compare"}]
    /\ mem \in [Runners -> [home : Procs, rev : Nat]]

\* A process that has seen the current revision has, and is about to store,
\* nothing older than what the revision announced.
UpToDate(p) ==
    /\ cache[p] # None /\ ~cache[p].late => told <= cache[p].at
    /\ \A f \in fills : f.home = p /\ ~f.late => told <= f.at

RevisionInv ==
    /\ InvalidationTypes
    /\ told <= commits /\ (revision = 0 => told = 0)
    /\ \A p \in Procs : seen[p] <= revision
    /\ \A x \in Runners : mem[x].rev <= revision
    /\ \A p \in Procs : seen[p] = revision => UpToDate(p)

\* The names of the types.
LEMMA InvalidationTyped == InvalidationTypes <=> Invalidation!TypeOK
BY Zenon DEF InvalidationTypes, Readers, Runners, Invalidation!TypeOK, Invalidation!CacheTypeOK, Invalidation!Entry,
   Invalidation!Fill, Invalidation!Runners, Invalidation!Steps, Invalidation!Memory

\* An entry is forgotten, and the readers on their way with it.
LEMMA ReaderForgets ==
    ASSUME NEW f \in Readers, NEW p \in Procs
    PROVE  LET g == [f EXCEPT !.late = f.late \/ f.home = p]
           IN  /\ g \in Readers /\ g.home = f.home /\ g.at = f.at
               /\ (f.late => g.late) /\ (f.home = p => g.late)
<1> DEFINE b == f.late \/ f.home = p
<1>1. b \in BOOLEAN /\ (f.late => b) /\ (f.home = p => b)
  BY Zenon
<1> HIDE DEF b
<1> DEFINE g == [f EXCEPT !.late = b]
<1>2. g \in Readers /\ g.home = f.home /\ g.at = f.at /\ g.late = b
  BY <1>1 DEF Readers
<1>3. g = [f EXCEPT !.late = f.late \/ f.home = p]
  BY DEF b
<1> HIDE DEF g
<1> QED BY <1>1, <1>2, <1>3

\* Clearing empties the cache of a process and marks its readers.
LEMMA CachesForget ==
    ASSUME InvalidationTypes, NEW p \in Procs, Invalidation!Forget(p)
    PROVE  /\ cache' \in [Procs -> [at : Nat, late : BOOLEAN] \cup {None}] /\ fills' \subseteq Readers
           /\ cache'[p] = None /\ \A q \in Procs : q # p => cache'[q] = cache[q]
           /\ \A g \in fills' : /\ g.home = p => g.late
                                /\ \E f \in fills : g.home = f.home /\ g.at = f.at /\ (f.late => g.late)
<1>1. /\ cache' = [cache EXCEPT ![p] = None]
      /\ fills' = {[f EXCEPT !.late = f.late \/ f.home = p] : f \in fills}
  BY DEF Invalidation!Forget
<1>2. ASSUME NEW g \in fills'
      PROVE  /\ g \in Readers /\ (g.home = p => g.late)
             /\ \E f \in fills : g.home = f.home /\ g.at = f.at /\ (f.late => g.late)
  <2>1. PICK f \in fills : g = [f EXCEPT !.late = f.late \/ f.home = p]
    BY <1>1, <1>2
  <2>2. f \in Readers
    BY DEF InvalidationTypes
  <2>3. /\ g \in Readers /\ g.home = f.home /\ g.at = f.at
        /\ (f.late => g.late) /\ (f.home = p => g.late)
    BY <2>1, <2>2, ReaderForgets
  <2> QED BY <2>3
<1>3. cache' \in [Procs -> [at : Nat, late : BOOLEAN] \cup {None}]
  BY <1>1 DEF InvalidationTypes
<1>4. cache'[p] = None /\ \A q \in Procs : q # p => cache'[q] = cache[q]
  BY <1>1 DEF InvalidationTypes
<1> QED BY <1>2, <1>3, <1>4

\* Nothing is announced at first.
LEMMA InvalidationInit == Invalidation!Init => RevisionInv
<1> SUFFICES ASSUME Invalidation!Init PROVE RevisionInv
  OBVIOUS
<1>1. (CHOOSE p \in Procs : TRUE) \in Procs
  BY BoundsAssumption
<1> DEFINE first(x) == IF x \in Procs THEN x ELSE CHOOSE p \in Procs : TRUE
<1>2. \A x \in Runners : first(x) \in Procs
  BY <1>1
<1>3. mem = [x \in Runners |-> [home |-> first(x), rev |-> 0]]
  BY DEF Invalidation!Init, Runners, Invalidation!Runners
<1> HIDE DEF first
<1>4. mem \in [Runners -> [home : Procs, rev : Nat]] /\ \A x \in Runners : mem[x].rev = 0
  BY <1>2, <1>3
<1>5. InvalidationTypes
  <2>1. up \in BOOLEAN /\ lost \in BOOLEAN /\ pending \in [Procs -> BOOLEAN]
    BY Zenon DEF Invalidation!Init
  <2>2. outages \in 0..MaxOutages /\ commits \in 0..MaxEdits /\ revision \in Nat /\ told \in Nat
    BY BoundsAssumption DEF Invalidation!Init
  <2>3. cache \in [Procs -> [at : Nat, late : BOOLEAN] \cup {None}] /\ fills \subseteq Readers
    BY DEF Invalidation!Init, Invalidation!CacheInit
  <2>4. seen \in [Procs -> Nat] /\ pc \in [Runners -> {"idle", "clear", "incr", "told", "failed", "get", "compare"}]
    BY DEF Invalidation!Init, Runners, Invalidation!Runners
  <2> QED BY <1>4, <2>1, <2>2, <2>3, <2>4 DEF InvalidationTypes
<1>6. \A p \in Procs : UpToDate(p)
  BY DEF Invalidation!Init, Invalidation!CacheInit, UpToDate
<1> QED BY <1>4, <1>5, <1>6 DEF RevisionInv, Invalidation!Init

\* The step of a runner that is not counted.
LEMMA Going ==
    ASSUME InvalidationTypes, NEW x \in Runners,
           NEW step \in {"idle", "clear", "incr", "told", "failed", "get", "compare"},
           Invalidation!Goto(x, step)
    PROVE  /\ pc' \in [Runners -> {"idle", "clear", "incr", "told", "failed", "get", "compare"}]
           /\ pc'[x] = step /\ \A y \in Runners : y # x => pc'[y] = pc[y]
BY DEF InvalidationTypes, Invalidation!Goto

\* Redis breaks as often as the bound says.
LEMMA Breaking ==
    ASSUME InvalidationTypes, Invalidation!Break
    PROVE  up' \in BOOLEAN /\ outages' \in 0..MaxOutages
<1>1. up' \in BOOLEAN
  BY Zenon DEF Invalidation!Break
<1>2. outages' = outages + 1 /\ outages < MaxOutages
  BY Zenon DEF Invalidation!Break
<1>3. outages' \in 0..MaxOutages
  BY <1>2, BoundsAssumption DEF InvalidationTypes
<1> QED BY <1>1, <1>3

\* An edit is committed: nothing is announced yet.
LEMMA EditCommits ==
    ASSUME RevisionInv, NEW t \in Tasks, NEW p \in Procs, Invalidation!CommitEdit(t, p)
    PROVE  RevisionInv'
<1> USE DEF Invalidation!CommitEdit, Invalidation!caches, Invalidation!redis
<1>1. t \in Runners /\ Invalidation!Goto(t, "clear")
  BY DEF Runners
<1>2. commits' = commits + 1 /\ commits' \in 0..MaxEdits
  BY BoundsAssumption DEF RevisionInv, InvalidationTypes
<1>3. /\ mem' \in [Runners -> [home : Procs, rev : Nat]]
      /\ \A x \in Runners : mem'[x].rev = mem[x].rev
  BY <1>1 DEF RevisionInv, InvalidationTypes
<1>4. InvalidationTypes'
  BY <1>1, <1>2, <1>3, Going DEF RevisionInv, InvalidationTypes
<1>5. \A q \in Procs : seen[q] = revision => UpToDate(q)'
  BY DEF RevisionInv, UpToDate
<1> QED BY <1>2, <1>3, <1>4, <1>5 DEF RevisionInv, InvalidationTypes

\* A cache is cleared and the flag is set.
LEMMA CachesCleared ==
    ASSUME RevisionInv, NEW x \in Runners, Invalidation!ClearAll(x)
    PROVE  RevisionInv'
<1> USE DEF Invalidation!ClearAll, Invalidation!redis, Invalidation!history
<1> DEFINE p == mem[x].home
<1>1. p \in Procs /\ Invalidation!Forget(p) /\ Invalidation!Goto(x, "incr") /\ InvalidationTypes
  BY DEF RevisionInv, InvalidationTypes
<1>2. pending' \in [Procs -> BOOLEAN]
  BY DEF RevisionInv, InvalidationTypes
<1>3. InvalidationTypes'
  BY <1>1, <1>2, Going, CachesForget DEF InvalidationTypes
<1>4. \A q \in Procs : UpToDate(q) => UpToDate(q)'
  <2> TAKE q \in Procs
  <2>1. cache'[q] = None \/ cache'[q] = cache[q]
    BY <1>1, CachesForget
  <2>2. \A g \in fills' : \E f \in fills : g.home = f.home /\ g.at = f.at /\ (f.late => g.late)
    BY <1>1, CachesForget
  <2>3. told' = told
    OBVIOUS
  <2> QED BY <2>1, <2>2, <2>3 DEF UpToDate
<1> QED BY <1>3, <1>4 DEF RevisionInv

\* A new revision announces all that is committed; nobody has seen it yet.
LEMMA RevisionIncrements ==
    ASSUME RevisionInv, NEW x \in Runners, Invalidation!Increment(x)
    PROVE  RevisionInv'
<1> USE DEF Invalidation!caches, Invalidation!history, Invalidation!redis
<1>1. /\ up' \in BOOLEAN /\ outages' \in 0..MaxOutages
      /\ Invalidation!Goto(x, "told") \/ Invalidation!Goto(x, "failed")
      /\ UNCHANGED <<cache, fills, commits, lost, seen, pending, mem>>
      /\ \/ revision' = revision + 1 /\ told' = commits
         \/ UNCHANGED <<revision, told>>
  <2>1. /\ Invalidation!Break \/ UNCHANGED <<up, outages>>
        /\ Invalidation!Goto(x, "told") \/ Invalidation!Goto(x, "failed")
        /\ UNCHANGED <<cache, fills, commits, lost, seen, pending, mem>>
        /\ \/ revision' = revision + 1 /\ told' = commits
           \/ UNCHANGED <<revision, told>>
    BY Zenon DEF Invalidation!Increment
  <2>2. up' \in BOOLEAN /\ outages' \in 0..MaxOutages
    <3>1. CASE Invalidation!Break
      BY <3>1, Breaking DEF RevisionInv
    <3>2. CASE UNCHANGED <<up, outages>>
      BY Zenon, <3>2 DEF RevisionInv, InvalidationTypes
    <3> QED BY <2>1, <3>1, <3>2
  <2> QED BY <2>1, <2>2
<1>2. InvalidationTypes'
  BY <1>1, Going DEF RevisionInv, InvalidationTypes
<1>3. CASE revision' = revision + 1 /\ told' = commits
  <2>1. \A p \in Procs : seen'[p] < revision'
    BY <1>1, <1>3 DEF RevisionInv, InvalidationTypes
  <2>2. \A y \in Runners : mem'[y].rev <= revision'
    BY <1>1, <1>3 DEF RevisionInv, InvalidationTypes
  <2>3. \A p \in Procs : seen'[p] <= revision' /\ seen'[p] # revision'
    BY <1>2, <2>1 DEF InvalidationTypes
  <2>4. told' <= commits' /\ revision' # 0
    BY <1>1, <1>3 DEF RevisionInv, InvalidationTypes
  <2> QED BY <1>2, <2>2, <2>3, <2>4 DEF RevisionInv
<1>4. CASE UNCHANGED <<revision, told>>
  BY <1>1, <1>2, <1>4 DEF RevisionInv, UpToDate
<1> QED BY <1>1, <1>3, <1>4

\* The answer, the reading of the revision, and Redis coming and going.
LEMMA RevisionAsked ==
    ASSUME RevisionInv,
           \/ \E x \in Runners : Invalidation!Answered(x)
           \/ \E p \in Procs : Invalidation!GetRevision(p)
           \/ Invalidation!LoseRedis \/ Invalidation!Recover
    PROVE  RevisionInv'
<1> USE DEF Invalidation!caches, Invalidation!history, Invalidation!redis
<1>1. ASSUME NEW x \in Runners, Invalidation!Answered(x) PROVE RevisionInv'
  <2>1. Invalidation!Goto(x, "get") \/ Invalidation!Goto(x, "idle")
    BY <1>1 DEF Invalidation!Answered
  <2>2. pending' \in [Procs -> BOOLEAN]
    BY <1>1 DEF Invalidation!Answered, RevisionInv, InvalidationTypes
  <2>3. InvalidationTypes'
    BY <1>1, <2>1, <2>2, Going DEF Invalidation!Answered, RevisionInv, InvalidationTypes
  <2> QED BY <1>1, <2>3 DEF Invalidation!Answered, RevisionInv, UpToDate
<1>2. ASSUME NEW p \in Procs, Invalidation!GetRevision(p) PROVE RevisionInv'
  <2>1. p \in Runners /\ (Invalidation!Goto(p, "compare") \/ Invalidation!Goto(p, "idle"))
    BY <1>2 DEF Invalidation!GetRevision, Runners
  <2>2. mem' = mem \/ mem' = [mem EXCEPT ![p].rev = revision]
    BY <1>2 DEF Invalidation!GetRevision
  <2>3. mem' \in [Runners -> [home : Procs, rev : Nat]] /\ \A y \in Runners : mem'[y].rev <= revision
    <3>1. CASE mem' = mem
      BY <3>1 DEF RevisionInv, InvalidationTypes
    <3>2. CASE mem' = [mem EXCEPT ![p].rev = revision]
      <4>1. revision \in Nat /\ revision <= revision /\ mem \in [Runners -> [home : Procs, rev : Nat]]
        BY DEF RevisionInv, InvalidationTypes
      <4>2. mem' \in [Runners -> [home : Procs, rev : Nat]]
        BY <2>1, <3>2, <4>1
      <4>3. \A y \in Runners : mem'[y].rev = IF y = p THEN revision ELSE mem[y].rev
        BY <2>1, <3>2, <4>1
      <4> QED BY <4>1, <4>2, <4>3 DEF RevisionInv
    <3> QED BY <2>2, <3>1, <3>2
  <2>4. InvalidationTypes'
    BY <1>2, <2>1, <2>3, Going DEF Invalidation!GetRevision, RevisionInv, InvalidationTypes
  <2> QED BY <1>2, <2>3, <2>4 DEF Invalidation!GetRevision, RevisionInv, UpToDate
<1>3. CASE Invalidation!LoseRedis \/ Invalidation!Recover
  <2>1. /\ up' \in BOOLEAN /\ outages' \in 0..MaxOutages
        /\ UNCHANGED <<cache, fills, revision, told, commits, lost, seen, pending, pc, mem>>
    <3>1. UNCHANGED <<cache, fills, revision, told, commits, lost, seen, pending, pc, mem>>
      BY <1>3 DEF Invalidation!LoseRedis, Invalidation!Recover
    <3>2. CASE Invalidation!LoseRedis
      <4>1. Invalidation!Break
        BY <3>2 DEF Invalidation!LoseRedis
      <4> QED BY <3>1, <4>1, Breaking DEF RevisionInv
    <3>3. CASE Invalidation!Recover
      <4>1. up' \in BOOLEAN /\ outages' = outages
        BY Zenon, <3>3 DEF Invalidation!Recover
      <4> QED BY <3>1, <4>1 DEF RevisionInv, InvalidationTypes
    <3> QED BY <1>3, <3>2, <3>3, <3>1
  <2> QED BY <2>1 DEF RevisionInv, InvalidationTypes, UpToDate
<1> QED BY <1>1, <1>2, <1>3

\* A process that sees a new revision clears its cache, and whoever is on the
\* way to it comes late.
LEMMA RevisionCompared ==
    ASSUME RevisionInv, NEW p \in Procs, Invalidation!Compare(p)
    PROVE  RevisionInv'
<1> USE DEF Invalidation!caches, Invalidation!history, Invalidation!redis
<1>1. /\ p \in Runners /\ Invalidation!Goto(p, "idle") /\ mem' = [mem EXCEPT ![p].rev = 0]
      /\ UNCHANGED <<revision, up, outages, told, commits, lost, pending>>
  BY DEF Invalidation!Compare, Runners
<1>2. mem' \in [Runners -> [home : Procs, rev : Nat]] /\ \A y \in Runners : mem'[y].rev <= revision
  BY <1>1 DEF RevisionInv, InvalidationTypes
<1>3. CASE mem[p].rev # seen[p]
  <2>1. Invalidation!Forget(p) /\ seen' = [seen EXCEPT ![p] = mem[p].rev] /\ InvalidationTypes
    BY <1>3 DEF Invalidation!Compare, RevisionInv
  <2>2. seen' \in [Procs -> Nat] /\ \A q \in Procs : seen'[q] <= revision /\ (q # p => seen'[q] = seen[q])
    BY <1>1, <2>1 DEF RevisionInv, InvalidationTypes
  <2>3. InvalidationTypes'
    BY <1>1, <1>2, <2>1, <2>2, Going, CachesForget DEF InvalidationTypes
  <2>4. \A q \in Procs : seen'[q] = revision => UpToDate(q)'
    <3> SUFFICES ASSUME NEW q \in Procs, seen'[q] = revision PROVE UpToDate(q)'
      OBVIOUS
    <3>1. CASE q = p
      BY <2>1, <3>1, CachesForget DEF UpToDate
    <3>2. CASE q # p
      <4>1. UpToDate(q) /\ cache'[q] = cache[q]
        BY <2>1, <2>2, <3>2, CachesForget DEF RevisionInv
      <4>2. \A g \in fills' : \E f \in fills : g.home = f.home /\ g.at = f.at /\ (f.late => g.late)
        BY <2>1, CachesForget
      <4> QED BY <1>1, <4>1, <4>2 DEF UpToDate
    <3> QED BY <3>1, <3>2
  <2> QED BY <1>1, <1>2, <2>2, <2>3, <2>4 DEF RevisionInv
<1>4. CASE ~(mem[p].rev # seen[p])
  <2>1. UNCHANGED <<cache, fills, seen>>
    BY <1>4 DEF Invalidation!Compare
  <2>2. InvalidationTypes'
    BY <1>1, <1>2, <2>1, Going DEF RevisionInv, InvalidationTypes
  <2> QED BY <1>1, <1>2, <2>1, <2>2 DEF RevisionInv, UpToDate
<1> QED BY <1>3, <1>4

\* A process that starts again has an empty cache.
LEMMA ProcessRestarts ==
    ASSUME RevisionInv, NEW p \in Procs, Invalidation!Restart(p)
    PROVE  RevisionInv'
<1> USE DEF Invalidation!Restart, Invalidation!Vanish, Invalidation!redis
<1>1. /\ cache' = [cache EXCEPT ![p] = None] /\ fills' = {f \in fills : f.home # p}
      /\ seen' = [seen EXCEPT ![p] = 0]
      /\ UNCHANGED <<revision, up, outages, told, commits, mem>>
  OBVIOUS
<1>2. lost' \in BOOLEAN
  BY Zenon
<1>3. pc' \in [Runners -> {"idle", "clear", "incr", "told", "failed", "get", "compare"}]
  BY DEF RevisionInv, InvalidationTypes, Runners, Invalidation!Runners
<1>4. pending' \in [Procs -> BOOLEAN] /\ seen' \in [Procs -> Nat]
  BY DEF RevisionInv, InvalidationTypes
<1>5. InvalidationTypes'
  BY <1>1, <1>2, <1>3, <1>4 DEF RevisionInv, InvalidationTypes
<1>6. \A q \in Procs : seen'[q] <= revision
  BY <1>1 DEF RevisionInv, InvalidationTypes
<1>7. ASSUME NEW q \in Procs, seen'[q] = revision PROVE UpToDate(q)'
  <2>1. CASE q = p
    BY <1>1, <2>1 DEF RevisionInv, InvalidationTypes, UpToDate
  <2>2. CASE q # p
    BY <1>1, <1>7, <2>2 DEF RevisionInv, InvalidationTypes, UpToDate
  <2> QED BY <2>1, <2>2
<1> QED BY <1>1, <1>5, <1>6, <1>7 DEF RevisionInv

\* A reader sees all that is committed, more than any revision announces.
LEMMA ReadersRead ==
    ASSUME RevisionInv, Invalidation!Reading
    PROVE  RevisionInv'
<1>1. UNCHANGED <<revision, up, outages, told, commits, lost, seen, pending, pc, mem>>
  BY DEF Invalidation!Reading, Invalidation!redis, Invalidation!history
<1>2. ASSUME NEW p \in Procs, Invalidation!Expire(p) PROVE RevisionInv'
  <2>1. cache' = [cache EXCEPT ![p] = None] /\ fills' = fills
    BY <1>2 DEF Invalidation!Expire
  <2>2. InvalidationTypes'
    BY <1>1, <2>1 DEF RevisionInv, InvalidationTypes
  <2>3. \A q \in Procs : cache'[q] = None \/ cache'[q] = cache[q]
    BY <2>1 DEF RevisionInv, InvalidationTypes
  <2> QED BY <1>1, <2>1, <2>2, <2>3 DEF RevisionInv, UpToDate
<1>3. ASSUME NEW p \in Procs, Invalidation!Query(p, TRUE, commits) PROVE RevisionInv'
  <2> DEFINE f == [home |-> p, at |-> commits, late |-> FALSE]
  <2>1. fills' = fills \cup {f} /\ cache' = cache
    BY <1>3 DEF Invalidation!Query
  <2>2. f \in Readers /\ told <= f.at
    BY DEF Readers, RevisionInv, InvalidationTypes
  <2> HIDE DEF f
  <2>3. InvalidationTypes'
    BY <1>1, <2>1, <2>2 DEF RevisionInv, InvalidationTypes
  <2> QED BY <1>1, <2>1, <2>2, <2>3 DEF RevisionInv, UpToDate
<1>4. ASSUME NEW f \in fills, Invalidation!Store(f) PROVE RevisionInv'
  <2>1. f \in Readers
    BY DEF RevisionInv, InvalidationTypes
  <2>2. fills' = fills \ {f} /\ cache' = [cache EXCEPT ![f.home] = [at |-> f.at, late |-> f.late]]
    BY <1>4 DEF Invalidation!Store
  <2>3. InvalidationTypes'
    BY <1>1, <2>1, <2>2 DEF RevisionInv, InvalidationTypes, Readers
  <2>4. ASSUME NEW q \in Procs, UpToDate(q) PROVE UpToDate(q)'
    <3>1. CASE q = f.home
      <4>1. cache'[q] = [at |-> f.at, late |-> f.late]
        BY <2>1, <2>2, <3>1 DEF RevisionInv, InvalidationTypes, Readers
      <4> QED BY <1>1, <2>2, <2>4, <3>1, <4>1 DEF UpToDate
    <3>2. CASE q # f.home
      <4>1. cache'[q] = cache[q]
        BY <2>1, <2>2, <3>2 DEF RevisionInv, InvalidationTypes, Readers
      <4> QED BY <1>1, <2>2, <2>4, <4>1 DEF UpToDate
    <3> QED BY <3>1, <3>2
  <2> QED BY <1>1, <2>3, <2>4 DEF RevisionInv
<1> QED BY <1>2, <1>3, <1>4 DEF Invalidation!Reading

\* Every step keeps it.
LEMMA InvalidationStep == ASSUME RevisionInv, Invalidation!Next PROVE RevisionInv'
<1>1. Tasks \subseteq Runners /\ Procs \subseteq Runners
  BY DEF Runners
<1> QED BY <1>1, EditCommits, CachesCleared, RevisionIncrements, RevisionAsked, RevisionCompared, ProcessRestarts, ReadersRead
   DEF Invalidation!Next, Invalidation!Poll, Invalidation!Step

\* Nothing is lost on the way: edits that are committed and not announced.
Announcing ==
    /\ RevisionInv
    /\ commits = 0 => /\ \A x \in Runners : pc[x] \notin {"clear", "incr", "told", "failed"}
                      /\ \A p \in Procs : ~pending[p]
    /\ \A x \in Runners : pc[x] = "told" => told = commits
    /\ ~lost /\ told < commits => \A x \in Runners : pc[x] \in {"incr", "failed"} => pending[mem[x].home]
    /\ ~lost /\ told < commits => \/ \E x \in Runners : pc[x] \in {"clear", "incr"}
                                  \/ \E p \in Procs : pending[p]

\* With a single edit at a time an announcement is not forgotten.
LEMMA AnnouncementStep ==
    ASSUME MaxEdits <= 1, Announcing, Invalidation!Next
    PROVE  Announcing'
<1> USE DEF Invalidation!caches, Invalidation!history, Invalidation!redis
<1>1. RevisionInv /\ RevisionInv'
  BY InvalidationStep DEF Announcing
<1>2. commits \in {0, 1} /\ told \in Nat /\ told <= commits
  BY <1>1, BoundsAssumption DEF RevisionInv, InvalidationTypes
<1>3. ASSUME NEW t \in Tasks, NEW p \in Procs, Invalidation!CommitEdit(t, p) PROVE Announcing'
  <2>1. t \in Runners /\ Invalidation!Goto(t, "clear") /\ InvalidationTypes
    BY <1>1, <1>3 DEF Runners, Invalidation!CommitEdit, RevisionInv
  <2>2. commits = 0 /\ commits' = 1 /\ told' = told /\ pending' = pending
    BY <1>2, <1>3, BoundsAssumption DEF Invalidation!CommitEdit
  <2>3. \A x \in Runners : pc'[x] \notin {"incr", "told", "failed"}
    BY <2>1, <2>2, Going DEF Announcing
  <2>4. pc'[t] = "clear"
    BY <2>1, Going
  <2> QED BY <1>1, <2>1, <2>2, <2>3, <2>4 DEF Announcing
<1>4. ASSUME NEW x \in Runners, Invalidation!ClearAll(x) PROVE Announcing'
  <2>1. /\ Invalidation!Goto(x, "incr") /\ pending' = [pending EXCEPT ![mem[x].home] = TRUE]
        /\ UNCHANGED <<commits, told, lost, mem>> /\ InvalidationTypes
        /\ pc[x] = "clear" \/ (x \in Procs /\ pending[x])
    BY <1>1, <1>4 DEF Invalidation!ClearAll, RevisionInv
  <2>2. commits # 0
    BY <2>1 DEF Announcing
  <2>3. pc'[x] = "incr" /\ \A y \in Runners : y # x => pc'[y] = pc[y]
    BY <2>1, Going
  <2>4. mem[x].home \in Procs /\ pending'[mem[x].home] /\ \A q \in Procs : pending[q] => pending'[q]
    BY <2>1 DEF InvalidationTypes
  <2> QED BY <1>1, <2>1, <2>2, <2>3, <2>4 DEF Announcing
<1>5. ASSUME NEW x \in Runners, Invalidation!Increment(x) PROVE Announcing'
  <2>1. /\ pc[x] = "incr" /\ InvalidationTypes
        /\ UNCHANGED <<commits, lost, pending, mem>>
        /\ \/ told' = commits /\ (Invalidation!Goto(x, "told") \/ Invalidation!Goto(x, "failed"))
           \/ told' = told /\ Invalidation!Goto(x, "failed")
    BY <1>1, <1>5, Zenon DEF Invalidation!Increment, RevisionInv
  <2>2. commits # 0
    BY <2>1 DEF Announcing
  <2>3. CASE told' = commits
    <3>1. \A y \in Runners : y # x => pc'[y] = pc[y]
      BY <2>1, Going
    <3> QED BY <1>1, <1>2, <2>1, <2>2, <2>3, <3>1 DEF Announcing
  <2>4. CASE told' = told /\ Invalidation!Goto(x, "failed")
    <3>1. pc'[x] = "failed" /\ \A y \in Runners : y # x => pc'[y] = pc[y]
      BY <2>1, <2>4, Going
    <3>2. mem[x].home \in Procs
      BY <2>1 DEF InvalidationTypes
    <3> QED BY <1>1, <2>1, <2>2, <2>4, <3>1, <3>2 DEF Announcing
  <2> QED BY <2>1, <2>3, <2>4
<1>6. ASSUME NEW x \in Runners, Invalidation!Answered(x) PROVE Announcing'
  <2>1. /\ Invalidation!Goto(x, "get") \/ Invalidation!Goto(x, "idle")
        /\ UNCHANGED <<commits, told, lost, mem>> /\ InvalidationTypes
        /\ pc[x] \in {"told", "failed"}
        /\ pending' = IF pc[x] = "told" THEN [pending EXCEPT ![mem[x].home] = FALSE] ELSE pending
    BY <1>1, <1>6 DEF Invalidation!Answered, RevisionInv
  <2>2. commits # 0
    BY <2>1 DEF Announcing
  <2>3. /\ pc'[x] \notin {"clear", "incr", "told", "failed"}
        /\ \A y \in Runners : y # x => pc'[y] = pc[y]
    BY <2>1, Going
  <2>4. CASE pc[x] = "told"
    <3>1. told = commits
      BY <2>4 DEF Announcing
    <3> QED BY <1>1, <1>2, <2>1, <2>2, <2>3, <3>1 DEF Announcing
  <2>5. CASE pc[x] = "failed"
    <3>1. pending' = pending
      BY <2>1, <2>5
    <3>2. mem[x].home \in Procs
      BY <2>1 DEF InvalidationTypes
    <3> QED BY <1>1, <2>1, <2>2, <2>3, <2>5, <3>1, <3>2 DEF Announcing
  <2> QED BY <2>1, <2>4, <2>5
<1>7. ASSUME NEW p \in Procs, Invalidation!GetRevision(p) \/ Invalidation!Compare(p) PROVE Announcing'
  <2>1. /\ p \in Runners /\ InvalidationTypes
        /\ Invalidation!Goto(p, "compare") \/ Invalidation!Goto(p, "idle")
        /\ UNCHANGED <<commits, told, lost, pending>>
        /\ pc[p] \in {"get", "idle", "compare"}
    BY <1>1, <1>7 DEF Invalidation!GetRevision, Invalidation!Compare, RevisionInv, Runners
  <2>2. /\ pc'[p] \notin {"clear", "incr", "told", "failed"}
        /\ \A y \in Runners : y # p => pc'[y] = pc[y]
    BY <2>1, Going
  <2>3. \A y \in Runners : mem'[y].home = mem[y].home
    BY <1>7, <2>1 DEF Invalidation!GetRevision, Invalidation!Compare, InvalidationTypes
  <2> QED BY <1>1, <2>1, <2>2, <2>3 DEF Announcing
<1>8. CASE Invalidation!LoseRedis \/ Invalidation!Recover \/ Invalidation!Reading
  <2>1. UNCHANGED <<commits, told, lost, pending, pc, mem>>
    BY <1>8 DEF Invalidation!LoseRedis, Invalidation!Recover, Invalidation!Reading
  <2> QED BY <1>1, <2>1 DEF Announcing
<1>9. ASSUME NEW p \in Procs, Invalidation!Restart(p) PROVE Announcing'
  <2>1. /\ pending' = [pending EXCEPT ![p] = FALSE]
        /\ UNCHANGED <<commits, told, mem>> /\ InvalidationTypes
        /\ pc' = [x \in Runners |-> IF mem[x].home = p THEN "idle" ELSE pc[x]]
        /\ lost' <=> (lost \/ pending[p] \/ \E x \in Runners : mem[x].home = p /\ pc[x] \in {"clear", "incr"})
    <3>1. lost' <=> (lost \/ pending[p] \/ \E x \in Runners : mem[x].home = p /\ pc[x] \in {"clear", "incr"})
      BY <1>9, Zenon DEF Invalidation!Restart, Runners, Invalidation!Runners
    <3>2. pc' = [x \in Runners |-> IF mem[x].home = p THEN "idle" ELSE pc[x]]
      BY <1>9 DEF Invalidation!Restart, Runners, Invalidation!Runners
    <3> QED BY <1>1, <1>9, <3>1, <3>2 DEF Invalidation!Restart, RevisionInv
  <2>2. \A x \in Runners : IF mem[x].home = p THEN pc'[x] = "idle" ELSE pc'[x] = pc[x]
    BY <2>1
  <2>3. \A q \in Procs : IF q = p THEN ~pending'[q] ELSE pending'[q] = pending[q]
    BY <2>1 DEF InvalidationTypes
  <2>4. commits' = 0 => /\ \A x \in Runners : pc'[x] \notin {"clear", "incr", "told", "failed"}
                        /\ \A q \in Procs : ~pending'[q]
    BY <2>1, <2>2, <2>3 DEF Announcing
  <2>5. \A x \in Runners : pc'[x] = "told" => told' = commits'
    BY <2>1, <2>2 DEF Announcing
  <2>6. ASSUME ~lost', told' < commits'
        PROVE  /\ \A x \in Runners : pc'[x] \in {"incr", "failed"} => pending'[mem'[x].home]
               /\ (\E x \in Runners : pc'[x] \in {"clear", "incr"}) \/ (\E q \in Procs : pending'[q])
    <3>1. ~lost /\ ~pending[p] /\ (\A x \in Runners : mem[x].home = p => pc[x] \notin {"clear", "incr"})
      BY <2>1, <2>6, Zenon
    <3>2. told < commits
      BY <2>1, <2>6
    <3>3. \A x \in Runners : mem[x].home \in Procs
      BY <2>1 DEF InvalidationTypes
    <3>4. \A x \in Runners : pc'[x] \in {"incr", "failed"} => pending'[mem'[x].home]
      BY <2>1, <2>2, <2>3, <3>1, <3>2, <3>3 DEF Announcing
    <3>5. (\E x \in Runners : pc[x] \in {"clear", "incr"}) \/ (\E q \in Procs : pending[q])
      BY <3>1, <3>2 DEF Announcing
    <3>6. (\E x \in Runners : pc'[x] \in {"clear", "incr"}) \/ (\E q \in Procs : pending'[q])
      BY <2>2, <2>3, <3>1, <3>5
    <3> QED BY <3>4, <3>6
  <2> QED BY <1>1, <2>4, <2>5, <2>6 DEF Announcing
<1>10. Tasks \subseteq Runners /\ Procs \subseteq Runners
  BY DEF Runners
<1> QED BY <1>3, <1>4, <1>5, <1>6, <1>7, <1>8, <1>9, <1>10
   DEF Invalidation!Next, Invalidation!Poll, Invalidation!Step

\* While Redis answers, whoever has committed goes on to tell of it.
Online ==
    /\ RevisionInv /\ up /\ outages = 0
    /\ ~lost /\ told < commits => \E x \in Runners : pc[x] \in {"clear", "incr"}

\* With a Redis that is never lost no announcement is, however edits overlap.
LEMMA OnlineStep ==
    ASSUME MaxOutages = 0, Online, Invalidation!Next
    PROVE  Online'
<1> USE DEF Invalidation!caches, Invalidation!history, Invalidation!redis
<1>1. RevisionInv /\ RevisionInv' /\ InvalidationTypes /\ InvalidationTypes'
  BY InvalidationStep DEF Online, RevisionInv
<1>2. ~Invalidation!Break
  BY DEF Invalidation!Break, Online
<1>3. outages' = 0
  BY <1>1 DEF InvalidationTypes
<1>4. Tasks \subseteq Runners /\ Procs \subseteq Runners
  BY DEF Runners
<1>5. ASSUME NEW x \in Runners, pc'[x] \in {"clear", "incr"}, up' = up PROVE Online'
  BY <1>1, <1>3, <1>5 DEF Online
<1>6. ASSUME UNCHANGED <<up, commits, told, lost>>,
             \A x \in Runners : pc[x] \in {"clear", "incr"} => pc'[x] = pc[x]
      PROVE  Online'
  BY <1>1, <1>3, <1>6 DEF Online
<1>7. ASSUME NEW t \in Tasks, NEW p \in Procs, Invalidation!CommitEdit(t, p) PROVE Online'
  <2>1. t \in Runners /\ Invalidation!Goto(t, "clear") /\ up' = up
    BY <1>4, <1>7 DEF Invalidation!CommitEdit
  <2>2. pc'[t] = "clear"
    BY <1>1, <2>1, Going
  <2> QED BY <1>5, <2>1, <2>2
<1>8. ASSUME NEW x \in Runners, Invalidation!ClearAll(x) PROVE Online'
  <2>1. Invalidation!Goto(x, "incr") /\ up' = up
    BY <1>8 DEF Invalidation!ClearAll
  <2>2. pc'[x] = "incr"
    BY <1>1, <2>1, Going
  <2> QED BY <1>5, <2>1, <2>2
<1>9. ASSUME NEW x \in Runners, Invalidation!Increment(x) PROVE Online'
  <2>1. told' = commits /\ commits' = commits /\ up' = up
    BY <1>2, <1>9 DEF Invalidation!Increment, Online
  <2> QED BY <1>1, <1>3, <2>1 DEF Online, InvalidationTypes
<1>10. ASSUME NEW x \in Runners, Invalidation!Answered(x) PROVE Online'
  <2>1. /\ Invalidation!Goto(x, "get") \/ Invalidation!Goto(x, "idle")
        /\ pc[x] \in {"told", "failed"} /\ UNCHANGED <<up, commits, told, lost>>
    BY <1>10 DEF Invalidation!Answered
  <2>2. \A y \in Runners : y # x => pc'[y] = pc[y]
    BY <1>1, <2>1, Going
  <2> QED BY <1>6, <2>1, <2>2
<1>11. ASSUME NEW p \in Procs, Invalidation!GetRevision(p) \/ Invalidation!Compare(p) PROVE Online'
  <2>1. /\ Invalidation!Goto(p, "compare") \/ Invalidation!Goto(p, "idle")
        /\ pc[p] \in {"get", "idle", "compare"} /\ UNCHANGED <<up, commits, told, lost>>
    BY <1>11 DEF Invalidation!GetRevision, Invalidation!Compare
  <2>2. \A y \in Runners : y # p => pc'[y] = pc[y]
    BY <1>1, <1>4, <2>1, Going
  <2> QED BY <1>6, <2>1, <2>2
<1>12. CASE Invalidation!LoseRedis \/ Invalidation!Recover \/ Invalidation!Reading
  <2>1. UNCHANGED <<up, commits, told, lost, pc>>
    BY <1>2, <1>12 DEF Invalidation!LoseRedis, Invalidation!Recover, Invalidation!Reading, Online
  <2> QED BY <1>6, <2>1
<1>13. ASSUME NEW p \in Procs, Invalidation!Restart(p) PROVE Online'
  <2>1. /\ UNCHANGED <<up, commits, told>>
        /\ lost' <=> (lost \/ pending[p] \/ \E x \in Runners : mem[x].home = p /\ pc[x] \in {"clear", "incr"})
    BY <1>13, Zenon DEF Invalidation!Restart, Runners, Invalidation!Runners
  <2>2. pc' = [x \in Runners |-> IF mem[x].home = p THEN "idle" ELSE pc[x]]
    BY <1>13 DEF Invalidation!Restart, Runners, Invalidation!Runners
  <2>3. \A x \in Runners : mem[x].home # p => pc'[x] = pc[x]
    BY <2>2
  <2>4. ASSUME ~lost', told' < commits' PROVE \E x \in Runners : pc'[x] \in {"clear", "incr"}
    <3>1. PICK x \in Runners : pc[x] \in {"clear", "incr"}
      BY <2>1, <2>4 DEF Online
    <3>2. mem[x].home # p
      BY <2>1, <2>4, <3>1, Zenon
    <3> QED BY <2>3, <3>1, <3>2
  <2> QED BY <1>1, <1>3, <2>1, <2>4 DEF Online
<1> QED BY <1>4, <1>7, <1>8, <1>9, <1>10, <1>11, <1>12, <1>13
   DEF Invalidation!Next, Invalidation!Poll, Invalidation!Step

\* A step of another component, or none, changes nothing here.
LEMMA InvalidationStutter ==
    ASSUME UNCHANGED <<cache, fills, revision, up, outages, seen, pending, commits, told, lost, pc, mem>>
    PROVE  (RevisionInv => RevisionInv') /\ (Announcing => Announcing') /\ (Online => Online')
<1>1. RevisionInv => RevisionInv'
  BY DEF RevisionInv, InvalidationTypes, UpToDate
<1> QED BY <1>1 DEF Announcing, Online

\* What the invariants say in the words of the module.
LEMMA InvalidationSays ==
    /\ RevisionInv => Invalidation!TypeOK /\ Invalidation!SeenMeansCleared
    /\ Announcing \/ Online => Invalidation!AnnouncementKept
<1>1. ASSUME RevisionInv PROVE Invalidation!TypeOK /\ Invalidation!SeenMeansCleared
  <2>1. Invalidation!TypeOK
    BY <1>1, InvalidationTyped DEF RevisionInv
  <2>2. ASSUME NEW p \in Procs, seen[p] = revision PROVE Invalidation!Fresh(p, told)
    <3>1. UpToDate(p)
      BY <1>1, <2>2 DEF RevisionInv
    <3>2. (cache[p] # None => cache[p].at \in Nat) /\ told \in Nat
      BY <1>1 DEF RevisionInv, InvalidationTypes
    <3> QED BY <3>1, <3>2 DEF UpToDate, Invalidation!Fresh
  <2> QED BY <2>1, <2>2 DEF Invalidation!SeenMeansCleared
<1>2. ASSUME Announcing \/ Online PROVE Invalidation!AnnouncementKept
  <2>1. (commits > told) <=> (told < commits)
    BY <1>2 DEF Announcing, Online, RevisionInv, InvalidationTypes
  <2> QED BY <1>2, <2>1 DEF Announcing, Online, Invalidation!AnnouncementKept, Invalidation!Runners, Runners
<1> QED BY <1>1, <1>2

\* invalidate and the poll: a process that has seen the current revision
\* serves all the edits it announces, however many edits, outages, restarts
\* and readers in flight there are.
THEOREM SeenRevisionsClear ==
    Spec => [](part = "invalidation" => Invalidation!TypeOK /\ Invalidation!SeenMeansCleared)
<1> DEFINE Inv == part = "invalidation" => RevisionInv
<1>1. Init => Inv
  BY InvalidationInit DEF Init
<1>2. Inv /\ [Next]_vars => Inv'
  <2> SUFFICES ASSUME Inv, [Next]_vars, part' = "invalidation" PROVE RevisionInv'
    OBVIOUS
  <2>1. part = "invalidation" /\ (Invalidation!Next \/ UNCHANGED vars)
    BY DEF Next, vars
  <2>2. CASE UNCHANGED vars
    BY <2>1, <2>2, InvalidationStutter DEF vars
  <2> QED BY <2>1, <2>2, InvalidationStep
<1>3. Inv => (part = "invalidation" => Invalidation!TypeOK /\ Invalidation!SeenMeansCleared)
  BY InvalidationSays
<1> HIDE DEF Inv
<1> QED BY <1>1, <1>2, <1>3, PTL DEF Spec

\* As long as there is one edit, or Redis is never lost, an edit is announced
\* or going to be.  The flag is one for all the edits of a process: with a
\* second edit and an outage the property fails.
THEOREM InvalidationHolds ==
    ASSUME MaxEdits <= 1 \/ MaxOutages = 0
    PROVE  Spec => []InvalidationCorrect
<1> DEFINE Kept == (MaxEdits <= 1 => Announcing) /\ (MaxOutages = 0 => Online)
<1> DEFINE Inv == part = "invalidation" => RevisionInv /\ Kept
<1>1. Init => Inv
  <2> SUFFICES ASSUME Invalidation!Init PROVE RevisionInv /\ Announcing /\ Online
    BY DEF Init
  <2>1. /\ RevisionInv /\ commits = 0 /\ told = 0 /\ up /\ outages = 0
        /\ pc = [x \in Runners |-> "idle"] /\ pending = [p \in Procs |-> FALSE]
    BY InvalidationInit DEF Invalidation!Init, Invalidation!Runners, Runners
  <2> QED BY <2>1 DEF Announcing, Online
<1>2. Inv /\ [Next]_vars => Inv'
  <2> SUFFICES ASSUME Inv, [Next]_vars, part' = "invalidation" PROVE RevisionInv' /\ Kept'
    OBVIOUS
  <2>1. part = "invalidation" /\ (Invalidation!Next \/ UNCHANGED vars)
    BY DEF Next, vars
  <2>2. CASE UNCHANGED vars
    BY <2>1, <2>2, InvalidationStutter DEF vars
  <2>3. CASE Invalidation!Next
    BY <2>1, <2>3, InvalidationStep, AnnouncementStep, OnlineStep
  <2> QED BY <2>1, <2>2, <2>3
<1>3. Inv => InvalidationCorrect
  BY InvalidationSays DEF InvalidationCorrect
<1> HIDE DEF Inv, Kept
<1> QED BY <1>1, <1>2, <1>3, PTL DEF Spec

-----------------------------------------------------------------------------
(* Identities.  What the program resolves is in normal form; it is left     *)
(* alone by every later resolution and on the way over the composite key of *)
(* an old client.  What TRIM and LOWER make of a text, the program reads as *)
(* it reads the text, so the migration changes the reading of no pair that  *)
(* it keeps; the pairs that it does not keep and the columns that it takes  *)
(* instead are what Disputed is about.                                      *)

Words == Texts \cup {None}
OldFields == {"tmdbid", "doubanid"}
GoodId(id) == id \in Texts /\ Stripped[id] = id /\ id \notin Identity!Void
Normal(pair) == pair = <<pair[1], pair[2]>> /\ pair[1] \in Identity!Sources /\ GoodId(pair[2])
Known(pair) == pair = Identity!NoPair \/ Normal(pair)

Shaped(i) ==
    /\ i = Identity!Item(i.source, i.id, i.declared, i.key, i.legacy)
    /\ i.source \in Words /\ i.id \in Words /\ i.declared \in Words
    /\ i.key \in [source : Words, id : Words] /\ i.legacy \in [OldFields -> Words]

\* What lies in the tables has no field but its columns.
Plain(i) == Shaped(i) /\ i.declared = None /\ i.key = Identity!NoKey

\* The identity of what is served, or sent back by a client of either age.
Whole(i) == Identity!ResolveMediaIdentity(i) = origin
Abridged(i) == /\ i.source = None /\ i.id = None /\ i.declared = None
               /\ Identity!ParseMediaKey(i.key) = origin

IdentityInv ==
    /\ stage \in {"request", "row", "stored", "served", "refused"}
    /\ Shaped(item) /\ Known(origin)
    /\ stage = "row" => Plain(item) /\ origin = Identity!ResolveLegacyMediaIdentity(item)
    /\ stage = "stored" => /\ Plain(item) /\ item.legacy = Identity!NoLegacy
                           /\ Identity!MediaIdentityCheck(item.source, item.id)
                           /\ origin # Identity!NoPair => Whole(item)
    /\ stage = "served" => item.declared = None
    /\ origin # Identity!NoPair =>
          /\ stage = "served" => Whole(item) /\ Identity!ParseMediaKey(item.key) = origin
          /\ stage = "request" => Whole(item) \/ Abridged(item)
          /\ stage # "refused"

\* The texts that have a name.
LEMMA NamedTexts ==
    /\ None \notin Texts
    /\ {Identity!NoText, "0", "composite", "tmdb", "themoviedb", "douban", "douban_music", "doubanmusic"} \subseteq Texts
    /\ RawSources \subseteq Texts /\ RawIds \subseteq Texts /\ RawOld \subseteq Texts
BY AbsentAssumption, TextAssumption DEF Identity!TextLaws, Identity!Aliases, Identity!Void

\* What cleaning yields is a text, and stays.
LEMMA CleansOnce ==
    ASSUME NEW text \in Texts
    PROVE  /\ Stripped[text] \in Texts /\ Folded[text] \in Texts
           /\ Trimmed[text] \in Texts /\ Lowered[text] \in Texts
           /\ Stripped[Stripped[text]] = Stripped[text] /\ Folded[Folded[text]] = Folded[text]
           /\ Lowered[Lowered[text]] = Lowered[text]
           /\ Stripped[Trimmed[text]] = Stripped[text] /\ Trimmed[Stripped[text]] = Stripped[text]
           /\ Folded[Lowered[text]] = Folded[text]
<1>1. /\ Stripped \in [Texts -> Texts] /\ Folded \in [Texts -> Texts]
      /\ Trimmed \in [Texts -> Texts] /\ Lowered \in [Texts -> Texts]
  BY TextAssumption DEF Identity!TextLaws
<1> QED BY <1>1, TextAssumption DEF Identity!TextLaws

\* Sources in normal form.
LEMMA OwnSources ==
    /\ \A text \in Words : Identity!NormalizeMediaSource(text) \in Identity!Sources \cup {None}
    /\ Identity!NormalizeMediaSource(None) = None
    /\ {"themoviedb", "douban"} \subseteq Identity!Sources
    /\ \A s \in Identity!Sources : /\ s \in Texts /\ s # None
                                   /\ Identity!NormalizeMediaSource(s) = s
                                   /\ Lowered[s] = s /\ s \notin Unfit /\ Trimmed[s] # Identity!NoText
                                   /\ Identity!Prefix(s) \in Texts
                                   /\ Identity!NormalizeMediaSource(Identity!Prefix(s)) = s
<1> DEFINE Names == {"tmdb", "themoviedb", "douban", "douban_music", "doubanmusic"}
           Kept == {"themoviedb", "douban", "doubanmusic"}
<1>1. /\ DOMAIN Identity!Aliases = Names
      /\ \A name \in Names : Identity!Aliases[name] \in Kept
      /\ \A name \in Kept : Identity!Aliases[name] = name
      /\ Identity!Aliases["tmdb"] = "themoviedb"
  BY DEF Identity!Aliases
<1>2. Identity!Sources = Kept \cup Extensions
  BY <1>1 DEF Identity!Sources
<1>3. /\ Extensions \subseteq Texts /\ Extensions \cap Names = {} /\ Identity!NoText \notin Identity!Sources
      /\ \A s \in Identity!Sources : Stripped[s] = s /\ Lowered[s] = s /\ s \notin Unfit
      /\ \A s \in Names \cup Extensions : Folded[s] = s
  BY <1>1, TextAssumption DEF Identity!TextLaws
<1>4. \A s \in Identity!Sources : s \in Texts /\ s # None
  BY <1>2, <1>3, NamedTexts
<1> HIDE DEF Names
<1>5. None \notin Names /\ None \notin Extensions
  BY <1>3, NamedTexts DEF Names
<1>6. \A text \in Words : Identity!NormalizeMediaSource(text) \in Identity!Sources \cup {None}
  BY <1>1, <1>2 DEF Identity!NormalizeMediaSource
<1>7. Identity!NormalizeMediaSource(None) = None
  BY <1>1, <1>5 DEF Identity!NormalizeMediaSource
<1>8. \A s \in Identity!Sources : Identity!NormalizeMediaSource(s) = s
  <2> SUFFICES ASSUME NEW s \in Identity!Sources PROVE Identity!NormalizeMediaSource(s) = s
    OBVIOUS
  <2>1. s # None /\ Folded[s] = s
    BY <1>2, <1>3, <1>4 DEF Names
  <2>2. CASE s \in Kept
    BY <1>1, <2>1, <2>2 DEF Identity!NormalizeMediaSource, Names
  <2>3. CASE s \in Extensions
    BY <1>1, <1>3, <2>1, <2>3 DEF Identity!NormalizeMediaSource
  <2> QED BY <1>2, <2>2, <2>3
<1>9. \A s \in Identity!Sources : Trimmed[s] # Identity!NoText
  <2> SUFFICES ASSUME NEW s \in Identity!Sources PROVE Trimmed[s] # Identity!NoText
    OBVIOUS
  <2>1. Trimmed[s] = s
    BY <1>3, <1>4, CleansOnce
  <2> QED BY <1>3, <2>1
<1>10. \A s \in Identity!Sources : /\ Identity!Prefix(s) \in Texts
                                   /\ Identity!NormalizeMediaSource(Identity!Prefix(s)) = s
  <2>1. Identity!NormalizeMediaSource("tmdb") = "themoviedb"
    BY <1>1, <1>3, NamedTexts DEF Identity!NormalizeMediaSource, Names
  <2> QED BY <1>4, <1>8, <2>1, NamedTexts DEF Identity!Prefix
<1> QED BY <1>2, <1>3, <1>4, <1>6, <1>7, <1>8, <1>9, <1>10

\* The program reads a source alike before and after the migration.
LEMMA SourceMigrates ==
    ASSUME NEW text \in Words
    PROVE  LET source == Identity!MigratedSource(text)
           IN  /\ source \in Words /\ (source = None <=> text = None)
               /\ text # None => Lowered[source] = source
               /\ Identity!NormalizeMediaSource(source) = Identity!NormalizeMediaSource(text)
<1> DEFINE source == Identity!MigratedSource(text)
           low == Lowered[text]
<1>1. /\ None \notin DOMAIN Identity!Aliases
      /\ \A name \in DOMAIN Identity!Aliases :
            /\ Folded[name] = name /\ Identity!Aliases[name] \in Identity!Sources
            /\ Identity!Aliases[name] \in DOMAIN Identity!Aliases
            /\ Identity!Aliases[Identity!Aliases[name]] = Identity!Aliases[name]
  <2>1. None \notin DOMAIN Identity!Aliases
    BY NamedTexts DEF Identity!Aliases
  <2>2. \A name \in DOMAIN Identity!Aliases :
            /\ Identity!Aliases[name] \in DOMAIN Identity!Aliases
            /\ Identity!Aliases[Identity!Aliases[name]] = Identity!Aliases[name]
    BY DEF Identity!Aliases
  <2>3. \A name \in DOMAIN Identity!Aliases : Folded[name] = name
    BY TextAssumption DEF Identity!TextLaws
  <2> QED BY <2>1, <2>2, <2>3 DEF Identity!Sources
<1>2. CASE text = None
  BY <1>1, <1>2 DEF Identity!MigratedSource
<1>3. CASE text # None
  <2>1. text \in Texts /\ low \in Texts /\ low # None /\ Lowered[low] = low /\ Folded[low] = Folded[text]
    BY <1>3, CleansOnce, NamedTexts DEF Words
  <2> HIDE DEF low
  <2>2. source = IF low \in DOMAIN Identity!Aliases THEN Identity!Aliases[low] ELSE low
    BY <1>3 DEF Identity!MigratedSource, low
  <2>3. CASE low \in DOMAIN Identity!Aliases
    <3>1. source = Identity!Aliases[low] /\ source \in Identity!Sources
      BY <1>1, <2>2, <2>3
    <3>2. Identity!NormalizeMediaSource(text) = source
      BY <1>1, <1>3, <2>1, <2>3, <3>1 DEF Identity!NormalizeMediaSource
    <3> QED BY <1>3, <3>1, <3>2, OwnSources DEF Words
  <2>4. CASE low \notin DOMAIN Identity!Aliases
    <3>1. source = low
      BY <2>2, <2>4
    <3>2. Identity!NormalizeMediaSource(source) = Identity!NormalizeMediaSource(text)
      BY <1>3, <2>1, <3>1 DEF Identity!NormalizeMediaSource
    <3> QED BY <1>3, <2>1, <3>1, <3>2 DEF Words
  <2> QED BY <2>3, <2>4
<1> QED BY <1>2, <1>3

\* Ids in normal form; the program reads one alike before and after TRIM.
LEMMA GoodIds ==
    /\ \A text \in Words : Identity!NormalizeMediaId(text) = None \/ GoodId(Identity!NormalizeMediaId(text))
    /\ \A id : GoodId(id) => id # None /\ Identity!NormalizeMediaId(id) = id /\ Trimmed[id] = id
    /\ \A text \in Texts : /\ Identity!NormalizeMediaId(Trimmed[text]) = Identity!NormalizeMediaId(text)
                           /\ Trimmed[text] \in Identity!Void => Identity!NormalizeMediaId(text) = None
    /\ Identity!NormalizeMediaId(None) = None
    /\ GoodId("composite")
<1>1. \A text \in Texts : text # None /\ Stripped[text] \in Texts /\ Trimmed[text] \in Texts /\ Trimmed[text] # None
  BY CleansOnce, NamedTexts
<1>2. (\A text \in Identity!Void : text \in Texts /\ Stripped[text] = text) /\ GoodId("composite")
  BY TextAssumption DEF GoodId, Identity!TextLaws
<1>3. \A text \in Words : Identity!NormalizeMediaId(text) = None \/ GoodId(Identity!NormalizeMediaId(text))
  BY <1>1, CleansOnce DEF Words, Identity!NormalizeMediaId, Identity!Filled, GoodId
<1>4. \A id : GoodId(id) => id # None /\ Identity!NormalizeMediaId(id) = id /\ Trimmed[id] = id
  BY <1>1, CleansOnce DEF Identity!NormalizeMediaId, Identity!Filled, GoodId
<1>5. ASSUME NEW text \in Texts
      PROVE  /\ Identity!NormalizeMediaId(Trimmed[text]) = Identity!NormalizeMediaId(text)
             /\ Trimmed[text] \in Identity!Void => Identity!NormalizeMediaId(text) = None
  <2>1. Stripped[Trimmed[text]] = Stripped[text]
    BY CleansOnce
  <2>2. Trimmed[text] \in Identity!Void => Stripped[text] \in Identity!Void
    BY <1>2, <2>1
  <2> QED BY <1>1, <2>1, <2>2 DEF Identity!NormalizeMediaId, Identity!Filled
<1>6. Identity!NormalizeMediaId(None) = None
  BY DEF Identity!NormalizeMediaId, Identity!Filled
<1> QED BY <1>2, <1>3, <1>4, <1>5, <1>6

\* A normal pair is one.
LEMMA NormalIsPair == \A pair : Normal(pair) => pair # Identity!NoPair
BY OwnSources DEF Normal, Identity!NoPair

\* Two parts make a normal pair or none.
LEMMA PairNormal ==
    ASSUME NEW s \in Words, NEW id \in Words
    PROVE  /\ Known(Identity!Pair(Identity!NormalizeMediaSource(s), Identity!NormalizeMediaId(id)))
           /\ s \in Identity!Sources /\ GoodId(id) =>
                 Identity!Pair(Identity!NormalizeMediaSource(s), Identity!NormalizeMediaId(id)) = <<s, id>>
<1> DEFINE a == Identity!NormalizeMediaSource(s)
           b == Identity!NormalizeMediaId(id)
<1>1. (a \in Identity!Sources \/ a = None) /\ (b = None \/ GoodId(b))
  BY OwnSources, GoodIds
<1>2. s \in Identity!Sources /\ GoodId(id) => a = s /\ b = id /\ a # None /\ b # None
  BY OwnSources, GoodIds
<1> HIDE DEF a, b
<1>3. Known(Identity!Pair(a, b))
  <2>1. CASE a = None \/ b = None
    BY <2>1 DEF Identity!Pair, Known
  <2>2. CASE a # None /\ b # None
    <3>1. Identity!Pair(a, b) = <<a, b>>
      BY <2>2 DEF Identity!Pair
    <3>2. Normal(<<a, b>>)
      BY <1>1, <2>2 DEF Normal
    <3> QED BY <3>1, <3>2 DEF Known
  <2> QED BY <2>1, <2>2
<1>4. s \in Identity!Sources /\ GoodId(id) => Identity!Pair(a, b) = <<s, id>>
  BY <1>2 DEF Identity!Pair
<1> QED BY <1>3, <1>4 DEF a, b

\* A text is not resolved to anything but a normal pair.
LEMMA ResolvesNormal ==
    /\ \A i : Shaped(i) => Known(Identity!ResolveMediaIdentity(i))
    /\ \A k \in [source : Words, id : Words] : Known(Identity!ParseMediaKey(k))
BY PairNormal DEF Identity!ResolveMediaIdentity, Identity!ParseMediaKey, Known, Shaped

\* The old fields and their sources.
LEMMA OldSources ==
    /\ DOMAIN Identity!LegacySource = OldFields
    /\ \A f \in OldFields : Identity!LegacySource[f] \in Identity!Sources
    /\ \A f, g \in OldFields : Identity!LegacySource[f] = Identity!LegacySource[g] => f = g
BY OwnSources DEF Identity!LegacySource, OldFields

\* The first old field that is filled in, if one is.
LEMMA FirstFilled ==
    ASSUME NEW i, NEW clean
    PROVE  \/ /\ Identity!FirstLegacy(i, clean) = Identity!NoPair
              /\ \A f \in OldFields : Identity!Filled(i.legacy[f], clean) = None
           \/ \E f \in OldFields :
                 /\ Identity!FirstLegacy(i, clean) = <<Identity!LegacySource[f], Identity!Filled(i.legacy[f], clean)>>
                 /\ Identity!Filled(i.legacy[f], clean) # None
<1> DEFINE filled == {n \in {1, 2} : Identity!Filled(i.legacy[Identity!LegacyFields[n]], clean) # None}
           least == CHOOSE n \in filled : \A m \in filled : n <= m
           first == Identity!LegacyFields[least]
           value == Identity!Filled(i.legacy[first], clean)
<1>1. DOMAIN Identity!LegacyFields = {1, 2}
  BY DEF Identity!LegacyFields
<1>2. Identity!FirstLegacy(i, clean) = IF filled = {} THEN Identity!NoPair ELSE <<Identity!LegacySource[first], value>>
  BY <1>1 DEF Identity!FirstLegacy
<1>3. CASE filled = {}
  <2>1. \A f \in OldFields : Identity!Filled(i.legacy[f], clean) = None
    BY <1>3 DEF Identity!LegacyFields, OldFields
  <2> QED BY <1>2, <1>3, <2>1
<1>4. CASE filled # {}
  <2>1. \E n \in filled : \A m \in filled : n <= m
    BY <1>4
  <2>2. least \in filled
    <3> HIDE DEF filled
    <3> QED BY <2>1
  <2> HIDE DEF least
  <2>3. first \in OldFields /\ value # None
    BY <2>2 DEF Identity!LegacyFields, OldFields
  <2> HIDE DEF filled, first
  <2> QED BY <1>2, <1>4, <2>3
<1> QED BY <1>3, <1>4

\* The own field of a source, if it has one that is filled in.
LEMMA OwnField ==
    ASSUME NEW i, NEW s, Identity!OwnLegacy(i, s) # None
    PROVE  \E f \in OldFields : /\ s = Identity!LegacySource[f]
                                /\ Identity!OwnLegacy(i, s) = Identity!NormalizeMediaId(i.legacy[f])
<1> DEFINE own(f) == Identity!LegacySource[f] = s
<1>1. \E f \in OldFields : own(f)
  BY OldSources DEF Identity!OwnLegacy
<1>2. Identity!OwnLegacy(i, s) = Identity!NormalizeMediaId(i.legacy[CHOOSE f \in OldFields : own(f)])
  BY <1>1, OldSources DEF Identity!OwnLegacy
<1> DEFINE g == CHOOSE f \in OldFields : own(f)
<1>3. g \in OldFields /\ own(g)
  BY <1>1
<1> QED BY <1>2, <1>3

\* Nor does a request of any age resolve to anything else.
LEMMA RequestNormal == \A i : Shaped(i) => Known(Identity!ResolveLegacyMediaIdentity(i))
<1> SUFFICES ASSUME NEW i, Shaped(i) PROVE Known(Identity!ResolveLegacyMediaIdentity(i))
  OBVIOUS
<1> DEFINE declared == Identity!NormalizeMediaSource(IF i.source \in {None, Identity!NoText} THEN i.declared ELSE i.source)
<1>1. declared \in Identity!Sources \cup {None}
  BY OwnSources DEF Shaped
<1>2. \A f \in OldFields : Identity!NormalizeMediaId(i.legacy[f]) = None \/ GoodId(Identity!NormalizeMediaId(i.legacy[f]))
  BY GoodIds DEF Shaped
<1>3. Identity!OwnLegacy(i, declared) = None \/ GoodId(Identity!OwnLegacy(i, declared))
  BY <1>2, OwnField
<1>4. Identity!KeyText(i.key) = None \/ GoodId(Identity!KeyText(i.key))
  BY GoodIds DEF Identity!KeyText, Shaped
<1>5. \A a \in Identity!Sources : \A b : GoodId(b) => Known(<<a, b>>)
  BY DEF Known, Normal
<1>6. Known(Identity!FirstLegacy(i, Stripped))
  <2>1. \A f \in OldFields : Identity!Filled(i.legacy[f], Stripped) = Identity!NormalizeMediaId(i.legacy[f])
    BY DEF Identity!NormalizeMediaId
  <2> QED BY <1>2, <1>5, <2>1, FirstFilled, OldSources DEF Known
<1>7. Known(Identity!ResolveMediaIdentity(i)) /\ Known(Identity!ParseMediaKey(i.key))
  BY ResolvesNormal DEF Shaped
<1>8. Identity!ResolveLegacyMediaIdentity(i) =
         IF Identity!ResolveMediaIdentity(i) # Identity!NoPair THEN Identity!ResolveMediaIdentity(i)
         ELSE IF declared # None /\ Identity!OwnLegacy(i, declared) # None THEN <<declared, Identity!OwnLegacy(i, declared)>>
         ELSE IF Identity!ParseMediaKey(i.key) # Identity!NoPair THEN Identity!ParseMediaKey(i.key)
         ELSE IF declared # None /\ Identity!KeyText(i.key) # None THEN <<declared, Identity!KeyText(i.key)>>
         ELSE Identity!FirstLegacy(i, Stripped)
  BY Zenon DEF Identity!ResolveLegacyMediaIdentity
<1> HIDE DEF declared
<1> QED BY <1>1, <1>3, <1>4, <1>5, <1>6, <1>7, <1>8

\* A row without a readable pair is read from one of its columns, if the
\* program can read one of them at all.
LEMMA RowReads ==
    ASSUME NEW i, Plain(i), Identity!ResolveMediaIdentity(i) = Identity!NoPair
    PROVE  LET pair == Identity!ResolveLegacyMediaIdentity(i)
           IN  \/ /\ pair = Identity!NoPair
                  /\ \A f \in OldFields : Identity!NormalizeMediaId(i.legacy[f]) = None
               \/ \E f \in OldFields : /\ pair = <<Identity!LegacySource[f], Identity!NormalizeMediaId(i.legacy[f])>>
                                       /\ Identity!NormalizeMediaId(i.legacy[f]) # None
<1> DEFINE declared == Identity!NormalizeMediaSource(IF i.source \in {None, Identity!NoText} THEN i.declared ELSE i.source)
           pair == Identity!ResolveLegacyMediaIdentity(i)
<1>1. Identity!ParseMediaKey(i.key) = Identity!NoPair /\ Identity!KeyText(i.key) = None
  BY GoodIds DEF Plain, Identity!NoKey, Identity!ParseMediaKey, Identity!KeyText
<1>2. pair = IF declared # None /\ Identity!OwnLegacy(i, declared) # None
             THEN <<declared, Identity!OwnLegacy(i, declared)>>
             ELSE Identity!FirstLegacy(i, Stripped)
  BY <1>1, Zenon DEF Identity!ResolveLegacyMediaIdentity
<1> HIDE DEF declared, pair
<1>3. CASE declared # None /\ Identity!OwnLegacy(i, declared) # None
  BY <1>2, <1>3, OwnField DEF pair
<1>4. CASE ~(declared # None /\ Identity!OwnLegacy(i, declared) # None)
  <2>1. \A f \in OldFields : Identity!Filled(i.legacy[f], Stripped) = Identity!NormalizeMediaId(i.legacy[f])
    BY DEF Identity!NormalizeMediaId
  <2>2. pair = Identity!FirstLegacy(i, Stripped)
    BY <1>2, <1>4
  <2> QED BY <2>1, <2>2, FirstFilled DEF pair
<1> QED BY <1>3, <1>4

\* A normal pair passes the constraint, and so does none.
LEMMA KnownPasses == \A pair : Known(pair) => Identity!MediaIdentityCheck(pair[1], pair[2])
<1> TAKE pair
<1>1. CASE pair = Identity!NoPair
  BY <1>1 DEF Identity!NoPair, Identity!MediaIdentityCheck
<1>2. CASE Normal(pair)
  <2>1. pair[1] \in Identity!Sources /\ GoodId(pair[2])
    BY <1>2 DEF Normal
  <2>2. /\ pair[1] # None /\ Lowered[pair[1]] = pair[1] /\ Trimmed[pair[1]] # Identity!NoText
        /\ pair[1] \notin Unfit
    BY <2>1, OwnSources
  <2>3. pair[2] # None /\ Trimmed[pair[2]] \notin Identity!Void
    BY <2>1, GoodIds DEF GoodId
  <2> QED BY <2>2, <2>3 DEF Identity!MediaIdentityCheck
<1> QED BY <1>1, <1>2 DEF Known

\* The parts of what the migration writes.
LEMMA MigratedParts ==
    ASSUME NEW i
    PROVE  LET m == Identity!Migrated(i)
               source == Identity!MigratedSource(i.source)
           IN  /\ m = Identity!Item(m.source, m.id, None, Identity!NoKey, Identity!NoLegacy)
               /\ Identity!InvalidIdentity(source, i.id) =>
                     /\ m.source = Identity!FirstLegacy(i, Trimmed)[1]
                     /\ m.id = Identity!FirstLegacy(i, Trimmed)[2]
               /\ ~Identity!InvalidIdentity(source, i.id) => m.source = source /\ m.id = Trimmed[i.id]
<1> DEFINE source == Identity!MigratedSource(i.source)
           pair == IF Identity!InvalidIdentity(source, i.id) THEN Identity!FirstLegacy(i, Trimmed)
                   ELSE <<source, Trimmed[i.id]>>
           a == pair[1]
           b == pair[2]
           m == Identity!Migrated(i)
<1>1. m = Identity!Item(a, b, None, Identity!NoKey, Identity!NoLegacy)
  BY Zenon DEF Identity!Migrated
<1>2. /\ Identity!InvalidIdentity(source, i.id) =>
            a = Identity!FirstLegacy(i, Trimmed)[1] /\ b = Identity!FirstLegacy(i, Trimmed)[2]
      /\ ~Identity!InvalidIdentity(source, i.id) => a = source /\ b = Trimmed[i.id]
  OBVIOUS
<1> HIDE DEF a, b, m, source
<1>3. m.source = a /\ m.id = b
  BY <1>1 DEF Identity!Item
<1> QED BY <1>1, <1>2, <1>3 DEF m, source

\* A column that the migration takes is a source and an id that TRIM leaves.
LEMMA ColumnTaken ==
    ASSUME NEW i, Shaped(i)
    PROVE  LET old == Identity!FirstLegacy(i, Trimmed)
           IN  \/ old = Identity!NoPair
               \/ \E f \in OldFields :
                     /\ old = <<Identity!LegacySource[f], Trimmed[i.legacy[f]]>>
                     /\ i.legacy[f] \in Texts /\ Trimmed[i.legacy[f]] \in Texts \ Identity!Void
<1> DEFINE old == Identity!FirstLegacy(i, Trimmed)
<1>1. CASE old = Identity!NoPair
  BY <1>1
<1>2. CASE old # Identity!NoPair
  <2>1. PICK f \in OldFields : /\ old = <<Identity!LegacySource[f], Identity!Filled(i.legacy[f], Trimmed)>>
                               /\ Identity!Filled(i.legacy[f], Trimmed) # None
    BY <1>2, FirstFilled
  <2>2. i.legacy[f] \in Texts \cup {None}
    BY <2>1 DEF Shaped, Words
  <2>3. i.legacy[f] \in Texts /\ Trimmed[i.legacy[f]] \notin Identity!Void
        /\ Identity!Filled(i.legacy[f], Trimmed) = Trimmed[i.legacy[f]]
    BY <2>1, <2>2 DEF Identity!Filled
  <2>4. Trimmed[i.legacy[f]] \in Texts
    BY <2>3, CleansOnce
  <2> QED BY <2>1, <2>3, <2>4
<1> QED BY <1>1, <1>2

\* What the migration writes passes the constraint.
LEMMA MigratedPasses ==
    ASSUME NEW i, Shaped(i)
    PROVE  LET m == Identity!Migrated(i)
           IN  Plain(m) /\ m.legacy = Identity!NoLegacy /\ Identity!MediaIdentityCheck(m.source, m.id)
<1> DEFINE m == Identity!Migrated(i)
           source == Identity!MigratedSource(i.source)
           old == Identity!FirstLegacy(i, Trimmed)
<1>1. m = Identity!Item(m.source, m.id, None, Identity!NoKey, Identity!NoLegacy)
  BY MigratedParts
<1>2. /\ Identity!InvalidIdentity(source, i.id) => m.source = old[1] /\ m.id = old[2]
      /\ ~Identity!InvalidIdentity(source, i.id) => m.source = source /\ m.id = Trimmed[i.id]
  BY MigratedParts
<1>3. /\ source \in Words /\ (source = None <=> i.source = None)
      /\ i.source # None => Lowered[source] = source
  BY SourceMigrates DEF Shaped
<1>4. old = Identity!NoPair \/ \E f \in OldFields :
         old[1] = Identity!LegacySource[f] /\ old[2] \in Texts /\ old[2] \notin Identity!Void /\ Trimmed[old[2]] = old[2]
  <2>1. \A text \in Texts : Trimmed[Trimmed[text]] = Trimmed[text]
    BY TextAssumption DEF Identity!TextLaws
  <2> QED BY <2>1, ColumnTaken
<1> HIDE DEF m, source, old
<1>5. m.source \in Words /\ m.id \in Words /\ Identity!MediaIdentityCheck(m.source, m.id)
  <2>1. CASE Identity!InvalidIdentity(source, i.id)
    <3>1. CASE old = Identity!NoPair
      <4>1. m.source = None /\ m.id = None
        BY <1>2, <2>1, <3>1 DEF Identity!NoPair
      <4> QED BY <4>1 DEF Words, Identity!MediaIdentityCheck
    <3>2. CASE old # Identity!NoPair
      <4>1. /\ m.source \in Identity!Sources /\ m.id \in Texts /\ m.id \notin Identity!Void
            /\ Trimmed[m.id] = m.id
        BY <1>2, <1>4, <2>1, <3>2, OldSources
      <4> QED BY <4>1, OwnSources, NamedTexts DEF Words, Identity!MediaIdentityCheck
    <3> QED BY <3>1, <3>2
  <2>2. CASE ~Identity!InvalidIdentity(source, i.id)
    <3>1. /\ source # None /\ i.id # None /\ Trimmed[source] # Identity!NoText
          /\ source \notin Unfit /\ Trimmed[i.id] \notin Identity!Void
      BY <2>2 DEF Identity!InvalidIdentity
    <3>2. m.source = source /\ m.id = Trimmed[i.id] /\ i.id \in Texts
      BY <1>2, <2>2, <3>1 DEF Shaped, Words
    <3>3. m.id \in Texts /\ m.id # None /\ Trimmed[m.id] = m.id
      BY <3>2, CleansOnce, NamedTexts, TextAssumption DEF Identity!TextLaws
    <3> QED BY <1>3, <3>1, <3>2, <3>3 DEF Words, Identity!MediaIdentityCheck
  <2> QED BY <2>1, <2>2
<1>6. m.declared = None /\ m.key = Identity!NoKey /\ m.legacy = Identity!NoLegacy
  BY <1>1 DEF Identity!Item
<1>7. Identity!NoKey \in [source : Words, id : Words] /\ Identity!NoLegacy \in [OldFields -> Words]
  BY OldSources DEF Words, Identity!NoKey, Identity!NoLegacy
<1>8. None \in Words
  BY DEF Words
<1> QED BY <1>1, <1>5, <1>6, <1>7, <1>8 DEF Plain, Shaped, m

\* A pair that the migration keeps is read as it was.
LEMMA KeptPairReads ==
    ASSUME NEW i, Shaped(i), ~Identity!InvalidIdentity(Identity!MigratedSource(i.source), i.id)
    PROVE  Identity!ResolveMediaIdentity(Identity!Migrated(i)) = Identity!ResolveMediaIdentity(i)
<1>1. /\ Identity!Migrated(i).source = Identity!MigratedSource(i.source)
      /\ Identity!Migrated(i).id = Trimmed[i.id]
  BY MigratedParts
<1>2. Identity!NormalizeMediaSource(Identity!MigratedSource(i.source)) = Identity!NormalizeMediaSource(i.source)
  BY SourceMigrates DEF Shaped
<1>3. Identity!NormalizeMediaId(Trimmed[i.id]) = Identity!NormalizeMediaId(i.id)
  <2>1. i.id \in Texts
    BY DEF Shaped, Words, Identity!InvalidIdentity
  <2> QED BY <2>1, GoodIds
<1> QED BY <1>1, <1>2, <1>3 DEF Identity!ResolveMediaIdentity

\* What is stored is read alike after another migration.
LEMMA StoredMigrates ==
    ASSUME NEW i, Shaped(i), i.legacy = Identity!NoLegacy, Identity!MediaIdentityCheck(i.source, i.id)
    PROVE  Identity!ResolveMediaIdentity(Identity!Migrated(i)) = Identity!ResolveMediaIdentity(i)
<1>1. CASE ~Identity!InvalidIdentity(Identity!MigratedSource(i.source), i.id)
  BY <1>1, KeptPairReads
<1>2. CASE Identity!InvalidIdentity(Identity!MigratedSource(i.source), i.id)
  <2>1. i.source = None
    <3>1. SUFFICES ASSUME i.source # None PROVE FALSE
      OBVIOUS
    <3>2. /\ i.id # None /\ i.source = Lowered[i.source] /\ Trimmed[i.source] # Identity!NoText
          /\ i.source \notin Unfit /\ Trimmed[i.id] \notin Identity!Void
      BY <3>1 DEF Identity!MediaIdentityCheck
    <3>3. \/ Identity!MigratedSource(i.source) = i.source
          \/ Identity!MigratedSource(i.source) \in Identity!Sources
      BY <3>1, <3>2 DEF Identity!MigratedSource, Identity!Sources
    <3>4. Identity!MigratedSource(i.source) # None
      BY <3>1, SourceMigrates DEF Shaped
    <3> QED BY <1>2, <3>2, <3>3, <3>4, OwnSources DEF Identity!InvalidIdentity
  <2>2. Identity!FirstLegacy(i, Trimmed) = Identity!NoPair
    <3>1. \A f \in OldFields : i.legacy[f] = None
      BY OldSources DEF Identity!NoLegacy
    <3> QED BY <3>1, FirstFilled DEF Identity!Filled
  <2>3. Identity!Migrated(i).source = None
    BY <1>2, <2>2, MigratedParts DEF Identity!NoPair
  <2> QED BY <2>1, <2>3, OwnSources DEF Identity!ResolveMediaIdentity, Identity!Pair
<1> QED BY <1>1, <1>2

\* A normal pair that is stored resolves to itself.
LEMMA StoredResolves ==
    ASSUME NEW i, NEW pair, Normal(pair), i.source = pair[1], i.id = pair[2]
    PROVE  Identity!ResolveMediaIdentity(i) = pair
<1>1. pair[1] \in Words /\ pair[2] \in Words
  BY OwnSources DEF Normal, GoodId, Words
<1> QED BY <1>1, PairNormal DEF Normal, Identity!ResolveMediaIdentity

\* A row that is not disputed is read alike before and after its migration.
LEMMA RowMigrates ==
    ASSUME NEW i, Plain(i), ~Identity!Disputed(i)
    PROVE  Identity!ResolveMediaIdentity(Identity!Migrated(i)) = Identity!ResolveLegacyMediaIdentity(i)
<1> DEFINE read == Identity!ResolveLegacyMediaIdentity(i)
           old == Identity!FirstLegacy(i, Trimmed)
           m == Identity!Migrated(i)
<1>1. Shaped(i) /\ Known(read) /\ Known(Identity!ResolveMediaIdentity(i))
  BY RequestNormal, ResolvesNormal DEF Plain
<1>2. Identity!ResolveMediaIdentity(i) # Identity!NoPair => read = Identity!ResolveMediaIdentity(i)
  BY DEF Identity!ResolveLegacyMediaIdentity
<1> HIDE DEF read, m
<1>3. CASE ~Identity!InvalidIdentity(Identity!MigratedSource(i.source), i.id)
  <2>1. Identity!ResolveMediaIdentity(m) = Identity!ResolveMediaIdentity(i)
    BY <1>1, <1>3, KeptPairReads DEF m
  <2>2. Identity!ResolveMediaIdentity(i) = Identity!NoPair => read = Identity!NoPair
    BY <1>3 DEF Identity!Disputed, read
  <2> QED BY <1>2, <2>1, <2>2 DEF read, m
<1>4. CASE Identity!InvalidIdentity(Identity!MigratedSource(i.source), i.id)
  <2>1. m.source = old[1] /\ m.id = old[2]
    BY <1>4, MigratedParts DEF m
  <2>2. Identity!ResolveMediaIdentity(i) = Identity!NoPair
    BY <1>2, <1>4 DEF Identity!Disputed, read
  <2>3. read # Identity!NoPair => old[1] = read[1]
    BY <1>4 DEF Identity!Disputed, read
  <2>4. \/ read = Identity!NoPair /\ \A f \in OldFields : Identity!NormalizeMediaId(i.legacy[f]) = None
        \/ \E f \in OldFields : /\ read = <<Identity!LegacySource[f], Identity!NormalizeMediaId(i.legacy[f])>>
                                /\ Identity!NormalizeMediaId(i.legacy[f]) # None
    BY <2>2, RowReads DEF read
  <2>5. CASE old = Identity!NoPair
    <3>1. m.source = None /\ old[1] = None
      BY <2>1, <2>5 DEF Identity!NoPair
    <3>2. read = Identity!NoPair
      <4>1. read # Identity!NoPair => read[1] # None
        BY <1>1, OwnSources DEF Known, Normal
      <4> QED BY <2>3, <3>1, <4>1
    <3> QED BY <3>1, <3>2, OwnSources DEF Identity!ResolveMediaIdentity, Identity!Pair, read, m
  <2>6. CASE old # Identity!NoPair
    <3>1. PICK f \in OldFields : /\ old = <<Identity!LegacySource[f], Trimmed[i.legacy[f]]>>
                                 /\ i.legacy[f] \in Texts
      BY <1>1, <2>6, ColumnTaken
    <3>2. /\ Identity!NormalizeMediaSource(m.source) = Identity!LegacySource[f]
          /\ Identity!NormalizeMediaId(m.id) = Identity!NormalizeMediaId(i.legacy[f])
          /\ Identity!LegacySource[f] # None
      BY <2>1, <3>1, OldSources, OwnSources, GoodIds
    <3>3. CASE Identity!NormalizeMediaId(i.legacy[f]) = None
      <4>1. Identity!ResolveMediaIdentity(m) = Identity!NoPair
        BY <3>2, <3>3 DEF Identity!ResolveMediaIdentity, Identity!Pair
      <4>2. read = Identity!NoPair
        <5>1. SUFFICES ASSUME read # Identity!NoPair PROVE FALSE
          OBVIOUS
        <5>2. PICK g \in OldFields : /\ read = <<Identity!LegacySource[g], Identity!NormalizeMediaId(i.legacy[g])>>
                                     /\ Identity!NormalizeMediaId(i.legacy[g]) # None
          BY <2>4, <5>1
        <5>3. f = g
          BY <2>3, <3>1, <5>1, <5>2, OldSources
        <5> QED BY <3>3, <5>2, <5>3
      <4> QED BY <4>1, <4>2 DEF read, m
    <3>4. CASE Identity!NormalizeMediaId(i.legacy[f]) # None
      <4>1. Identity!ResolveMediaIdentity(m) = <<Identity!LegacySource[f], Identity!NormalizeMediaId(i.legacy[f])>>
        BY <3>2, <3>4 DEF Identity!ResolveMediaIdentity, Identity!Pair
      <4>2. PICK g \in OldFields : read = <<Identity!LegacySource[g], Identity!NormalizeMediaId(i.legacy[g])>>
                                   /\ Identity!NormalizeMediaId(i.legacy[g]) # None
        BY <2>4, <3>4
      <4>3. read # Identity!NoPair
        BY <4>2 DEF Identity!NoPair
      <4>4. f = g
        BY <2>3, <3>1, <4>2, <4>3, OldSources
      <4> QED BY <4>1, <4>2, <4>4 DEF read, m
    <3> QED BY <3>3, <3>4
  <2> QED BY <2>5, <2>6
<1> QED BY <1>3, <1>4

\* What is served for an identity resolves to it, also from its old key.
LEMMA ServedResolves ==
    ASSUME NEW i, Shaped(i)
    PROVE  LET found == Identity!ResolveMediaIdentity(i)
               s == Identity!BuildLegacyMediaIdentity(i)
           IN  /\ Shaped(s) /\ s.declared = i.declared
               /\ found # Identity!NoPair => /\ Identity!ResolveMediaIdentity(s) = found
                                             /\ Identity!ParseMediaKey(s.key) = found
<1> DEFINE found == Identity!ResolveMediaIdentity(i)
           s == Identity!BuildLegacyMediaIdentity(i)
           fields == [f \in OldFields |-> Identity!LegacyValue(f, found)]
           key == [source |-> Identity!Prefix(found[1]), id |-> found[2]]
<1>1. CASE found = Identity!NoPair
  <2>1. s = [i EXCEPT !.legacy = Identity!NoLegacy, !.key = Identity!NoKey]
    BY <1>1 DEF Identity!BuildLegacyMediaIdentity
  <2>2. s = Identity!Item(i.source, i.id, i.declared, Identity!NoKey, Identity!NoLegacy)
    BY <2>1 DEF Shaped, Identity!Item
  <2> HIDE DEF s, found
  <2>3. /\ s.source = i.source /\ s.id = i.id /\ s.declared = i.declared
        /\ s.key = Identity!NoKey /\ s.legacy = Identity!NoLegacy
    BY <2>2 DEF Identity!Item
  <2>4. Identity!NoKey \in [source : Words, id : Words] /\ Identity!NoLegacy \in [OldFields -> Words]
    BY OldSources DEF Words, Identity!NoKey, Identity!NoLegacy
  <2>5. Shaped(s)
    BY <2>2, <2>3, <2>4 DEF Shaped
  <2> QED BY <1>1, <2>3, <2>5 DEF s, found
<1>2. CASE found # Identity!NoPair
  <2>1. s = [i EXCEPT !.source = found[1], !.id = found[2], !.legacy = fields, !.key = key]
    BY <1>2, OldSources, Zenon DEF Identity!BuildLegacyMediaIdentity
  <2>2. Normal(found)
    BY <1>2, ResolvesNormal DEF Known
  <2> HIDE DEF s, found
  <2>3. s = Identity!Item(found[1], found[2], i.declared, key, fields)
    BY <2>1 DEF Shaped, Identity!Item
  <2>4. found[1] \in Identity!Sources /\ GoodId(found[2]) /\ found = <<found[1], found[2]>>
    BY <2>2 DEF Normal
  <2>5. found[1] \in Texts /\ found[2] \in Texts /\ Identity!Prefix(found[1]) \in Texts
    BY <2>4, OwnSources DEF GoodId
  <2>6. fields \in [OldFields -> Words]
    <3>1. \A f \in OldFields : Identity!LegacyValue(f, found) \in Words
      BY <2>5, TextAssumption DEF Identity!LegacyValue, Identity!TextLaws, Words
    <3> QED BY <3>1
  <2>7. key \in [source : Words, id : Words] /\ key.source = Identity!Prefix(found[1]) /\ key.id = found[2]
    BY <2>5 DEF Words
  <2> HIDE DEF fields, key
  <2>8. /\ s.source = found[1] /\ s.id = found[2] /\ s.declared = i.declared
        /\ s.key = key /\ s.legacy = fields
    BY <2>3 DEF Identity!Item
  <2>9. Shaped(s)
    BY <2>3, <2>5, <2>6, <2>7, <2>8 DEF Shaped, Words
  <2>10. Identity!ResolveMediaIdentity(s) = found
    BY <2>2, <2>8, StoredResolves
  <2>11. /\ key.source # None
         /\ Identity!NormalizeMediaSource(key.source) = found[1] /\ Identity!NormalizeMediaId(key.id) = found[2]
    BY <2>4, <2>5, <2>7, OwnSources, GoodIds, NamedTexts
  <2>12. Identity!ParseMediaKey(key) = found
    BY <2>4, <2>11, OwnSources, GoodIds DEF Identity!ParseMediaKey, Identity!Pair
  <2> QED BY <2>8, <2>9, <2>10, <2>12 DEF s, found
<1> QED BY <1>1, <1>2

\* An identity arrives, or lies in a row.
LEMMA IdentityInit == Identity!Init => IdentityInv
<1> SUFFICES ASSUME Identity!Init PROVE IdentityInv
  OBVIOUS
<1>1. PICK source \in RawSources \cup {None}, id \in RawIds \cup {None},
           legacy \in [OldFields -> RawOld \cup {None}] :
        \/ /\ stage = "row" /\ item = Identity!Item(source, id, None, Identity!NoKey, legacy)
           /\ origin = Identity!ResolveLegacyMediaIdentity(item)
        \/ /\ stage = "request"
           /\ \E declared \in Identity!Declared, key \in Identity!Keys :
                 item = Identity!Item(source, id, declared, key, legacy)
           /\ origin = Identity!NoPair
  BY OldSources DEF Identity!Init
<1>2. Identity!NoKey \in Identity!Keys /\ None \in Identity!Declared
  BY DEF Identity!Keys, Identity!Declared
<1>3. PICK declared \in Identity!Declared, key \in Identity!Keys :
         item = Identity!Item(source, id, declared, key, legacy)
  BY <1>1, <1>2
<1>4. declared \in Words /\ key \in [source : Words, id : Words]
  BY NamedTexts DEF Words, Identity!Declared, Identity!Keys, Identity!NoKey
<1>5. source \in Words /\ id \in Words /\ legacy \in [OldFields -> Words]
  BY NamedTexts DEF Words
<1>6. /\ item.source = source /\ item.id = id /\ item.declared = declared
      /\ item.key = key /\ item.legacy = legacy
  BY <1>3 DEF Identity!Item
<1>7. Shaped(item)
  BY <1>3, <1>4, <1>5, <1>6 DEF Shaped
<1>8. stage = "row" => Plain(item)
  BY <1>1, <1>7 DEF Plain, Identity!Item
<1>9. Known(origin)
  BY <1>1, <1>7, RequestNormal DEF Known
<1> QED BY <1>1, <1>7, <1>8, <1>9 DEF IdentityInv

\* A request of either age resolves to the identity it was served.
LEMMA RequestResolves ==
    ASSUME NEW i, origin # Identity!NoPair, Whole(i) \/ Abridged(i)
    PROVE  Identity!ResolveLegacyMediaIdentity(i) = origin
<1>1. CASE Whole(i)
  BY <1>1 DEF Whole, Identity!ResolveLegacyMediaIdentity
<1>2. CASE Abridged(i)
  <2>1. Identity!NormalizeMediaSource(None) = None
    BY OwnSources
  <2>2. Identity!ResolveMediaIdentity(i) = Identity!NoPair
    BY <1>2, <2>1 DEF Abridged, Identity!ResolveMediaIdentity, Identity!Pair
  <2> QED BY <1>2, <2>1, <2>2 DEF Abridged, Identity!ResolveLegacyMediaIdentity
<1> QED BY <1>1, <1>2

\* The invariant of the identities is inductive.
LEMMA IdentityStep ==
    ASSUME IdentityInv, Identity!Next
    PROVE  IdentityInv'
<1>1. CASE Identity!Accept
  <2> DEFINE pair == Identity!ResolveLegacyMediaIdentity(item)
  <2>1. stage = "request" /\ Known(pair) /\ (origin # Identity!NoPair => pair = origin)
    BY <1>1, RequestNormal, RequestResolves DEF Identity!Accept, IdentityInv
  <2>2. IF pair = Identity!NoPair
        THEN stage' = "refused" /\ item' = item /\ origin' = origin
        ELSE /\ stage' = "stored" /\ item' = Identity!Item(pair[1], pair[2], None, Identity!NoKey, Identity!NoLegacy)
             /\ origin' = IF origin = Identity!NoPair THEN pair ELSE origin
    BY <1>1, Zenon DEF Identity!Accept
  <2> HIDE DEF pair
  <2>3. CASE pair = Identity!NoPair
    BY <2>1, <2>2, <2>3 DEF IdentityInv
  <2>4. CASE pair # Identity!NoPair
    <3>1. Normal(pair) /\ origin' = pair /\ stage' = "stored"
      BY <2>1, <2>2, <2>4 DEF Known
    <3>2. /\ item'.source = pair[1] /\ item'.id = pair[2] /\ item'.declared = None
          /\ item'.key = Identity!NoKey /\ item'.legacy = Identity!NoLegacy
      BY <2>2, <2>4 DEF Identity!Item
    <3>3. pair[1] \in Texts /\ pair[2] \in Texts
      BY <3>1, OwnSources DEF Normal, GoodId
    <3>4. Identity!NoKey \in [source : Words, id : Words] /\ Identity!NoLegacy \in [OldFields -> Words]
      BY OldSources DEF Words, Identity!NoKey, Identity!NoLegacy
    <3>5. Plain(item')
      BY <2>2, <2>4, <3>2, <3>3, <3>4 DEF Plain, Shaped, Words
    <3>6. Identity!MediaIdentityCheck(item'.source, item'.id)
      BY <2>1, <3>2, KnownPasses
    <3>7. Identity!ResolveMediaIdentity(item') = origin'
      BY <3>1, <3>2, StoredResolves
    <3> QED BY <3>1, <3>2, <3>5, <3>6, <3>7 DEF IdentityInv, Known, Whole, Plain
  <2> QED BY <2>3, <2>4
<1>2. CASE Identity!Migrate
  <2>1. /\ stage \in {"row", "stored"} /\ stage' = "stored" /\ item' = Identity!Migrated(item)
        /\ origin' = IF stage = "row" /\ Identity!Disputed(item)
                     THEN Identity!ResolveMediaIdentity(item') ELSE origin
    BY <1>2 DEF Identity!Migrate
  <2>2. Plain(item') /\ item'.legacy = Identity!NoLegacy /\ Identity!MediaIdentityCheck(item'.source, item'.id)
    BY <2>1, MigratedPasses DEF IdentityInv
  <2>3. Known(origin')
    BY <2>1, <2>2, ResolvesNormal DEF IdentityInv, Plain
  <2>4. origin' # Identity!NoPair => Identity!ResolveMediaIdentity(item') = origin'
    <3>1. CASE stage = "row" /\ Identity!Disputed(item)
      BY <2>1, <3>1
    <3>2. CASE stage = "row" /\ ~Identity!Disputed(item)
      BY <2>1, <3>2, RowMigrates DEF IdentityInv
    <3>3. CASE stage = "stored"
      <4>1. origin' = origin /\ (origin # Identity!NoPair => Identity!ResolveMediaIdentity(item) = origin)
        BY <2>1, <3>3 DEF IdentityInv, Whole
      <4>2. Identity!ResolveMediaIdentity(item') = Identity!ResolveMediaIdentity(item)
        BY <2>1, <3>3, StoredMigrates DEF IdentityInv
      <4> QED BY <4>1, <4>2
    <3> QED BY <2>1, <3>1, <3>2, <3>3
  <2> QED BY <2>1, <2>2, <2>3, <2>4 DEF IdentityInv, Whole, Plain
<1>3. CASE Identity!Serve
  <2>1. stage = "stored" /\ stage' = "served" /\ item' = Identity!BuildLegacyMediaIdentity(item) /\ origin' = origin
    BY <1>3 DEF Identity!Serve
  <2>2. /\ Shaped(item') /\ item'.declared = None
        /\ Identity!ResolveMediaIdentity(item) # Identity!NoPair =>
              /\ Identity!ResolveMediaIdentity(item') = Identity!ResolveMediaIdentity(item)
              /\ Identity!ParseMediaKey(item'.key) = Identity!ResolveMediaIdentity(item)
    BY <2>1, ServedResolves DEF IdentityInv, Plain
  <2>3. origin # Identity!NoPair => Identity!ResolveMediaIdentity(item) = origin
    BY <2>1 DEF IdentityInv, Whole
  <2> QED BY <2>1, <2>2, <2>3 DEF IdentityInv, Known, Whole
<1>4. CASE Identity!SendBack
  <2>1. /\ stage = "served" /\ stage' = "request" /\ origin' = origin
        /\ item' = item \/ item' = [item EXCEPT !.source = None, !.id = None]
    BY <1>4 DEF Identity!SendBack
  <2>2. CASE item' = item
    BY <2>1, <2>2 DEF IdentityInv, Known, Whole
  <2>3. CASE item' = [item EXCEPT !.source = None, !.id = None]
    <3>1. item' = Identity!Item(None, None, item.declared, item.key, item.legacy)
      BY <2>3 DEF IdentityInv, Shaped, Identity!Item
    <3>2. /\ item'.source = None /\ item'.id = None /\ item'.declared = item.declared /\ item'.key = item.key
          /\ item'.legacy = item.legacy
      BY <3>1 DEF Identity!Item
    <3>3. Shaped(item')
      BY <3>1, <3>2 DEF IdentityInv, Shaped, Words
    <3>4. origin # Identity!NoPair => Abridged(item)'
      BY <2>1, <3>2 DEF IdentityInv, Abridged
    <3> QED BY <2>1, <3>3, <3>4 DEF IdentityInv, Known
  <2> QED BY <2>1, <2>2, <2>3
<1> QED BY <1>1, <1>2, <1>3, <1>4 DEF Identity!Next

\* Identities through requests, migrations, answers and clients.
LEMMA IdentityKept == Spec => [](part = "identity" => IdentityInv)
<1> DEFINE Inv == part = "identity" => IdentityInv
<1>1. Init => Inv
  BY IdentityInit DEF Init
<1>2. Inv /\ [Next]_vars => Inv'
  <2> SUFFICES ASSUME Inv, [Next]_vars, part' = "identity" PROVE IdentityInv'
    OBVIOUS
  <2>1. part = "identity" /\ (Identity!Next \/ UNCHANGED vars)
    BY DEF Next, vars
  <2>2. CASE UNCHANGED vars
    BY <2>1, <2>2 DEF vars, IdentityInv, Known, Whole, Abridged
  <2> QED BY <2>1, <2>2, IdentityStep
<1> HIDE DEF Inv
<1>3. Spec => []Inv
  BY <1>1, <1>2, PTL DEF Spec
<1> QED BY <1>3 DEF Inv

\* What is stored passes the constraint of the table; it is read as the
\* identity that was read in the request, or in the row with its old columns;
\* and it is accepted when a client sends it back: for all texts, and for all
\* functions that clean them and obey the laws.
THEOREM IdentitiesHold == Spec => []IdentitiesCorrect
<1>1. (part = "identity" => IdentityInv) => IdentitiesCorrect
  <2> SUFFICES ASSUME part = "identity", IdentityInv
               PROVE  /\ Identity!TypeOK /\ Identity!StoredPassesCheck
                      /\ Identity!IdentityKept /\ Identity!ServedIsAccepted
    BY DEF IdentitiesCorrect
  <2>1. Identity!TypeOK
    BY OldSources DEF IdentityInv, Shaped, Words, Identity!TypeOK
  <2>2. Identity!StoredPassesCheck
    BY DEF IdentityInv, Identity!StoredPassesCheck
  <2>3. Identity!IdentityKept
    BY DEF IdentityInv, Whole, Identity!IdentityKept
  <2>4. Identity!ServedIsAccepted
    BY DEF IdentityInv, Identity!ServedIsAccepted
  <2> QED BY <2>1, <2>2, <2>3, <2>4
<1> QED BY <1>1, IdentityKept, PTL

\* A row that is not disputed is read after the migration, without its old
\* columns, as it was before.
LEMMA MigrationLossless ==
    ASSUME IdentityInv, Identity!Next
    PROVE  Identity!LosslessMigration
<1> SUFFICES ASSUME stage = "row", ~Identity!Disputed(item)
             PROVE  Identity!ResolveMediaIdentity(item') = Identity!ResolveLegacyMediaIdentity(item)
  BY DEF Identity!LosslessMigration
<1>1. item' = Identity!Migrated(item) /\ Plain(item)
  BY DEF Identity!Next, Identity!Accept, Identity!Migrate, Identity!Serve, Identity!SendBack, IdentityInv
<1> QED BY <1>1, RowMigrates

-----------------------------------------------------------------------------
(* What no step may do.                                                     *)

\* No cleanup releases the lock of another one, and no migration changes what
\* the program reads in a row, its old columns included, unless the row is
\* one of those that Disputed describes.
THEOREM StepsRightful == Spec => RightfulSteps
<1>1. (part = "identity" => IdentityInv) /\ [Next]_vars =>
         [/\ part = "cleanup" => Cleanup!OwnRelease
          /\ part = "identity" => Identity!LosslessMigration]_vars
  <2> SUFFICES ASSUME part = "identity" => IdentityInv, Next, ~UNCHANGED vars
               PROVE  /\ part = "cleanup" => Cleanup!OwnRelease
                      /\ part = "identity" => Identity!LosslessMigration
    OBVIOUS
  <2>1. Cleanup!OwnRelease
    BY DEF Cleanup!OwnRelease, Cleanup!Release, Cleanup!Unlock, Cleanup!LoseLock
  <2>2. part = "identity" => Identity!LosslessMigration
    BY MigrationLossless DEF Next
  <2> QED BY <2>1, <2>2
<1> QED BY <1>1, IdentityKept, PTL DEF Spec, RightfulSteps
=============================================================================
