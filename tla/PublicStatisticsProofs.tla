----------------------- MODULE PublicStatisticsProofs -----------------------
(***************************************************************************)
(* Proofs about the statistics that clients report to the public interface: *)
(* installations of plugins, usage and subscriptions, for any number of    *)
(* requests and of rows.                                                   *)
(***************************************************************************)
EXTENDS MCPublicInterface, SumTheorems

\* The bounds, one by one.
LEMMA Bounds ==
    /\ MaxFills \in Nat /\ MaxWrites \in Nat /\ MaxInstalls \in Nat /\ MaxDeletes \in Nat
    /\ MaxRequests \in Nat /\ MaxReports \in Nat /\ MaxShares \in Nat /\ MaxForks \in Nat
    /\ MaxUpserts \in Nat /\ Limit \in Nat /\ Window \in Nat /\ MaxDelay \in Nat /\ MaxTime \in Nat
BY BoundsAssumption

-----------------------------------------------------------------------------
(* Installations.  As long as nothing is deleted, rows stay where they are  *)
(* with their ids, so a row that was found is there when it is updated, and *)
(* whoever lost an insert finds the winner's row.                           *)

Tally == SumBy([n \in Names |-> row[n].count], Installs!Present)

\* A request that is under way knows what it brings; what it has seen is there.
KnowsItem(t) == pc[t] \in {"update", "lookup", "byid", "insert"} =>
    /\ mem[t] \in Installs!Memory
    /\ deletes = 0 => /\ mem[t].retried => pc[t] = "update" /\ row[mem[t].name] # None
                      /\ pc[t] = "byid" => \E n \in Names : row[n] # None /\ row[n].id = mem[t].id

InstallInv ==
    /\ Installs!TypeOK
    /\ Tally + removed <= credited
    /\ deletes = 0 => Tally + removed = credited
    /\ \A t \in Tasks : KnowsItem(t)
    /\ Installs!RefusedOnlyAfterDelete

\* There are only so many names.
LEMMA NamesFinite == IsFiniteSet(Names) /\ \A S : S \subseteq Names => IsFiniteSet(S)
<1>1. IsFiniteSet(Names)
  <2>1. IsFiniteSet({} \cup {"MyPlugin"})
    BY FS_EmptySet, FS_AddElement
  <2>2. IsFiniteSet(({} \cup {"MyPlugin"}) \cup {"myplugin"})
    BY <2>1, FS_AddElement
  <2>3. Names = ({} \cup {"MyPlugin"}) \cup {"myplugin"}
    BY DEF Names
  <2> QED BY <2>2, <2>3
<1> QED BY <1>1, FS_Subset

\* The sums of the module are sums.
LEMMA InstallSums ==
    /\ \A f : Installs!Total(f) = SumBy(f, Names)
    /\ Installs!Counted = Tally + removed
<1>1. \A f, S : Installs!SumFunctionOnSet(f, S) = SumBy(f, S)
  BY SumDefined DEF Installs!SumFunctionOnSet, SumFunctionOnSet, FoldFunctionOnSet,
     Installs!FoldFunctionOnSet, MapThenFoldSet, Installs!MapThenFoldSet
<1> QED BY <1>1 DEF Installs!Total, Installs!Counted, Tally

\* What the type invariant says, for the proofs.
LEMMA InstallNumbers ==
    InstallInv => /\ row \in [Names -> Installs!Row \cup {None}]
                  /\ born \in Nat /\ credited \in Nat /\ removed \in Nat
                  /\ reported \in 0..MaxInstalls /\ deletes \in 0..MaxDeletes /\ deletes \in Nat
                  /\ pc \in [Tasks -> {"idle", "update", "lookup", "byid", "insert", "refused"}]
                  /\ mem \in [Tasks -> Installs!Memory \cup {None}]
                  /\ Tally \in Nat
<1> SUFFICES ASSUME InstallInv
             PROVE  /\ row \in [Names -> Installs!Row \cup {None}]
                    /\ born \in Nat /\ credited \in Nat /\ removed \in Nat
                    /\ reported \in 0..MaxInstalls /\ deletes \in 0..MaxDeletes /\ deletes \in Nat
                    /\ pc \in [Tasks -> {"idle", "update", "lookup", "byid", "insert", "refused"}]
                    /\ mem \in [Tasks -> Installs!Memory \cup {None}]
                    /\ Tally \in Nat
  OBVIOUS
<1>1. row \in [Names -> Installs!Row \cup {None}]
  BY DEF InstallInv, Installs!TypeOK
<1>2. Tally \in Nat
  <2> DEFINE f == [n \in Names |-> row[n].count]
             s == Installs!Present
  <2>1. \A x \in s : f[x] \in Nat
    BY <1>1 DEF Installs!Present, Installs!Row
  <2>2. IsFiniteSet(s)
    BY NamesFinite DEF Installs!Present
  <2> HIDE DEF f, s
  <2>3. SumBy(f, s) \in Nat
    BY <2>1, <2>2, SumNat
  <2> QED BY <2>3 DEF Tally, f, s
<1> QED BY <1>1, <1>2, Bounds DEF InstallInv, Installs!TypeOK

\* A row that counts more, a new row, and one that goes.
LEMMA TallyMore ==
    ASSUME row \in [Names -> Installs!Row \cup {None}], NEW n \in Names, row[n] # None, NEW k \in Nat,
           row' = [row EXCEPT ![n] = [id |-> row[n].id, count |-> row[n].count + k]]
    PROVE  Tally' = Tally + k
<1> DEFINE f == [m \in Names |-> row[m].count]
           g == [m \in Names |-> row'[m].count]
           s == Installs!Present
<1>1. row[n] \in Installs!Row /\ row[n].count \in Nat
  BY DEF Installs!Row
<1>2. row'[n].count = row[n].count + k /\ row'[n] # None
  <2>1. row'[n] = [id |-> row[n].id, count |-> row[n].count + k]
    OBVIOUS
  <2>2. row'[n] \in Installs!Row
    BY <1>1, <2>1 DEF Installs!Row
  <2> QED BY <2>1, <2>2, AbsentAssumption
<1>3. Installs!Present' = s
  BY <1>2 DEF Installs!Present
<1>12. n \in s
  BY DEF Installs!Present
<1>4. \A x \in s : f[x] \in Int
  BY DEF Installs!Present, Installs!Row
<1>5. \A x \in s : x # n => g[x] = f[x]
  BY DEF Installs!Present
<1>6. f[n] \in Int /\ g[n] = f[n] + k
  BY <1>1, <1>2
<1>7. IsFiniteSet(s)
  BY NamesFinite DEF Installs!Present
<1>8. Tally' = SumBy(g, s) /\ Tally = SumBy(f, s)
  BY <1>3 DEF Tally
<1> HIDE DEF f, g, s
<1>9. \A x \in s : f[x] \in Int /\ g[x] \in Int
  BY <1>4, <1>5, <1>6
<1>10. SumBy(g, s) = SumBy(f, s) - f[n] + g[n]
  <2>1. n \in s
    BY <1>12
  <2>2. IsFiniteSet(s)
    BY <1>7
  <2>3. \A x \in s : f[x] \in Int /\ g[x] \in Int
    BY <1>9
  <2>4. \A x \in s : x # n => g[x] = f[x]
    BY <1>5
  <2> QED BY <2>1, <2>2, <2>3, <2>4, SumChange
<1>11. SumBy(f, s) \in Int
  BY <1>4, <1>7, SumInt
<1> QED BY <1>6, <1>8, <1>10, <1>11

\* A new row adds its count.
LEMMA TallyNew ==
    ASSUME row \in [Names -> Installs!Row \cup {None}], NEW n \in Names, row[n] = None,
           NEW r \in Installs!Row, row' = [row EXCEPT ![n] = r]
    PROVE  Tally' = Tally + r.count
<1> DEFINE f == [m \in Names |-> row[m].count]
           g == [m \in Names |-> row'[m].count]
           s == Installs!Present
           w == s \cup {n}
<1>1. row'[n] = r /\ r # None /\ r.count \in Nat
  BY AbsentAssumption DEF Installs!Row
<1>2. Installs!Present' = w /\ n \notin s
  BY <1>1 DEF Installs!Present
<1>3. \A x \in s : f[x] \in Int /\ g[x] = f[x]
  BY <1>2 DEF Installs!Present, Installs!Row
<1>4. g[n] = r.count
  BY <1>1
<1>5. IsFiniteSet(s) /\ IsFiniteSet(w)
  BY NamesFinite DEF Installs!Present
<1>6. Tally' = SumBy(g, w) /\ Tally = SumBy(f, s)
  BY <1>2 DEF Tally
<1>7. n \in w /\ w \ {n} = s
  BY <1>2
<1>12. w = s \cup {n}
  OBVIOUS
<1> HIDE DEF f, g, s, w
<1>8. \A x \in w : g[x] \in Int
  BY <1>1, <1>3, <1>4, <1>12
<1>9. SumBy(g, w) = g[n] + SumBy(g, s)
  BY <1>5, <1>7, <1>8, SumPick
<1>10. SumBy(g, s) = SumBy(f, s)
  BY <1>3, <1>5, SumSame
<1>11. SumBy(f, s) \in Int
  BY <1>3, <1>5, SumInt
<1> QED BY <1>1, <1>4, <1>6, <1>9, <1>10, <1>11

\* A row that goes takes its count along.
LEMMA TallyLess ==
    ASSUME row \in [Names -> Installs!Row \cup {None}], NEW n \in Names, row[n] # None,
           row' = [row EXCEPT ![n] = None]
    PROVE  Tally' = Tally - row[n].count /\ row[n].count \in Nat
<1> DEFINE f == [m \in Names |-> row[m].count]
           g == [m \in Names |-> row'[m].count]
           s == Installs!Present
           w == s \ {n}
<1>1. row[n].count \in Nat /\ f[n] = row[n].count
  BY DEF Installs!Row
<1>2. Installs!Present' = w /\ n \in s
  BY DEF Installs!Present
<1>3. \A x \in s : f[x] \in Int
  BY DEF Installs!Present, Installs!Row
<1>4. \A x \in w : g[x] = f[x]
  BY DEF Installs!Present
<1>5. IsFiniteSet(s) /\ IsFiniteSet(w)
  BY NamesFinite DEF Installs!Present
<1>6. Tally' = SumBy(g, w) /\ Tally = SumBy(f, s)
  BY <1>2 DEF Tally
<1> HIDE DEF f, g, s
<1>7. SumBy(f, s) = f[n] + SumBy(f, w)
  BY <1>2, <1>3, <1>5, SumPick
<1> HIDE DEF w
<1>8. SumBy(g, w) = SumBy(f, w)
  BY <1>4, <1>5, SumSame
<1>9. SumBy(f, w) \in Int
  <2>1. \A x \in w : f[x] \in Int
    BY <1>3 DEF w
  <2> QED BY <1>5, <2>1, SumInt
<1> QED BY <1>1, <1>6, <1>7, <1>8, <1>9

\* Nothing is reported at first.
LEMMA InstallInit == Installs!Init => InstallInv
<1> SUFFICES ASSUME Installs!Init PROVE InstallInv
  OBVIOUS
<1> USE DEF Installs!Init
<1>1. Tally = 0
  <2>1. Installs!Present = {}
    BY DEF Installs!Present
  <2> QED BY <2>1, SumEmpty DEF Tally
<1>2. {born, credited, removed} \subseteq Nat /\ reported \in 0..MaxInstalls /\ deletes \in 0..MaxDeletes
  BY Bounds
<1>3. Installs!TypeOK
  BY <1>2 DEF Installs!TypeOK
<1> QED BY <1>1, <1>3 DEF InstallInv, KnowsItem, Installs!RefusedOnlyAfterDelete

\* Rows that were there keep their ids.
RowsKept == \A n \in Names : row[n] # None => row'[n] # None /\ row'[n].id = row[n].id

\* What one request does leaves the others what they have seen.
LEMMA OthersKeep ==
    ASSUME InstallInv, NEW t \in Tasks, RowsKept, UNCHANGED deletes,
           \A u \in Tasks : u # t => pc'[u] = pc[u] /\ mem'[u] = mem[u],
           KnowsItem(t)', pc'[t] = "refused" => deletes > 0
    PROVE  (\A u \in Tasks : KnowsItem(u)') /\ Installs!RefusedOnlyAfterDelete'
<1>1. ASSUME NEW u \in Tasks, u # t PROVE KnowsItem(u)'
  <2>1. KnowsItem(u) /\ pc'[u] = pc[u] /\ mem'[u] = mem[u]
    BY <1>1 DEF InstallInv
  <2>2. SUFFICES ASSUME pc[u] \in {"update", "lookup", "byid", "insert"}
                 PROVE  /\ mem[u] \in Installs!Memory
                        /\ deletes = 0 => /\ mem[u].retried => pc[u] = "update" /\ row'[mem[u].name] # None
                                          /\ pc[u] = "byid" => \E n \in Names : row'[n] # None /\ row'[n].id = mem[u].id
    BY <2>1 DEF KnowsItem
  <2>3. mem[u] \in Installs!Memory
    BY <2>1, <2>2 DEF KnowsItem
  <2>4. mem[u].name \in Names
    BY <2>3 DEF Installs!Memory
  <2> QED BY <2>1, <2>2, <2>3, <2>4 DEF KnowsItem, RowsKept
<1>2. (\E u \in Tasks : pc'[u] = "refused") => deletes' > 0
  BY DEF InstallInv, Installs!RefusedOnlyAfterDelete
<1> QED BY <1>1, <1>2 DEF Installs!RefusedOnlyAfterDelete

\* The end of an item.
LEMMA ItemDone ==
    ASSUME InstallInv, NEW t \in Tasks, mem[t] \in Installs!Memory, Installs!Done(t)
    PROVE  LET k == mem[t].todo[mem[t].name] IN
           /\ k \in Nat /\ credited' = credited + k
           /\ UNCHANGED <<reported, removed, deletes>>
           /\ pc' \in [Tasks -> {"idle", "update", "lookup", "byid", "insert", "refused"}]
           /\ mem' \in [Tasks -> Installs!Memory \cup {None}]
           /\ \A u \in Tasks : u # t => pc'[u] = pc[u] /\ mem'[u] = mem[u]
           /\ KnowsItem(t)' /\ pc'[t] # "refused"
<1>1. mem[t].name \in Names /\ mem[t].todo \in [Names -> Nat]
  BY DEF Installs!Memory
<1>2. pc \in [Tasks -> {"idle", "update", "lookup", "byid", "insert", "refused"}] /\ mem \in [Tasks -> Installs!Memory \cup {None}]
  BY InstallNumbers
<1> DEFINE left == [mem[t].todo EXCEPT ![mem[t].name] = 0]
<1>3. left \in [Names -> Nat]
  BY <1>1
<1>4. credited' = credited + mem[t].todo[mem[t].name] /\ UNCHANGED <<reported, removed, deletes>>
  BY DEF Installs!Done
<1>5. CASE mem' = [mem EXCEPT ![t] = None] /\ Installs!Goto(t, "idle")
  <2>1. pc'[t] = "idle"
    BY <1>2, <1>5 DEF Installs!Goto
  <2> QED BY <1>1, <1>2, <1>4, <1>5, <2>1 DEF Installs!Goto, KnowsItem
<1>6. ASSUME NEW n \in Names,
             mem' = [mem EXCEPT ![t] = [todo |-> left, name |-> n, id |-> 0, retried |-> FALSE]],
             Installs!Goto(t, "update")
      PROVE  /\ pc' \in [Tasks -> {"idle", "update", "lookup", "byid", "insert", "refused"}]
             /\ mem' \in [Tasks -> Installs!Memory \cup {None}]
             /\ \A u \in Tasks : u # t => pc'[u] = pc[u] /\ mem'[u] = mem[u]
             /\ KnowsItem(t)' /\ pc'[t] # "refused"
  <2> DEFINE m == [todo |-> left, name |-> n, id |-> 0, retried |-> FALSE]
  <2>1. m \in Installs!Memory /\ ~m.retried
    BY <1>3 DEF Installs!Memory
  <2> HIDE DEF m
  <2>2. mem' = [mem EXCEPT ![t] = m]
    BY <1>6 DEF m
  <2>3. pc'[t] = "update" /\ mem'[t] = m
    BY <1>2, <1>6, <2>2 DEF Installs!Goto
  <2>4. KnowsItem(t)'
    BY <2>1, <2>3 DEF KnowsItem
  <2> QED BY <1>2, <1>6, <2>1, <2>2, <2>3, <2>4 DEF Installs!Goto
<1>7. \/ mem' = [mem EXCEPT ![t] = None] /\ Installs!Goto(t, "idle")
      \/ \E n \in Names :
            /\ mem' = [mem EXCEPT ![t] = [todo |-> left, name |-> n, id |-> 0, retried |-> FALSE]]
            /\ Installs!Goto(t, "update")
  BY DEF Installs!Done
<1> QED BY <1>1, <1>4, <1>5, <1>6, <1>7

\* An item that finds its row, one that adds a row, and one that counts nowhere.
LEMMA ItemCounts ==
    ASSUME InstallInv, NEW t \in Tasks, mem[t] \in Installs!Memory, Installs!Done(t),
           row' \in [Names -> Installs!Row \cup {None}], born' \in Nat, RowsKept,
           \/ Tally' = Tally + mem[t].todo[mem[t].name]
           \/ Tally' = Tally /\ deletes > 0
    PROVE  InstallInv'
<1>1. LET k == mem[t].todo[mem[t].name] IN
      /\ k \in Nat /\ credited' = credited + k
      /\ UNCHANGED <<reported, removed, deletes>>
      /\ pc' \in [Tasks -> {"idle", "update", "lookup", "byid", "insert", "refused"}]
      /\ mem' \in [Tasks -> Installs!Memory \cup {None}]
      /\ \A u \in Tasks : u # t => pc'[u] = pc[u] /\ mem'[u] = mem[u]
      /\ KnowsItem(t)' /\ pc'[t] # "refused"
  BY ItemDone
<1>2. (\A u \in Tasks : KnowsItem(u)') /\ Installs!RefusedOnlyAfterDelete'
  BY <1>1, OthersKeep
<1>3. /\ credited \in Nat /\ removed \in Nat /\ Tally \in Nat /\ deletes \in Nat
      /\ reported \in 0..MaxInstalls /\ deletes \in 0..MaxDeletes
  BY InstallNumbers
<1>4. Tally + removed <= credited /\ (deletes = 0 => Tally + removed = credited)
  BY DEF InstallInv
<1>5. Tally' + removed' <= credited' /\ (deletes' = 0 => Tally' + removed' = credited') /\ credited' \in Nat
  BY <1>1, <1>3, <1>4
<1>6. Installs!TypeOK'
  BY <1>1, <1>3, <1>5 DEF Installs!TypeOK
<1> QED BY <1>2, <1>5, <1>6 DEF InstallInv

\* An UPDATE of a row that is there.
LEMMA RowCountsOne ==
    ASSUME InstallInv, NEW t \in Tasks, mem[t] \in Installs!Memory, NEW n \in Names, row[n] # None,
           Installs!Add(t, n), Installs!Done(t)
    PROVE  InstallInv'
<1> DEFINE k == mem[t].todo[mem[t].name]
<1>1. k \in Nat
  BY DEF Installs!Memory
<1>2. row \in [Names -> Installs!Row \cup {None}] /\ born \in Nat /\ row[n] \in Installs!Row
  BY InstallNumbers
<1>3. row[n] = [id |-> row[n].id, count |-> row[n].count] /\ row[n].count \in Nat /\ row[n].id \in Nat
  BY <1>2 DEF Installs!Row
<1>4. row' = [row EXCEPT ![n].count = @ + k] /\ born' = born
  BY DEF Installs!Add
<1> HIDE DEF k
<1> DEFINE r == [id |-> row[n].id, count |-> row[n].count + k]
<1>5. row' = [row EXCEPT ![n] = r]
  <2>1. [row[n] EXCEPT !.count = row[n].count + k] = r
    BY <1>3
  <2>2. row' = [row EXCEPT ![n] = [row[n] EXCEPT !.count = row[n].count + k]]
    BY <1>4
  <2> QED BY <2>1, <2>2
<1>6. r \in Installs!Row /\ r.id = row[n].id
  BY <1>1, <1>3 DEF Installs!Row
<1>7. Tally' = Tally + k
  BY <1>1, <1>2, <1>5, TallyMore
<1> HIDE DEF r
<1>8. row' \in [Names -> Installs!Row \cup {None}]
  BY <1>2, <1>5, <1>6
<1>9. RowsKept
  BY <1>2, <1>5, <1>6, AbsentAssumption DEF RowsKept
<1> QED BY <1>2, <1>4, <1>7, <1>8, <1>9, ItemCounts DEF k

\* UPDATE of the exact spelling.
LEMMA InstallExact == ASSUME InstallInv, NEW t \in Tasks, Installs!UpdateExact(t) PROVE InstallInv'
<1>1. pc[t] = "update" /\ mem[t] \in Installs!Memory /\ mem[t].name \in Names
  BY DEF Installs!UpdateExact, InstallInv, KnowsItem, Installs!Memory
<1>2. CASE row[mem[t].name] # None
  BY <1>1, <1>2, RowCountsOne DEF Installs!UpdateExact
<1>3. CASE row[mem[t].name] = None
  <2>1. Installs!Goto(t, "lookup") /\ UNCHANGED <<row, born, reported, credited, removed, deletes, mem>>
    BY <1>3 DEF Installs!UpdateExact
  <2>2. pc \in [Tasks -> {"idle", "update", "lookup", "byid", "insert", "refused"}]
    BY InstallNumbers
  <2>3. /\ pc' \in [Tasks -> {"idle", "update", "lookup", "byid", "insert", "refused"}]
        /\ pc'[t] = "lookup" /\ \A u \in Tasks : u # t => pc'[u] = pc[u]
    BY <2>1, <2>2 DEF Installs!Goto
  <2>4. KnowsItem(t)'
    BY <1>1, <1>3, <2>1, <2>3 DEF InstallInv, KnowsItem
  <2>5. RowsKept
    BY <2>1 DEF RowsKept
  <2>6. (\A u \in Tasks : KnowsItem(u)') /\ Installs!RefusedOnlyAfterDelete'
    BY <2>1, <2>3, <2>4, <2>5, OthersKeep
  <2>7. Tally' = Tally
    BY <2>1 DEF Tally, Installs!Present
  <2> QED BY <2>1, <2>3, <2>6, <2>7 DEF InstallInv, Installs!TypeOK
<1> QED BY <1>2, <1>3

\* SELECT without regard to case.
LEMMA InstallLookup == ASSUME InstallInv, NEW t \in Tasks, Installs!Lookup(t) PROVE InstallInv'
<1>1. pc[t] = "lookup" /\ mem[t] \in Installs!Memory
  BY DEF Installs!Lookup, InstallInv, KnowsItem
<1>2. /\ pc \in [Tasks -> {"idle", "update", "lookup", "byid", "insert", "refused"}]
      /\ mem \in [Tasks -> Installs!Memory \cup {None}] /\ row \in [Names -> Installs!Row \cup {None}]
  BY InstallNumbers
<1>3. UNCHANGED <<row, born, reported, credited, removed, deletes>>
  BY DEF Installs!Lookup
<1>4. /\ pc' \in [Tasks -> {"idle", "update", "lookup", "byid", "insert", "refused"}]
      /\ pc'[t] \in {"insert", "byid"}
      /\ \A u \in Tasks : u # t => pc'[u] = pc[u]
  BY <1>2 DEF Installs!Lookup, Installs!Goto
<1>5. /\ mem' \in [Tasks -> Installs!Memory \cup {None}]
      /\ \A u \in Tasks : u # t => mem'[u] = mem[u]
      /\ mem'[t] \in Installs!Memory /\ mem'[t].retried = mem[t].retried /\ mem'[t].name = mem[t].name
      /\ pc'[t] = "byid" => \E n \in Names : row[n] # None /\ row[n].id = mem'[t].id
  <2>1. CASE Installs!Present = {}
    <3>1. UNCHANGED mem /\ pc'[t] = "insert"
      BY <1>2, <2>1 DEF Installs!Lookup, Installs!Goto
    <3> QED BY <1>1, <1>2, <3>1
  <2>2. CASE Installs!Present # {}
    <3>1. PICK n \in Installs!Present : mem' = [mem EXCEPT ![t].id = row[n].id]
      BY <2>2 DEF Installs!Lookup
    <3>2. n \in Names /\ row[n] # None /\ row[n] \in Installs!Row /\ row[n].id \in Nat
      BY <1>2 DEF Installs!Present, Installs!Row
    <3> DEFINE m == [mem[t] EXCEPT !.id = row[n].id]
    <3>3. m \in Installs!Memory /\ m.retried = mem[t].retried /\ m.name = mem[t].name /\ m.id = row[n].id
      BY <1>1, <3>2 DEF Installs!Memory
    <3>4. mem' = [mem EXCEPT ![t] = m]
      BY <3>1
    <3> HIDE DEF m
    <3> QED BY <1>2, <3>2, <3>3, <3>4
  <2> QED BY <2>1, <2>2
<1>6. KnowsItem(t)'
  BY <1>1, <1>3, <1>4, <1>5 DEF InstallInv, KnowsItem
<1>7. RowsKept
  BY <1>3 DEF RowsKept
<1>8. (\A u \in Tasks : KnowsItem(u)') /\ Installs!RefusedOnlyAfterDelete'
  BY <1>3, <1>4, <1>5, <1>6, <1>7, OthersKeep
<1>9. Tally' = Tally
  BY <1>3 DEF Tally, Installs!Present
<1> QED BY <1>3, <1>4, <1>5, <1>8, <1>9 DEF InstallInv, Installs!TypeOK

\* UPDATE of the row that was found: without a deletion it is there.
LEMMA InstallById == ASSUME InstallInv, NEW t \in Tasks, Installs!UpdateById(t) PROVE InstallInv'
<1>1. pc[t] = "byid" /\ mem[t] \in Installs!Memory /\ Installs!Done(t)
  BY DEF Installs!UpdateById, InstallInv, KnowsItem
<1>2. CASE \E n \in Installs!Present : row[n].id = mem[t].id /\ Installs!Add(t, n)
  BY <1>1, <1>2, RowCountsOne DEF Installs!Present
<1>3. CASE (\A n \in Installs!Present : row[n].id # mem[t].id) /\ UNCHANGED <<row, born>>
  <2>1. row' \in [Names -> Installs!Row \cup {None}] /\ born' \in Nat /\ deletes \in Nat
    BY <1>3, InstallNumbers
  <2>2. deletes # 0
    BY <1>1, <1>3 DEF InstallInv, KnowsItem, Installs!Present
  <2>3. Tally' = Tally
    BY <1>3 DEF Tally, Installs!Present
  <2>4. RowsKept
    BY <1>3 DEF RowsKept
  <2>5. deletes > 0
    BY <2>1, <2>2
  <2> QED BY <1>1, <2>1, <2>3, <2>4, <2>5, ItemCounts
<1> QED BY <1>2, <1>3 DEF Installs!UpdateById

\* INSERT, or the row of another request.
LEMMA InstallInsert == ASSUME InstallInv, NEW t \in Tasks, Installs!InsertRow(t) PROVE InstallInv'
<1>1. pc[t] = "insert" /\ mem[t] \in Installs!Memory /\ mem[t].name \in Names /\ mem[t].todo \in [Names -> Nat]
  BY DEF Installs!InsertRow, InstallInv, KnowsItem, Installs!Memory
<1>2. /\ row \in [Names -> Installs!Row \cup {None}] /\ born \in Nat /\ deletes \in Nat
      /\ pc \in [Tasks -> {"idle", "update", "lookup", "byid", "insert", "refused"}]
      /\ mem \in [Tasks -> Installs!Memory \cup {None}]
  BY InstallNumbers
<1>3. CASE row[mem[t].name] = None
  <2> DEFINE r == [id |-> born + 1, count |-> mem[t].todo[mem[t].name]]
  <2>1. r \in Installs!Row /\ r.count = mem[t].todo[mem[t].name]
    BY <1>1, <1>2 DEF Installs!Row
  <2>2. row' = [row EXCEPT ![mem[t].name] = r] /\ born' = born + 1 /\ Installs!Done(t)
    BY <1>3 DEF Installs!InsertRow
  <2> HIDE DEF r
  <2>3. Tally' = Tally + r.count
    BY <1>1, <1>2, <1>3, <2>1, <2>2, TallyNew
  <2>4. row' \in [Names -> Installs!Row \cup {None}] /\ born' \in Nat
    <3>1. row' \in [Names -> Installs!Row \cup {None}]
      BY <1>2, <2>1, <2>2
    <3>2. born' \in Nat
      BY <1>2, <2>2
    <3> QED BY <3>1, <3>2
  <2>5. RowsKept
    BY <1>2, <1>3, <2>2 DEF RowsKept
  <2> QED BY <1>1, <2>1, <2>2, <2>3, <2>4, <2>5, ItemCounts
<1>4. CASE row[mem[t].name] # None
  <2>1. Installs!Conflict(t) /\ UNCHANGED <<row, born, reported, credited, removed, deletes>>
    BY <1>4 DEF Installs!InsertRow
  <2>2. mem[t].retried => deletes > 0
    BY <1>1, <1>2 DEF InstallInv, KnowsItem
  <2> DEFINE m == [mem[t] EXCEPT !.retried = TRUE]
  <2>3. m \in Installs!Memory /\ m.name = mem[t].name
    BY <1>1 DEF Installs!Memory
  <2>4. mem' = [mem EXCEPT ![t] = m]
    BY <2>1 DEF Installs!Conflict
  <2> HIDE DEF m
  <2>5. /\ pc' \in [Tasks -> {"idle", "update", "lookup", "byid", "insert", "refused"}]
        /\ pc'[t] = IF mem[t].retried THEN "refused" ELSE "update"
        /\ \A u \in Tasks : u # t => pc'[u] = pc[u]
    BY <1>2, <2>1 DEF Installs!Conflict, Installs!Goto
  <2>6. /\ mem' \in [Tasks -> Installs!Memory \cup {None}] /\ mem'[t] = m
        /\ \A u \in Tasks : u # t => mem'[u] = mem[u]
    BY <1>2, <2>3, <2>4
  <2>7. KnowsItem(t)'
    BY <1>4, <2>1, <2>3, <2>5, <2>6 DEF KnowsItem
  <2>8. RowsKept
    BY <2>1 DEF RowsKept
  <2>9. (\A u \in Tasks : KnowsItem(u)') /\ Installs!RefusedOnlyAfterDelete'
    BY <2>1, <2>2, <2>5, <2>6, <2>7, <2>8, OthersKeep
  <2>10. Tally' = Tally
    BY <2>1 DEF Tally, Installs!Present
  <2> QED BY <2>1, <2>5, <2>6, <2>9, <2>10 DEF InstallInv, Installs!TypeOK
<1> QED BY <1>3, <1>4

\* A new request.
LEMMA InstallReport ==
    ASSUME InstallInv, NEW t \in Tasks, NEW todo \in [Names -> 0..2], NEW first \in Names, Installs!Report(t, todo, first)
    PROVE  InstallInv'
<1>1. todo \in [Names -> Nat]
  OBVIOUS
<1>2. Installs!Total(todo) \in Nat
  BY <1>1, InstallSums, NamesFinite, SumNat
<1>3. /\ pc \in [Tasks -> {"idle", "update", "lookup", "byid", "insert", "refused"}]
      /\ mem \in [Tasks -> Installs!Memory \cup {None}] /\ reported \in 0..MaxInstalls
  BY InstallNumbers
<1>4. reported' \in 0..MaxInstalls
  BY <1>2, <1>3, Bounds DEF Installs!Report
<1> DEFINE m == [todo |-> todo, name |-> first, id |-> 0, retried |-> FALSE]
<1>5. m \in Installs!Memory /\ ~m.retried
  BY <1>1 DEF Installs!Memory
<1>6. mem' = [mem EXCEPT ![t] = m] /\ UNCHANGED <<row, born, credited, removed, deletes>>
  BY DEF Installs!Report
<1> HIDE DEF m
<1>7. /\ pc' \in [Tasks -> {"idle", "update", "lookup", "byid", "insert", "refused"}]
      /\ pc'[t] = "update" /\ \A u \in Tasks : u # t => pc'[u] = pc[u]
  BY <1>3 DEF Installs!Report, Installs!Goto
<1>8. /\ mem' \in [Tasks -> Installs!Memory \cup {None}] /\ mem'[t] = m
      /\ \A u \in Tasks : u # t => mem'[u] = mem[u]
  BY <1>3, <1>5, <1>6
<1>9. KnowsItem(t)'
  BY <1>5, <1>7, <1>8 DEF KnowsItem
<1>10. RowsKept
  BY <1>6 DEF RowsKept
<1>11. (\A u \in Tasks : KnowsItem(u)') /\ Installs!RefusedOnlyAfterDelete'
  BY <1>6, <1>7, <1>8, <1>9, <1>10, OthersKeep
<1>12. Tally' = Tally
  BY <1>6 DEF Tally, Installs!Present
<1> QED BY <1>4, <1>6, <1>7, <1>8, <1>11, <1>12 DEF InstallInv, Installs!TypeOK

\* A row is deleted, and what it counted.
LEMMA InstallDelete == ASSUME InstallInv, NEW n \in Names, Installs!Delete(n) PROVE InstallInv'
<1>1. /\ row \in [Names -> Installs!Row \cup {None}] /\ removed \in Nat /\ credited \in Nat /\ Tally \in Nat
      /\ deletes \in 0..MaxDeletes /\ deletes \in Nat
  BY InstallNumbers
<1>2. /\ row[n] # None /\ row' = [row EXCEPT ![n] = None]
      /\ removed' = removed + row[n].count /\ deletes' = deletes + 1 /\ deletes < MaxDeletes
      /\ UNCHANGED <<born, reported, credited, pc, mem>>
  BY DEF Installs!Delete
<1>3. Tally' = Tally - row[n].count /\ row[n].count \in Nat
  BY <1>1, <1>2, TallyLess
<1>4. Tally' + removed' = Tally + removed /\ deletes' > 0 /\ deletes' # 0 /\ removed' \in Nat
  BY <1>1, <1>2, <1>3
<1>5. Tally' + removed' <= credited'
  BY <1>2, <1>4 DEF InstallInv
<1>6. \A u \in Tasks : KnowsItem(u)'
  BY <1>2, <1>4 DEF InstallInv, KnowsItem
<1>7. row' \in [Names -> Installs!Row \cup {None}] /\ deletes' \in 0..MaxDeletes
  BY <1>1, <1>2, Bounds
<1>8. Installs!TypeOK'
  BY <1>2, <1>4, <1>7 DEF InstallInv, Installs!TypeOK
<1> QED BY <1>4, <1>5, <1>6, <1>8 DEF InstallInv, Installs!RefusedOnlyAfterDelete

\* Every step, and a step that is about something else.
LEMMA InstallStep == InstallInv /\ Installs!Next => InstallInv'
BY InstallExact, InstallLookup, InstallById, InstallInsert, InstallReport, InstallDelete DEF Installs!Next

\* A step of another component changes nothing here.
LEMMA InstallStutter ==
    InstallInv /\ UNCHANGED <<row, born, reported, credited, removed, deletes, pc, mem>> => InstallInv'
BY DEF InstallInv, Installs!TypeOK, Tally, Installs!Present, KnowsItem, Installs!RefusedOnlyAfterDelete

\* batch_install_plugins: nothing is counted twice and nothing is lost, in
\* whichever spelling, unless a row is deleted.
THEOREM InstallsHold == Spec => []InstallsCorrect
<1> DEFINE Inv == part = "installs" => InstallInv
<1>1. Init => Inv
  BY InstallInit DEF Init
<1>2. Inv /\ [Next]_vars => Inv'
  <2> SUFFICES ASSUME Inv, [Next]_vars PROVE Inv'
    OBVIOUS
  <2>1. CASE UNCHANGED vars
    BY <2>1, InstallStutter DEF vars
  <2>2. CASE Next
    BY <2>2, InstallStep DEF Next
  <2> QED BY <2>1, <2>2
<1>3. Inv => InstallsCorrect
  BY InstallSums DEF InstallInv, InstallsCorrect, Installs!InstallsCounted
<1> QED BY <1>1, <1>2, <1>3, PTL DEF Spec

-----------------------------------------------------------------------------
(* Usage.  Every row counts its reports.  A report that has lost the race  *)
(* for the insert finds the row unless somebody deleted it; and what the    *)
(* queries of one collection have found so far is never more than what is   *)
(* there now, for without a deletion installations only come and become     *)
(* active, so that each later query finds at least as many as the earlier.  *)

UsageRows == [Users -> Usage!Row \cup {None}]
UsageRequest == [user : Users, versions : Usage!Versions, retried : BOOLEAN]
Seen(w) == {u \in Usage!Countable : row[u].seen <= w}

Reports(t) ==
    /\ pc[t] \in {"update", "insert", "invalidate"} => mem[t] \in UsageRequest
    /\ pc[t] \in {"update", "insert"} => mem[t].versions.backend \/ mem[t].versions.frontend
    /\ pc[t] = "update" /\ mem[t].retried => deletes > 0 \/ row[mem[t].user] # None
    /\ pc[t] = "insert" /\ mem[t].retried => deletes > 0
    /\ pc[t] = "refused" => deletes > 0

\* What f has collected, of c installations that count and a(w) active ones.
Collected(f, c) ==
    /\ f.backend <= c
    /\ f.step >= 2 => f.frontend <= c
    /\ f.step >= 3 => f.backend <= f.total /\ f.frontend <= f.total
Graded(f) == \A w \in 1..(Windows - 1) : w + 4 <= f.step => f.active[w] <= f.active[w + 1]
Active(f) == \A w \in 1..Windows : w + 3 <= f.step => f.active[w] <= Cardinality(Seen(w))

ReaderHolds ==
    reader # None /\ ~reader.late =>
        /\ swept <= reader.at
        /\ Collected(reader, Cardinality(Usage!Countable)) /\ Graded(reader) /\ Active(reader)

UsageInv ==
    /\ Usage!TypeOK
    /\ Usage!ReportsCounted
    /\ \A t \in Tasks : Reports(t)
    /\ swept <= credited
    /\ ReaderHolds
    /\ Usage!ClearedForGood
    /\ Usage!FiguresFit

\* What the type invariant says, for the proofs.
LEMMA UsageTypes ==
    UsageInv => /\ row \in UsageRows /\ asked \in 0..MaxReports /\ credited \in Nat /\ removed \in Nat /\ swept \in Nat
                /\ deletes \in 0..MaxDeletes /\ deletes \in Nat
                /\ pc \in [Tasks -> {"idle", "update", "insert", "invalidate", "refused"}]
                /\ mem \in [Tasks -> UsageRequest \cup {None}] /\ quiet \in BOOLEAN
                /\ reader \in Usage!Figures \cup {None} /\ cached \in Usage!Figures \cup {None}
BY Bounds DEF UsageInv, Usage!TypeOK, UsageRows, UsageRequest

\* The reports that the rows count.
Rows(r) == {u \in Users : r[u] # None}
RowCounts(r) == [u \in Users |-> r[u].count]
Credit(r) == SumBy(RowCounts(r), Rows(r))

\* The sum of the module is the credit of the rows.
LEMMA CreditIs == Usage!ReportsCounted <=> Credit(row) + removed = credited
<1>1. Usage!SumFunctionOnSet([u \in Users |-> row[u].count], {u \in Users : row[u] # None}) = Credit(row)
  BY SumDefined DEF Usage!SumFunctionOnSet, SumFunctionOnSet, FoldFunctionOnSet, MapThenFoldSet,
     Usage!FoldFunctionOnSet, Usage!MapThenFoldSet, Credit, Rows, RowCounts
<1> QED BY <1>1 DEF Usage!ReportsCounted

\* A row that changes, comes or goes.
LEMMA CreditChanges ==
    ASSUME NEW r \in UsageRows, NEW x \in Users, NEW v \in Usage!Row \cup {None}, NEW q, q = [r EXCEPT ![x] = v]
    PROVE  /\ q \in UsageRows
           /\ Credit(q) - (IF v = None THEN 0 ELSE v.count) = Credit(r) - (IF r[x] = None THEN 0 ELSE r[x].count)
<1>1. q \in UsageRows /\ q[x] = v /\ \A u \in Users : u # x => q[u] = r[u]
  BY DEF UsageRows
<1> DEFINE A == Rows(r)
           B == Rows(q)
           f == RowCounts(r)
           g == RowCounts(q)
<1>2. A \in SUBSET Users /\ B \in SUBSET Users /\ IsFiniteSet(Users)
  BY BoundsAssumption DEF Rows
<1>3. (\A y \in A : f[y] \in Int) /\ \A y \in B : g[y] \in Int
  BY <1>1 DEF Rows, RowCounts, UsageRows, Usage!Row
<1>4. \A y \in Users : y # x => (y \in A <=> y \in B) /\ (y \in A => g[y] = f[y])
  BY <1>1 DEF Rows, RowCounts
<1>5. (x \in A <=> r[x] # None) /\ (x \in B <=> v # None) /\ f[x] = r[x].count /\ g[x] = v.count
  BY <1>1 DEF Rows, RowCounts
<1> HIDE DEF A, B, f, g
<1>6. SumBy(g, B) - (IF x \in B THEN g[x] ELSE 0) = SumBy(f, A) - (IF x \in A THEN f[x] ELSE 0)
  BY <1>2, <1>3, <1>4, SumAlters
<1>7. SumBy(g, B) - (IF v = None THEN 0 ELSE v.count) = SumBy(f, A) - (IF r[x] = None THEN 0 ELSE r[x].count)
  BY <1>5, <1>6
<1> QED BY <1>1, <1>7 DEF Credit, A, B, f, g

\* A credit is a number.
LEMMA CreditTyped == ASSUME NEW r \in UsageRows PROVE Credit(r) \in Nat
<1>1. IsFiniteSet(Rows(r))
  BY BoundsAssumption, FS_Subset DEF Rows
<1>2. \A u \in Rows(r) : RowCounts(r)[u] \in Nat
  BY DEF UsageRows, Usage!Row, Rows, RowCounts
<1> QED BY <1>1, <1>2, SumNat DEF Credit

\* How many installations there are to count.
LEMMA CountsFinite ==
    /\ IsFiniteSet(Usage!Countable) /\ Cardinality(Usage!Countable) \in Nat
    /\ \A w : IsFiniteSet(Seen(w)) /\ Cardinality(Seen(w)) \in Nat
<1>1. Usage!Countable \subseteq Users /\ \A w : Seen(w) \subseteq Users
  BY DEF Usage!Countable, Seen
<1> QED BY <1>1, BoundsAssumption, FS_Subset, FS_CardinalityType

\* The queries of the collection count these sets.
LEMMA QueriesCount ==
    /\ Usage!WithBackend \in Nat /\ Usage!WithFrontend \in Nat
    /\ Usage!WithBackend <= Cardinality(Usage!Countable) /\ Usage!WithFrontend <= Cardinality(Usage!Countable)
    /\ Usage!Cardinality(Usage!Countable) = Cardinality(Usage!Countable)
    /\ \A w : Usage!ActiveSince(w) = Cardinality(Seen(w))
<1>1. ASSUME NEW S, S \subseteq Usage!Countable PROVE Cardinality(S) \in Nat /\ Cardinality(S) <= Cardinality(Usage!Countable)
  BY <1>1, CountsFinite, FS_Subset, FS_CardinalityType
<1>2. \A S : Usage!Cardinality(S) = Cardinality(S)
  BY DEF Usage!Cardinality, Cardinality
<1> DEFINE b == {u \in Usage!Countable : row[u].versions.backend}
           f == {u \in Usage!Countable : row[u].versions.frontend}
<1>3. Usage!WithBackend = Cardinality(b) /\ Usage!WithFrontend = Cardinality(f)
  BY <1>2 DEF Usage!WithBackend, Usage!WithFrontend
<1>4. b \subseteq Usage!Countable /\ f \subseteq Usage!Countable
  OBVIOUS
<1> HIDE DEF b, f
<1>5. \A w : Usage!ActiveSince(w) = Cardinality(Seen(w))
  BY <1>2 DEF Usage!ActiveSince, Seen
<1> QED BY <1>1, <1>2, <1>3, <1>4, <1>5

\* The database as it is found.
LEMMA UsageInit == Usage!Init => UsageInv
<1> SUFFICES ASSUME Usage!Init PROVE UsageInv
  OBVIOUS
<1> USE DEF Usage!Init
<1>1. row \in UsageRows /\ \A u \in Users : row[u] # None => row[u].count = 1
  BY DEF UsageRows, Usage!History, Usage!Row, Usage!Versions, Windows
<1>2. IsFiniteSet(Rows(row))
  BY BoundsAssumption, FS_Subset DEF Rows
<1>3. credited = Cardinality(Rows(row)) /\ credited \in Nat
  BY <1>2, FS_CardinalityType DEF Usage!Cardinality, Cardinality, Rows
<1>4. Credit(row) = Cardinality(Rows(row))
  <2>1. \A u \in Rows(row) : RowCounts(row)[u] = 1
    BY <1>1 DEF Rows, RowCounts
  <2> QED BY <1>2, <2>1, SumOnes DEF Credit
<1>5. Usage!ReportsCounted
  <2>1. Credit(row) + removed = credited
    BY <1>3, <1>4
  <2> QED BY ONLY <2>1, CreditIs
<1>6. Usage!TypeOK
  <2>1. asked \in 0..MaxReports /\ deletes \in 0..MaxDeletes
    BY Bounds
  <2>2. pc \in [Tasks -> {"idle", "update", "insert", "invalidate", "refused"}]
    OBVIOUS
  <2>3. mem \in [Tasks -> UsageRequest \cup {None}]
    OBVIOUS
  <2>4. removed \in Nat /\ swept \in Nat /\ quiet \in BOOLEAN
    OBVIOUS
  <2> QED BY <1>1, <1>3, <2>1, <2>2, <2>3, <2>4 DEF Usage!TypeOK, UsageRows, UsageRequest
<1> QED BY <1>3, <1>5, <1>6 DEF UsageInv, Reports, ReaderHolds, Usage!ClearedForGood, Usage!FiguresFit

\* The invariant, from what a step must show.
LEMMA UsageParts ==
    ASSUME row' \in UsageRows, asked' \in 0..MaxReports, credited' \in Nat, removed' \in Nat, swept' \in Nat,
           deletes' \in 0..MaxDeletes, quiet' \in BOOLEAN,
           pc' \in [Tasks -> {"idle", "update", "insert", "invalidate", "refused"}],
           mem' \in [Tasks -> UsageRequest \cup {None}],
           reader' \in Usage!Figures \cup {None}, cached' \in Usage!Figures \cup {None},
           Usage!ReportsCounted', \A t \in Tasks : Reports(t)', swept' <= credited',
           ReaderHolds', Usage!ClearedForGood', Usage!FiguresFit'
    PROVE  UsageInv'
<1>1. Usage!TypeOK'
  BY DEF Usage!TypeOK, UsageRows, UsageRequest
<1> QED BY <1>1 DEF UsageInv

\* While no row is deleted, there are never fewer installations to count.
LEMMA RowsGrow ==
    ASSUME row \in UsageRows, NEW u \in Users, NEW r \in Usage!Row, row' = [row EXCEPT ![u] = r],
           r.seen = 1, r.versions.backend \/ r.versions.frontend
    PROVE  /\ Cardinality(Usage!Countable') \in Nat /\ Cardinality(Usage!Countable) <= Cardinality(Usage!Countable')
           /\ \A w \in 1..Windows : Cardinality(Seen(w)') \in Nat /\ Cardinality(Seen(w)) <= Cardinality(Seen(w)')
<1>1. row'[u] = r /\ r # None /\ \A v \in Users : v # u => row'[v] = row[v]
  BY AbsentAssumption DEF UsageRows
<1>2. Usage!Countable \subseteq Usage!Countable' /\ Usage!Countable' \subseteq Users
  BY <1>1 DEF Usage!Countable
<1>3. ASSUME NEW w \in 1..Windows PROVE Seen(w) \subseteq Seen(w)' /\ Seen(w)' \subseteq Users
  BY <1>1, <1>2 DEF Seen, Windows
<1>4. \A A, B : A \subseteq B /\ B \subseteq Users =>
          Cardinality(A) \in Nat /\ Cardinality(B) \in Nat /\ Cardinality(A) <= Cardinality(B)
  BY BoundsAssumption, FS_Subset, FS_CardinalityType
<1> QED BY <1>2, <1>3, <1>4

\* What was collected holds against more rows.
LEMMA ReaderStays ==
    ASSUME UsageInv, UNCHANGED <<swept, reader>>,
           Cardinality(Usage!Countable') \in Nat, Cardinality(Usage!Countable) <= Cardinality(Usage!Countable'),
           \A w \in 1..Windows : Cardinality(Seen(w)') \in Nat /\ Cardinality(Seen(w)) <= Cardinality(Seen(w)')
    PROVE  ReaderHolds'
<1> SUFFICES ASSUME reader # None, ~reader.late
             PROVE  /\ swept <= reader.at /\ Collected(reader, Cardinality(Usage!Countable')) /\ Graded(reader)
                    /\ \A w \in 1..Windows : w + 3 <= reader.step => reader.active[w] <= Cardinality(Seen(w)')
  BY DEF ReaderHolds, Active, Collected, Graded
<1>1. ReaderHolds /\ reader \in Usage!Figures
  BY UsageTypes DEF UsageInv
<1>2. reader.backend \in Nat /\ reader.frontend \in Nat /\ reader.active \in [1..Windows -> Nat]
  BY <1>1 DEF Usage!Figures
<1>3. Collected(reader, Cardinality(Usage!Countable'))
  BY <1>1, <1>2, CountsFinite DEF ReaderHolds, Collected
<1>4. ASSUME NEW w \in 1..Windows, w + 3 <= reader.step PROVE reader.active[w] <= Cardinality(Seen(w)')
  <2>1. reader.active[w] \in Nat /\ reader.active[w] <= Cardinality(Seen(w)) /\ Cardinality(Seen(w)) \in Nat
    BY <1>1, <1>2, <1>4, CountsFinite DEF ReaderHolds, Active
  <2> QED BY <2>1
<1> QED BY <1>1, <1>3, <1>4 DEF ReaderHolds

\* A step of a report: it changes no row, or it counts in one.
LEMMA ReportGoes ==
    ASSUME UsageInv, NEW t \in Tasks, UNCHANGED <<removed, deletes, quiet, swept, reader, cached>>,
           asked' \in 0..MaxReports,
           pc' \in [Tasks -> {"idle", "update", "insert", "invalidate", "refused"}],
           mem' \in [Tasks -> UsageRequest \cup {None}],
           \A u \in Tasks : u # t => pc'[u] = pc[u] /\ mem'[u] = mem[u],
           Reports(t)',
           \/ row' = row /\ credited' = credited
           \/ \E u \in Users, r \in Usage!Row :
                 /\ row' = [row EXCEPT ![u] = r] /\ credited' = credited + 1
                 /\ r.seen = 1 /\ (r.versions.backend \/ r.versions.frontend)
                 /\ r.count = 1 + (IF row[u] = None THEN 0 ELSE row[u].count)
    PROVE  UsageInv'
<1>1. /\ row \in UsageRows /\ removed \in Nat /\ credited \in Nat /\ swept \in Nat /\ swept <= credited
      /\ Credit(row) \in Nat /\ Credit(row) + removed = credited
  BY UsageTypes, CreditTyped, CreditIs DEF UsageInv
<1>2. /\ row' \in UsageRows /\ credited' \in Nat /\ credited <= credited' /\ Credit(row') + removed = credited'
      /\ (\A v \in Users : row[v] # None => row'[v] # None) /\ ReaderHolds'
  <2>1. CASE row' = row /\ credited' = credited
    <3>1. ReaderHolds'
      BY <2>1 DEF UsageInv, ReaderHolds, Active, Collected, Graded, Seen, Usage!Countable
    <3> QED BY <1>1, <2>1, <3>1
  <2>2. CASE \E u \in Users, r \in Usage!Row :
                 /\ row' = [row EXCEPT ![u] = r] /\ credited' = credited + 1
                 /\ r.seen = 1 /\ (r.versions.backend \/ r.versions.frontend)
                 /\ r.count = 1 + (IF row[u] = None THEN 0 ELSE row[u].count)
    <3>1. PICK u \in Users, r \in Usage!Row :
                 /\ row' = [row EXCEPT ![u] = r] /\ credited' = credited + 1
                 /\ r.seen = 1 /\ (r.versions.backend \/ r.versions.frontend)
                 /\ r.count = 1 + (IF row[u] = None THEN 0 ELSE row[u].count)
      BY <2>2
    <3>2. r # None /\ r.count \in Nat
      BY AbsentAssumption DEF Usage!Row
    <3> DEFINE old == IF row[u] = None THEN 0 ELSE row[u].count
    <3>3. old \in Nat
      BY <1>1 DEF UsageRows, Usage!Row
    <3>4. row' \in UsageRows /\ Credit(row') - r.count = Credit(row) - old
      <4>1. row \in UsageRows /\ r \in Usage!Row \cup {None} /\ row' = [row EXCEPT ![u] = r]
        BY <1>1, <3>1
      <4>2. row' \in UsageRows /\ Credit(row') - (IF r = None THEN 0 ELSE r.count) = Credit(row) - old
        <5>1. \A q : q = [row EXCEPT ![u] = r] => q \in UsageRows /\ Credit(q) - (IF r = None THEN 0 ELSE r.count) = Credit(row) - old
          BY ZenonT(90), <3>1, <4>1, CreditChanges
        <5> QED BY <4>1, <5>1
      <4> HIDE DEF old
      <4> QED BY <3>2, <4>2
    <3>5. r.count = 1 + old
      BY <3>1
    <3>6. Credit(row') \in Nat
      BY <3>4, CreditTyped
    <3>7. ReaderHolds'
      BY <1>1, <3>1, RowsGrow, ReaderStays
    <3> HIDE DEF old
    <3>8. Credit(row') + removed = credited'
      BY <1>1, <3>1, <3>2, <3>3, <3>4, <3>5, <3>6
    <3>9. \A v \in Users : row[v] # None => row'[v] # None
      BY <1>1, <3>1, <3>2 DEF UsageRows
    <3>10. credited' \in Nat /\ credited <= credited'
      BY <1>1, <3>1
    <3> QED BY <3>4, <3>7, <3>8, <3>9, <3>10
  <2> QED BY <2>1, <2>2
<1>3. Usage!ReportsCounted'
  <2>1. Usage!ReportsCounted' <=> Credit(row') + removed' = credited'
    <3>1. Usage!SumFunctionOnSet([u \in Users |-> row'[u].count], {u \in Users : row'[u] # None}) = Credit(row')
      BY SumDefined DEF Usage!SumFunctionOnSet, SumFunctionOnSet, FoldFunctionOnSet, MapThenFoldSet,
         Usage!FoldFunctionOnSet, Usage!MapThenFoldSet, Credit, Rows, RowCounts
    <3> QED BY <3>1 DEF Usage!ReportsCounted
  <2> QED BY <1>2, <2>1
<1>4. \A u \in Tasks : Reports(u)'
  <2> SUFFICES ASSUME NEW u \in Tasks, u # t PROVE Reports(u)'
    OBVIOUS
  <2>1. pc'[u] = pc[u] /\ mem'[u] = mem[u] /\ Reports(u)
    BY DEF UsageInv
  <2>2. mem[u] \in UsageRequest => mem[u].user \in Users
    BY DEF UsageRequest
  <2> QED BY <1>2, <2>1, <2>2 DEF Reports
<1>5. Usage!ClearedForGood' /\ Usage!FiguresFit' /\ swept' <= credited'
  BY <1>1, <1>2 DEF UsageInv, Usage!ClearedForGood, Usage!FiguresFit
<1> QED BY <1>1, <1>2, <1>3, <1>4, <1>5, UsageTypes, UsageParts

\* A report arrives.
LEMMA UsageReported ==
    ASSUME UsageInv, NEW t \in Tasks, NEW u \in Users, NEW v \in Usage!Versions, Usage!ReportUsage(t, u, v)
    PROVE  UsageInv'
<1> DEFINE m == [user |-> u, versions |-> v, retried |-> FALSE]
<1>1. /\ asked < MaxReports /\ asked' = asked + 1 /\ (v.backend \/ v.frontend)
      /\ mem' = [mem EXCEPT ![t] = m] /\ pc' = [pc EXCEPT ![t] = "update"]
      /\ UNCHANGED <<row, credited, removed, deletes, quiet, swept, reader, cached>>
  BY DEF Usage!ReportUsage, Usage!Goto, Usage!figures
<1>2. m \in UsageRequest /\ m.versions = v /\ ~m.retried
  BY DEF UsageRequest
<1> HIDE DEF m
<1>3. asked' \in 0..MaxReports
  BY <1>1, UsageTypes, Bounds
<1>4. /\ pc' \in [Tasks -> {"idle", "update", "insert", "invalidate", "refused"}]
      /\ mem' \in [Tasks -> UsageRequest \cup {None}] /\ pc'[t] = "update" /\ mem'[t] = m
      /\ \A w \in Tasks : w # t => pc'[w] = pc[w] /\ mem'[w] = mem[w]
  BY <1>1, <1>2, UsageTypes
<1>5. Reports(t)'
  BY <1>1, <1>2, <1>4 DEF Reports
<1> QED BY <1>1, <1>3, <1>4, <1>5, ReportGoes

\* A report that finds its row, and one that does not.
LEMMA UsageUpdates == ASSUME UsageInv, NEW t \in Tasks, Usage!Update(t) PROVE UsageInv'
<1> DEFINE m == mem[t]
<1>1. pc[t] = "update" /\ UNCHANGED <<asked, removed, deletes, mem, quiet, swept, reader, cached>>
  BY DEF Usage!Update, Usage!figures
<1>2. Reports(t) /\ m \in UsageRequest /\ m.user \in Users /\ m.versions \in Usage!Versions
      /\ (m.versions.backend \/ m.versions.frontend)
  BY <1>1 DEF UsageInv, Reports, UsageRequest
<1>3. asked' \in 0..MaxReports /\ mem' \in [Tasks -> UsageRequest \cup {None}]
  BY <1>1, UsageTypes
<1>4. CASE row[m.user] # None
  <2> DEFINE n == row[m.user].count + 1
             r == [versions |-> m.versions, seen |-> 1, count |-> n]
  <2>1. row' = [row EXCEPT ![m.user] = r] /\ credited' = credited + 1 /\ pc' = [pc EXCEPT ![t] = "invalidate"]
    BY <1>4 DEF Usage!Update, Usage!Goto
  <2>2. row[m.user].count \in Nat /\ n \in Nat /\ n = 1 + row[m.user].count
    BY <1>2, <1>4, UsageTypes DEF UsageRows, Usage!Row
  <2> HIDE DEF n
  <2>3. r \in Usage!Row /\ r.count = n /\ r.seen = 1 /\ r.versions = m.versions
    BY <1>2, <2>2 DEF Usage!Row, Windows
  <2> HIDE DEF r
  <2>4. \E u \in Users, q \in Usage!Row :
            /\ row' = [row EXCEPT ![u] = q] /\ credited' = credited + 1
            /\ q.seen = 1 /\ (q.versions.backend \/ q.versions.frontend)
            /\ q.count = 1 + (IF row[u] = None THEN 0 ELSE row[u].count)
    BY <1>2, <1>4, <2>1, <2>2, <2>3
  <2>5. /\ pc' \in [Tasks -> {"idle", "update", "insert", "invalidate", "refused"}] /\ pc'[t] = "invalidate"
        /\ \A u \in Tasks : u # t => pc'[u] = pc[u] /\ mem'[u] = mem[u]
    BY <1>1, <2>1, UsageTypes
  <2>6. Reports(t)'
    BY <1>1, <1>2, <2>5 DEF Reports
  <2> QED BY <1>1, <1>3, <2>4, <2>5, <2>6, ReportGoes
<1>5. CASE row[m.user] = None
  <2>1. row' = row /\ credited' = credited /\ pc' = [pc EXCEPT ![t] = "insert"]
    BY <1>5 DEF Usage!Update, Usage!Goto
  <2>2. /\ pc' \in [Tasks -> {"idle", "update", "insert", "invalidate", "refused"}] /\ pc'[t] = "insert"
        /\ \A u \in Tasks : u # t => pc'[u] = pc[u] /\ mem'[u] = mem[u]
    BY <1>1, <2>1, UsageTypes
  <2>3. Reports(t)'
    BY <1>1, <1>2, <1>5, <2>2 DEF Reports
  <2> QED BY <1>1, <1>3, <2>1, <2>2, <2>3, ReportGoes
<1> QED BY <1>4, <1>5

\* The insert, and the one that another report has forestalled.
LEMMA UsageInserts == ASSUME UsageInv, NEW t \in Tasks, Usage!Insert(t) PROVE UsageInv'
<1> DEFINE m == mem[t]
<1>1. pc[t] = "insert" /\ UNCHANGED <<asked, removed, deletes, quiet, swept, reader, cached>>
  BY DEF Usage!Insert, Usage!figures
<1>2. Reports(t) /\ m \in UsageRequest /\ m.user \in Users /\ m.versions \in Usage!Versions /\ m.retried \in BOOLEAN
      /\ (m.versions.backend \/ m.versions.frontend)
  BY <1>1 DEF UsageInv, Reports, UsageRequest
<1>3. asked' \in 0..MaxReports
  BY <1>1, UsageTypes
<1>4. CASE row[m.user] = None
  <2> DEFINE r == [versions |-> m.versions, seen |-> 1, count |-> 1]
  <2>1. row' = [row EXCEPT ![m.user] = r] /\ credited' = credited + 1 /\ pc' = [pc EXCEPT ![t] = "invalidate"] /\ mem' = mem
    BY <1>4 DEF Usage!Insert, Usage!Insertable, Usage!Goto
  <2>2. r \in Usage!Row /\ r.count = 1 /\ r.seen = 1 /\ r.versions = m.versions
    BY <1>2 DEF Usage!Row, Windows
  <2> HIDE DEF r
  <2>3. \E u \in Users, q \in Usage!Row :
            /\ row' = [row EXCEPT ![u] = q] /\ credited' = credited + 1
            /\ q.seen = 1 /\ (q.versions.backend \/ q.versions.frontend)
            /\ q.count = 1 + (IF row[u] = None THEN 0 ELSE row[u].count)
    <3>1. r.count = 1 + (IF row[m.user] = None THEN 0 ELSE row[m.user].count)
      BY <1>4, <2>2
    <3> HIDE DEF m
    <3> QED BY <1>2, <2>1, <2>2, <3>1
  <2>4. /\ pc' \in [Tasks -> {"idle", "update", "insert", "invalidate", "refused"}] /\ pc'[t] = "invalidate"
        /\ mem' \in [Tasks -> UsageRequest \cup {None}] /\ \A u \in Tasks : u # t => pc'[u] = pc[u] /\ mem'[u] = mem[u]
    BY <2>1, UsageTypes
  <2>5. Reports(t)'
    BY <1>2, <2>1, <2>4 DEF Reports
  <2> QED BY <1>1, <1>3, <2>3, <2>4, <2>5, ReportGoes
<1>5. CASE row[m.user] # None
  <2>1. /\ row' = row /\ credited' = credited /\ mem' = [mem EXCEPT ![t].retried = TRUE]
        /\ pc' = [pc EXCEPT ![t] = IF m.retried THEN "refused" ELSE "update"]
    BY <1>5 DEF Usage!Insert, Usage!Insertable, Usage!Conflict, Usage!Goto
  <2>2. PICK e : e = [m EXCEPT !.retried = TRUE]
    OBVIOUS
  <2>3. e \in UsageRequest /\ e.user = m.user /\ e.versions = m.versions
    BY <1>2, <2>2 DEF UsageRequest
  <2>4. mem' = [mem EXCEPT ![t] = e]
    BY <2>1, <2>2, UsageTypes
  <2>5. /\ mem' \in [Tasks -> UsageRequest \cup {None}] /\ mem'[t] = e
        /\ pc' \in [Tasks -> {"idle", "update", "insert", "invalidate", "refused"}]
        /\ pc'[t] = (IF m.retried THEN "refused" ELSE "update")
        /\ \A u \in Tasks : u # t => pc'[u] = pc[u] /\ mem'[u] = mem[u]
    BY <2>1, <2>3, <2>4, UsageTypes
  <2>6. m.retried => deletes > 0
    BY <1>1, <1>2 DEF Reports
  <2>7. Reports(t)'
    BY <1>1, <1>2, <1>5, <2>1, <2>3, <2>5, <2>6 DEF Reports
  <2> QED BY <1>1, <1>3, <2>1, <2>5, <2>7, ReportGoes
<1> QED BY <1>4, <1>5

\* Figures that are marked late, and those that a clear leaves.
LEMMA LateTyped ==
    ASSUME NEW f \in Usage!Figures \cup {None}
    PROVE  Usage!Late(f) \in Usage!Figures \cup {None} /\ (Usage!Late(f) # None => Usage!Late(f).late)
<1>1. CASE f = None
  BY <1>1 DEF Usage!Late
<1>2. CASE f # None
  <2>1. Usage!Late(f) = [f EXCEPT !.late = TRUE]
    BY <1>2 DEF Usage!Late
  <2> QED BY <1>2, <2>1 DEF Usage!Figures
<1> QED BY <1>1, <1>2

\* A step that leaves the rows and their counts alone.
LEMMA RowsStay ==
    ASSUME UsageInv, UNCHANGED <<row, asked, credited, removed, deletes>>, swept' \in Nat, quiet' \in BOOLEAN,
           pc' \in [Tasks -> {"idle", "update", "insert", "invalidate", "refused"}],
           mem' \in [Tasks -> UsageRequest \cup {None}],
           \A t \in Tasks : pc'[t] = "idle" \/ (pc'[t] = pc[t] /\ mem'[t] = mem[t]),
           reader' \in Usage!Figures \cup {None}, cached' \in Usage!Figures \cup {None}, swept' <= credited',
           ReaderHolds', Usage!ClearedForGood', Usage!FiguresFit'
    PROVE  UsageInv'
<1>1. \A t \in Tasks : Reports(t)'
  BY DEF UsageInv, Reports
<1>2. Usage!ReportsCounted'
  BY DEF UsageInv, Usage!ReportsCounted
<1> QED BY <1>1, <1>2, UsageTypes, UsageParts

\* A process that is not quiet clears its figures.
LEMMA UsageInvalidates == ASSUME UsageInv, NEW t \in Tasks, Usage!InvalidateStatisticsCache(t) PROVE UsageInv'
<1>1. /\ pc' = [pc EXCEPT ![t] = "idle"] /\ mem' = [mem EXCEPT ![t] = None]
      /\ UNCHANGED <<row, asked, credited, removed, deletes>>
      /\ \/ UNCHANGED <<quiet, swept, reader, cached>>
         \/ quiet' = TRUE /\ Usage!Clear
  BY DEF Usage!InvalidateStatisticsCache, Usage!Goto, Usage!counts, Usage!figures
<1>2. /\ pc' \in [Tasks -> {"idle", "update", "insert", "invalidate", "refused"}]
      /\ mem' \in [Tasks -> UsageRequest \cup {None}]
      /\ \A u \in Tasks : pc'[u] = "idle" \/ (pc'[u] = pc[u] /\ mem'[u] = mem[u])
  BY <1>1, UsageTypes
<1>3. CASE UNCHANGED <<quiet, swept, reader, cached>>
  <2>1. ReaderHolds' /\ Usage!ClearedForGood' /\ Usage!FiguresFit'
    BY <1>1, <1>3 DEF UsageInv, ReaderHolds, Active, Collected, Graded, Seen, Usage!Countable,
       Usage!ClearedForGood, Usage!FiguresFit
  <2>2. swept' <= credited'
    BY <1>1, <1>3 DEF UsageInv
  <2> QED BY <1>1, <1>2, <1>3, <2>1, <2>2, UsageTypes, RowsStay
<1>4. CASE quiet' = TRUE /\ Usage!Clear
  <2>1. cached' = None /\ swept' = credited /\ reader' = Usage!Late(reader) /\ quiet' \in BOOLEAN
    BY <1>4 DEF Usage!Clear
  <2>2. reader' \in Usage!Figures \cup {None} /\ ReaderHolds'
    BY <2>1, UsageTypes, LateTyped DEF ReaderHolds
  <2>3. Usage!ClearedForGood' /\ Usage!FiguresFit'
    BY <2>1 DEF Usage!ClearedForGood, Usage!FiguresFit
  <2>4. swept' \in Nat /\ swept' <= credited'
    BY <1>1, <2>1, UsageTypes
  <2> QED BY <1>1, <1>2, <2>1, <2>2, <2>3, <2>4, RowsStay
<1> QED BY <1>1, <1>3, <1>4

\* The administrator deletes a row: what was collected is no longer comparable.
LEMMA UsageDeletes == ASSUME UsageInv, NEW u \in Users, Usage!Delete(u) PROVE UsageInv'
<1>1. /\ row[u] # None /\ deletes < MaxDeletes /\ deletes' = deletes + 1 /\ removed' = removed + row[u].count
      /\ row' = [row EXCEPT ![u] = None] /\ reader' = Usage!Late(reader) /\ cached' = Usage!Late(cached)
      /\ UNCHANGED <<asked, credited, pc, mem, quiet, swept>>
  BY DEF Usage!Delete
<1>2. /\ row \in UsageRows /\ removed \in Nat /\ credited \in Nat /\ swept \in Nat /\ swept <= credited
      /\ Credit(row) \in Nat /\ Credit(row) + removed = credited /\ deletes \in Nat
  BY UsageTypes, CreditTyped, CreditIs DEF UsageInv
<1> DEFINE n == row[u].count
<1>3. n \in Nat
  BY <1>1, <1>2 DEF UsageRows, Usage!Row
<1>4. row' \in UsageRows /\ Credit(row') = Credit(row) - n
  <2>1. \A q : q = [row EXCEPT ![u] = None] => q \in UsageRows /\ Credit(q) - 0 = Credit(row) - n
    BY <1>1, <1>2, CreditChanges
  <2>2. row' \in UsageRows /\ Credit(row') - 0 = Credit(row) - n
    BY <1>1, <2>1
  <2>3. Credit(row') \in Nat
    BY <2>2, CreditTyped
  <2> HIDE DEF n
  <2> QED BY <2>2, <2>3
<1>5. Credit(row') + removed' = credited' /\ removed' \in Nat
  <2>1. removed' = removed + n
    BY <1>1
  <2> HIDE DEF n
  <2> QED BY <1>1, <1>2, <1>3, <1>4, <2>1
<1>6. Usage!ReportsCounted'
  <2>1. Usage!SumFunctionOnSet([v \in Users |-> row'[v].count], {v \in Users : row'[v] # None}) = Credit(row')
    BY SumDefined DEF Usage!SumFunctionOnSet, SumFunctionOnSet, FoldFunctionOnSet, MapThenFoldSet,
       Usage!FoldFunctionOnSet, Usage!MapThenFoldSet, Credit, Rows, RowCounts
  <2> QED BY <1>5, <2>1 DEF Usage!ReportsCounted
<1>7. deletes' \in 0..MaxDeletes /\ deletes' > 0
  BY <1>1, <1>2, Bounds
<1>8. \A t \in Tasks : Reports(t)'
  BY <1>1, <1>7 DEF UsageInv, Reports
<1>9. /\ reader' \in Usage!Figures \cup {None} /\ cached' \in Usage!Figures \cup {None}
      /\ ReaderHolds' /\ Usage!ClearedForGood' /\ Usage!FiguresFit'
  BY <1>1, UsageTypes, LateTyped DEF ReaderHolds, Usage!ClearedForGood, Usage!FiguresFit
<1>10. swept' <= credited'
  BY <1>1, <1>2
<1> QED BY <1>1, <1>4, <1>5, <1>6, <1>7, <1>8, <1>9, <1>10, UsageTypes, UsageParts

\* The interval since the last clear is over, or the entry expires.
LEMMA UsageExpires == ASSUME UsageInv, Usage!IntervalOver \/ Usage!Expire PROVE UsageInv'
<1>1. /\ UNCHANGED <<row, asked, credited, removed, deletes, pc, mem, swept, reader>> /\ quiet' \in BOOLEAN
      /\ cached' = None \/ cached' = cached
  BY UsageTypes DEF Usage!IntervalOver, Usage!Expire, Usage!counts
<1>2. ReaderHolds' /\ Usage!ClearedForGood' /\ Usage!FiguresFit'
  BY <1>1 DEF UsageInv, ReaderHolds, Active, Collected, Graded, Seen, Usage!Countable,
     Usage!ClearedForGood, Usage!FiguresFit
<1>3. swept' <= credited' /\ cached' \in Usage!Figures \cup {None}
  BY <1>1, UsageTypes DEF UsageInv
<1> QED BY <1>1, <1>2, <1>3, UsageTypes, RowsStay

\* A collection begins.
LEMMA UsageBegins == ASSUME UsageInv, Usage!Begin PROVE UsageInv'
<1> DEFINE f == [backend |-> Usage!WithBackend, frontend |-> 0, total |-> 0,
                 active |-> [w \in 1..Windows |-> 0], step |-> 1, at |-> credited, late |-> FALSE]
<1>1. reader' = f /\ UNCHANGED <<row, asked, credited, removed, deletes, pc, mem, quiet, swept, cached>>
  BY DEF Usage!Begin, Usage!counts
<1>2. f \in Usage!Figures /\ f.backend = Usage!WithBackend /\ f.step = 1 /\ f.at = credited
  BY UsageTypes, QueriesCount DEF Usage!Figures, Windows
<1> HIDE DEF f
<1>3. ReaderHolds'
  <2>1. Usage!Countable' = Usage!Countable
    BY <1>1 DEF Usage!Countable
  <2>2. Collected(f, Cardinality(Usage!Countable)) /\ Graded(f)
    BY <1>2, QueriesCount DEF Collected, Graded
  <2>3. \A w \in 1..Windows : ~(w + 3 <= f.step)
    BY <1>2
  <2>4. swept' <= f.at
    BY <1>1, <1>2 DEF UsageInv
  <2> QED BY <1>1, <2>1, <2>2, <2>3, <2>4 DEF ReaderHolds, Active, Collected, Graded
<1>4. Usage!ClearedForGood' /\ Usage!FiguresFit' /\ swept' <= credited'
  BY <1>1 DEF UsageInv, Usage!ClearedForGood, Usage!FiguresFit
<1> QED BY <1>1, <1>2, <1>3, <1>4, UsageTypes, RowsStay

\* One query more, after whatever has been committed since the last.
LEMMA UsageCollects == ASSUME UsageInv, Usage!Collect PROVE UsageInv'
<1> DEFINE s == reader.step
           c == Cardinality(Usage!Countable)
<1>1. /\ reader # None /\ s < Windows + 3
      /\ UNCHANGED <<row, asked, credited, removed, deletes, pc, mem, quiet, swept, cached>>
  BY DEF Usage!Collect, Usage!counts, Usage!Queried
<1>2. reader \in Usage!Figures /\ s \in 1..(Windows + 3) /\ s + 1 \in 1..(Windows + 3) /\ s + 1 \in Nat
  BY <1>1, UsageTypes DEF Usage!Figures, Windows
<1>3. /\ c \in Nat /\ Usage!WithFrontend \in Nat /\ Usage!WithFrontend <= c /\ Usage!Cardinality(Usage!Countable) = c
      /\ \A w : Usage!ActiveSince(w) = Cardinality(Seen(w)) /\ Cardinality(Seen(w)) \in Nat
  BY CountsFinite, QueriesCount
<1>4. Usage!Countable' = Usage!Countable /\ \A w \in 1..Windows : Seen(w)' = Seen(w)
  BY <1>1 DEF Usage!Countable, Seen
<1>5. ~reader.late => swept <= reader.at /\ Collected(reader, c) /\ Graded(reader) /\ Active(reader)
  BY <1>1 DEF UsageInv, ReaderHolds
<1> HIDE DEF c
<1>6. ASSUME NEW f \in Usage!Figures, reader' = f, f.at = reader.at, f.late = reader.late,
             ~reader.late => Collected(f, c) /\ Graded(f) /\ Active(f)
      PROVE  UsageInv'
  <2>1. ReaderHolds'
    <3>1. Active(f)' <=> Active(f)
      BY <1>4 DEF Active
    <3>2. ~f.late => swept' <= f.at /\ Collected(f, c) /\ Graded(f) /\ Active(f)
      BY <1>1, <1>5, <1>6
    <3>3. c = Cardinality(Usage!Countable')
      BY <1>4 DEF c
    <3> QED BY <1>6, <3>1, <3>2, <3>3 DEF ReaderHolds, Collected, Graded, Active
  <2>2. Usage!ClearedForGood' /\ Usage!FiguresFit' /\ swept' <= credited'
    BY <1>1 DEF UsageInv, Usage!ClearedForGood, Usage!FiguresFit
  <2> QED BY <1>1, <1>6, <2>1, <2>2, UsageTypes, RowsStay
<1>7. PICK b : b = [reader EXCEPT !.step = s + 1]
  OBVIOUS
<1>8. /\ b \in Usage!Figures /\ b.step = s + 1 /\ b.at = reader.at /\ b.late = reader.late
      /\ b.backend = reader.backend /\ b.frontend = reader.frontend /\ b.total = reader.total /\ b.active = reader.active
  BY <1>2, <1>7 DEF Usage!Figures
<1>9. /\ b.backend \in Nat /\ b.frontend \in Nat /\ b.total \in Nat /\ b.active \in [1..Windows -> Nat]
  BY <1>8 DEF Usage!Figures
<1> HIDE DEF s
<1>10. CASE s = 1
  <2> DEFINE n == Usage!WithFrontend
  <2>1. reader' = [b EXCEPT !.frontend = n]
    BY <1>7, <1>10 DEF Usage!Collect, s
  <2>2. n \in Nat /\ n <= c
    BY <1>3
  <2> HIDE DEF n
  <2>3. PICK f : f = [b EXCEPT !.frontend = n]
    OBVIOUS
  <2>4. /\ f \in Usage!Figures /\ f.step = 2 /\ f.at = b.at /\ f.late = b.late /\ f.backend = b.backend
        /\ f.frontend = n /\ f.active = b.active
    BY <1>8, <1>10, <2>2, <2>3 DEF Usage!Figures
  <2>5. ~reader.late => Collected(f, c)
    BY <1>5, <1>8, <1>10, <2>2, <2>4 DEF Collected, s
  <2>6. Graded(f) /\ Active(f)
    BY <2>4 DEF Graded, Active, Windows
  <2> QED BY <1>6, <1>8, <2>1, <2>3, <2>4, <2>5, <2>6
<1>11. CASE s = 2
  <2>1. reader' = [b EXCEPT !.total = c]
    BY <1>3, <1>7, <1>11 DEF Usage!Collect, s
  <2>2. PICK f : f = [b EXCEPT !.total = c]
    OBVIOUS
  <2>3. /\ f \in Usage!Figures /\ f.step = 3 /\ f.at = b.at /\ f.late = b.late /\ f.backend = b.backend
        /\ f.frontend = b.frontend /\ f.total = c /\ f.active = b.active
    BY <1>3, <1>8, <1>11, <2>2 DEF Usage!Figures
  <2>4. ~reader.late => Collected(f, c)
    BY <1>5, <1>8, <1>11, <2>3 DEF Collected, s
  <2>5. Graded(f) /\ Active(f)
    BY <2>3 DEF Graded, Active, Windows
  <2> QED BY <1>6, <1>8, <2>1, <2>2, <2>3, <2>4, <2>5
<1>12. CASE s > 2
  <2> DEFINE w == s - 2
             n == Cardinality(Seen(w))
  <2>1. reader' = [b EXCEPT !.active[w] = n]
    <3>1. s # 1 /\ s # 2
      BY <1>2, <1>12
    <3>2. reader' = [[reader EXCEPT !.step = s + 1] EXCEPT !.active[w] = Usage!ActiveSince(w)]
      BY <3>1 DEF Usage!Collect, Usage!WindowAt, s
    <3>3. Usage!ActiveSince(w) = n
      BY <1>3
    <3> HIDE DEF w, n
    <3> QED BY <1>7, <3>2, <3>3
  <2>2. n \in Nat /\ w \in 1..Windows /\ s = w + 2
    <3>1. w \in 1..Windows /\ s = w + 2
      BY <1>1, <1>2, <1>12 DEF Windows
    <3> HIDE DEF w
    <3>2. n \in Nat
      BY <1>3
    <3> QED BY <3>1, <3>2
  <2> HIDE DEF n, w
  <2>3. PICK a : a = [b.active EXCEPT ![w] = n]
    OBVIOUS
  <2>4. a \in [1..Windows -> Nat] /\ a[w] = n /\ \A v \in 1..Windows : v # w => a[v] = b.active[v]
    BY <1>9, <2>2, <2>3
  <2>5. reader' = [b EXCEPT !.active = a]
    BY <1>8, <2>1, <2>3 DEF Usage!Figures
  <2>6. PICK f : f = [b EXCEPT !.active = a]
    OBVIOUS
  <2>7. /\ f \in Usage!Figures /\ f.step = s + 1 /\ f.at = b.at /\ f.late = b.late /\ f.backend = b.backend
        /\ f.frontend = b.frontend /\ f.total = b.total /\ f.active = a
    BY <1>8, <2>4, <2>6 DEF Usage!Figures
  <2>8. ~reader.late => Collected(f, c)
    BY <1>2, <1>5, <1>8, <1>12, <2>7 DEF Collected, s
  <2>9. ~reader.late => Active(f)
    <3> SUFFICES ASSUME ~reader.late, NEW v \in 1..Windows, v + 3 <= f.step PROVE f.active[v] <= Cardinality(Seen(v))
      BY DEF Active
    <3>1. CASE v = w
      BY <2>2, <2>4, <2>7, <3>1 DEF n
    <3>2. CASE v # w
      <4>1. v + 3 <= s
        BY <2>2, <2>7, <3>2
      <4>2. reader.active[v] <= Cardinality(Seen(v))
        BY <1>5, <4>1 DEF Active, s
      <4> QED BY <1>8, <2>4, <2>7, <3>2, <4>2
    <3> QED BY <3>1, <3>2
  <2>10. ~reader.late => Graded(f)
    <3> SUFFICES ASSUME ~reader.late, NEW v \in 1..(Windows - 1), v + 4 <= f.step PROVE f.active[v] <= f.active[v + 1]
      BY DEF Graded
    <3>1. v \in 1..Windows /\ v + 1 \in 1..Windows /\ v # v + 1
      BY DEF Windows
    <3>2. CASE v + 1 = w
      <4>1. f.active[v] = reader.active[v] /\ f.active[v + 1] = n /\ reader.active[v] \in Nat
        BY <1>8, <1>9, <2>4, <2>7, <3>1, <3>2
      <4>2. reader.active[v] <= Cardinality(Seen(v))
        <5>1. v + 3 <= s
          BY <2>2, <3>2
        <5> QED BY <1>5, <3>1, <5>1 DEF Active, s
      <4>3. Cardinality(Seen(v)) <= n /\ Cardinality(Seen(v)) \in Nat
        <5>1. Seen(v) \subseteq Seen(w)
          <6>1. \A u \in Usage!Countable : row[u].seen \in Nat
            BY UsageTypes DEF UsageRows, Usage!Countable, Usage!Row, Windows
          <6>2. v \in Nat /\ w \in Nat /\ v <= w
            BY <2>2, <3>2
          <6> QED BY <6>1, <6>2 DEF Seen
        <5> QED BY <5>1, CountsFinite, FS_Subset DEF n
      <4> QED BY <2>2, <4>1, <4>2, <4>3
    <3>3. CASE v + 1 # w
      <4>1. v + 4 <= s /\ v # w
        BY <2>2, <2>7, <3>1, <3>3
      <4>2. reader.active[v] <= reader.active[v + 1]
        BY <1>5, <4>1 DEF Graded, s
      <4> QED BY <1>8, <2>4, <2>7, <3>1, <3>3, <4>1, <4>2
    <3> QED BY <3>2, <3>3
  <2> QED BY <1>6, <1>8, <2>5, <2>6, <2>7, <2>8, <2>9, <2>10
<1>13. s = 1 \/ s = 2 \/ s > 2
  BY <1>2
<1> QED BY <1>10, <1>11, <1>12, <1>13

\* The figures are complete and are served from now on.
LEMMA UsageStores == ASSUME UsageInv, Usage!StoreFigures PROVE UsageInv'
<1>1. /\ reader # None /\ reader.step = Windows + 3 /\ cached' = reader /\ reader' = None
      /\ UNCHANGED <<row, asked, credited, removed, deletes, pc, mem, quiet, swept>>
  BY DEF Usage!StoreFigures, Usage!counts, Usage!Queried
<1>2. ReaderHolds'
  BY <1>1 DEF ReaderHolds
<1>3. Usage!ClearedForGood'
  <2>1. reader \in Usage!Figures => reader.at \in Nat
    BY DEF Usage!Figures
  <2> QED BY <1>1, <2>1, UsageTypes DEF UsageInv, ReaderHolds, Usage!ClearedForGood
<1>4. Usage!FiguresFit'
  <2> SUFFICES ASSUME ~reader.late
               PROVE  /\ reader.backend <= reader.total /\ reader.frontend <= reader.total
                      /\ \A w \in 1..(Windows - 1) : reader.active[w] <= reader.active[w + 1]
    BY <1>1 DEF Usage!FiguresFit
  <2>1. Collected(reader, Cardinality(Usage!Countable)) /\ Graded(reader) /\ reader.step = 6
    BY <1>1 DEF UsageInv, ReaderHolds, Windows
  <2>2. reader.backend <= reader.total /\ reader.frontend <= reader.total
    BY <2>1 DEF Collected
  <2>3. \A w \in 1..(Windows - 1) : reader.active[w] <= reader.active[w + 1]
    BY <2>1 DEF Graded, Windows
  <2> QED BY <2>2, <2>3
<1>5. swept' <= credited'
  BY <1>1 DEF UsageInv
<1> QED BY <1>1, <1>2, <1>3, <1>4, <1>5, UsageTypes, RowsStay

\* Every step, and a step that is about something else.
LEMMA UsageStep == UsageInv /\ Usage!Next => UsageInv'
BY UsageReported, UsageUpdates, UsageInserts, UsageInvalidates, UsageDeletes, UsageExpires,
   UsageBegins, UsageCollects, UsageStores DEF Usage!Next

\* A step of another component changes nothing here.
LEMMA UsageStutter ==
    UsageInv /\ UNCHANGED <<row, asked, credited, removed, deletes, pc, mem, quiet, swept, reader, cached>> => UsageInv'
<1> SUFFICES ASSUME UsageInv,
                    UNCHANGED <<row, asked, credited, removed, deletes, pc, mem, quiet, swept, reader, cached>>
             PROVE  UsageInv'
  OBVIOUS
<1>1. ReaderHolds' /\ Usage!ClearedForGood' /\ Usage!FiguresFit' /\ swept' <= credited'
  BY DEF UsageInv, ReaderHolds, Active, Collected, Graded, Seen, Usage!Countable,
     Usage!ClearedForGood, Usage!FiguresFit
<1> QED BY <1>1, UsageTypes, RowsStay

\* report_usage, get_statistics and the administrator's deletion: every report is
\* counted in one row, one retry is enough, what is served is as new as the last
\* clear, and figures from six queries fit together.
THEOREM UsageHolds == Spec => []UsageCorrect
<1> DEFINE Inv == part = "usage" => UsageInv
<1>1. Init => Inv
  BY UsageInit DEF Init
<1>2. Inv /\ [Next]_vars => Inv'
  <2> SUFFICES ASSUME Inv, [Next]_vars PROVE Inv'
    OBVIOUS
  <2>1. CASE UNCHANGED vars
    BY <2>1, UsageStutter DEF vars
  <2>2. CASE Next
    BY <2>2, UsageStep DEF Next
  <2> QED BY <2>1, <2>2
<1>3. Inv => UsageCorrect
  <2> SUFFICES ASSUME UsageInv
               PROVE  /\ Usage!TypeOK /\ Usage!ReportsCounted /\ Usage!ReportRefused
                      /\ Usage!ClearedForGood /\ Usage!FiguresFit
    BY DEF UsageCorrect
  <2> QED BY DEF UsageInv, Reports, Usage!ReportRefused
<1> QED BY <1>1, <1>2, <1>3, PTL DEF Spec

-----------------------------------------------------------------------------
(* Subscriptions.  A request carries the counts it has read into its       *)
(* commit, over whatever others have committed since.  What it writes is    *)
(* nevertheless backed: some attribution of the committed subscriptions to  *)
(* the rows covers every row, and with what a request itself brings also    *)
(* every count it holds.  An attribution never shrinks, so an overtaken     *)
(* count stays covered, as long as only requests for the medium write to its *)
(* rows (PostgreSQL).  Without overlap the held counts are exact.           *)

RowIds == Subscribe!Ids
SubSteps == {"idle", "read", "commit", "refresh", "failed"}
Counts == [RowIds -> Int \cup {None}]
Brought(what) == IF what = "done" THEN 0 ELSE IF what = "add" THEN 1 ELSE 2
Busy == {t \in Tasks : pc[t] \in {"read", "commit"}}

Valid(step, m) ==
    /\ step \in {"read", "commit", "refresh"} => m \in Subscribe!Memory
    /\ step \in {"read", "commit"} => m.fresh + m.left <= 2
    /\ step \in {"read", "commit"} /\ m.kind = "done" => m.fresh = 0
    /\ step = "read" => m.left >= 1 /\ (m.kind = "done" => m.left = 1)
    /\ step = "commit" => m.left = 0
Session(t) == Valid(pc[t], mem[t])

SessionInv ==
    /\ Subscribe!TypeOK
    /\ Subscribe!PopularityPositive
    /\ born + 2 * Cardinality(Busy) <= 2 * asked
    /\ \A t \in Tasks : Session(t)

\* What the type invariant says, for the proofs.
LEMMA SubTypes ==
    SessionInv => /\ dialect \in {"sqlite", "postgresql"} /\ row \in Counts /\ born \in Nat /\ born <= 2 * MaxRequests /\ added \in Nat
                  /\ asked \in Nat /\ asked <= MaxRequests /\ tally \in Int /\ raced \in BOOLEAN
                  /\ pc \in [Tasks -> SubSteps] /\ mem \in [Tasks -> Subscribe!Memory \cup {None}]
BY Bounds DEF SessionInv, Subscribe!TypeOK, Counts, RowIds, SubSteps

\* There are only so many rows.
LEMMA RowsFinite == IsFiniteSet(RowIds) /\ RowIds \subseteq Nat /\ \A i \in Nat : 0 < i /\ i <= 2 * MaxRequests => i \in RowIds
<1>1. 2 * MaxRequests \in Nat
  BY Bounds
<1>2. IsFiniteSet(1 .. (2 * MaxRequests))
  BY <1>1, FS_Interval
<1> QED BY <1>1, <1>2 DEF RowIds, Subscribe!Ids

\* How many requests are before their commit after a step of one of them.
LEMMA BusyCount ==
    ASSUME NEW t \in Tasks, \A u \in Tasks : u # t => pc'[u] = pc[u]
    PROVE  /\ Cardinality(Busy) \in Nat /\ Cardinality(Busy') \in Nat
           /\ t \in Busy => Cardinality(Busy) >= 1
           /\ t \in Busy /\ t \notin Busy' => Cardinality(Busy') = Cardinality(Busy) - 1
           /\ (t \in Busy <=> t \in Busy') => Cardinality(Busy') = Cardinality(Busy)
           /\ t \notin Busy /\ t \in Busy' => Cardinality(Busy') = Cardinality(Busy) + 1
<1>1. Busy \subseteq Tasks /\ Busy' \subseteq Tasks /\ \A u \in Tasks : u # t => (u \in Busy <=> u \in Busy')
  BY DEF Busy
<1>2. IsFiniteSet(Busy) /\ IsFiniteSet(Busy')
  BY <1>1, BoundsAssumption, FS_Subset
<1>3. Cardinality(Busy) \in Nat /\ Cardinality(Busy') \in Nat /\ (t \in Busy => Cardinality(Busy) # 0)
  BY <1>2, FS_CardinalityType, FS_EmptySet
<1>4. CASE t \in Busy /\ t \notin Busy'
  <2>1. Busy' = Busy \ {t}
    BY <1>1, <1>4
  <2> QED BY <1>2, <1>3, <1>4, <2>1, FS_RemoveElement
<1>5. CASE t \in Busy <=> t \in Busy'
  <2>1. Busy' = Busy
    BY <1>1, <1>5
  <2> QED BY <1>3, <1>5, <2>1
<1>6. CASE t \notin Busy /\ t \in Busy'
  <2>1. Busy' = Busy \cup {t}
    BY <1>1, <1>6
  <2> QED BY <1>2, <1>3, <1>6, <2>1, FS_AddElement
<1> QED BY <1>4, <1>5, <1>6

\* No request, no row.
LEMMA SessionInit == Subscribe!Init => SessionInv
<1> SUFFICES ASSUME Subscribe!Init PROVE SessionInv
  OBVIOUS
<1> USE DEF Subscribe!Init
<1>1. born \in 0..(2 * MaxRequests) /\ asked \in 0..MaxRequests
  BY Bounds
<1>2. row \in Counts /\ \A i \in RowIds : row[i] = None
  BY DEF Counts, RowIds, Subscribe!NoRows
<1>3. Subscribe!TypeOK
  <2>1. pc \in [Tasks -> SubSteps]
    BY DEF SubSteps
  <2>2. mem \in [Tasks -> Subscribe!Memory \cup {None}]
    OBVIOUS
  <2>3. added \in Nat /\ tally \in Int
    OBVIOUS
  <2>4. raced \in BOOLEAN
    BY Zenon
  <2> QED BY <1>1, <1>2, <2>1, <2>2, <2>3, <2>4 DEF Subscribe!TypeOK, Counts, RowIds, SubSteps
<1>4. Subscribe!PopularityPositive
  BY <1>2 DEF Subscribe!PopularityPositive, Subscribe!Present, RowIds
<1>5. born + 2 * Cardinality(Busy) <= 2 * asked
  <2>1. Busy = {}
    BY DEF Busy
  <2>2. Cardinality(Busy) = 0
    BY <2>1, FS_EmptySet
  <2> QED BY <2>2
<1> QED BY <1>3, <1>4, <1>5 DEF SessionInv, Session, Valid

\* What a request does when it is asked, and what it has then.
NewRequest(what, k) == [kind |-> what, left |-> k, loaded |-> Subscribe!NoRows, fresh |-> 0]

\* What a request is about when it arrives.
LEMMA SubAsks ==
    ASSUME SessionInv, NEW t \in Tasks, Subscribe!AddSubscribe(t) \/ Subscribe!BatchReport(t) \/ Subscribe!DoneSubscribe(t)
    PROVE  \E what \in {"add", "batch", "done"}, k \in {1, 2} :
              /\ k = IF what = "batch" THEN 2 ELSE 1
              /\ NewRequest(what, k) \in Subscribe!Memory
              /\ pc[t] = "idle" /\ asked < MaxRequests /\ asked' = asked + 1
              /\ raced' = (raced \/ Subscribe!Overlaps)
              /\ mem' = [mem EXCEPT ![t] = NewRequest(what, k)] /\ pc' = [pc EXCEPT ![t] = "read"]
              /\ UNCHANGED <<dialect, row, born, added, tally>>
<1>1. \A what \in {"add", "batch", "done"}, k \in {1, 2} : NewRequest(what, k) \in Subscribe!Memory
  BY DEF NewRequest, Subscribe!Memory, Subscribe!NoRows
<1>2. CASE Subscribe!AddSubscribe(t)
  <2> WITNESS "add" \in {"add", "batch", "done"}, 1 \in {1, 2}
  <2> QED BY <1>1, <1>2 DEF Subscribe!AddSubscribe, Subscribe!Ask, Subscribe!Goto, NewRequest
<1>3. CASE Subscribe!BatchReport(t)
  <2> WITNESS "batch" \in {"add", "batch", "done"}, 2 \in {1, 2}
  <2> QED BY <1>1, <1>3 DEF Subscribe!BatchReport, Subscribe!Ask, Subscribe!Goto, NewRequest
<1>4. CASE Subscribe!DoneSubscribe(t)
  <2> WITNESS "done" \in {"add", "batch", "done"}, 1 \in {1, 2}
  <2> QED BY <1>1, <1>4 DEF Subscribe!DoneSubscribe, Subscribe!Ask, Subscribe!Goto, NewRequest
<1> QED BY <1>2, <1>3, <1>4


\* A step of one request that leaves it a valid session leaves all of them.
LEMMA SessionGoes ==
    ASSUME SessionInv, NEW t \in Tasks, NEW s \in SubSteps, NEW m \in Subscribe!Memory \cup {None}, Valid(s, m),
           pc' = [pc EXCEPT ![t] = s], mem' = [mem EXCEPT ![t] = m]
    PROVE  /\ pc' \in [Tasks -> SubSteps] /\ mem' \in [Tasks -> Subscribe!Memory \cup {None}]
           /\ \A u \in Tasks : Session(u)'
           /\ pc'[t] = s /\ mem'[t] = m /\ \A u \in Tasks : u # t => pc'[u] = pc[u] /\ mem'[u] = mem[u]
<1>1. pc \in [Tasks -> SubSteps] /\ mem \in [Tasks -> Subscribe!Memory \cup {None}]
  BY SubTypes
<1>2. pc' \in [Tasks -> SubSteps] /\ pc'[t] = s /\ \A u \in Tasks : u # t => pc'[u] = pc[u]
  BY <1>1
<1>3. mem' \in [Tasks -> Subscribe!Memory \cup {None}] /\ mem'[t] = m /\ \A u \in Tasks : u # t => mem'[u] = mem[u]
  BY <1>1
<1>4. ASSUME NEW u \in Tasks PROVE Session(u)'
  <2>1. Session(u)
    BY DEF SessionInv
  <2> QED BY <1>2, <1>3, <2>1 DEF Session
<1> QED BY <1>2, <1>3, <1>4

\* The parts of the invariant that a step of one request can disturb.
LEMMA SessionKept ==
    ASSUME SessionInv, NEW t \in Tasks, NEW s \in SubSteps, NEW m \in Subscribe!Memory \cup {None}, Valid(s, m),
           pc' = [pc EXCEPT ![t] = s], mem' = [mem EXCEPT ![t] = m],
           UNCHANGED dialect, row' \in Counts, \A i \in RowIds : row'[i] # None => row'[i] > 0,
           born' \in Nat, added' \in Nat, asked' \in 0..MaxRequests, tally' \in Int, raced' \in BOOLEAN,
           born' + 2 * (IF s \in {"read", "commit"} THEN 1 ELSE 0) - 2 * asked'
              <= born + 2 * (IF pc[t] \in {"read", "commit"} THEN 1 ELSE 0) - 2 * asked
    PROVE  SessionInv'
<1>1. /\ pc' \in [Tasks -> SubSteps] /\ mem' \in [Tasks -> Subscribe!Memory \cup {None}]
      /\ \A u \in Tasks : Session(u)'
      /\ pc'[t] = s /\ mem'[t] = m /\ \A u \in Tasks : u # t => pc'[u] = pc[u]
  BY SessionGoes
<1>2. (t \in Busy <=> pc[t] \in {"read", "commit"}) /\ (t \in Busy' <=> s \in {"read", "commit"})
  BY <1>1 DEF Busy
<1>3. born \in Nat /\ asked \in Nat /\ asked' \in Nat /\ asked' <= MaxRequests /\ MaxRequests \in Nat
  BY SubTypes, Bounds
<1>4. born + 2 * Cardinality(Busy) <= 2 * asked
  BY DEF SessionInv
<1>5. born' + 2 * Cardinality(Busy') <= 2 * asked' /\ Cardinality(Busy') \in Nat
  <2>1. Cardinality(Busy) \in Nat /\ Cardinality(Busy') \in Nat
    BY <1>1, BusyCount
  <2>2. Cardinality(Busy') + (IF t \in Busy THEN 1 ELSE 0) = Cardinality(Busy) + (IF t \in Busy' THEN 1 ELSE 0)
    BY <1>1, <2>1, BusyCount
  <2> DEFINE before == IF pc[t] \in {"read", "commit"} THEN 1 ELSE 0
             after == IF s \in {"read", "commit"} THEN 1 ELSE 0
             c == Cardinality(Busy)
             d == Cardinality(Busy')
  <2>3. before \in Nat /\ after \in Nat /\ d + before = c + after
    BY <1>2, <2>2
  <2>4. born' + 2 * after - 2 * asked' <= born + 2 * before - 2 * asked
    OBVIOUS
  <2>5. c \in Nat /\ d \in Nat /\ born + 2 * c <= 2 * asked
    BY <1>4, <2>1
  <2> HIDE DEF before, after, c, d
  <2>6. born' + 2 * d <= 2 * asked'
    BY <1>3, <2>3, <2>4, <2>5
  <2> QED BY <2>1, <2>6 DEF d
<1>6. born' \in 0..(2 * MaxRequests)
  BY <1>3, <1>5
<1>7. Subscribe!TypeOK'
  BY <1>1, <1>6, SubTypes DEF Subscribe!TypeOK, Counts, RowIds, SubSteps
<1>8. Subscribe!PopularityPositive'
  BY DEF Subscribe!PopularityPositive, Subscribe!Present, RowIds
<1> QED BY <1>1, <1>5, <1>7, <1>8 DEF SessionInv

\* Asking.
LEMMA AskSession ==
    ASSUME SessionInv, NEW t \in Tasks, Subscribe!AddSubscribe(t) \/ Subscribe!BatchReport(t) \/ Subscribe!DoneSubscribe(t)
    PROVE  SessionInv'
<1>1. PICK what \in {"add", "batch", "done"}, k \in {1, 2} :
              /\ k = IF what = "batch" THEN 2 ELSE 1
              /\ NewRequest(what, k) \in Subscribe!Memory
              /\ pc[t] = "idle" /\ asked < MaxRequests /\ asked' = asked + 1
              /\ raced' = (raced \/ Subscribe!Overlaps)
              /\ mem' = [mem EXCEPT ![t] = NewRequest(what, k)] /\ pc' = [pc EXCEPT ![t] = "read"]
              /\ UNCHANGED <<dialect, row, born, added, tally>>
  BY SubAsks
<1>2. Valid("read", NewRequest(what, k))
  BY <1>1 DEF Valid, NewRequest
<1>3. /\ row \in Counts /\ born \in Nat /\ added \in Nat /\ asked \in Nat /\ tally \in Int /\ raced \in BOOLEAN
  BY SubTypes
<1>4. \A i \in RowIds : row[i] # None => row[i] > 0
  BY DEF SessionInv, Subscribe!PopularityPositive, Subscribe!Present, RowIds
<1>5. raced' \in BOOLEAN
  BY <1>1, <1>3, Zenon
<1>6. asked' \in 0..MaxRequests
  BY <1>1, <1>3, Bounds
<1>7. "read" \in SubSteps
  BY DEF SubSteps
<1>8. born' + 2 * 1 - 2 * asked' <= born + 2 * 0 - 2 * asked
  BY <1>1, <1>3
<1>9. pc[t] \notin {"read", "commit"}
  BY <1>1
<1> HIDE DEF NewRequest
<1>10. NewRequest(what, k) \in Subscribe!Memory \cup {None}
  BY <1>1
<1> QED BY <1>1, <1>2, <1>3, <1>4, <1>5, <1>6, <1>7, <1>8, <1>9, <1>10, SessionKept

\* What one read makes of a session.
Change(what) == IF what = "done" THEN -1 ELSE 1
Nobody == \A i \in RowIds : row[i] = None
Found(n, i) == IF n.loaded[i] # None THEN n.loaded[i] ELSE row[i]
Reading(m, n) ==
    /\ m.kind = n.kind
    /\ \/ \E i \in RowIds :
             /\ row[i] # None /\ m.left = n.left - 1 /\ m.fresh = n.fresh
             /\ m.loaded = [n.loaded EXCEPT ![i] = Found(n, i) + Change(n.kind)]
       \/ Nobody /\ n.kind # "done" /\ m.left = n.left - 1 /\ m.fresh = n.fresh + 1 /\ m.loaded = n.loaded
       \/ Nobody /\ n.kind = "done" /\ m.left = 0 /\ m.fresh = n.fresh /\ m.loaded = n.loaded

\* A read finds a row, plans a new one or has nothing to do.
LEMMA ReadDoes ==
    ASSUME SessionInv, NEW t \in Tasks, Subscribe!Read(t)
    PROVE  /\ pc[t] = "read" /\ mem[t] \in Subscribe!Memory
           /\ pc' = [pc EXCEPT ![t] = IF mem[t].left = 1 THEN "commit" ELSE "read"]
           /\ \E m \in Subscribe!Memory : mem' = [mem EXCEPT ![t] = m] /\ Reading(m, mem[t])
           /\ UNCHANGED <<dialect, row, born, added, asked, tally, raced>>
<1>1. /\ pc[t] = "read"
      /\ pc' = [pc EXCEPT ![t] = IF mem[t].left = 1 THEN "commit" ELSE "read"]
      /\ UNCHANGED <<dialect, row, born, added, asked, tally, raced>>
  BY DEF Subscribe!Read, Subscribe!Goto
<1>2. mem[t] \in Subscribe!Memory /\ mem[t].left >= 1
  BY <1>1 DEF SessionInv, Session, Valid
<1>3. /\ mem[t] = [kind |-> mem[t].kind, left |-> mem[t].left, loaded |-> mem[t].loaded, fresh |-> mem[t].fresh]
      /\ mem[t].kind \in {"add", "batch", "done"} /\ mem[t].left \in Nat /\ mem[t].loaded \in Counts /\ mem[t].fresh \in Nat
  BY <1>2 DEF Subscribe!Memory, Counts, RowIds
<1>4. row \in Counts /\ mem \in [Tasks -> Subscribe!Memory \cup {None}]
  BY SubTypes
<1>5. CASE \E i \in Subscribe!Present(row) :
             mem' = [mem EXCEPT ![t].left = @ - 1,
                                ![t].loaded[i] = Subscribe!Known(t, i) + (IF mem[t].kind = "done" THEN -1 ELSE 1)]
  <2>1. PICK i \in RowIds : row[i] # None /\
             mem' = [mem EXCEPT ![t].left = @ - 1,
                                ![t].loaded[i] = Subscribe!Known(t, i) + (IF mem[t].kind = "done" THEN -1 ELSE 1)]
    BY <1>5 DEF Subscribe!Present, RowIds
  <2>2. Subscribe!Known(t, i) = Found(mem[t], i) /\ Change(mem[t].kind) = (IF mem[t].kind = "done" THEN -1 ELSE 1)
    BY DEF Subscribe!Known, Found, Change
  <2>3. Found(mem[t], i) \in Int /\ Change(mem[t].kind) \in Int
    BY <1>3, <1>4, <2>1 DEF Found, Change, Counts
  <2>4. PICK v \in Int : v = Found(mem[t], i) + Change(mem[t].kind)
    BY <2>3
  <2>5. mem' = [mem EXCEPT ![t].left = @ - 1, ![t].loaded[i] = v]
    BY <2>1, <2>2, <2>4
  <2>6. mem'[t].kind = mem[t].kind /\ mem'[t].left = mem[t].left - 1 /\ mem'[t].fresh = mem[t].fresh
    BY <1>2, <1>4, <2>5 DEF Subscribe!Memory
  <2>7. mem'[t].loaded = [mem[t].loaded EXCEPT ![i] = v]
    BY <1>2, <1>4, <2>5 DEF Subscribe!Memory
  <2>8. mem'[t] \in Subscribe!Memory
    <3>1. PICK l \in [Subscribe!Ids -> Int \cup {None}] : l = [mem[t].loaded EXCEPT ![i] = v]
      BY <1>3, <2>4 DEF Counts, RowIds
    <3>2. mem'[t] = [[mem[t] EXCEPT !.left = mem[t].left - 1] EXCEPT !.loaded = l]
      BY <1>4, <2>5, <3>1
    <3>3. mem[t].left - 1 \in Nat
      BY <1>2, <1>3
    <3> QED BY <1>2, <3>1, <3>2, <3>3 DEF Subscribe!Memory
  <2>9. mem' = [mem EXCEPT ![t] = mem'[t]]
    BY <1>4, <2>5
  <2>10. Reading(mem'[t], mem[t])
    BY <2>1, <2>4, <2>6, <2>7 DEF Reading
  <2> QED BY <1>1, <1>2, <2>8, <2>9, <2>10
<1>6. CASE /\ Subscribe!Present(row) = {} /\ mem[t].kind # "done"
           /\ mem' = [mem EXCEPT ![t].left = @ - 1, ![t].fresh = @ + 1]
  <2>1. /\ mem'[t].kind = mem[t].kind /\ mem'[t].left = mem[t].left - 1
        /\ mem'[t].loaded = mem[t].loaded /\ mem'[t].fresh = mem[t].fresh + 1
    BY <1>2, <1>4, <1>6 DEF Subscribe!Memory
  <2>2. mem'[t] \in Subscribe!Memory
    BY <1>2, <1>4, <1>6 DEF Subscribe!Memory
  <2>3. mem' = [mem EXCEPT ![t] = mem'[t]]
    BY <1>4, <1>6
  <2>4. Nobody
    BY <1>6 DEF Nobody, Subscribe!Present, RowIds
  <2>5. Reading(mem'[t], mem[t])
    BY <1>6, <2>1, <2>4 DEF Reading
  <2> QED BY <1>1, <1>2, <2>2, <2>3, <2>5
<1>7. CASE Subscribe!Present(row) = {} /\ mem[t].kind = "done" /\ mem' = [mem EXCEPT ![t].left = 0]
  <2>1. /\ mem'[t].kind = mem[t].kind /\ mem'[t].left = 0
        /\ mem'[t].loaded = mem[t].loaded /\ mem'[t].fresh = mem[t].fresh
    BY <1>2, <1>4, <1>7 DEF Subscribe!Memory
  <2>2. mem'[t] \in Subscribe!Memory
    BY <1>2, <1>4, <1>7 DEF Subscribe!Memory
  <2>3. mem' = [mem EXCEPT ![t] = mem'[t]]
    BY <1>4, <1>7
  <2>4. Nobody
    BY <1>7 DEF Nobody, Subscribe!Present, RowIds
  <2>5. Reading(mem'[t], mem[t])
    BY <1>7, <2>1, <2>4 DEF Reading
  <2> QED BY <1>1, <1>2, <2>2, <2>3, <2>5
<1>8. Subscribe!Read(t)
  OBVIOUS
<1> QED BY ONLY <1>5, <1>6, <1>7, <1>8, Zenon DEF Subscribe!Read

\* Reading.
LEMMA ReadSession == ASSUME SessionInv, NEW t \in Tasks, Subscribe!Read(t) PROVE SessionInv'
<1>1. /\ pc[t] = "read" /\ mem[t] \in Subscribe!Memory
      /\ pc' = [pc EXCEPT ![t] = IF mem[t].left = 1 THEN "commit" ELSE "read"]
      /\ UNCHANGED <<dialect, row, born, added, asked, tally, raced>>
  BY ReadDoes
<1>2. PICK m \in Subscribe!Memory : mem' = [mem EXCEPT ![t] = m] /\ Reading(m, mem[t])
  BY ReadDoes
<1> DEFINE s == IF mem[t].left = 1 THEN "commit" ELSE "read"
<1>3. Valid("read", mem[t])
  BY <1>1 DEF SessionInv, Session
<1>4. mem[t].left \in Nat /\ mem[t].fresh \in Nat /\ m.left \in Nat /\ m.fresh \in Nat
  BY <1>1, <1>2 DEF Subscribe!Memory
<1>5. Valid(s, m)
  <2>1. /\ m.kind = mem[t].kind
        /\ \/ m.left = mem[t].left - 1 /\ m.fresh = mem[t].fresh
           \/ mem[t].kind # "done" /\ m.left = mem[t].left - 1 /\ m.fresh = mem[t].fresh + 1
           \/ mem[t].kind = "done" /\ m.left = 0 /\ m.fresh = mem[t].fresh
    BY <1>2, Zenon DEF Reading
  <2>2. /\ mem[t].fresh + mem[t].left <= 2 /\ mem[t].left >= 1
        /\ mem[t].kind = "done" => mem[t].left = 1 /\ mem[t].fresh = 0
    BY <1>3 DEF Valid
  <2>3. m \in Subscribe!Memory
    BY <1>2
  <2> QED BY <1>4, <2>1, <2>2, <2>3 DEF Valid
<1>6. s \in SubSteps /\ s \in {"read", "commit"}
  BY DEF SubSteps
<1>7. /\ row \in Counts /\ born \in Nat /\ added \in Nat /\ asked \in 0..MaxRequests /\ tally \in Int /\ raced \in BOOLEAN
  BY SubTypes
<1>8. \A i \in RowIds : row[i] # None => row[i] > 0
  BY DEF SessionInv, Subscribe!PopularityPositive, Subscribe!Present, RowIds
<1>9. born + 2 * 1 - 2 * asked <= born + 2 * 1 - 2 * asked
  BY <1>7
<1>10. pc' = [pc EXCEPT ![t] = s]
  BY <1>1
<1> HIDE DEF s
<1> QED BY <1>1, <1>2, <1>5, <1>6, <1>7, <1>8, <1>9, <1>10, SessionKept

\* What a commit writes, and what it leaves of the session.
Fails(m) == \E i \in RowIds : m.loaded[i] # None /\ m.loaded[i] > 0 /\ row[i] = None
Writing(m, last) ==
    [i \in RowIds |-> IF i > last /\ i <= last + m.fresh THEN 1
                      ELSE IF m.loaded[i] = None \/ row[i] = None THEN row[i]
                      ELSE IF m.loaded[i] > 0 THEN m.loaded[i] ELSE None]
Counting(n) == IF n # "done" THEN tally + Brought(n) ELSE IF tally > 0 THEN tally - 1 ELSE 0
Kept(step, m) ==
    \/ step = "idle" /\ m = None
    \/ step = "refresh" /\ m \in Subscribe!Memory
          /\ m.loaded = [i \in RowIds |-> IF row'[i] # row[i] THEN row'[i] ELSE None]

\* A commit fails, inserts what is new or writes what it holds.
LEMMA CommitDoes ==
    ASSUME SessionInv, NEW t \in Tasks, Subscribe!Commit(t)
    PROVE  /\ pc[t] = "commit" /\ mem[t] \in Subscribe!Memory /\ UNCHANGED <<dialect, asked, raced>>
           /\ \/ /\ Fails(mem[t])
                 /\ pc' = [pc EXCEPT ![t] = "failed"] /\ mem' = [mem EXCEPT ![t] = None]
                 /\ UNCHANGED <<dialect, row, born, added, tally>>
              \/ /\ Fails(mem[t]) => dialect = "sqlite"
                 /\ \E last \in 0..born : row' = Writing(mem[t], last)
                 /\ born' = born + mem[t].fresh
                 /\ added' = added + Brought(mem[t].kind) /\ tally' = Counting(mem[t].kind)
                 /\ \E s \in {"idle", "refresh"}, m \in Subscribe!Memory \cup {None} :
                       Kept(s, m) /\ pc' = [pc EXCEPT ![t] = s] /\ mem' = [mem EXCEPT ![t] = m]
<1>1. pc[t] = "commit" /\ UNCHANGED <<dialect, asked, raced>>
  BY DEF Subscribe!Commit
<1>2. mem[t] \in Subscribe!Memory
  BY <1>1 DEF SessionInv, Session, Valid
<1>3. row \in Counts /\ born \in Nat /\ mem \in [Tasks -> Subscribe!Memory \cup {None}]
  BY SubTypes
<1>4. Subscribe!Stale(t) <=> Fails(mem[t])
  BY <1>2 DEF Subscribe!Stale, Fails, Subscribe!Present, RowIds
<1>5. \A last : Subscribe!Written(t, last) = Writing(mem[t], last)
  BY DEF Subscribe!Written, Writing, RowIds
<1> DEFINE Refused ==
             /\ Subscribe!Stale(t)
             /\ pc' = [pc EXCEPT ![t] = "failed"] /\ mem' = [mem EXCEPT ![t] = None]
             /\ UNCHANGED <<row, born, added, tally>>
           Goes ==
             /\ Subscribe!Stale(t) => dialect = "sqlite"
             /\ \E last \in Subscribe!Lasts : row' = Subscribe!Written(t, last)
             /\ born' = born + mem[t].fresh
             /\ added' = added + (IF mem[t].kind = "done" THEN 0 ELSE IF mem[t].kind = "add" THEN 1 ELSE 2)
             /\ tally' = IF mem[t].kind # "done" THEN tally + (IF mem[t].kind = "done" THEN 0 ELSE IF mem[t].kind = "add" THEN 1 ELSE 2)
                         ELSE IF tally > 0 THEN tally - 1 ELSE 0
             /\ IF mem[t].kind = "batch"
                THEN pc' = [pc EXCEPT ![t] = "idle"] /\ mem' = [mem EXCEPT ![t] = None]
                ELSE /\ pc' = [pc EXCEPT ![t] = "refresh"]
                     /\ mem' = [mem EXCEPT ![t].loaded =
                           [i \in Subscribe!Ids |-> IF row'[i] # row[i] THEN row'[i] ELSE None]]
<1>6. Refused \/ Goes
  BY Zenon DEF Subscribe!Commit, Subscribe!Goto
<1>7. ASSUME Refused PROVE Fails(mem[t])
  BY <1>4, <1>7
<1>8. CASE Goes
  <2>1. /\ Fails(mem[t]) => dialect = "sqlite"
        /\ \E last \in 0..born : row' = Writing(mem[t], last)
        /\ born' = born + mem[t].fresh
        /\ added' = added + Brought(mem[t].kind) /\ tally' = Counting(mem[t].kind)
    BY <1>4, <1>5, <1>8 DEF Subscribe!Lasts, Brought, Counting
  <2>2. CASE mem[t].kind = "batch"
    <3>1. pc' = [pc EXCEPT ![t] = "idle"] /\ mem' = [mem EXCEPT ![t] = None]
      BY <1>8, <2>2
    <3>2. Kept("idle", None)
      BY DEF Kept
    <3> HIDE DEF Goes, Refused
    <3> QED BY <1>1, <1>2, <2>1, <3>1, <3>2
  <2>3. CASE mem[t].kind # "batch"
    <3> DEFINE l == [i \in RowIds |-> IF row'[i] # row[i] THEN row'[i] ELSE None]
    <3>1. pc' = [pc EXCEPT ![t] = "refresh"]
      BY <1>8, <2>3
    <3>2. mem' = [mem EXCEPT ![t].loaded = l]
      BY <1>8, <2>3 DEF RowIds
    <3> HIDE DEF Goes, Refused
    <3>3. l \in [Subscribe!Ids -> Int \cup {None}]
      <4>1. \A i \in RowIds : mem[t].loaded[i] \in Int \cup {None} /\ row[i] \in Int \cup {None}
        BY <1>2, <1>3 DEF Subscribe!Memory, RowIds, Counts
      <4>2. \A i \in RowIds : row'[i] \in Int \cup {None}
        BY <2>1, <4>1 DEF Writing
      <4> QED BY <4>2 DEF RowIds
    <3> HIDE DEF l
    <3>4. mem' = [mem EXCEPT ![t] = mem'[t]]
      BY <1>3, <3>2
    <3>5. mem'[t] \in Subscribe!Memory /\ mem'[t].loaded = l
      BY <1>2, <1>3, <3>2, <3>3 DEF Subscribe!Memory
    <3>6. Kept("refresh", mem'[t])
      BY <3>5 DEF Kept, l
    <3> QED BY <1>1, <1>2, <2>1, <3>1, <3>4, <3>5, <3>6
  <2> QED BY <2>2, <2>3
<1> QED BY <1>1, <1>2, <1>6, <1>7, <1>8

\* Committing.
LEMMA CommitSession == ASSUME SessionInv, NEW t \in Tasks, Subscribe!Commit(t) PROVE SessionInv'
<1>1. pc[t] = "commit" /\ mem[t] \in Subscribe!Memory /\ UNCHANGED <<dialect, asked, raced>>
  BY CommitDoes
<1>2. /\ row \in Counts /\ born \in Nat /\ added \in Nat /\ asked \in 0..MaxRequests /\ tally \in Int /\ raced \in BOOLEAN
  BY SubTypes
<1>3. \A i \in RowIds : row[i] # None => row[i] > 0
  BY DEF SessionInv, Subscribe!PopularityPositive, Subscribe!Present, RowIds
<1>4. mem[t].fresh \in Nat /\ mem[t].fresh <= 2 /\ mem[t].loaded \in Counts /\ mem[t].kind \in {"add", "batch", "done"}
  <2>1. mem[t].fresh \in Nat /\ mem[t].left \in Nat /\ mem[t].loaded \in Counts /\ mem[t].kind \in {"add", "batch", "done"}
    BY <1>1 DEF Subscribe!Memory, Counts, RowIds
  <2>2. mem[t].fresh + mem[t].left <= 2
    BY <1>1 DEF SessionInv, Session, Valid
  <2> QED BY <2>1, <2>2
<1>5. CASE /\ pc' = [pc EXCEPT ![t] = "failed"] /\ mem' = [mem EXCEPT ![t] = None]
           /\ UNCHANGED <<dialect, row, born, added, tally>>
  <2>1. Valid("failed", None) /\ "failed" \in SubSteps
    BY DEF Valid, SubSteps
  <2>2. born + 2 * 0 - 2 * asked <= born + 2 * 1 - 2 * asked
    BY <1>2
  <2> QED BY <1>1, <1>2, <1>3, <1>5, <2>1, <2>2, SessionKept
<1>6. ASSUME NEW last \in 0..born, row' = Writing(mem[t], last), born' = born + mem[t].fresh,
             added' = added + Brought(mem[t].kind), tally' = Counting(mem[t].kind),
             NEW s \in {"idle", "refresh"}, NEW m \in Subscribe!Memory \cup {None},
             Kept(s, m), pc' = [pc EXCEPT ![t] = s], mem' = [mem EXCEPT ![t] = m]
      PROVE  SessionInv'
  <2>1. Valid(s, m) /\ s \in SubSteps
    BY <1>6 DEF Kept, Valid, SubSteps
  <2>2. row' \in Counts
    BY <1>2, <1>4, <1>6 DEF Writing, Counts
  <2>3. \A i \in RowIds : row'[i] # None => row'[i] > 0
    BY <1>2, <1>3, <1>4, <1>6 DEF Writing, Counts
  <2>4. added' \in Nat /\ tally' \in Int
    BY <1>2, <1>6 DEF Brought, Counting
  <2>5. born' \in Nat /\ born' + 2 * 0 - 2 * asked <= born + 2 * 1 - 2 * asked
    BY <1>2, <1>4, <1>6
  <2>6. s \notin {"read", "commit"}
    BY <1>6
  <2> QED BY <1>1, <1>2, <1>6, <2>1, <2>2, <2>3, <2>4, <2>5, <2>6, SessionKept
<1> QED BY <1>5, <1>6, CommitDoes

\* The end of a request, and a deletion.
LEMMA RefreshSession == ASSUME SessionInv, NEW t \in Tasks, Subscribe!Refresh(t) PROVE SessionInv'
<1>1. PICK s \in {"idle", "failed"} : pc[t] = "refresh" /\ pc' = [pc EXCEPT ![t] = s] /\ mem' = [mem EXCEPT ![t] = None]
                 /\ UNCHANGED <<dialect, row, born, added, asked, tally, raced>>
  BY DEF Subscribe!Refresh, Subscribe!Goto
<1>2. /\ row \in Counts /\ born \in Nat /\ added \in Nat /\ asked \in 0..MaxRequests /\ tally \in Int /\ raced \in BOOLEAN
  BY SubTypes
<1>3. \A i \in RowIds : row[i] # None => row[i] > 0
  BY DEF SessionInv, Subscribe!PopularityPositive, Subscribe!Present, RowIds
<1>4. Valid(s, None) /\ s \in SubSteps /\ s \notin {"read", "commit"}
  BY <1>1 DEF Valid, SubSteps
<1>5. born + 2 * 0 - 2 * asked <= born + 2 * 0 - 2 * asked
  BY <1>2
<1> QED BY <1>1, <1>2, <1>3, <1>4, <1>5, SessionKept

\* A step that is no request's.
LEMMA SessionElse ==
    ASSUME SessionInv, row' \in Counts, \A i \in RowIds : row'[i] # None => row'[i] > 0, asked < MaxRequests,
           asked' = asked + 1, tally' \in Int, raced' \in BOOLEAN, UNCHANGED <<dialect, born, added, pc, mem>>
    PROVE  SessionInv'
<1>1. born \in Nat /\ born <= 2 * MaxRequests /\ asked \in Nat /\ MaxRequests \in Nat
  BY SubTypes, Bounds
<1>2. asked' \in 0..MaxRequests /\ born \in 0..(2 * MaxRequests)
  BY <1>1
<1>3. Subscribe!TypeOK'
  BY <1>2, SubTypes DEF Subscribe!TypeOK, Counts, RowIds, SubSteps
<1>4. Subscribe!PopularityPositive'
  BY DEF Subscribe!PopularityPositive, Subscribe!Present, RowIds
<1>5. (born + 2 * Cardinality(Busy) <= 2 * asked)'
  <2>1. Busy' = Busy
    BY DEF Busy
  <2>2. Cardinality(Busy) \in Nat
    <3>1. IsFiniteSet(Busy)
      BY BoundsAssumption, FS_Subset DEF Busy
    <3> QED BY <3>1, FS_CardinalityType
  <2>3. born + 2 * Cardinality(Busy) <= 2 * asked
    BY DEF SessionInv
  <2> HIDE DEF Busy
  <2> QED BY <1>1, <2>1, <2>2, <2>3
<1>6. \A t \in Tasks : Session(t)'
  BY DEF SessionInv, Session
<1> QED BY <1>3, <1>4, <1>5, <1>6 DEF SessionInv

\* A row is cleaned up.
LEMMA DeleteSession == ASSUME SessionInv, NEW j \in RowIds, Subscribe!Delete(j) PROVE SessionInv'
<1>1. /\ row[j] # None /\ asked < MaxRequests /\ row' = [row EXCEPT ![j] = None] /\ asked' = asked + 1
      /\ tally' = tally - row[j] /\ raced' = (raced \/ Subscribe!Overlaps) /\ UNCHANGED <<dialect, born, added, pc, mem>>
  BY DEF Subscribe!Delete
<1>2. row \in Counts /\ tally \in Int /\ raced \in BOOLEAN /\ \A i \in RowIds : row[i] # None => row[i] > 0
  BY SubTypes DEF SessionInv, Subscribe!PopularityPositive, Subscribe!Present, RowIds
<1>3. raced' \in BOOLEAN
  BY <1>1, <1>2, Zenon
<1>4. row' \in Counts /\ tally' \in Int /\ \A i \in RowIds : row'[i] # None => row'[i] > 0
  BY <1>1, <1>2 DEF Counts
<1> QED BY <1>1, <1>3, <1>4, SessionElse

\* A request for another medium writes over a row.
LEMMA ForeignSession ==
    ASSUME SessionInv, NEW j \in RowIds, NEW n \in Subscribe!Counts \cup {None}, Subscribe!ForeignWrite(j, n)
    PROVE  SessionInv'
<1>1. /\ asked < MaxRequests /\ row' = [row EXCEPT ![j] = n] /\ asked' = asked + 1
      /\ raced' = TRUE /\ UNCHANGED <<dialect, born, added, tally, pc, mem>>
  BY DEF Subscribe!ForeignWrite
<1>2. row \in Counts /\ tally \in Int /\ \A i \in RowIds : row[i] # None => row[i] > 0
  BY SubTypes DEF SessionInv, Subscribe!PopularityPositive, Subscribe!Present, RowIds
<1>3. n \in Int \cup {None} /\ (n # None => n > 0)
  BY Bounds DEF Subscribe!Counts
<1>4. row' \in Counts /\ tally' \in Int /\ \A i \in RowIds : row'[i] # None => row'[i] > 0
  BY <1>1, <1>2, <1>3 DEF Counts
<1>5. raced' \in BOOLEAN
  BY <1>1, Zenon
<1> QED BY <1>1, <1>4, <1>5, SessionElse

\* Every step keeps the sessions.
LEMMA SessionStep == SessionInv /\ Subscribe!Next => SessionInv'
BY AskSession, ReadSession, CommitSession, RefreshSession, DeleteSession, ForeignSession DEF Subscribe!Next, RowIds

\* The attribution of the committed subscriptions to the rows, and what a
\* request adds to it.
Shared == [RowIds -> Nat]
All(f) == SumBy(f, RowIds)
Owns(m, a, o) ==
    /\ IF m.kind = "done" THEN All(o) = 0 /\ m.fresh = 0 ELSE All(o) + m.fresh + m.left = Brought(m.kind)
    /\ \A i \in RowIds : m.loaded[i] # None => m.loaded[i] <= a[i] + o[i]
Credits(a) ==
    /\ All(a) <= added
    /\ \A i \in RowIds : row[i] # None => row[i] <= a[i]
    /\ \A t \in Busy : \E o \in Shared : Owns(mem[t], a, o)
CreditInv == SessionInv /\ \E a \in Shared : Credits(a)

\* A session, field by field.
LEMMA Fields ==
    \A m \in Subscribe!Memory :
        m.kind \in {"add", "batch", "done"} /\ m.left \in Nat /\ m.loaded \in Counts /\ m.fresh \in Nat
BY DEF Subscribe!Memory, Counts, RowIds

\* Another attribution with at least as much for each row.
LEMMA CreditsKept ==
    ASSUME SessionInv, NEW a \in Shared, Credits(a), NEW b \in Shared, \A i \in RowIds : a[i] <= b[i],
           NEW t \in Tasks, \A u \in Tasks : u # t => pc'[u] = pc[u] /\ mem'[u] = mem[u],
           t \in Busy' => \E o \in Shared : Owns(mem'[t], b, o),
           All(b) <= added', \A i \in RowIds : row'[i] # None => row'[i] <= b[i]
    PROVE  Credits(b)'
<1>1. ASSUME NEW u \in Busy' PROVE \E o \in Shared : Owns(mem'[u], b, o)
  <2>1. CASE u = t
    BY <1>1, <2>1
  <2>2. CASE u # t
    <3>1. u \in Tasks /\ u \in Busy /\ mem'[u] = mem[u]
      BY <1>1, <2>2 DEF Busy
    <3>2. PICK o \in Shared : Owns(mem[u], a, o)
      BY <3>1 DEF Credits
    <3>3. mem[u] \in Subscribe!Memory
      BY <3>1 DEF SessionInv, Session, Valid, Busy
    <3>4. ASSUME NEW i \in RowIds, mem[u].loaded[i] # None PROVE mem[u].loaded[i] <= b[i] + o[i]
      <4>1. mem[u].loaded[i] \in Int
        BY <3>3, <3>4, Fields DEF Counts
      <4>2. mem[u].loaded[i] <= a[i] + o[i] /\ a[i] <= b[i] /\ a[i] \in Nat /\ b[i] \in Nat /\ o[i] \in Nat
        BY <3>2, <3>4 DEF Owns, Shared
      <4> QED BY <4>1, <4>2
    <3>5. Owns(mem[u], b, o)
      BY <3>2, <3>4 DEF Owns
    <3> QED BY <3>1, <3>2, <3>5
  <2> QED BY <2>1, <2>2
<1> QED BY <1>1 DEF Credits

\* Nothing at all, and one more for one row.
LEMMA NothingOwned == [i \in RowIds |-> 0] \in Shared /\ All([i \in RowIds |-> 0]) = 0
<1>1. \A i \in RowIds : [j \in RowIds |-> 0][i] = 0
  OBVIOUS
<1>2. SumBy([j \in RowIds |-> 0], RowIds) = 0
  BY <1>1, RowsFinite, SumZero
<1> QED BY <1>2 DEF All, Shared

\* One subscription more for a row is one more in all.
LEMMA OneMore ==
    ASSUME NEW o \in Shared, NEW i \in RowIds
    PROVE  [o EXCEPT ![i] = @ + 1] \in Shared /\ All([o EXCEPT ![i] = @ + 1]) = All(o) + 1 /\ All(o) \in Nat
<1> DEFINE p == [o EXCEPT ![i] = @ + 1]
<1>1. p \in Shared /\ p[i] = o[i] + 1 /\ \A j \in RowIds : j # i => p[j] = o[j]
  BY DEF Shared
<1>2. \A j \in RowIds : o[j] \in Int /\ p[j] \in Int /\ o[j] \in Nat
  BY <1>1 DEF Shared
<1> HIDE DEF p
<1>3. SumBy(p, RowIds) = SumBy(o, RowIds) - o[i] + p[i]
  <2>1. \A j \in RowIds : o[j] \in Int /\ p[j] \in Int
    BY <1>2
  <2>2. \A j \in RowIds : j # i => p[j] = o[j]
    BY <1>1
  <2>3. IsFiniteSet(RowIds)
    BY RowsFinite
  <2> QED BY <2>1, <2>2, <2>3, SumChange
<1>4. SumBy(o, RowIds) \in Nat
  BY <1>2, RowsFinite, SumNat
<1>5. All(p) = All(o) + 1
  BY <1>1, <1>2, <1>3, <1>4 DEF All
<1> QED BY <1>1, <1>4, <1>5 DEF All, p

\* No request, nothing to attribute.
LEMMA CreditInit == Subscribe!Init => CreditInv
<1> SUFFICES ASSUME Subscribe!Init PROVE CreditInv
  OBVIOUS
<1> DEFINE a == [i \in RowIds |-> 0]
<1>1. a \in Shared /\ All(a) = 0
  BY NothingOwned
<1>2. added = 0 /\ \A i \in RowIds : row[i] = None
  BY DEF Subscribe!Init, Subscribe!NoRows, RowIds
<1>3. Busy = {}
  BY DEF Busy, Subscribe!Init
<1>4. Credits(a)
  <2> HIDE DEF a
  <2> QED BY <1>1, <1>2, <1>3 DEF Credits
<1> QED BY <1>1, <1>4, SessionInit DEF CreditInv

\* A request arrives and brings nothing yet.
LEMMA AskCredits ==
    ASSUME CreditInv, NEW t \in Tasks, Subscribe!AddSubscribe(t) \/ Subscribe!BatchReport(t) \/ Subscribe!DoneSubscribe(t)
    PROVE  CreditInv'
<1>1. SessionInv /\ SessionInv'
  BY AskSession DEF CreditInv
<1>2. PICK a \in Shared : Credits(a)
  BY DEF CreditInv
<1>3. PICK what \in {"add", "batch", "done"}, k \in {1, 2} :
              /\ k = IF what = "batch" THEN 2 ELSE 1
              /\ NewRequest(what, k) \in Subscribe!Memory
              /\ mem' = [mem EXCEPT ![t] = NewRequest(what, k)] /\ pc' = [pc EXCEPT ![t] = "read"]
              /\ UNCHANGED <<dialect, row, born, added, tally>>
  BY <1>1, SubAsks
<1>4. mem'[t] = NewRequest(what, k) /\ \A u \in Tasks : u # t => pc'[u] = pc[u] /\ mem'[u] = mem[u]
  BY <1>1, <1>3, SubTypes
<1> DEFINE o == [i \in RowIds |-> 0]
<1>5. o \in Shared /\ All(o) = 0
  BY NothingOwned
<1>6. Owns(NewRequest(what, k), a, o)
  <2> HIDE DEF o
  <2> QED BY <1>3, <1>5 DEF Owns, NewRequest, Brought, Subscribe!NoRows, RowIds
<1>7. All(a) <= added' /\ \A i \in RowIds : row'[i] # None => row'[i] <= a[i]
  BY <1>2, <1>3 DEF Credits
<1>8. \A i \in RowIds : a[i] <= a[i]
  BY DEF Shared
<1>9. \E q \in Shared : Owns(mem'[t], a, q)
  BY <1>4, <1>5, <1>6
<1>10. Credits(a)'
  BY <1>1, <1>2, <1>4, <1>7, <1>8, <1>9, CreditsKept
<1> QED BY <1>1, <1>10 DEF CreditInv

\* A read: a request holds what the row held.
LEMMA ReadCredits == ASSUME CreditInv, NEW t \in Tasks, Subscribe!Read(t) PROVE CreditInv'
<1>1. SessionInv /\ SessionInv'
  BY ReadSession DEF CreditInv
<1>2. PICK a \in Shared : Credits(a)
  BY DEF CreditInv
<1>3. pc[t] = "read" /\ mem[t] \in Subscribe!Memory /\ UNCHANGED <<dialect, row, born, added, asked, tally, raced>>
  BY <1>1, ReadDoes
<1>4. PICK m \in Subscribe!Memory : mem' = [mem EXCEPT ![t] = m] /\ Reading(m, mem[t])
  BY <1>1, ReadDoes
<1>5. PICK n \in Subscribe!Memory : n = mem[t]
  BY <1>3
<1>6. PICK o \in Shared : Owns(n, a, o)
  BY <1>2, <1>3, <1>5 DEF Credits, Busy
<1>7. mem'[t] = m /\ \A u \in Tasks : u # t => pc'[u] = pc[u] /\ mem'[u] = mem[u]
  <2>1. pc' = [pc EXCEPT ![t] = IF mem[t].left = 1 THEN "commit" ELSE "read"]
    BY <1>1, ReadDoes
  <2> QED BY <1>1, <1>4, <2>1, SubTypes
<1>8. /\ n.kind \in {"add", "batch", "done"} /\ n.left \in Nat /\ n.loaded \in Counts /\ n.fresh \in Nat
      /\ m.kind \in {"add", "batch", "done"} /\ m.left \in Nat /\ m.loaded \in Counts /\ m.fresh \in Nat
  BY <1>4, <1>5, Fields
<1>9. row \in Counts /\ (\A i \in RowIds : row[i] # None => row[i] <= a[i]) /\ \A i \in RowIds : a[i] \in Nat /\ o[i] \in Nat
  BY <1>1, <1>2, <1>6, SubTypes DEF Credits, Shared
<1>10. n.kind = "done" => n.fresh = 0
  BY <1>1, <1>3, <1>5 DEF SessionInv, Session, Valid
<1>11. \E q \in Shared : Owns(m, a, q)
  <2>1. ASSUME NEW i \in RowIds, row[i] # None, m.left = n.left - 1, m.fresh = n.fresh, m.kind = n.kind,
               m.loaded = [n.loaded EXCEPT ![i] = Found(n, i) + Change(n.kind)]
        PROVE  \E q \in Shared : Owns(m, a, q)
    <3>1. Found(n, i) \in Int /\ Found(n, i) <= a[i] + o[i]
      BY <1>6, <1>8, <1>9, <2>1 DEF Found, Owns, Counts
    <3>2. m.loaded[i] = Found(n, i) + Change(n.kind) /\ \A j \in RowIds : j # i => m.loaded[j] = n.loaded[j]
      BY <1>8, <2>1 DEF Counts
    <3>3. CASE n.kind = "done"
      <4>1. \A j \in RowIds : m.loaded[j] # None => m.loaded[j] <= a[j] + o[j]
        BY <1>6, <1>9, <3>1, <3>2, <3>3 DEF Change, Owns
      <4>2. Owns(m, a, o)
        BY <1>6, <2>1, <3>3, <4>1 DEF Owns
      <4> QED BY <4>2
    <3>4. CASE n.kind # "done"
      <4> DEFINE q == [o EXCEPT ![i] = @ + 1]
      <4>1. q \in Shared /\ All(q) = All(o) + 1 /\ All(o) \in Nat
        BY OneMore
      <4>2. q[i] = o[i] + 1 /\ \A j \in RowIds : j # i => q[j] = o[j]
        BY DEF Shared
      <4> HIDE DEF q
      <4>3. \A j \in RowIds : m.loaded[j] # None => m.loaded[j] <= a[j] + q[j]
        BY <1>6, <1>9, <3>1, <3>2, <3>4, <4>2 DEF Change, Owns
      <4>4. All(o) + n.fresh + n.left = Brought(n.kind)
        BY <1>6, <3>4 DEF Owns
      <4>5. All(q) + m.fresh + m.left = Brought(m.kind)
        BY <1>8, <2>1, <4>1, <4>4
      <4>6. Owns(m, a, q)
        BY <2>1, <3>4, <4>3, <4>5 DEF Owns
      <4> QED BY <4>1, <4>6
    <3> QED BY <3>3, <3>4
  <2>2. ASSUME n.kind # "done", m.kind = n.kind, m.left = n.left - 1, m.fresh = n.fresh + 1, m.loaded = n.loaded
        PROVE  \E q \in Shared : Owns(m, a, q)
    <3>1. All(o) + n.fresh + n.left = Brought(n.kind) /\ All(o) \in Nat
      BY <1>6, <2>2, <1>8, RowsFinite, SumNat DEF Owns, All, Shared
    <3>2. All(o) + m.fresh + m.left = Brought(m.kind)
      BY <1>8, <2>2, <3>1
    <3>3. Owns(m, a, o)
      BY <1>6, <2>2, <3>2 DEF Owns
    <3> QED BY <3>3
  <2>3. ASSUME n.kind = "done", m.kind = n.kind, m.fresh = n.fresh, m.loaded = n.loaded
        PROVE  \E q \in Shared : Owns(m, a, q)
    <3>1. Owns(m, a, o)
      BY <1>6, <2>3 DEF Owns
    <3> QED BY <3>1
  <2> QED BY <1>4, <1>5, <2>1, <2>2, <2>3 DEF Reading
<1>12. All(a) <= added' /\ \A i \in RowIds : row'[i] # None => row'[i] <= a[i]
  BY <1>2, <1>3 DEF Credits
<1>13. \A i \in RowIds : a[i] <= a[i]
  BY DEF Shared
<1>14. \E q \in Shared : Owns(mem'[t], a, q)
  BY <1>7, <1>11
<1>15. Credits(a)'
  BY <1>1, <1>2, <1>7, <1>12, <1>13, <1>14, CreditsKept
<1> QED BY <1>1, <1>15 DEF CreditInv

\* The new rows of a commit, a subscription each.
Fresh(last, k) == [i \in RowIds |-> IF i > last /\ i <= last + k THEN 1 ELSE 0]

\* New rows hold one subscription each.
LEMMA FreshRows ==
    ASSUME NEW last \in Nat, NEW k \in {0, 1, 2}, last + k <= 2 * MaxRequests
    PROVE  Fresh(last, k) \in Shared /\ All(Fresh(last, k)) = k
<1>1. RowIds \subseteq Nat /\ IsFiniteSet(RowIds)
  BY RowsFinite
<1>2. \A n \in {0, 1, 2} : Fresh(last, n) \in Shared /\ \A i \in RowIds : Fresh(last, n)[i] = IF i > last /\ i <= last + n THEN 1 ELSE 0
  BY DEF Fresh, Shared
<1>3. All(Fresh(last, 0)) = 0
  <2>1. \A i \in RowIds : Fresh(last, 0)[i] = 0
    BY <1>1, <1>2
  <2> QED BY <1>1, <2>1, SumZero DEF All
<1>4. ASSUME NEW n \in {0, 1}, last + n + 1 <= 2 * MaxRequests PROVE All(Fresh(last, n + 1)) = All(Fresh(last, n)) + 1
  <2> DEFINE f == Fresh(last, n)
             g == Fresh(last, n + 1)
             x == last + n + 1
  <2>1. x \in RowIds
    BY <1>1, <1>4, RowsFinite
  <2>2. \A i \in RowIds : f[i] \in Nat /\ g[i] \in Nat
    BY <1>2
  <2>3. f[x] = 0 /\ g[x] = 1
    BY <1>1, <1>2, <2>1
  <2>4. \A i \in RowIds : i # x => g[i] = f[i]
    BY <1>1, <1>2
  <2> HIDE DEF f, g, x
  <2>5. \A i \in RowIds : f[i] \in Int /\ g[i] \in Int
    BY <2>2
  <2>6. SumBy(g, RowIds) = SumBy(f, RowIds) - f[x] + g[x]
    <3>1. IsFiniteSet(RowIds)
      BY <1>1
    <3> QED BY <2>1, <2>4, <2>5, <3>1, SumChange
  <2>7. SumBy(f, RowIds) \in Nat
    BY <1>1, <2>2, SumNat
  <2>8. All(g) = All(f) + 1
    BY <2>3, <2>6, <2>7 DEF All
  <2> QED BY <2>8 DEF f, g
<1>5. All(Fresh(last, k)) = k
  <2>1. CASE k = 0
    BY <1>3, <2>1
  <2>2. CASE k = 1
    <3>1. All(Fresh(last, 0 + 1)) = All(Fresh(last, 0)) + 1
      BY <1>1, <1>4, <2>2
    <3> QED BY <1>3, <2>2, <3>1
  <2>3. CASE k = 2
    <3>1. last + 0 + 1 <= 2 * MaxRequests /\ last + 1 + 1 <= 2 * MaxRequests
      BY <1>1, <2>3, Bounds
    <3>2. All(Fresh(last, 0 + 1)) = All(Fresh(last, 0)) + 1 /\ All(Fresh(last, 1 + 1)) = All(Fresh(last, 1)) + 1
      BY <1>4, <3>1
    <3> QED BY <1>3, <2>3, <3>2
  <2> QED BY <2>1, <2>2, <2>3
<1> QED BY <1>2, <1>5

\* The pointwise sum of two attributions.
Both(f, g) == [i \in RowIds |-> f[i] + g[i]]

\* Two attributions together attribute the sum of both.
LEMMA BothSum ==
    ASSUME NEW f, NEW g, \A i \in RowIds : f[i] \in Int /\ g[i] \in Int
    PROVE  All(Both(f, g)) = All(f) + All(g) /\ \A i \in RowIds : Both(f, g)[i] = f[i] + g[i]
<1>1. \A i \in RowIds : Both(f, g)[i] = f[i] + g[i]
  BY DEF Both
<1>2. \A i \in RowIds : f[i] \in Int /\ g[i] \in Int /\ Both(f, g)[i] = f[i] + g[i]
  BY <1>1
<1>3. All(Both(f, g)) = All(f) + All(g)
  BY <1>2, RowsFinite, SumAdds DEF All
<1> QED BY <1>1, <1>3

\* There is room for the rows that a request brings.
LEMMA RoomForFresh ==
    ASSUME SessionInv, NEW t \in Tasks, pc[t] = "commit", mem[t] \in Subscribe!Memory
    PROVE  mem[t].fresh \in {0, 1, 2} /\ born + mem[t].fresh <= 2 * MaxRequests
<1>1. mem[t].fresh \in Nat /\ mem[t].left \in Nat /\ mem[t].fresh + mem[t].left <= 2
  BY Fields DEF SessionInv, Session, Valid
<1>2. born + 2 * Cardinality(Busy) <= 2 * asked /\ born \in Nat /\ asked \in Nat /\ asked <= MaxRequests /\ MaxRequests \in Nat
  BY SubTypes, Bounds DEF SessionInv
<1>3. Cardinality(Busy) \in Nat /\ Cardinality(Busy) # 0
  <2>1. IsFiniteSet(Busy)
    BY BoundsAssumption, FS_Subset DEF Busy
  <2>2. t \in Busy
    BY DEF Busy
  <2> QED BY <2>1, <2>2, FS_CardinalityType, FS_EmptySet
<1> HIDE DEF Busy
<1> QED BY <1>1, <1>2, <1>3

\* A commit: what a request held becomes what a row holds.
LEMMA CommitCredits == ASSUME CreditInv, NEW t \in Tasks, Subscribe!Commit(t) PROVE CreditInv'
<1>1. SessionInv /\ SessionInv'
  BY CommitSession DEF CreditInv
<1>2. PICK a \in Shared : Credits(a)
  BY DEF CreditInv
<1>3. pc[t] = "commit" /\ mem[t] \in Subscribe!Memory
  BY <1>1, CommitDoes
<1>4. PICK n \in Subscribe!Memory : n = mem[t]
  BY <1>3
<1>5. row \in Counts /\ born \in Nat /\ added \in Nat
  BY <1>1, SubTypes
<1>6. /\ \A u \in Tasks : u # t => pc'[u] = pc[u] /\ mem'[u] = mem[u]
      /\ t \notin Busy'
  <2>1. PICK s \in {"failed", "idle", "refresh"}, m \in Subscribe!Memory \cup {None} :
            pc' = [pc EXCEPT ![t] = s] /\ mem' = [mem EXCEPT ![t] = m]
    BY <1>1, CommitDoes
  <2> QED BY <1>1, <2>1, SubTypes DEF Busy
<1>7. All(a) <= added /\ (\A i \in RowIds : row[i] # None => row[i] <= a[i]) /\ \A i \in RowIds : a[i] \in Nat
  BY <1>2 DEF Credits, Shared
<1>8. CASE UNCHANGED <<dialect, row, born, added, tally>>
  <2>1. \A i \in RowIds : a[i] <= a[i]
    BY <1>7
  <2>2. Credits(a)'
    BY <1>1, <1>2, <1>6, <1>7, <1>8, <2>1, CreditsKept
  <2> QED BY <1>1, <2>2 DEF CreditInv
<1>9. ASSUME NEW last \in 0..born, row' = Writing(n, last), added' = added + Brought(n.kind) PROVE CreditInv'
  <2>0. last \in Nat /\ last <= born
    BY <1>5, <1>9
  <2>1. n.fresh \in {0, 1, 2} /\ born + n.fresh <= 2 * MaxRequests /\ n.left = 0 /\ n.kind \in {"add", "batch", "done"} /\ n.loaded \in Counts
    BY <1>1, <1>3, <1>4, RoomForFresh, Fields DEF SessionInv, Session, Valid
  <2>2. PICK o \in Shared : Owns(n, a, o)
    BY <1>2, <1>3, <1>4 DEF Credits, Busy
  <2>3. Fresh(last, n.fresh) \in Shared /\ All(Fresh(last, n.fresh)) = n.fresh
    <3>1. last + n.fresh <= 2 * MaxRequests
      BY <1>5, <2>0, <2>1, Bounds
    <3> QED BY <2>0, <2>1, <3>1, FreshRows
  <2> DEFINE b == Both(a, o)
             h == Fresh(last, n.fresh)
             c == Both(b, h)
  <2>4. \A i \in RowIds : a[i] \in Nat /\ o[i] \in Nat /\ h[i] \in Nat
    BY <2>2, <2>3 DEF Shared
  <2>5. All(b) = All(a) + All(o) /\ \A i \in RowIds : b[i] = a[i] + o[i]
    <3>1. \A i \in RowIds : a[i] \in Int /\ o[i] \in Int
      BY <2>4
    <3> HIDE DEF h
    <3> QED BY <3>1, BothSum
  <2>6. All(c) = All(b) + All(h) /\ \A i \in RowIds : c[i] = b[i] + h[i]
    <3>1. \A i \in RowIds : b[i] \in Int /\ h[i] \in Int
      BY <2>4, <2>5
    <3> HIDE DEF b, h
    <3> QED BY <3>1, BothSum
  <2>7. c \in Shared
    BY <2>4, <2>5, <2>6 DEF Both, Shared
  <2>8. \A i \in RowIds : h[i] = IF i > last /\ i <= last + n.fresh THEN 1 ELSE 0
    BY DEF Fresh
  <2>9. All(a) \in Nat /\ All(o) \in Nat
    BY <2>2, RowsFinite, SumNat DEF All, Shared
  <2>10. All(o) + n.fresh = Brought(n.kind)
    BY <2>1, <2>2, <2>9 DEF Owns, Brought
  <2> HIDE DEF b, h, c
  <2>11. All(c) <= added'
    <3>1. All(h) = n.fresh
      BY <2>3 DEF h
    <3> QED BY <1>5, <1>7, <1>9, <2>1, <2>5, <2>6, <2>9, <2>10, <3>1
  <2>12. ASSUME NEW i \in RowIds, row'[i] # None PROVE row'[i] <= c[i]
    <3>1. c[i] = a[i] + o[i] + h[i] /\ a[i] \in Nat /\ o[i] \in Nat /\ h[i] \in Nat
      BY <2>4, <2>5, <2>6
    <3>2. row[i] # None => row[i] \in Int /\ row[i] <= a[i]
      BY <1>5, <1>7 DEF Counts
    <3>3. n.loaded[i] # None => n.loaded[i] \in Int /\ n.loaded[i] <= a[i] + o[i]
      BY <2>1, <2>2 DEF Owns, Counts
    <3>4. row'[i] = IF i > last /\ i <= last + n.fresh THEN 1
                    ELSE IF n.loaded[i] = None \/ row[i] = None THEN row[i]
                    ELSE IF n.loaded[i] > 0 THEN n.loaded[i] ELSE None
      BY <1>9 DEF Writing
    <3>5. CASE i > last /\ i <= last + n.fresh
      BY <2>8, <3>1, <3>4, <3>5
    <3>6. CASE ~(i > last /\ i <= last + n.fresh)
      BY <2>12, <3>1, <3>2, <3>3, <3>4, <3>6
    <3> QED BY <3>5, <3>6
  <2>13. \A i \in RowIds : a[i] <= c[i]
    BY <2>4, <2>5, <2>6
  <2>14. PICK d \in Shared : d = c
    BY <2>7
  <2>15. All(d) <= added' /\ (\A i \in RowIds : row'[i] # None => row'[i] <= d[i]) /\ \A i \in RowIds : a[i] <= d[i]
    BY <2>11, <2>12, <2>13, <2>14
  <2>16. Credits(d)'
    BY <1>1, <1>2, <1>6, <2>15, CreditsKept
  <2> QED BY <1>1, <2>16 DEF CreditInv
<1> QED BY <1>1, <1>4, <1>8, <1>9, CommitDoes

\* A step that begins and commits nothing.
LEMMA OtherCredits ==
    ASSUME CreditInv, SessionInv', UNCHANGED added, \A u \in Busy' : u \in Busy /\ mem'[u] = mem[u],
           \A i \in RowIds : row'[i] # None => row'[i] = row[i]
    PROVE  CreditInv'
<1>1. PICK a \in Shared : Credits(a)
  BY DEF CreditInv
<1>2. \A u \in Busy' : \E o \in Shared : Owns(mem'[u], a, o)
  BY <1>1 DEF Credits
<1>3. All(a) <= added' /\ \A i \in RowIds : row'[i] # None => row'[i] <= a[i]
  BY <1>1 DEF Credits
<1>4. Credits(a)'
  BY <1>2, <1>3 DEF Credits
<1> QED BY <1>4 DEF CreditInv

\* Every step keeps an attribution as long as no other medium's request can
\* reach a row.
LEMMA CreditStep == CreditInv /\ dialect = "postgresql" /\ Subscribe!Next => CreditInv'
<1> SUFFICES ASSUME CreditInv, dialect = "postgresql", Subscribe!Next PROVE CreditInv'
  OBVIOUS
<1>1. SessionInv
  BY DEF CreditInv
<1>2. ASSUME NEW t \in Tasks, Subscribe!Refresh(t) PROVE CreditInv'
  <2>1. SessionInv'
    BY <1>1, <1>2, RefreshSession
  <2>2. UNCHANGED <<row, added>>
    BY <1>2 DEF Subscribe!Refresh
  <2>3. \A u \in Busy' : u \in Busy /\ mem'[u] = mem[u]
    <3>1. PICK s \in {"idle", "failed"} : pc' = [pc EXCEPT ![t] = s] /\ mem' = [mem EXCEPT ![t] = None]
      BY <1>2 DEF Subscribe!Refresh, Subscribe!Goto
    <3> QED BY <1>1, <3>1, SubTypes DEF Busy
  <2> QED BY <2>1, <2>2, <2>3, OtherCredits
<1>3. ASSUME NEW j \in RowIds, Subscribe!Delete(j) PROVE CreditInv'
  <2>1. SessionInv'
    BY <1>1, <1>3, DeleteSession
  <2>2. UNCHANGED <<added, pc, mem>> /\ row' = [row EXCEPT ![j] = None]
    BY <1>3 DEF Subscribe!Delete
  <2>3. \A u \in Busy' : u \in Busy /\ mem'[u] = mem[u]
    BY <2>2 DEF Busy
  <2>4. \A i \in RowIds : row'[i] # None => row'[i] = row[i]
    BY <1>1, <2>2, SubTypes DEF Counts
  <2> QED BY <2>1, <2>2, <2>3, <2>4, OtherCredits
<1>4. \A i, n : ~Subscribe!ForeignWrite(i, n)
  BY DEF Subscribe!ForeignWrite
<1> QED BY <1>2, <1>3, <1>4, AskCredits, ReadCredits, CommitCredits DEF Subscribe!Next, RowIds

\* What the medium counts, summed over all ids.
Value(r) == [i \in RowIds |-> IF r[i] = None THEN 0 ELSE r[i]]

\* The popularity of the module is the sum of the counts.
LEMMA PopularityIs == SessionInv => Subscribe!Popularity = All(Value(row)) /\ \A i \in RowIds : Value(row)[i] \in Nat
<1> SUFFICES ASSUME SessionInv PROVE Subscribe!Popularity = All(Value(row)) /\ \A i \in RowIds : Value(row)[i] \in Nat
  OBVIOUS
<1> DEFINE P == Subscribe!Present(row)
           v == Value(row)
<1>1. P \subseteq RowIds /\ IsFiniteSet(P) /\ IsFiniteSet(RowIds) /\ IsFiniteSet(RowIds \ P)
  BY RowsFinite, FS_Subset DEF Subscribe!Present, RowIds
<1>2. \A i \in RowIds : v[i] \in Nat /\ (i \in P => v[i] = row[i]) /\ (i \notin P => v[i] = 0)
  BY SubTypes DEF Value, Subscribe!Present, RowIds, SessionInv, Subscribe!PopularityPositive, Counts
<1>3. Subscribe!Popularity = SumBy(row, P)
  <2>1. Subscribe!Popularity = SumFunctionOnSet(row, P)
    BY DEF Subscribe!Popularity, Subscribe!SumFunctionOnSet, SumFunctionOnSet, FoldFunctionOnSet, MapThenFoldSet,
           Subscribe!FoldFunctionOnSet, Subscribe!MapThenFoldSet
  <2> QED BY <2>1, SumDefined
<1> HIDE DEF P, v
<1>4. SumBy(row, P) = SumBy(v, P)
  <2>1. \A i \in P : row[i] = v[i]
    BY <1>1, <1>2
  <2> QED BY <1>1, <2>1, SumSame
<1>5. SumBy(v, P \cup (RowIds \ P)) = SumBy(v, P) + SumBy(v, RowIds \ P)
  <2>1. \A i \in P \cup (RowIds \ P) : v[i] \in Int
    BY <1>1, <1>2
  <2>2. P \cap (RowIds \ P) = {}
    OBVIOUS
  <2> QED BY <1>1, <2>1, <2>2, SumUnion
<1>6. SumBy(v, RowIds \ P) = 0
  <2>1. \A i \in RowIds \ P : v[i] = 0
    BY <1>2
  <2> QED BY <1>1, <2>1, SumZero
<1>7. P \cup (RowIds \ P) = RowIds
  BY <1>1
<1>8. SumBy(v, P) \in Nat
  <2>1. \A i \in P : v[i] \in Nat
    BY <1>1, <1>2
  <2> QED BY <1>1, <2>1, SumNat
<1>9. Subscribe!Popularity = SumBy(v, RowIds)
  <2>1. SumBy(v, RowIds) = SumBy(v, P) + SumBy(v, RowIds \ P)
    BY <1>5, <1>7
  <2> QED BY <1>3, <1>4, <1>6, <1>8, <2>1
<1>10. \A i \in RowIds : v[i] \in Nat
  BY <1>2
<1> QED BY <1>9, <1>10 DEF All, v

\* Nothing is invented.
LEMMA CreditHolds == CreditInv => Subscribe!Popularity <= added
<1> SUFFICES ASSUME CreditInv PROVE Subscribe!Popularity <= added
  OBVIOUS
<1>1. SessionInv
  BY DEF CreditInv
<1>2. PICK a \in Shared : Credits(a)
  BY DEF CreditInv
<1>3. Subscribe!Popularity = All(Value(row)) /\ \A i \in RowIds : Value(row)[i] \in Nat
  BY <1>1, PopularityIs
<1>4. \A i \in RowIds : Value(row)[i] \in Int /\ a[i] \in Int /\ Value(row)[i] <= a[i]
  BY <1>2, <1>3 DEF Credits, Value, Shared
<1>5. All(Value(row)) <= All(a)
  BY <1>4, RowsFinite, SumBounded DEF All
<1>6. All(Value(row)) \in Nat /\ All(a) \in Nat /\ added \in Nat /\ All(a) <= added
  BY <1>1, <1>2, <1>3, RowsFinite, SumNat, SubTypes DEF All, Credits, Shared
<1> QED BY <1>3, <1>5, <1>6

\* Without overlap: what the one request that is under way holds fits the rows.
Underway == {t \in Tasks : pc[t] \in {"read", "commit", "refresh"}}
Gain(r, m) == [i \in RowIds |-> IF m.loaded[i] = None THEN 0 ELSE m.loaded[i] - r[i]]
Empty(r) == \A i \in RowIds : r[i] = None
FitsRows(r, step, m) ==
    /\ step \in {"read", "commit", "refresh"} => \A i \in RowIds : m.loaded[i] # None => r[i] # None
    /\ step \in {"read", "commit"} =>
         /\ m.fresh > 0 => Empty(r)
         /\ m.kind # "done" =>
              /\ \A i \in RowIds : m.loaded[i] # None => m.loaded[i] > r[i]
              /\ All(Gain(r, m)) + m.fresh + m.left = Brought(m.kind)
         /\ m.kind = "done" /\ step = "read" => Empty(m.loaded)
         /\ m.kind = "done" /\ step = "commit" =>
              \/ Empty(m.loaded) /\ Empty(r)
              \/ \E j \in RowIds : /\ r[j] # None /\ m.loaded[j] = r[j] - 1
                                   /\ \A i \in RowIds : i # j => m.loaded[i] = None
Undisturbed ==
    /\ All(Value(row)) = tally
    /\ \A t \in Tasks : pc[t] # "failed"
    /\ \A t, u \in Underway : t = u
    /\ \A t \in Tasks : FitsRows(row, pc[t], mem[t])
AloneInv == SessionInv /\ (dialect = "postgresql" => CreditInv) /\ (~raced => Undisturbed)

\* A step of a request that is alone.
LEMMA AloneKept ==
    ASSUME SessionInv, Undisturbed, NEW t \in Tasks, NEW s \in SubSteps \ {"failed"}, NEW m \in Subscribe!Memory \cup {None},
           pc' = [pc EXCEPT ![t] = s], mem' = [mem EXCEPT ![t] = m],
           \A u \in Underway : u = t, FitsRows(row', s, m), All(Value(row')) = tally'
    PROVE  Undisturbed'
<1>1. /\ pc'[t] = s /\ mem'[t] = m /\ \A u \in Tasks : u # t => pc'[u] = pc[u] /\ mem'[u] = mem[u]
  BY SubTypes
<1>2. \A u \in Tasks : u # t => pc[u] \notin {"read", "commit", "refresh"}
  BY DEF Underway
<1>3. \A u \in Tasks : FitsRows(row', pc'[u], mem'[u])
  <2>1. \A u \in Tasks : u # t => FitsRows(row', pc'[u], mem'[u])
    BY <1>1, <1>2 DEF FitsRows
  <2> QED BY <1>1, <2>1
<1>4. \A u \in Tasks : pc'[u] # "failed"
  BY <1>1 DEF Undisturbed
<1>5. \A u, v \in Underway' : u = v
  BY <1>1, <1>2 DEF Underway
<1> QED BY <1>3, <1>4, <1>5 DEF Undisturbed

\* Nobody has overlapped with anyone at first.
LEMMA AloneInit == Subscribe!Init => AloneInv
<1> SUFFICES ASSUME Subscribe!Init PROVE Undisturbed
  BY CreditInit DEF AloneInv, CreditInv
<1>1. pc = [t \in Tasks |-> "idle"] /\ row = [i \in RowIds |-> None] /\ tally = 0
  BY DEF Subscribe!Init, Subscribe!NoRows, RowIds
<1>2. \A i \in RowIds : Value(row)[i] = 0
  BY <1>1 DEF Value
<1>3. All(Value(row)) = 0
  BY <1>2, RowsFinite, SumZero DEF All
<1>4. \A t \in Tasks : pc[t] = "idle"
  BY <1>1
<1> QED BY <1>1, <1>3, <1>4 DEF Undisturbed, Underway, FitsRows

\* A request arrives while the others rest, or the run counts as raced.
LEMMA AskAlone ==
    ASSUME AloneInv, NEW t \in Tasks, Subscribe!AddSubscribe(t) \/ Subscribe!BatchReport(t) \/ Subscribe!DoneSubscribe(t), ~raced'
    PROVE  Undisturbed'
<1>1. SessionInv
  BY DEF AloneInv
<1>2. PICK what \in {"add", "batch", "done"}, k \in {1, 2} :
              /\ k = IF what = "batch" THEN 2 ELSE 1
              /\ NewRequest(what, k) \in Subscribe!Memory
              /\ raced' = (raced \/ Subscribe!Overlaps)
              /\ mem' = [mem EXCEPT ![t] = NewRequest(what, k)] /\ pc' = [pc EXCEPT ![t] = "read"]
              /\ UNCHANGED <<dialect, row, born, added, tally>>
  BY <1>1, SubAsks
<1>3. ~raced /\ ~Subscribe!Overlaps
  BY <1>2, Zenon
<1>4. Undisturbed /\ \A u \in Underway : u = t
  BY <1>3 DEF AloneInv, Subscribe!Overlaps, Underway
<1> DEFINE m == NewRequest(what, k)
<1>5. (\A i \in RowIds : m.loaded[i] = None) /\ m.fresh = 0 /\ m.left = k /\ m.kind = what
  BY DEF NewRequest, Subscribe!NoRows, RowIds
<1> HIDE DEF m
<1>6. All(Gain(row, m)) = 0
  <2>1. \A i \in RowIds : Gain(row, m)[i] = 0
    BY <1>5 DEF Gain
  <2> QED BY <2>1, RowsFinite, SumZero DEF All
<1>7. FitsRows(row', "read", m)
  BY <1>2, <1>5, <1>6 DEF FitsRows, Empty, Brought
<1>8. "read" \in SubSteps \ {"failed"} /\ m \in Subscribe!Memory \cup {None}
  BY <1>2 DEF SubSteps, m
<1>9. All(Value(row')) = tally'
  BY <1>2, <1>4 DEF Undisturbed
<1>10. mem' = [mem EXCEPT ![t] = m] /\ pc' = [pc EXCEPT ![t] = "read"]
  BY <1>2 DEF m
<1>11. PICK w \in Subscribe!Memory \cup {None} : w = m
  BY <1>8
<1> QED BY <1>1, <1>4, <1>7, <1>8, <1>9, <1>10, <1>11, AloneKept

\* A read that nobody overlapped with finds the exact counts.
LEMMA ReadAlone ==
    ASSUME AloneInv, NEW t \in Tasks, Subscribe!Read(t), ~raced'
    PROVE  Undisturbed'
<1>1. SessionInv
  BY DEF AloneInv
<1>2. /\ pc[t] = "read" /\ mem[t] \in Subscribe!Memory
      /\ pc' = [pc EXCEPT ![t] = IF mem[t].left = 1 THEN "commit" ELSE "read"]
      /\ UNCHANGED <<dialect, row, born, added, asked, tally, raced>>
  BY <1>1, ReadDoes
<1>3. PICK m \in Subscribe!Memory : mem' = [mem EXCEPT ![t] = m] /\ Reading(m, mem[t])
  BY <1>1, ReadDoes
<1>4. Undisturbed
  BY <1>2 DEF AloneInv
<1>5. \A u \in Underway : u = t
  <2>1. t \in Underway
    BY <1>2 DEF Underway
  <2> QED BY <1>4, <2>1 DEF Undisturbed
<1>6. PICK n \in Subscribe!Memory : n = mem[t]
  BY <1>2
<1>7. FitsRows(row, "read", n)
  BY <1>2, <1>4, <1>6 DEF Undisturbed
<1>8. /\ n.kind \in {"add", "batch", "done"} /\ n.left \in Nat /\ n.loaded \in Counts /\ n.fresh \in Nat
      /\ m.kind \in {"add", "batch", "done"} /\ m.left \in Nat /\ m.loaded \in Counts /\ m.fresh \in Nat
  BY <1>3, <1>6, Fields
<1>9. (n.kind = "done" => n.left = 1) /\ m.kind = n.kind
  BY <1>1, <1>2, <1>3, <1>6 DEF SessionInv, Session, Valid, Reading
<1>10. row \in Counts /\ \A i \in RowIds : row[i] # None => row[i] \in Nat /\ row[i] > 0
  BY <1>1, SubTypes DEF SessionInv, Subscribe!PopularityPositive, Subscribe!Present, RowIds, Counts
<1> DEFINE s == IF n.left = 1 THEN "commit" ELSE "read"
<1>11. FitsRows(row, s, m)
  <2>1. ASSUME NEW i \in RowIds, row[i] # None, m.left = n.left - 1, m.fresh = n.fresh,
               m.loaded = [n.loaded EXCEPT ![i] = Found(n, i) + Change(n.kind)]
        PROVE  FitsRows(row, s, m)
    <3>1. m.loaded[i] = Found(n, i) + Change(n.kind) /\ \A j \in RowIds : j # i => m.loaded[j] = n.loaded[j]
      BY <1>8, <2>1 DEF Counts
    <3>2. n.fresh = 0
      BY <1>7, <1>8, <2>1 DEF FitsRows, Empty
    <3>3. CASE n.kind = "done"
      <4>1. Empty(n.loaded)
        BY <1>7, <3>3 DEF FitsRows
      <4>2. m.loaded[i] = row[i] - 1 /\ \A j \in RowIds : i # j => m.loaded[j] = None
        BY <3>1, <3>3, <4>1 DEF Empty, Found, Change
      <4>3. s = "commit"
        BY <1>9, <3>3
      <4> QED BY <1>8, <1>9, <2>1, <3>2, <3>3, <4>2, <4>3 DEF FitsRows
    <3>4. CASE n.kind # "done"
      <4>1. /\ \A j \in RowIds : n.loaded[j] # None => row[j] # None /\ n.loaded[j] > row[j] /\ n.loaded[j] \in Int
            /\ All(Gain(row, n)) + n.fresh + n.left = Brought(n.kind)
        BY <1>7, <1>8, <3>4 DEF FitsRows, Counts
      <4>2. m.loaded[i] = Found(n, i) + 1 /\ Found(n, i) \in Nat /\ Found(n, i) >= row[i] /\ m.loaded[i] # None
        BY <1>10, <2>1, <3>1, <3>4, <4>1, AbsentAssumption DEF Found, Change
      <4>3. \A j \in RowIds : m.loaded[j] # None => row[j] # None /\ m.loaded[j] > row[j]
        BY <1>10, <2>1, <3>1, <4>1, <4>2
      <4> DEFINE f == Gain(row, n)
                 g == Gain(row, m)
      <4>4. \A j \in RowIds : f[j] \in Int /\ g[j] \in Int
        BY <1>8, <1>10, <4>1, <4>2, <4>3, <3>1 DEF Gain, Counts
      <4>5. g[i] = f[i] + 1
        BY <1>10, <2>1, <4>1, <4>2 DEF Gain, Found
      <4>6. \A j \in RowIds : j # i => g[j] = f[j]
        BY <3>1 DEF Gain
      <4> HIDE DEF f, g
      <4>7. SumBy(g, RowIds) = SumBy(f, RowIds) - f[i] + g[i]
        <5>1. IsFiniteSet(RowIds)
          BY RowsFinite
        <5> QED BY <4>4, <4>6, <5>1, SumChange
      <4>8. SumBy(f, RowIds) \in Int
        BY <4>4, RowsFinite, SumInt
      <4>9. All(g) = All(f) + 1 /\ All(f) \in Int
        BY <4>4, <4>5, <4>7, <4>8 DEF All
      <4>10. All(g) + m.fresh + m.left = Brought(m.kind)
        BY <1>8, <1>9, <2>1, <4>1, <4>9 DEF f
      <4>11. m.fresh = 0 /\ m.kind # "done"
        BY <1>9, <2>1, <3>2, <3>4
      <4>12. All(Gain(row, m)) + m.fresh + m.left = Brought(m.kind)
        BY <4>10 DEF g
      <4>13. ~(m.fresh > 0)
        BY <4>11
      <4> HIDE DEF s
      <4> QED BY <4>3, <4>11, <4>12, <4>13 DEF FitsRows
    <3> QED BY <3>3, <3>4
  <2>2. ASSUME Nobody, n.kind # "done", m.left = n.left - 1, m.fresh = n.fresh + 1, m.loaded = n.loaded
        PROVE  FitsRows(row, s, m)
    <3>1. Empty(row) /\ Gain(row, m) = Gain(row, n)
      BY <2>2 DEF Nobody, Empty, Gain
    <3>2. /\ \A i \in RowIds : n.loaded[i] # None => row[i] # None /\ n.loaded[i] > row[i]
          /\ All(Gain(row, n)) + n.fresh + n.left = Brought(n.kind)
      BY <1>7, <2>2 DEF FitsRows
    <3>3. All(Gain(row, n)) \in Int
      <4>1. PICK f : f = Gain(row, n)
        OBVIOUS
      <4>2. \A i \in RowIds : f[i] = 0
        BY <3>1, <3>2, <4>1 DEF Gain, Empty
      <4>3. SumBy(f, RowIds) = 0
        BY <4>2, RowsFinite, SumZero
      <4> QED BY <4>1, <4>3 DEF All
    <3>4. All(Gain(row, m)) + m.fresh + m.left = Brought(m.kind)
      BY <1>8, <1>9, <2>2, <3>1, <3>2, <3>3
    <3> QED BY <1>9, <2>2, <3>1, <3>2, <3>4 DEF FitsRows
  <2>3. ASSUME Nobody, n.kind = "done", m.left = 0, m.fresh = n.fresh, m.loaded = n.loaded
        PROVE  FitsRows(row, s, m)
    <3>1. Empty(m.loaded) /\ Empty(row) /\ s = "commit"
      BY <1>7, <1>9, <2>3 DEF FitsRows, Nobody, Empty
    <3> QED BY <1>9, <2>3, <3>1 DEF FitsRows, Empty
  <2> QED BY <1>3, <1>6, <2>1, <2>2, <2>3 DEF Reading
<1>12. s \in SubSteps \ {"failed"} /\ pc' = [pc EXCEPT ![t] = s]
  BY <1>2, <1>6 DEF SubSteps
<1>13. All(Value(row')) = tally'
  BY <1>2, <1>4 DEF Undisturbed
<1>14. m \in Subscribe!Memory \cup {None}
  BY <1>3
<1> HIDE DEF s
<1>15. FitsRows(row', s, m)
  BY <1>2, <1>11
<1> QED BY <1>1, <1>3, <1>4, <1>5, <1>12, <1>13, <1>14, <1>15, AloneKept

\* A commit that nobody overlapped with writes exactly what it has counted.
LEMMA CommitAlone ==
    ASSUME AloneInv, NEW t \in Tasks, Subscribe!Commit(t), ~raced'
    PROVE  Undisturbed'
<1>1. SessionInv
  BY DEF AloneInv
<1>2. pc[t] = "commit" /\ mem[t] \in Subscribe!Memory /\ UNCHANGED <<dialect, asked, raced>>
  BY <1>1, CommitDoes
<1>3. Undisturbed
  BY <1>2 DEF AloneInv
<1>4. \A u \in Underway : u = t
  <2>1. t \in Underway
    BY <1>2 DEF Underway
  <2> QED BY <1>3, <2>1 DEF Undisturbed
<1>5. PICK n \in Subscribe!Memory : n = mem[t]
  BY <1>2
<1>6. FitsRows(row, "commit", n)
  BY <1>2, <1>3, <1>5 DEF Undisturbed
<1>7. n.kind \in {"add", "batch", "done"} /\ n.left \in Nat /\ n.loaded \in Counts /\ n.fresh \in Nat
  BY <1>5, Fields
<1>8. n.left = 0 /\ (n.kind = "done" => n.fresh = 0) /\ n.fresh \in {0, 1, 2} /\ born + n.fresh <= 2 * MaxRequests
  BY <1>1, <1>2, <1>5, RoomForFresh DEF SessionInv, Session, Valid
<1>9. row \in Counts /\ (\A i \in RowIds : row[i] # None => row[i] \in Nat /\ row[i] > 0) /\ tally \in Int /\ born \in Nat
  BY <1>1, SubTypes DEF SessionInv, Subscribe!PopularityPositive, Subscribe!Present, RowIds, Counts
<1>10. ~Fails(n)
  BY <1>6 DEF Fails, FitsRows
<1>11. /\ \E last \in 0..born : row' = Writing(n, last)
       /\ tally' = Counting(n.kind)
       /\ \E s \in {"idle", "refresh"}, m \in Subscribe!Memory \cup {None} :
             Kept(s, m) /\ pc' = [pc EXCEPT ![t] = s] /\ mem' = [mem EXCEPT ![t] = m]
  BY <1>1, <1>5, <1>10, CommitDoes
<1>12. PICK s \in {"idle", "refresh"}, m \in Subscribe!Memory \cup {None} :
             Kept(s, m) /\ pc' = [pc EXCEPT ![t] = s] /\ mem' = [mem EXCEPT ![t] = m]
  BY <1>11
<1>0. PICK last \in 0..born : row' = Writing(n, last)
  BY <1>11
<1>13. \A i \in RowIds : row'[i] = IF i > last /\ i <= last + n.fresh THEN 1
                                   ELSE IF n.loaded[i] = None \/ row[i] = None THEN row[i]
                                   ELSE IF n.loaded[i] > 0 THEN n.loaded[i] ELSE None
  BY <1>0 DEF Writing
<1> DEFINE v == Value(row)
           w == Value(row')
<1>14. \A i \in RowIds : v[i] \in Nat /\ v[i] = IF row[i] = None THEN 0 ELSE row[i]
  BY <1>9 DEF Value
<1>15. \A i \in RowIds : w[i] = IF row'[i] = None THEN 0 ELSE row'[i]
  BY DEF Value
<1>16. All(v) = tally /\ All(v) \in Nat
  <2>1. All(v) = tally
    BY <1>3 DEF Undisturbed
  <2> HIDE DEF v
  <2> QED BY <1>14, <2>1, RowsFinite, SumNat DEF All
<1> HIDE DEF v, w
<1>17. ASSUME n.kind # "done" PROVE All(w) = tally'
  <2> DEFINE g == Gain(row, n)
             h == Fresh(last, n.fresh)
             b == Both(v, g)
  <2>1. /\ \A i \in RowIds : n.loaded[i] # None => row[i] # None /\ n.loaded[i] > row[i] /\ n.loaded[i] \in Int
        /\ All(g) + n.fresh + n.left = Brought(n.kind)
        /\ n.fresh > 0 => Empty(row)
    BY <1>6, <1>7, <1>17 DEF FitsRows, Counts
  <2>2. h \in Shared /\ All(h) = n.fresh
    <3>1. last \in Nat /\ last + n.fresh <= 2 * MaxRequests
      BY <1>8, <1>9, Bounds
    <3> QED BY <1>8, <3>1, FreshRows
  <2>3. \A i \in RowIds : h[i] = IF i > last /\ i <= last + n.fresh THEN 1 ELSE 0
    BY DEF Fresh
  <2>4. \A i \in RowIds : g[i] \in Int /\ g[i] = IF n.loaded[i] = None THEN 0 ELSE n.loaded[i] - row[i]
    BY <1>9, <2>1 DEF Gain
  <2>5. All(b) = All(v) + All(g) /\ \A i \in RowIds : b[i] = v[i] + g[i]
    <3>1. \A i \in RowIds : v[i] \in Int /\ g[i] \in Int
      BY <1>14, <2>4
    <3> HIDE DEF g
    <3> QED BY <3>1, BothSum
  <2> HIDE DEF g, h, b
  <2>6. ASSUME NEW i \in RowIds PROVE b[i] \in Int /\ h[i] \in Int /\ w[i] = b[i] + h[i]
    <3>1. i \in Nat
      BY RowsFinite
    <3>2. CASE i > last /\ i <= last + n.fresh
      <4>1. n.fresh > 0
        BY <1>7, <1>9, <3>1, <3>2
      <4>2. row[i] = None /\ n.loaded[i] = None
        BY <2>1, <4>1 DEF Empty
      <4>3. row'[i] = 1 /\ h[i] = 1 /\ b[i] = 0
        BY <1>13, <1>14, <2>3, <2>4, <2>5, <3>2, <4>2
      <4>4. w[i] = 1
        BY <1>15, <4>3, AbsentAssumption
      <4> QED BY <4>3, <4>4
    <3>3. CASE ~(i > last /\ i <= last + n.fresh)
      <4>1. h[i] = 0
        BY <2>3, <3>3
      <4>2. CASE n.loaded[i] = None
        <5>1. row'[i] = row[i] /\ g[i] = 0
          BY <1>13, <2>4, <3>3, <4>2
        <5>2. w[i] = v[i]
          BY <1>14, <1>15, <5>1
        <5> QED BY <1>14, <2>5, <4>1, <5>1, <5>2
      <4>3. CASE n.loaded[i] # None
        <5>1. row[i] # None /\ n.loaded[i] > row[i] /\ n.loaded[i] \in Int /\ row[i] \in Nat /\ row[i] > 0
          BY <1>9, <2>1, <4>3
        <5>2. row'[i] = n.loaded[i]
          BY <1>13, <3>3, <4>3, <5>1
        <5>3. v[i] = row[i] /\ g[i] = n.loaded[i] - row[i] /\ w[i] = n.loaded[i]
          BY <1>14, <1>15, <2>4, <4>3, <5>1, <5>2
        <5> QED BY <2>5, <4>1, <5>1, <5>3
      <4> QED BY <4>2, <4>3
    <3> QED BY <3>2, <3>3
  <2>7. All(w) = All(b) + All(h)
    <3>1. IsFiniteSet(RowIds)
      BY RowsFinite
    <3> QED BY <2>6, <3>1, SumAdds DEF All
  <2>8. All(g) \in Int
    BY <2>4, RowsFinite, SumInt DEF All
  <2>9. tally' = tally + Brought(n.kind) /\ Brought(n.kind) \in Nat
    BY <1>11, <1>17 DEF Counting, Brought
  <2>10. All(w) = tally'
    BY <1>7, <1>8, <1>16, <2>1, <2>2, <2>5, <2>7, <2>8, <2>9
  <2> QED BY <2>10
<1>18. ASSUME n.kind = "done" PROVE All(w) = tally'
  <2>1. tally' = IF tally > 0 THEN tally - 1 ELSE 0
    BY <1>11, <1>18 DEF Counting
  <2>2. \A i \in RowIds : ~(i > last /\ i <= last + n.fresh)
    BY <1>8, <1>9, <1>18, RowsFinite
  <2>3. CASE Empty(n.loaded) /\ Empty(row)
    <3>1. \A i \in RowIds : v[i] = 0 /\ w[i] = 0
      BY <1>13, <1>14, <1>15, <2>2, <2>3 DEF Empty
    <3>2. All(v) = 0 /\ All(w) = 0
      BY <3>1, RowsFinite, SumZero DEF All
    <3> QED BY <1>16, <2>1, <3>2
  <2>4. CASE \E j \in RowIds : /\ row[j] # None /\ n.loaded[j] = row[j] - 1
                               /\ \A i \in RowIds : i # j => n.loaded[i] = None
    <3>1. PICK j \in RowIds : /\ row[j] # None /\ n.loaded[j] = row[j] - 1
                              /\ \A i \in RowIds : i # j => n.loaded[i] = None
      BY <2>4
    <3>2. row[j] \in Nat /\ row[j] > 0 /\ n.loaded[j] \in Nat /\ n.loaded[j] # None
      BY <1>9, <3>1, AbsentAssumption
    <3>3. \A i \in RowIds : i # j => w[i] = v[i]
      BY <1>13, <1>14, <1>15, <2>2, <3>1
    <3>4. v[j] = row[j] /\ w[j] = row[j] - 1
      <4>1. row'[j] = IF n.loaded[j] > 0 THEN n.loaded[j] ELSE None
        BY <1>13, <2>2, <3>1, <3>2
      <4> QED BY <1>14, <1>15, <3>1, <3>2, <4>1
    <3>5. \A i \in RowIds : v[i] \in Int /\ w[i] \in Int
      BY <1>14, <3>2, <3>3, <3>4
    <3>6. SumBy(w, RowIds) = SumBy(v, RowIds) - v[j] + w[j]
      <4>1. IsFiniteSet(RowIds)
        BY RowsFinite
      <4> QED BY <3>1, <3>3, <3>5, <4>1, SumChange
    <3>7. v[j] <= SumBy(v, RowIds)
      <4>1. \A i \in RowIds : v[i] \in Nat
        BY <1>14
      <4>2. IsFiniteSet(RowIds)
        BY RowsFinite
      <4> QED BY <3>1, <4>1, <4>2, SumPoint
    <3> QED BY <1>16, <2>1, <3>2, <3>4, <3>6, <3>7 DEF All
  <2> QED BY <1>6, <1>18, <2>3, <2>4 DEF FitsRows
<1>19. All(Value(row')) = tally'
  BY <1>17, <1>18 DEF w
<1>20. FitsRows(row', s, m)
  <2>1. CASE s = "idle"
    BY <2>1 DEF FitsRows
  <2>2. CASE s = "refresh"
    <3>1. \A i \in RowIds : m.loaded[i] = IF row'[i] # row[i] THEN row'[i] ELSE None
      BY <1>12, <2>2 DEF Kept
    <3>2. \A i \in RowIds : m.loaded[i] # None => row'[i] # None
      BY <3>1
    <3> QED BY <2>2, <3>2 DEF FitsRows
  <2> QED BY <1>12, <2>1, <2>2
<1>21. s \in SubSteps \ {"failed"}
  BY <1>12 DEF SubSteps
<1> QED BY <1>1, <1>3, <1>4, <1>12, <1>19, <1>20, <1>21, AloneKept

\* A session is refreshed and its request ends.
LEMMA RefreshAlone ==
    ASSUME AloneInv, NEW t \in Tasks, Subscribe!Refresh(t), ~raced'
    PROVE  Undisturbed'
<1>1. SessionInv
  BY DEF AloneInv
<1>2. pc[t] = "refresh" /\ UNCHANGED <<dialect, row, born, added, asked, tally, raced>> /\ mem' = [mem EXCEPT ![t] = None]
  BY DEF Subscribe!Refresh
<1>3. Undisturbed
  BY <1>2 DEF AloneInv
<1>4. \A u \in Underway : u = t
  <2>1. t \in Underway
    BY <1>2 DEF Underway
  <2> QED BY <1>3, <2>1 DEF Undisturbed
<1>5. \A i \in RowIds : mem[t].loaded[i] # None => row[i] # None
  BY <1>2, <1>3 DEF Undisturbed, FitsRows
<1>6. pc' = [pc EXCEPT ![t] = "idle"]
  BY <1>5 DEF Subscribe!Refresh, Subscribe!Goto, Subscribe!Present, RowIds
<1>7. FitsRows(row', "idle", None) /\ "idle" \in SubSteps \ {"failed"}
  BY DEF FitsRows, SubSteps
<1>8. All(Value(row')) = tally'
  BY <1>2, <1>3 DEF Undisturbed
<1> QED BY <1>1, <1>2, <1>3, <1>4, <1>6, <1>7, <1>8, AloneKept

\* The cleanup of a row overlaps with no request, or the run counts as raced.
LEMMA DeleteAlone ==
    ASSUME AloneInv, NEW j \in RowIds, Subscribe!Delete(j), ~raced'
    PROVE  Undisturbed'
<1>1. SessionInv
  BY DEF AloneInv
<1>2. /\ row[j] # None /\ row' = [row EXCEPT ![j] = None] /\ tally' = tally - row[j]
      /\ raced' = (raced \/ Subscribe!Overlaps) /\ UNCHANGED <<dialect, born, added, pc, mem>>
  BY DEF Subscribe!Delete
<1>3. ~raced /\ ~Subscribe!Overlaps
  BY <1>2, Zenon
<1>4. Undisturbed /\ \A t \in Tasks : pc[t] \notin {"read", "commit", "refresh"}
  BY <1>3 DEF AloneInv, Subscribe!Overlaps
<1>5. row \in Counts /\ (\A i \in RowIds : row[i] # None => row[i] \in Nat /\ row[i] > 0) /\ tally \in Int
  BY <1>1, SubTypes DEF SessionInv, Subscribe!PopularityPositive, Subscribe!Present, RowIds, Counts
<1> DEFINE v == Value(row)
           w == Value(row')
<1>6. /\ v[j] = row[j] /\ w[j] = 0 /\ \A i \in RowIds : i # j => w[i] = v[i]
      /\ \A i \in RowIds : v[i] \in Int /\ w[i] \in Int
  BY <1>2, <1>5 DEF Value, Counts
<1>7. All(v) = tally
  BY <1>4 DEF Undisturbed
<1> HIDE DEF v, w
<1>8. SumBy(w, RowIds) = SumBy(v, RowIds) - v[j] + w[j]
  <2>1. IsFiniteSet(RowIds)
    BY RowsFinite
  <2> QED BY <1>6, <2>1, SumChange
<1>9. All(w) = tally'
  BY <1>2, <1>5, <1>6, <1>7, <1>8 DEF All
<1>10. \A t \in Tasks : FitsRows(row', pc'[t], mem'[t]) /\ pc'[t] # "failed"
  BY <1>2, <1>4 DEF FitsRows, Undisturbed
<1>11. \A t, u \in Underway' : t = u
  BY <1>2, <1>4 DEF Underway
<1> QED BY <1>9, <1>10, <1>11 DEF Undisturbed, w

\* The whole invariant is inductive.
LEMMA AloneStep == AloneInv /\ Subscribe!Next => AloneInv'
<1> SUFFICES ASSUME AloneInv, Subscribe!Next PROVE AloneInv'
  OBVIOUS
<1>1. SessionInv'
  BY SessionStep DEF AloneInv
<1>2. dialect' = dialect
  BY DEF Subscribe!Next, Subscribe!AddSubscribe, Subscribe!BatchReport, Subscribe!DoneSubscribe, Subscribe!Ask,
         Subscribe!Read, Subscribe!Commit, Subscribe!Refresh, Subscribe!Delete, Subscribe!ForeignWrite
<1>3. dialect = "postgresql" => CreditInv'
  BY CreditStep DEF AloneInv
<1>4. \A i, n : Subscribe!ForeignWrite(i, n) => raced'
  BY DEF Subscribe!ForeignWrite
<1>5. ~raced' => Undisturbed'
  BY <1>4, AskAlone, ReadAlone, CommitAlone, RefreshAlone, DeleteAlone DEF Subscribe!Next, RowIds
<1> QED BY <1>1, <1>2, <1>3, <1>5 DEF AloneInv

\* A step of another component changes nothing here.
LEMMA SubStutter == AloneInv /\ UNCHANGED <<dialect, row, born, added, asked, tally, raced, pc, mem>> => AloneInv'
<1> SUFFICES ASSUME AloneInv, UNCHANGED <<dialect, row, born, added, asked, tally, raced, pc, mem>> PROVE AloneInv'
  OBVIOUS
<1>1. Busy' = Busy /\ \A t \in Tasks : Session(t)' <=> Session(t)
  BY DEF Busy, Session
<1>2. Subscribe!TypeOK' /\ Subscribe!PopularityPositive' /\ \A t \in Tasks : Session(t)'
  BY <1>1 DEF AloneInv, SessionInv, Subscribe!TypeOK, Subscribe!PopularityPositive, Subscribe!Present
<1>3. (born + 2 * Cardinality(Busy) <= 2 * asked)'
  BY <1>1 DEF AloneInv, SessionInv
<1>4. SessionInv'
  BY <1>2, <1>3 DEF SessionInv
<1>5. dialect' = "postgresql" => CreditInv'
  BY <1>1, <1>4, OtherCredits DEF AloneInv
<1>6. raced' = raced /\ (Undisturbed' <=> Undisturbed)
  BY DEF Undisturbed, Underway
<1> QED BY <1>4, <1>5, <1>6 DEF AloneInv

\* What the invariant says of the properties.
LEMMA PopularityFits == AloneInv => Subscribe!TypeOK /\ Subscribe!PopularityPositive /\ Subscribe!NeverOvercounted /\ Subscribe!CountedAlone
<1> SUFFICES ASSUME AloneInv PROVE Subscribe!TypeOK /\ Subscribe!PopularityPositive /\ Subscribe!NeverOvercounted /\ Subscribe!CountedAlone
  OBVIOUS
<1>1. SessionInv /\ Subscribe!NeverOvercounted
  BY CreditHolds DEF AloneInv, Subscribe!NeverOvercounted
<1>2. Subscribe!CountedAlone
  BY <1>1, PopularityIs DEF AloneInv, Undisturbed, Subscribe!CountedAlone
<1> QED BY <1>1, <1>2 DEF SessionInv

\* Subscriptions: no row counts zero or less and without overlap the count is
\* exact, on either database; on PostgreSQL overlapping reports invent no
\* subscriber.
THEOREM PopularityHolds == Spec => []PopularityCorrect
<1> DEFINE Inv == part = "subscribe" => AloneInv
<1>1. Init => Inv
  BY AloneInit DEF Init
<1>2. Inv /\ [Next]_vars => Inv'
  <2> SUFFICES ASSUME Inv, [Next]_vars, part' = "subscribe" PROVE AloneInv'
    OBVIOUS
  <2>1. part = "subscribe" /\ AloneInv
    BY DEF Next, vars
  <2>2. CASE Next
    <3>1. Subscribe!Next
      BY <2>1, <2>2 DEF Next
    <3> QED BY <2>1, <3>1, AloneStep
  <2>3. CASE UNCHANGED vars
    <3>1. UNCHANGED <<dialect, row, born, added, asked, tally, raced, pc, mem>>
      BY <2>3 DEF vars
    <3> QED BY <2>1, <3>1, SubStutter
  <2> QED BY <2>2, <2>3
<1>3. Inv => PopularityCorrect
  BY PopularityFits DEF PopularityCorrect
<1> HIDE DEF Inv
<1> QED BY <1>1, <1>2, <1>3, PTL DEF Spec
=============================================================================
