---------------------------- MODULE PushBinding ----------------------------
(***************************************************************************)
(* The registry of push bindings (app/services/push/registry.py) under the *)
(* HTTP handlers that drive it (app/api/push.py).  Worker processes serve  *)
(* requests concurrently.  They share the PUSH_DEVICE table, the one-time  *)
(* pairing codes kept in Redis, and Redis locks that carry a lease.  One   *)
(* step of a request is one call to Redis or to the database: everything a *)
(* request does between two awaits belongs to the step that follows them.  *)
(***************************************************************************)
EXTENDS Integers, FiniteSets, FiniteSetsExt

CONSTANTS
    Namespaces,     \* instances served by the relay
    Owners,         \* local users of an instance
    NativeInst,     \* installations of the app
    WebInst,        \* installations of the home-screen page
    Tokens,         \* APNs destinations
    Endpoints,      \* web push destinations
    Codes,          \* one-time pairing codes, each issued at most once
    Workers,        \* requests that can be in flight at the same time
    None,           \* no owner, no code, no lock holder
    Dead,           \* holder of a lock whose worker crashed
    MaxDevices,     \* the quota of _save_device and the limit of devices_for_owner
    MaxSaves,       \* bound: how many registrations and subscriptions may start
    MaxOrphans,     \* bound: how many locks of crashed workers may exist at once
    LeaseMayLapse   \* whether a critical section may outlive its 30 s lease

ASSUME LimitsAssumption ==
    /\ MaxDevices \in Nat \ {0}
    /\ MaxSaves \in Nat /\ MaxOrphans \in Nat
    /\ LeaseMayLapse \in BOOLEAN

ASSUME NamesAssumption ==
    /\ None \notin Owners \cup Codes \cup Workers
    /\ Dead \notin Workers \cup {None}
    /\ NativeInst \cap WebInst = {}
    /\ Tokens \cap Endpoints = {}
    /\ "owner-quota" \notin NativeInst \cup WebInst

Installations == NativeInst \cup WebInst
Destinations == Tokens \cup Endpoints

VARIABLES
    devices,    \* rows of PUSH_DEVICE
    pairing,    \* the value stored under a code when it was issued
    live,       \* codes whose push:pair key exists
    index,      \* codes listed in the push:pairs set of their installation
    enabled,    \* PUSH_RELAY.enabled
    lock,       \* Redis locks: their holder
    pc,         \* next step of each worker
    req,        \* the request a worker serves
    mem,        \* what it has read so far
    saves,      \* revisions handed out
    revoked,    \* history: codes deleted by a logout
    obs         \* history: what an onlooker noted about the request

vars == <<devices, pairing, live, index, enabled, lock, pc, req, mem, saves, revoked, obs>>

(* The pair (transport, fingerprint) is one destination: APNs tokens and    *)
(* web endpoints never coincide.  "via" names the code a row was bound with *)
(* and stands for its secret_hash, which is as unique as the code.          *)
Device == [ns : Namespaces, owner : Owners, inst : Installations, parent : Installations,
           dest : Destinations, id : Nat, revision : Nat, via : Codes \cup {None}]

Pairing == [ns : Namespaces, owner : Owners, parent : Installations]

\* A code that was never issued has no value.
ASSUME AbsentAssumption == None \notin Pairing

LockKeys == Namespaces \X Owners \X (Installations \cup {"owner-quota"})

Request == [kind : {"none", "register", "subscribe", "unregister", "pair", "manage", "send"},
            ns : Namespaces \cup {None}, owner : Owners \cup {None},
            inst : Installations \cup {None}, parent : Installations \cup {None},
            dest : Destinations \cup {None}, code : Codes \cup {None}, revision : Nat]

Call(kind, n, o, i, parent, dest, code, revision) ==
    [kind |-> kind, ns |-> n, owner |-> o, inst |-> i, parent |-> parent, dest |-> dest,
     code |-> code, revision |-> revision]

\* The owner and the rows or codes read so far.
Memory == [existing : Owners \cup {None}, rows : SUBSET Device, codes : SUBSET Codes]

\* Was its instance enabled at some time, did its installation log out, and
\* which codes did that installation have when the worker took the lock, in the
\* index or not?
Note == [licensed : BOOLEAN, overtaken : BOOLEAN, covered : SUBSET Codes, listed : SUBSET Codes]

NoRequest == Call("none", None, None, None, None, None, None, 0)
NoMemory == [existing |-> None, rows |-> {}, codes |-> {}]
NoNote == [licensed |-> FALSE, overtaken |-> FALSE, covered |-> {}, listed |-> {}]

(* Steps at which a worker holds the installation lock, and those at which *)
(* it also holds the lock of the owner's quota.                            *)
QuotaHeldAt == {"existing", "count", "evict", "upsert", "release quota"}
InstallHeldAt == {"consume", "check", "quota", "rows", "find codes", "delete codes", "drop index", "release"}
                 \cup QuotaHeldAt
Steps == {"idle", "lock", "pair", "deliver", "prune"} \cup InstallHeldAt

TypeOK ==
    /\ devices \subseteq Device
    /\ pairing \in [Codes -> Pairing \cup {None}]
    /\ live \subseteq Codes
    /\ index \subseteq Codes
    /\ enabled \in [Namespaces -> BOOLEAN]
    /\ lock \in [LockKeys -> Workers \cup {None, Dead}]
    /\ pc \in [Workers -> Steps]
    /\ req \in [Workers -> Request]
    /\ mem \in [Workers -> Memory]
    /\ saves \in 0..MaxSaves
    /\ revoked \subseteq Codes
    /\ obs \in [Workers -> Note]

Init ==
    /\ devices = {}
    /\ pairing = [c \in Codes |-> None]
    /\ live = {} /\ index = {} /\ revoked = {}
    /\ enabled = [n \in Namespaces |-> TRUE]
    /\ lock = [k \in LockKeys |-> None]
    /\ pc = [w \in Workers |-> "idle"]
    /\ req = [w \in Workers |-> NoRequest]
    /\ mem = [w \in Workers |-> NoMemory]
    /\ saves = 0
    /\ obs = [w \in Workers |-> NoNote]

-----------------------------------------------------------------------------
(* Rows, codes and locks.                                                  *)

Account(n, o) == {d \in devices : d.ns = n /\ d.owner = o}
RowOf(n, i) == {d \in devices : d.ns = n /\ d.inst = i}

\* Rows the unique constraints set against the row request w is about to write.
Rivals(w, rows) == {d \in rows : d.dest = req[w].dest /\ ~(d.ns = req[w].ns /\ d.inst = req[w].inst)}

IndexOf(n, o, i) == {c \in index : pairing[c] = [ns |-> n, owner |-> o, parent |-> i]}

\* A plausible slip: locking the page's own installation, not the app's.
InstallKeyByPage(w) == <<req[w].ns, req[w].owner, req[w].inst>>
InstallKey(w) == <<req[w].ns, req[w].owner, req[w].parent>>

QuotaKey(w) == <<req[w].ns, req[w].owner, "owner-quota">>

\* Live codes of the installation whose lock the request takes.
CodesFor(w) ==
    {c \in live : <<pairing[c].ns, pairing[c].owner, pairing[c].parent>> = InstallKey(w)}

\* Redis compares the holder's token, so a lapsed lock is left alone.
Unlocked(w, keys) == [k \in LockKeys |-> IF k \in keys /\ lock[k] = w THEN None ELSE lock[k]]

Goto(w, step) == pc' = [pc EXCEPT ![w] = step]

\* The response is sent and the worker forgets the request.
Finish(w) ==
    /\ Goto(w, "idle")
    /\ req' = [req EXCEPT ![w] = NoRequest]
    /\ mem' = [mem EXCEPT ![w] = NoMemory]
    /\ obs' = [obs EXCEPT ![w] = NoNote]

Accept(w, r, step) ==
    /\ pc[w] = "idle"
    /\ Goto(w, step)
    /\ req' = [req EXCEPT ![w] = r]
    /\ obs' = [obs EXCEPT ![w].licensed = enabled[r.ns]]

Take(w, key, step) ==
    /\ lock[key] = None
    /\ lock' = [lock EXCEPT ![key] = w]
    /\ Goto(w, step)

-----------------------------------------------------------------------------
(* Requests arrive.  relay_namespace lets only enabled instances through.   *)

Register(w, n, o, i, t) ==
    /\ enabled[n]
    /\ saves < MaxSaves /\ saves' = saves + 1
    /\ Accept(w, Call("register", n, o, i, i, t, None, saves + 1), "lock")
    /\ UNCHANGED <<devices, pairing, live, index, enabled, lock, mem, revoked>>

\* claim_pairing reads the code once before it knows which lock to take.
Subscribe(w, c, i, e) ==
    /\ c \in live
    /\ saves < MaxSaves /\ saves' = saves + 1
    /\ Accept(w, Call("subscribe", pairing[c].ns, pairing[c].owner, i, pairing[c].parent, e, c,
                      saves + 1), "lock")
    /\ UNCHANGED <<devices, pairing, live, index, enabled, lock, mem, revoked>>

Unregister(w, n, o, i) ==
    /\ enabled[n]
    /\ Accept(w, Call("unregister", n, o, i, i, None, None, 0), "lock")
    /\ UNCHANGED <<devices, pairing, live, index, enabled, lock, mem, saves, revoked>>

RequestPairing(w, n, o, i) ==
    /\ enabled[n]
    /\ Cardinality({x \in Workers : pc[x] = "pair"}) < Cardinality({c \in Codes : pairing[c] = None})
    /\ Accept(w, Call("pair", n, o, i, i, None, None, 0), "pair")
    /\ UNCHANGED <<devices, pairing, live, index, enabled, lock, mem, saves, revoked>>

\* managed_device: the page shows the identity and the secret of a row.
Manage(w, d, step) ==
    /\ d \in devices /\ d.dest \in Endpoints
    /\ Accept(w, Call("manage", d.ns, d.owner, None, None, None, None, 0), step)
    /\ mem' = [mem EXCEPT ![w].rows = {d}]
    /\ UNCHANGED <<devices, pairing, live, index, enabled, lock, saves, revoked>>

Unsubscribe(w, d) == Manage(w, d, "prune")
TestSubscription(w, d) == Manage(w, d, "deliver")

DevicesForOwner(n, o) == kSubset(Min({MaxDevices, Cardinality(Account(n, o))}), Account(n, o))

SendMessage(w, n, o) ==
    /\ enabled[n]
    /\ Accept(w, Call("send", n, o, None, None, None, None, 0), "deliver")
    /\ \E sent \in DevicesForOwner(n, o) : mem' = [mem EXCEPT ![w].rows = sent]
    /\ UNCHANGED <<devices, pairing, live, index, enabled, lock, saves, revoked>>

-----------------------------------------------------------------------------
(* Locks.  binding_lock waits at most 3 s; every way out of a critical      *)
(* section gives back the locks still owned, and a section that raised or   *)
(* lost its lock answers with an error after the same cleanup.              *)

Unwind(w) ==
    /\ lock' = Unlocked(w, {InstallKey(w), QuotaKey(w)})
    /\ Finish(w)

AcquireInstall(w) ==
    /\ pc[w] = "lock"
    /\ Take(w, InstallKey(w), CASE req[w].kind = "register" -> "quota"
                                [] req[w].kind = "subscribe" -> "consume"
                                [] OTHER -> "rows")
    /\ obs' = IF req[w].kind # "unregister" THEN obs
              ELSE [obs EXCEPT ![w].covered = CodesFor(w), ![w].listed = CodesFor(w) \cap index]
    /\ UNCHANGED <<devices, pairing, live, index, enabled, req, mem, saves, revoked>>

AcquireQuota(w) ==
    /\ pc[w] = "quota"
    /\ Take(w, QuotaKey(w), "existing")
    /\ UNCHANGED <<devices, pairing, live, index, enabled, req, mem, saves, revoked, obs>>

\* A plausible slip: no blocking_timeout on the inner lock.
LockBusyOutside(w) ==
    /\ pc[w] = "lock" /\ lock[InstallKey(w)] # None
    /\ Unwind(w)
    /\ UNCHANGED <<devices, pairing, live, index, enabled, saves, revoked>>

LockBusy(w) ==
    /\ \/ pc[w] = "lock" /\ lock[InstallKey(w)] # None
       \/ pc[w] = "quota" /\ lock[QuotaKey(w)] # None
    /\ Unwind(w)
    /\ UNCHANGED <<devices, pairing, live, index, enabled, saves, revoked>>

ReleaseQuota(w) ==
    /\ pc[w] = "release quota"
    /\ lock' = Unlocked(w, {QuotaKey(w)})
    /\ Goto(w, "release")
    /\ UNCHANGED <<devices, pairing, live, index, enabled, req, mem, saves, revoked, obs>>

Release(w) ==
    /\ pc[w] = "release"
    /\ Unwind(w)
    /\ UNCHANGED <<devices, pairing, live, index, enabled, saves, revoked>>

\* The lease of a lock ends: the holder crashed or, if LeaseMayLapse, is slow.
Lapse(k) ==
    /\ lock[k] = Dead \/ (LeaseMayLapse /\ lock[k] # None)
    /\ lock' = [lock EXCEPT ![k] = None]
    /\ UNCHANGED <<devices, pairing, live, index, enabled, pc, req, mem, saves, revoked, obs>>

-----------------------------------------------------------------------------
(* Pairing codes.                                                          *)

\* A plausible slip: a pairing that does not say for whom it is.
OwnerlessPairing(w) == [ns |-> req[w].ns, owner |-> None, parent |-> req[w].parent]
PairingValue(w) == [ns |-> req[w].ns, owner |-> req[w].owner, parent |-> req[w].parent]

CreatePairing(w) ==
    /\ pc[w] = "pair"
    /\ \E c \in Codes :
        /\ pairing[c] = None
        /\ pairing' = [pairing EXCEPT ![c] = PairingValue(w)]
        /\ live' = live \cup {c}
        /\ index' = index \cup {c}
    /\ Finish(w)
    /\ UNCHANGED <<devices, enabled, lock, saves, revoked>>

\* A plausible slip: GET where the code needs GETDEL.
KeepAfterUse(c) == live
DropAfterUse(c) == live \ {c}

ConsumePairing(w) ==
    /\ pc[w] = "consume"
    /\ Goto(w, IF req[w].code \in live THEN "check" ELSE "release")
    /\ live' = DropAfterUse(req[w].code)
    /\ UNCHANGED <<devices, pairing, index, enabled, lock, req, mem, saves, revoked, obs>>

\* A plausible slip: binding without looking at the instance's state.
AnyNamespace(n) == TRUE
EnabledNamespace(n) == enabled[n]

RequireEnabledNamespace(w) ==
    /\ pc[w] = "check"
    /\ Goto(w, IF EnabledNamespace(req[w].ns) THEN "quota" ELSE "release")
    /\ UNCHANGED <<devices, pairing, live, index, enabled, lock, req, mem, saves, revoked, obs>>

ExpireCode(c) ==
    /\ c \in live
    /\ live' = live \ {c}
    /\ UNCHANGED <<devices, pairing, index, enabled, lock, pc, req, mem, saves, revoked, obs>>

\* The index lives as long as the youngest code in it.
ExpireIndex(n, o, i) ==
    /\ IndexOf(n, o, i) # {}
    /\ IndexOf(n, o, i) \cap live = {}
    /\ index' = index \ IndexOf(n, o, i)
    /\ UNCHANGED <<devices, pairing, live, enabled, lock, pc, req, mem, saves, revoked, obs>>

-----------------------------------------------------------------------------
(* _save_device: the existing owner, the count, then one transaction that  *)
(* evicts the rows of the same destination and upserts the new row.  The   *)
(* rows a transaction has deleted stay locked until it ends.               *)

LockedRows(w) == UNION {mem[x].rows : x \in {y \in Workers \ {w} : pc[y] = "upsert"}}

\* A plausible slip: an installation that is bound already needs no quota.
AnyRow(w) == RowOf(req[w].ns, req[w].inst) # {}
OwnRow(w) == \E d \in RowOf(req[w].ns, req[w].inst) : d.owner = req[w].owner

ReadExisting(w) ==
    /\ pc[w] = "existing"
    /\ mem' = [mem EXCEPT ![w].existing = IF OwnRow(w) THEN req[w].owner ELSE None]
    /\ Goto(w, "count")
    /\ UNCHANGED <<devices, pairing, live, index, enabled, lock, req, saves, revoked, obs>>

Full(w) == Cardinality(Account(req[w].ns, req[w].owner)) >= MaxDevices

CountDevices(w) ==
    /\ pc[w] = "count"
    /\ Goto(w, IF mem[w].existing # req[w].owner /\ Full(w) THEN "release quota" ELSE "evict")
    /\ UNCHANGED <<devices, pairing, live, index, enabled, lock, req, mem, saves, revoked, obs>>

EvictRivals(w) ==
    /\ pc[w] = "evict"
    /\ Rivals(w, devices) \cap LockedRows(w) = {}
    /\ mem' = [mem EXCEPT ![w].rows = Rivals(w, devices)]
    /\ Goto(w, "upsert")
    /\ UNCHANGED <<devices, pairing, live, index, enabled, lock, req, saves, revoked, obs>>

Written(w) ==
    LET old == RowOf(req[w].ns, req[w].inst)
    IN [ns |-> req[w].ns, owner |-> req[w].owner, inst |-> req[w].inst, parent |-> req[w].parent,
        dest |-> req[w].dest, revision |-> req[w].revision, via |-> req[w].code,
        id |-> IF old = {} THEN req[w].revision ELSE (CHOOSE d \in old : TRUE).id]

\* A plausible slip: no unique constraint on the destination.
NoConstraint(w) == TRUE
UniqueDestination(w) == Rivals(w, devices \ mem[w].rows) = {}

Upsert(w) ==
    /\ pc[w] = "upsert"
    /\ RowOf(req[w].ns, req[w].inst) \cap LockedRows(w) = {}
    /\ devices' = IF UniqueDestination(w)
                  THEN (devices \ (mem[w].rows \cup RowOf(req[w].ns, req[w].inst))) \cup {Written(w)}
                  ELSE devices      \* IntegrityError: rolled back, 409
    /\ mem' = [mem EXCEPT ![w].rows = {}]
    /\ Goto(w, "release quota")
    /\ UNCHANGED <<pairing, live, index, enabled, lock, req, saves, revoked, obs>>

\* Two transactions wait for each other's rows: the database aborts one.
DeadlockVictim(w) ==
    /\ pc[w] = "upsert"
    /\ \E x \in Workers \ {w} :
        /\ pc[x] = "upsert"
        /\ RowOf(req[w].ns, req[w].inst) \cap mem[x].rows # {}
        /\ RowOf(req[x].ns, req[x].inst) \cap mem[w].rows # {}
    /\ Unwind(w)
    /\ UNCHANGED <<devices, pairing, live, index, enabled, saves, revoked>>

-----------------------------------------------------------------------------
(* _remove_binding.                                                        *)

\* Plausible slips: an installation's rows whoever owns them, or all but the
\* web pages paired from it.
RemovedWhoeverOwns(w) == {d \in devices : d.ns = req[w].ns /\ req[w].inst \in {d.inst, d.parent}}
RemovedWithoutPages(w) == {d \in Account(req[w].ns, req[w].owner) : req[w].inst = d.inst}
Removed(w) == {d \in Account(req[w].ns, req[w].owner) : req[w].inst \in {d.inst, d.parent}}

RemoveRows(w) ==
    /\ pc[w] = "rows"
    /\ Removed(w) \cap LockedRows(w) = {}
    /\ devices' = devices \ Removed(w)
    /\ Goto(w, "find codes")
    /\ UNCHANGED <<pairing, live, index, enabled, lock, req, mem, saves, revoked, obs>>

\* A plausible slip: the index is written and read under different keys.
FindNoCodes(w) == {}
FoundCodes(w) == IndexOf(req[w].ns, req[w].owner, req[w].inst)

FindCodes(w) ==
    /\ pc[w] = "find codes"
    /\ mem' = [mem EXCEPT ![w].codes = FoundCodes(w)]
    /\ Goto(w, IF FoundCodes(w) = {} THEN "drop index" ELSE "delete codes")
    /\ UNCHANGED <<devices, pairing, live, index, enabled, lock, req, saves, revoked, obs>>

DeleteCodes(w) ==
    /\ pc[w] = "delete codes"
    /\ live' = live \ mem[w].codes
    /\ revoked' = revoked \cup mem[w].codes
    /\ Goto(w, "drop index")
    /\ UNCHANGED <<devices, pairing, index, enabled, lock, req, mem, saves, obs>>

\* Requests for the same installation that are in flight when it has logged out.
Overtaken(w) == {x \in Workers \ {w} : /\ req[x].kind \in {"register", "subscribe"}
                                       /\ InstallKey(x) = InstallKey(w)}

DropIndex(w) ==
    /\ pc[w] = "drop index"
    /\ index' = index \ IndexOf(req[w].ns, req[w].owner, req[w].inst)
    /\ Goto(w, "release")
    /\ obs' = [x \in Workers |-> IF x \in Overtaken(w) THEN [obs[x] EXCEPT !.overtaken = TRUE]
                                                       ELSE obs[x]]
    /\ UNCHANGED <<devices, pairing, live, enabled, lock, req, mem, saves, revoked>>

-----------------------------------------------------------------------------
(* Deliveries.  The push services say which destinations are gone; those   *)
(* rows are pruned if they still carry the revision that was sent to.      *)

Deliver(w) ==
    /\ pc[w] = "deliver"
    /\ IF req[w].kind = "manage" /\ ~enabled[req[w].ns] THEN Finish(w)
       ELSE \E gone \in SUBSET mem[w].rows :
            IF gone = {} THEN Finish(w)
            ELSE /\ mem' = [mem EXCEPT ![w].rows = gone]
                 /\ Goto(w, "prune")
                 /\ UNCHANGED <<req, obs>>
    /\ UNCHANGED <<devices, pairing, live, index, enabled, lock, saves, revoked>>

Pruned(d) == {x \in devices : x.id = d.id /\ x.revision = d.revision}

PruneRevision(w) ==
    /\ pc[w] = "prune"
    /\ \E d \in mem[w].rows :
        /\ Pruned(d) \cap LockedRows(w) = {}
        /\ devices' = devices \ Pruned(d)
        /\ IF mem[w].rows = {d} THEN Finish(w)
           ELSE /\ mem' = [mem EXCEPT ![w].rows = @ \ {d}]
                /\ UNCHANGED <<pc, req, obs>>
    /\ UNCHANGED <<pairing, live, index, enabled, lock, saves, revoked>>

-----------------------------------------------------------------------------
(* Faults and the operator.                                                *)

\* A database or Redis call raises; async with gives the locks back.
Fail(w) ==
    /\ pc[w] # "idle"
    /\ Unwind(w)
    /\ UNCHANGED <<devices, pairing, live, index, enabled, saves, revoked>>

\* The worker process dies: its transaction is rolled back, its locks remain.
Crash(w) ==
    /\ pc[w] # "idle"
    /\ Cardinality({k \in LockKeys : lock[k] \in {w, Dead}}) <= MaxOrphans
    /\ lock' = [k \in LockKeys |-> IF lock[k] = w THEN Dead ELSE lock[k]]
    /\ Finish(w)
    /\ UNCHANGED <<devices, pairing, live, index, enabled, saves, revoked>>

\* revoke_instance or set_enabled(FALSE); module PushCredentials has the details.
Disable(n) ==
    /\ enabled[n]
    /\ enabled' = [enabled EXCEPT ![n] = FALSE]
    /\ UNCHANGED <<devices, pairing, live, index, lock, pc, req, mem, saves, revoked, obs>>

Enable(n) ==
    /\ ~enabled[n]
    /\ enabled' = [enabled EXCEPT ![n] = TRUE]
    /\ obs' = [x \in Workers |-> [obs[x] EXCEPT !.licensed = @ \/ req[x].ns = n]]
    /\ UNCHANGED <<devices, pairing, live, index, lock, pc, req, mem, saves, revoked>>

Arrive(w) ==
    \/ \E n \in Namespaces, o \in Owners, i \in NativeInst, t \in Tokens : Register(w, n, o, i, t)
    \/ \E c \in Codes, i \in WebInst, e \in Endpoints : Subscribe(w, c, i, e)
    \/ \E n \in Namespaces, o \in Owners, i \in Installations : Unregister(w, n, o, i)
    \/ \E n \in Namespaces, o \in Owners, i \in NativeInst : RequestPairing(w, n, o, i)
    \/ \E d \in devices : Unsubscribe(w, d) \/ TestSubscription(w, d)
    \/ \E n \in Namespaces, o \in Owners : SendMessage(w, n, o)

Serve(w) ==
    \/ AcquireInstall(w) \/ AcquireQuota(w) \/ LockBusy(w) \/ ReleaseQuota(w) \/ Release(w)
    \/ CreatePairing(w) \/ ConsumePairing(w) \/ RequireEnabledNamespace(w)
    \/ ReadExisting(w) \/ CountDevices(w) \/ EvictRivals(w) \/ Upsert(w) \/ DeadlockVictim(w)
    \/ RemoveRows(w) \/ FindCodes(w) \/ DeleteCodes(w) \/ DropIndex(w)
    \/ Deliver(w) \/ PruneRevision(w)

Environment ==
    \/ \E w \in Workers : Fail(w) \/ Crash(w)
    \/ \E k \in LockKeys : Lapse(k)
    \/ \E c \in Codes : ExpireCode(c)
    \/ \E n \in Namespaces, o \in Owners, i \in NativeInst : ExpireIndex(n, o, i)
    \/ \E n \in Namespaces : Disable(n) \/ Enable(n)

Next == (\E w \in Workers : Arrive(w) \/ Serve(w)) \/ Environment

Spec == Init /\ [][Next]_vars

\* Each worker's event loop keeps running its request.
FairSpec == Spec /\ \A w \in Workers : WF_vars(Serve(w))

-----------------------------------------------------------------------------
(* Properties.                                                             *)

\* PUSH_DEVICE's two unique constraints: an installation of an instance has
\* one row, and a destination belongs to one row over all instances, so that
\* after a change of user the old account no longer reaches the device.
UniqueBindings ==
    \A d1, d2 \in devices : d1 # d2 =>
        d1.dest # d2.dest /\ <<d1.ns, d1.inst>> # <<d2.ns, d2.inst>>

\* save_device: however many installations bind at once, and whichever rows
\* change owner meanwhile, no user of an instance exceeds the quota.
QuotaHeld == \A n \in Namespaces, o \in Owners : Cardinality(Account(n, o)) <= MaxDevices

\* A worker that has taken a code off Redis and not yet written its row.
Binding(w) == pc[w] \in {"check", "quota", "existing", "count", "evict", "upsert"}

\* consume_pairing: among the rows and the requests on their way to one, at
\* most one stems from a given code, whoever raced for it.
OneBindingPerCode ==
    \A c \in Codes : Cardinality({d \in devices : d.via = c})
                     + Cardinality({w \in Workers : Binding(w) /\ req[w].code = c}) <= 1

\* claim_pairing with _remove_binding: a code that a logout deleted is the
\* origin of no row, even when a browser had read it before the logout.
RevokedCodesNeverBind == \A d \in devices : d.via \notin revoked

\* binding_lock: from the commit of an app's logout until its last write to
\* Redis, the user has neither a row of that app nor one of a page paired from
\* it, whatever registrations and pairings are in flight.  When a page logs out
\* only rows paired from it are excluded: its own row is written under the lock
\* of the app (claim_pairing) and may be back before the logout ends.
LogoutWindowQuiet ==
    \A w \in Workers : pc[w] \in {"find codes", "delete codes", "drop index"} =>
        \A d \in Account(req[w].ns, req[w].owner) :
            /\ d.parent # req[w].inst
            /\ d.inst = req[w].inst => d.inst \in WebInst

\* A logout that has dealt with the codes it found.
Revoking(w) == req[w].kind = "unregister" /\ pc[w] \in {"drop index", "release"}

\* _remove_binding: every code of the installation that was live and indexed
\* when its logout took the lock is dead once the logout is past the deletion:
\* neither other logouts nor the end of the index may hide one from SMEMBERS.
IndexedCodesRevoked == \A w \in Workers : Revoking(w) => obs[w].listed \cap live = {}

\* require_enabled_namespace: a row is only written for a request during
\* which its instance was enabled at some moment.
DisabledNamespaceNeverBinds ==
    [][\A d \in devices' \ devices : \E w \in Workers :
            pc[w] = "upsert" /\ req[w].revision = d.revision /\ obs[w].licensed]_vars

\* An installation loses its row only to a logout by its owner (of it or of
\* the app it was paired from), to a save that takes over its destination, or
\* to a failed delivery to exactly the revision it carries: never to another
\* user's logout, and never to a stale failure after the token was rotated.
DevicesLeaveFor ==
    [][\A d \in devices : RowOf(d.ns, d.inst)' # {}
            \/ \E w \in Workers :
                  \/ /\ pc[w] = "rows" /\ req[w].ns = d.ns /\ req[w].owner = d.owner
                     /\ req[w].inst \in {d.inst, d.parent}
                  \/ pc[w] = "upsert" /\ req[w].dest = d.dest
                  \/ pc[w] = "prune" /\ d \in mem[w].rows]_vars

\* Every request is answered, whatever locks crashed workers left behind.
RequestsEnd == \A w \in Workers : pc[w] # "idle" ~> pc[w] = "idle"

\* binding_lock says it keeps a request that is in flight during a logout
\* from rebuilding the old binding.  It does not: see the run that refutes it.
OvertakenNeverBinds ==
    [][\A w \in Workers, d \in devices' \ devices :
            pc[w] = "upsert" /\ req[w].revision = d.revision => ~obs[w].overtaken]_vars

\* claim_pairing says a logout revokes the unused codes of its installation.
\* A code issued while an earlier logout was between SMEMBERS and DEL is in
\* no index any more and survives: see the run that refutes it.
LogoutRevokesCodes ==
    \A w \in Workers : pc[w] = "release" => obs[w].covered \cap live = {}

-----------------------------------------------------------------------------
(* The invariant behind TypeOK, and the one behind QuotaHeld while no lease *)
(* lapses under a worker.                                                  *)

\* What a request names at each of its steps, and what a live code is for.
Addressed ==
    /\ IsFiniteSet(devices)
    /\ \A c \in live : pairing[c] \in Pairing
    /\ \A w \in Workers :
        /\ pc[w] \in {"lock", "pair"} \cup InstallHeldAt =>
               req[w].ns \in Namespaces /\ req[w].owner \in Owners /\ req[w].parent \in Installations
        /\ req[w].kind \in {"register", "subscribe"} =>
               req[w].dest \in Destinations /\ req[w].inst \in Installations
        /\ pc[w] \in {"consume", "check", "quota"} \cup QuotaHeldAt =>
               req[w].kind \in {"register", "subscribe"}
        /\ pc[w] = "idle" => req[w] = NoRequest

LocksHeld ==
    \A w \in Workers :
        /\ pc[w] \in InstallHeldAt => lock[InstallKey(w)] = w
        /\ pc[w] \in QuotaHeldAt => lock[QuotaKey(w)] = w

\* The rows the owner would have besides the one being written.
Others(w) == {d \in Account(req[w].ns, req[w].owner) : d.inst # req[w].inst}

\* Once the quota was found sufficient there is room for the row: other
\* requests may take rows away from the owner but none may add one.
FoundRoom(w) == \/ pc[w] \in {"evict", "upsert"}
                \/ pc[w] = "count" /\ mem[w].existing = req[w].owner
RoomLeft == \A w \in Workers : FoundRoom(w) => Cardinality(Others(w)) < MaxDevices

QuotaInv == TypeOK /\ Addressed /\ LocksHeld /\ RoomLeft /\ QuotaHeld
=============================================================================
