-------------------------- MODULE PushCredentials --------------------------
(***************************************************************************)
(* Enrolment, rotation and revocation of the keys of push instances        *)
(* (app/services/push/enrollment.py, app/api/push.py) and the operator's   *)
(* switch (app/admin/push.py).  As in PushBinding, a worker is a request   *)
(* in flight and a step is one call to Redis or to the database.           *)
(***************************************************************************)
EXTENDS FiniteSets, Integers

CONSTANTS
    Keys,           \* digests of keys
    Relays,         \* identifiers of instances
    Workers,        \* requests in flight at the same time
    None,           \* no row, no replacement, no lock holder
    Dead,           \* holder of a lock whose worker crashed
    MaxOrphans,     \* bound: how many locks of crashed workers may exist at once
    LeaseMayLapse   \* whether a critical section may outlive its 30 s lease

ASSUME LimitsAssumption == MaxOrphans \in Nat /\ LeaseMayLapse \in BOOLEAN

ASSUME NamesAssumption ==
    /\ None \notin Keys \cup Relays \cup Workers
    /\ Dead \notin Workers \cup {None}
    /\ Keys \cap Relays = {}

VARIABLES
    relayOf,        \* PUSH_RELAY_KEY.relay, None where there is no row
    active,         \* keys with PUSH_RELAY_KEY.active
    replacement,    \* PUSH_RELAY_KEY.replacement
    relays,         \* rows of PUSH_RELAY
    enabled,        \* those with PUSH_RELAY.enabled
    lock,           \* Redis locks: enrolment locks per key, credentials locks per instance
    pc, req, mem,   \* next step, request and memory of each worker
    obs             \* history: what an onlooker noted during each request

rows == <<relayOf, active, replacement, relays, enabled>>
vars == <<rows, lock, pc, req, mem, obs>>

LockKeys == Keys \cup Relays

Request == [kind : {"none", "enroll", "rotate", "revoke", "set"}, key : Keys \cup {None},
            new : Keys \cup {None}, ns : Relays \cup {None}, want : BOOLEAN]

Call(kind, key, new, ns, want) ==
    [kind |-> kind, key |-> key, new |-> new, ns |-> ns, want |-> want]

\* What was read of the old key and of the instance, and the answer so far.
Memory == [live : BOOLEAN, heir : Keys \cup {None}, on : BOOLEAN,
           granted : BOOLEAN, reply : Relays \cup {None}]

Read(live, heir, on, granted, reply) ==
    [live |-> live, heir |-> heir, on |-> on, granted |-> granted, reply |-> reply]

\* Whether the instance of a request was on and off in its course; whether
\* its caller held a working key at some time; whether all the time it was
\* the repetition of the rotation that retired its key.
Note == [seen : SUBSET BOOLEAN, valid : BOOLEAN, retry : BOOLEAN]

NoRequest == Call("none", None, None, None, FALSE)
NoMemory == Read(FALSE, None, FALSE, FALSE, None)
NoNote == [seen |-> {}, valid |-> FALSE, retry |-> FALSE]
Granted(r) == Read(FALSE, None, FALSE, TRUE, r)

RotatingAt == {"refresh", "relay", "replacement", "rotate"}
Steps == {"idle", "claim", "prior", "authenticate", "insert", "find", "read", "switch", "answer"}
         \cup RotatingAt

TypeOK ==
    /\ relayOf \in [Keys -> Relays \cup {None}]
    /\ active \subseteq Keys
    /\ replacement \in [Keys -> Keys \cup {None}]
    /\ relays \subseteq Relays
    /\ enabled \subseteq relays
    /\ lock \in [LockKeys -> Workers \cup {None, Dead}]
    /\ pc \in [Workers -> Steps]
    /\ req \in [Workers -> Request]
    /\ mem \in [Workers -> Memory]
    /\ obs \in [Workers -> Note]

Init ==
    /\ relayOf = [k \in Keys |-> None]
    /\ replacement = [k \in Keys |-> None]
    /\ active = {} /\ relays = {} /\ enabled = {}
    /\ lock = [k \in LockKeys |-> None]
    /\ pc = [w \in Workers |-> "idle"]
    /\ req = [w \in Workers |-> NoRequest]
    /\ mem = [w \in Workers |-> NoMemory]
    /\ obs = [w \in Workers |-> NoNote]

-----------------------------------------------------------------------------
(* Requests and locks.                                                     *)

\* A plausible slip: any key that was ever issued will do.
AnyKey(k) == relayOf[k] \in enabled
\* authenticated_relay: the key is the current one of an enabled instance.
Valid(k) == k \in active /\ relayOf[k] \in enabled

\* enroll locks its key; rotate and set_enabled lock the instance.
LockOf(w) == IF req[w].kind = "enroll" THEN req[w].key ELSE req[w].ns

Goto(w, step) == pc' = [pc EXCEPT ![w] = step]

\* The handler returns or raises; the answer is sent when the lock is given back.
Reply(w, m) == Goto(w, "answer") /\ mem' = [mem EXCEPT ![w] = m]

\* Redis compares the holder's token, so a lapsed lock is left alone.
Unlocked(w) == [k \in LockKeys |-> IF lock[k] = w THEN None ELSE lock[k]]

Forget(w) ==
    /\ Goto(w, "idle")
    /\ req' = [req EXCEPT ![w] = NoRequest]
    /\ mem' = [mem EXCEPT ![w] = NoMemory]
    /\ obs' = [obs EXCEPT ![w] = NoNote]

Entitled(r) == \E k \in {r.key, r.new} \cap active : relayOf[k] \in enabled

Repeats(r) ==
    /\ r.kind = "rotate"
    /\ replacement[r.key] = r.new
    /\ r.new \in active
    /\ relayOf[r.new] \in enabled

\* Every step that changes the rows ends with the onlooker's notes.
Watch ==
    obs' = [x \in Workers |-> [seen |-> obs[x].seen \cup {req[x].ns \in enabled'},
                               valid |-> obs[x].valid \/ Entitled(req[x])',
                               retry |-> obs[x].retry /\ Repeats(req[x])']]

Accept(w, r, step) ==
    /\ pc[w] = "idle"
    /\ Goto(w, step)
    /\ req' = [req EXCEPT ![w] = r]
    /\ obs' = [obs EXCEPT ![w] = [seen |-> {r.ns \in enabled}, valid |-> Entitled(r),
                                  retry |-> Repeats(r)]]
    /\ UNCHANGED <<rows, lock, mem>>

\* There are identifiers enough for everyone: see Insert.
Enroll(w, k) ==
    /\ \/ relayOf[k] # None
       \/ Cardinality({x \in Workers : req[x].kind = "enroll"}) < Cardinality(Relays \ relays)
    /\ Accept(w, Call("enroll", k, None, None, FALSE), "claim")

Rotate(w, old, new) ==
    /\ old # new        \* else 422
    /\ Accept(w, Call("rotate", old, new, None, FALSE), "find")

Revoke(w, k) == Accept(w, Call("revoke", k, None, None, FALSE), "authenticate")

SetEnabled(w, r, on) == Accept(w, Call("set", None, None, r, on), "claim")

Claim(w) ==
    /\ pc[w] = "claim"
    /\ lock[LockOf(w)] = None
    /\ lock' = [lock EXCEPT ![LockOf(w)] = w]
    /\ Goto(w, CASE req[w].kind = "enroll" -> "prior"
                 [] req[w].kind = "rotate" -> "refresh"
                 [] OTHER -> "read")
    /\ UNCHANGED <<rows, req, mem, obs>>

\* blocking_timeout is over: 409.
ClaimBusy(w) ==
    /\ pc[w] = "claim"
    /\ lock[LockOf(w)] # None
    /\ Forget(w)
    /\ UNCHANGED <<rows, lock>>

Answer(w) ==
    /\ pc[w] = "answer"
    /\ lock' = Unlocked(w)
    /\ Forget(w)
    /\ UNCHANGED rows

-----------------------------------------------------------------------------
(* enroll.                                                                 *)

\* Registration may be closed (403) or its rate used up (429).
Prior(w) ==
    /\ pc[w] = "prior"
    /\ \/ relayOf[req[w].key] # None /\ Goto(w, "authenticate") /\ UNCHANGED mem
       \/ relayOf[req[w].key] = None /\ Goto(w, "insert") /\ UNCHANGED mem
       \/ relayOf[req[w].key] = None /\ Reply(w, NoMemory)
    /\ UNCHANGED <<rows, lock, req, obs>>

\* enroll answers with the instance of a valid key; revoke goes on with it.
Authenticate(w) ==
    LET r == relayOf[req[w].key]
    IN  /\ pc[w] = "authenticate"
        /\ \/ /\ ~Valid(req[w].key)
              /\ Reply(w, NoMemory)
              /\ UNCHANGED <<req, obs>>
           \/ /\ Valid(req[w].key) /\ req[w].kind = "enroll"
              /\ Reply(w, Granted(r))
              /\ UNCHANGED <<req, obs>>
           \/ /\ Valid(req[w].key) /\ req[w].kind = "revoke"
              /\ Goto(w, "read")
              /\ req' = [req EXCEPT ![w] = Call("revoke", req[w].key, None, r, FALSE)]
              /\ obs' = [obs EXCEPT ![w].seen = {TRUE}]
              /\ UNCHANGED mem
        /\ UNCHANGED <<rows, lock>>

\* A plausible slip: an upsert in place of the insert.
Overwritten(k) == TRUE
\* The primary key of PUSH_RELAY_KEY.
KeyFree(k) == relayOf[k] = None

Insert(w) ==
    /\ pc[w] = "insert"
    /\ \/ /\ ~KeyFree(req[w].key)       \* IntegrityError: rolled back, 409
          /\ Reply(w, NoMemory)
          /\ UNCHANGED <<rows, lock, req, obs>>
       \/ /\ KeyFree(req[w].key)
          /\ \E r \in Relays \ relays :
                /\ relays' = relays \cup {r}
                /\ enabled' = enabled \cup {r}
                /\ relayOf' = [relayOf EXCEPT ![req[w].key] = r]
                /\ Reply(w, Granted(r))
          /\ active' = active \cup {req[w].key}
          /\ UNCHANGED <<replacement, lock, req>>
          /\ Watch

-----------------------------------------------------------------------------
(* rotate.                                                                 *)

OldRow(w) == Read(req[w].key \in active, replacement[req[w].key], FALSE, FALSE, None)

Find(w) ==
    /\ pc[w] = "find"
    /\ \/ /\ relayOf[req[w].key] = None
          /\ Reply(w, NoMemory)
          /\ UNCHANGED req
       \/ /\ relayOf[req[w].key] # None
          /\ Goto(w, "claim")
          /\ req' = [req EXCEPT ![w] = Call("rotate", req[w].key, req[w].new,
                                            relayOf[req[w].key], FALSE)]
          /\ mem' = [mem EXCEPT ![w] = OldRow(w)]
    /\ UNCHANGED <<rows, lock, obs>>

\* A plausible slip: deciding on the row that was read before the lock.
ReadBeforeLock(w) == mem[w]
Refreshed(w) == OldRow(w)

Refresh(w) ==
    /\ pc[w] = "refresh"
    /\ Goto(w, "relay")
    /\ mem' = [mem EXCEPT ![w] = Refreshed(w)]
    /\ UNCHANGED <<rows, lock, req, obs>>

CheckRelay(w) ==
    /\ pc[w] = "relay"
    /\ \/ req[w].ns \in enabled /\ Goto(w, "replacement") /\ UNCHANGED mem
       \/ req[w].ns \notin enabled /\ Reply(w, NoMemory)
    /\ UNCHANGED <<rows, lock, req, obs>>

\* A plausible slip: any key of the instance will do.
SameInstance(w) == relayOf[req[w].new] = req[w].ns /\ req[w].new \in active
\* The request repeats the rotation that retired the old key.
SameRotation(w) ==
    /\ mem[w].heir = req[w].new
    /\ relayOf[req[w].new] = req[w].ns
    /\ req[w].new \in active

\* The last alternative answers a key that is taken, or a rate used up.
CheckReplacement(w) ==
    /\ pc[w] = "replacement"
    /\ \/ ~mem[w].live /\ SameRotation(w) /\ Reply(w, Granted(req[w].ns))
       \/ ~mem[w].live /\ ~SameRotation(w) /\ Reply(w, NoMemory)
       \/ mem[w].live /\ KeyFree(req[w].new) /\ Goto(w, "rotate") /\ UNCHANGED mem
       \/ mem[w].live /\ Reply(w, NoMemory)
    /\ UNCHANGED <<rows, lock, req, obs>>

\* Plausible slip: the old key's row does not name its replacement.
Unnamed(w) == replacement
Named(w) == [replacement EXCEPT ![req[w].key] = req[w].new]

\* Plausible slip: the old key is not retired.
BothWork(w) == active \cup {req[w].new}
Replaced(w) == (active \ {req[w].key}) \cup {req[w].new}

CommitRotation(w) ==
    /\ pc[w] = "rotate"
    /\ \/ /\ ~KeyFree(req[w].new)       \* IntegrityError: rolled back, 409
          /\ Reply(w, NoMemory)
          /\ UNCHANGED <<rows, lock, req, obs>>
       \/ /\ KeyFree(req[w].new)
          /\ relayOf' = [relayOf EXCEPT ![req[w].new] = req[w].ns]
          /\ active' = Replaced(w)
          /\ replacement' = Named(w)
          /\ Reply(w, Granted(req[w].ns))
          /\ UNCHANGED <<relays, enabled, lock, req>>
          /\ Watch

-----------------------------------------------------------------------------
(* revoke_instance and set_enabled.  The session writes a column only if   *)
(* its new value differs from the one that was read.                       *)

\* A plausible slip: no 404, the row is taken to exist.
Assumed(r) == TRUE
Known(r) == r \in relays

ReadRelay(w) ==
    /\ pc[w] = "read"
    /\ \/ /\ ~Known(req[w].ns)
          /\ Reply(w, NoMemory)
       \/ /\ Known(req[w].ns)
          /\ Goto(w, "switch")
          /\ mem' = [mem EXCEPT ![w] = Read(FALSE, None, req[w].ns \in enabled, FALSE, None)]
    /\ UNCHANGED <<rows, lock, req, obs>>

\* A plausible slip: the change is not committed.
Uncommitted(w) == enabled
Switched(w) ==
    IF mem[w].on = req[w].want THEN enabled
    ELSE IF req[w].want THEN enabled \cup {req[w].ns} ELSE enabled \ {req[w].ns}

Switch(w) ==
    /\ pc[w] = "switch"
    /\ enabled' = Switched(w)
    /\ Reply(w, Granted(req[w].ns))
    /\ UNCHANGED <<relayOf, active, replacement, relays, lock, req>>
    /\ Watch

-----------------------------------------------------------------------------
(* Faults, as in PushBinding.                                              *)

Lapse(k) ==
    /\ lock[k] = Dead \/ (LeaseMayLapse /\ lock[k] # None)
    /\ lock' = [lock EXCEPT ![k] = None]
    /\ UNCHANGED <<rows, pc, req, mem, obs>>

Fail(w) ==
    /\ pc[w] # "idle"
    /\ lock' = Unlocked(w)
    /\ Forget(w)
    /\ UNCHANGED rows

Crash(w) ==
    /\ pc[w] # "idle"
    /\ Cardinality({k \in LockKeys : lock[k] \in {w, Dead}}) <= MaxOrphans
    /\ lock' = [k \in LockKeys |-> IF lock[k] = w THEN Dead ELSE lock[k]]
    /\ Forget(w)
    /\ UNCHANGED rows

Arrive(w) ==
    \/ \E k \in Keys : Enroll(w, k) \/ Revoke(w, k)
    \/ \E old, new \in Keys : Rotate(w, old, new)
    \/ \E r \in Relays, on \in BOOLEAN : SetEnabled(w, r, on)

Serve(w) ==
    \/ Claim(w) \/ ClaimBusy(w) \/ Answer(w)
    \/ Prior(w) \/ Authenticate(w) \/ Insert(w)
    \/ Find(w) \/ Refresh(w) \/ CheckRelay(w) \/ CheckReplacement(w) \/ CommitRotation(w)
    \/ ReadRelay(w) \/ Switch(w)

Next ==
    \/ \E w \in Workers : Arrive(w) \/ Serve(w) \/ Fail(w) \/ Crash(w)
    \/ \E k \in LockKeys : Lapse(k)

Spec == Init /\ [][Next]_vars

-----------------------------------------------------------------------------
(* Properties.                                                             *)

\* rotate and enroll: whichever requests race for whichever keys, an instance
\* has exactly one key that works, so that its owner is neither locked out
\* nor shares it with the holder of an old key.
OneCurrentKey == \A r \in relays : Cardinality({k \in active : relayOf[k] = r}) = 1

\* The key one reaches from k by following the replacements.
Heir(k) ==
    LET after[n \in 0..Cardinality(Keys)] ==
            IF n = 0 THEN k
            ELSE IF replacement[after[n - 1]] = None THEN after[n - 1]
            ELSE replacement[after[n - 1]]
    IN  after[Cardinality(Keys)]

\* rotate: the rows record the history of an instance, so that from each key
\* it ever had the replacements lead to the key that works now.
Lineage ==
    \A k \in Keys : relayOf[k] # None =>
        Heir(k) \in active /\ relayOf[Heir(k)] = relayOf[k]

\* rotate: a success, the first or a repeated one, is answered while the new
\* key is the current one and only for the rotation that really took place.
RotationAnswer ==
    \A w \in Workers : pc[w] = "answer" /\ req[w].kind = "rotate" /\ mem[w].granted =>
        /\ replacement[req[w].key] = req[w].new
        /\ req[w].key \notin active /\ req[w].new \in active
        /\ relayOf[req[w].key] = mem[w].reply /\ relayOf[req[w].new] = mem[w].reply

\* rotate_instance: a client that lost the response and repeats the request
\* is not refused as long as the rotation it asks for is the latest one.
RetryNotRefused ==
    \A w \in Workers : pc[w] = "answer" /\ req[w].kind = "rotate" /\ ~mem[w].granted => ~obs[w].retry

\* Both answers to a rotation tell the truth, the granted and the refused one.
RotationTruthful == RotationAnswer /\ RetryNotRefused

\* authenticated_relay: whoever is served without being the operator held a
\* key that worked at some moment of the request; keys retired or disabled
\* before it began get nothing.
ServedWithKey ==
    \A w \in Workers : mem[w].granted /\ req[w].kind # "set" => obs[w].valid

\* revoke_instance and set_enabled: a success means that the instance was in
\* the state asked for at some moment of the request, whatever else switched it.
SwitchTakesEffect ==
    \A w \in Workers : pc[w] = "answer" /\ req[w].kind \in {"revoke", "set"} /\ mem[w].granted =>
        req[w].want \in obs[w].seen

\* PUSH_RELAY_KEY keeps every row and its primary key: a key that was retired
\* never works again and never changes its instance, not even when a section
\* outlives its lease.
RetiredForGood ==
    [][\A k \in Keys : relayOf[k] # None /\ k \notin active =>
            k \notin active' /\ relayOf'[k] = relayOf[k]]_vars

\* The current key of each instance, as the promise of PushInstances sees it.
CurrentKey ==
    [r \in Relays |-> IF r \in relays THEN CHOOSE k \in active : relayOf[k] = r ELSE None]

Promise == INSTANCE PushInstances WITH owner <- relayOf, current <- CurrentKey, open <- enabled

\* Enrolment, rotation and the switches implement PushInstances.
KeepsPromise == Promise!Spec

\* rotate says an old key can only repeat its own rotation.  When a section
\* outlives its lease the old key is rotated twice: see the run that refutes it.
OldKeyRotatesOnce ==
    [][\A k \in Keys : replacement[k] # None => replacement'[k] = replacement[k]]_vars

-----------------------------------------------------------------------------
(* The invariant behind TypeOK, and the one behind OneCurrentKey and        *)
(* KeepsPromise while no lease lapses under a worker.                       *)

KeysHaveRelays ==
    /\ \A k \in Keys : relayOf[k] \in relays \cup {None}
    /\ \A k \in active : relayOf[k] \in relays

\* What a request names, and who is where.
AddressedAt(w) ==
    /\ req[w].kind \in {"enroll", "rotate", "revoke"} => req[w].key \in Keys
    /\ req[w].kind = "rotate" =>
           /\ req[w].new \in Keys
           /\ pc[w] \in {"claim"} \cup RotatingAt =>
                  req[w].ns \in relays /\ relayOf[req[w].key] = req[w].ns
    /\ req[w].kind = "set" => req[w].ns \in Relays
    /\ pc[w] = "switch" => req[w].ns \in relays
    /\ pc[w] = "claim" => req[w].kind \in {"enroll", "rotate", "set"}
    /\ pc[w] \in {"prior", "insert"} => req[w].kind = "enroll"
    /\ pc[w] = "authenticate" => req[w].kind \in {"enroll", "revoke"}
    /\ pc[w] \in {"find"} \cup RotatingAt => req[w].kind = "rotate"

TypeInv == TypeOK /\ KeysHaveRelays /\ \A w \in Workers : AddressedAt(w)

\* A rotation holds the lock of its instance from its refresh to its commit.
RotationLocked == \A w \in Workers : pc[w] \in RotatingAt => lock[req[w].ns] = w

\* A key that was found active under the lock is active until the commit.
StillCurrent ==
    \A w \in Workers :
        pc[w] = "rotate" \/ (pc[w] \in {"relay", "replacement"} /\ mem[w].live)
            => req[w].key \in active

SoleKey == \A r \in relays : \E k \in active : {j \in active : relayOf[j] = r} = {k}

CredInv == TypeInv /\ RotationLocked /\ StillCurrent /\ SoleKey
=============================================================================
