----------------------- MODULE PushBindingCodesProofs ----------------------
(***************************************************************************)
(* Proofs about PushBinding: one-time codes bind once, a logout leaves     *)
(* nothing behind while it holds its lock, and a row is only written for   *)
(* an instance that was enabled.                                           *)
(***************************************************************************)
EXTENDS PushBindingProofs

(* Codes that were issued, those issued for what request w is about, and   *)
(* those issued in this step.  A code is issued at most once.              *)
Issued == {c \in Codes : pairing[c] # None}
Meant(w) == {c \in Issued : pairing[c] = PairingValue(w)}
Fresh == Issued' \ Issued

\* Steps of a logout that has taken the lock.
LogoutAt == {"rows", "find codes", "delete codes", "drop index"}

\* What is known of the codes a request names, is to delete or has found.
OriginOf(w) ==
    /\ req[w].kind = "subscribe" => req[w].code \in Meant(w)
    /\ req[w].kind = "register" => req[w].code = None
    /\ req[w].kind = "unregister" => req[w].parent = req[w].inst
    /\ pc[w] = "lock" => req[w].kind \in {"register", "subscribe", "unregister"}
    /\ pc[w] \in LogoutAt => req[w].kind = "unregister" /\ obs[w].listed \subseteq Meant(w)
    /\ pc[w] = "delete codes" => mem[w].codes \subseteq Meant(w)

\* Codes stand for what they were issued for, wherever they turn up.
Origins ==
    /\ live \subseteq Issued /\ index \subseteq Issued /\ revoked \subseteq Issued
    /\ \A d \in devices : d.via # None =>
           /\ d.via \in Issued
           /\ pairing[d.via] = [ns |-> d.ns, owner |-> d.owner, parent |-> d.parent]
    /\ \A w \in Workers : OriginOf(w)

CodesInv == TypeInv /\ Origins

\* No code exists at first.
LEMMA CodesInvInit == Init => CodesInv
<1> SUFFICES ASSUME Init PROVE CodesInv
  OBVIOUS
<1>1. Origins
  BY DEF Init, Origins, OriginOf, Issued, LogoutAt, NoRequest, Call
<1> QED BY <1>1, InitType DEF CodesInv

-----------------------------------------------------------------------------
(* What a step does to the codes.                                          *)

\* Codes are issued once, and live and listed only after that.
LEMMA CodesStep ==
  ASSUME TypeInv, [Next]_vars
  PROVE  /\ \A c \in Issued : c \in Issued' /\ pairing'[c] = pairing[c]
         /\ live' \subseteq live \cup Fresh /\ index' \subseteq index \cup Fresh
<1> USE DEF TypeInv, TypeOK
<1>1. CASE pairing' = pairing /\ live' \subseteq live /\ index' \subseteq index
  BY <1>1 DEF Issued
<1>2. ASSUME NEW w \in Workers, CreatePairing(w)
      PROVE  /\ \A c \in Issued : c \in Issued' /\ pairing'[c] = pairing[c]
             /\ live' \subseteq live \cup Fresh /\ index' \subseteq index \cup Fresh
  <2>1. PairingValue(w) \in Pairing
    BY <1>2 DEF Addressed, CreatePairing, PairingValue, Pairing
  <2>2. PICK c \in Codes : /\ pairing[c] = None
                           /\ pairing' = [pairing EXCEPT ![c] = PairingValue(w)]
                           /\ live' = live \cup {c} /\ index' = index \cup {c}
    BY <1>2 DEF CreatePairing
  <2>3. c \in Fresh
    BY <2>1, <2>2, AbsentAssumption DEF Issued, Fresh
  <2> QED BY <2>2, <2>3 DEF Issued
<1>3. ASSUME NEW w \in Workers, Act(w), ~CreatePairing(w)
      PROVE  pairing' = pairing /\ live' \subseteq live /\ index' \subseteq index
  <2>1. CASE Arrive(w)
    BY <2>1 DEF Arrive, Register, Subscribe, Unregister, RequestPairing, Unsubscribe, TestSubscription,
                Manage, SendMessage
  <2>2. CASE Serve(w)
    BY <1>3, <2>2
    DEF Serve, LockBusy, Release, DeadlockVictim, AcquireInstall, AcquireQuota, ReleaseQuota,
        ConsumePairing, DropAfterUse, RequireEnabledNamespace, ReadExisting, CountDevices, EvictRivals,
        Upsert, RemoveRows, FindCodes, DeleteCodes, DropIndex, Deliver, PruneRevision
  <2> QED BY <1>3, <2>1, <2>2 DEF Act, Fail, Crash
<1>4. CASE Ambient \/ UNCHANGED vars
  BY <1>1, <1>4 DEF Ambient, Environment, Lapse, ExpireCode, ExpireIndex, Disable, Enable, vars
<1> QED BY <1>1, <1>2, <1>3, <1>4, NextCases

\* Only the logout itself and the switch of its instance write the notes of a request.
LEMMA NotesAlone ==
  ASSUME TypeInv, NEW w \in Workers, Act(w), NEW x \in Workers \ {w}
  PROVE  obs'[x].listed = obs[x].listed /\ obs'[x].licensed = obs[x].licensed
<1> USE DEF TypeInv, TypeOK
<1>1. CASE Arrive(w)
  BY ZenonT(30), <1>1 DEF Arrive, Register, Subscribe, Unregister, RequestPairing, Unsubscribe, TestSubscription,
              Manage, SendMessage, Accept
<1>2. CASE DropIndex(w)
  BY <1>2 DEF DropIndex, Note
<1>3. CASE AcquireInstall(w)
  BY <1>3 DEF AcquireInstall
<1>4. CASE Finish(w) \/ UNCHANGED obs
  BY <1>4 DEF Finish
<1>5. CASE Serve(w) /\ ~(DropIndex(w) \/ AcquireInstall(w))
  BY <1>4, <1>5
  DEF Serve, LockBusy, Release, DeadlockVictim, Unwind, AcquireQuota, ReleaseQuota, CreatePairing,
      ConsumePairing, RequireEnabledNamespace, ReadExisting, CountDevices, EvictRivals, Upsert,
      RemoveRows, FindCodes, DeleteCodes, Deliver, PruneRevision
<1> QED BY <1>1, <1>2, <1>3, <1>4, <1>5 DEF Act, Fail, Crash, Unwind

\* Steps of no worker keep the requests and what is to be deleted, and license more.
LEMMA AmbientNotes ==
  ASSUME TypeInv, Ambient \/ UNCHANGED vars
  PROVE  /\ pc' = pc /\ req' = req /\ mem' = mem /\ devices' = devices /\ revoked' = revoked
         /\ \A x \in Workers : /\ obs'[x].listed = obs[x].listed
                               /\ obs[x].licensed => obs'[x].licensed
         /\ \A x \in Workers, n \in Namespaces :
                req[x].ns = n /\ enabled'[n] /\ ~enabled[n] => obs'[x].licensed
<1> USE DEF TypeInv, TypeOK
<1>1. CASE \E n \in Namespaces : Enable(n)
  <2>1. PICK n \in Namespaces : Enable(n)
    BY <1>1
  <2>2. \A x \in Workers : /\ obs'[x].listed = obs[x].listed
                           /\ obs'[x].licensed = (obs[x].licensed \/ req[x].ns = n)
    BY <2>1 DEF Enable, Note
  <2>3. \A m \in Namespaces \ {n} : enabled'[m] = enabled[m]
    BY <2>1 DEF Enable
  <2>4. pc' = pc /\ req' = req /\ mem' = mem /\ devices' = devices /\ revoked' = revoked
    BY <2>1 DEF Enable
  <2> HIDE DEF TypeInv
  <2> QED BY <2>2, <2>3, <2>4
<1>2. CASE \E n \in Namespaces : Disable(n)
  <2>1. PICK n \in Namespaces : enabled' = [enabled EXCEPT ![n] = FALSE]
    BY <1>2 DEF Disable
  <2>2. \A m \in Namespaces : enabled'[m] => enabled[m]
    BY <2>1, Zenon
  <2> QED BY <1>2, <2>2 DEF Disable
<1>3. CASE \/ \E k \in LockKeys : Lapse(k)
           \/ \E c \in Codes : ExpireCode(c)
           \/ \E n \in Namespaces, o \in Owners, i \in NativeInst : ExpireIndex(n, o, i)
           \/ UNCHANGED vars
  BY <1>3 DEF Lapse, ExpireCode, ExpireIndex, vars
<1> QED BY <1>1, <1>2, <1>3 DEF Ambient, Environment

-----------------------------------------------------------------------------
(* Where codes come from.                                                  *)

\* A code that was issued for a request stays so.
LEMMA MeantKept ==
  ASSUME TypeInv, [Next]_vars, NEW x \in Workers, req'[x] = req[x]
  PROVE  Meant(x) \subseteq Meant(x)'
BY CodesStep DEF Meant, PairingValue, Issued

\* A request keeps its origin while another one acts.
LEMMA OriginKept ==
  ASSUME TypeInv, [Next]_vars, NEW x \in Workers, OriginOf(x),
         pc'[x] = pc[x], req'[x] = req[x], mem'[x] = mem[x], obs'[x].listed = obs[x].listed
  PROVE  OriginOf(x)'
<1>1. Meant(x) \subseteq Meant(x)' /\ Meant(x) \cap Fresh = {}
  BY MeantKept DEF Meant, Fresh
<1> QED BY <1>1 DEF OriginOf

\* A code that is live when a logout takes the lock was issued for its installation.
LEMMA CoveredMeant ==
  ASSUME TypeInv, live \subseteq Issued, NEW w \in Workers, pc[w] = "lock"
  PROVE  CodesFor(w) \subseteq Meant(w)
BY DEF TypeInv, Addressed, CodesFor, InstallKey, PairingValue, Meant, Pairing

\* A request has an origin after each step of its own.
LEMMA OriginOwn ==
  ASSUME CodesInv, TypeInv', NEW w \in Workers, Act(w)
  PROVE  OriginOf(w)'
<1>1. CASE pc'[w] = "idle"
  BY <1>1 DEF TypeInv, Addressed, OriginOf, LogoutAt, NoRequest, Call
<1>2. CASE Arrive(w)
  <2>1. pc'[w] \in {"lock", "pair", "deliver", "prune"}
    BY <1>2, ArriveAlone DEF CodesInv, TypeInv
  <2>2. ASSUME NEW c \in Codes, NEW i \in WebInst, NEW e \in Endpoints, Subscribe(w, c, i, e)
        PROVE  OriginOf(w)'
    <3>1. /\ req'[w] = Call("subscribe", pairing[c].ns, pairing[c].owner, i, pairing[c].parent, e, c,
                            saves + 1)
          /\ pairing' = pairing /\ c \in Issued
      BY <2>2 DEF CodesInv, TypeInv, TypeOK, Subscribe, Accept, Origins
    <3>2. pairing[c] \in Pairing
      BY <2>2 DEF CodesInv, TypeInv, Subscribe, Addressed
    <3>3. c \in Meant(w)'
      BY <3>1, <3>2 DEF Meant, Issued, PairingValue, Call, Pairing
    <3>4. req'[w].kind = "subscribe" /\ req'[w].code = c
      BY <3>1 DEF Call
    <3> QED BY <2>1, <3>3, <3>4 DEF OriginOf, LogoutAt
  <2>3. ASSUME NEW n, NEW o, NEW i, NEW t, Register(w, n, o, i, t) \/ Unregister(w, n, o, i)
        PROVE  OriginOf(w)'
    <3>1. PICK r : Accept(w, r, "lock") /\ r.kind \in {"register", "unregister"}
                   /\ r.code = None /\ r.parent = r.inst
      BY <2>3 DEF Register, Unregister, Call
    <3>2. req'[w] = r
      BY <3>1 DEF CodesInv, TypeInv, TypeOK, Accept
    <3> QED BY <2>1, <3>1, <3>2 DEF OriginOf, LogoutAt
  <2>4. ASSUME NEW n, NEW o, NEW i, RequestPairing(w, n, o, i) \/ SendMessage(w, n, o)
        PROVE  OriginOf(w)'
    <3>1. \E r, step : /\ step \in {"pair", "deliver"} /\ Accept(w, r, step)
                       /\ r.kind \in {"pair", "send"}
      BY <2>4 DEF RequestPairing, SendMessage, Call
    <3>2. req'[w].kind \in {"pair", "send"} /\ pc'[w] \in {"pair", "deliver"}
      BY <3>1 DEF CodesInv, TypeInv, TypeOK, Accept, Goto
    <3> QED BY <3>2 DEF OriginOf, LogoutAt
  <2>5. ASSUME NEW d, Unsubscribe(w, d) \/ TestSubscription(w, d) PROVE OriginOf(w)'
    <3>1. \E r, step : step \in {"prune", "deliver"} /\ Accept(w, r, step) /\ r.kind = "manage"
      BY <2>5 DEF Unsubscribe, TestSubscription, Manage, Call
    <3>2. req'[w].kind = "manage" /\ pc'[w] \in {"prune", "deliver"}
      BY <3>1 DEF CodesInv, TypeInv, TypeOK, Accept, Goto
    <3> QED BY <3>2 DEF OriginOf, LogoutAt
  <2> QED BY <1>2, <2>2, <2>3, <2>4, <2>5 DEF Arrive
<1>3. CASE Fail(w) \/ LockBusy(w) \/ Release(w) \/ DeadlockVictim(w) \/ Crash(w)
  BY <1>1, <1>3, UnwindAlone, CrashAlone DEF CodesInv, TypeInv, Fail, LockBusy, Release, DeadlockVictim
<1>4. ASSUME req' = req, pc'[w] \notin {"idle", "lock"} \cup LogoutAt PROVE OriginOf(w)'
  <2>1. [Next]_vars
    BY DEF Next, Act, Environment
  <2>2. OriginOf(w)
    BY DEF CodesInv, Origins
  <2> QED BY <1>4, <2>1, <2>2, MeantKept DEF CodesInv, OriginOf, LogoutAt
<1>5. CASE CreatePairing(w) \/ Deliver(w) \/ PruneRevision(w)
  <2>1. pc'[w] \in {"idle", "prune"}
    BY <1>5, AloneOutside DEF CodesInv, TypeInv
  <2>2. pc'[w] = "prune" => req' = req
    BY <1>5 DEF CodesInv, TypeInv, TypeOK, CreatePairing, Deliver, PruneRevision, Finish, Goto
  <2> QED BY <1>1, <1>4, <2>1, <2>2 DEF LogoutAt
<1>6. CASE \/ ConsumePairing(w) \/ RequireEnabledNamespace(w) \/ ReadExisting(w) \/ CountDevices(w)
           \/ EvictRivals(w) \/ Upsert(w) \/ AcquireQuota(w) \/ ReleaseQuota(w)
  <2>1. req' = req
    BY <1>6 DEF ConsumePairing, RequireEnabledNamespace, ReadExisting, CountDevices, EvictRivals,
                Upsert, AcquireQuota, ReleaseQuota
  <2>2. pc'[w] \in {"check", "release", "quota", "count", "evict", "upsert", "release quota", "existing"}
    BY <1>6 DEF CodesInv, TypeInv, TypeOK, ConsumePairing, RequireEnabledNamespace, ReadExisting,
                CountDevices, EvictRivals, Upsert, AcquireQuota, ReleaseQuota, Take, Goto
  <2> QED BY <1>4, <2>1, <2>2 DEF LogoutAt
<1>7. CASE AcquireInstall(w)
  <2>1. req' = req /\ pairing' = pairing /\ pc[w] = "lock"
    BY <1>7 DEF AcquireInstall
  <2>2. pc'[w] \in {"quota", "consume", "rows"} /\ (pc'[w] = "rows" => req[w].kind \notin {"register", "subscribe"})
    BY <1>7 DEF CodesInv, TypeInv, TypeOK, AcquireInstall, Take, Goto
  <2>3. CASE pc'[w] = "rows"
    <3>1. req[w].kind = "unregister"
      BY <2>1, <2>2, <2>3 DEF CodesInv, Origins, OriginOf
    <3>2. obs'[w].listed \subseteq Meant(w)
      BY <1>7, <2>1, <3>1, CoveredMeant DEF CodesInv, Origins, TypeInv, TypeOK, Note, AcquireInstall
    <3>3. Meant(w)' = Meant(w) /\ req[w].parent = req[w].inst
      BY <2>1, <3>1 DEF Meant, Issued, PairingValue, CodesInv, Origins, OriginOf
    <3> QED BY <2>1, <2>3, <3>1, <3>2, <3>3 DEF OriginOf
  <2> QED BY <1>4, <2>1, <2>2, <2>3 DEF LogoutAt
<1>8. CASE RemoveRows(w) \/ FindCodes(w) \/ DeleteCodes(w) \/ DropIndex(w)
  <2>1. req' = req /\ pairing' = pairing /\ pc[w] \in LogoutAt /\ pc'[w] \in (LogoutAt \ {"rows"}) \cup {"release"}
    BY <1>8 DEF CodesInv, TypeInv, TypeOK, RemoveRows, FindCodes, DeleteCodes, DropIndex, Goto, LogoutAt
  <2>2. Meant(w)' = Meant(w) /\ OriginOf(w)
    BY <2>1 DEF Meant, Issued, PairingValue, CodesInv, Origins
  <2>3. pc'[w] # "release" => obs'[w].listed = obs[w].listed
    BY <1>8 DEF CodesInv, TypeInv, TypeOK, RemoveRows, FindCodes, DeleteCodes, DropIndex, Goto
  <2>4. CASE pc'[w] = "delete codes"
    <3>1. FindCodes(w)
      BY <1>8, <2>4 DEF CodesInv, TypeInv, TypeOK, RemoveRows, FindCodes, DeleteCodes, DropIndex, Goto
    <3>2. mem'[w].codes = FoundCodes(w) /\ index' = index /\ live' = live
      <4>1. mem' = [mem EXCEPT ![w].codes = FoundCodes(w)] /\ UNCHANGED <<index, live>>
        BY <3>1 DEF FindCodes
      <4>2. mem \in [Workers -> Memory]
        BY DEF CodesInv, TypeInv, TypeOK
      <4>3. \A m \in Memory : \A codes : [m EXCEPT !.codes = codes].codes = codes
        BY DEF Memory
      <4>4. mem'[w] = [mem[w] EXCEPT !.codes = FoundCodes(w)] /\ mem[w] \in Memory
        BY <4>1, <4>2
      <4> QED BY <4>1, <4>3, <4>4
    <3>3. FoundCodes(w) = index \cap Meant(w)
      BY <2>1, <2>2 DEF FoundCodes, IndexOf, Meant, PairingValue, CodesInv, Origins, OriginOf
    <3> QED BY <2>1, <2>2, <2>3, <2>4, <3>2, <3>3 DEF OriginOf, LogoutAt
  <2>5. CASE pc'[w] # "delete codes"
    BY <2>1, <2>2, <2>3, <2>5 DEF OriginOf, LogoutAt
  <2> QED BY <2>4, <2>5
<1> QED BY <1>2, <1>3, <1>5, <1>6, <1>7, <1>8 DEF Act, Serve

\* What a save writes was meant by the code it names.
LEMMA WrittenOrigin ==
  ASSUME TypeInv, NEW w \in Workers, Upsert(w), OriginOf(w)
  PROVE  Written(w).via # None =>
            /\ Written(w).via \in Issued
            /\ pairing[Written(w).via] = [ns |-> Written(w).ns, owner |-> Written(w).owner,
                                          parent |-> Written(w).parent]
<1>1. req[w].kind \in {"register", "subscribe"}
  BY DEF TypeInv, Addressed, Upsert, QuotaHeldAt
<1> QED BY <1>1 DEF OriginOf, Written, Meant, PairingValue

\* Only a logout revokes.
LEMMA RevokedStep ==
  ASSUME NEW w \in Workers, Act(w), ~DeleteCodes(w) PROVE revoked' = revoked
BY DEF Act, Arrive, Register, Subscribe, Unregister, RequestPairing, Unsubscribe, TestSubscription,
       Manage, SendMessage, Serve, Fail, Crash, LockBusy, Release, DeadlockVictim, AcquireInstall,
       AcquireQuota, ReleaseQuota, CreatePairing, ConsumePairing, RequireEnabledNamespace, ReadExisting,
       CountDevices, EvictRivals, Upsert, RemoveRows, FindCodes, DropIndex, Deliver, PruneRevision

\* What a request knows of codes stays true.
LEMMA OriginsStep == CodesInv /\ [Next]_vars => Origins'
<1> SUFFICES ASSUME CodesInv, [Next]_vars PROVE Origins'
  OBVIOUS
<1> USE DEF CodesInv
<1>1. TypeInv'
  BY TypeStep
<1>2. live' \subseteq Issued' /\ index' \subseteq Issued'
  BY CodesStep DEF Origins, Fresh
<1>3. ASSUME NEW w \in Workers, Act(w) PROVE Origins'
  <2>1. \A x \in Workers : OriginOf(x)'
    <3> SUFFICES ASSUME NEW x \in Workers PROVE OriginOf(x)'
      OBVIOUS
    <3>1. CASE x = w
      BY <1>1, <1>3, <3>1, OriginOwn
    <3>2. CASE x # w
      BY <1>3, <3>2, OriginKept, ActAlone, NotesAlone DEF Origins, TypeInv, Bystanders
    <3> QED BY <3>1, <3>2
  <2>2. devices' \subseteq devices \/ (Upsert(w) /\ devices' \subseteq devices \cup {Written(w)})
    BY <1>3, Shrinks, UpsertEffect
  <2>3. \A d \in devices' : d.via # None =>
           /\ d.via \in Issued /\ pairing[d.via] = [ns |-> d.ns, owner |-> d.owner, parent |-> d.parent]
    BY <2>2, WrittenOrigin DEF Origins
  <2>4. \A d \in devices' : d.via # None =>
           /\ d.via \in Issued' /\ pairing'[d.via] = [ns |-> d.ns, owner |-> d.owner, parent |-> d.parent]
    BY <2>3, CodesStep
  <2>5. revoked' \subseteq Issued
    <3>1. CASE DeleteCodes(w)
      BY <3>1 DEF Origins, OriginOf, Meant, LogoutAt, DeleteCodes
    <3>2. CASE ~DeleteCodes(w)
      BY <1>3, <3>2, RevokedStep DEF Origins
    <3> QED BY <3>1, <3>2
  <2> QED BY <1>2, <2>1, <2>4, <2>5, CodesStep DEF Origins
<1>4. CASE Ambient \/ UNCHANGED vars
  <2>1. \A x \in Workers : OriginOf(x)'
    BY <1>4, AmbientNotes, OriginKept DEF Origins
  <2>2. devices' = devices /\ revoked' = revoked
    BY <1>4, AmbientNotes
  <2> QED BY <1>2, <2>1, <2>2, CodesStep DEF Origins
<1> QED BY <1>3, <1>4, NextCases

\* Only the deletion of the rows leads into the logout's window.
LEMMA LogoutEntered ==
  ASSUME TypeInv, NEW x \in Workers, Act(x), pc'[x] \in {"find codes", "delete codes", "drop index"}
  PROVE  \/ RemoveRows(x) /\ pc'[x] = "find codes"
         \/ FindCodes(x) \/ DeleteCodes(x)
<1> USE DEF TypeInv, TypeOK
<1>1. ~Arrive(x)
  BY ArriveAlone
<1>2. ~(Fail(x) \/ Crash(x) \/ LockBusy(x) \/ Release(x) \/ DeadlockVictim(x))
  BY UnwindAlone, CrashAlone DEF Fail, LockBusy, Release, DeadlockVictim
<1>3. ~(CreatePairing(x) \/ Deliver(x) \/ PruneRevision(x))
  BY AloneOutside
<1>4. ~(AcquireInstall(x) \/ AcquireQuota(x) \/ ReleaseQuota(x))
  BY DEF AcquireInstall, AcquireQuota, ReleaseQuota, Take, Goto
<1>5. ~(\/ ConsumePairing(x) \/ RequireEnabledNamespace(x) \/ ReadExisting(x) \/ CountDevices(x)
        \/ EvictRivals(x) \/ Upsert(x))
  BY DEF ConsumePairing, RequireEnabledNamespace, ReadExisting, CountDevices, EvictRivals, Upsert, Goto
<1>6. ~DropIndex(x) /\ (RemoveRows(x) => pc'[x] = "find codes")
  BY DEF RemoveRows, DropIndex, Goto
<1> QED BY <1>1, <1>2, <1>3, <1>4, <1>5, <1>6 DEF Act, Serve

\* The invariant of the codes is inductive.
LEMMA CodesInvStep == CodesInv /\ [Next]_vars => CodesInv'
BY TypeStep, OriginsStep DEF CodesInv

-----------------------------------------------------------------------------
(* A code binds once.  Redis deletes it for the one request that gets it,  *)
(* and whatever that request writes replaces the claim by a row.           *)

Takes(w, c) == Binding(w) /\ req[w].code = c

Spent ==
    /\ \A d1, d2 \in devices : d1.via \in Codes /\ d1.via = d2.via => d1 = d2
    /\ \A c \in Codes, w \in Workers, x \in Workers : Takes(w, c) /\ Takes(x, c) => w = x
    /\ \A c \in Codes, w \in Workers, d \in devices : Takes(w, c) => d.via # c
    /\ \A c \in live, d \in devices : d.via # c
    /\ \A c \in live, w \in Workers : ~Takes(w, c)

\* A request on its way to a row has just taken its code off Redis, or had it before.
LEMMA TakesOwn ==
  ASSUME CodesInv, NEW w \in Workers, Act(w), NEW c \in Codes, Takes(w, c)'
  PROVE  /\ Takes(w, c) \/ (c \in live /\ c \notin live')
         /\ ~Upsert(w) /\ ~DeleteCodes(w)
<1> USE DEF CodesInv, TypeInv, TypeOK
<1>1. pc'[w] \in {"check", "quota", "existing", "count", "evict", "upsert"} /\ req'[w].code = c
  BY DEF Takes, Binding
<1>2. ~Arrive(w)
  BY <1>1, ArriveAlone
<1>3. ~(Fail(w) \/ Crash(w) \/ LockBusy(w) \/ Release(w) \/ DeadlockVictim(w))
  BY <1>1, UnwindAlone, CrashAlone DEF Fail, LockBusy, Release, DeadlockVictim
<1>4. ~(CreatePairing(w) \/ Deliver(w) \/ PruneRevision(w))
  BY <1>1, AloneOutside
<1>5. ~(RemoveRows(w) \/ FindCodes(w) \/ DeleteCodes(w) \/ DropIndex(w) \/ ReleaseQuota(w) \/ Upsert(w))
  BY <1>1 DEF RemoveRows, FindCodes, DeleteCodes, DropIndex, ReleaseQuota, Upsert, Goto
<1>6. ~AcquireInstall(w)
  <2>1. AcquireInstall(w) => req' = req /\ req[w].kind = "register"
    BY <1>1 DEF AcquireInstall, Take, Goto
  <2>2. req[w].kind = "register" => req[w].code = None
    BY DEF Origins, OriginOf
  <2> QED BY <1>1, <2>1, <2>2, NamesAssumption
<1>7. CASE ConsumePairing(w)
  <2>1. req' = req /\ req[w].code \in live /\ live' = live \ {req[w].code}
    BY <1>1, <1>7 DEF ConsumePairing, DropAfterUse, Goto
  <2> QED BY <1>1, <1>5, <2>1
<1>8. CASE RequireEnabledNamespace(w) \/ AcquireQuota(w) \/ ReadExisting(w) \/ CountDevices(w) \/ EvictRivals(w)
  <2>1. req' = req /\ Binding(w)
    BY <1>8 DEF RequireEnabledNamespace, AcquireQuota, ReadExisting, CountDevices, EvictRivals, Binding
  <2> QED BY <1>1, <1>5, <2>1 DEF Takes
<1> QED BY <1>2, <1>3, <1>4, <1>5, <1>6, <1>7, <1>8 DEF Act, Serve

\* No row and no request on its way to one names a code that is not issued.
LEMMA NamedIssued ==
  ASSUME CodesInv
  PROVE  /\ \A d \in devices : d.via \in Codes => d.via \in Issued
         /\ \A w \in Workers, c \in Codes : Takes(w, c) => c \in Issued
<1>1. ASSUME NEW w \in Workers, NEW c \in Codes, Takes(w, c) PROVE c \in Issued
  <2>1. req[w].kind \in {"register", "subscribe"}
    BY <1>1 DEF CodesInv, TypeInv, Addressed, Takes, Binding, QuotaHeldAt
  <2> QED BY <1>1, <2>1, NamesAssumption DEF CodesInv, Origins, OriginOf, Takes, Meant
<1> QED BY <1>1, NamesAssumption DEF CodesInv, Origins

\* A code is taken by one request at most.
LEMMA SpentStep == CodesInv /\ Spent /\ [Next]_vars => Spent'
<1> SUFFICES ASSUME CodesInv, Spent, [Next]_vars PROVE Spent'
  OBVIOUS
<1>1. ASSUME NEW w \in Workers, Act(w) PROVE Spent'
  <2>1. \A x \in Workers \ {w}, c \in Codes : Takes(x, c)' <=> Takes(x, c)
    BY <1>1, ActAlone DEF CodesInv, TypeInv, Bystanders, Takes, Binding
  <2>2. \A c \in Codes : Takes(w, c)' => /\ Takes(w, c) \/ (c \in live /\ c \notin live')
                                        /\ ~Upsert(w)
    BY <1>1, TakesOwn
  <2>3. \A d \in devices' : d \in devices \/ (Upsert(w) /\ d = Written(w))
    BY <1>1, Shrinks, UpsertEffect DEF CodesInv
  <2>4. Upsert(w) => Written(w).via = req[w].code /\ Binding(w) /\ live' = live
    BY DEF Upsert, Written, Binding
  <2>5. Upsert(w) /\ Written(w).via \in Codes => Takes(w, Written(w).via)
    BY <2>4 DEF Takes
  <2>6. live' \subseteq live \cup Fresh /\ live' \subseteq Codes
    BY CodesStep, TypeStep DEF CodesInv, TypeInv, TypeOK
  <2>7. \A c \in Fresh : (\A d \in devices : d.via # c) /\ (\A x \in Workers : ~Takes(x, c))
    BY NamedIssued DEF Fresh, Issued
  <2>8. live \subseteq Codes
    BY DEF CodesInv, TypeInv, TypeOK
  <2>9. \A d1, d2 \in devices' : d1.via \in Codes /\ d1.via = d2.via => d1 = d2
    BY <2>3, <2>5 DEF Spent
  <2>10. \A c \in Codes, x \in Workers, y \in Workers : Takes(x, c)' /\ Takes(y, c)' => x = y
    BY <2>1, <2>2 DEF Spent
  <2>11. \A c \in Codes, x \in Workers, d \in devices' : Takes(x, c)' => d.via # c
    BY <2>1, <2>2, <2>3, <2>5 DEF Spent
  <2>12. \A c \in live', d \in devices' : d.via # c
    BY <2>3, <2>4, <2>5, <2>6, <2>7, <2>8 DEF Spent
  <2>13. \A c \in live', x \in Workers : ~Takes(x, c)'
    BY <2>1, <2>2, <2>6, <2>7, <2>8 DEF Spent
  <2> QED BY <2>9, <2>10, <2>11, <2>12, <2>13 DEF Spent
<1>2. CASE Ambient \/ UNCHANGED vars
  <2>1. pc' = pc /\ req' = req /\ devices' = devices
    BY <1>2, AmbientNotes DEF CodesInv
  <2>2. live' \subseteq live
    BY <1>2 DEF Ambient, Environment, Lapse, ExpireCode, ExpireIndex, Disable, Enable, vars
  <2> QED BY <2>1, <2>2 DEF Spent, Takes, Binding
<1> QED BY <1>1, <1>2, NextCases

\* In numbers, as the run states it.
LEMMA SpentOnce == CodesInv /\ Spent => OneBindingPerCode
<1> SUFFICES ASSUME CodesInv, Spent, NEW c \in Codes
             PROVE  Cardinality({d \in devices : d.via = c})
                    + Cardinality({w \in Workers : Binding(w) /\ req[w].code = c}) <= 1
  BY DEF OneBindingPerCode
<1> DEFINE D == {d \in devices : d.via = c}
<1> DEFINE W == {w \in Workers : Binding(w) /\ req[w].code = c}
<1>1. D = {} \/ \E d : D = {d}
  BY DEF Spent
<1>2. W = {} \/ \E w : W = {w}
  <2>1. \A w, x \in W : w = x
    BY DEF Spent, Takes
  <2> QED BY <2>1
<1>3. D = {} \/ W = {}
  <2>1. ASSUME NEW d \in D, NEW w \in W PROVE FALSE
    BY DEF Spent, Takes
  <2> QED BY <2>1
<1> HIDE DEF D, W
<1>4. Cardinality(D) \in {0, 1} /\ (D = {} => Cardinality(D) = 0)
  BY <1>1, FS_EmptySet, FS_Singleton
<1>5. Cardinality(W) \in {0, 1} /\ (W = {} => Cardinality(W) = 0)
  BY <1>2, FS_EmptySet, FS_Singleton
<1>6. Cardinality(D) + Cardinality(W) <= 1
  BY <1>3, <1>4, <1>5
<1> QED BY <1>6 DEF D, W

\* One code ends up in at most one row, for any number of racing requests.
THEOREM CodesBindOnce == Spec => []OneBindingPerCode
<1>1. Init => Spent
  <2>1. Init => devices = {} /\ live = {} /\ \A w \in Workers : ~Binding(w)
    BY DEF Init, Binding
  <2> QED BY <2>1 DEF Spent, Takes
<1> QED BY <1>1, CodesInvInit, CodesInvStep, SpentStep, SpentOnce, PTL DEF Spec

-----------------------------------------------------------------------------
(* Logging out.  While no lease lapses, the lock of an installation keeps  *)
(* every save for it, of the app or of a page paired from it, out of the   *)
(* window between the deletion of its rows and the end of the logout.      *)

\* Codes a logout deleted are neither live nor on their way to a row.
Untouched ==
    /\ live \cap revoked = {}
    /\ \A w \in Workers, c \in Codes : Takes(w, c) => c \notin revoked

\* The row of an app hangs on the app itself.
AppsOwnRows ==
    /\ \A d \in devices : d.inst \notin WebInst => d.parent = d.inst
    /\ \A w \in Workers : /\ req[w].kind = "register" => req[w].parent = req[w].inst
                          /\ req[w].kind = "subscribe" => req[w].inst \in WebInst

\* Where the codes are that a logout is to delete and that are still live.
ListedDies(w) ==
    /\ obs[w].listed \subseteq Issued
    /\ pc[w] \in {"rows", "find codes"} => obs[w].listed \cap live \subseteq index
    /\ pc[w] = "delete codes" => obs[w].listed \cap live \subseteq mem[w].codes
    /\ Revoking(w) => obs[w].listed \cap live = {}

LogoutInv ==
    /\ CodesInv /\ LocksHeld /\ AppsOwnRows
    /\ LogoutWindowQuiet /\ RevokedCodesNeverBind /\ Untouched
    /\ \A w \in Workers : ListedDies(w)

\* No two workers are in the section of one installation.
LEMMA OneInside ==
  ASSUME TypeInv, LocksHeld, NEW w \in Workers, NEW x \in Workers \ {w},
         pc[w] \in InstallHeldAt, pc[x] \in InstallHeldAt
  PROVE  PairingValue(w) # PairingValue(x)
BY DEF LocksHeld, InstallKey, PairingValue

\* A worker keeps its request until it has answered.
LEMMA RequestKept ==
  ASSUME TypeInv, NEW w \in Workers, Act(w), ~Arrive(w)
  PROVE  req'[w] = req[w] \/ req'[w] = NoRequest
<1>1. Finish(w) => req'[w] = NoRequest
  BY DEF TypeInv, TypeOK, Finish
<1>2. req' = req \/ Finish(w)
  BY DEF Act, Serve, Fail, Crash, Unwind, LockBusy, Release, DeadlockVictim, AcquireInstall, AcquireQuota,
         ReleaseQuota, CreatePairing, ConsumePairing, RequireEnabledNamespace, ReadExisting, CountDevices,
         EvictRivals, Upsert, RemoveRows, FindCodes, DeleteCodes, DropIndex, Deliver, PruneRevision
<1> QED BY <1>1, <1>2

\* Apps register themselves, and pages are subscribed, never apps.
LEMMA AppsStep == LogoutInv /\ [Next]_vars => AppsOwnRows'
<1> SUFFICES ASSUME LogoutInv, [Next]_vars PROVE AppsOwnRows'
  OBVIOUS
<1> USE DEF LogoutInv, CodesInv
<1>1. ASSUME NEW x \in Workers
      PROVE  /\ req'[x].kind = "register" => req'[x].parent = req'[x].inst
             /\ req'[x].kind = "subscribe" => req'[x].inst \in WebInst
  <2>1. CASE req'[x] = req[x] \/ req'[x] = NoRequest
    BY <2>1 DEF AppsOwnRows, NoRequest, Call
  <2>2. CASE Arrive(x)
    <3>1. PICK r, step : /\ Accept(x, r, step)
                         /\ r.kind = "register" => r.parent = r.inst
                         /\ r.kind = "subscribe" => r.inst \in WebInst
      <4> DEFINE Apt(r) == /\ r.kind = "register" => r.parent = r.inst
                           /\ r.kind = "subscribe" => r.inst \in WebInst
      <4>1. ASSUME NEW n, NEW o, NEW i, NEW t, \/ Register(x, n, o, i, t) \/ Unregister(x, n, o, i)
                   \/ RequestPairing(x, n, o, i) \/ SendMessage(x, n, o)
            PROVE  \E r, step : Accept(x, r, step) /\ Apt(r)
        BY <4>1 DEF Register, Unregister, RequestPairing, SendMessage, Call
      <4>2. ASSUME NEW c, NEW i \in WebInst, NEW e, Subscribe(x, c, i, e)
            PROVE  \E r, step : Accept(x, r, step) /\ Apt(r)
        BY <4>2 DEF Subscribe, Call
      <4>3. ASSUME NEW d, Unsubscribe(x, d) \/ TestSubscription(x, d)
            PROVE  \E r, step : Accept(x, r, step) /\ Apt(r)
        BY <4>3 DEF Unsubscribe, TestSubscription, Manage, Call
      <4> HIDE DEF Apt
      <4>4. \E r, step : Accept(x, r, step) /\ Apt(r)
        BY <2>2, <4>1, <4>2, <4>3 DEF Arrive
      <4> QED BY <4>4 DEF Apt
    <3>2. req'[x] = r
      BY <3>1 DEF TypeInv, TypeOK, Accept
    <3> QED BY <3>1, <3>2
  <2>3. CASE Act(x) /\ ~Arrive(x)
    BY <2>1, <2>3, RequestKept
  <2>4. ASSUME NEW w \in Workers \ {x}, Act(w) PROVE req'[x] = req[x]
    <3>1. x \in Workers \ {w} /\ Bystanders(w)
      BY <2>4, ActAlone DEF TypeInv
    <3> QED BY <3>1 DEF Bystanders
  <2>5. CASE Ambient \/ UNCHANGED vars
    BY <2>1, <2>5, AmbientNotes
  <2> QED BY <2>1, <2>2, <2>3, <2>4, <2>5, NextCases
<1>2. ASSUME NEW d \in devices', d.inst \notin WebInst PROVE d.parent = d.inst
  <2>1. CASE d \in devices
    BY <1>2, <2>1 DEF AppsOwnRows
  <2>2. ASSUME NEW w \in Workers, Upsert(w), d = Written(w) PROVE d.parent = d.inst
    <3>1. req[w].kind \in {"register", "subscribe"}
      BY <2>2 DEF TypeInv, Addressed, Upsert, QuotaHeldAt
    <3>2. d.inst = req[w].inst /\ d.parent = req[w].parent
      BY <2>2 DEF Written
    <3> QED BY <1>2, <3>1, <3>2 DEF AppsOwnRows
  <2>3. ASSUME NEW w \in Workers, Act(w) PROVE d \in devices \/ (Upsert(w) /\ d = Written(w))
    BY <2>3, Shrinks, UpsertEffect
  <2>4. Ambient \/ UNCHANGED vars => d \in devices
    BY AmbientNotes
  <2> QED BY <2>1, <2>2, <2>3, <2>4, NextCases
<1> QED BY <1>1, <1>2 DEF AppsOwnRows

\* No row of the installation comes back during its logout.
LEMMA WindowStep == LogoutInv /\ [Next]_vars => LogoutWindowQuiet'
<1> SUFFICES ASSUME LogoutInv, [Next]_vars PROVE LogoutWindowQuiet'
  OBVIOUS
<1>0. \A d \in devices' : d.inst \notin WebInst => d.parent = d.inst
  BY AppsStep DEF AppsOwnRows
<1> SUFFICES ASSUME NEW x \in Workers, pc'[x] \in {"find codes", "delete codes", "drop index"},
                    NEW d \in devices', d.ns = req'[x].ns, d.owner = req'[x].owner
             PROVE  d.parent # req'[x].inst
  BY <1>0 DEF LogoutWindowQuiet, Account
<1> USE DEF LogoutInv, CodesInv
<1>1. CASE Act(x)
  <2>1. RemoveRows(x) \/ FindCodes(x) \/ DeleteCodes(x)
    BY <1>1, LogoutEntered
  <2>2. CASE RemoveRows(x)
    BY <2>2 DEF RemoveRows, Removed, Account
  <2>3. CASE FindCodes(x) \/ DeleteCodes(x)
    BY <2>3 DEF FindCodes, DeleteCodes, LogoutWindowQuiet, Account
  <2> QED BY <2>1, <2>2, <2>3
<1>2. ASSUME NEW w \in Workers \ {x}, Act(w) PROVE d.parent # req'[x].inst
  <2>1. pc[x] = pc'[x] /\ req'[x] = req[x]
    <3>1. x \in Workers \ {w} /\ Bystanders(w)
      BY <1>2, ActAlone DEF TypeInv
    <3> QED BY <3>1 DEF Bystanders
  <2>2. CASE d \in devices
    BY <2>1, <2>2 DEF LogoutWindowQuiet, Account
  <2>3. CASE Upsert(w) /\ d = Written(w)
    <3>1. PairingValue(w) # PairingValue(x)
      BY <2>1, <2>3, OneInside DEF Upsert, InstallHeldAt, QuotaHeldAt
    <3>2. req[x].parent = req[x].inst
      BY <2>1 DEF Origins, OriginOf, LogoutAt
    <3> QED BY <2>1, <2>3, <3>1, <3>2 DEF PairingValue, Written
  <2> QED BY <1>2, <2>2, <2>3, Shrinks, UpsertEffect
<1>3. CASE Ambient \/ UNCHANGED vars
  BY <1>3, AmbientNotes DEF LogoutWindowQuiet, Account
<1> QED BY <1>1, <1>2, <1>3, NextCases

\* A pairing is its three parts.
LEMMA SamePairing ==
  ASSUME NEW n, NEW o, NEW p, NEW n2, NEW o2, NEW p2,
         [ns |-> n, owner |-> o, parent |-> p] = [ns |-> n2, owner |-> o2, parent |-> p2]
  PROVE  n = n2 /\ o = o2 /\ p = p2
<1>1. [ns |-> n, owner |-> o, parent |-> p].ns = n2
  OBVIOUS
<1>2. [ns |-> n, owner |-> o, parent |-> p].owner = o2
  OBVIOUS
<1>3. [ns |-> n, owner |-> o, parent |-> p].parent = p2
  OBVIOUS
<1> QED BY <1>1, <1>2, <1>3

\* A logout deletes only codes that no row and no request at work stems from.
LEMMA DeletedUnused ==
  ASSUME LogoutInv, NEW w \in Workers, pc[w] = "delete codes"
  PROVE  /\ \A d \in devices : d.via \notin mem[w].codes
         /\ \A x \in Workers, c \in Codes : Takes(x, c) => c \notin mem[w].codes
<1> USE DEF LogoutInv, CodesInv
<1>1. mem[w].codes \subseteq Meant(w) /\ req[w].parent = req[w].inst
  BY DEF Origins, OriginOf, LogoutAt
<1>2. ASSUME NEW d \in devices, d.via \in mem[w].codes PROVE FALSE
  <2>1. d.via \in Codes /\ pairing[d.via] = PairingValue(w)
    BY <1>1, <1>2 DEF Meant, Issued
  <2>2. d.ns = req[w].ns /\ d.owner = req[w].owner /\ d.parent = req[w].parent
    <3>1. pairing[d.via] = [ns |-> d.ns, owner |-> d.owner, parent |-> d.parent]
      BY <2>1, NamesAssumption DEF Origins
    <3>2. PairingValue(w) = [ns |-> d.ns, owner |-> d.owner, parent |-> d.parent]
      BY <2>1, <3>1
    <3> QED BY <3>2, SamePairing DEF PairingValue
  <2>3. d \in Account(req[w].ns, req[w].owner)
    BY <2>2 DEF Account
  <2>4. d.parent # req[w].inst
    BY <2>3 DEF LogoutWindowQuiet
  <2> QED BY <1>1, <2>2, <2>4
<1>3. ASSUME NEW x \in Workers, NEW c \in mem[w].codes, Takes(x, c) PROVE FALSE
  <2>1. c \in Codes /\ pairing[c] = PairingValue(w)
    BY <1>1 DEF Meant, Issued
  <2>2. req[x].kind \in {"register", "subscribe"} /\ pc[x] \in InstallHeldAt \ {"delete codes"}
    BY <1>3 DEF TypeInv, Addressed, Takes, Binding, InstallHeldAt, QuotaHeldAt
  <2>3. pairing[c] = PairingValue(x)
    BY <1>3, <2>1, <2>2, NamesAssumption DEF Origins, OriginOf, Takes, Meant
  <2>4. x # w /\ pc[w] \in InstallHeldAt
    BY <2>2 DEF InstallHeldAt
  <2> QED BY <2>1, <2>2, <2>3, <2>4, OneInside
<1> QED BY <1>2, <1>3

\* No revoked code is on its way to a binding.
LEMMA UntouchedStep == LogoutInv /\ [Next]_vars => RevokedCodesNeverBind' /\ Untouched'
<1> SUFFICES ASSUME LogoutInv, [Next]_vars PROVE RevokedCodesNeverBind' /\ Untouched'
  OBVIOUS
<1> USE DEF LogoutInv
<1>1. revoked \subseteq Codes /\ revoked \cap Fresh = {} /\ live' \subseteq live \cup Fresh
  BY CodesStep DEF CodesInv, TypeInv, TypeOK, Origins, Fresh
<1>2. ASSUME NEW w \in Workers, Act(w) PROVE RevokedCodesNeverBind' /\ Untouched'
  <2>1. \A x \in Workers \ {w}, c \in Codes : Takes(x, c)' <=> Takes(x, c)
    BY <1>2, ActAlone DEF CodesInv, TypeInv, Bystanders, Takes, Binding
  <2>2. \A c \in Codes : Takes(w, c)' => (Takes(w, c) \/ c \in live) /\ ~DeleteCodes(w)
    BY <1>2, TakesOwn
  <2>3. CASE DeleteCodes(w)
    <3>1. devices' = devices /\ live' = live \ mem[w].codes /\ revoked' = revoked \cup mem[w].codes
          /\ pc[w] = "delete codes"
      BY <2>3 DEF DeleteCodes
    <3>2. \A x \in Workers, c \in Codes : Takes(x, c)' => Takes(x, c)
      BY <2>1, <2>2, <2>3
    <3> QED BY <3>1, <3>2, DeletedUnused DEF RevokedCodesNeverBind, Untouched
  <2>4. CASE ~DeleteCodes(w)
    <3>1. revoked' = revoked
      BY <1>2, <2>4, RevokedStep
    <3>2. Untouched'
      BY <1>1, <2>1, <2>2, <3>1 DEF Untouched
    <3>3. ASSUME Upsert(w) PROVE Written(w).via \notin revoked
      <4>1. Written(w).via = req[w].code /\ Binding(w)
        BY <3>3 DEF Upsert, Written, Binding
      <4> QED BY <1>1, <4>1 DEF Untouched, Takes
    <3>4. RevokedCodesNeverBind'
      BY <1>2, <3>1, <3>3, Shrinks, UpsertEffect DEF RevokedCodesNeverBind, CodesInv
    <3> QED BY <3>2, <3>4
  <2> QED BY <2>3, <2>4
<1>3. CASE Ambient \/ UNCHANGED vars
  <2>1. pc' = pc /\ req' = req /\ devices' = devices /\ revoked' = revoked
    BY <1>3, AmbientNotes DEF CodesInv
  <2> QED BY <1>1, <2>1 DEF RevokedCodesNeverBind, Untouched, Takes, Binding
<1> QED BY <1>2, <1>3, NextCases

\* Only the logout that holds the lock, or the death of its codes, shortens the index
\* of an installation.
LEMMA IndexKept ==
  ASSUME LogoutInv, [Next]_vars, NEW x \in Workers, pc[x] \in LogoutAt, ~DropIndex(x)
  PROVE  \A c \in Meant(x) \cap index \cap live : c \in index'
<1> USE DEF LogoutInv, CodesInv
<1>1. CASE index \subseteq index'
  BY <1>1
<1>2. ASSUME NEW w \in Workers, DropIndex(w)
      PROVE  \A c \in Meant(x) \cap index \cap live : c \in index'
  <2>1. w # x /\ pc[w] = "drop index" /\ {pc[w], pc[x]} \subseteq InstallHeldAt
    BY <1>2 DEF DropIndex, LogoutAt, InstallHeldAt
  <2>2. req[w].parent = req[w].inst
    BY <2>1 DEF Origins, OriginOf, LogoutAt
  <2>3. PairingValue(w) # PairingValue(x)
    BY <2>1, OneInside
  <2>4. index' = index \ {c \in index : pairing[c] = PairingValue(w)}
    BY <1>2, <2>2 DEF DropIndex, IndexOf, PairingValue
  <2> QED BY <2>3, <2>4 DEF Meant
<1>3. ASSUME NEW n, NEW o, NEW i, ExpireIndex(n, o, i)
      PROVE  \A c \in Meant(x) \cap index \cap live : c \in index'
  BY <1>3 DEF ExpireIndex
<1>4. ASSUME NEW w \in Workers, Act(w), ~DropIndex(w) PROVE index \subseteq index'
  <2>1. CASE Arrive(w)
    BY <2>1 DEF Arrive, Register, Subscribe, Unregister, RequestPairing, Unsubscribe, TestSubscription,
                Manage, SendMessage
  <2>2. CASE Serve(w)
    BY <1>4, <2>2
    DEF Serve, LockBusy, Release, DeadlockVictim, AcquireInstall, AcquireQuota, ReleaseQuota, CreatePairing,
        ConsumePairing, RequireEnabledNamespace, ReadExisting, CountDevices, EvictRivals,
        Upsert, RemoveRows, FindCodes, DeleteCodes, Deliver, PruneRevision
  <2> QED BY <1>4, <2>1, <2>2 DEF Act, Fail, Crash
<1>5. ASSUME Ambient \/ UNCHANGED vars, ~\E n, o, i : ExpireIndex(n, o, i)
      PROVE  index \subseteq index'
  BY <1>5 DEF Ambient, Environment, Lapse, ExpireCode, Disable, Enable, vars
<1> QED BY <1>1, <1>2, <1>3, <1>4, <1>5, NextCases

\* A request's own note of the codes is written when it takes the lock.
LEMMA NotesOwn ==
  ASSUME TypeInv, NEW w \in Workers, Act(w)
  PROVE  \/ obs'[w].listed = obs[w].listed
         \/ obs'[w].listed = {} /\ pc'[w] = "idle"
         \/ AcquireInstall(w) /\ obs'[w].listed = CodesFor(w) \cap index
<1> USE DEF TypeInv, TypeOK
<1>1. CASE Arrive(w)
  <2>1. \E r, step : Accept(w, r, step)
    BY <1>1 DEF Arrive, Register, Subscribe, Unregister, RequestPairing, Unsubscribe, TestSubscription,
                Manage, SendMessage
  <2> QED BY <2>1 DEF Accept, Note
<1>2. CASE DropIndex(w)
  BY <1>2 DEF DropIndex, Note
<1>3. CASE AcquireInstall(w)
  <2>1. obs \in [Workers -> Note]
    OBVIOUS
  <2>2. obs' = obs \/ obs'[w] = [obs[w] EXCEPT !.covered = CodesFor(w), !.listed = CodesFor(w) \cap index]
    BY <1>3 DEF AcquireInstall
  <2> QED BY <1>3, <2>1, <2>2 DEF Note
<1>4. CASE Finish(w) \/ UNCHANGED obs
  BY <1>4 DEF Finish, NoNote, Goto
<1>5. CASE Serve(w) /\ ~(DropIndex(w) \/ AcquireInstall(w))
  BY <1>4, <1>5
  DEF Serve, LockBusy, Release, DeadlockVictim, Unwind, AcquireQuota, ReleaseQuota, CreatePairing,
      ConsumePairing, RequireEnabledNamespace, ReadExisting, CountDevices, EvictRivals, Upsert,
      RemoveRows, FindCodes, DeleteCodes, Deliver, PruneRevision
<1> QED BY <1>1, <1>2, <1>3, <1>4, <1>5 DEF Act, Fail, Crash, Unwind

\* How a logout comes by the steps at which its codes matter.
LEMMA LogoutSteps ==
  ASSUME CodesInv, NEW x \in Workers, Act(x)
  PROVE  /\ pc'[x] = "rows" => AcquireInstall(x) /\ req[x].kind = "unregister"
         /\ pc'[x] = "release" /\ req'[x].kind = "unregister" => DropIndex(x)
<1> USE DEF CodesInv, TypeInv, TypeOK
<1>1. CASE Arrive(x) \/ Fail(x) \/ Crash(x) \/ LockBusy(x) \/ Release(x) \/ DeadlockVictim(x)
  BY <1>1, ArriveAlone, UnwindAlone, CrashAlone DEF Fail, LockBusy, Release, DeadlockVictim
<1>2. CASE CreatePairing(x) \/ Deliver(x) \/ PruneRevision(x)
  BY <1>2, AloneOutside
<1>3. CASE AcquireInstall(x)
  <2>1. pc'[x] \in {"quota", "consume", "rows"}
        /\ (pc'[x] = "rows" => req[x].kind \notin {"register", "subscribe"}) /\ pc[x] = "lock"
    BY <1>3 DEF AcquireInstall, Take, Goto
  <2> QED BY <1>3, <2>1 DEF Origins, OriginOf
<1>4. CASE ReleaseQuota(x) \/ ConsumePairing(x) \/ RequireEnabledNamespace(x)
  <2>1. req' = req /\ pc[x] \in {"release quota", "consume", "check"} /\ pc'[x] # "rows"
    BY <1>4 DEF ReleaseQuota, ConsumePairing, RequireEnabledNamespace, Goto
  <2> QED BY <2>1 DEF Addressed, QuotaHeldAt
<1>5. CASE \/ AcquireQuota(x) \/ ReadExisting(x) \/ CountDevices(x) \/ EvictRivals(x) \/ Upsert(x)
           \/ RemoveRows(x) \/ FindCodes(x) \/ DeleteCodes(x) \/ DropIndex(x)
  BY <1>5 DEF AcquireQuota, ReadExisting, CountDevices, EvictRivals, Upsert, RemoveRows, FindCodes,
              DeleteCodes, DropIndex, Take, Goto
<1> QED BY <1>1, <1>2, <1>3, <1>4, <1>5 DEF Act, Serve

\* What was live and indexed is found and deleted.
LEMMA ListedStep ==
  ASSUME LogoutInv, [Next]_vars, NEW x \in Workers PROVE ListedDies(x)'
<1> USE DEF LogoutInv, CodesInv
<1>1. ListedDies(x) /\ OriginOf(x) /\ live \subseteq Issued /\ index \subseteq Issued
  BY DEF Origins
<1>2. /\ \A c \in Issued : c \in Issued' /\ c \notin Fresh
      /\ live' \cap Issued \subseteq live
  BY CodesStep DEF Fresh
<1>3. ASSUME pc'[x] = pc[x], req'[x] = req[x], mem'[x] = mem[x], obs'[x].listed = obs[x].listed,
             ~DropIndex(x)
      PROVE  ListedDies(x)'
  <2>1. obs'[x].listed \cap live' \subseteq obs[x].listed \cap live
    BY <1>1, <1>2, <1>3 DEF ListedDies
  <2>2. ASSUME pc[x] \in {"rows", "find codes"} PROVE obs'[x].listed \cap live' \subseteq index'
    <3>1. obs[x].listed \cap live \subseteq Meant(x) \cap index \cap live
      BY <1>1, <2>2 DEF ListedDies, OriginOf, LogoutAt
    <3>2. pc[x] \in LogoutAt
      BY <2>2 DEF LogoutAt
    <3> QED BY <1>3, <2>1, <3>1, <3>2, IndexKept
  <2> QED BY <1>1, <1>2, <1>3, <2>1, <2>2 DEF ListedDies, Revoking
<1>4. ASSUME Act(x) PROVE ListedDies(x)'
  <2>1. obs'[x].listed \subseteq Issued'
    BY <1>1, <1>2, <1>4, NotesOwn DEF ListedDies
  <2>2. CASE AcquireInstall(x) /\ pc'[x] = "rows"
    <3>1. obs'[x].listed = CodesFor(x) \cap index /\ index' = index /\ ~Revoking(x)'
      <4>1. req[x].kind = "unregister"
        BY <1>4, <2>2, LogoutSteps
      <4>2. obs' = [obs EXCEPT ![x].covered = CodesFor(x), ![x].listed = CodesFor(x) \cap index]
            /\ index' = index
        BY <2>2, <4>1 DEF AcquireInstall
      <4>3. obs \in [Workers -> Note]
        BY DEF TypeInv, TypeOK
      <4> QED BY <2>2, <4>2, <4>3 DEF Revoking, Note
    <3> QED BY <2>1, <2>2, <3>1 DEF ListedDies
  <2>3. CASE RemoveRows(x)
    <3>1. pc[x] = "rows" /\ pc'[x] = "find codes" /\ UNCHANGED <<live, index, obs>>
      BY <2>3 DEF TypeInv, TypeOK, RemoveRows, Goto
    <3> QED BY <1>1, <2>1, <3>1 DEF ListedDies, Revoking
  <2>4. CASE FindCodes(x)
    <3>1. /\ pc[x] = "find codes" /\ UNCHANGED <<live, index, obs, req>>
          /\ pc'[x] = IF FoundCodes(x) = {} THEN "drop index" ELSE "delete codes"
          /\ mem' = [mem EXCEPT ![x].codes = FoundCodes(x)]
      BY <2>4 DEF TypeInv, TypeOK, FindCodes, Goto
    <3>2. mem'[x].codes = FoundCodes(x)
      <4>1. mem'[x] = [mem[x] EXCEPT !.codes = FoundCodes(x)] /\ mem[x] \in Memory
        BY <3>1 DEF TypeInv, TypeOK
      <4> QED BY <4>1 DEF Memory
    <3>3. req[x].parent = req[x].inst /\ obs[x].listed \subseteq Meant(x)
      BY <1>1, <3>1 DEF OriginOf, LogoutAt
    <3>4. FoundCodes(x) = index \cap Meant(x)
      BY <1>1, <3>3 DEF FoundCodes, IndexOf, Meant, PairingValue
    <3>5. obs[x].listed \cap live \subseteq FoundCodes(x)
      BY <1>1, <3>1, <3>3, <3>4 DEF ListedDies
    <3> QED BY <2>1, <3>1, <3>2, <3>5 DEF ListedDies, Revoking
  <2>5. CASE DeleteCodes(x)
    <3>1. /\ pc[x] = "delete codes" /\ pc'[x] = "drop index" /\ live' = live \ mem[x].codes
          /\ obs' = obs
      BY <2>5 DEF TypeInv, TypeOK, DeleteCodes, Goto
    <3> QED BY <1>1, <2>1, <3>1 DEF ListedDies, Revoking
  <2>6. CASE DropIndex(x)
    <3>1. pc[x] = "drop index" /\ pc'[x] = "release" /\ live' = live
      BY <2>6 DEF TypeInv, TypeOK, DropIndex, Goto
    <3>2. obs'[x].listed = obs[x].listed
      BY <1>4, <2>6, <3>1, NotesOwn DEF AcquireInstall
    <3>3. Revoking(x)
      BY <1>1, <3>1 DEF Revoking, OriginOf, LogoutAt
    <3> QED BY <1>1, <2>1, <3>1, <3>2, <3>3 DEF ListedDies
  <2>7. CASE /\ pc'[x] \notin {"rows", "find codes", "delete codes", "drop index"}
             /\ ~DropIndex(x)
    BY <1>4, <2>1, <2>7, LogoutSteps DEF ListedDies, Revoking
  <2> QED BY <1>4, <2>2, <2>3, <2>4, <2>5, <2>6, <2>7, LogoutSteps, LogoutEntered
<1>5. ASSUME NEW w \in Workers \ {x}, Act(w) PROVE ListedDies(x)'
  <2>1. x \in Workers \ {w} /\ Bystanders(w)
    BY <1>5, ActAlone DEF TypeInv
  <2>2. pc'[x] = pc[x] /\ req'[x] = req[x] /\ mem'[x] = mem[x] /\ obs'[x].listed = obs[x].listed
    BY <1>5, <2>1, NotesAlone DEF Bystanders
  <2>3. ~DropIndex(x) \/ w = x
    <3>1. DropIndex(x) => pc[x] = "drop index" /\ pc'[x] = "release"
      BY DEF DropIndex, Goto, TypeInv, TypeOK
    <3> QED BY <2>2, <3>1
  <2> QED BY <1>3, <2>2, <2>3
<1>6. CASE Ambient \/ UNCHANGED vars
  <2>1. ~DropIndex(x)
    <3>1. DropIndex(x) => pc[x] = "drop index" /\ pc'[x] = "release"
      BY DEF DropIndex, Goto, TypeInv, TypeOK
    <3> QED BY <1>6, <3>1, AmbientNotes
  <2> QED BY <1>3, <1>6, <2>1, AmbientNotes
<1> QED BY <1>4, <1>5, <1>6, NextCases

\* The invariant of a logout is inductive.
LEMMA LogoutInvStep == ASSUME LeaseMayLapse = FALSE PROVE LogoutInv /\ [Next]_vars => LogoutInv'
<1> SUFFICES ASSUME LogoutInv, [Next]_vars PROVE LogoutInv'
  OBVIOUS
<1>1. \A x \in Workers : ListedDies(x)'
  BY ListedStep
<1> QED BY <1>1, CodesInvStep, LocksStep, AppsStep, WindowStep, UntouchedStep DEF LogoutInv, CodesInv

\* Nobody logs out at first.
LEMMA LogoutInvInit == Init => LogoutInv
<1> SUFFICES ASSUME Init PROVE LogoutInv
  OBVIOUS
<1>1. LocksHeld /\ LogoutWindowQuiet /\ RevokedCodesNeverBind /\ Untouched
  BY DEF Init, LocksHeld, LogoutWindowQuiet, RevokedCodesNeverBind, Untouched, Takes, Binding,
         InstallHeldAt, QuotaHeldAt
<1>2. AppsOwnRows
  BY DEF Init, AppsOwnRows, NoRequest, Call
<1>3. \A w \in Workers : ListedDies(w)
  BY DEF Init, ListedDies, Revoking, NoNote
<1> QED BY <1>1, <1>2, <1>3, CodesInvInit DEF LogoutInv

\* Every code that was live and indexed when a logout took the lock of its
\* installation is dead once the logout is past the deletion, whatever other
\* logouts and pairings do, if no critical section outlives its lease.
THEOREM LogoutRevokesIndexed == ASSUME LeaseMayLapse = FALSE PROVE Spec => []IndexedCodesRevoked
<1>1. LogoutInv => IndexedCodesRevoked
  BY DEF LogoutInv, IndexedCodesRevoked, ListedDies
<1> QED BY <1>1, LogoutInvInit, LogoutInvStep, PTL DEF Spec

\* From the commit of an app's logout until its last write to Redis its user has
\* neither a row of the app nor one of a page paired from it, if no critical
\* section outlives its lease; a page's logout keeps out what hangs on the page.
THEOREM LogoutQuiet == ASSUME LeaseMayLapse = FALSE PROVE Spec => []LogoutWindowQuiet
<1>1. LogoutInv => LogoutWindowQuiet
  BY DEF LogoutInv
<1> QED BY <1>1, LogoutInvInit, LogoutInvStep, PTL DEF Spec

\* No row ever stems from a code that a logout deleted, under the same assumption.
THEOREM RevokedForGood == ASSUME LeaseMayLapse = FALSE PROVE Spec => []RevokedCodesNeverBind
<1>1. LogoutInv => RevokedCodesNeverBind
  BY DEF LogoutInv
<1> QED BY <1>1, LogoutInvInit, LogoutInvStep, PTL DEF Spec

-----------------------------------------------------------------------------
(* Disabled instances.  A request may find its instance disabled after it  *)
(* was let in; a browser's is checked once more when its code is gone.     *)

LicensedAt == {"quota"} \cup QuotaHeldAt

Licensed(w) ==
    /\ req[w].kind # "none" /\ req[w].ns \in Namespaces /\ enabled[req[w].ns] => obs[w].licensed
    /\ req[w].kind = "register" => obs[w].licensed
    /\ pc[w] \in LicensedAt => obs[w].licensed

AllLicensed == \A w \in Workers : Licensed(w)

\* A request is accepted with a note whether its instance is enabled.
LEMMA LicensedArrival ==
  ASSUME TypeInv, NEW w \in Workers, Arrive(w)
  PROVE  Licensed(w)' /\ enabled' = enabled
<1> DEFINE Noted == \E r, step : Accept(w, r, step) /\ (r.kind = "register" => enabled[r.ns])
<1>1. ASSUME NEW n, NEW o, NEW i, NEW t, Register(w, n, o, i, t) PROVE Noted
  BY <1>1 DEF Register, Call
<1>2. ASSUME NEW n, NEW o, NEW i, NEW t,
             \/ Subscribe(w, n, i, t) \/ SendMessage(w, n, o)
             \/ Unregister(w, n, o, i) \/ RequestPairing(w, n, o, i)
      PROVE  Noted
  BY <1>2 DEF Subscribe, Unregister, RequestPairing, SendMessage, Call
<1>3. ASSUME NEW d, Unsubscribe(w, d) \/ TestSubscription(w, d) PROVE Noted
  BY <1>3 DEF Unsubscribe, TestSubscription, Manage, Call
<1>4. PICK r : \E step : Accept(w, r, step) /\ (r.kind = "register" => enabled[r.ns])
  BY <1>1, <1>2, <1>3 DEF Arrive
<1>5. req'[w] = r /\ obs'[w].licensed = enabled[r.ns]
  <2>1. req' = [req EXCEPT ![w] = r] /\ obs' = [obs EXCEPT ![w].licensed = enabled[r.ns]]
    BY <1>4 DEF Accept
  <2>2. req \in [Workers -> Request] /\ obs \in [Workers -> Note]
    BY DEF TypeInv, TypeOK
  <2>3. obs'[w] = [obs[w] EXCEPT !.licensed = enabled[r.ns]] /\ obs[w] \in Note
    BY <2>1, <2>2
  <2> QED BY <2>1, <2>2, <2>3 DEF Note
<1>6. pc'[w] \notin LicensedAt
  BY ArriveAlone DEF TypeInv, LicensedAt, QuotaHeldAt
<1>7. enabled' = enabled
  BY DEF Arrive, Register, Subscribe, Unregister, RequestPairing, Unsubscribe, TestSubscription, Manage,
         SendMessage
<1> QED BY <1>4, <1>5, <1>6, <1>7 DEF Licensed

\* Later steps keep request and note until the request ends.
LEMMA LicensedKept ==
  ASSUME TypeInv, NEW w \in Workers, Act(w), ~Arrive(w)
  PROVE  /\ enabled' = enabled
         /\ pc'[w] # "idle" => req'[w] = req[w] /\ obs'[w].licensed = obs[w].licensed
         /\ pc'[w] \in LicensedAt => \/ pc[w] \in LicensedAt
                                     \/ req[w].kind = "register"
                                     \/ pc[w] = "check" /\ enabled[req[w].ns]
<1> USE DEF TypeInv, TypeOK, LicensedAt, QuotaHeldAt
<1>1. CASE Fail(w) \/ Crash(w) \/ LockBusy(w) \/ Release(w) \/ DeadlockVictim(w)
  BY <1>1, UnwindAlone, CrashAlone DEF Fail, Crash, LockBusy, Release, DeadlockVictim
<1>2. CASE CreatePairing(w) \/ Deliver(w) \/ PruneRevision(w)
  <2>1. pc'[w] \in {"idle", "prune"} /\ enabled' = enabled
    BY <1>2, AloneOutside DEF CreatePairing, Deliver, PruneRevision
  <2>2. pc'[w] = "prune" => req' = req /\ obs' = obs
    BY <1>2 DEF CreatePairing, Deliver, PruneRevision, Finish, Goto
  <2> QED BY <2>1, <2>2
<1>3. CASE AcquireInstall(w)
  <2>1. req' = req /\ enabled' = enabled /\ obs'[w].licensed = obs[w].licensed
    BY <1>3 DEF AcquireInstall, Note
  <2>2. pc'[w] \in {"consume", "rows"} \/ req[w].kind = "register"
    BY <1>3 DEF AcquireInstall, Take, Goto
  <2> QED BY <2>1, <2>2
<1>4. CASE AcquireQuota(w) \/ ReleaseQuota(w) \/ ReadExisting(w) \/ CountDevices(w) \/ EvictRivals(w) \/ Upsert(w)
  BY <1>4 DEF AcquireQuota, ReleaseQuota, ReadExisting, CountDevices, EvictRivals, Upsert
<1>5. CASE ConsumePairing(w) \/ RequireEnabledNamespace(w)
  BY <1>5 DEF ConsumePairing, RequireEnabledNamespace, EnabledNamespace, Goto
<1>6. CASE RemoveRows(w) \/ FindCodes(w) \/ DeleteCodes(w)
  BY <1>6 DEF RemoveRows, FindCodes, DeleteCodes, Goto
<1>7. CASE DropIndex(w)
  BY <1>7 DEF DropIndex, Overtaken, Note, Goto
<1> QED BY <1>1, <1>2, <1>3, <1>4, <1>5, <1>6, <1>7 DEF Act, Serve

\* A worker that is licensed to write stays so.
LEMMA LicensedStep == TypeInv /\ AllLicensed /\ [Next]_vars => AllLicensed'
<1> SUFFICES ASSUME TypeInv, AllLicensed, [Next]_vars, NEW x \in Workers PROVE Licensed(x)'
  BY DEF AllLicensed
<1>1. Licensed(x)
  BY DEF AllLicensed
<1>2. CASE Act(x) /\ ~Arrive(x)
  <2>1. CASE pc'[x] = "idle"
    <3>1. req'[x] = NoRequest
      BY <2>1, TypeStep DEF TypeInv, Addressed
    <3> QED BY <2>1, <3>1 DEF Licensed, LicensedAt, QuotaHeldAt, NoRequest, Call
  <2>2. CASE pc'[x] # "idle"
    <3>1. pc[x] = "check" => req[x].kind # "none" /\ req[x].ns \in Namespaces
      BY DEF TypeInv, Addressed, InstallHeldAt
    <3> QED BY <1>1, <1>2, <2>2, <3>1, LicensedKept DEF Licensed
  <2> QED BY <2>1, <2>2
<1>3. ASSUME NEW w \in Workers, Act(w), w # x PROVE Licensed(x)'
  <2>1. x \in Workers \ {w} /\ Bystanders(w) /\ enabled' = enabled
    BY <1>3, ActAlone, LicensedArrival, LicensedKept DEF TypeInv
  <2>2. pc'[x] = pc[x] /\ req'[x] = req[x] /\ obs'[x].licensed = obs[x].licensed
    BY <1>3, <2>1, NotesAlone DEF Bystanders
  <2> QED BY <1>1, <2>1, <2>2 DEF Licensed
<1>4. CASE Ambient \/ UNCHANGED vars
  BY <1>1, <1>4, AmbientNotes DEF Licensed
<1> QED BY <1>2, <1>3, <1>4, LicensedArrival, NextCases

\* A row is only ever written for a request during which its instance was enabled.
THEOREM OnlyLicensedBind == Spec => DisabledNamespaceNeverBinds
<1>1. Init => AllLicensed
  BY DEF Init, AllLicensed, Licensed, LicensedAt, QuotaHeldAt, NoRequest, Call
<1>2. TypeInv /\ AllLicensed /\ [Next]_vars =>
        [\A d \in devices' \ devices : \E w \in Workers :
            pc[w] = "upsert" /\ req[w].revision = d.revision /\ obs[w].licensed]_vars
  <2> SUFFICES ASSUME TypeInv, AllLicensed, [Next]_vars, NEW d \in devices' \ devices
               PROVE  \E w \in Workers :
                         pc[w] = "upsert" /\ req[w].revision = d.revision /\ obs[w].licensed
    OBVIOUS
  <2>1. PICK w \in Workers : Act(w)
    BY AmbientNotes, NextCases
  <2>2. Upsert(w) /\ d = Written(w)
    BY <2>1, Shrinks, UpsertEffect
  <2> QED BY <2>2 DEF Upsert, Written, AllLicensed, Licensed, LicensedAt, QuotaHeldAt
<1> QED BY <1>1, <1>2, InitType, TypeStep, LicensedStep, PTL DEF Spec, DisabledNamespaceNeverBinds
=============================================================================
