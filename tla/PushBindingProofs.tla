------------------------- MODULE PushBindingProofs -------------------------
(***************************************************************************)
(* Proofs about PushBinding, for any number of workers, users,             *)
(* installations, codes and devices.                                       *)
(***************************************************************************)
EXTENDS PushBinding, FiniteSetTheorems, TLAPS

TypeInv == TypeOK /\ Addressed

USE DEF Installations, Destinations, InstallHeldAt, QuotaHeldAt, Steps

\* The initial state has its types.
LEMMA InitType == Init => TypeInv
<1> SUFFICES ASSUME Init PROVE TypeInv
  OBVIOUS
<1>1. TypeOK
  BY LimitsAssumption, NamesAssumption
  DEF Init, TypeOK, Request, NoRequest, Call, NoMemory, Memory, NoNote, Note, Device, LockKeys, Pairing
<1>2. Addressed
  BY FS_EmptySet DEF Init, Addressed, NoRequest, Call
<1> QED BY <1>1, <1>2 DEF TypeInv

(* Updates of what a worker remembers.                                     *)

\* Fields of what a worker remembers are overwritten.
LEMMA MemoryType ==
  ASSUME mem \in [Workers -> Memory], NEW w \in Workers
  PROVE  /\ \A e \in Owners \cup {None} : [mem EXCEPT ![w].existing = e] \in [Workers -> Memory]
         /\ \A R \in SUBSET Device : [mem EXCEPT ![w].rows = R] \in [Workers -> Memory]
         /\ \A C \in SUBSET Codes : [mem EXCEPT ![w].codes = C] \in [Workers -> Memory]
BY DEF Memory

\* Fields of what is noted of a worker are overwritten.
LEMMA NoteType ==
  ASSUME obs \in [Workers -> Note], NEW w \in Workers
  PROVE  /\ \A b \in BOOLEAN : [obs EXCEPT ![w].licensed = b] \in [Workers -> Note]
         /\ \A C, D \in SUBSET Codes :
               [obs EXCEPT ![w].covered = C, ![w].listed = D] \in [Workers -> Note]
         /\ [obs[w] EXCEPT !.overtaken = TRUE] \in Note
         /\ \A b \in BOOLEAN : [obs[w] EXCEPT !.licensed = b] \in Note
BY DEF Note

\* The empty records are records of their kinds.
LEMMA NothingType == NoRequest \in Request /\ NoMemory \in Memory /\ NoNote \in Note
BY DEF NoRequest, Call, Request, NoMemory, Memory, NoNote, Note

\* A request that ends leaves nothing behind.
LEMMA FinishType ==
  ASSUME TypeOK, NEW w \in Workers, Finish(w)
  PROVE  /\ pc' \in [Workers -> Steps] /\ req' \in [Workers -> Request]
         /\ mem' \in [Workers -> Memory] /\ obs' \in [Workers -> Note]
BY NothingType DEF TypeOK, Finish, Goto

\* A call that is accepted is a call, and its worker has nothing else in hand.
LEMMA AcceptType ==
  ASSUME TypeOK, NEW w \in Workers, NEW r \in Request, r.ns \in Namespaces,
         NEW step \in Steps, Accept(w, r, step)
  PROVE  /\ pc' \in [Workers -> Steps] /\ req' \in [Workers -> Request] /\ obs' \in [Workers -> Note]
<1>1. enabled[r.ns] \in BOOLEAN
  BY DEF TypeOK
<1>2. obs' \in [Workers -> Note]
  BY <1>1, NoteType DEF TypeOK, Accept
<1> QED BY <1>2 DEF TypeOK, Accept, Goto

\* It has what it takes to its locks and to its rows.
LEMMA AcceptAddressed ==
  ASSUME TypeOK, Addressed, NEW w \in Workers, NEW r \in Request,
         NEW step \in {"lock", "pair", "deliver", "prune"}, Accept(w, r, step),
         step \in {"lock", "pair"} =>
            r.ns \in Namespaces /\ r.owner \in Owners /\ r.parent \in Installations,
         r.kind \in {"register", "subscribe"} => r.dest \in Destinations /\ r.inst \in Installations,
         UNCHANGED <<devices, pairing, live>>
  PROVE  Addressed'
<1>1. pc' = [pc EXCEPT ![w] = step] /\ req' = [req EXCEPT ![w] = r]
  BY DEF Accept, Goto
<1>2. pc'[w] = step /\ req'[w] = r
  BY <1>1 DEF TypeOK
<1>3. \A x \in Workers \ {w} : pc'[x] = pc[x] /\ req'[x] = req[x]
  BY <1>1 DEF TypeOK
<1> QED BY <1>2, <1>3 DEF Addressed

\* The bound on the saves of devices is one of numbers.
LEMMA SavesType == ASSUME TypeOK, saves < MaxSaves
                   PROVE  saves + 1 \in 0..MaxSaves /\ saves + 1 \in Nat
<1>1. saves \in 0..MaxSaves
  BY DEF TypeOK
<1> QED BY <1>1, LimitsAssumption

-----------------------------------------------------------------------------
(* Requests that arrive.                                                   *)

\* register_native_device keeps the types.
LEMMA RegisterType ==
  ASSUME TypeInv, NEW w \in Workers, NEW n \in Namespaces, NEW o \in Owners,
         NEW i \in NativeInst, NEW t \in Tokens, Register(w, n, o, i, t)
  PROVE  TypeInv'
<1> DEFINE r == Call("register", n, o, i, i, t, None, saves + 1)
<1>1. saves' \in 0..MaxSaves /\ saves + 1 \in Nat
  BY SavesType DEF TypeInv, Register
<1>2. r \in Request /\ r.ns \in Namespaces
  BY <1>1 DEF Call, Request
<1>3. Accept(w, r, "lock")
  BY DEF Register
<1>4. TypeOK'
  BY <1>1, <1>2, <1>3, AcceptType DEF TypeInv, TypeOK, Register
<1>5. Addressed'
  BY <1>2, <1>3, AcceptAddressed DEF TypeInv, Register, Call
<1> QED BY <1>4, <1>5 DEF TypeInv

\* So does a subscription from the page,
LEMMA SubscribeType ==
  ASSUME TypeInv, NEW w \in Workers, NEW c \in Codes, NEW i \in WebInst, NEW e \in Endpoints,
         Subscribe(w, c, i, e)
  PROVE  TypeInv'
<1> DEFINE r == Call("subscribe", pairing[c].ns, pairing[c].owner, i, pairing[c].parent, e, c,
                     saves + 1)
<1>1. pairing[c] \in Pairing
  BY DEF TypeInv, TypeOK, Addressed, Subscribe
<1>2. saves' \in 0..MaxSaves /\ saves + 1 \in Nat
  BY SavesType DEF TypeInv, Subscribe
<1>3. r \in Request /\ r.ns \in Namespaces
  BY <1>1, <1>2 DEF Call, Request, Pairing
<1>4. Accept(w, r, "lock")
  BY DEF Subscribe
<1>5. TypeOK'
  BY <1>2, <1>3, <1>4, AcceptType DEF TypeInv, TypeOK, Subscribe
<1>6. Addressed'
  BY <1>1, <1>3, <1>4, AcceptAddressed DEF TypeInv, Subscribe, Call, Pairing
<1> QED BY <1>5, <1>6 DEF TypeInv

\* an unregistration or a request for a code,
LEMMA UnregisterType ==
  ASSUME TypeInv, NEW w \in Workers, NEW n \in Namespaces, NEW o \in Owners,
         NEW i \in Installations, Unregister(w, n, o, i) \/ RequestPairing(w, n, o, i)
  PROVE  TypeInv'
<1>1. PICK kind \in {"unregister", "pair"}, step \in {"lock", "pair"} :
        /\ Accept(w, Call(kind, n, o, i, i, None, None, 0), step)
        /\ UNCHANGED <<devices, pairing, live, index, enabled, lock, mem, saves, revoked>>
  BY DEF Unregister, RequestPairing
<1> DEFINE r == Call(kind, n, o, i, i, None, None, 0)
<1>2. r \in Request /\ r.ns \in Namespaces
  BY DEF Call, Request
<1>3. TypeOK'
  BY <1>1, <1>2, AcceptType DEF TypeInv, TypeOK
<1>4. Addressed'
  BY <1>1, <1>2, AcceptAddressed DEF TypeInv, Call
<1> QED BY <1>3, <1>4 DEF TypeInv

\* a step of the administration,
LEMMA ManageType ==
  ASSUME TypeInv, NEW w \in Workers, NEW d \in devices, NEW step \in {"deliver", "prune"},
         Manage(w, d, step)
  PROVE  TypeInv'
<1> DEFINE r == Call("manage", d.ns, d.owner, None, None, None, None, 0)
<1>1. d \in Device
  BY DEF TypeInv, TypeOK
<1>2. r \in Request /\ r.ns \in Namespaces
  BY <1>1 DEF Call, Request, Device
<1>3. Accept(w, r, step)
  BY DEF Manage
<1>4. mem' \in [Workers -> Memory]
  <2>1. {d} \in SUBSET Device /\ mem' = [mem EXCEPT ![w].rows = {d}]
    BY <1>1 DEF Manage
  <2> QED BY <2>1, MemoryType DEF TypeInv, TypeOK
<1>5. TypeOK'
  BY <1>2, <1>3, <1>4, AcceptType DEF TypeInv, TypeOK, Manage
<1>6. Addressed'
  BY <1>2, <1>3, AcceptAddressed DEF TypeInv, Manage, Call
<1> QED BY <1>5, <1>6 DEF TypeInv

\* a message to send,
LEMMA SendMessageType ==
  ASSUME TypeInv, NEW w \in Workers, NEW n \in Namespaces, NEW o \in Owners, SendMessage(w, n, o)
  PROVE  TypeInv'
<1> DEFINE r == Call("send", n, o, None, None, None, None, 0)
<1>1. PICK sent \in SUBSET devices : mem' = [mem EXCEPT ![w].rows = sent]
  BY DEF SendMessage, DevicesForOwner, kSubset, Account
<1>2. mem' \in [Workers -> Memory]
  BY <1>1, MemoryType DEF TypeInv, TypeOK
<1>3. r \in Request /\ r.ns \in Namespaces
  BY DEF Call, Request
<1>4. Accept(w, r, "deliver")
  BY DEF SendMessage
<1>5. TypeOK'
  BY <1>2, <1>3, <1>4, AcceptType DEF TypeInv, TypeOK, SendMessage
<1>6. Addressed'
  BY <1>3, <1>4, AcceptAddressed DEF TypeInv, SendMessage, Call
<1> QED BY <1>5, <1>6 DEF TypeInv

-----------------------------------------------------------------------------
(* Steps of requests.                                                      *)

\* a call that leaves its locks,
LEMMA UnwindType ==
  ASSUME TypeInv, NEW w \in Workers, Unwind(w),
         UNCHANGED <<devices, pairing, live, index, enabled, saves, revoked>>
  PROVE  TypeInv'
<1>1. TypeOK'
  BY FinishType, NamesAssumption DEF TypeInv, TypeOK, Unwind, Unlocked
<1>2. Addressed'
  BY DEF TypeInv, TypeOK, Addressed, Unwind, Finish, Goto, NoRequest, Call
<1> QED BY <1>1, <1>2 DEF TypeInv

\* one that takes or gives one back,
LEMMA LockType ==
  ASSUME TypeInv, NEW w \in Workers,
         AcquireInstall(w) \/ AcquireQuota(w) \/ ReleaseQuota(w)
  PROVE  TypeInv'
<1>1. CASE AcquireInstall(w)
  <2>1. TypeOK'
    <3>1. CodesFor(w) \in SUBSET Codes /\ CodesFor(w) \cap index \in SUBSET Codes
      BY DEF TypeInv, TypeOK, CodesFor
    <3>2. obs' \in [Workers -> Note]
      BY <1>1, <3>1, NoteType DEF TypeInv, TypeOK, AcquireInstall
    <3> QED BY <1>1, <3>2 DEF TypeInv, TypeOK, AcquireInstall, Take, Goto
  <2>2. Addressed'
    BY ZenonT(90), <1>1 DEF TypeInv, TypeOK, Addressed, AcquireInstall, Take, Goto, NoRequest, Call
  <2> QED BY <2>1, <2>2 DEF TypeInv
<1>2. CASE AcquireQuota(w)
  BY <1>2 DEF TypeInv, TypeOK, Addressed, AcquireQuota, Take, Goto
<1>3. CASE ReleaseQuota(w)
  BY <1>3, NamesAssumption DEF TypeInv, TypeOK, Addressed, ReleaseQuota, Unlocked, Goto
<1> QED BY <1>1, <1>2, <1>3

\* what is done with codes,
LEMMA CodeType ==
  ASSUME TypeInv, NEW w \in Workers,
         CreatePairing(w) \/ ConsumePairing(w) \/ RequireEnabledNamespace(w)
  PROVE  TypeInv'
<1>1. CASE CreatePairing(w)
  <2>1. PairingValue(w) \in Pairing
    BY <1>1 DEF TypeInv, TypeOK, Addressed, CreatePairing, PairingValue, Pairing
  <2>2. TypeOK'
    BY <1>1, <2>1, FinishType DEF TypeInv, TypeOK, CreatePairing
  <2>3. \A c \in live' : pairing'[c] \in Pairing
    BY <1>1, <2>1 DEF TypeInv, TypeOK, Addressed, CreatePairing
  <2>4. Addressed'
    BY <1>1, <2>3 DEF TypeInv, TypeOK, Addressed, CreatePairing, Finish, Goto, NoRequest, Call
  <2> QED BY <2>2, <2>4 DEF TypeInv
<1>2. CASE ConsumePairing(w)
  BY <1>2 DEF TypeInv, TypeOK, Addressed, ConsumePairing, DropAfterUse, Goto
<1>3. CASE RequireEnabledNamespace(w)
  BY <1>3 DEF TypeInv, TypeOK, Addressed, RequireEnabledNamespace, Goto
<1> QED BY <1>1, <1>2, <1>3

\* the steps of a save,
LEMMA SaveType ==
  ASSUME TypeInv, NEW w \in Workers,
         ReadExisting(w) \/ CountDevices(w) \/ EvictRivals(w) \/ Upsert(w)
  PROVE  TypeInv'
<1>1. CASE ReadExisting(w)
  <2>1. mem' \in [Workers -> Memory]
    BY <1>1, MemoryType DEF TypeInv, TypeOK, Addressed, ReadExisting
  <2> QED BY <1>1, <2>1 DEF TypeInv, TypeOK, Addressed, ReadExisting, Goto
<1>2. CASE CountDevices(w)
  BY <1>2 DEF TypeInv, TypeOK, Addressed, CountDevices, Goto
<1>3. CASE EvictRivals(w)
  <2>1. mem' \in [Workers -> Memory]
    BY <1>3, MemoryType DEF TypeInv, TypeOK, EvictRivals, Rivals
  <2> QED BY <1>3, <2>1 DEF TypeInv, TypeOK, Addressed, EvictRivals, Goto
<1>4. CASE Upsert(w)
  <2>1. Written(w) \in Device
    <3> DEFINE old == RowOf(req[w].ns, req[w].inst)
    <3>1. req[w] \in Request /\ old \subseteq Device
      BY DEF TypeInv, TypeOK, RowOf
    <3>2. (IF old = {} THEN req[w].revision ELSE (CHOOSE d \in old : TRUE).id) \in Nat
      BY <3>1 DEF Request, Device
    <3>3. /\ req[w].ns \in Namespaces /\ req[w].owner \in Owners /\ req[w].parent \in Installations
          /\ req[w].inst \in Installations /\ req[w].dest \in Destinations
      BY <1>4 DEF TypeInv, Addressed, Upsert
    <3> QED BY <3>1, <3>2, <3>3 DEF Written, Device, Request
  <2>2. devices' \subseteq devices \cup {Written(w)}
    BY <1>4 DEF Upsert
  <2>3. IsFiniteSet(devices')
    BY <2>2, FS_AddElement, FS_Subset DEF TypeInv, Addressed
  <2>4. TypeOK'
    BY <1>4, <2>1, <2>2, MemoryType DEF TypeInv, TypeOK, Upsert, Goto
  <2>5. Addressed'
    BY <1>4, <2>3 DEF TypeInv, TypeOK, Addressed, Upsert, Goto
  <2> QED BY <2>4, <2>5 DEF TypeInv
<1> QED BY <1>1, <1>2, <1>3, <1>4

\* those of a removal,
LEMMA RemoveType ==
  ASSUME TypeInv, NEW w \in Workers,
         RemoveRows(w) \/ FindCodes(w) \/ DeleteCodes(w) \/ DropIndex(w)
  PROVE  TypeInv'
<1>1. CASE RemoveRows(w)
  <2>1. IsFiniteSet(devices')
    BY <1>1, FS_Subset DEF TypeInv, Addressed, RemoveRows
  <2> QED BY <1>1, <2>1 DEF TypeInv, TypeOK, Addressed, RemoveRows, Goto
<1>2. CASE FindCodes(w)
  BY <1>2, MemoryType DEF TypeInv, TypeOK, Addressed, FindCodes, FoundCodes, IndexOf, Goto
<1>3. CASE DeleteCodes(w)
  BY <1>3 DEF TypeInv, TypeOK, Addressed, Memory, DeleteCodes, Goto
<1>4. CASE DropIndex(w)
  <2>1. obs' \in [Workers -> Note]
    BY <1>4, NoteType DEF TypeInv, TypeOK, DropIndex
  <2> QED BY <1>4, <2>1 DEF TypeInv, TypeOK, Addressed, DropIndex, Goto
<1> QED BY <1>1, <1>2, <1>3, <1>4

\* a delivery and what it prunes,
LEMMA DeliverType ==
  ASSUME TypeInv, NEW w \in Workers, Deliver(w) \/ PruneRevision(w)
  PROVE  TypeInv'
<1>1. CASE Deliver(w)
  <2>1. CASE Finish(w)
    BY ZenonT(90), <1>1, <2>1, FinishType
    DEF TypeInv, TypeOK, Addressed, Deliver, Finish, Goto, NoRequest, Call
  <2>2. CASE \E gone \in SUBSET mem[w].rows :
                /\ mem' = [mem EXCEPT ![w].rows = gone]
                /\ Goto(w, "prune")
                /\ UNCHANGED <<req, obs>>
    <3>1. PICK gone \in SUBSET mem[w].rows : mem' = [mem EXCEPT ![w].rows = gone]
      BY <2>2
    <3>2. gone \in SUBSET Device
      BY DEF TypeInv, TypeOK, Memory
    <3>3. mem' \in [Workers -> Memory]
      BY <3>1, <3>2, MemoryType DEF TypeInv, TypeOK
    <3> QED BY ZenonT(90), <1>1, <2>2, <3>3 DEF TypeInv, TypeOK, Addressed, Deliver, Goto
  <2> QED BY <1>1, <2>1, <2>2 DEF Deliver
<1>2. CASE PruneRevision(w)
  <2>1. devices' \subseteq devices
    BY <1>2 DEF PruneRevision
  <2>2. IsFiniteSet(devices')
    BY <2>1, FS_Subset DEF TypeInv, Addressed
  <2>3. CASE Finish(w)
    BY ZenonT(90), <1>2, <2>1, <2>2, <2>3, FinishType
    DEF TypeInv, TypeOK, Addressed, PruneRevision, Finish, Goto, NoRequest, Call
  <2>4. CASE \E d \in mem[w].rows : /\ mem' = [mem EXCEPT ![w].rows = @ \ {d}]
                                    /\ UNCHANGED <<pc, req, obs>>
    <3>1. PICK d \in mem[w].rows : mem' = [mem EXCEPT ![w].rows = mem[w].rows \ {d}]
      BY <2>4 DEF TypeInv, TypeOK, Memory
    <3>2. mem[w].rows \ {d} \in SUBSET Device
      BY DEF TypeInv, TypeOK, Memory
    <3>3. mem' \in [Workers -> Memory]
      BY <3>1, <3>2, MemoryType DEF TypeInv, TypeOK
    <3> QED BY <1>2, <2>1, <2>2, <2>4, <3>3 DEF TypeInv, TypeOK, Addressed, PruneRevision
  <2> QED BY <1>2, <2>3, <2>4 DEF PruneRevision
<1> QED BY <1>1, <1>2

-----------------------------------------------------------------------------
(* Faults, expiry and the operator.                                        *)

\* and what happens around the calls.
LEMMA EnvironmentType ==
  ASSUME TypeInv, Environment
  PROVE  TypeInv'
<1>1. CASE \E w \in Workers : Fail(w)
  BY <1>1, UnwindType DEF Fail
<1>2. CASE \E w \in Workers : Crash(w)
  <2>1. PICK w \in Workers : Crash(w)
    BY <1>2
  <2>2. lock' \in [LockKeys -> Workers \cup {None, Dead}]
    BY <2>1 DEF TypeInv, TypeOK, Crash
  <2>3. TypeOK'
    BY <2>1, <2>2, FinishType DEF TypeInv, TypeOK, Crash
  <2>4. Addressed'
    BY <2>1 DEF TypeInv, TypeOK, Addressed, Crash, Finish, Goto, NoRequest, Call
  <2> QED BY <2>3, <2>4 DEF TypeInv
<1>3. CASE \E k \in LockKeys : Lapse(k)
  BY <1>3 DEF TypeInv, TypeOK, Addressed, Lapse
<1>4. CASE \E c \in Codes : ExpireCode(c)
  BY <1>4 DEF TypeInv, TypeOK, Addressed, ExpireCode
<1>5. CASE \E n \in Namespaces, o \in Owners, i \in NativeInst : ExpireIndex(n, o, i)
  BY <1>5 DEF TypeInv, TypeOK, Addressed, ExpireIndex
<1>6. CASE \E n \in Namespaces : Disable(n) \/ Enable(n)
  <2>1. CASE \E n \in Namespaces : Disable(n)
    BY <1>6, <2>1 DEF TypeInv, TypeOK, Addressed, Disable
  <2>2. CASE \E n \in Namespaces : Enable(n)
    <3>1. obs' \in [Workers -> Note]
      <4>1. PICK n \in Namespaces :
              obs' = [x \in Workers |-> [obs[x] EXCEPT !.licensed = obs[x].licensed \/ req[x].ns = n]]
        BY <2>2 DEF Enable
      <4>2. ASSUME NEW x \in Workers
            PROVE  [obs[x] EXCEPT !.licensed = obs[x].licensed \/ req[x].ns = n] \in Note
        BY DEF TypeInv, TypeOK, Note
      <4> QED BY <4>1, <4>2
    <3> QED BY <2>2, <3>1 DEF TypeInv, TypeOK, Addressed, Enable
  <2> QED BY <1>6, <2>1, <2>2
<1> QED BY <1>1, <1>2, <1>3, <1>4, <1>5, <1>6 DEF Environment

\* Every step keeps the types.
LEMMA TypeStep == TypeInv /\ [Next]_vars => TypeInv'
<1> SUFFICES ASSUME TypeInv, [Next]_vars PROVE TypeInv'
  OBVIOUS
<1>1. CASE Environment
  BY <1>1, EnvironmentType
<1>2. ASSUME NEW w \in Workers, Arrive(w) PROVE TypeInv'
  BY <1>2, RegisterType, SubscribeType, UnregisterType, ManageType, SendMessageType
  DEF Arrive, Unsubscribe, TestSubscription
<1>3. ASSUME NEW w \in Workers, Serve(w) PROVE TypeInv'
  BY <1>3, UnwindType, LockType, CodeType, SaveType, RemoveType, DeliverType
  DEF Serve, LockBusy, Release, DeadlockVictim
<1>4. CASE UNCHANGED vars
  BY <1>4 DEF TypeInv, TypeOK, Addressed, vars
<1> QED BY <1>1, <1>2, <1>3, <1>4 DEF Next

\* PUSH_DEVICE, the codes and every request in flight keep their types, whatever
\* leases lapse.
THEOREM TypeCorrect == Spec => []TypeOK
<1>1. TypeInv => TypeOK
  BY DEF TypeInv
<1> QED BY <1>1, InitType, TypeStep, PTL DEF Spec

-----------------------------------------------------------------------------
(* The quota.  While no lease lapses, a worker between its two releases    *)
(* owns its locks, so of all workers that save for one user at most one is *)
(* past the lock of the quota: from the moment it has found room until it  *)
(* writes, the user's other rows can only become fewer.                    *)

\* What a step of w leaves alone.
Bystanders(w) ==
    \A x \in Workers \ {w} :
        /\ pc'[x] = pc[x] /\ req'[x] = req[x] /\ mem'[x] = mem[x]
        /\ \A k \in LockKeys : lock[k] = x => lock'[k] = x

Act(w) == Arrive(w) \/ Serve(w) \/ Fail(w) \/ Crash(w)

\* A worker that finishes touches no other.
LEMMA FinishAlone ==
  ASSUME TypeOK, NEW w \in Workers, Finish(w)
  PROVE  /\ pc'[w] = "idle"
         /\ \A x \in Workers \ {w} : pc'[x] = pc[x] /\ req'[x] = req[x] /\ mem'[x] = mem[x]
BY DEF TypeOK, Finish, Goto

\* Nor does one that leaves its locks,
LEMMA UnwindAlone ==
  ASSUME TypeOK, NEW w \in Workers, Unwind(w) PROVE Bystanders(w) /\ pc'[w] = "idle"
BY FinishAlone DEF TypeOK, Unwind, Unlocked, Bystanders

\* one that takes a call,
LEMMA ArriveAlone ==
  ASSUME TypeOK, NEW w \in Workers, Arrive(w)
  PROVE  /\ Bystanders(w) /\ devices' = devices
         /\ pc'[w] \in {"lock", "pair", "deliver", "prune"}
<1> DEFINE Accepted == \E r : \E step \in {"lock", "pair", "deliver", "prune"} : Accept(w, r, step)
<1>1. ASSUME NEW n, NEW o, NEW i, NEW t,
             \/ Register(w, n, o, i, t) \/ Subscribe(w, n, i, t) \/ SendMessage(w, n, o)
             \/ Unregister(w, n, o, i) \/ RequestPairing(w, n, o, i)
      PROVE  Accepted
  BY <1>1 DEF Register, Subscribe, Unregister, RequestPairing, SendMessage
<1>2. ASSUME NEW d, Unsubscribe(w, d) \/ TestSubscription(w, d) PROVE Accepted
  BY <1>2 DEF Unsubscribe, TestSubscription, Manage
<1>3. Accepted
  BY <1>1, <1>2 DEF Arrive
<1>4. PICK r : \E step \in {"lock", "pair", "deliver", "prune"} : Accept(w, r, step)
  BY <1>3
<1>5. PICK step \in {"lock", "pair", "deliver", "prune"} : Accept(w, r, step)
  BY <1>4
<1>6. \A x \in Workers \ {w} : pc'[x] = pc[x] /\ req'[x] = req[x]
  BY <1>5 DEF TypeOK, Accept, Goto
<1>7. lock' = lock /\ devices' = devices
  BY DEF Arrive, Register, Subscribe, Unregister, RequestPairing, Unsubscribe, TestSubscription,
         Manage, SendMessage
<1>8. \A x \in Workers \ {w} : mem'[x] = mem[x]
  BY DEF TypeOK, Arrive, Register, Subscribe, Unregister, RequestPairing, Unsubscribe,
         TestSubscription, Manage, SendMessage
<1>9. pc'[w] = step
  BY <1>5 DEF TypeOK, Accept, Goto
<1> QED BY <1>6, <1>7, <1>8, <1>9 DEF Bystanders

\* one at a lock,
LEMMA AloneInLocks ==
  ASSUME TypeOK, NEW w \in Workers, AcquireInstall(w) \/ AcquireQuota(w) \/ ReleaseQuota(w)
  PROVE  Bystanders(w)
BY ZenonT(90), NamesAssumption
DEF TypeOK, AcquireInstall, AcquireQuota, ReleaseQuota, Take, Unlocked, Goto, Bystanders

\* one in a save or a removal,
LEMMA AloneInSteps ==
  ASSUME TypeOK, NEW w \in Workers,
         \/ ConsumePairing(w) \/ RequireEnabledNamespace(w)
         \/ ReadExisting(w) \/ CountDevices(w) \/ EvictRivals(w) \/ Upsert(w)
         \/ RemoveRows(w) \/ FindCodes(w) \/ DeleteCodes(w) \/ DropIndex(w)
  PROVE  Bystanders(w) /\ lock' = lock /\ req' = req
BY DEF TypeOK, ConsumePairing, RequireEnabledNamespace, ReadExisting, CountDevices, EvictRivals,
       Upsert, RemoveRows, FindCodes, DeleteCodes, DropIndex, Goto, Bystanders

\* one that needs no lock,
LEMMA AloneOutside ==
  ASSUME TypeOK, NEW w \in Workers, CreatePairing(w) \/ Deliver(w) \/ PruneRevision(w)
  PROVE  Bystanders(w) /\ pc'[w] \in {"idle", "prune"}
<1>1. lock' = lock
  BY DEF CreatePairing, Deliver, PruneRevision
<1>2. CASE Finish(w)
  BY <1>1, <1>2, FinishAlone DEF Bystanders
<1>3. CASE /\ pc'[w] = "prune"
           /\ \A x \in Workers \ {w} : pc'[x] = pc[x] /\ req'[x] = req[x] /\ mem'[x] = mem[x]
  BY <1>1, <1>3 DEF Bystanders
<1> QED BY ZenonT(90), <1>2, <1>3 DEF TypeOK, CreatePairing, Deliver, PruneRevision, Goto

\* or one that dies.
LEMMA CrashAlone ==
  ASSUME TypeOK, NEW w \in Workers, Crash(w) PROVE Bystanders(w) /\ pc'[w] = "idle"
BY FinishAlone DEF TypeOK, Crash, Bystanders

\* No step of a worker touches another one.
LEMMA ActAlone == ASSUME TypeOK, NEW w \in Workers, Act(w) PROVE Bystanders(w)
BY UnwindAlone, ArriveAlone, AloneInLocks, AloneInSteps, AloneOutside, CrashAlone
DEF Act, Serve, Fail, LockBusy, Release, DeadlockVictim

-----------------------------------------------------------------------------

Keys(w) == /\ pc[w] \in InstallHeldAt => lock[InstallKey(w)] = w
           /\ pc[w] \in QuotaHeldAt => lock[QuotaKey(w)] = w

\* The key of an installation and the key of a quota are never the same.
LEMMA KeysApart ==
  ASSUME TypeInv, NEW w \in Workers, pc[w] \in {"lock", "pair"} \cup InstallHeldAt
  PROVE  /\ InstallKey(w) \in LockKeys /\ QuotaKey(w) \in LockKeys
         /\ InstallKey(w) # QuotaKey(w)
BY NamesAssumption DEF TypeInv, Addressed, InstallKey, QuotaKey, LockKeys

\* The locks that a worker relies on are those it holds.
LEMMA OwnKeys ==
  ASSUME TypeInv, LocksHeld, NEW w \in Workers, Act(w)
  PROVE  Keys(w)'
<1> USE DEF Keys
<1>1. CASE Arrive(w)
  BY <1>1, ArriveAlone DEF TypeInv
<1>2. CASE Fail(w) \/ Crash(w) \/ LockBusy(w) \/ Release(w) \/ DeadlockVictim(w)
  BY <1>2, UnwindAlone, CrashAlone DEF TypeInv, Fail, LockBusy, Release, DeadlockVictim
<1>3. CASE CreatePairing(w) \/ Deliver(w) \/ PruneRevision(w)
  BY <1>3, AloneOutside DEF TypeInv
<1>4. CASE AcquireInstall(w)
  <2>1. pc'[w] \in {"quota", "consume", "rows"} /\ lock'[InstallKey(w)] = w /\ req' = req
    BY <1>4, KeysApart DEF TypeInv, TypeOK, AcquireInstall, Take, Goto
  <2> QED BY <2>1 DEF InstallKey
<1>5. CASE AcquireQuota(w)
  <2>1. /\ lock'[QuotaKey(w)] = w /\ lock'[InstallKey(w)] = w /\ req' = req
    BY <1>5, KeysApart DEF TypeInv, TypeOK, LocksHeld, AcquireQuota, Take, Goto
  <2> QED BY <2>1 DEF InstallKey, QuotaKey
<1>6. CASE ReleaseQuota(w)
  <2>1. lock'[InstallKey(w)] = w /\ req' = req /\ pc'[w] = "release"
    BY ZenonT(90), <1>6, KeysApart DEF TypeInv, TypeOK, LocksHeld, ReleaseQuota, Unlocked, Goto
  <2> QED BY <2>1 DEF InstallKey
<1>7. CASE ConsumePairing(w) \/ RequireEnabledNamespace(w) \/ RemoveRows(w) \/ FindCodes(w)
           \/ DeleteCodes(w) \/ DropIndex(w)
  <2>1. pc[w] \in InstallHeldAt /\ pc'[w] \in InstallHeldAt \ QuotaHeldAt
    BY <1>7 DEF TypeInv, TypeOK, ConsumePairing, RequireEnabledNamespace, RemoveRows, FindCodes,
                DeleteCodes, DropIndex, Goto
  <2> QED BY <1>7, <2>1, AloneInSteps DEF TypeInv, LocksHeld, InstallKey
<1>8. CASE ReadExisting(w) \/ CountDevices(w) \/ EvictRivals(w) \/ Upsert(w)
  <2>1. pc[w] \in QuotaHeldAt
    BY <1>8 DEF OwnRow, ReadExisting, CountDevices, EvictRivals, Upsert
  <2> QED BY <1>8, <2>1, AloneInSteps DEF TypeInv, LocksHeld, InstallKey, QuotaKey
<1> QED BY <1>1, <1>2, <1>3, <1>4, <1>5, <1>6, <1>7, <1>8 DEF Act, Serve

\* Steps of no worker: they free dead workers' locks and touch no request.
Ambient == Environment /\ ~\E w \in Workers : Fail(w) \/ Crash(w)

\* While no lease lapses, what happens around the workers leaves them their locks.
LEMMA AmbientAlone ==
  ASSUME TypeInv, LeaseMayLapse = FALSE, Ambient \/ UNCHANGED vars
  PROVE  /\ pc' = pc /\ req' = req /\ mem' = mem /\ devices' = devices
         /\ \A x \in Workers, k \in LockKeys : lock[k] = x => lock'[k] = x
<1>1. CASE UNCHANGED vars
  BY <1>1 DEF vars
<1>2. CASE \E k \in LockKeys : Lapse(k)
  BY ZenonT(90), <1>2, NamesAssumption DEF TypeInv, TypeOK, Lapse
<1>3. CASE \/ \E c \in Codes : ExpireCode(c)
           \/ \E n \in Namespaces, o \in Owners, i \in NativeInst : ExpireIndex(n, o, i)
           \/ \E n \in Namespaces : Disable(n) \/ Enable(n)
  BY <1>3 DEF ExpireCode, ExpireIndex, Disable, Enable
<1> QED BY <1>1, <1>2, <1>3 DEF Ambient, Environment

\* Every step is one of a worker, one of the surroundings or none.
LEMMA NextCases == [Next]_vars => (\E w \in Workers : Act(w)) \/ Ambient \/ UNCHANGED vars
BY DEF Next, Act, Ambient

\* Every step leaves the locks with those who rely on them.
LEMMA LocksStep ==
  ASSUME TypeInv, LocksHeld, LeaseMayLapse = FALSE, [Next]_vars
  PROVE  LocksHeld'
<1>1. CASE Ambient \/ UNCHANGED vars
  <2> SUFFICES ASSUME NEW w \in Workers PROVE Keys(w)'
    BY DEF LocksHeld, Keys
  <2>1. Keys(w)
    BY DEF LocksHeld, Keys
  <2>2. pc[w] \in InstallHeldAt => InstallKey(w) \in LockKeys /\ QuotaKey(w) \in LockKeys
    BY KeysApart
  <2> QED BY <1>1, <2>1, <2>2, AmbientAlone DEF Keys, InstallKey, QuotaKey
<1>2. ASSUME NEW w \in Workers, Act(w) PROVE LocksHeld'
  <2> SUFFICES ASSUME NEW x \in Workers PROVE Keys(x)'
    BY DEF LocksHeld, Keys
  <2>1. CASE x = w
    BY <1>2, <2>1, OwnKeys
  <2>2. CASE x # w
    <3>1. Keys(x)
      BY DEF LocksHeld, Keys
    <3>2. pc[x] \in InstallHeldAt => InstallKey(x) \in LockKeys /\ QuotaKey(x) \in LockKeys
      BY KeysApart
    <3>3. Bystanders(w)
      BY <1>2, ActAlone DEF TypeInv
    <3> QED BY ZenonT(90), <2>2, <3>1, <3>2, <3>3 DEF Keys, Bystanders, InstallKey, QuotaKey
  <2> QED BY <2>1, <2>2
<1> QED BY <1>1, <1>2, NextCases

-----------------------------------------------------------------------------

\* Only an upsert adds a row.
LEMMA Shrinks ==
  ASSUME TypeInv, NEW w \in Workers, Act(w), ~Upsert(w)
  PROVE  devices' \subseteq devices
BY ArriveAlone
DEF TypeInv, Act, Serve, Fail, Crash, LockBusy, Release, DeadlockVictim, AcquireInstall, AcquireQuota,
    ReleaseQuota, CreatePairing, ConsumePairing, RequireEnabledNamespace, ReadExisting, CountDevices,
    EvictRivals, RemoveRows, FindCodes, DeleteCodes, DropIndex, Deliver, PruneRevision

\* A save adds at most the row it is about, and replaces the row that had its place.
LEMMA UpsertEffect ==
  ASSUME NEW w \in Workers, Upsert(w)
  PROVE  \/ devices' = devices
         \/ devices' \subseteq (devices \ RowOf(req[w].ns, req[w].inst)) \cup {Written(w)}
BY DEF Upsert

\* Two saves for one user are never both past the lock of the quota.
LEMMA OneSaverPerUser ==
  ASSUME TypeInv, LocksHeld, NEW w \in Workers, NEW x \in Workers, x # w,
         pc[w] \in QuotaHeldAt, pc[x] \in QuotaHeldAt
  PROVE  ~(req[w].ns = req[x].ns /\ req[w].owner = req[x].owner)
BY DEF LocksHeld, QuotaKey

\* Fewer rows are not more: the form in which finiteness is used below.
LEMMA FewerRows ==
  ASSUME TypeInv, NEW S, NEW T, S \subseteq T, T \subseteq devices
  PROVE  IsFiniteSet(T) /\ Cardinality(S) <= Cardinality(T) /\ Cardinality(T) \in Nat
         /\ Cardinality(S) \in Nat
<1>1. IsFiniteSet(T) /\ IsFiniteSet(S)
  BY FS_Subset DEF TypeInv, Addressed
<1> QED BY <1>1, FS_Subset, FS_CardinalityType

\* A worker that has found room keeps it while another one acts.
LEMMA RoomKept ==
  ASSUME TypeInv, LocksHeld, RoomLeft, NEW w \in Workers, Act(w),
         NEW x \in Workers \ {w}, FoundRoom(x)'
  PROVE  Cardinality(Others(x)') < MaxDevices
<1>1. pc'[x] = pc[x] /\ req'[x] = req[x] /\ mem'[x] = mem[x]
  BY ActAlone DEF TypeInv, Bystanders
<1>2. FoundRoom(x)
  BY <1>1 DEF FoundRoom
<1>3. Cardinality(Others(x)) < MaxDevices
  BY <1>2 DEF RoomLeft
<1>4. Others(x)' \subseteq Others(x)
  <2>1. CASE ~Upsert(w)
    BY <1>1, <2>1, Shrinks DEF Others, Account
  <2>2. CASE Upsert(w)
    <3>1. pc[w] \in QuotaHeldAt /\ pc[x] \in QuotaHeldAt
      BY <1>2, <2>2 DEF Upsert, FoundRoom
    <3>2. ~(Written(w).ns = req[x].ns /\ Written(w).owner = req[x].owner)
      BY <3>1, OneSaverPerUser DEF Written
    <3> QED BY <1>1, <2>2, <3>2, UpsertEffect DEF Others, Account
  <2> QED BY <2>1, <2>2
<1>5. Others(x) \subseteq devices
  BY DEF Others, Account
<1> QED BY <1>3, <1>4, <1>5, FewerRows, LimitsAssumption

\* A worker finds room: its own row is there already, or the count is low.
LEMMA RoomFound ==
  ASSUME TypeInv, QuotaHeld, RoomLeft, NEW w \in Workers, Act(w), FoundRoom(w)'
  PROVE  Cardinality(Others(w)') < MaxDevices
<1> DEFINE mine == Account(req[w].ns, req[w].owner)
<1>1. mine \subseteq devices /\ Others(w) \subseteq mine
  BY DEF Others, Account
<1>2. Cardinality(Others(w)) \in Nat /\ Cardinality(mine) \in Nat
      /\ Cardinality(Others(w)) <= Cardinality(mine) /\ IsFiniteSet(mine)
  BY <1>1, FewerRows
<1>3. ReadExisting(w) \/ CountDevices(w) \/ EvictRivals(w)
  <2>1. pc'[w] \in {"count", "evict", "upsert"}
    BY DEF FoundRoom
  <2>2. ~Arrive(w)
    BY <2>1, ArriveAlone DEF TypeInv
  <2>3. ~(Fail(w) \/ Crash(w) \/ LockBusy(w) \/ Release(w) \/ DeadlockVictim(w))
    BY <2>1, UnwindAlone, CrashAlone DEF TypeInv, Fail, LockBusy, Release, DeadlockVictim
  <2>4. ~(CreatePairing(w) \/ Deliver(w) \/ PruneRevision(w))
    BY <2>1, AloneOutside DEF TypeInv
  <2>5. ~(AcquireInstall(w) \/ AcquireQuota(w) \/ ReleaseQuota(w))
    BY <2>1 DEF TypeInv, TypeOK, AcquireInstall, AcquireQuota, ReleaseQuota, Take, Goto
  <2>6. ~(ConsumePairing(w) \/ RequireEnabledNamespace(w) \/ Upsert(w) \/ RemoveRows(w)
          \/ FindCodes(w) \/ DeleteCodes(w) \/ DropIndex(w))
    BY <2>1 DEF TypeInv, TypeOK, ConsumePairing, RequireEnabledNamespace, Upsert, RemoveRows,
                FindCodes, DeleteCodes, DropIndex, Goto
  <2> QED BY <2>2, <2>3, <2>4, <2>5, <2>6 DEF Act, Serve
<1>4. devices' = devices /\ req' = req
  BY <1>3 DEF OwnRow, ReadExisting, CountDevices, EvictRivals
<1>5. Others(w)' = Others(w)
  BY <1>4 DEF Others, Account
<1>6. req[w].ns \in Namespaces /\ req[w].owner \in Owners
  BY <1>3 DEF TypeInv, Addressed, ReadExisting, CountDevices, EvictRivals
<1>7. CASE ReadExisting(w)
  <2>1. mem'[w].existing = req[w].owner
    BY <1>4, <1>7 DEF TypeInv, TypeOK, FoundRoom, ReadExisting, Goto
  <2>2. \E d \in RowOf(req[w].ns, req[w].inst) : d.owner = req[w].owner
    BY ZenonT(90), <1>6, <1>7, <2>1, NamesAssumption DEF TypeInv, TypeOK, Memory, OwnRow, ReadExisting
  <2>3. PICK d \in mine : d \notin Others(w)
    BY <2>2 DEF RowOf, Account, Others
  <2>4. /\ IsFiniteSet(mine \ {d}) /\ Cardinality(mine \ {d}) = Cardinality(mine) - 1
    BY <1>2, <2>3, FS_RemoveElement
  <2>5. Cardinality(Others(w)) <= Cardinality(mine \ {d})
    BY <1>1, <2>3, FewerRows
  <2>6. Cardinality(mine) <= MaxDevices
    BY <1>6 DEF QuotaHeld
  <2> QED BY <1>2, <1>5, <2>4, <2>5, <2>6, LimitsAssumption
<1>8. CASE CountDevices(w)
  <2>1. FoundRoom(w) \/ ~Full(w)
    BY <1>8 DEF TypeInv, TypeOK, FoundRoom, CountDevices, Goto
  <2>2. CASE FoundRoom(w)
    BY <1>5, <2>2 DEF RoomLeft
  <2>3. CASE ~Full(w)
    BY <1>2, <1>5, <2>3, LimitsAssumption DEF Full
  <2> QED BY <2>1, <2>2, <2>3
<1>9. CASE EvictRivals(w)
  BY <1>5, <1>9 DEF RoomLeft, FoundRoom, EvictRivals
<1> QED BY <1>3, <1>7, <1>8, <1>9

\* No user's rows outnumber the quota after a step.
LEMMA QuotaStep ==
  ASSUME TypeInv, RoomLeft, QuotaHeld, NEW w \in Workers, Act(w)
  PROVE  QuotaHeld'
<1> SUFFICES ASSUME NEW n \in Namespaces, NEW o \in Owners
             PROVE  Cardinality(Account(n, o)') <= MaxDevices
  BY DEF QuotaHeld
<1>1. Cardinality(Account(n, o)) <= MaxDevices /\ Account(n, o) \subseteq devices
  BY DEF QuotaHeld, Account
<1>2. CASE Account(n, o)' \subseteq Account(n, o)
  BY <1>1, <1>2, FewerRows, LimitsAssumption
<1>3. CASE Upsert(w) /\ n = req[w].ns /\ o = req[w].owner
           /\ devices' \subseteq (devices \ RowOf(n, req[w].inst)) \cup {Written(w)}
  <2>1. Cardinality(Others(w)) < MaxDevices
    BY <1>3 DEF RoomLeft, FoundRoom, Upsert
  <2>2. Account(n, o)' \subseteq Others(w) \cup {Written(w)}
    BY <1>3 DEF Account, Others, RowOf
  <2>3. IsFiniteSet(Others(w)) /\ Cardinality(Others(w)) \in Nat
    BY FewerRows DEF Others, Account
  <2>4. /\ IsFiniteSet(Others(w) \cup {Written(w)})
        /\ Cardinality(Others(w) \cup {Written(w)}) <= Cardinality(Others(w)) + 1
    <3>1. \/ Cardinality(Others(w) \cup {Written(w)}) = Cardinality(Others(w))
          \/ Cardinality(Others(w) \cup {Written(w)}) = Cardinality(Others(w)) + 1
      BY <2>3, FS_AddElement, Zenon
    <3>2. IsFiniteSet(Others(w) \cup {Written(w)})
      BY <2>3, FS_AddElement, Zenon
    <3> QED BY <2>3, <3>1, <3>2
  <2>5. Cardinality(Account(n, o)') <= Cardinality(Others(w) \cup {Written(w)})
        /\ Cardinality(Account(n, o)') \in Nat /\ Cardinality(Others(w) \cup {Written(w)}) \in Nat
    BY <2>2, <2>4, FS_Subset, FS_CardinalityType
  <2> QED BY <2>1, <2>3, <2>4, <2>5, LimitsAssumption
<1>4. \/ Account(n, o)' \subseteq Account(n, o)
      \/ Upsert(w) /\ n = req[w].ns /\ o = req[w].owner
         /\ devices' \subseteq (devices \ RowOf(n, req[w].inst)) \cup {Written(w)}
  <2>1. CASE ~Upsert(w)
    BY <2>1, Shrinks DEF Account
  <2>2. CASE Upsert(w)
    BY <2>2, UpsertEffect DEF Account, Written
  <2> QED BY <2>1, <2>2
<1> QED BY <1>2, <1>3, <1>4

\* The registry is empty at first.
LEMMA QuotaInvInit == Init => QuotaInv
<1> SUFFICES ASSUME Init PROVE QuotaInv
  OBVIOUS
<1>1. TypeInv
  BY InitType
<1>2. LocksHeld /\ RoomLeft
  BY DEF Init, LocksHeld, RoomLeft, FoundRoom
<1>3. QuotaHeld
  BY FS_EmptySet, LimitsAssumption DEF Init, QuotaHeld, Account
<1> QED BY <1>1, <1>2, <1>3 DEF QuotaInv, TypeInv

\* Every step keeps the quota, with the room that those who have counted rely on.
LEMMA QuotaInvStep == ASSUME LeaseMayLapse = FALSE PROVE QuotaInv /\ [Next]_vars => QuotaInv'
<1> SUFFICES ASSUME QuotaInv, [Next]_vars PROVE QuotaInv'
  OBVIOUS
<1>1. TypeInv /\ LocksHeld /\ RoomLeft /\ QuotaHeld
  BY DEF QuotaInv, TypeInv
<1>2. TypeInv' /\ LocksHeld'
  BY <1>1, TypeStep, LocksStep
<1>3. RoomLeft' /\ QuotaHeld'
  <2>1. CASE Ambient \/ UNCHANGED vars
    BY <1>1, <2>1, AmbientAlone DEF RoomLeft, FoundRoom, Others, QuotaHeld, Account
  <2>2. ASSUME NEW w \in Workers, Act(w) PROVE RoomLeft' /\ QuotaHeld'
    BY <1>1, <2>2, RoomKept, RoomFound, QuotaStep DEF RoomLeft
  <2> QED BY <2>1, <2>2, NextCases
<1> QED BY <1>2, <1>3 DEF QuotaInv, TypeInv

\* save_device keeps every user of every instance within the device quota, for
\* any number of concurrent requests, if no critical section outlives its lease.
THEOREM QuotaTheorem == ASSUME LeaseMayLapse = FALSE PROVE Spec => []QuotaHeld
<1>1. QuotaInv => QuotaHeld
  BY DEF QuotaInv
<1> QED BY <1>1, QuotaInvInit, QuotaInvStep, PTL DEF Spec

-----------------------------------------------------------------------------
(* The rows of PUSH_DEVICE: that they stay unique, and why one may         *)
(* disappear.  None of this assumes anything about leases.                 *)

HIDE DEF Installations, Destinations, InstallHeldAt, QuotaHeldAt, Steps

(* What a step of a request does to the rows and to what is known of them. *)

\* A worker reads rows from the table and otherwise only forgets some.
LEMMA RowsRead ==
  ASSUME TypeInv, NEW w \in Workers, Act(w)
  PROVE  mem'[w].rows \subseteq devices \cup mem[w].rows
<1> USE DEF TypeInv, TypeOK
<1>1. CASE Finish(w)
  BY <1>1 DEF Finish, NoMemory
<1>2. CASE Arrive(w)
  <2>1. CASE \E d \in devices : Unsubscribe(w, d) \/ TestSubscription(w, d)
    BY <2>1 DEF Unsubscribe, TestSubscription, Manage, Memory
  <2>2. CASE \E n \in Namespaces, o \in Owners : SendMessage(w, n, o)
    <3>1. PICK sent \in SUBSET devices : mem' = [mem EXCEPT ![w].rows = sent]
      BY <2>2 DEF SendMessage, DevicesForOwner, kSubset, Account
    <3> QED BY <3>1 DEF Memory
  <2>3. CASE mem' = mem
    BY <2>3
  <2> QED BY <1>2, <2>1, <2>2, <2>3 DEF Arrive, Register, Subscribe, Unregister, RequestPairing
<1>3. CASE ReadExisting(w) \/ FindCodes(w)
  BY ZenonT(90), <1>3 DEF ReadExisting, FindCodes, Memory
<1>4. CASE EvictRivals(w)
  BY <1>4 DEF EvictRivals, Rivals, Memory
<1>5. CASE Upsert(w)
  BY <1>5 DEF Upsert, Memory
<1>6. CASE Deliver(w)
  BY <1>1, <1>6 DEF Deliver, Memory
<1>7. CASE PruneRevision(w)
  BY <1>1, <1>7 DEF PruneRevision, Memory
<1> QED BY <1>1, <1>2, <1>3, <1>4, <1>5, <1>6, <1>7
        DEF Act, Serve, Fail, Crash, LockBusy, Release, DeadlockVictim, Unwind, AcquireInstall,
            AcquireQuota, ReleaseQuota, CreatePairing, ConsumePairing, RequireEnabledNamespace,
            CountDevices, RemoveRows, DeleteCodes, DropIndex

-----------------------------------------------------------------------------
(* Uniqueness is inductive by itself: it rests on what one transaction     *)
(* deletes and checks, and on no lock.                                     *)

\* Uniqueness is inductive with the types.
LEMMA UniqueStep == TypeInv /\ UniqueBindings /\ [Next]_vars => UniqueBindings'
<1> SUFFICES ASSUME TypeInv, UniqueBindings, [Next]_vars PROVE UniqueBindings'
  OBVIOUS
<1>1. CASE devices' \subseteq devices
  BY <1>1 DEF UniqueBindings
<1>2. ASSUME NEW w \in Workers, Upsert(w) PROVE UniqueBindings'
  <2> SUFFICES ASSUME UniqueDestination(w),
                      devices' = (devices \ (mem[w].rows \cup RowOf(req[w].ns, req[w].inst)))
                                 \cup {Written(w)}
               PROVE  UniqueBindings'
    BY <1>1, <1>2 DEF Upsert
  <2>1. ASSUME NEW d \in devices' \ {Written(w)}
        PROVE  d.dest # Written(w).dest /\ ~(d.ns = Written(w).ns /\ d.inst = Written(w).inst)
    BY DEF UniqueDestination, Rivals, RowOf, Written
  <2>2. \A d1, d2 \in devices' \ {Written(w)} : d1 # d2 =>
            d1.dest # d2.dest /\ <<d1.ns, d1.inst>> # <<d2.ns, d2.inst>>
    BY DEF UniqueBindings
  <2> QED BY <2>1, <2>2 DEF UniqueBindings
<1>3. CASE Ambient
  BY <1>1, <1>3 DEF Ambient, Environment, Lapse, ExpireCode, ExpireIndex, Disable, Enable
<1> QED BY <1>1, <1>2, <1>3, Shrinks, NextCases DEF vars

\* PUSH_DEVICE never holds two rows for one installation of an instance or for
\* one destination, whatever transactions overlap and whatever leases lapse.
THEOREM BindingsUnique == Spec => []UniqueBindings
<1>1. Init => UniqueBindings
  BY DEF Init, UniqueBindings
<1> QED BY <1>1, InitType, TypeStep, UniqueStep, PTL DEF Spec

-----------------------------------------------------------------------------
(* A revision names one row for ever.                                      *)

\* The rows of the table and those some request still remembers.
Remembered == devices \cup UNION {mem[w].rows : w \in Workers}

\* Requests whose row is still to be written.
Saving(w) ==
    /\ req[w].kind \in {"register", "subscribe"}
    /\ pc[w] \in {"lock", "consume", "check", "quota", "existing", "count", "evict", "upsert"}

\* No two rows ever carry the same revision, also when one of them was
\* replaced or removed and a delivery still remembers it; and what a
\* transaction has evicted had its destination.
Revisions ==
    /\ \A d \in Remembered : d.revision <= saves
    /\ \A d1, d2 \in Remembered : d1.revision = d2.revision => d1 = d2
    /\ \A w \in Workers : Saving(w) => req[w].revision <= saves
    /\ \A w \in Workers, d \in Remembered : Saving(w) => d.revision # req[w].revision
    /\ \A w \in Workers, x \in Workers :
           w # x /\ Saving(w) /\ Saving(x) => req[x].revision # req[w].revision
    /\ \A w \in Workers : pc[w] = "upsert" => \A d \in mem[w].rows : d.dest = req[w].dest

\* Workers remember rows that were there, and forget.
LEMMA RememberedStep ==
  ASSUME TypeInv, NEW w \in Workers, Act(w)
  PROVE  \/ Remembered' \subseteq Remembered
         \/ Upsert(w) /\ Remembered' \subseteq Remembered \cup {Written(w)}
<1>1. \A x \in Workers \ {w} : mem'[x] = mem[x]
  BY ActAlone DEF TypeInv, Bystanders
<1>2. mem'[w].rows \subseteq Remembered
  BY RowsRead DEF Remembered
<1>3. \A x \in Workers : mem'[x].rows \subseteq Remembered
  BY <1>1, <1>2 DEF Remembered
<1>4. devices' \subseteq devices \/ (Upsert(w) /\ devices' \subseteq devices \cup {Written(w)})
  BY Shrinks, UpsertEffect
<1>5. devices \subseteq Remembered
  BY DEF Remembered
<1>6. Remembered' \subseteq devices' \cup Remembered
  BY <1>3 DEF Remembered
<1> QED BY <1>4, <1>5, <1>6

\* What is remembered are rows.
LEMMA RememberedType == ASSUME TypeInv PROVE Remembered \subseteq Device
BY DEF TypeInv, TypeOK, Memory, Remembered

\* A request that saves has just arrived, with the next revision, or was saving before.
LEMMA SavingStep ==
  ASSUME TypeInv, NEW w \in Workers, Act(w)
  PROVE  /\ saves' \in {saves, saves + 1}
         /\ Saving(w)' => \/ Saving(w) /\ req'[w] = req[w] /\ saves' = saves
                          \/ saves' = saves + 1 /\ req'[w].revision = saves + 1
         /\ Upsert(w) => Saving(w) /\ ~Saving(w)' /\ saves' = saves
<1> USE DEF TypeInv, TypeOK
<1>1. CASE Arrive(w)
  <2>1. pc[w] = "idle"
    BY <1>1 DEF Arrive, Register, Subscribe, Unregister, RequestPairing, Unsubscribe,
                TestSubscription, Manage, SendMessage, Accept
  <2>2. CASE \/ \E n \in Namespaces, o \in Owners, i \in NativeInst, t \in Tokens : Register(w, n, o, i, t)
             \/ \E c \in Codes, i \in WebInst, e \in Endpoints : Subscribe(w, c, i, e)
    <3>1. saves' = saves + 1 /\ req'[w].revision = saves + 1
      BY <2>2 DEF Register, Subscribe, Accept, Call
    <3> QED BY <2>1, <3>1 DEF Upsert
  <2>3. CASE \/ \E n \in Namespaces, o \in Owners, i \in Installations : Unregister(w, n, o, i)
             \/ \E n \in Namespaces, o \in Owners, i \in NativeInst : RequestPairing(w, n, o, i)
             \/ \E d \in devices : Unsubscribe(w, d) \/ TestSubscription(w, d)
             \/ \E n \in Namespaces, o \in Owners : SendMessage(w, n, o)
    <3>1. saves' = saves /\ req'[w].kind \in {"unregister", "pair", "manage", "send"}
      <4>1. CASE \E n \in Namespaces, o \in Owners, i \in Installations :
                     Unregister(w, n, o, i) \/ RequestPairing(w, n, o, i)
        BY <4>1 DEF Unregister, RequestPairing, Accept, Call
      <4>2. CASE \E d \in devices : Unsubscribe(w, d) \/ TestSubscription(w, d)
        BY <4>2 DEF Unsubscribe, TestSubscription, Manage, Accept, Call
      <4>3. CASE \E n \in Namespaces, o \in Owners : SendMessage(w, n, o)
        BY <4>3 DEF SendMessage, Accept, Call
      <4> QED BY <2>3, <4>1, <4>2, <4>3 DEF Installations
    <3> QED BY <2>1, <3>1 DEF Saving, Upsert
  <2> QED BY <1>1, <2>2, <2>3 DEF Arrive
<1>2. CASE saves' = saves /\ pc'[w] \in {"idle", "prune"} /\ ~Upsert(w)
  BY <1>2 DEF Saving
<1>3. CASE Fail(w) \/ LockBusy(w) \/ Release(w) \/ DeadlockVictim(w) \/ Crash(w)
  <2>1. saves' = saves /\ pc'[w] = "idle"
    BY <1>3, UnwindAlone, CrashAlone DEF Fail, LockBusy, Release, DeadlockVictim, Crash
  <2>2. ~Upsert(w)
    BY <2>1 DEF Upsert, Goto
  <2> QED BY <1>2, <2>1, <2>2
<1>4. CASE CreatePairing(w) \/ Deliver(w) \/ PruneRevision(w)
  BY <1>2, <1>4, AloneOutside DEF Upsert, CreatePairing, Deliver, PruneRevision
<1>5. CASE AcquireInstall(w) \/ AcquireQuota(w) \/ ReleaseQuota(w)
  BY <1>5 DEF AcquireInstall, AcquireQuota, ReleaseQuota, Take, Goto, Saving, Upsert
<1>6. CASE \/ ConsumePairing(w) \/ RequireEnabledNamespace(w) \/ ReadExisting(w) \/ CountDevices(w)
           \/ EvictRivals(w) \/ Upsert(w)
  <2>1. req' = req /\ saves' = saves
    BY <1>6 DEF ConsumePairing, RequireEnabledNamespace, ReadExisting, CountDevices, EvictRivals, Upsert
  <2>2. pc[w] \in {"consume", "check", "existing", "count", "evict", "upsert"}
    BY <1>6 DEF ConsumePairing, RequireEnabledNamespace, ReadExisting, CountDevices, EvictRivals, Upsert
  <2>3. Upsert(w) => pc'[w] = "release quota"
    BY DEF Upsert, Goto
  <2>4. Saving(w)
    BY <2>2 DEF Addressed, QuotaHeldAt, Saving
  <2> QED BY <2>1, <2>3, <2>4 DEF Saving
<1>7. CASE RemoveRows(w) \/ FindCodes(w) \/ DeleteCodes(w) \/ DropIndex(w)
  BY <1>7 DEF RemoveRows, FindCodes, DeleteCodes, DropIndex, Goto, Saving, Upsert
<1> QED BY <1>1, <1>2, <1>3, <1>4, <1>5, <1>6, <1>7
        DEF Act, Serve, Fail, LockBusy, Release, DeadlockVictim

\* Only the eviction of rivals leads to the write.
LEMMA UpsertEntered ==
  ASSUME TypeInv, NEW w \in Workers, Act(w), pc'[w] = "upsert"
  PROVE  EvictRivals(w)
<1> USE DEF TypeInv, TypeOK
<1>1. ~Arrive(w)
  BY ArriveAlone
<1>2. ~(Fail(w) \/ Crash(w) \/ LockBusy(w) \/ Release(w) \/ DeadlockVictim(w))
  BY UnwindAlone, CrashAlone DEF Fail, LockBusy, Release, DeadlockVictim
<1>3. ~(CreatePairing(w) \/ Deliver(w) \/ PruneRevision(w))
  BY AloneOutside
<1>4. ~(AcquireInstall(w) \/ AcquireQuota(w) \/ ReleaseQuota(w))
  BY DEF AcquireInstall, AcquireQuota, ReleaseQuota, Take, Goto
<1>5. ~(ConsumePairing(w) \/ RequireEnabledNamespace(w) \/ ReadExisting(w) \/ CountDevices(w) \/ Upsert(w))
  BY DEF ConsumePairing, RequireEnabledNamespace, ReadExisting, CountDevices, Upsert, Goto
<1>6. ~(RemoveRows(w) \/ FindCodes(w) \/ DeleteCodes(w) \/ DropIndex(w))
  BY DEF RemoveRows, FindCodes, DeleteCodes, DropIndex, Goto
<1> QED BY <1>1, <1>2, <1>3, <1>4, <1>5, <1>6 DEF Act, Serve

\* Revisions stay apart.
LEMMA RevisionsStep == TypeInv /\ Revisions /\ [Next]_vars => Revisions'
<1> SUFFICES ASSUME TypeInv, Revisions, [Next]_vars PROVE Revisions'
  OBVIOUS
<1>1. ASSUME NEW w \in Workers, Act(w) PROVE Revisions'
  <2>1. \A x \in Workers \ {w} : pc'[x] = pc[x] /\ req'[x] = req[x] /\ mem'[x] = mem[x]
    BY <1>1, ActAlone DEF TypeInv, Bystanders
  <2>2. \A x \in Workers \ {w} : Saving(x)' <=> Saving(x)
    BY <2>1 DEF Saving
  <2>3. saves \in Nat /\ saves' \in {saves, saves + 1}
    BY <1>1, SavingStep, LimitsAssumption DEF TypeInv, TypeOK
  <2>4. /\ \A d \in Remembered : d.revision \in Nat /\ d.revision <= saves
        /\ \A x \in Workers : req[x].revision \in Nat
    BY RememberedType DEF Revisions, Device, TypeInv, TypeOK, Request
  <2>5. \A d \in Remembered' : d \in Remembered \/ (Upsert(w) /\ d = Written(w))
    BY <1>1, RememberedStep
  <2>6. Upsert(w) => Saving(w) /\ ~Saving(w)' /\ saves' = saves /\ Written(w).revision = req[w].revision
    BY <1>1, SavingStep DEF Written
  <2>7. Saving(w)' => \/ Saving(w) /\ req'[w] = req[w] /\ saves' = saves
                      \/ saves' = saves + 1 /\ req'[w].revision = saves + 1
    BY <1>1, SavingStep
  <2>8. \A d \in Remembered' : d.revision <= saves'
    BY <2>3, <2>4, <2>5, <2>6 DEF Revisions
  <2>9. \A d1, d2 \in Remembered' : d1.revision = d2.revision => d1 = d2
    BY <2>5, <2>6 DEF Revisions
  <2>10. \A x \in Workers : Saving(x)' => req'[x].revision <= saves'
    BY <2>1, <2>2, <2>3, <2>4, <2>7 DEF Revisions
  <2>11. \A x \in Workers, d \in Remembered' : Saving(x)' => d.revision # req'[x].revision
    <3> SUFFICES ASSUME NEW x \in Workers, NEW d \in Remembered', Saving(x)'
                 PROVE  d.revision # req'[x].revision
      OBVIOUS
    <3>1. CASE x = w
      BY <2>3, <2>4, <2>5, <2>6, <2>7, <3>1 DEF Revisions
    <3>2. CASE x # w
      BY <2>1, <2>2, <2>5, <2>6, <3>2 DEF Revisions
    <3> QED BY <3>1, <3>2
  <2>12. \A x \in Workers, y \in Workers :
            x # y /\ Saving(x)' /\ Saving(y)' => req'[y].revision # req'[x].revision
    <3>1. ASSUME NEW x \in Workers \ {w}, Saving(x), Saving(w)'
          PROVE  req'[w].revision # req[x].revision
      BY <2>3, <2>4, <2>7, <3>1 DEF Revisions
    <3> QED BY <2>1, <2>2, <3>1 DEF Revisions
  <2>13. \A x \in Workers : pc'[x] = "upsert" => \A d \in mem'[x].rows : d.dest = req'[x].dest
    <3>1. pc'[w] = "upsert" => EvictRivals(w)
      BY <1>1, UpsertEntered
    <3>2. EvictRivals(w) => \A d \in mem'[w].rows : d.dest = req'[w].dest
      BY DEF EvictRivals, Rivals, TypeInv, TypeOK, Memory
    <3> QED BY <2>1, <3>1, <3>2 DEF Revisions
  <2> QED BY <2>8, <2>9, <2>10, <2>11, <2>12, <2>13 DEF Revisions
<1>2. CASE Ambient \/ UNCHANGED vars
  <2>1. pc' = pc /\ req' = req /\ mem' = mem /\ devices' = devices /\ saves' = saves
    BY <1>2 DEF Ambient, Environment, Lapse, ExpireCode, ExpireIndex, Disable, Enable, vars
  <2> QED BY <2>1 DEF Revisions, Remembered, Saving
<1> QED BY <1>1, <1>2, NextCases

-----------------------------------------------------------------------------
(* Why a row goes.                                                         *)

Leaves(d) ==
    \/ RowOf(d.ns, d.inst)' # {}
    \/ \E w \in Workers :
          \/ /\ pc[w] = "rows" /\ req[w].ns = d.ns /\ req[w].owner = d.owner
             /\ req[w].inst \in {d.inst, d.parent}
          \/ pc[w] = "upsert" /\ req[w].dest = d.dest
          \/ pc[w] = "prune" /\ d \in mem[w].rows

\* A row that goes has one of the four reasons.
LEMMA LeavesFor ==
  ASSUME TypeInv, Revisions, [Next]_vars, NEW d \in devices
  PROVE  Leaves(d)
<1>1. CASE d \in devices'
  BY <1>1 DEF Leaves, RowOf
<1>2. ASSUME NEW w \in Workers, Upsert(w) PROVE Leaves(d)
  <2>1. CASE d \in mem[w].rows
    BY <1>2, <2>1 DEF Leaves, Revisions, Upsert
  <2>2. CASE d \in RowOf(req[w].ns, req[w].inst) /\ d \notin devices'
    <3>1. Written(w) \in RowOf(d.ns, d.inst)'
      BY <1>2, <2>2 DEF Upsert, RowOf, Written
    <3> QED BY <3>1 DEF Leaves
  <2> QED BY <1>1, <1>2, <2>1, <2>2 DEF Upsert
<1>3. ASSUME NEW w \in Workers, RemoveRows(w) PROVE Leaves(d)
  BY <1>1, <1>3 DEF RemoveRows, Removed, Account, Leaves
<1>4. ASSUME NEW w \in Workers, PruneRevision(w), d \notin devices' PROVE Leaves(d)
  <2>1. PICK x \in mem[w].rows : d \in Pruned(x)
    BY <1>4 DEF PruneRevision
  <2>2. x \in Remembered /\ d \in Remembered /\ d.revision = x.revision
    BY <2>1 DEF Remembered, Pruned
  <2>3. d = x
    BY <2>2 DEF Revisions
  <2> QED BY <1>4, <2>1, <2>3 DEF PruneRevision, Leaves
<1>5. ASSUME NEW w \in Workers, Act(w), ~(Upsert(w) \/ RemoveRows(w) \/ PruneRevision(w))
      PROVE  devices' = devices
  BY <1>5, ArriveAlone
  DEF TypeInv, Act, Serve, Fail, Crash, LockBusy, Release, DeadlockVictim, AcquireInstall, AcquireQuota,
      ReleaseQuota, CreatePairing, ConsumePairing, RequireEnabledNamespace, ReadExisting, CountDevices,
      EvictRivals, FindCodes, DeleteCodes, DropIndex, Deliver
<1>6. CASE Ambient \/ UNCHANGED vars
  BY <1>1, <1>6 DEF Ambient, Environment, Lapse, ExpireCode, ExpireIndex, Disable, Enable, vars
<1> QED BY <1>1, <1>2, <1>3, <1>4, <1>5, <1>6, NextCases

\* An installation loses its row only to its owner's logout, to the new holder
\* of its destination, or to a failed delivery to the very revision it carries.
THEOREM RowsLeaveFor == Spec => DevicesLeaveFor
<1>1. Init => Revisions
  BY DEF Init, Revisions, Remembered, Saving, NoMemory
<1>2. TypeInv /\ Revisions /\ [Next]_vars =>
        [\A d \in devices : RowOf(d.ns, d.inst)' # {}
            \/ \E w \in Workers :
                  \/ /\ pc[w] = "rows" /\ req[w].ns = d.ns /\ req[w].owner = d.owner
                     /\ req[w].inst \in {d.inst, d.parent}
                  \/ pc[w] = "upsert" /\ req[w].dest = d.dest
                  \/ pc[w] = "prune" /\ d \in mem[w].rows]_vars
  BY LeavesFor DEF Leaves
<1> QED BY <1>1, <1>2, InitType, TypeStep, RevisionsStep, PTL DEF Spec, DevicesLeaveFor
=============================================================================
