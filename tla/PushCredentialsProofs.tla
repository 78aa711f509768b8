----------------------- MODULE PushCredentialsProofs -----------------------
(* Proofs about PushCredentials.                                           *)
EXTENDS PushCredentials, SumTheorems

-----------------------------------------------------------------------------
(* Types, and what requests name.                                          *)

\* The constants of both kinds are records of their kind.
LEMMA NothingType ==
    /\ NoRequest \in Request /\ NoRequest.kind = "none"
    /\ NoMemory \in Memory /\ NoMemory.live = FALSE
    /\ NoNote \in Note
    /\ \A r \in Relays \cup {None} : Granted(r) \in Memory
<1>1. NoRequest \in Request /\ NoRequest.kind = "none"
  BY DEF NoRequest, Call, Request
<1>2. NoMemory \in Memory /\ NoMemory.live = FALSE
  BY DEF NoMemory, Read, Memory
<1>3. NoNote \in Note
  BY DEF NoNote, Note
<1>4. \A r \in Relays \cup {None} : Granted(r) \in Memory
  BY DEF Granted, Read, Memory
<1> QED BY <1>1, <1>2, <1>3, <1>4

\* Rows of keys and instances are only ever added.
Grows ==
    /\ relays \subseteq relays'
    /\ \A k \in Keys : relayOf[k] \in relays => relayOf'[k] = relayOf[k]

\* A worker that does not move keeps what its request names.
LEMMA BystanderAddressed ==
    ASSUME TypeInv, Grows, NEW x \in Workers, AddressedAt(x), pc'[x] = pc[x], req'[x] = req[x]
    PROVE  AddressedAt(x)'
BY DEF TypeInv, TypeOK, Grows, AddressedAt, RotatingAt

\* A request that arrives.
LEMMA AcceptType ==
    ASSUME TypeInv, NEW w \in Workers, NEW r \in Request, NEW step \in {"claim", "find", "authenticate"},
           Accept(w, r, step),
           r.kind \in {"enroll", "rotate", "revoke"} => r.key \in Keys,
           r.kind = "rotate" => r.new \in Keys /\ step = "find",
           r.kind = "set" => r.ns \in Relays,
           step = "claim" => r.kind \in {"enroll", "set"},
           step = "find" => r.kind = "rotate",
           step = "authenticate" => r.kind = "revoke"
    PROVE  TypeInv'
<1>1. [seen |-> {r.ns \in enabled}, valid |-> Entitled(r), retry |-> Repeats(r)] \in Note
  BY DEF Note, Entitled, Repeats
<1>2. TypeOK'
  <2>1. obs' \in [Workers -> Note]
    BY <1>1 DEF TypeInv, TypeOK, Accept
  <2>2. pc' \in [Workers -> Steps] /\ req' \in [Workers -> Request]
    BY DEF TypeInv, TypeOK, Accept, Goto, Steps
  <2> QED BY <2>1, <2>2 DEF TypeInv, TypeOK, Accept, rows
<1>3. Grows /\ KeysHaveRelays'
  BY DEF TypeInv, Accept, rows, Grows, KeysHaveRelays
<1>4. \A x \in Workers : AddressedAt(x)'
  <2> TAKE x \in Workers
  <2>1. CASE x = w
    <3>1. pc'[w] = step /\ req'[w] = r
      BY DEF TypeInv, TypeOK, Accept, Goto
    <3> QED BY <2>1, <3>1 DEF AddressedAt, RotatingAt
  <2>2. CASE x # w
    BY <2>2, <1>3, BystanderAddressed DEF TypeInv, TypeOK, Accept, Goto
  <2> QED BY <2>1, <2>2
<1> QED BY <1>2, <1>3, <1>4 DEF TypeInv

\* A request that arrives keeps the types.
LEMMA ArriveType ==
    ASSUME TypeInv, NEW w \in Workers, Arrive(w)
    PROVE  TypeInv'
<1>1. ASSUME NEW k \in Keys, Enroll(w, k) PROVE TypeInv'
  <2> DEFINE r == Call("enroll", k, None, None, FALSE)
  <2>1. r \in Request /\ r.kind = "enroll" /\ r.key = k
    BY DEF Call, Request
  <2>2. Accept(w, r, "claim")
    BY <1>1 DEF Enroll
  <2> HIDE DEF r
  <2> QED BY <2>1, <2>2, AcceptType
<1>2. ASSUME NEW k \in Keys, Revoke(w, k) PROVE TypeInv'
  <2> DEFINE r == Call("revoke", k, None, None, FALSE)
  <2>1. r \in Request /\ r.kind = "revoke" /\ r.key = k
    BY DEF Call, Request
  <2>2. Accept(w, r, "authenticate")
    BY <1>2 DEF Revoke
  <2> HIDE DEF r
  <2> QED BY <2>1, <2>2, AcceptType
<1>3. ASSUME NEW old \in Keys, NEW new \in Keys, Rotate(w, old, new) PROVE TypeInv'
  <2> DEFINE r == Call("rotate", old, new, None, FALSE)
  <2>1. r \in Request /\ r.kind = "rotate" /\ r.key = old /\ r.new = new
    BY DEF Call, Request
  <2>2. Accept(w, r, "find")
    BY <1>3 DEF Rotate
  <2> HIDE DEF r
  <2> QED BY <2>1, <2>2, AcceptType
<1>4. ASSUME NEW ns \in Relays, NEW on \in BOOLEAN, SetEnabled(w, ns, on) PROVE TypeInv'
  <2> DEFINE r == Call("set", None, None, ns, on)
  <2>1. r \in Request /\ r.kind = "set" /\ r.ns = ns
    BY DEF Call, Request
  <2>2. Accept(w, r, "claim")
    BY <1>4 DEF SetEnabled
  <2> HIDE DEF r
  <2> QED BY <2>1, <2>2, AcceptType
<1> QED BY <1>1, <1>2, <1>3, <1>4 DEF Arrive

\* Leaving: the request is forgotten and the rows stay.
LEMMA ForgetType ==
    ASSUME TypeInv, NEW w \in Workers, Forget(w), UNCHANGED rows,
           lock' \in [LockKeys -> Workers \cup {None, Dead}]
    PROVE  TypeInv'
<1>1. TypeOK'
  BY NothingType DEF TypeInv, TypeOK, Forget, Goto, rows, Steps
<1>2. Grows /\ KeysHaveRelays'
  BY DEF TypeInv, rows, Grows, KeysHaveRelays
<1>3. \A x \in Workers : AddressedAt(x)'
  <2> TAKE x \in Workers
  <2>1. CASE x = w
    BY <2>1, NothingType DEF TypeInv, TypeOK, Forget, Goto, AddressedAt, RotatingAt
  <2>2. CASE x # w
    BY <2>2, <1>2, BystanderAddressed DEF TypeInv, TypeOK, Forget, Goto
  <2> QED BY <2>1, <2>2
<1> QED BY <1>1, <1>2, <1>3 DEF TypeInv

\* So does one that is answered,
LEMMA LeaveType ==
    ASSUME TypeInv, NEW w \in Workers, ClaimBusy(w) \/ Answer(w) \/ Fail(w) \/ Crash(w)
    PROVE  TypeInv'
<1>1. Forget(w) /\ UNCHANGED rows
  BY DEF ClaimBusy, Answer, Fail, Crash
<1>2. lock' \in [LockKeys -> Workers \cup {None, Dead}]
  BY DEF TypeInv, TypeOK, ClaimBusy, Answer, Fail, Crash, Unlocked
<1> QED BY <1>1, <1>2, ForgetType

\* A worker moves on: everything but the worker's own step is given.
LEMMA MoveType ==
    ASSUME TypeInv, NEW w \in Workers, TypeOK', Grows, KeysHaveRelays', AddressedAt(w)',
           \A x \in Workers \ {w} : pc'[x] = pc[x] /\ req'[x] = req[x]
    PROVE  TypeInv'
<1>1. \A x \in Workers : AddressedAt(x)'
  BY BystanderAddressed DEF TypeInv
<1> QED BY <1>1 DEF TypeInv

\* A step that leaves the rows and the requests alone.
LEMMA QuietType ==
    ASSUME TypeInv, NEW w \in Workers, UNCHANGED <<rows, req, obs>>, NEW step \in Steps, Goto(w, step),
           lock' \in [LockKeys -> Workers \cup {None, Dead}], mem' \in [Workers -> Memory],
           step \in {"answer"} \/ AddressedAt(w)'
    PROVE  TypeInv'
<1>1. TypeOK'
  BY DEF TypeInv, TypeOK, rows, Goto
<1>2. Grows /\ KeysHaveRelays'
  BY DEF TypeInv, rows, Grows, KeysHaveRelays
<1>3. \A x \in Workers \ {w} : pc'[x] = pc[x] /\ req'[x] = req[x]
  BY DEF TypeInv, TypeOK, Goto
<1>4. ASSUME step = "answer" PROVE AddressedAt(w)'
  BY <1>4 DEF TypeInv, TypeOK, Goto, rows, AddressedAt, RotatingAt
<1> QED BY <1>1, <1>2, <1>3, <1>4, MoveType

\* The claim of a rotation.
LEMMA LockType ==
    ASSUME TypeInv, NEW w \in Workers, Claim(w) \/ Prior(w)
    PROVE  TypeInv'
<1> USE DEF TypeInv, TypeOK
<1>1. CASE Claim(w)
  <2> DEFINE step == CASE req[w].kind = "enroll" -> "prior"
                       [] req[w].kind = "rotate" -> "refresh"
                       [] OTHER -> "read"
  <2>1. Goto(w, step) /\ step \in Steps /\ UNCHANGED <<rows, req, mem, obs>>
    BY <1>1 DEF Claim, Steps, RotatingAt
  <2>2. lock' \in [LockKeys -> Workers \cup {None, Dead}]
    BY <1>1 DEF Claim
  <2>3. AddressedAt(w)'
    BY <1>1, <2>1 DEF Claim, Goto, AddressedAt, RotatingAt, rows
  <2> HIDE DEF step
  <2> QED BY <2>1, <2>2, <2>3, QuietType
<1>2. CASE Prior(w)
  <2>1. UNCHANGED <<rows, lock, req, obs>>
    BY <1>2 DEF Prior
  <2>2. CASE Goto(w, "authenticate") /\ UNCHANGED mem
    <3>1. AddressedAt(w)'
      BY <1>2, <2>1, <2>2 DEF Prior, Goto, AddressedAt, RotatingAt, rows
    <3> QED BY <2>1, <2>2, <3>1, QuietType DEF Steps
  <2>3. CASE Goto(w, "insert") /\ UNCHANGED mem
    <3>1. AddressedAt(w)'
      BY <1>2, <2>1, <2>3 DEF Prior, Goto, AddressedAt, RotatingAt, rows
    <3> QED BY <2>1, <2>3, <3>1, QuietType DEF Steps
  <2>4. CASE Reply(w, NoMemory)
    BY <2>1, <2>4, NothingType, QuietType DEF Reply, Steps
  <2> QED BY <1>2, <2>2, <2>3, <2>4 DEF Prior
<1> QED BY <1>1, <1>2

\* and one whose key is looked up.
LEMMA AuthenticateType ==
    ASSUME TypeInv, NEW w \in Workers, Authenticate(w)
    PROVE  TypeInv'
<1> DEFINE r == relayOf[req[w].key]
<1> USE DEF TypeInv, TypeOK
<1>1. UNCHANGED <<rows, lock>> /\ pc[w] = "authenticate"
  BY DEF Authenticate
<1>2. req[w].key \in Keys /\ r \in Relays \cup {None}
  BY <1>1 DEF AddressedAt
<1>3. CASE Reply(w, NoMemory) /\ UNCHANGED <<req, obs>>
  BY <1>1, <1>3, NothingType, QuietType DEF Reply, Steps
<1>4. CASE Reply(w, Granted(r)) /\ UNCHANGED <<req, obs>>
  BY <1>1, <1>2, <1>4, NothingType, QuietType DEF Reply, Steps
<1>5. CASE Valid(req[w].key) /\ req[w].kind = "revoke"
  <2> DEFINE call == Call("revoke", req[w].key, None, r, FALSE)
  <2>1. r \in relays
    BY <1>2, <1>5 DEF Valid, KeysHaveRelays
  <2>2. call \in Request /\ call.kind = "revoke" /\ call.key = req[w].key /\ call.ns = r
    BY <1>2 DEF Call, Request
  <2>3. Goto(w, "read") /\ req' = [req EXCEPT ![w] = call] /\ UNCHANGED mem
        /\ obs' = [obs EXCEPT ![w].seen = {TRUE}]
    BY <1>5 DEF Authenticate
  <2> HIDE DEF call
  <2>4. TypeOK'
    <3>1. obs' \in [Workers -> Note]
      BY <2>3 DEF Note
    <3>2. pc' \in [Workers -> Steps] /\ req' \in [Workers -> Request]
      BY <2>2, <2>3 DEF Goto, Steps
    <3> QED BY <1>1, <2>3, <3>1, <3>2 DEF rows
  <2>5. Grows /\ KeysHaveRelays'
    BY <1>1 DEF rows, Grows, KeysHaveRelays
  <2>6. AddressedAt(w)'
    BY <1>1, <1>2, <2>1, <2>2, <2>3 DEF Goto, AddressedAt, RotatingAt
  <2>7. \A x \in Workers \ {w} : pc'[x] = pc[x] /\ req'[x] = req[x]
    BY <2>3 DEF Goto
  <2> QED BY <2>4, <2>5, <2>6, <2>7, MoveType
<1> QED BY <1>3, <1>4, <1>5 DEF Authenticate

\* The steps that write the rows note what the onlooker sees.
LEMMA WatchType ==
    ASSUME TypeInv, Watch
    PROVE  obs' \in [Workers -> Note]
<1>1. ASSUME NEW x \in Workers
      PROVE  [seen |-> obs[x].seen \cup {req[x].ns \in enabled'},
              valid |-> obs[x].valid \/ Entitled(req[x])',
              retry |-> obs[x].retry /\ Repeats(req[x])'] \in Note
  <2>1. obs[x].seen \subseteq BOOLEAN
    BY DEF TypeInv, TypeOK, Note
  <2>2. (req[x].ns \in enabled') \in BOOLEAN
    OBVIOUS
  <2> QED BY <2>1, <2>2 DEF Note
<1> QED BY <1>1 DEF Watch

\* The insert of an enrolment.
LEMMA InsertType ==
    ASSUME TypeInv, NEW w \in Workers, Insert(w)
    PROVE  TypeInv'
<1> USE DEF TypeInv, TypeOK
<1>1. pc[w] = "insert" /\ req[w].key \in Keys
  BY DEF Insert, AddressedAt
<1>2. CASE Reply(w, NoMemory) /\ UNCHANGED <<rows, lock, req, obs>>
  BY <1>2, NothingType, QuietType DEF Reply, Steps
<1>3. CASE KeyFree(req[w].key)
  <2>1. PICK r \in Relays \ relays :
           /\ relays' = relays \cup {r}
           /\ enabled' = enabled \cup {r}
           /\ relayOf' = [relayOf EXCEPT ![req[w].key] = r]
           /\ Reply(w, Granted(r))
    BY <1>3 DEF Insert
  <2>2. active' = active \cup {req[w].key} /\ UNCHANGED <<replacement, lock, req>> /\ Watch
    BY <1>3 DEF Insert
  <2>3. TypeOK'
    <3>1. mem' \in [Workers -> Memory] /\ pc' \in [Workers -> Steps]
      BY <2>1, NothingType DEF Reply, Goto, Steps
    <3> QED BY <1>1, <2>1, <2>2, <3>1, WatchType
  <2>4. Grows /\ KeysHaveRelays'
    BY <1>1, <1>3, <2>1, <2>2, NamesAssumption DEF Grows, KeysHaveRelays, KeyFree
  <2>5. AddressedAt(w)'
    BY <1>1, <2>1, <2>2 DEF Reply, Goto, AddressedAt, RotatingAt
  <2>6. \A x \in Workers \ {w} : pc'[x] = pc[x] /\ req'[x] = req[x]
    BY <2>1, <2>2 DEF Reply, Goto
  <2> QED BY <2>3, <2>4, <2>5, <2>6, MoveType
<1> QED BY <1>2, <1>3 DEF Insert

\* The checks of a rotation.
LEMMA RotateType ==
    ASSUME TypeInv, NEW w \in Workers, Find(w) \/ Refresh(w) \/ CheckRelay(w) \/ CheckReplacement(w)
    PROVE  TypeInv'
<1> USE DEF TypeInv, TypeOK
<1>1. req[w].key \in Keys /\ req[w].new \in Keys /\ req[w].kind = "rotate"
  BY DEF Find, Refresh, CheckRelay, CheckReplacement, AddressedAt, RotatingAt
<1>2. OldRow(w) \in Memory
  BY <1>1 DEF OldRow, Read, Memory
<1>3. CASE Reply(w, NoMemory) /\ UNCHANGED <<rows, lock, req, obs>>
  BY <1>3, NothingType, QuietType DEF Reply, Steps
<1>4. CASE Find(w) /\ relayOf[req[w].key] # None
  <2> DEFINE call == Call("rotate", req[w].key, req[w].new, relayOf[req[w].key], FALSE)
  <2>1. relayOf[req[w].key] \in relays
    BY <1>1, <1>4 DEF KeysHaveRelays
  <2>2. call \in Request /\ call.kind = "rotate" /\ call.key = req[w].key /\ call.new = req[w].new
        /\ call.ns = relayOf[req[w].key]
    BY <1>1, <2>1 DEF Call, Request
  <2>3. Goto(w, "claim") /\ req' = [req EXCEPT ![w] = call] /\ mem' = [mem EXCEPT ![w] = OldRow(w)]
        /\ UNCHANGED <<rows, lock, obs>>
    BY <1>4 DEF Find
  <2> HIDE DEF call
  <2>4. TypeOK'
    BY <1>2, <2>2, <2>3 DEF Goto, Steps, rows
  <2>5. Grows /\ KeysHaveRelays'
    BY <2>3 DEF rows, Grows, KeysHaveRelays
  <2>6. AddressedAt(w)'
    BY <1>1, <2>1, <2>2, <2>3 DEF Goto, AddressedAt, RotatingAt, rows
  <2>7. \A x \in Workers \ {w} : pc'[x] = pc[x] /\ req'[x] = req[x]
    BY <2>3 DEF Goto
  <2> QED BY <2>4, <2>5, <2>6, <2>7, MoveType
<1>5. CASE Refresh(w)
  <2>1. AddressedAt(w)'
    BY <1>5 DEF Refresh, Goto, AddressedAt, RotatingAt, rows
  <2>2. mem' \in [Workers -> Memory] /\ Goto(w, "relay") /\ UNCHANGED <<rows, lock, req, obs>>
    BY <1>2, <1>5 DEF Refresh, Refreshed
  <2> QED BY <2>1, <2>2, QuietType DEF Steps, RotatingAt
<1>6. CASE CheckRelay(w) /\ req[w].ns \in enabled
  <2>1. CASE Goto(w, "replacement") /\ UNCHANGED mem
    <3>1. AddressedAt(w)'
      BY <1>6, <2>1 DEF CheckRelay, Goto, AddressedAt, RotatingAt, rows
    <3> QED BY <1>6, <2>1, <3>1, QuietType DEF CheckRelay, Steps, RotatingAt
  <2> QED BY <1>6, <2>1, <1>3 DEF CheckRelay
<1>7. CASE CheckReplacement(w)
  <2>1. UNCHANGED <<rows, lock, req, obs>> /\ pc[w] = "replacement"
    BY <1>7 DEF CheckReplacement
  <2>2. CASE Reply(w, Granted(req[w].ns))
    <3>1. Granted(req[w].ns) \in Memory
      BY NothingType DEF Request
    <3> QED BY <2>1, <2>2, <3>1, QuietType DEF Reply, Steps
  <2>3. CASE Goto(w, "rotate") /\ UNCHANGED mem
    <3>1. AddressedAt(w)'
      BY <2>1, <2>3 DEF Goto, AddressedAt, RotatingAt, rows
    <3> QED BY <2>1, <2>3, <3>1, QuietType DEF Steps, RotatingAt
  <2> QED BY <1>7, <1>3, <2>1, <2>2, <2>3 DEF CheckReplacement
<1> QED BY <1>3, <1>4, <1>5, <1>6, <1>7 DEF Find, CheckRelay

\* The commit of a rotation.
LEMMA CommitType ==
    ASSUME TypeInv, NEW w \in Workers, CommitRotation(w)
    PROVE  TypeInv'
<1> USE DEF TypeInv, TypeOK
<1>1. /\ pc[w] = "rotate" /\ req[w].kind = "rotate"
      /\ req[w].key \in Keys /\ req[w].new \in Keys /\ req[w].ns \in relays
  BY DEF CommitRotation, AddressedAt, RotatingAt
<1>2. CASE Reply(w, NoMemory) /\ UNCHANGED <<rows, lock, req, obs>>
  BY <1>2, NothingType, QuietType DEF Reply, Steps
<1>3. CASE KeyFree(req[w].new)
  <2>1. /\ relayOf' = [relayOf EXCEPT ![req[w].new] = req[w].ns]
        /\ active' = (active \ {req[w].key}) \cup {req[w].new}
        /\ replacement' = [replacement EXCEPT ![req[w].key] = req[w].new]
        /\ Reply(w, Granted(req[w].ns))
        /\ UNCHANGED <<relays, enabled, lock, req>>
        /\ Watch
    BY <1>3 DEF CommitRotation, Named, Replaced
  <2>2. TypeOK'
    <3>1. mem' \in [Workers -> Memory] /\ pc' \in [Workers -> Steps]
      BY <1>1, <2>1, NothingType DEF Reply, Goto, Steps
    <3> QED BY <1>1, <2>1, <3>1, WatchType
  <2>3. Grows /\ KeysHaveRelays'
    BY <1>1, <1>3, <2>1, NamesAssumption DEF Grows, KeysHaveRelays, KeyFree
  <2>4. AddressedAt(w)'
    BY <1>1, <2>1 DEF Reply, Goto, AddressedAt, RotatingAt
  <2>5. \A x \in Workers \ {w} : pc'[x] = pc[x] /\ req'[x] = req[x]
    BY <2>1 DEF Reply, Goto
  <2> QED BY <2>2, <2>3, <2>4, <2>5, MoveType
<1> QED BY <1>2, <1>3 DEF CommitRotation

\* A switch.
LEMMA SwitchType ==
    ASSUME TypeInv, NEW w \in Workers, ReadRelay(w) \/ Switch(w)
    PROVE  TypeInv'
<1> USE DEF TypeInv, TypeOK
<1>1. req[w].ns \in Relays \cup {None} /\ req[w].want \in BOOLEAN
  BY DEF Request
<1>2. CASE ReadRelay(w)
  <2>1. UNCHANGED <<rows, lock, req, obs>> /\ pc[w] = "read"
    BY <1>2 DEF ReadRelay
  <2>2. CASE Reply(w, NoMemory)
    BY <2>1, <2>2, NothingType, QuietType DEF Reply, Steps
  <2>3. CASE req[w].ns \in relays /\ Goto(w, "switch")
             /\ mem' = [mem EXCEPT ![w] = Read(FALSE, None, req[w].ns \in enabled, FALSE, None)]
    <3>1. AddressedAt(w)'
      BY <2>1, <2>3 DEF Goto, AddressedAt, RotatingAt, rows
    <3>2. mem' \in [Workers -> Memory]
      BY <2>3 DEF Read, Memory
    <3> QED BY <2>1, <2>3, <3>1, <3>2, QuietType DEF Steps
  <2> QED BY <1>2, <2>2, <2>3 DEF ReadRelay, Known
<1>3. CASE Switch(w)
  <2>1. pc[w] = "switch" /\ req[w].ns \in relays
    BY <1>3 DEF Switch, AddressedAt
  <2>2. /\ enabled' \subseteq relays
        /\ UNCHANGED <<relayOf, active, replacement, relays, lock, req>>
        /\ Reply(w, Granted(req[w].ns)) /\ Watch
    BY <1>3, <2>1 DEF Switch, Switched
  <2>3. TypeOK'
    <3>1. mem' \in [Workers -> Memory] /\ pc' \in [Workers -> Steps]
      BY <1>1, <2>2, NothingType DEF Reply, Goto, Steps
    <3> QED BY <2>2, <3>1, WatchType
  <2>4. Grows /\ KeysHaveRelays'
    BY <2>2 DEF Grows, KeysHaveRelays
  <2>5. AddressedAt(w)'
    BY <2>1, <2>2 DEF Reply, Goto, AddressedAt, RotatingAt
  <2>6. \A x \in Workers \ {w} : pc'[x] = pc[x] /\ req'[x] = req[x]
    BY <2>2 DEF Reply, Goto
  <2> QED BY <2>3, <2>4, <2>5, <2>6, MoveType
<1> QED BY <1>2, <1>3

\* Every step keeps the types.
LEMMA TypeStep == TypeInv /\ [Next]_vars => TypeInv'
<1> SUFFICES ASSUME TypeInv, [Next]_vars PROVE TypeInv'
  OBVIOUS
<1>1. ASSUME NEW w \in Workers, Arrive(w) \/ Serve(w) \/ Fail(w) \/ Crash(w) PROVE TypeInv'
  BY <1>1, ArriveType, LeaveType, LockType, AuthenticateType, InsertType, RotateType, CommitType,
     SwitchType DEF Serve
<1>2. ASSUME NEW k \in LockKeys, Lapse(k) PROVE TypeInv'
  BY <1>2 DEF Lapse, TypeInv, TypeOK, rows, KeysHaveRelays, AddressedAt
<1>3. CASE UNCHANGED vars
  BY <1>3 DEF vars, TypeInv, TypeOK, rows, KeysHaveRelays, AddressedAt
<1> QED BY <1>1, <1>2, <1>3 DEF Next

\* They hold at first.
LEMMA TypeInit == Init => TypeInv
<1> SUFFICES ASSUME Init PROVE TypeInv
  OBVIOUS
<1>1. TypeOK
  BY NothingType DEF Init, TypeOK, Steps
<1>2. KeysHaveRelays
  BY DEF Init, KeysHaveRelays
<1>3. \A w \in Workers : AddressedAt(w)
  BY NothingType DEF Init, AddressedAt, RotatingAt
<1> QED BY <1>1, <1>2, <1>3 DEF TypeInv

\* Every variable keeps its type, and requests name what they work on.
THEOREM CredentialTypes == Spec => []TypeOK
<1>1. TypeInv => TypeOK
  BY DEF TypeInv
<1> QED BY <1>1, TypeInit, TypeStep, PTL DEF Spec

-----------------------------------------------------------------------------
(* Retired keys.                                                           *)

\* Rows of keys are added with a free key and never change their instance;
\* only the key of a new row becomes active.
LEMMA RowStep ==
    ASSUME TypeInv, [Next]_vars
    PROVE  \/ UNCHANGED <<relayOf, active, relays>>
           \/ \E w \in Workers, r \in Relays \ relays :
                 /\ Insert(w) /\ KeyFree(req[w].key) /\ req[w].key \in Keys
                 /\ relays' = relays \cup {r}
                 /\ relayOf' = [relayOf EXCEPT ![req[w].key] = r]
                 /\ active' = active \cup {req[w].key}
                 /\ enabled' = enabled \cup {r}
           \/ \E w \in Workers :
                 /\ CommitRotation(w) /\ KeyFree(req[w].new) /\ req[w].new \in Keys
                 /\ relayOf' = [relayOf EXCEPT ![req[w].new] = req[w].ns]
                 /\ active' = (active \ {req[w].key}) \cup {req[w].new}
                 /\ UNCHANGED <<relays, enabled>>
<1>1. ASSUME NEW w \in Workers, Arrive(w) \/ Fail(w) \/ Crash(w) PROVE UNCHANGED <<relayOf, active, relays>>
  BY <1>1 DEF Arrive, Enroll, Revoke, Rotate, SetEnabled, Accept, Fail, Crash, rows
<1>2. ASSUME NEW w \in Workers, Insert(w)
      PROVE  \/ UNCHANGED <<relayOf, active, relays>>
             \/ /\ KeyFree(req[w].key) /\ req[w].key \in Keys
                /\ \E r \in Relays \ relays :
                     /\ relays' = relays \cup {r}
                     /\ relayOf' = [relayOf EXCEPT ![req[w].key] = r]
                     /\ active' = active \cup {req[w].key}
                     /\ enabled' = enabled \cup {r}
  <2>1. req[w].key \in Keys
    BY <1>2 DEF Insert, TypeInv, AddressedAt
  <2> QED BY <1>2, <2>1 DEF Insert, rows
<1>3. ASSUME NEW w \in Workers, CommitRotation(w)
      PROVE  \/ UNCHANGED <<relayOf, active, relays>>
             \/ /\ KeyFree(req[w].new) /\ req[w].new \in Keys
                /\ relayOf' = [relayOf EXCEPT ![req[w].new] = req[w].ns]
                /\ active' = (active \ {req[w].key}) \cup {req[w].new}
                /\ UNCHANGED <<relays, enabled>>
  <2>1. req[w].new \in Keys
    BY <1>3 DEF CommitRotation, TypeInv, AddressedAt, RotatingAt
  <2> QED BY <1>3, <2>1 DEF CommitRotation, Replaced, rows
<1>4. ASSUME NEW w \in Workers, Serve(w), ~Insert(w), ~CommitRotation(w)
      PROVE  UNCHANGED <<relayOf, active, relays>>
  BY <1>4 DEF Serve, Claim, ClaimBusy, Answer, Prior, Authenticate, Find, Refresh, CheckRelay,
              CheckReplacement, ReadRelay, Switch, rows
<1>5. ASSUME NEW k \in LockKeys, Lapse(k) PROVE UNCHANGED <<relayOf, active, relays>>
  BY <1>5 DEF Lapse, rows
<1>6. CASE UNCHANGED vars
  BY <1>6 DEF vars, rows
<1> QED BY <1>1, <1>2, <1>3, <1>4, <1>5, <1>6 DEF Next

\* A retired key never works again, whether or not leases lapse.
THEOREM RetiredKeys == Spec => RetiredForGood
<1>1. TypeInv /\ [Next]_vars =>
      [\A k \in Keys : relayOf[k] # None /\ k \notin active =>
            k \notin active' /\ relayOf'[k] = relayOf[k]]_vars
  <2> SUFFICES ASSUME TypeInv, [Next]_vars, NEW k \in Keys, relayOf[k] # None, k \notin active
               PROVE  k \notin active' /\ relayOf'[k] = relayOf[k]
    OBVIOUS
  <2> QED BY RowStep DEF KeyFree, TypeInv, TypeOK
<1> QED BY <1>1, TypeInit, TypeStep, PTL DEF Spec, RetiredForGood

-----------------------------------------------------------------------------
(* One current key.  From here on no section outlives its lease.           *)

\* A rotation keeps its lock: others only take free locks and give back their own.
LEMMA LockStep ==
    ASSUME LeaseMayLapse = FALSE, TypeInv, RotationLocked, [Next]_vars
    PROVE  RotationLocked'
<1> USE NamesAssumption DEF TypeInv, TypeOK, RotationLocked
<1>1. ASSUME NEW w \in Workers, Arrive(w) PROVE RotationLocked'
  <2>1. pc'[w] \notin RotatingAt /\ UNCHANGED lock
    BY ZenonT(30), <1>1 DEF Arrive, Enroll, Revoke, Rotate, SetEnabled, Accept, Goto, RotatingAt
  <2>2. \A x \in Workers \ {w} : pc'[x] = pc[x] /\ req'[x] = req[x]
    BY ZenonT(30), <1>1 DEF Arrive, Enroll, Revoke, Rotate, SetEnabled, Accept, Goto
  <2> QED BY <2>1, <2>2
<1>2. ASSUME NEW w \in Workers, Claim(w) PROVE RotationLocked'
  <2>1. LockOf(w) \in LockKeys
    BY <1>2 DEF Claim, LockOf, LockKeys, AddressedAt
  <2> QED BY <1>2, <2>1 DEF Claim, Goto, LockOf, AddressedAt, RotatingAt
<1>3. ASSUME NEW w \in Workers, ClaimBusy(w) \/ Answer(w) \/ Fail(w) \/ Crash(w) PROVE RotationLocked'
  <2>1. Forget(w)
    BY <1>3 DEF ClaimBusy, Answer, Fail, Crash
  <2>2. \A k \in LockKeys : lock[k] # w => lock'[k] = lock[k]
    BY <1>3 DEF ClaimBusy, Answer, Fail, Crash, Unlocked
  <2>3. \A x \in Workers : pc[x] \in RotatingAt => req[x].ns \in LockKeys
    BY DEF AddressedAt, LockKeys
  <2> QED BY <2>1, <2>2, <2>3 DEF Forget, Goto, RotatingAt
<1>4. ASSUME NEW w \in Workers, Prior(w) \/ Authenticate(w) \/ Insert(w) \/ Find(w) \/ Refresh(w)
                                \/ CheckRelay(w) \/ CheckReplacement(w) \/ CommitRotation(w)
                                \/ ReadRelay(w) \/ Switch(w)
      PROVE  RotationLocked'
  <2>1. lock' = lock /\ \A x \in Workers \ {w} : pc'[x] = pc[x] /\ req'[x] = req[x]
    BY ZenonT(30), <1>4 DEF Prior, Authenticate, Insert, Find, Refresh, CheckRelay, CheckReplacement,
                CommitRotation, ReadRelay, Switch, Reply, Goto
  <2>2. pc'[w] \in RotatingAt => pc[w] \in RotatingAt /\ req'[w] = req[w]
    BY ZenonT(30), <1>4 DEF Prior, Authenticate, Insert, Find, Refresh, CheckRelay, CheckReplacement,
                CommitRotation, ReadRelay, Switch, Reply, Goto, RotatingAt
  <2> QED BY <2>1, <2>2
<1>5. ASSUME NEW k \in LockKeys, Lapse(k) PROVE RotationLocked'
  BY <1>5 DEF Lapse
<1>6. CASE UNCHANGED vars
  BY <1>6 DEF vars
<1> QED BY <1>1, <1>2, <1>3, <1>4, <1>5, <1>6 DEF Next, Serve

\* Two rotations past their claim never have the same old key.
LEMMA OldKeysDiffer ==
    ASSUME CredInv, NEW w \in Workers, NEW x \in Workers \ {w}, pc[w] \in RotatingAt, pc[x] \in RotatingAt
    PROVE  req[w].key # req[x].key
BY DEF CredInv, TypeInv, RotationLocked, AddressedAt, RotatingAt

\* What a rotation has checked under its lock stays so.
LEMMA CurrentStep ==
    ASSUME CredInv, [Next]_vars
    PROVE  StillCurrent'
<1> USE DEF CredInv, TypeInv, TypeOK, StillCurrent
<1>1. ASSUME NEW w \in Workers, CommitRotation(w) PROVE StillCurrent'
  <2>1. pc[w] \in RotatingAt /\ pc'[w] = "answer"
        /\ \A x \in Workers \ {w} : pc'[x] = pc[x] /\ mem'[x] = mem[x] /\ req'[x] = req[x]
    BY <1>1 DEF CommitRotation, Reply, Goto, RotatingAt
  <2>2. \A k \in active \ active' : k = req[w].key
    BY <1>1 DEF CommitRotation, Replaced, rows
  <2>3. \A x \in Workers \ {w} : pc[x] \in RotatingAt => req[x].key # req[w].key
    BY <2>1, OldKeysDiffer
  <2> QED BY <2>1, <2>2, <2>3 DEF RotatingAt
<1>2. ASSUME NEW w \in Workers, Arrive(w) \/ Claim(w) \/ ClaimBusy(w) \/ Answer(w) \/ Fail(w) \/ Crash(w)
      PROVE  StillCurrent'
  <2>1. /\ \A x \in Workers \ {w} : pc'[x] = pc[x] /\ mem'[x] = mem[x] /\ req'[x] = req[x]
        /\ pc'[w] \notin {"relay", "replacement", "rotate"}
    BY ZenonT(30), <1>2 DEF Arrive, Enroll, Revoke, Rotate, SetEnabled, Accept, Claim, ClaimBusy, Answer, Fail,
                Crash, Forget, Goto
  <2>2. active' = active
    BY <1>2 DEF Arrive, Enroll, Revoke, Rotate, SetEnabled, Accept, Claim, ClaimBusy, Answer, Fail,
                Crash, rows
  <2> QED BY <2>1, <2>2
<1>3. ASSUME NEW w \in Workers, Prior(w) \/ Authenticate(w) \/ Insert(w) \/ Find(w) \/ ReadRelay(w) \/ Switch(w)
      PROVE  StillCurrent'
  <2>1. /\ \A x \in Workers \ {w} : pc'[x] = pc[x] /\ mem'[x] = mem[x] /\ req'[x] = req[x]
        /\ pc'[w] \notin {"relay", "replacement", "rotate"}
    BY <1>3 DEF Prior, Authenticate, Insert, Find, ReadRelay, Switch, Reply, Goto
  <2>2. active \subseteq active'
    BY <1>3 DEF Prior, Authenticate, Insert, Find, ReadRelay, Switch, rows
  <2> QED BY <2>1, <2>2
<1>4. ASSUME NEW w \in Workers, Refresh(w) \/ CheckRelay(w) \/ CheckReplacement(w) PROVE StillCurrent'
  <2>1. /\ \A x \in Workers \ {w} : pc'[x] = pc[x] /\ mem'[x] = mem[x]
        /\ req' = req /\ active' = active
    BY <1>4 DEF Refresh, CheckRelay, CheckReplacement, Reply, Goto, rows
  <2>2. CASE Refresh(w)
    <3>1. pc'[w] = "relay" /\ mem'[w] = OldRow(w)
      BY <2>2 DEF Refresh, Refreshed, Goto
    <3>2. OldRow(w).live => req[w].key \in active
      BY DEF OldRow, Read
    <3> HIDE DEF OldRow
    <3> QED BY <2>1, <3>1, <3>2
  <2>3. CASE CheckRelay(w)
    BY <2>1, <2>3 DEF CheckRelay, Reply, Goto
  <2>4. CASE CheckReplacement(w)
    BY <2>1, <2>4 DEF CheckReplacement, Reply, Goto
  <2> QED BY <1>4, <2>2, <2>3, <2>4
<1>5. ASSUME NEW k \in LockKeys, Lapse(k) PROVE StillCurrent'
  BY <1>5 DEF Lapse, rows
<1>6. CASE UNCHANGED vars
  BY <1>6 DEF vars, rows
<1> QED BY <1>1, <1>2, <1>3, <1>4, <1>5, <1>6 DEF Next, Serve

\* The set of keys that work for instance r.
KeysOf(r) == {j \in active : relayOf[j] = r}

\* A new instance has its first key, and no other instance is touched.
LEMMA FoundKeys ==
    ASSUME CredInv, NEW k \in Keys, KeyFree(k), NEW r \in Relays \ relays,
           relayOf' = [relayOf EXCEPT ![k] = r], active' = active \cup {k}
    PROVE  /\ KeysOf(r)' = {k}
           /\ \A q \in relays : KeysOf(q)' = KeysOf(q)
BY NamesAssumption DEF CredInv, TypeInv, TypeOK, KeysHaveRelays, KeysOf, KeyFree

\* A rotation replaces the key of its instance, and no other instance is touched.
LEMMA ReplacedKeys ==
    ASSUME CredInv, NEW w \in Workers, pc[w] = "rotate", KeyFree(req[w].new), req[w].new \in Keys,
           NEW r, r = req[w].ns, relayOf' = [relayOf EXCEPT ![req[w].new] = r],
           active' = (active \ {req[w].key}) \cup {req[w].new}
    PROVE  /\ r \in relays
           /\ KeysOf(r)' = {req[w].new}
           /\ \A q \in relays \ {r} : KeysOf(q)' = KeysOf(q)
<1> DEFINE old == req[w].key
<1>1. r \in relays /\ relayOf[old] = r /\ old \in active
  BY DEF CredInv, TypeInv, AddressedAt, RotatingAt, StillCurrent
<1>2. \A j \in active : relayOf[j] = r => j = old
  BY <1>1 DEF CredInv, SoleKey
<1>3. req[w].new \notin active
  BY NamesAssumption DEF CredInv, TypeInv, TypeOK, KeysHaveRelays, KeyFree
<1>4. KeysOf(r)' = {req[w].new}
  <2>1. relayOf'[req[w].new] = r /\ req[w].new \in active'
    BY DEF CredInv, TypeInv, TypeOK
  <2>2. \A j \in active' : j # req[w].new => j \in active /\ j # old /\ relayOf'[j] = relayOf[j]
    BY DEF CredInv, TypeInv, TypeOK
  <2> QED BY <1>2, <2>1, <2>2 DEF KeysOf
<1>5. ASSUME NEW q \in relays \ {r} PROVE KeysOf(q)' = KeysOf(q)
  BY <1>1, <1>3 DEF KeysOf, CredInv, TypeInv, TypeOK
<1> QED BY <1>1, <1>4, <1>5

\* An instance keeps exactly one key in force.
LEMMA SoleStep ==
    ASSUME CredInv, [Next]_vars
    PROVE  SoleKey'
<1> SoleKey <=> \A r \in relays : \E k \in active : KeysOf(r) = {k}
  BY DEF SoleKey, KeysOf
<1>1. SUFFICES \A r \in relays' : \E k \in active' : KeysOf(r)' = {k}
  BY DEF SoleKey, KeysOf
<1>2. \A r \in relays : \E k \in active : KeysOf(r) = {k}
  BY DEF CredInv, SoleKey, KeysOf
<1>3. CASE UNCHANGED <<relayOf, active, relays>>
  BY <1>2, <1>3 DEF KeysOf
<1>4. ASSUME NEW w \in Workers, NEW r \in Relays \ relays, KeyFree(req[w].key), req[w].key \in Keys,
             relays' = relays \cup {r}, relayOf' = [relayOf EXCEPT ![req[w].key] = r],
             active' = active \cup {req[w].key}
      PROVE  \A q \in relays' : \E k \in active' : KeysOf(q)' = {k}
  <2>1. KeysOf(r)' = {req[w].key} /\ \A q \in relays : KeysOf(q)' = KeysOf(q)
    BY <1>4, FoundKeys
  <2> QED BY <1>2, <1>4, <2>1
<1>5. ASSUME NEW w \in Workers, CommitRotation(w), KeyFree(req[w].new), req[w].new \in Keys,
             relayOf' = [relayOf EXCEPT ![req[w].new] = req[w].ns],
             active' = (active \ {req[w].key}) \cup {req[w].new}, relays' = relays
      PROVE  \A q \in relays' : \E k \in active' : KeysOf(q)' = {k}
  <2> DEFINE new == req[w].new
  <2>0. PICK r : r = req[w].ns
    OBVIOUS
  <2>1. /\ KeysOf(r)' = {new}
        /\ \A q \in relays \ {r} : KeysOf(q)' = KeysOf(q)
    BY <1>5, <2>0, ReplacedKeys DEF CommitRotation
  <2>2. \A q \in relays : \E k \in active' : KeysOf(q)' = {k}
    <3> TAKE q \in relays
    <3>1. CASE q = r
      BY <1>5, <2>1, <3>1
    <3>2. CASE q # r
      <4>1. PICK k \in active : KeysOf(q) = {k}
        BY <1>2
      <4>2. k \in KeysOf(q)'
        BY <2>1, <3>2, <4>1
      <4>3. k \in active'
        BY <4>2 DEF KeysOf
      <4> QED BY <2>1, <3>2, <4>1, <4>3
    <3> QED BY <3>1, <3>2
  <2> QED BY <1>5, <2>2
<1>6. TypeInv
  BY DEF CredInv
<1> QED BY <1>3, <1>4, <1>5, <1>6, RowStep

\* No key exists at first.
LEMMA CredInit == Init => CredInv
BY TypeInit DEF Init, CredInv, RotationLocked, StillCurrent, SoleKey, RotatingAt

\* The invariant of the keys is inductive.
LEMMA CredStep ==
    ASSUME LeaseMayLapse = FALSE
    PROVE  CredInv /\ [Next]_vars => CredInv'
BY TypeStep, LockStep, CurrentStep, SoleStep DEF CredInv

\* An instance has exactly one key that works.
THEOREM OneCurrent ==
    ASSUME LeaseMayLapse = FALSE
    PROVE  Spec => []OneCurrentKey
<1>1. CredInv => OneCurrentKey
  BY FS_Singleton DEF CredInv, SoleKey, OneCurrentKey
<1>2. CredInv /\ [Next]_vars => CredInv'
  BY CredStep
<1> QED BY <1>1, <1>2, CredInit, PTL DEF Spec

-----------------------------------------------------------------------------
(* PushCredentials implements PushInstances.                               *)

\* The current key is the sole one.
LEMMA CurrentIs ==
    ASSUME NEW A, NEW f, NEW r, NEW k \in A, {j \in A : f[j] = r} = {k}
    PROVE  (CHOOSE j \in A : f[j] = r) = k
OBVIOUS

\* To update one instance's current key is to agree with the new map everywhere.
LEMMA PointwiseUpdate ==
    ASSUME NEW r, NEW k, CurrentKey'[r] = k, \A q \in Relays \ {r} : CurrentKey'[q] = CurrentKey[q]
    PROVE  CurrentKey' = [CurrentKey EXCEPT ![r] = k]
<1>1. CurrentKey = [q \in Relays |-> CurrentKey[q]]
  BY DEF CurrentKey
<1>2. CurrentKey' = [q \in Relays |-> CurrentKey'[q]]
  BY DEF CurrentKey
<1> HIDE DEF CurrentKey
<1> QED BY <1>1, <1>2

\* No promise has been made at first.
LEMMA PromiseInit == Init => Promise!Init
BY DEF Init, Promise!Init, CurrentKey

\* The switch of an instance changes at its creation and by Switch only.
LEMMA SwitchStep ==
    ASSUME TypeInv, [Next]_vars, UNCHANGED <<relayOf, active, relays>>, enabled' # enabled
    PROVE  \E r \in relays, on \in BOOLEAN :
               enabled' = IF on THEN enabled \cup {r} ELSE enabled \ {r}
<1>1. ASSUME NEW w \in Workers, Arrive(w) \/ Fail(w) \/ Crash(w) PROVE FALSE
  BY <1>1 DEF Arrive, Enroll, Revoke, Rotate, SetEnabled, Accept, Fail, Crash, rows
<1>2. ASSUME NEW w \in Workers, Insert(w) PROVE FALSE
  BY <1>2 DEF Insert, rows
<1>3. ASSUME NEW w \in Workers, Switch(w)
      PROVE  \E r \in relays, on \in BOOLEAN :
                 enabled' = IF on THEN enabled \cup {r} ELSE enabled \ {r}
  <2>1. req[w].ns \in relays /\ req[w].want \in BOOLEAN
    BY <1>3 DEF Switch, TypeInv, TypeOK, AddressedAt, Request
  <2>2. enabled' = IF req[w].want THEN enabled \cup {req[w].ns} ELSE enabled \ {req[w].ns}
    BY <1>3 DEF Switch, Switched
  <2> QED BY <2>1, <2>2
<1>4. ASSUME NEW w \in Workers, Serve(w), ~Insert(w), ~Switch(w) PROVE FALSE
  BY <1>4 DEF Serve, Claim, ClaimBusy, Answer, Prior, Authenticate, Find, Refresh, CheckRelay,
              CheckReplacement, CommitRotation, ReadRelay, rows
<1>5. ASSUME NEW k \in LockKeys, Lapse(k) PROVE FALSE
  BY <1>5 DEF Lapse, rows
<1>6. CASE UNCHANGED vars
  BY <1>6 DEF vars, rows
<1> QED BY <1>1, <1>2, <1>3, <1>4, <1>5, <1>6 DEF Next

\* What each step is to an onlooker who sees only the current keys.
LEMMA PromiseStep ==
    ASSUME CredInv, CredInv', [Next]_vars
    PROVE  [Promise!Next]_(Promise!vars)
<1> SUFFICES Promise!Next \/ UNCHANGED Promise!vars
  OBVIOUS
<1>1. \A r \in relays : \A k : KeysOf(r) = {k} => CurrentKey[r] = k
  BY DEF KeysOf, CurrentKey, CredInv, TypeInv, TypeOK
<1>2. \A r \in relays : \E k \in Keys : KeysOf(r) = {k} /\ CurrentKey[r] = k
  <2> TAKE r \in relays
  <2>1. PICK k \in active : KeysOf(r) = {k}
    BY DEF CredInv, SoleKey, KeysOf
  <2>2. k \in Keys
    BY DEF CredInv, TypeInv, TypeOK
  <2> QED BY <1>1, <2>1, <2>2
<1>3. \A r \in relays' : \A k : KeysOf(r)' = {k} => CurrentKey'[r] = k
  BY DEF KeysOf, CurrentKey, CredInv, TypeInv, TypeOK
<1>4. CASE UNCHANGED <<relayOf, active, relays>>
  <2>1. CurrentKey' = CurrentKey
    BY <1>4 DEF CurrentKey
  <2>2. CASE enabled' = enabled
    BY <1>4, <2>1, <2>2 DEF Promise!vars
  <2>3. CASE enabled' # enabled
    <3>1. PICK r \in relays, on \in BOOLEAN : enabled' = IF on THEN enabled \cup {r} ELSE enabled \ {r}
      BY <1>4, <2>3, SwitchStep DEF CredInv
    <3>2. r \in Relays /\ CurrentKey[r] \in Keys
      BY <1>2 DEF CredInv, TypeInv, TypeOK
    <3>3. Promise!Switch(r, on)
      BY <1>4, <2>1, <3>1, <3>2 DEF Promise!Switch
    <3> QED BY <3>2, <3>3 DEF Promise!Next
  <2> QED BY <2>2, <2>3
<1>5. ASSUME NEW w \in Workers, NEW r \in Relays \ relays, KeyFree(req[w].key), req[w].key \in Keys,
             relays' = relays \cup {r}, relayOf' = [relayOf EXCEPT ![req[w].key] = r],
             active' = active \cup {req[w].key}, enabled' = enabled \cup {r}
      PROVE  Promise!Next
  <2>1. KeysOf(r)' = {req[w].key} /\ \A q \in relays : KeysOf(q)' = KeysOf(q)
    BY <1>5, FoundKeys
  <2>2. CurrentKey'[r] = req[w].key /\ \A q \in relays : CurrentKey'[q] = CurrentKey[q]
    BY <1>2, <1>3, <1>5, <2>1
  <2>3. CurrentKey[r] = None /\ \A q \in Relays \ relays' : CurrentKey'[q] = CurrentKey[q]
    BY <1>5 DEF CurrentKey
  <2>4. CurrentKey' = [CurrentKey EXCEPT ![r] = req[w].key]
    BY <1>5, <2>2, <2>3, PointwiseUpdate
  <2>5. Promise!Found(r, req[w].key)
    BY <1>5, <2>3, <2>4 DEF Promise!Found, Promise!Issue, KeyFree
  <2> QED BY <1>5, <2>5 DEF Promise!Next
<1>6. ASSUME NEW w \in Workers, CommitRotation(w), KeyFree(req[w].new), req[w].new \in Keys,
             relayOf' = [relayOf EXCEPT ![req[w].new] = req[w].ns],
             active' = (active \ {req[w].key}) \cup {req[w].new}, UNCHANGED <<relays, enabled>>
      PROVE  Promise!Next
  <2>0. PICK r : r = req[w].ns
    OBVIOUS
  <2>1. /\ r \in relays /\ KeysOf(r)' = {req[w].new}
        /\ \A q \in relays \ {r} : KeysOf(q)' = KeysOf(q)
    BY <1>6, <2>0, ReplacedKeys DEF CommitRotation
  <2>2. CurrentKey'[r] = req[w].new /\ \A q \in relays \ {r} : CurrentKey'[q] = CurrentKey[q]
    BY <1>2, <1>3, <1>6, <2>1
  <2>3. \A q \in Relays \ relays : CurrentKey'[q] = CurrentKey[q]
    BY <1>6 DEF CurrentKey
  <2>4. CurrentKey' = [CurrentKey EXCEPT ![r] = req[w].new]
    BY <1>6, <2>1, <2>2, <2>3, PointwiseUpdate
  <2>5. CurrentKey[r] \in Keys
    BY <1>2, <2>1
  <2>6. Promise!Replace(r, req[w].new)
    BY <1>6, <2>0, <2>4, <2>5 DEF Promise!Replace, Promise!Issue, KeyFree
  <2> QED BY <1>6, <2>1, <2>6 DEF Promise!Next, CredInv, TypeInv, TypeOK
<1>7. TypeInv
  BY DEF CredInv
<1> QED BY <1>4, <1>5, <1>6, <1>7, RowStep

\* Enrolment, rotation and the switches do what PushInstances promises.
THEOREM PromiseKept ==
    ASSUME LeaseMayLapse = FALSE
    PROVE  Spec => KeepsPromise
<1>1. CredInv /\ [Next]_vars => CredInv'
  BY CredStep
<1>2. CredInv /\ CredInv' /\ [Next]_vars => [Promise!Next]_(Promise!vars)
  BY PromiseStep
<1> QED BY <1>1, <1>2, CredInit, PromiseInit, PTL DEF Spec, KeepsPromise, Promise!Spec

-----------------------------------------------------------------------------
(* One worker moves at a time, and whoever writes rows lets the onlooker   *)
(* look at them.                                                           *)

Bystanders(w) ==
    \A x \in Workers \ {w} : pc'[x] = pc[x] /\ req'[x] = req[x] /\ mem'[x] = mem[x]

\* Nothing a worker could note changes.
Unseen(x) == UNCHANGED rows /\ req'[x] = req[x] /\ obs'[x] = obs[x]
\* Rows change, and every worker notes what it sees.
Looked == Watch /\ req' = req

\* A request that arrives or leaves is the worker's own.
LEMMA OwnRequest ==
    ASSUME TypeInv, NEW w \in Workers, Arrive(w) \/ ClaimBusy(w) \/ Answer(w) \/ Fail(w) \/ Crash(w)
    PROVE  Bystanders(w) /\ \A x \in Workers \ {w} : Unseen(x)
<1> USE DEF TypeInv, TypeOK, Bystanders, Unseen
<1>1. CASE Arrive(w)
  <2>1. PICK r, step : Accept(w, r, step)
    BY <1>1 DEF Arrive, Enroll, Revoke, Rotate, SetEnabled
  <2> QED BY <2>1 DEF Accept, Goto
<1>2. CASE ClaimBusy(w) \/ Answer(w) \/ Fail(w) \/ Crash(w)
  <2>1. Forget(w) /\ UNCHANGED rows
    BY <1>2 DEF ClaimBusy, Answer, Fail, Crash
  <2> QED BY <2>1 DEF Forget, Goto
<1> QED BY <1>1, <1>2

\* The steps of a request.
LEMMA OwnStep ==
    ASSUME TypeInv, NEW w \in Workers, Serve(w)
    PROVE  Bystanders(w) /\ (Looked \/ \A x \in Workers \ {w} : Unseen(x))
<1> USE DEF TypeInv, TypeOK, Bystanders
<1>1. CASE ClaimBusy(w) \/ Answer(w)
  BY <1>1, OwnRequest
<1>2. CASE Claim(w) \/ Prior(w) \/ Refresh(w) \/ CheckRelay(w) \/ CheckReplacement(w) \/ ReadRelay(w)
  BY <1>2 DEF Claim, Prior, Refresh, CheckRelay, CheckReplacement, ReadRelay, Reply, Goto, Unseen
<1>3. CASE Authenticate(w) \/ Find(w)
  BY <1>3 DEF Authenticate, Find, Reply, Goto, Unseen
<1>4. CASE Insert(w) \/ CommitRotation(w) \/ Switch(w)
  BY <1>4 DEF Insert, CommitRotation, Switch, Reply, Goto, Unseen, Looked
<1> QED BY <1>1, <1>2, <1>3, <1>4 DEF Serve

-----------------------------------------------------------------------------
(* The onlooker's notes are about the request and about the rows as they   *)
(* are now.                                                                *)

NotedAt(w) ==
    /\ Entitled(req[w]) => obs[w].valid
    /\ obs[w].retry => Repeats(req[w])
    /\ req[w].kind \in {"revoke", "set"} => (req[w].ns \in enabled) \in obs[w].seen

Noted == \A w \in Workers : NotedAt(w)

\* Nothing changes for a worker, or it looks.
LEMMA KeepsNotes ==
    ASSUME TypeInv, NEW x \in Workers, NotedAt(x), Unseen(x) \/ Looked
    PROVE  NotedAt(x)'
<1>1. CASE Unseen(x)
  BY <1>1 DEF Unseen, rows, NotedAt, Entitled, Repeats
<1>2. CASE Looked
  <2> DEFINE note == [seen |-> obs[x].seen \cup {req[x].ns \in enabled'},
                      valid |-> obs[x].valid \/ Entitled(req[x])',
                      retry |-> obs[x].retry /\ Repeats(req[x])']
  <2>1. obs'[x] = note /\ req'[x] = req[x]
    BY <1>2 DEF Looked, Watch
  <2>2. /\ note.seen = obs[x].seen \cup {req[x].ns \in enabled'}
        /\ note.valid = (obs[x].valid \/ Entitled(req[x])')
        /\ note.retry = (obs[x].retry /\ Repeats(req[x])')
    OBVIOUS
  <2> HIDE DEF note
  <2>3. Entitled(req[x])' => obs'[x].valid
    BY <2>1, <2>2, Zenon
  <2>4. obs'[x].retry => Repeats(req[x])'
    BY <2>1, <2>2, Zenon
  <2>5. (req'[x].ns \in enabled') \in obs'[x].seen
    BY <2>1, <2>2
  <2> QED BY <2>3, <2>4, <2>5 DEF NotedAt
<1> QED BY <1>1, <1>2

\* A request that arrives is looked at.
LEMMA ArrivalNoted ==
    ASSUME TypeInv, NEW w \in Workers, Arrive(w)
    PROVE  NotedAt(w)'
<1>1. PICK r, step : Accept(w, r, step)
  BY DEF Arrive, Enroll, Revoke, Rotate, SetEnabled
<1> DEFINE note == [seen |-> {r.ns \in enabled}, valid |-> Entitled(r), retry |-> Repeats(r)]
<1>2. req'[w] = r /\ obs'[w] = note /\ UNCHANGED rows
  BY <1>1 DEF Accept, TypeInv, TypeOK
<1>3. note.seen = {r.ns \in enabled} /\ note.valid = Entitled(r) /\ note.retry = Repeats(r)
  OBVIOUS
<1> HIDE DEF note
<1>4. Entitled(req[w])' = Entitled(r) /\ Repeats(req[w])' = Repeats(r)
  BY <1>2 DEF Entitled, Repeats, rows
<1>5. (req'[w].ns \in enabled') \in obs'[w].seen
  <2>1. (r.ns \in enabled') \in note.seen
    BY <1>2, <1>3 DEF rows
  <2> QED BY <1>2, <2>1
<1>6. Entitled(req[w])' => obs'[w].valid
  BY <1>2, <1>3, <1>4, Zenon
<1>7. obs'[w].retry => Repeats(req[w])'
  BY <1>2, <1>3, <1>4, Zenon
<1> QED BY <1>5, <1>6, <1>7 DEF NotedAt

\* A request that leaves is forgotten, with what was noted about it.
LEMMA LeaverNoted ==
    ASSUME TypeInv, NEW w \in Workers, Forget(w), UNCHANGED rows
    PROVE  NotedAt(w)'
<1>1. req'[w] = NoRequest /\ obs'[w] = NoNote
  BY DEF Forget, TypeInv, TypeOK
<1>2. NoRequest.kind = "none" /\ NoRequest.key = None /\ NoRequest.new = None /\ NoNote.retry = FALSE
  BY DEF NoRequest, Call, NoNote
<1>3. ~Entitled(NoRequest)'
  BY <1>2, NamesAssumption DEF Entitled, TypeInv, TypeOK, rows
<1> QED BY <1>1, <1>2, <1>3 DEF NotedAt

\* The only other requests that change are those of Find and Authenticate,
\* which fill in the instance.
LEMMA FillNoted ==
    ASSUME TypeInv, Noted, NEW w \in Workers, Find(w) \/ Authenticate(w)
    PROVE  NotedAt(w)'
<1> USE DEF TypeInv, TypeOK, Noted
<1>1. UNCHANGED rows
  BY DEF Find, Authenticate
<1>2. CASE Unseen(w)
  BY <1>2, KeepsNotes
<1>3. CASE Find(w) /\ ~Unseen(w)
  <2> DEFINE call == Call("rotate", req[w].key, req[w].new, relayOf[req[w].key], FALSE)
  <2>1. req'[w] = call /\ obs'[w] = obs[w]
    BY <1>1, <1>3 DEF Find, Unseen
  <2>2. call.kind = "rotate" /\ call.key = req[w].key /\ call.new = req[w].new
    BY DEF Call
  <2>3. req[w].kind = "rotate"
    BY <1>3 DEF Find, AddressedAt
  <2> HIDE DEF call
  <2>4. req'[w].kind = "rotate" /\ req'[w].key = req[w].key /\ req'[w].new = req[w].new
    BY <2>1, <2>2
  <2>5. (Entitled(req[w])' <=> Entitled(req[w])) /\ (Repeats(req[w])' <=> Repeats(req[w]))
    BY <1>1, <2>3, <2>4 DEF Entitled, Repeats, rows
  <2> QED BY <2>1, <2>4, <2>5 DEF NotedAt
<1>4. CASE Authenticate(w) /\ ~Unseen(w)
  <2> DEFINE call == Call("revoke", req[w].key, None, relayOf[req[w].key], FALSE)
  <2>1. /\ req'[w] = call /\ obs'[w] = [obs[w] EXCEPT !.seen = {TRUE}]
        /\ Valid(req[w].key) /\ req[w].kind = "revoke"
    BY <1>1, <1>4 DEF Authenticate, Unseen
  <2>2. call.kind = "revoke" /\ call.key = req[w].key /\ call.new = None /\ call.ns = relayOf[req[w].key]
    BY DEF Call
  <2>3. obs[w].retry => Repeats(req[w])
    BY DEF NotedAt
  <2>4. Entitled(req[w]) => obs[w].valid
    BY DEF NotedAt
  <2>5. Entitled(req[w]) /\ ~Repeats(req[w])
    BY <2>1 DEF Entitled, Repeats, Valid
  <2>6. obs'[w].valid = obs[w].valid /\ obs'[w].retry = obs[w].retry /\ obs'[w].seen = {TRUE}
    BY <2>1 DEF Note
  <2> HIDE DEF call
  <2>7. (req'[w].ns \in enabled') = TRUE
    BY <1>1, <2>1, <2>2 DEF Valid, rows
  <2>8. (req'[w].ns \in enabled') \in obs'[w].seen
    BY <2>6, <2>7
  <2> QED BY <2>3, <2>4, <2>5, <2>6, <2>8 DEF NotedAt
<1> QED BY <1>2, <1>3, <1>4

\* Notes stay about the request and the rows.
LEMMA NotedStep ==
    ASSUME TypeInv, Noted, [Next]_vars
    PROVE  Noted'
<1>1. ASSUME NEW w \in Workers, Arrive(w) \/ ClaimBusy(w) \/ Answer(w) \/ Fail(w) \/ Crash(w) PROVE Noted'
  <2>1. NotedAt(w)'
    BY <1>1, ArrivalNoted, LeaverNoted DEF ClaimBusy, Answer, Fail, Crash
  <2>2. \A x \in Workers \ {w} : NotedAt(x)'
    BY <1>1, OwnRequest, KeepsNotes DEF Noted
  <2> QED BY <2>1, <2>2 DEF Noted
<1>2. ASSUME NEW w \in Workers, Find(w) \/ Authenticate(w) PROVE Noted'
  <2>1. NotedAt(w)'
    BY <1>2, FillNoted
  <2>2. \A x \in Workers \ {w} : NotedAt(x)'
    BY <1>2, OwnStep, KeepsNotes DEF Serve, Noted
  <2> QED BY <2>1, <2>2 DEF Noted
<1>3. ASSUME NEW w \in Workers, Claim(w) \/ Prior(w) \/ Insert(w) \/ Refresh(w) \/ CheckRelay(w)
                                \/ CheckReplacement(w) \/ CommitRotation(w) \/ ReadRelay(w) \/ Switch(w)
      PROVE  Noted'
  <2>1. Unseen(w) \/ Looked
    BY <1>3 DEF Claim, Prior, Insert, Refresh, CheckRelay, CheckReplacement, CommitRotation, ReadRelay,
                Switch, Unseen, Looked
  <2>2. \A x \in Workers \ {w} : Unseen(x) \/ Looked
    BY <1>3, OwnStep DEF Serve
  <2> QED BY <2>1, <2>2, KeepsNotes DEF Noted
<1>4. ASSUME (\E k \in LockKeys : Lapse(k)) \/ UNCHANGED vars PROVE Noted'
  BY <1>4, KeepsNotes DEF Lapse, vars, Unseen, Noted
<1> QED BY <1>1, <1>2, <1>3, <1>4 DEF Next, Serve

\* Nothing is noted at first.
LEMMA NotedInit == Init => Noted
<1> SUFFICES ASSUME Init, NEW w \in Workers PROVE NotedAt(w)
  BY DEF Noted
<1>1. NoRequest.kind = "none" /\ NoNote.retry = FALSE
  BY DEF NoRequest, Call, NoNote
<1> QED BY <1>1 DEF Init, NotedAt, Entitled

\* What an onlooker noted as seen stays noted, and a repetition that has
\* ceased to be one never becomes one again.
LEMMA NotesStay ==
    ASSUME TypeInv, NEW x \in Workers, Unseen(x) \/ Looked
    PROVE  /\ obs[x].seen \subseteq obs'[x].seen
           /\ obs[x].valid => obs'[x].valid
           /\ obs'[x].retry => obs[x].retry
<1>1. CASE Unseen(x)
  BY <1>1 DEF Unseen
<1>2. CASE Looked
  <2> DEFINE note == [seen |-> obs[x].seen \cup {req[x].ns \in enabled'},
                      valid |-> obs[x].valid \/ Entitled(req[x])',
                      retry |-> obs[x].retry /\ Repeats(req[x])']
  <2>1. obs'[x] = note
    BY <1>2 DEF Looked, Watch
  <2>2. /\ note.seen = obs[x].seen \cup {req[x].ns \in enabled'}
        /\ note.valid = (obs[x].valid \/ Entitled(req[x])')
        /\ note.retry = (obs[x].retry /\ Repeats(req[x])')
    OBVIOUS
  <2> HIDE DEF note
  <2>3. obs[x].seen \subseteq obs'[x].seen
    BY <2>1, <2>2
  <2>4. (obs[x].valid => obs'[x].valid) /\ (obs'[x].retry => obs[x].retry)
    BY <2>1, <2>2, Zenon
  <2> QED BY <2>3, <2>4
<1> QED BY <1>1, <1>2

-----------------------------------------------------------------------------
(* Switches take effect, whether or not leases lapse.                      *)

SwitchingAt(w) ==
    /\ mem[w].granted => pc[w] = "answer"
    /\ pc[w] \in {"read", "switch"} => req[w].kind \in {"revoke", "set"}
    /\ pc[w] = "switch" => mem[w].on \in obs[w].seen
    /\ pc[w] = "answer" /\ req[w].kind \in {"revoke", "set"} /\ mem[w].granted =>
           req[w].want \in obs[w].seen

SwitchInv == TypeInv /\ Noted /\ \A w \in Workers : SwitchingAt(w)

\* The worker goes elsewhere, without an answer or with a refusal.
LEMMA Elsewhere ==
    ASSUME NEW w, ~mem'[w].granted, pc'[w] \notin {"read", "switch"}
    PROVE  SwitchingAt(w)'
BY DEF SwitchingAt

\* A switch goes on while another worker moves.
LEMMA SwitchingBystander ==
    ASSUME SwitchInv, NEW w \in Workers, Bystanders(w), NEW x \in Workers \ {w}, Unseen(x) \/ Looked
    PROVE  SwitchingAt(x)'
<1>1. obs[x].seen \subseteq obs'[x].seen
  BY NotesStay DEF SwitchInv
<1> QED BY <1>1 DEF SwitchInv, SwitchingAt, Bystanders

\* What is remembered and answered when nothing is granted.
LEMMA Ungranted ==
    /\ ~NoMemory.granted
    /\ \A live, heir, on : ~Read(live, heir, on, FALSE, None).granted
    /\ \A live, heir, on : Read(live, heir, on, FALSE, None).on = on
    /\ \A r : Granted(r).granted
BY DEF NoMemory, Read, Granted

\* A switch moves on.
LEMMA SwitchingOwn ==
    ASSUME SwitchInv, NEW w \in Workers, Arrive(w) \/ Serve(w) \/ Fail(w) \/ Crash(w)
    PROVE  SwitchingAt(w)'
<1> USE DEF SwitchInv, TypeInv, TypeOK
<1>1. mem[w].granted => pc[w] = "answer"
  BY DEF SwitchingAt
<1>2. CASE Arrive(w)
  <2>1. \E r : Accept(w, r, "claim") \/ Accept(w, r, "find") \/ Accept(w, r, "authenticate")
    BY <1>2 DEF Arrive, Enroll, Revoke, Rotate, SetEnabled
  <2>2. pc[w] = "idle" /\ pc'[w] \in {"claim", "find", "authenticate"} /\ mem' = mem
    BY <2>1 DEF Accept, Goto
  <2> QED BY <1>1, <2>2, Elsewhere
<1>3. CASE ClaimBusy(w) \/ Answer(w) \/ Fail(w) \/ Crash(w)
  <2>1. Forget(w)
    BY <1>3 DEF ClaimBusy, Answer, Fail, Crash
  <2>2. mem'[w] = NoMemory /\ pc'[w] = "idle"
    BY <2>1 DEF Forget, Goto
  <2> QED BY <2>2, Ungranted, Elsewhere
<1>4. CASE Claim(w)
  BY <1>1, <1>4 DEF Claim, Goto, AddressedAt, SwitchingAt
<1>5. CASE Prior(w) \/ Find(w) \/ Refresh(w) \/ CheckRelay(w)
  <2>1. pc[w] # "answer" /\ pc'[w] \notin {"read", "switch"}
    BY <1>5 DEF Prior, Find, Refresh, CheckRelay, Reply, Goto
  <2>2. mem'[w] \in {mem[w], NoMemory, OldRow(w)}
    BY <1>5 DEF Prior, Find, Refresh, Refreshed, CheckRelay, Reply
  <2>3. ~OldRow(w).granted
    BY DEF OldRow, Read
  <2> QED BY <1>1, <2>1, <2>2, <2>3, Ungranted, Elsewhere
<1>6. CASE Authenticate(w) /\ req'[w].kind = "revoke" /\ pc'[w] = "read"
  <2>1. mem' = mem /\ pc[w] = "authenticate"
    BY <1>6 DEF Authenticate, Reply, Goto
  <2> QED BY <1>1, <1>6, <2>1 DEF SwitchingAt
<1>7. CASE Authenticate(w) /\ pc'[w] = "answer"
  BY <1>7, Ungranted DEF Authenticate, Reply, Goto, SwitchingAt
<1>8. CASE Insert(w) \/ CheckReplacement(w) \/ CommitRotation(w)
  <2>1. req'[w].kind \in {"enroll", "rotate"} /\ req'[w] = req[w]
    BY <1>8 DEF Insert, CheckReplacement, CommitRotation, AddressedAt, RotatingAt
  <2>2. pc'[w] = "answer" \/ (pc'[w] = "rotate" /\ mem'[w] = mem[w] /\ pc[w] = "replacement")
    BY <1>8 DEF Insert, CheckReplacement, CommitRotation, Reply, Goto
  <2> QED BY <1>1, <2>1, <2>2 DEF SwitchingAt
<1>9. CASE ReadRelay(w)
  <2>1. req'[w] = req[w] /\ obs'[w] = obs[w] /\ req[w].kind \in {"revoke", "set"}
    BY <1>9 DEF ReadRelay, SwitchingAt
  <2>2. (req[w].ns \in enabled) \in obs[w].seen
    BY <2>1 DEF Noted, NotedAt
  <2>3. CASE Reply(w, NoMemory)
    BY <2>3, Ungranted, Elsewhere DEF Reply, Goto
  <2>4. CASE Goto(w, "switch") /\ mem' = [mem EXCEPT ![w] = Read(FALSE, None, req[w].ns \in enabled, FALSE, None)]
    <3> DEFINE m == Read(FALSE, None, req[w].ns \in enabled, FALSE, None)
    <3>0. mem'[w] = m /\ pc'[w] = "switch"
      BY <2>4 DEF Goto
    <3>1. mem'[w].on = (req[w].ns \in enabled) /\ ~mem'[w].granted /\ pc'[w] = "switch"
      <4>1. m.on = (req[w].ns \in enabled) /\ ~m.granted
        BY DEF Read
      <4> HIDE DEF m
      <4> QED BY <3>0, <4>1, Zenon
    <3>2. mem'[w].on \in obs'[w].seen
      BY <2>1, <2>2, <3>1
    <3> QED BY <2>1, <3>1, <3>2 DEF SwitchingAt
  <2> QED BY <1>9, <2>3, <2>4 DEF ReadRelay
<1>10. CASE Switch(w)
  <2>1. /\ pc'[w] = "answer" /\ req' = req /\ Watch /\ enabled' = Switched(w)
        /\ mem[w].on \in obs[w].seen
    BY <1>10 DEF Switch, SwitchingAt, Reply, Goto
  <2>2. req[w].want \in BOOLEAN /\ mem[w].on \in BOOLEAN
    BY DEF Request, Memory
  <2>3. CASE mem[w].on = req[w].want
    <3>1. obs[w].seen \subseteq obs'[w].seen
      BY <2>1, NotesStay DEF Looked
    <3> QED BY <2>1, <2>3, <3>1 DEF SwitchingAt
  <2>4. CASE mem[w].on # req[w].want
    <3>1. (req[w].ns \in enabled') = req[w].want
      BY <2>1, <2>2, <2>4 DEF Switched
    <3>2. (req[w].ns \in enabled') \in obs'[w].seen
      BY <2>1 DEF Watch
    <3>3. req'[w].want \in obs'[w].seen
      BY <2>1, <3>1, <3>2
    <3> QED BY <2>1, <3>3 DEF SwitchingAt
  <2> QED BY <2>3, <2>4
<1>11. Authenticate(w) => pc'[w] = "answer" \/ (req'[w].kind = "revoke" /\ pc'[w] = "read")
  <2> SUFFICES ASSUME Authenticate(w), pc'[w] # "answer" PROVE req'[w].kind = "revoke" /\ pc'[w] = "read"
    OBVIOUS
  <2>1. /\ pc'[w] = "read"
        /\ req' = [req EXCEPT ![w] = Call("revoke", req[w].key, None, relayOf[req[w].key], FALSE)]
    BY DEF Authenticate, Reply, Goto
  <2>2. Call("revoke", req[w].key, None, relayOf[req[w].key], FALSE).kind = "revoke"
    BY DEF Call
  <2> QED BY <2>1, <2>2
<1> QED BY <1>2, <1>3, <1>4, <1>5, <1>6, <1>7, <1>8, <1>9, <1>10, <1>11 DEF Serve

\* The invariant of the switches is inductive.
LEMMA SwitchInvStep == SwitchInv /\ [Next]_vars => SwitchInv'
<1> SUFFICES ASSUME SwitchInv, [Next]_vars PROVE SwitchInv'
  OBVIOUS
<1>1. TypeInv' /\ Noted'
  BY TypeStep, NotedStep DEF SwitchInv
<1>2. ASSUME NEW w \in Workers, Arrive(w) \/ Serve(w) \/ Fail(w) \/ Crash(w)
      PROVE  \A x \in Workers : SwitchingAt(x)'
  <2>1. Bystanders(w) /\ \A x \in Workers \ {w} : Unseen(x) \/ Looked
    BY <1>2, OwnRequest, OwnStep DEF SwitchInv
  <2>2. \A x \in Workers \ {w} : SwitchingAt(x)'
    BY <2>1, SwitchingBystander
  <2> QED BY <1>2, <2>2, SwitchingOwn
<1>3. ASSUME (\E k \in LockKeys : Lapse(k)) \/ UNCHANGED vars PROVE \A x \in Workers : SwitchingAt(x)'
  BY <1>3 DEF Lapse, vars, SwitchInv, SwitchingAt
<1> QED BY <1>1, <1>2, <1>3 DEF Next, SwitchInv

\* Nobody switches at first.
LEMMA SwitchInvInit == Init => SwitchInv
<1> SUFFICES ASSUME Init, NEW w \in Workers PROVE SwitchingAt(w)
  BY TypeInit, NotedInit DEF SwitchInv
<1> QED BY Ungranted DEF Init, SwitchingAt

\* A success means that the instance was in the state asked for at some
\* moment of the request, even when another request switched it meanwhile
\* and the session wrote nothing.
THEOREM SwitchesTakeEffect == Spec => []SwitchTakesEffect
<1>1. SwitchInv => SwitchTakesEffect
  BY DEF SwitchInv, SwitchingAt, SwitchTakesEffect
<1> QED BY <1>1, SwitchInvInit, SwitchInvStep, PTL DEF Spec

-----------------------------------------------------------------------------
(* The rows of the keys.  A retired key names a later key of its instance. *)

LinkedAt(k) ==
    replacement[k] # None =>
        /\ k \notin active /\ relayOf[k] # None
        /\ relayOf[replacement[k]] = relayOf[k]

Linked == \A k \in Keys : LinkedAt(k)

SameKeys == UNCHANGED <<relayOf, active, relays, replacement>>

\* The worker has inserted the first key of instance r.
Inserted(w, r) ==
    /\ Insert(w) /\ KeyFree(req[w].key) /\ req[w].key \in Keys
    /\ r \in Relays \ relays
    /\ relays' = relays \cup {r}
    /\ relayOf' = [relayOf EXCEPT ![req[w].key] = r]
    /\ active' = active \cup {req[w].key}
    /\ enabled' = enabled \cup {r}
    /\ replacement' = replacement

\* The worker has replaced the key of its instance.
Rotated(w) ==
    /\ CommitRotation(w) /\ KeyFree(req[w].new) /\ req[w].key \in Keys /\ req[w].new \in Keys
    /\ pc[w] = "rotate"
    /\ relayOf' = [relayOf EXCEPT ![req[w].new] = req[w].ns]
    /\ active' = (active \ {req[w].key}) \cup {req[w].new}
    /\ replacement' = [replacement EXCEPT ![req[w].key] = req[w].new]
    /\ UNCHANGED <<relays, enabled>>

\* What a step of one worker does to the keys.
LEMMA KeysStep ==
    ASSUME TypeInv, NEW w \in Workers, Arrive(w) \/ Serve(w) \/ Fail(w) \/ Crash(w)
    PROVE  SameKeys \/ (\E r : Inserted(w, r)) \/ Rotated(w)
<1>1. CASE Arrive(w) \/ Fail(w) \/ Crash(w)
  BY <1>1 DEF Arrive, Enroll, Revoke, Rotate, SetEnabled, Accept, Fail, Crash, rows, SameKeys
<1>2. CASE Insert(w)
  <2>1. req[w].key \in Keys
    BY <1>2 DEF Insert, TypeInv, AddressedAt
  <2> QED BY <1>2, <2>1 DEF Insert, rows, SameKeys, Inserted
<1>3. CASE CommitRotation(w)
  <2>1. req[w].key \in Keys /\ req[w].new \in Keys
    BY <1>3 DEF CommitRotation, TypeInv, AddressedAt, RotatingAt
  <2> QED BY <1>3, <2>1 DEF CommitRotation, Replaced, Named, rows, SameKeys, Rotated
<1>4. CASE Serve(w) /\ ~Insert(w) /\ ~CommitRotation(w)
  BY <1>4 DEF Serve, Claim, ClaimBusy, Answer, Prior, Authenticate, Find, Refresh, CheckRelay,
              CheckReplacement, ReadRelay, Switch, rows, SameKeys
<1> QED BY <1>1, <1>2, <1>3, <1>4

\* A key that was replaced names its successor.
LEMMA LinkedStep ==
    ASSUME TypeInv, Linked, [Next]_vars
    PROVE  Linked'
<1> USE DEF TypeInv, TypeOK, KeysHaveRelays
<1>1. CASE SameKeys
  BY <1>1 DEF SameKeys, Linked, LinkedAt
<1>2. ASSUME NEW w \in Workers, NEW r, Inserted(w, r), NEW k \in Keys PROVE LinkedAt(k)'
  <2>1. LinkedAt(k)
    BY DEF Linked
  <2> QED BY <1>2, <2>1, NamesAssumption DEF Inserted, KeyFree, LinkedAt
<1>3. ASSUME NEW w \in Workers, Rotated(w), NEW k \in Keys PROVE LinkedAt(k)'
  <2>1. relayOf[req[w].key] = req[w].ns /\ req[w].ns \in relays
    BY <1>3 DEF Rotated, AddressedAt, RotatingAt
  <2>2. LinkedAt(k)
    BY DEF Linked
  <2>3. req[w].ns # None /\ relayOf[req[w].new] = None /\ req[w].key # req[w].new
    BY <1>3, <2>1, NamesAssumption DEF Rotated, KeyFree
  <2>4. CASE k = req[w].key
    BY <1>3, <2>1, <2>3, <2>4 DEF Rotated, LinkedAt
  <2>5. CASE k # req[w].key
    BY <1>3, <2>2, <2>3, <2>5 DEF Rotated, LinkedAt
  <2> QED BY <2>4, <2>5
<1>4. ASSUME (\E k \in LockKeys : Lapse(k)) \/ UNCHANGED vars PROVE SameKeys
  BY <1>4 DEF Lapse, vars, rows, SameKeys
<1> QED BY <1>1, <1>2, <1>3, <1>4, KeysStep DEF Next, Linked

\* No key is replaced at first.
LEMMA LinkedInit == Init => Linked
BY DEF Init, Linked, LinkedAt

-----------------------------------------------------------------------------
(* From here on no section outlives its lease.  Who rotates the key of an  *)
(* instance, or has just rotated it, is alone with it.                     *)

Holding(w) ==
    /\ req[w].kind = "rotate"
    /\ pc[w] \in RotatingAt \/ (pc[w] = "answer" /\ mem[w].granted)

HeldAt(w) ==
    Holding(w) =>
        /\ lock[req[w].ns] = w /\ req[w].ns \in relays
        /\ relayOf[req[w].key] = req[w].ns

KeptInv == CredInv /\ SwitchInv /\ Linked /\ \A w \in Workers : HeldAt(w)

\* Another worker neither takes the lock nor touches the keys.
LEMMA HolderAlone ==
    ASSUME KeptInv, NEW w \in Workers, Arrive(w) \/ Serve(w) \/ Fail(w) \/ Crash(w),
           NEW x \in Workers \ {w}, Holding(x), NEW ns, ns = req[x].ns, NEW key, key = req[x].key
    PROVE  /\ lock'[ns] = x /\ ns \in relays'
           /\ relayOf'[key] = ns
           /\ replacement'[key] = replacement[key]
           /\ key \in active' <=> key \in active
           /\ KeysOf(ns)' = KeysOf(ns)
<1> USE DEF CredInv, TypeInv, TypeOK
<1>0. CredInv /\ TypeInv
  BY DEF KeptInv
<1>1. lock[ns] = x /\ ns \in relays /\ relayOf[key] = ns /\ ns \in LockKeys /\ ns # None
  BY NamesAssumption DEF KeptInv, HeldAt, LockKeys
<1>2. key \in Keys
  BY <1>0 DEF Holding, AddressedAt
<1>3. lock'[ns] = x
  <2>1. CASE Claim(w)
    BY <1>0, <1>1, <2>1, NamesAssumption DEF Claim
  <2>2. CASE Answer(w) \/ Fail(w) \/ Crash(w)
    BY <1>0, <1>1, <2>2 DEF Answer, Fail, Crash, Unlocked
  <2>3. CASE ~Claim(w) /\ ~Answer(w) /\ ~Fail(w) /\ ~Crash(w)
    <3>1. lock' = lock
      BY <2>3 DEF Arrive, Enroll, Revoke, Rotate, SetEnabled, Accept, Serve, ClaimBusy, Prior, Authenticate,
                  Insert, Find, Refresh, CheckRelay, CheckReplacement, CommitRotation, ReadRelay, Switch
    <3> QED BY <1>1, <3>1
  <2> QED BY <2>1, <2>2, <2>3
<1>4. CASE SameKeys
  BY <1>1, <1>3, <1>4 DEF SameKeys, KeysOf
<1>5. ASSUME NEW r, Inserted(w, r)
      PROVE  /\ ns \in relays' /\ relayOf'[key] = ns /\ replacement'[key] = replacement[key]
             /\ key \in active' <=> key \in active
             /\ KeysOf(ns)' = KeysOf(ns)
  <2>1. KeysOf(ns)' = KeysOf(ns)
    BY <1>0, <1>1, <1>5, FoundKeys DEF Inserted
  <2> QED BY <1>0, <1>1, <1>2, <1>5, <2>1 DEF Inserted, KeyFree
<1>6. CASE Rotated(w)
  <2>0. PICK other : other = req[w].ns
    OBVIOUS
  <2>1. pc[w] \in RotatingAt /\ lock[other] = w /\ relayOf[req[w].key] = other
    BY <1>0, <1>6, <2>0 DEF Rotated, RotationLocked, AddressedAt, RotatingAt
  <2>2. ns # other
    BY <1>1, <2>1
  <2>3. KeysOf(ns)' = KeysOf(ns)
    BY <1>0, <1>1, <1>6, <2>0, <2>2, ReplacedKeys DEF Rotated
  <2>4. key # req[w].key /\ key # req[w].new
    BY <1>1, <1>6, <2>1, <2>2 DEF Rotated, KeyFree
  <2> QED BY <1>0, <1>1, <1>2, <1>3, <1>6, <2>3, <2>4 DEF Rotated
<1> QED BY <1>0, <1>3, <1>4, <1>5, <1>6, KeysStep

\* A rotation is granted to whoever repeats it and to whoever commits it.
LEMMA GrantedRotation ==
    ASSUME SwitchInv, NEW w \in Workers, Arrive(w) \/ Serve(w) \/ Fail(w) \/ Crash(w),
           pc'[w] = "answer", mem'[w].granted, req'[w].kind = "rotate"
    PROVE  /\ lock' = lock /\ req' = req /\ mem'[w].reply = req[w].ns
           /\ \/ CheckReplacement(w) /\ SameRotation(w) /\ ~mem[w].live /\ UNCHANGED <<rows, obs>>
              \/ Rotated(w) /\ Looked
<1> USE DEF SwitchInv, TypeInv, TypeOK
<1>1. ASSUME Arrive(w) \/ ClaimBusy(w) \/ Answer(w) \/ Fail(w) \/ Crash(w) PROVE FALSE
  BY <1>1 DEF Arrive, Enroll, Revoke, Rotate, SetEnabled, Accept, ClaimBusy, Answer, Fail, Crash, Forget, Goto
<1>2. ASSUME Claim(w) \/ Refresh(w) PROVE FALSE
  BY <1>2 DEF Claim, Refresh, Goto
<1>3. ASSUME Prior(w) \/ Find(w) \/ CheckRelay(w) \/ ReadRelay(w) PROVE FALSE
  <2>1. mem'[w] = NoMemory
    BY <1>3 DEF Prior, Find, CheckRelay, ReadRelay, Reply, Goto
  <2> QED BY <2>1, Ungranted
<1>4. ASSUME Authenticate(w) \/ Insert(w) \/ Switch(w) PROVE FALSE
  <2>1. req'[w] = req[w]
    BY <1>4 DEF Authenticate, Insert, Switch, Goto
  <2>2. req[w].kind # "rotate" \/ pc[w] = "switch"
    BY <1>4 DEF Authenticate, Insert, Switch, AddressedAt
  <2> QED BY <2>1, <2>2, <1>4 DEF SwitchingAt
<1>5. \A r : Granted(r).reply = r
  BY DEF Granted, Read
<1>6. CASE CheckReplacement(w)
  <2>1. /\ UNCHANGED <<rows, lock, req, obs>>
        /\ \/ SameRotation(w) /\ ~mem[w].live /\ mem'[w] = Granted(req[w].ns)
           \/ mem'[w] = NoMemory
    BY <1>6 DEF CheckReplacement, Reply, Goto
  <2> QED BY <1>5, <1>6, <2>1, Ungranted
<1>7. CASE CommitRotation(w)
  <2>1. CASE mem'[w] = NoMemory
    BY <2>1, Ungranted
  <2>2. CASE KeyFree(req[w].new) /\ Reply(w, Granted(req[w].ns)) /\ Watch
             /\ UNCHANGED <<relays, enabled, lock, req>> /\ active' = Replaced(w) /\ replacement' = Named(w)
             /\ relayOf' = [relayOf EXCEPT ![req[w].new] = req[w].ns]
    <3>1. req[w].key \in Keys /\ req[w].new \in Keys /\ pc[w] = "rotate"
      BY <1>7 DEF CommitRotation, AddressedAt, RotatingAt
    <3>2. Rotated(w) /\ Looked /\ mem'[w] = Granted(req[w].ns)
      BY <1>7, <2>2, <3>1 DEF Rotated, Looked, Replaced, Named, Reply
    <3> QED BY <1>5, <2>2, <3>2
  <2> QED BY <1>7, <2>1, <2>2 DEF CommitRotation, Reply
<1> QED BY <1>1, <1>2, <1>3, <1>4, <1>6, <1>7 DEF Serve

\* Whoever comes to hold a rotation has its lock.
LEMMA HeldOwn ==
    ASSUME KeptInv, CredInv', NEW w \in Workers, Arrive(w) \/ Serve(w) \/ Fail(w) \/ Crash(w)
    PROVE  HeldAt(w)'
<1> SUFFICES ASSUME Holding(w)'
             PROVE  lock'[req'[w].ns] = w /\ req'[w].ns \in relays' /\ relayOf'[req'[w].key] = req'[w].ns
  BY DEF HeldAt
<1>1. CASE pc'[w] \in RotatingAt
  BY <1>1 DEF Holding, CredInv, RotationLocked, TypeInv, AddressedAt
<1>2. CASE pc'[w] = "answer" /\ mem'[w].granted /\ req'[w].kind = "rotate"
  <2>1. lock' = lock /\ req' = req /\ ((CheckReplacement(w) /\ UNCHANGED rows) \/ Rotated(w))
    BY <1>2, GrantedRotation DEF KeptInv
  <2>2. pc[w] \in RotatingAt /\ req[w].kind = "rotate"
    BY <1>2, <2>1 DEF CheckReplacement, Rotated, RotatingAt
  <2>3. lock[req[w].ns] = w /\ req[w].ns \in relays /\ relayOf[req[w].key] = req[w].ns /\ req[w].key \in Keys
    BY <2>2 DEF KeptInv, CredInv, TypeInv, RotationLocked, AddressedAt
  <2>4. relays' = relays /\ relayOf'[req[w].key] = relayOf[req[w].key]
    BY <2>1, <2>3, NamesAssumption DEF Rotated, KeyFree, rows, KeptInv, CredInv, TypeInv, TypeOK
  <2> QED BY <2>1, <2>3, <2>4
<1> QED BY <1>1, <1>2 DEF Holding

\* Whoever holds a rotation keeps its lock while another one moves.
LEMMA HeldBystander ==
    ASSUME KeptInv, NEW w \in Workers, Arrive(w) \/ Serve(w) \/ Fail(w) \/ Crash(w),
           NEW x \in Workers \ {w}, Bystanders(w)
    PROVE  HeldAt(x)'
<1>1. pc'[x] = pc[x] /\ req'[x] = req[x] /\ mem'[x] = mem[x]
  BY DEF Bystanders
<1>2. Holding(x)' <=> Holding(x)
  BY <1>1 DEF Holding
<1>3. PICK ns, key : ns = req[x].ns /\ key = req[x].key
  OBVIOUS
<1>4. Holding(x) => lock'[ns] = x /\ ns \in relays' /\ relayOf'[key] = ns
  BY <1>3, HolderAlone
<1> QED BY <1>1, <1>2, <1>3, <1>4 DEF HeldAt

\* A rotation is held until it is answered.
LEMMA KeptStep ==
    ASSUME LeaseMayLapse = FALSE, KeptInv, [Next]_vars
    PROVE  KeptInv'
<1>1. CredInv' /\ SwitchInv' /\ Linked'
  BY CredStep, SwitchInvStep, LinkedStep DEF KeptInv, CredInv
<1>2. ASSUME NEW w \in Workers, Arrive(w) \/ Serve(w) \/ Fail(w) \/ Crash(w)
      PROVE  \A x \in Workers : HeldAt(x)'
  <2>1. Bystanders(w)
    BY <1>2, OwnRequest, OwnStep DEF KeptInv, CredInv
  <2> QED BY <1>1, <1>2, <2>1, HeldOwn, HeldBystander
<1>3. ASSUME (\E k \in LockKeys : Lapse(k)) \/ UNCHANGED vars, NEW x \in Workers PROVE HeldAt(x)'
  <2>1. UNCHANGED <<rows, pc, req, mem>>
    BY <1>3 DEF Lapse, vars
  <2>2. Holding(x)' <=> Holding(x)
    BY <2>1 DEF Holding
  <2>3. lock[req[x].ns] = x /\ req[x].ns \in relays => lock'[req[x].ns] = x
    BY <1>3, NamesAssumption DEF Lapse, vars, LockKeys, KeptInv, CredInv, TypeInv, TypeOK
  <2> QED BY <2>1, <2>2, <2>3 DEF KeptInv, HeldAt, rows
<1> QED BY <1>1, <1>2, <1>3 DEF Next, KeptInv

\* Nobody holds a rotation at first.
LEMMA KeptInit == Init => KeptInv
<1> SUFFICES ASSUME Init, NEW w \in Workers PROVE HeldAt(w)
  BY CredInit, SwitchInvInit, LinkedInit DEF KeptInv
<1> QED BY NothingType DEF Init, HeldAt, Holding

-----------------------------------------------------------------------------
(* Both answers to a rotation are true, and nobody is served without a key. *)

OwnKeys(w) == {req[w].key, req[w].new} \cap KeysOf(req[w].ns)

\* What a rotation read under its lock still holds, and once its instance was
\* found enabled, its caller's key has worked.
RotatingOn(w) ==
    /\ pc[w] \in {"relay", "replacement"} =>
           /\ mem[w].heir = replacement[req[w].key]
           /\ mem[w].live <=> req[w].key \in active
    /\ pc[w] \in {"replacement", "rotate"} /\ OwnKeys(w) # {} => obs[w].valid

RotationDone(w) == pc[w] = "answer" /\ req[w].kind = "rotate"

RotatedAt(w) ==
    /\ RotationDone(w) /\ mem[w].granted =>
           /\ mem[w].reply = req[w].ns
           /\ replacement[req[w].key] = req[w].new
           /\ req[w].new \in KeysOf(req[w].ns)
    /\ RotationDone(w) /\ ~mem[w].granted => ~obs[w].retry

ServedAt(w) ==
    req[w].kind # "set" /\ (mem[w].granted \/ pc[w] \in {"read", "switch"}) => obs[w].valid

AnswersInv ==
    /\ KeptInv
    /\ \A w \in Workers : RotatingOn(w) /\ RotatedAt(w) /\ ServedAt(w)

\* While another worker moves, and the keys of the worker's instance stay.
LEMMA AnswersBystander ==
    ASSUME AnswersInv, NEW w \in Workers, Arrive(w) \/ Serve(w) \/ Fail(w) \/ Crash(w),
           NEW x \in Workers \ {w}
    PROVE  RotatingOn(x)' /\ RotatedAt(x)' /\ ServedAt(x)'
<1>1. Bystanders(w) /\ (Unseen(x) \/ Looked)
  BY OwnRequest, OwnStep DEF AnswersInv, KeptInv, CredInv
<1>2. pc'[x] = pc[x] /\ req'[x] = req[x] /\ mem'[x] = mem[x]
  BY <1>1 DEF Bystanders
<1>3. (obs[x].valid => obs'[x].valid) /\ (obs'[x].retry => obs[x].retry)
  BY <1>1, NotesStay DEF AnswersInv, KeptInv, CredInv
<1>4. RotatingOn(x) /\ RotatedAt(x) /\ ServedAt(x)
  BY DEF AnswersInv
<1>5. ServedAt(x)'
  BY <1>2, <1>3, <1>4 DEF ServedAt
<1>6. PICK ns, key : ns = req[x].ns /\ key = req[x].key
  OBVIOUS
<1>7. Holding(x) => /\ replacement'[key] = replacement[key]
                    /\ key \in active' <=> key \in active
                    /\ KeysOf(ns)' = KeysOf(ns)
  BY <1>6, HolderAlone DEF AnswersInv
<1>8. pc[x] \in RotatingAt => req[x].kind = "rotate"
  BY DEF AnswersInv, KeptInv, CredInv, TypeInv, AddressedAt
<1>9. Holding(x) => KeysOf(req[x].ns)' = KeysOf(req[x].ns)
  BY <1>2, <1>6, <1>7 DEF KeysOf
<1>10. RotatingOn(x)'
  <2>1. CASE Holding(x)
    <3>1. OwnKeys(x)' = OwnKeys(x)
      BY <1>2, <1>9, <2>1 DEF OwnKeys
    <3> QED BY <1>2, <1>3, <1>4, <1>6, <1>7, <2>1, <3>1 DEF RotatingOn
  <2>2. CASE ~Holding(x)
    BY <1>2, <1>8, <2>2 DEF RotatingOn, Holding, RotatingAt
  <2> QED BY <2>1, <2>2
<1>11. RotatedAt(x)'
  <2>1. CASE RotationDone(x) /\ mem[x].granted
    <3>1. Holding(x)
      BY <2>1 DEF Holding, RotationDone
    <3> QED BY <1>2, <1>4, <1>6, <1>7, <1>9, <2>1, <3>1 DEF RotatedAt
  <2>2. CASE ~(RotationDone(x) /\ mem[x].granted)
    BY <1>2, <1>3, <1>4, <2>2 DEF RotatedAt, RotationDone
  <2> QED BY <2>1, <2>2
<1> QED BY <1>5, <1>10, <1>11

\* A step that neither is part of a rotation nor answers one.
LEMMA Unrelated ==
    ASSUME NEW w, pc'[w] \notin {"relay", "replacement", "rotate"}, ~RotationDone(w)'
    PROVE  RotatingOn(w)' /\ RotatedAt(w)'
BY DEF RotatingOn, RotatedAt

\* The keys of an instance are those of its relay that are active.
LEMMA OwnKey ==
    ASSUME AnswersInv, NEW w \in Workers, req[w].kind = "rotate", req[w].ns \in relays
    PROVE  /\ relayOf[req[w].key] = req[w].ns /\ req[w].key \in active => req[w].key \in OwnKeys(w)
           /\ OwnKeys(w) # {} /\ req[w].ns \in enabled => obs[w].valid
<1>1. Entitled(req[w]) => obs[w].valid
  BY DEF AnswersInv, KeptInv, SwitchInv, Noted, NotedAt
<1> QED BY <1>1 DEF OwnKeys, KeysOf, Entitled

\* What the notes say of a rotation that repeats the latest one.
LEMMA Repetition ==
    ASSUME AnswersInv, NEW w \in Workers, req[w].kind = "rotate", obs[w].retry
    PROVE  /\ replacement[req[w].key] = req[w].new /\ req[w].key \notin active
           /\ req[w].new \in active /\ relayOf[req[w].new] \in enabled
           /\ relayOf[req[w].key] # None /\ relayOf[req[w].new] = relayOf[req[w].key]
<1>1. Repeats(req[w])
  BY DEF AnswersInv, KeptInv, SwitchInv, Noted, NotedAt
<1>2. req[w].key \in Keys /\ req[w].new \in Keys
  BY DEF AnswersInv, KeptInv, CredInv, TypeInv, AddressedAt
<1>3. LinkedAt(req[w].key)
  BY <1>2 DEF AnswersInv, KeptInv, Linked
<1> QED BY <1>1, <1>2, <1>3, NamesAssumption DEF Repeats, LinkedAt

\* Steps outside a rotation.
LEMMA AnswersOutside ==
    ASSUME AnswersInv, Noted', NEW w \in Workers,
           \/ Arrive(w) \/ ClaimBusy(w) \/ Answer(w) \/ Fail(w) \/ Crash(w)
           \/ Claim(w) \/ Prior(w) \/ Authenticate(w) \/ Insert(w) \/ ReadRelay(w) \/ Switch(w)
    PROVE  RotatingOn(w)' /\ RotatedAt(w)' /\ ServedAt(w)'
<1> USE DEF AnswersInv, KeptInv, SwitchInv, CredInv, TypeInv, TypeOK
<1>1. (mem[w].granted => pc[w] = "answer") /\ ServedAt(w)
  BY DEF SwitchingAt
<1>2. CASE Arrive(w)
  <2>1. \E r : Accept(w, r, "claim") \/ Accept(w, r, "find") \/ Accept(w, r, "authenticate")
    BY <1>2 DEF Arrive, Enroll, Revoke, Rotate, SetEnabled
  <2>2. pc[w] = "idle" /\ pc'[w] \in {"claim", "find", "authenticate"} /\ mem' = mem
    BY <2>1 DEF Accept, Goto
  <2> QED BY <1>1, <2>2, Unrelated DEF RotationDone, ServedAt
<1>3. CASE ClaimBusy(w) \/ Answer(w) \/ Fail(w) \/ Crash(w)
  <2>1. Forget(w)
    BY <1>3 DEF ClaimBusy, Answer, Fail, Crash
  <2>2. mem'[w] = NoMemory /\ pc'[w] = "idle"
    BY <2>1 DEF Forget, Goto
  <2> QED BY <2>2, Ungranted, Unrelated DEF RotationDone, ServedAt
<1>4. CASE Claim(w)
  <2>1. mem' = mem /\ req' = req /\ pc[w] = "claim" /\ pc'[w] \in {"prior", "refresh", "read"}
        /\ (pc'[w] = "read" => req[w].kind = "set")
    BY <1>4 DEF Claim, Goto, AddressedAt
  <2> QED BY <1>1, <2>1, Unrelated DEF RotationDone, ServedAt
<1>5. CASE Prior(w)
  <2>1. req' = req /\ req[w].kind = "enroll" /\ pc'[w] \in {"authenticate", "insert", "answer"}
        /\ mem'[w] \in {mem[w], NoMemory} /\ pc[w] = "prior"
    BY <1>5 DEF Prior, Reply, Goto, AddressedAt
  <2> QED BY <1>1, <2>1, Ungranted, Unrelated DEF RotationDone, ServedAt
<1>6. CASE Authenticate(w)
  <2>1. Valid(req[w].key) => obs[w].valid
    BY DEF Noted, NotedAt, Valid, Entitled
  <2>2. CASE Reply(w, NoMemory) /\ req' = req
    <3>1. mem'[w] = NoMemory /\ pc'[w] = "answer" /\ req[w].kind # "rotate"
      BY <1>6, <2>2 DEF Authenticate, Reply, Goto, AddressedAt
    <3> QED BY <2>2, <3>1, Ungranted, Unrelated DEF RotationDone, ServedAt
  <2>3. CASE Valid(req[w].key) /\ req[w].kind = "enroll" /\ Reply(w, Granted(relayOf[req[w].key]))
             /\ UNCHANGED <<req, obs>>
    <3>1. pc'[w] = "answer"
      BY <2>3 DEF Reply, Goto
    <3> QED BY <2>1, <2>3, <3>1, Unrelated DEF RotationDone, ServedAt
  <2>4. CASE Valid(req[w].key) /\ Goto(w, "read") /\ obs' = [obs EXCEPT ![w].seen = {TRUE}]
    <3>1. pc'[w] = "read" /\ (obs[w].valid => obs'[w].valid)
      BY <2>4 DEF Goto, Note
    <3> QED BY <2>1, <2>4, <3>1, Unrelated DEF RotationDone, ServedAt
  <2> QED BY <1>6, <2>2, <2>3, <2>4 DEF Authenticate
<1>7. CASE Insert(w)
  <2>1. req' = req /\ req[w].kind = "enroll" /\ pc'[w] = "answer" /\ req[w].key \in Keys
    BY <1>7 DEF Insert, Reply, Goto, AddressedAt
  <2>2. CASE mem'[w] = NoMemory
    BY <2>1, <2>2, Ungranted, Unrelated DEF RotationDone, ServedAt
  <2>3. ASSUME NEW r, relayOf' = [relayOf EXCEPT ![req[w].key] = r], active' = active \cup {req[w].key},
               enabled' = enabled \cup {r}
        PROVE  obs'[w].valid
    <3>1. Entitled(req[w])'
      BY <2>1, <2>3 DEF Entitled
    <3> QED BY <3>1 DEF Noted, NotedAt
  <2>4. obs'[w].valid \/ mem'[w] = NoMemory
    BY <1>7, <2>3 DEF Insert, Reply
  <2> QED BY <2>1, <2>2, <2>4, Unrelated DEF RotationDone, ServedAt
<1>8. CASE ReadRelay(w) \/ Switch(w)
  <2>1. /\ pc[w] \in {"read", "switch"} /\ req' = req /\ req[w].kind \in {"revoke", "set"}
        /\ pc'[w] \in {"switch", "answer"}
        /\ Unseen(w) \/ Looked
    BY <1>8 DEF ReadRelay, Switch, SwitchingAt, Reply, Goto, Unseen, Looked
  <2>2. obs[w].valid => obs'[w].valid
    BY <2>1, NotesStay
  <2> QED BY <1>1, <2>1, <2>2, Unrelated DEF RotationDone, ServedAt
<1> QED BY <1>2, <1>3, <1>4, <1>5, <1>6, <1>7, <1>8

\* Steps of a rotation.
LEMMA AnswersRotating ==
    ASSUME AnswersInv, NEW w \in Workers,
           Find(w) \/ Refresh(w) \/ CheckRelay(w) \/ CheckReplacement(w) \/ CommitRotation(w)
    PROVE  RotatingOn(w)' /\ RotatedAt(w)' /\ ServedAt(w)'
<1> USE DEF AnswersInv, KeptInv, SwitchInv, CredInv, TypeInv, TypeOK
<1>1. /\ ~mem[w].granted /\ req[w].kind = "rotate" /\ req[w].key \in Keys /\ req[w].new \in Keys
      /\ ~Find(w) => req[w].ns \in relays /\ relayOf[req[w].key] = req[w].ns
  BY DEF SwitchingAt, AddressedAt, RotatingAt, Find, Refresh, CheckRelay, CheckReplacement, CommitRotation
<1>2. ASSUME pc'[w] = "answer", mem'[w] = NoMemory, obs'[w] = obs[w], ~obs[w].retry
      PROVE  RotatingOn(w)' /\ RotatedAt(w)' /\ ServedAt(w)'
  BY <1>2, Ungranted DEF RotatingOn, RotatedAt, ServedAt
<1>3. CASE Find(w)
  <2>1. CASE relayOf[req[w].key] = None
    <3>1. ~obs[w].retry
      BY <1>1, <2>1, Repetition
    <3>2. pc'[w] = "answer" /\ mem'[w] = NoMemory /\ obs'[w] = obs[w]
      BY <1>3, <2>1 DEF Find, Reply, Goto
    <3> QED BY <1>2, <3>1, <3>2
  <2>2. CASE relayOf[req[w].key] # None
    <3>1. pc'[w] = "claim" /\ mem'[w] = OldRow(w)
      BY <1>3, <2>2 DEF Find, Goto
    <3>2. ~OldRow(w).granted
      BY DEF OldRow, Read
    <3> QED BY <3>1, <3>2 DEF RotatingOn, RotatedAt, RotationDone, ServedAt
  <2> QED BY <2>1, <2>2
<1>4. CASE Refresh(w)
  <2>1. /\ pc'[w] = "relay" /\ mem'[w] = OldRow(w) /\ req'[w] = req[w]
        /\ active' = active /\ replacement' = replacement
    BY <1>4 DEF Refresh, Refreshed, Goto, rows
  <2>2. /\ ~OldRow(w).granted /\ OldRow(w).heir = replacement[req[w].key]
        /\ OldRow(w).live <=> req[w].key \in active
    BY DEF OldRow, Read
  <2> HIDE DEF OldRow
  <2> QED BY <2>1, <2>2 DEF RotatingOn, RotatedAt, RotationDone, ServedAt
<1>5. CASE CheckRelay(w)
  <2>1. UNCHANGED <<rows, lock, req, obs>> /\ pc[w] = "relay"
    BY <1>5 DEF CheckRelay
  <2>2. CASE req[w].ns \notin enabled
    <3>1. ~obs[w].retry
      BY <1>1, <1>5, <2>2, Repetition DEF CheckRelay, Find
    <3>2. pc'[w] = "answer" /\ mem'[w] = NoMemory
      BY <1>5, <2>2 DEF CheckRelay, Reply, Goto
    <3> QED BY <1>2, <2>1, <3>1, <3>2
  <2>3. CASE req[w].ns \in enabled
    <3>1. pc'[w] = "replacement" /\ mem'[w] = mem[w] /\ req'[w] = req[w] /\ obs'[w] = obs[w]
      BY <1>5, <2>1, <2>3 DEF CheckRelay, Reply, Goto
    <3>2. OwnKeys(w)' = OwnKeys(w) /\ active' = active /\ replacement' = replacement
      BY <2>1 DEF OwnKeys, KeysOf, rows
    <3>3. OwnKeys(w) # {} => obs[w].valid
      BY <1>1, <2>3, OwnKey
    <3> QED BY <1>1, <2>1, <3>1, <3>2, <3>3 DEF RotatingOn, RotatedAt, RotationDone, ServedAt
  <2> QED BY <2>2, <2>3
<1>6. CASE CheckReplacement(w)
  <2>1. /\ UNCHANGED <<rows, lock, req, obs>> /\ pc[w] = "replacement"
        /\ mem[w].heir = replacement[req[w].key] /\ (mem[w].live <=> req[w].key \in active)
        /\ OwnKeys(w) # {} => obs[w].valid
    BY <1>6 DEF CheckReplacement, RotatingOn
  <2>2. CASE ~mem[w].live /\ SameRotation(w) /\ Reply(w, Granted(req[w].ns))
    <3>1. pc'[w] = "answer" /\ mem'[w] = Granted(req[w].ns)
      BY <2>2 DEF Reply, Goto
    <3>2. Granted(req[w].ns).reply = req[w].ns
      BY DEF Granted, Read
    <3>3. req[w].new \in KeysOf(req[w].ns) /\ replacement[req[w].key] = req[w].new
      BY <2>1, <2>2 DEF SameRotation, KeysOf
    <3>4. obs[w].valid
      BY <2>1, <3>3 DEF OwnKeys
    <3>5. KeysOf(req[w].ns)' = KeysOf(req[w].ns) /\ req' = req /\ replacement' = replacement /\ obs' = obs
      BY <2>1 DEF KeysOf, rows
    <3> QED BY <3>1, <3>2, <3>3, <3>4, <3>5, Ungranted DEF RotatingOn, RotatedAt, ServedAt
  <2>3. CASE ~mem[w].live /\ ~SameRotation(w) /\ Reply(w, NoMemory)
    <3>1. ~obs[w].retry
      BY <1>1, <1>6, <2>1, <2>3, Repetition DEF SameRotation, CheckReplacement, Find
    <3>2. pc'[w] = "answer" /\ mem'[w] = NoMemory
      BY <2>3 DEF Reply, Goto
    <3> QED BY <1>2, <2>1, <3>1, <3>2
  <2>4. CASE mem[w].live /\ Goto(w, "rotate") /\ UNCHANGED mem
    <3>1. pc'[w] = "rotate" /\ mem'[w] = mem[w] /\ req'[w] = req[w] /\ obs'[w] = obs[w]
      BY <2>1, <2>4 DEF Goto
    <3>2. OwnKeys(w)' = OwnKeys(w)
      BY <2>1 DEF OwnKeys, KeysOf, rows
    <3> QED BY <1>1, <2>1, <3>1, <3>2 DEF RotatingOn, RotatedAt, RotationDone, ServedAt
  <2>5. CASE mem[w].live /\ Reply(w, NoMemory)
    <3>1. ~obs[w].retry
      BY <1>1, <2>1, <2>5, Repetition
    <3>2. pc'[w] = "answer" /\ mem'[w] = NoMemory
      BY <2>5 DEF Reply, Goto
    <3> QED BY <1>2, <2>1, <3>1, <3>2
  <2> QED BY <1>6, <2>2, <2>3, <2>4, <2>5 DEF CheckReplacement
<1>7. CASE CommitRotation(w)
  <2>1. pc[w] = "rotate" /\ req[w].key \in active
    BY <1>7 DEF CommitRotation, StillCurrent
  <2>2. ~obs[w].retry
    BY <1>1, <2>1, Repetition
  <2>3. obs[w].valid
    BY <1>1, <1>7, <2>1, OwnKey DEF RotatingOn, CommitRotation, Find
  <2>4. CASE Reply(w, NoMemory) /\ UNCHANGED <<rows, lock, req, obs>>
    <3>1. pc'[w] = "answer" /\ mem'[w] = NoMemory
      BY <2>4 DEF Reply, Goto
    <3> QED BY <1>2, <2>2, <2>4, <3>1
  <2>5. CASE KeyFree(req[w].new) /\ Reply(w, Granted(req[w].ns)) /\ Watch /\ req' = req
             /\ relayOf' = [relayOf EXCEPT ![req[w].new] = req[w].ns]
             /\ active' = (active \ {req[w].key}) \cup {req[w].new}
             /\ replacement' = [replacement EXCEPT ![req[w].key] = req[w].new]
    <3>1. pc'[w] = "answer" /\ mem'[w] = Granted(req[w].ns) /\ req'[w] = req[w]
      BY <2>5 DEF Reply, Goto
    <3>2. Granted(req[w].ns).reply = req[w].ns
      BY DEF Granted, Read
    <3>3. req[w].new \in KeysOf(req[w].ns)' /\ replacement'[req[w].key] = req[w].new
      BY <1>1, <2>5 DEF KeysOf
    <3>4. obs'[w].valid
      BY <2>3, <2>5, NotesStay DEF Looked
    <3> QED BY <3>1, <3>2, <3>3, <3>4, Ungranted DEF RotatingOn, RotatedAt, ServedAt
  <2> QED BY <1>7, <2>4, <2>5 DEF CommitRotation, Replaced, Named
<1> QED BY <1>3, <1>4, <1>5, <1>6, <1>7

\* The invariant of the answers is inductive.
LEMMA AnswersStep ==
    ASSUME LeaseMayLapse = FALSE
    PROVE  AnswersInv /\ [Next]_vars => AnswersInv'
<1> SUFFICES ASSUME AnswersInv, [Next]_vars PROVE AnswersInv'
  OBVIOUS
<1>1. KeptInv' /\ Noted'
  BY KeptStep DEF AnswersInv, KeptInv, SwitchInv
<1>2. ASSUME NEW w \in Workers, Arrive(w) \/ Serve(w) \/ Fail(w) \/ Crash(w), NEW x \in Workers
      PROVE  RotatingOn(x)' /\ RotatedAt(x)' /\ ServedAt(x)'
  BY <1>1, <1>2, AnswersOutside, AnswersRotating, AnswersBystander DEF Serve
<1>3. ASSUME (\E k \in LockKeys : Lapse(k)) \/ UNCHANGED vars, NEW x \in Workers
      PROVE  RotatingOn(x)' /\ RotatedAt(x)' /\ ServedAt(x)'
  <2>1. UNCHANGED <<rows, pc, req, mem, obs>>
    BY <1>3 DEF Lapse, vars
  <2> QED BY <2>1 DEF AnswersInv, RotatingOn, RotatedAt, RotationDone, ServedAt, OwnKeys, KeysOf, rows
<1> QED BY <1>1, <1>2, <1>3 DEF Next, AnswersInv

\* Nobody has been answered at first.
LEMMA AnswersInit == Init => AnswersInv
<1> SUFFICES ASSUME Init, NEW w \in Workers PROVE RotatingOn(w) /\ RotatedAt(w) /\ ServedAt(w)
  BY KeptInit DEF AnswersInv
<1> QED BY Ungranted DEF Init, RotatingOn, RotatedAt, RotationDone, ServedAt

\* A rotation is answered with success while the new key is the current one
\* and only if it really took place; a repetition of the latest rotation is
\* never refused.
THEOREM RotationsTruthful ==
    ASSUME LeaseMayLapse = FALSE
    PROVE  Spec => []RotationTruthful
<1>1. AnswersInv => RotationTruthful
  <2> SUFFICES ASSUME AnswersInv, NEW w \in Workers, RotationDone(w)
               PROVE  /\ mem[w].granted =>
                            /\ replacement[req[w].key] = req[w].new
                            /\ req[w].key \notin active /\ req[w].new \in active
                            /\ relayOf[req[w].key] = mem[w].reply /\ relayOf[req[w].new] = mem[w].reply
                      /\ ~mem[w].granted => ~obs[w].retry
    BY DEF RotationTruthful, RotationAnswer, RetryNotRefused, RotationDone
  <2>1. RotatedAt(w) /\ HeldAt(w) /\ Linked /\ req[w].key \in Keys /\ req[w].new \in Keys
    BY DEF AnswersInv, KeptInv, CredInv, TypeInv, AddressedAt, RotationDone
  <2>2. mem[w].granted => Holding(w)
    BY DEF Holding, RotationDone
  <2> QED BY <2>1, <2>2, NamesAssumption DEF RotatedAt, HeldAt, Linked, LinkedAt, KeysOf
<1>2. AnswersInv /\ [Next]_vars => AnswersInv'
  BY AnswersStep
<1> QED BY <1>1, <1>2, AnswersInit, PTL DEF Spec

\* Whoever is served without being the operator held a key that worked at
\* some moment of the request.
THEOREM KeysServe ==
    ASSUME LeaseMayLapse = FALSE
    PROVE  Spec => []ServedWithKey
<1>1. AnswersInv => ServedWithKey
  BY DEF AnswersInv, ServedAt, ServedWithKey
<1>2. AnswersInv /\ [Next]_vars => AnswersInv'
  BY AnswersStep
<1> QED BY <1>1, <1>2, AnswersInit, PTL DEF Spec

-----------------------------------------------------------------------------
(* Lineage.  A key that is issued replaces one that is there already and    *)
(* has no replacement itself, so that replacements never run in a circle:   *)
(* in any set of keys there is one whose replacement is elsewhere.  Who     *)
(* follows them for as many steps as there are keys has come to their end,  *)
(* and a key that is issued and not replaced works.  No lease matters here. *)

Acyclic == \A S \in SUBSET Keys : S # {} => \E k \in S : replacement[k] \notin S
EndsActive == \A k \in Keys : relayOf[k] # None /\ replacement[k] = None => k \in active

LineageInv == TypeInv /\ Linked /\ Acyclic /\ EndsActive

\* Nothing is replaced at first.
LEMMA LineageInit == Init => LineageInv
<1> SUFFICES ASSUME Init PROVE LineageInv
  OBVIOUS
<1>1. /\ \A k \in Keys : replacement[k] = None /\ relayOf[k] = None
  BY DEF Init
<1>2. Acyclic
  BY <1>1, NamesAssumption DEF Acyclic
<1> QED BY <1>1, <1>2, TypeInit, LinkedInit DEF LineageInv, EndsActive

\* A rotation adds a key at the end, whatever the old key was.
LEMMA LineageStep == LineageInv /\ [Next]_vars => LineageInv'
<1> SUFFICES ASSUME LineageInv, [Next]_vars PROVE LineageInv'
  OBVIOUS
<1>1. TypeInv /\ Linked /\ TypeInv' /\ Linked'
  BY TypeStep, LinkedStep DEF LineageInv
<1>2. CASE SameKeys
  BY <1>1, <1>2 DEF SameKeys, LineageInv, Acyclic, EndsActive
<1>3. ASSUME NEW w \in Workers, NEW r, Inserted(w, r) PROVE LineageInv'
  <2>1. Acyclic'
    BY <1>3 DEF Inserted, LineageInv, Acyclic
  <2>2. \A k \in Keys : k = req[w].key \/ (relayOf'[k] = relayOf[k])
    BY <1>1, <1>3 DEF Inserted, TypeInv, TypeOK
  <2>3. EndsActive'
    BY <1>3, <2>2 DEF Inserted, LineageInv, EndsActive
  <2> QED BY <1>1, <2>1, <2>3 DEF LineageInv
<1>4. ASSUME NEW w \in Workers, Rotated(w) PROVE LineageInv'
  <2> DEFINE old == req[w].key
             new == req[w].new
  <2>1. /\ old \in Keys /\ new \in Keys /\ relayOf[new] = None
        /\ relayOf[old] = req[w].ns /\ req[w].ns \in relays
    BY <1>1, <1>4 DEF Rotated, KeyFree, AddressedAt, RotatingAt, TypeInv
  <2>2. old # new /\ replacement[new] = None
    BY <1>1, <2>1, NamesAssumption DEF TypeInv, TypeOK, Linked, LinkedAt
  <2>3. /\ replacement'[old] = new /\ \A k \in Keys : k # old => replacement'[k] = replacement[k]
        /\ \A k \in Keys : k # new => relayOf'[k] = relayOf[k]
        /\ active' = (active \ {old}) \cup {new}
    BY <1>1, <1>4, <2>1 DEF Rotated, TypeInv, TypeOK
  <2> HIDE DEF old, new
  <2>4. ASSUME NEW S \in SUBSET Keys, S # {} PROVE \E k \in S : replacement'[k] \notin S
    <3>1. CASE new \in S
      BY <2>2, <2>3, <3>1, NamesAssumption
    <3>2. CASE new \notin S /\ old \in S
      BY <2>3, <3>2
    <3>3. CASE new \notin S /\ old \notin S
      <4>1. PICK k \in S : replacement[k] \notin S
        BY <2>4 DEF LineageInv, Acyclic
      <4> QED BY <2>3, <3>3, <4>1
    <3> QED BY <3>1, <3>2, <3>3
  <2>5. ASSUME NEW k \in Keys, relayOf'[k] # None, replacement'[k] = None PROVE k \in active'
    <3>1. k # old
      BY <2>1, <2>3, <2>5, NamesAssumption
    <3>2. CASE k = new
      BY <2>3, <3>2
    <3>3. CASE k # new
      <4>1. k \in active
        BY <2>3, <2>5, <3>1, <3>3 DEF LineageInv, EndsActive
      <4> QED BY <2>3, <3>1, <4>1
    <3> QED BY <3>2, <3>3
  <2> QED BY <1>1, <2>4, <2>5 DEF LineageInv, Acyclic, EndsActive
<1>5. ASSUME (\E k \in LockKeys : Lapse(k)) \/ UNCHANGED vars PROVE SameKeys
  BY <1>5 DEF Lapse, vars, rows, SameKeys
<1> QED BY <1>1, <1>2, <1>3, <1>4, <1>5, KeysStep DEF Next

\* The walk that Heir takes, for n steps.
Successor(k) == IF replacement[k] = None THEN k ELSE replacement[k]
Walk(k, n, f) == f = [m \in 0..n |-> IF m = 0 THEN k ELSE Successor(f[m - 1])]

\* Among numbers there is a least one.
LEMMA Least == ASSUME NEW T, T \subseteq Nat, T # {} PROVE \E n \in T : \A m \in T : n <= m
<1>1. PICK b \in T : TRUE
  OBVIOUS
<1> DEFINE Segments == {0..n : n \in {m \in T : m <= b}}
<1>2. IsFiniteSet(0..b) /\ Segments \in SUBSET SUBSET (0..b) /\ Segments # {}
  <2>1. b \in Nat /\ b \in Int /\ 0 \in Int
    OBVIOUS
  <2>2. IsFiniteSet(0..b)
    BY <2>1, FS_Interval
  <2>3. ASSUME NEW s \in Segments PROVE s \subseteq 0..b
    OBVIOUS
  <2>4. b \in {m \in T : m <= b}
    BY <2>1
  <2> QED BY <2>2, <2>3, <2>4
<1>3. PICK s \in Segments : \A y : y \subseteq s /\ y # s => y \notin Segments
  <2> HIDE DEF Segments
  <2> QED BY <1>2, Minimal
<1>4. PICK n \in T : n <= b /\ s = 0..n
  OBVIOUS
<1>5. ASSUME NEW m \in T, m < n PROVE FALSE
  <2>1. 0..m \subseteq s /\ n \in s /\ n \notin 0..m
    BY <1>4, <1>5
  <2>2. 0..m \in Segments
    <3>1. m <= b
      BY <1>1, <1>4, <1>5
    <3> QED BY <3>1
  <2> HIDE DEF Segments
  <2> QED BY <1>3, <2>1, <2>2
<1>6. \A m \in T : n <= m
  BY <1>4, <1>5
<1> QED BY <1>4, <1>6

\* There is such a walk.
LEMMA WalkExists == ASSUME NEW k, NEW n \in Nat PROVE \E f : Walk(k, n, f)
<1> DEFINE T == {m \in Nat : ~ \E f : Walk(k, m, f)}
<1> SUFFICES ASSUME n \in T PROVE FALSE
  OBVIOUS
<1>1. PICK m \in T : \A j \in T : m <= j
  <2> HIDE DEF T
  <2>1. T # {}
    OBVIOUS
  <2>2. T \subseteq Nat
    BY DEF T
  <2> QED BY <2>1, <2>2, Least
<1>2. m # 0
  <2>1. Walk(k, 0, [j \in 0..0 |-> k])
    BY DEF Walk
  <2> QED BY <2>1
<1>3. m - 1 \in Nat /\ m - 1 \notin T
  BY <1>1, <1>2
<1>4. PICK f : Walk(k, m - 1, f)
  BY <1>3
<1> DEFINE g == [j \in 0..m |-> IF j = m THEN Successor(f[m - 1]) ELSE f[j]]
<1>5. \A j \in 0..m : g[j] = IF j = 0 THEN k ELSE Successor(g[j - 1])
  <2> SUFFICES ASSUME NEW j \in 0..m PROVE g[j] = IF j = 0 THEN k ELSE Successor(g[j - 1])
    OBVIOUS
  <2>1. CASE j = m
    <3>1. g[j] = Successor(f[m - 1]) /\ m - 1 \in 0..m /\ m - 1 # m
      BY <1>2, <1>3, <2>1
    <3>2. g[m - 1] = f[m - 1]
      BY <3>1
    <3> QED BY <1>2, <2>1, <3>1, <3>2
  <2>2. CASE j # m
    <3>1. j \in 0..(m - 1) /\ g[j] = f[j]
      BY <1>3, <2>2
    <3>2. f[j] = IF j = 0 THEN k ELSE Successor(f[j - 1])
      BY <1>4, <3>1 DEF Walk
    <3>3. CASE j = 0
      BY <3>1, <3>2, <3>3
    <3>4. CASE j # 0
      <4>1. j - 1 \in 0..m /\ j - 1 # m
        BY <3>1, <3>4
      <4>2. g[j - 1] = f[j - 1]
        BY <4>1
      <4> QED BY <3>1, <3>2, <3>4, <4>2
    <3> QED BY <3>3, <3>4
  <2> QED BY <2>1, <2>2
<1>6. g = [j \in 0..m |-> g[j]]
  OBVIOUS
<1> HIDE DEF g
<1>7. Walk(k, m, g)
  BY <1>5, <1>6 DEF Walk
<1> QED BY <1>7

\* What a walk does, step by step.
LEMMA WalkSteps ==
    ASSUME NEW k, NEW n \in Nat, NEW f, Walk(k, n, f)
    PROVE  /\ f[0] = k
           /\ \A m \in 0..n : m # 0 => f[m] = Successor(f[m - 1])
<1>1. 0 \in 0..n
  OBVIOUS
<1> QED BY <1>1 DEF Walk

\* A walk stays with the keys of an instance.
LEMMA WalkStays ==
    ASSUME LineageInv, NEW k \in Keys, NEW n \in Nat, NEW f, Walk(k, n, f)
    PROVE  \A m \in 0..n : f[m] \in Keys /\ relayOf[f[m]] = relayOf[k]
<1>0. \A x \in 0..n : x # 0 => f[x] = Successor(f[x - 1])
  BY WalkSteps
<1> DEFINE T == {m \in 0..n : ~(f[m] \in Keys /\ relayOf[f[m]] = relayOf[k])}
<1> SUFFICES ASSUME T # {} PROVE FALSE
  OBVIOUS
<1>1. PICK m \in T : \A j \in T : m <= j
  <2>1. T \subseteq Nat
    OBVIOUS
  <2> HIDE DEF T
  <2> QED BY <2>1, Least
<1>2. m # 0
  BY WalkSteps
<1>3. m \in 0..n /\ m - 1 \in 0..n /\ f[m] = Successor(f[m - 1])
  <2>1. m \in 0..n /\ m - 1 \in 0..n
    BY <1>1, <1>2
  <2> QED BY <1>2, <2>1, <1>0
<1>4. m - 1 \notin T
  BY <1>1, <1>3
<1>5. f[m - 1] \in Keys /\ relayOf[f[m - 1]] = relayOf[k]
  BY <1>3, <1>4
<1>6. Successor(f[m - 1]) \in Keys /\ relayOf[Successor(f[m - 1])] = relayOf[k]
  BY <1>5 DEF Successor, LineageInv, TypeInv, TypeOK, Linked, LinkedAt
<1> QED BY <1>1, <1>3, <1>6

\* Where it has come to an end it stays.
LEMMA WalkRests ==
    ASSUME NEW k, NEW n \in Nat, NEW f, Walk(k, n, f), NEW i \in 0..n, replacement[f[i]] = None
    PROVE  f[n] = f[i]
<1>0. \A x \in 0..n : x # 0 => f[x] = Successor(f[x - 1])
  BY WalkSteps
<1> DEFINE T == {m \in i..n : f[m] # f[i]}
<1> SUFFICES ASSUME T # {} PROVE FALSE
  OBVIOUS
<1>1. PICK m \in T : \A j \in T : m <= j
  <2>1. T \subseteq Nat
    OBVIOUS
  <2> HIDE DEF T
  <2> QED BY <2>1, Least
<1>2. m \in 0..n /\ m # i /\ m # 0 /\ m - 1 \in i..n
  BY <1>1
<1>3. f[m] = Successor(f[m - 1])
  BY <1>0, <1>2
<1>4. m - 1 \notin T
  BY <1>1, <1>2
<1> QED BY <1>1, <1>2, <1>3, <1>4 DEF Successor

\* It passes no key twice unless it rests.
LEMMA WalkAdvances ==
    ASSUME LineageInv, NEW k \in Keys, NEW n \in Nat, NEW f, Walk(k, n, f),
           \A m \in 0..n : replacement[f[m]] # None,
           NEW i \in 0..n, NEW j \in 0..n, i < j
    PROVE  f[i] # f[j]
<1>0. \A x \in 0..n : x # 0 => f[x] = Successor(f[x - 1])
  BY WalkSteps
<1> SUFFICES ASSUME f[i] = f[j] PROVE FALSE
  OBVIOUS
<1> DEFINE S == {f[m] : m \in i..(j - 1)}
<1>1. S \in SUBSET Keys /\ S # {}
  <2>1. i \in i..(j - 1) /\ \A m \in i..(j - 1) : m \in 0..n
    OBVIOUS
  <2> QED BY <2>1, WalkStays
<1>2. ASSUME NEW m \in i..(j - 1) PROVE replacement[f[m]] \in S
  <2>1. m + 1 \in 0..n /\ m + 1 # 0 /\ (m + 1) - 1 = m /\ m \in 0..n
    OBVIOUS
  <2>2. f[m + 1] = replacement[f[m]]
    <3>1. f[m + 1] = Successor(f[m])
      BY <1>0, <2>1
    <3> QED BY <2>1, <3>1 DEF Successor
  <2>3. CASE m + 1 = j
    <3>1. i \in i..(j - 1)
      OBVIOUS
    <3> QED BY <2>2, <2>3, <3>1
  <2>4. CASE m + 1 # j
    <3>1. m + 1 \in i..(j - 1)
      BY <2>4
    <3> QED BY <2>2, <3>1
  <2> QED BY <2>3, <2>4
<1> QED BY <1>1, <1>2 DEF LineageInv, Acyclic

\* There are not keys enough to go on for so long.
LEMMA WalkEnds ==
    ASSUME LineageInv, IsFiniteSet(Keys), NEW k \in Keys, NEW f, Walk(k, Cardinality(Keys), f)
    PROVE  replacement[f[Cardinality(Keys)]] = None
<1> DEFINE n == Cardinality(Keys)
<1>1. n \in Nat
  BY FS_CardinalityType
<1> SUFFICES ASSUME replacement[f[n]] # None PROVE FALSE
  OBVIOUS
<1>2. \A m \in 0..n : replacement[f[m]] # None
  <2> HIDE DEF n
  <2>1. Walk(k, n, f)
    BY DEF n
  <2> QED BY <1>1, <2>1, WalkRests
<1>3. IsFiniteSet(0..n) /\ Cardinality(0..n) = n + 1
  BY <1>1, FS_Interval
<1>4. f \in [0..n -> Keys]
  <2> HIDE DEF n
  <2>1. Walk(k, n, f)
    BY DEF n
  <2>2. f = [m \in 0..n |-> f[m]]
    BY <2>1 DEF Walk
  <2> QED BY <1>1, <2>1, <2>2, WalkStays
<1>5. PICK i, j \in 0..n : i # j /\ f[i] = f[j]
  BY <1>1, <1>3, <1>4, FS_PigeonHole
<1>6. i < j \/ j < i
  BY <1>1, <1>5
<1> QED BY <1>1, <1>2, <1>5, <1>6, WalkAdvances

\* The heir is at the end of such a walk.
LEMMA HeirWalks ==
    ASSUME IsFiniteSet(Keys), NEW k \in Keys
    PROVE  \E f : Walk(k, Cardinality(Keys), f) /\ Heir(k) = f[Cardinality(Keys)]
<1> DEFINE n == Cardinality(Keys)
           f == CHOOSE g : Walk(k, n, g)
<1>1. n \in Nat
  BY FS_CardinalityType
<1>2. Walk(k, n, f)
  BY <1>1, WalkExists
<1>3. Heir(k) = f[n]
  BY DEF Heir, Walk, Successor
<1> QED BY <1>2, <1>3

\* rotate: from each key an instance ever had the replacements lead to the key
\* that works now, also when a section outlives its lease.
THEOREM LineageKept ==
    ASSUME IsFiniteSet(Keys)
    PROVE  Spec => []Lineage
<1>1. LineageInv => Lineage
  <2> SUFFICES ASSUME LineageInv, NEW k \in Keys, relayOf[k] # None
               PROVE  Heir(k) \in active /\ relayOf[Heir(k)] = relayOf[k]
    BY DEF Lineage
  <2> DEFINE n == Cardinality(Keys)
  <2>1. n \in Nat /\ n \in 0..n
    BY FS_CardinalityType
  <2>2. PICK f : Walk(k, n, f) /\ Heir(k) = f[n]
    BY HeirWalks
  <2>3. replacement[f[n]] = None
    BY <2>2, WalkEnds
  <2> HIDE DEF n
  <2>4. f[n] \in Keys /\ relayOf[f[n]] = relayOf[k]
    BY <2>1, <2>2, WalkStays
  <2> QED BY <2>2, <2>3, <2>4 DEF LineageInv, EndsActive
<1> QED BY <1>1, LineageInit, LineageStep, PTL DEF Spec
=============================================================================
