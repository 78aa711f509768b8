------------------------ MODULE AdminAccountsProofs ------------------------
(* Proofs about AdminAccounts.                                             *)
EXTENDS AdminAccounts, TLAPS, FiniteSetTheorems

-----------------------------------------------------------------------------
(* Steps that write no account.                                            *)

\* The constants are records of their kind.
LEMMA NothingType ==
    /\ NoRequest \in Request /\ NoRequest.kind = "none"
    /\ NoRow \in Account
    /\ NoMemory \in Memory
<1>1. NoRequest \in Request /\ NoRequest.kind = "none"
  BY DEF NoRequest, Call, Request, Kinds, AdminKinds, Roles
<1>2. NoRow \in Account
  BY DEF NoRow, Row, Account, Roles
<1>3. NoMemory \in Memory
  BY <1>2 DEF NoMemory, Memory
<1> QED BY <1>1, <1>2, <1>3

\* Sessions that were there, or agree with their account.
Tracked == \A s \in sessions' : s \in Session /\ (s \in sessions \/ Fresh(s.user, s.version, s.proof, s.role))

\* A step of w that leaves the accounts alone: the others know what they knew,
\* as long as none of them loses the lock.
LEMMA StepKeeps ==
    ASSUME AccountsInv,
           NEW w \in Workers, NEW step \in Steps, NEW r \in Request, NEW m \in Memory,
           UNCHANGED rows,
           pc' = [pc EXCEPT ![w] = step],
           req' = [req EXCEPT ![w] = r],
           mem' = [mem EXCEPT ![w] = m],
           writer' \in Workers \cup {None},
           \A x \in Workers \ {w} : writer = x => writer' = x,
           Tracked, edits' \in Nat, logins' \in Nat,
           Names(r, step), Knows(r, step, m), step \in LockedAt => writer' = w
    PROVE  AccountsInv'
<1>1. TypeOK'
  BY DEF AccountsInv, TypeOK, rows, Tracked
<1>2. LastSuperKept'
  BY DEF AccountsInv, LastSuperKept, Supers, rows
<1>3. \A s \in sessions' : Fresh(s.user, s.version, s.proof, s.role)'
  BY DEF AccountsInv, Tracked, Fresh, rows
<1>4. \A x \in Workers :
          /\ Names(req'[x], pc'[x])
          /\ Knows(req[x], pc[x], mem[x])'
          /\ pc'[x] \in LockedAt => writer' = x
  <2> TAKE x \in Workers
  <2>1. PICK rx, sx, mx : /\ rx = req'[x] /\ sx = pc'[x] /\ mx = mem'[x]
                          /\ Names(rx, sx) /\ Knows(rx, sx, mx)
                          /\ sx \in LockedAt => writer' = x
    <3>1. CASE x = w
      BY <3>1 DEF AccountsInv, TypeOK
    <3>2. CASE x # w
      BY <3>2 DEF AccountsInv, TypeOK
    <3> QED BY <3>1, <3>2
  <2>2. Knows(rx, sx, mx)' <=> Knows(rx, sx, mx)
    BY DEF Knows, Fresh, Checked, UpToDate, Entitled, Supers, rows
  <2> QED BY <2>1, <2>2
<1> QED BY <1>1, <1>2, <1>3, <1>4 DEF AccountsInv

\* A request that is over; its session may go with it, or begin.
LEMMA LeaveKeeps ==
    ASSUME AccountsInv, NEW w \in Workers, Leave(w), UNCHANGED <<rows, edits, logins>>, Tracked
    PROVE  AccountsInv'
<1>1. Names(NoRequest, "idle") /\ Knows(NoRequest, "idle", NoMemory) /\ "idle" \notin LockedAt
  BY NothingType DEF Names, Knows, AdminKinds, ChangeKinds, LockedAt
<1>2. writer' \in Workers \cup {None} /\ \A x \in Workers \ {w} : writer = x => writer' = x
  BY DEF Leave, AccountsInv, TypeOK
<1>3. "idle" \in Steps /\ edits' \in Nat /\ logins' \in Nat
  BY DEF Steps, AccountsInv, TypeOK
<1>4. /\ pc' = [pc EXCEPT ![w] = "idle"]
      /\ req' = [req EXCEPT ![w] = NoRequest]
      /\ mem' = [mem EXCEPT ![w] = NoMemory]
      /\ UNCHANGED rows
  BY DEF Leave, Goto
<1> QED BY <1>1, <1>2, <1>3, <1>4, NothingType, StepKeeps

\* A request that goes on with what it has read, and may take the lock.
LEMMA GoesOn ==
    ASSUME AccountsInv, NEW w \in Workers, NEW step \in Steps, NEW m \in Memory,
           UNCHANGED <<rows, edits, logins, req>>, Tracked,
           Goto(w, step), mem' = [mem EXCEPT ![w] = m],
           writer' = writer \/ (writer = None /\ writer' = w),
           Names(req[w], step), Knows(req[w], step, m), step \in LockedAt => writer' = w
    PROVE  AccountsInv'
<1>1. req[w] \in Request /\ req' = [req EXCEPT ![w] = req[w]]
  BY DEF AccountsInv, TypeOK
<1>2. writer' \in Workers \cup {None} /\ \A x \in Workers \ {w} : writer = x => writer' = x
  BY UsersAssumption DEF AccountsInv, TypeOK
<1>3. edits' \in Nat /\ logins' \in Nat /\ UNCHANGED rows
  BY DEF AccountsInv, TypeOK
<1> QED BY <1>1, <1>2, <1>3, StepKeeps DEF Goto

\* A request that goes on with what it had.
LEMMA MovesOn ==
    ASSUME AccountsInv, NEW w \in Workers, NEW step \in Steps,
           UNCHANGED <<rows, edits, logins>>, Tracked, Move(w, step),
           Names(req[w], step), Knows(req[w], step, mem[w]), step \in LockedAt => writer = w
    PROVE  AccountsInv'
<1>1. mem[w] \in Memory /\ mem' = [mem EXCEPT ![w] = mem[w]]
  BY DEF AccountsInv, TypeOK, Move
<1> QED BY <1>1, GoesOn DEF Move

\* A request that arrives.
LEMMA AcceptKeeps ==
    ASSUME AccountsInv, NEW w \in Workers, NEW r \in Request,
           NEW step \in {"read", "identify", "latch", "lock"},
           Accept(w, r, step), Names(r, step), edits' \in Nat, logins' \in Nat,
           step = "lock" => r.kind = "recover", r.kind = "change" => r.target \in exists
    PROVE  AccountsInv'
<1>1. step \in Steps /\ mem[w] \in Memory /\ mem' = [mem EXCEPT ![w] = mem[w]]
  BY DEF Steps, AccountsInv, TypeOK, Accept
<1>2. Knows(r, step, mem[w]) /\ step \notin LockedAt
  BY DEF Knows, LockedAt, AdminKinds
<1>3. writer' \in Workers \cup {None} /\ Tracked /\ UNCHANGED <<rows, writer>>
  BY DEF Accept, AccountsInv, TypeOK, Tracked
<1> QED BY <1>1, <1>2, <1>3, StepKeeps DEF Accept, Goto

\* Requests and commands that arrive.
LEMMA ArriveKeeps ==
    ASSUME AccountsInv, NEW w \in Workers, Arrive(w)
    PROVE  AccountsInv'
<1> USE DEF AccountsInv, TypeOK
<1>1. ASSUME NEW u \in Users, NEW p \in Passwords, NEW old \in 0..logins, Login(w, u, p, old)
      PROVE  AccountsInv'
  <2> DEFINE r == [Call("login", u, logins + 1, 0, None, "admin", FALSE, None, p) EXCEPT !.old = old]
  <2>0. Call("login", u, logins + 1, 0, None, "admin", FALSE, None, p) \in Request
    BY DEF Call, Request, Kinds, AdminKinds, Roles
  <2>1. r \in Request
    <3>1. old \in Nat
      BY <1>1
    <3> QED BY <3>1, <2>0 DEF Request
  <2>4. r.kind = "login" /\ r.actor = u /\ r.pass = p
    BY DEF Call
  <2>3. Names(r, "read")
    BY <2>4 DEF AdminKinds, Names, ChangeKinds
  <2>2. Accept(w, r, "read") /\ edits' \in Nat /\ logins' \in Nat
    BY <1>1 DEF Login
  <2> HIDE DEF r
  <2> QED BY <2>1, <2>2, <2>3, <2>4, AcceptKeeps
<1>2. ASSUME NEW kind \in AdminKinds \cup {"change"}, NEW s \in sessions, NEW u \in Users,
             NEW role \in Roles, NEW on \in BOOLEAN,
             NEW current \in Passwords \cup {None}, NEW p \in Passwords \cup {None},
             kind # "update" => p \in Passwords, kind = "change" => u = s.user,
             Edit(w, Call(kind, s.user, s.id, s.version, u, role, on, current, p), "identify")
      PROVE  AccountsInv'
  <2> DEFINE r == Call(kind, s.user, s.id, s.version, u, role, on, current, p)
  <2>0. s.user \in Users /\ s.id \in Nat /\ s.version \in Nat
    BY DEF Session
  <2>1. r \in Request /\ Names(r, "identify")
    BY <1>2, <2>0 DEF Call, Request, Kinds, AdminKinds, Names, ChangeKinds
  <2>2. Accept(w, r, "identify") /\ edits' \in Nat /\ logins' \in Nat
    BY <1>2 DEF Edit
  <2>3. r.kind = "change" => r.target \in exists
    BY <1>2 DEF Call, Fresh
  <2> HIDE DEF r
  <2> QED BY <2>1, <2>2, <2>3, AcceptKeeps
<1>3. ASSUME NEW s \in sessions, Logout(w, s)
      PROVE  AccountsInv'
  <2> DEFINE r == Call("logout", s.user, s.id, s.version, None, "admin", FALSE, None, None)
  <2>0. s.user \in Users /\ s.id \in Nat /\ s.version \in Nat
    BY DEF Session
  <2>1. r \in Request /\ Names(r, "identify") /\ r.kind = "logout"
    BY <2>0 DEF Call, Request, Kinds, AdminKinds, Roles, Names, ChangeKinds
  <2>2. Accept(w, r, "identify") /\ edits' \in Nat /\ logins' \in Nat
    BY <1>3 DEF Logout
  <2> HIDE DEF r
  <2> QED BY <2>1, <2>2, AcceptKeeps
<1>4. ASSUME NEW u \in Users, NEW p \in Passwords, NEW kind \in {"bootstrap", "recover"},
             NEW step \in {"latch", "lock"}, step = "lock" <=> kind = "recover",
             Edit(w, Call(kind, None, 0, 0, u, "super_admin", TRUE, None, p), step)
      PROVE  AccountsInv'
  <2> DEFINE r == Call(kind, None, 0, 0, u, "super_admin", TRUE, None, p)
  <2>1. r \in Request /\ r.kind = kind /\ Names(r, step)
    BY <1>4 DEF Call, Request, Kinds, AdminKinds, Roles, Names, ChangeKinds
  <2>2. Accept(w, r, step)
    BY <1>4 DEF Edit
  <2>3. edits' \in Nat /\ logins' \in Nat
    BY <1>4 DEF Edit
  <2> HIDE DEF r
  <2> QED BY <1>4, <2>1, <2>2, <2>3, AcceptKeeps
<1> HIDE DEF AccountsInv, TypeOK
<1>5. ASSUME NEW s \in sessions, NEW u \in Users, NEW role \in Roles, NEW p \in Passwords, Create(w, s, u, role, p)
      PROVE  AccountsInv'
  <2>1. "create" \in AdminKinds /\ TRUE \in BOOLEAN /\ "create" # "change" /\ p \in Passwords \cup {None}
    BY DEF AdminKinds
  <2>2. Edit(w, Call("create", s.user, s.id, s.version, u, role, TRUE, None, p), "identify")
    BY <1>5 DEF Create
  <2> QED BY <2>1, <2>2, <1>2
<1>6. ASSUME NEW s \in sessions, NEW u \in Users, NEW role \in Roles, NEW on \in BOOLEAN, Update(w, s, u, role, on)
      PROVE  AccountsInv'
  BY <1>6, <1>2 DEF Update, AdminKinds
<1>7. ASSUME NEW s \in sessions, NEW u \in Users, NEW p \in Passwords, Reset(w, s, u, p)
      PROVE  AccountsInv'
  <2>1. "reset" \in AdminKinds /\ "admin" \in Roles /\ FALSE \in BOOLEAN /\ "reset" # "change"
    BY DEF AdminKinds, Roles
  <2>2. Edit(w, Call("reset", s.user, s.id, s.version, u, "admin", FALSE, None, p), "identify")
    BY <1>7 DEF Reset
  <2> QED BY <2>1, <2>2, <1>2
<1>8. ASSUME NEW s \in sessions, NEW current \in Passwords, NEW p \in Passwords, Change(w, s, current, p)
      PROVE  AccountsInv'
  <2>1. s.user \in Users
    BY DEF AccountsInv, TypeOK, Session
  <2> QED BY <1>8, <2>1, <1>2 DEF Change, Roles
<1>9. ASSUME NEW u \in Users, NEW p \in Passwords, Bootstrap(w, u, p) \/ Recover(w, u, p)
      PROVE  AccountsInv'
  BY <1>4, <1>9 DEF Bootstrap, Recover
<1> QED BY <1>1, <1>3, <1>5, <1>6, <1>7, <1>8, <1>9 DEF Arrive

-----------------------------------------------------------------------------
(* The steps of requests that write no account.                            *)

\* What an account looks like.
LEMMA AccountType ==
    ASSUME AccountsInv, NEW u \in Users
    PROVE  account[u] \in Account /\ account[u].version \in Nat
BY DEF AccountsInv, TypeOK, Account

\* Reading the caller's row.
LEMMA RemembersSelf ==
    ASSUME AccountsInv, NEW w \in Workers, NEW a \in Account, mem' = [mem EXCEPT ![w].self = a]
    PROVE  \E m \in Memory : m.self = a /\ m.row = mem[w].row /\ mem' = [mem EXCEPT ![w] = m]
<1> DEFINE m == [mem[w] EXCEPT !.self = a]
<1>1. mem[w] \in Memory /\ mem \in [Workers -> Memory]
  BY DEF AccountsInv, TypeOK
<1>2. m \in Memory /\ m.self = a /\ m.row = mem[w].row
  BY <1>1 DEF Memory
<1>3. mem' = [mem EXCEPT ![w] = m]
  BY <1>1
<1> QED BY <1>2, <1>3

\* Reading the row that is changed.
LEMMA RemembersRow ==
    ASSUME AccountsInv, NEW w \in Workers, NEW a \in Account, mem' = [mem EXCEPT ![w].row = a]
    PROVE  \E m \in Memory : m.row = a /\ m.self = mem[w].self /\ mem' = [mem EXCEPT ![w] = m]
<1> DEFINE m == [mem[w] EXCEPT !.row = a]
<1>1. mem[w] \in Memory /\ mem \in [Workers -> Memory]
  BY DEF AccountsInv, TypeOK
<1>2. m \in Memory /\ m.row = a /\ m.self = mem[w].self
  BY <1>1 DEF Memory
<1>3. mem' = [mem EXCEPT ![w] = m]
  BY <1>1
<1> QED BY <1>2, <1>3

\* Sessions that stay or are deleted are tracked.
LEMMA FewerTracked ==
    ASSUME AccountsInv, sessions' \subseteq sessions
    PROVE  Tracked
BY DEF AccountsInv, TypeOK, Tracked

\* login: the account read, the old session deleted, the new one opened.
LEMMA LoginKeeps ==
    ASSUME AccountsInv, NEW w \in Workers, ReadAccount(w) \/ ReplaceSession(w) \/ OpenSession(w)
    PROVE  AccountsInv'
<1>1. CASE ReadAccount(w)
  <2> DEFINE a == account[req[w].actor]
  <2>1. pc[w] = "read" /\ req[w].kind = "login" /\ req[w].actor \in Users /\ Names(req[w], "read")
    BY <1>1 DEF ReadAccount, AccountsInv, Names
  <2>2. a \in Account /\ a.version \in Nat /\ Tracked
    BY <1>1, <2>1, AccountType, FewerTracked DEF ReadAccount
  <2>3. CASE req[w].actor \in exists /\ a.on /\ a.password = req[w].pass
    <3>1. Goto(w, "replace") /\ mem' = [mem EXCEPT ![w].self = a] /\ UNCHANGED <<rows, writer, req, sessions, edits, logins>>
      BY <1>1, <2>3 DEF ReadAccount
    <3>2. PICK m \in Memory : m.self = a /\ mem' = [mem EXCEPT ![w] = m]
      BY <2>2, <3>1, RemembersSelf
    <3>3. Knows(req[w], "replace", m) /\ "replace" \in Steps /\ "replace" \notin LockedAt
      BY <2>1, <2>2, <2>3, <3>2 DEF Knows, Fresh, Steps, LockedAt
    <3>4. Names(req[w], "replace")
      BY <2>1 DEF Names
    <3> QED BY <2>2, <3>1, <3>2, <3>3, <3>4, GoesOn
  <2>4. CASE ~(req[w].actor \in exists /\ a.on /\ a.password = req[w].pass)
    BY <1>1, <2>2, <2>4, LeaveKeeps DEF ReadAccount
  <2> QED BY <2>3, <2>4
<1>2. CASE ReplaceSession(w)
  <2>1. Names(req[w], "replace") /\ Knows(req[w], "replace", mem[w])
    BY <1>2 DEF ReplaceSession, AccountsInv
  <2>2. Names(req[w], "open") /\ Knows(req[w], "open", mem[w]) /\ "open" \in Steps /\ "open" \notin LockedAt
    BY <2>1 DEF Names, Knows, Steps, LockedAt
  <2>3. Tracked
    BY <1>2, FewerTracked DEF ReplaceSession, Without
  <2> QED BY <1>2, <2>2, <2>3, MovesOn DEF ReplaceSession
<1>3. CASE OpenSession(w)
  <2> DEFINE s == [id |-> req[w].sid, user |-> req[w].actor, version |-> mem[w].self.version,
                   proof |-> req[w].pass, role |-> mem[w].self.role]
  <2>1. Names(req[w], "open") /\ Knows(req[w], "open", mem[w]) /\ req[w] \in Request /\ mem[w] \in Memory
    BY <1>3 DEF OpenSession, AccountsInv, TypeOK
  <2>2. req[w].actor \in Users /\ req[w].pass \in Passwords /\ req[w].kind = "login"
    BY <2>1 DEF Names
  <2>3. s \in Session
    BY <2>1, <2>2 DEF Session, Request, Memory, Account
  <2>4. Fresh(s.user, s.version, s.proof, s.role)
    BY <2>1 DEF Knows
  <2>5. sessions' = sessions \cup {s}
    BY <1>3 DEF OpenSession, VersionAtLogin
  <2> HIDE DEF s
  <2>6. Tracked
    BY <2>3, <2>4, <2>5 DEF Tracked, AccountsInv, TypeOK
  <2> QED BY <1>3, <2>6, LeaveKeeps DEF OpenSession
<1> QED BY <1>1, <1>2, <1>3

\* current_identity and the deletion of a session.
LEMMA IdentifyKeeps ==
    ASSUME AccountsInv, NEW w \in Workers, Identify(w) \/ DropSession(w)
    PROVE  AccountsInv'
<1>1. CASE Identify(w)
  <2> DEFINE a == account[req[w].actor]
             step == IF req[w].kind = "logout" THEN "drop" ELSE "lock"
  <2>1. pc[w] = "identify" /\ Names(req[w], "identify") /\ Knows(req[w], "identify", mem[w])
    BY <1>1 DEF Identify, AccountsInv
  <2>2. req[w].kind \in AdminKinds \cup {"change", "logout"} /\ req[w].actor \in Users
    BY <2>1 DEF Names
  <2>3. a \in Account /\ Tracked
    BY <1>1, <2>2, AccountType, FewerTracked DEF Identify
  <2>4. CASE Identified(w, a)
    <3>1. Goto(w, step) /\ UNCHANGED <<rows, writer, req, sessions, edits, logins>>
      BY <1>1, <2>4 DEF Identify
    <3>6. mem' = [mem EXCEPT ![w].self = a]
      BY <1>1, <2>4 DEF Identify
    <3>2. PICK m \in Memory : m.self = a /\ mem' = [mem EXCEPT ![w] = m]
      BY <2>3, <3>6, RemembersSelf
    <3>3. Knows(req[w], step, m)
      BY <2>1, <2>4, <3>2 DEF Knows, Identified
    <3>4. step \in Steps /\ step \notin LockedAt
      BY DEF Steps, LockedAt
    <3>5. Names(req[w], step)
      BY <2>1, <2>2 DEF Names, AdminKinds
    <3> HIDE DEF step
    <3> QED BY <2>3, <3>1, <3>2, <3>3, <3>4, <3>5, GoesOn
  <2>5. CASE ~Identified(w, a)
    BY <1>1, <2>3, <2>5, LeaveKeeps DEF Identify
  <2> QED BY <2>4, <2>5
<1>2. CASE DropSession(w)
  <2>1. Tracked
    BY <1>2, FewerTracked DEF DropSession, Without
  <2> QED BY <1>2, <2>1, LeaveKeeps DEF DropSession
<1> QED BY <1>1, <1>2

\* Taking the lock, and what is first checked inside it.
LEMMA LockKeeps ==
    ASSUME AccountsInv, NEW w \in Workers, LockUsers(w) \/ RefreshActor(w) \/ InsertLatch(w) \/ CountUsers(w)
    PROVE  AccountsInv'
<1>1. /\ Names(req[w], pc[w]) /\ Knows(req[w], pc[w], mem[w]) /\ (pc[w] \in LockedAt => writer = w)
      /\ mem[w] \in Memory /\ req[w] \in Request
  BY DEF AccountsInv, TypeOK
<1>2. Tracked
  BY FewerTracked DEF LockUsers, RefreshActor, InsertLatch, CountUsers
<1>3. CASE LockUsers(w)
  <2>1. pc[w] = "lock" /\ req[w].kind \in AdminKinds \cup {"change", "recover"}
    BY <1>1, <1>3 DEF LockUsers, Names
  <2>2. CASE latch
    <3> DEFINE step == IF req[w].kind = "change" THEN "own row"
                       ELSE IF req[w].kind = "recover" THEN "recover" ELSE "refresh"
    <3>1. UNCHANGED <<rows, sessions, edits, logins, req, mem>> /\ writer = None /\ writer' = w
      BY <1>3, <2>2 DEF LockUsers, Unwritten
    <3>2. Goto(w, step)
      BY <1>3, <2>1, <2>2 DEF LockUsers, AdminKinds
    <3>3. Names(req[w], step) /\ Knows(req[w], step, mem[w])
      BY <1>1, <2>1 DEF Names, Knows, AdminKinds
    <3>4. mem' = [mem EXCEPT ![w] = mem[w]] /\ step \in Steps
      BY <3>1 DEF AccountsInv, TypeOK, Steps, LockedAt
    <3> HIDE DEF step
    <3> QED BY <1>1, <1>2, <3>1, <3>2, <3>3, <3>4, GoesOn
  <2>3. CASE ~latch
    BY <1>2, <1>3, <2>3, LeaveKeeps DEF LockUsers
  <2> QED BY <2>2, <2>3
<1>4. CASE RefreshActor(w)
  <2>1. pc[w] = "refresh" /\ req[w].kind \in AdminKinds
    BY <1>1, <1>4 DEF RefreshActor, Names
  <2>2. CASE Confirmed(w)
    <3>1. Names(req[w], "target") /\ Knows(req[w], "target", mem[w])
      BY <1>1, <2>1, <2>2 DEF Names, Knows, Confirmed, Entitled
    <3>2. "target" \in Steps /\ ("target" \in LockedAt => writer = w)
      BY <1>1, <2>1 DEF Steps, LockedAt
    <3> QED BY <1>2, <1>4, <2>2, <3>1, <3>2, MovesOn DEF RefreshActor
  <2>3. CASE ~Confirmed(w)
    BY <1>2, <1>4, <2>3, LeaveKeeps DEF RefreshActor
  <2> QED BY <2>2, <2>3
<1>5. CASE InsertLatch(w)
  <2>1. pc[w] = "latch" /\ req[w].kind = "bootstrap"
    BY <1>1, <1>5 DEF InsertLatch, Names
  <2>2. CASE ~latch
    <3>1. Goto(w, "count users") /\ writer = None /\ writer' = w /\ UNCHANGED <<rows, sessions, edits, logins, req, mem>>
      BY <1>5, <2>2 DEF InsertLatch, Unwritten
    <3>2. Names(req[w], "count users") /\ Knows(req[w], "count users", mem[w])
      BY <1>1, <2>1 DEF Names, Knows, AdminKinds
    <3>3. mem' = [mem EXCEPT ![w] = mem[w]] /\ "count users" \in Steps
      BY <3>1 DEF AccountsInv, TypeOK, Steps, LockedAt
    <3> QED BY <1>1, <1>2, <3>1, <3>2, <3>3, GoesOn
  <2>3. CASE latch
    BY <1>2, <1>5, <2>3, LeaveKeeps DEF InsertLatch
  <2> QED BY <2>2, <2>3
<1>6. CASE CountUsers(w)
  <2>1. pc[w] = "count users" /\ req[w].kind = "bootstrap"
    BY <1>1, <1>6 DEF CountUsers, Names
  <2>2. CASE exists = {}
    <3>1. Names(req[w], "commit")
      BY <1>1, <2>1 DEF Names, ChangeKinds
    <3>2. Knows(req[w], "commit", mem[w])
      BY <2>1, <2>2 DEF Knows, Checked, UpToDate, Removes, AdminKinds
    <3>3. "commit" \in Steps /\ ("commit" \in LockedAt => writer = w)
      BY <1>1, <2>1 DEF Steps, LockedAt
    <3> QED BY <1>2, <1>6, <2>2, <3>1, <3>2, <3>3, MovesOn DEF CountUsers
  <2>3. CASE exists # {}
    BY <1>2, <1>6, <2>3, LeaveKeeps DEF CountUsers
  <2> QED BY <2>2, <2>3
<1> QED BY <1>3, <1>4, <1>5, <1>6

\* Where two super administrators are counted there is one beside any user.
LEMMA AnotherSuper ==
    ASSUME AccountsInv, Dispensable, NEW u
    PROVE  \E s \in Supers : s # u
<1>1. IsFiniteSet(Supers)
  BY UsersAssumption, FS_Subset DEF AccountsInv, TypeOK, Supers
<1>2. SUFFICES ASSUME Supers \subseteq {u} PROVE FALSE
  BY <1>2
<1>3. IsFiniteSet({u}) /\ Cardinality({u}) = 1
  BY FS_Singleton
<1>4. Cardinality(Supers) <= 1
  BY <1>2, <1>3, FS_Subset
<1>5. Cardinality(Supers) \in Nat
  BY <1>1, FS_CardinalityType
<1> QED BY <1>4, <1>5 DEF Dispensable

\* update_user, reset_password and create_user up to their commit.
LEMMA TargetKeeps ==
    ASSUME AccountsInv, NEW w \in Workers, ReadTarget(w) \/ CountSupers(w)
    PROVE  AccountsInv'
<1>1. /\ Names(req[w], pc[w]) /\ Knows(req[w], pc[w], mem[w]) /\ (pc[w] \in LockedAt => writer = w)
      /\ mem[w] \in Memory
  BY DEF AccountsInv, TypeOK
<1>2. Tracked
  BY FewerTracked DEF ReadTarget, CountSupers
<1>3. CASE ReadTarget(w)
  <2> DEFINE a == account[req[w].target]
             step == IF Removes(req[w], a) THEN "count" ELSE "commit"
  <2>1. pc[w] = "target" /\ writer = w /\ req[w].kind \in AdminKinds /\ req[w].target \in Users /\ Entitled(req[w])
    BY <1>1, <1>3 DEF ReadTarget, Names, Knows, LockedAt, AdminKinds, ChangeKinds
  <2>2. a \in Account
    BY <2>1, AccountType
  <2>3. CASE Addressed(req[w])
    <3>1. Goto(w, step) /\ UNCHANGED <<rows, writer, req, sessions, edits, logins>>
      BY <1>3, <2>3 DEF ReadTarget
    <3>2. mem' = [mem EXCEPT ![w].row = a]
      BY <1>3, <2>3 DEF ReadTarget
    <3>3. PICK m \in Memory : m.row = a /\ mem' = [mem EXCEPT ![w] = m]
      BY <2>2, <3>2, RemembersRow
    <3>4. Names(req[w], step)
      BY <1>1, <2>1 DEF Names, AdminKinds, ChangeKinds, Removes
    <3>5. UpToDate(req[w], m.row)
      BY <2>1, <2>3, <3>3 DEF UpToDate, Addressed, AdminKinds
    <3>6. Knows(req[w], step, m)
      BY <2>1, <3>3, <3>5 DEF Knows, Checked, AdminKinds
    <3>7. step \in Steps
      BY DEF Steps, LockedAt
    <3> HIDE DEF step
    <3> QED BY <1>2, <2>1, <3>1, <3>3, <3>4, <3>6, <3>7, GoesOn
  <2>4. CASE ~Addressed(req[w])
    BY <1>2, <1>3, <2>4, LeaveKeeps DEF ReadTarget
  <2> QED BY <2>3, <2>4
<1>4. CASE CountSupers(w)
  <2>1. pc[w] = "count" /\ writer = w /\ req[w].kind = "update" /\ UpToDate(req[w], mem[w].row)
    BY <1>1, <1>4 DEF CountSupers, Names, Knows, LockedAt
  <2>2. CASE Dispensable
    <3>1. \E s \in Supers : s # req[w].target
      BY <2>2, AnotherSuper
    <3>2. Names(req[w], "commit") /\ Knows(req[w], "commit", mem[w]) /\ "commit" \in Steps
      BY <1>1, <2>1, <3>1 DEF Names, Knows, Checked, ChangeKinds, AdminKinds, Steps, LockedAt
    <3> QED BY <1>2, <1>4, <2>1, <2>2, <3>2, MovesOn DEF CountSupers
  <2>3. CASE ~Dispensable
    BY <1>2, <1>4, <2>3, LeaveKeeps DEF CountSupers
  <2> QED BY <2>2, <2>3
<1> QED BY <1>3, <1>4

\* change_password and the recovery up to their commit.
LEMMA OwnRowKeeps ==
    ASSUME AccountsInv, NEW w \in Workers, ReadOwnRow(w) \/ ReadRecovered(w)
    PROVE  AccountsInv'
<1>1. /\ Names(req[w], pc[w]) /\ Knows(req[w], pc[w], mem[w]) /\ (pc[w] \in LockedAt => writer = w)
      /\ mem[w] \in Memory
  BY DEF AccountsInv, TypeOK
<1>2. Tracked
  BY FewerTracked DEF ReadOwnRow, ReadRecovered
<1>3. ASSUME NEW a \in Account, a = account[req[w].target], writer = w,
             req[w].target \in exists, req[w].kind \in {"change", "recover"},
             req[w].kind = "change" => req[w].current = a.password,
             req[w].kind = "recover" => a.role = "super_admin",
             Goto(w, "commit"), mem' = [mem EXCEPT ![w].row = a],
             UNCHANGED <<rows, writer, req, sessions, edits, logins>>
      PROVE  AccountsInv'
  <2>1. PICK m \in Memory : m.row = a /\ mem' = [mem EXCEPT ![w] = m]
    BY ZenonT(30), <1>3, RemembersRow
  <2>2. Names(req[w], "commit")
    BY <1>1, <1>3 DEF Names, ChangeKinds
  <2>3. Knows(req[w], "commit", m)
    BY <1>3, <2>1 DEF Knows, Checked, UpToDate, Removes, AdminKinds
  <2> QED BY <1>2, <1>3, <2>1, <2>2, <2>3, GoesOn DEF Steps, LockedAt
<1>4. CASE ReadOwnRow(w)
  <2> DEFINE a == account[req[w].actor]
  <2>1. pc[w] = "own row" /\ writer = w /\ req[w].kind = "change" /\ req[w].target \in Users /\ req[w].target = req[w].actor
    BY <1>1, <1>4 DEF ReadOwnRow, Names, LockedAt, ChangeKinds
  <2>2. a \in Account
    BY <2>1, AccountType
  <2>3. CASE a.on /\ Proven(w, a) /\ req[w].current # req[w].pass
    <3>1. Goto(w, "commit") /\ UNCHANGED <<rows, writer, req, sessions, edits, logins>>
      BY <1>4, <2>3 DEF ReadOwnRow
    <3>2. mem' = [mem EXCEPT ![w].row = a]
      BY <1>4, <2>3 DEF ReadOwnRow
    <3>3. req[w].target \in exists
      BY <1>1, <2>1 DEF Knows
    <3> QED BY <1>3, <2>1, <2>2, <2>3, <3>1, <3>2, <3>3 DEF Proven
  <2>4. CASE ~(a.on /\ Proven(w, a) /\ req[w].current # req[w].pass)
    BY <1>2, <1>4, <2>4, LeaveKeeps DEF ReadOwnRow
  <2> QED BY <2>3, <2>4
<1>5. CASE ReadRecovered(w)
  <2> DEFINE a == account[req[w].target]
  <2>1. pc[w] = "recover" /\ writer = w /\ req[w].kind = "recover" /\ req[w].target \in Users
    BY <1>1, <1>5 DEF ReadRecovered, Names, LockedAt, ChangeKinds
  <2>2. a \in Account
    BY <2>1, AccountType
  <2>3. CASE req[w].target \in exists /\ a.role = "super_admin"
    <3>1. Goto(w, "commit") /\ UNCHANGED <<rows, writer, req, sessions, edits, logins>>
      BY <1>5, <2>3 DEF ReadRecovered
    <3>2. mem' = [mem EXCEPT ![w].row = a]
      BY <1>5, <2>3 DEF ReadRecovered
    <3> QED BY <1>3, <2>1, <2>2, <2>3, <3>1, <3>2
  <2>4. CASE ~(req[w].target \in exists /\ a.role = "super_admin")
    BY <1>2, <1>5, <2>4, LeaveKeeps DEF ReadRecovered
  <2> QED BY <2>3, <2>4
<1> QED BY <1>4, <1>5

-----------------------------------------------------------------------------
(* The commit.                                                             *)

\* What is written: a proper row, that agrees with the old one or is newer,
\* and takes no super administrator away that was not counted.
LEMMA EditedRow ==
    ASSUME AccountsInv, NEW w \in Workers, pc[w] = "commit",
           NEW t, t = req[w].target, NEW e, e = Edited(w)
    PROVE  /\ t \in Users
           /\ e \in Account /\ e.password # None /\ e.version > 0
           /\ t \in exists =>
                /\ account[t].version <= e.version
                /\ e.version = account[t].version => e.password = account[t].password /\ e.role = account[t].role
           /\ \/ e.role = "super_admin" /\ e.on
              \/ req[w].kind # "bootstrap" /\ t \notin Supers
              \/ \E u \in Supers : u # t
<1> DEFINE r == req[w]
           a == mem[w].row
<1>1. r \in Request /\ a \in Account /\ Names(r, "commit") /\ Checked(r, a)
  BY DEF AccountsInv, TypeOK, Memory, Knows
<1>2. r.kind \in ChangeKinds /\ t \in Users /\ (r.kind # "update" => r.pass \in Passwords)
  BY <1>1 DEF Names
<1>3. a.version \in Nat /\ a.role \in Roles /\ a.on \in BOOLEAN /\ a.must \in BOOLEAN /\ a.password \in Passwords \cup {None}
  BY <1>1 DEF Account
<1>4. r.role \in Roles /\ r.on \in BOOLEAN
  BY <1>1 DEF Request
<1>5. None \notin Passwords
  BY UsersAssumption
<1>6. NextVersion(a.version) = a.version + 1
  BY DEF NextVersion
<1>7. CASE r.kind \in {"create", "bootstrap"}
  <2>1. e = Row(r.role, TRUE, TRUE, 1, r.pass)
    BY <1>7 DEF Edited
  <2>2. e \in Account /\ e.password # None /\ e.version > 0 /\ e.role = r.role /\ e.on
    BY <1>2, <1>4, <1>5, <1>7, <2>1 DEF Row, Account
  <2>3. t \notin exists
    BY <1>1, <1>7 DEF Checked, UpToDate
  <2>4. r.kind = "bootstrap" => e.role = "super_admin"
    BY <1>1, <2>2 DEF Names
  <2> QED BY <1>2, <1>7, <2>2, <2>3, <2>4 DEF Supers
<1>8. CASE r.kind = "update"
  <2> DEFINE v == IF r.role # a.role \/ r.on # a.on THEN a.version + 1 ELSE a.version
  <2>1. e = Row(r.role, r.on, a.must, v, a.password)
    BY <1>6, <1>8 DEF Edited
  <2>2. t \in exists /\ a = account[t]
    BY <1>1, <1>8 DEF Checked, UpToDate
  <2>3. a.password # None /\ a.version > 0
    BY <2>2 DEF AccountsInv, TypeOK
  <2>4. v \in Nat /\ v >= a.version /\ (v = a.version => r.role = a.role)
    BY <1>3
  <2> HIDE DEF v
  <2>5. /\ e \in Account /\ e.password = a.password /\ e.version = v
        /\ e.role = r.role /\ e.on = r.on
    BY <1>3, <1>4, <2>1, <2>4 DEF Row, Account
  <2>6. Removes(r, a) \/ (e.role = "super_admin" /\ e.on) \/ t \notin Supers
    BY <1>8, <2>2, <2>5 DEF Removes, Supers
  <2>7. Removes(r, a) => \E u \in Supers : u # t
    BY <1>1 DEF Checked
  <2>8. e.version > 0
    BY <1>3, <2>3, <2>4, <2>5
  <2> QED BY <1>2, <1>8, <2>2, <2>3, <2>4, <2>5, <2>6, <2>7, <2>8
<1>9. CASE r.kind \in {"reset", "change", "recover"}
  <2> DEFINE on == a.on \/ r.kind = "recover"
             must == r.kind # "change"
  <2>1. e = Row(a.role, on, must, a.version + 1, r.pass)
    BY <1>6, <1>9 DEF Edited
  <2>2. t \in exists /\ a = account[t]
    BY <1>1, <1>9 DEF Checked, UpToDate
  <2>3. on \in BOOLEAN /\ must \in BOOLEAN /\ (a.on => on)
    BY <1>3
  <2> HIDE DEF on, must
  <2>4. /\ e \in Account /\ e.password # None /\ e.version = a.version + 1
        /\ e.role = a.role /\ (a.on => e.on)
    BY <1>2, <1>3, <1>5, <1>9, <2>1, <2>3 DEF Row, Account
  <2>5. (e.role = "super_admin" /\ e.on) \/ t \notin Supers
    BY <2>2, <2>4 DEF Supers
  <2> QED BY <1>2, <1>3, <1>9, <2>2, <2>4, <2>5
<1> QED BY <1>2, <1>7, <1>8, <1>9 DEF ChangeKinds, AdminKinds

\* The commit of any change: no one else is inside the lock.
LEMMA CommitKeeps ==
    ASSUME AccountsInv, NEW w \in Workers, Commit(w)
    PROVE  AccountsInv'
<1>1. pc[w] = "commit" /\ writer = w
  BY DEF Commit, AccountsInv, LockedAt
<1>2. PICK t, e : t = req[w].target /\ e = Edited(w)
  OBVIOUS
<1>3. /\ t \in Users
      /\ e \in Account /\ e.password # None /\ e.version > 0
      /\ t \in exists =>
           /\ account[t].version <= e.version
           /\ e.version = account[t].version => e.password = account[t].password /\ e.role = account[t].role
      /\ \/ e.role = "super_admin" /\ e.on
         \/ req[w].kind # "bootstrap" /\ t \notin Supers
         \/ \E u \in Supers : u # t
  BY <1>1, <1>2, EditedRow
<1>4. exists' = exists \cup {t} /\ account' = [account EXCEPT ![t] = e] /\ UNCHANGED <<sessions, edits, logins>>
  BY <1>2 DEF Commit
<1>5. account \in [Users -> Account] /\ account' \in [Users -> Account] /\ exists \subseteq Users /\ exists' \subseteq Users
  BY <1>3, <1>4 DEF AccountsInv, TypeOK
<1>6. account'[t] = e /\ \A u \in Users \ {t} : account'[u] = account[u]
  BY <1>3, <1>4, <1>5
<1>7. /\ writer' = None
      /\ latch' \in BOOLEAN /\ (latch' => latch \/ req[w].kind = "bootstrap")
  BY <1>1 DEF Commit, Leave, AccountsInv, TypeOK
<1>8. PICK step, r, m :
          /\ step \in {"idle", "drop"} /\ r \in Request /\ m \in Memory
          /\ pc' = [pc EXCEPT ![w] = step]
          /\ req' = [req EXCEPT ![w] = r]
          /\ mem' = [mem EXCEPT ![w] = m]
          /\ Names(r, step) /\ (r.kind = "change" => r.target \in exists')
  <2>1. CASE req[w].kind = "change"
    <3>1. req[w] \in Request /\ mem[w] \in Memory /\ Names(req[w], "commit")
      BY <1>1 DEF AccountsInv, TypeOK
    <3>2. Names(req[w], "drop")
      BY <3>1 DEF Names
    <3>3. pc' = [pc EXCEPT ![w] = "drop"] /\ req' = [req EXCEPT ![w] = req[w]] /\ mem' = [mem EXCEPT ![w] = mem[w]]
      BY <2>1 DEF Commit, Goto, AccountsInv, TypeOK
    <3>4. req[w].target \in exists'
      BY <1>2, <1>4
    <3> QED BY <3>1, <3>2, <3>3, <3>4
  <2>2. CASE req[w].kind # "change"
    <3>1. Leave(w)
      BY <2>2 DEF Commit
    <3>2. Names(NoRequest, "idle")
      BY NothingType DEF Names, AdminKinds, ChangeKinds
    <3> QED BY <3>1, <3>2, NothingType DEF Leave, Goto
  <2> QED BY <2>1, <2>2
<1>9. TypeOK'
  <2>1. \A u \in exists' : account'[u].password # None /\ account'[u].version > 0
    BY <1>3, <1>4, <1>5, <1>6 DEF AccountsInv, TypeOK
  <2> QED BY <1>4, <1>5, <1>7, <1>8, <2>1 DEF AccountsInv, TypeOK, Steps
<1>10. ASSUME NEW u, NEW v \in Nat, NEW proof, NEW role, Fresh(u, v, proof, role)
       PROVE  Fresh(u, v, proof, role)'
  <2>1. u \in exists /\ u \in Users /\ account[u].version \in Nat /\ e.version \in Nat
    BY <1>3, <1>5, <1>10 DEF Fresh, Account
  <2> QED BY <1>3, <1>4, <1>6, <1>10, <2>1 DEF Fresh
<1>11. LastSuperKept'
  <2>1. SUFFICES ASSUME latch' PROVE \E u \in exists' : account'[u].role = "super_admin" /\ account'[u].on
    BY DEF LastSuperKept, Supers
  <2>2. CASE e.role = "super_admin" /\ e.on
    BY <1>4, <1>6, <2>2
  <2>3. CASE \E u \in Supers : u # t
    BY <1>4, <1>5, <1>6, <2>3 DEF Supers
  <2>4. CASE req[w].kind # "bootstrap" /\ t \notin Supers
    <3>1. \E u \in Supers : u # t
      BY <1>7, <2>1, <2>4 DEF AccountsInv, LastSuperKept
    <3> QED BY <2>3, <3>1
  <2> QED BY <1>3, <2>2, <2>3, <2>4
<1>12. \A s \in sessions' : Fresh(s.user, s.version, s.proof, s.role)'
  <2> TAKE s \in sessions'
  <2>1. s \in sessions /\ s.version \in Nat
    BY <1>4 DEF AccountsInv, TypeOK, Session
  <2>2. PICK u, v, proof, role : u = s.user /\ v = s.version /\ proof = s.proof /\ role = s.role
    OBVIOUS
  <2>3. Fresh(u, v, proof, role)
    BY <2>1, <2>2 DEF AccountsInv
  <2> QED BY <1>10, <2>1, <2>2, <2>3
<1>13. \A x \in Workers :
          /\ Names(req'[x], pc'[x])
          /\ Knows(req[x], pc[x], mem[x])'
          /\ pc'[x] \in LockedAt => writer' = x
  <2> TAKE x \in Workers
  <2>1. CASE x = w
    <3>1. req'[x] = r /\ pc'[x] = step /\ mem'[x] = m
      BY <1>8, <2>1 DEF AccountsInv, TypeOK
    <3>2. Names(req'[x], pc'[x]) /\ pc'[x] \notin LockedAt
      BY <1>8, <3>1 DEF LockedAt
    <3> QED BY <1>8, <3>1, <3>2 DEF Knows
  <2>2. CASE x # w
    <3>1. PICK rx, sx, mx : rx = req[x] /\ sx = pc[x] /\ mx = mem[x]
      OBVIOUS
    <3>2. req'[x] = rx /\ pc'[x] = sx /\ mem'[x] = mx
      BY <1>8, <2>2, <3>1 DEF AccountsInv, TypeOK
    <3>3. Names(rx, sx) /\ Knows(rx, sx, mx) /\ sx \notin LockedAt
      BY <1>1, <2>2, <3>1 DEF AccountsInv
    <3>4. mx.self.version \in Nat
      BY <3>1 DEF AccountsInv, TypeOK, Memory, Account
    <3>5. sx \in {"replace", "open"} => Fresh(rx.actor, mx.self.version, rx.pass, mx.self.role)'
      <4>1. PICK u, v, proof, role : u = rx.actor /\ v = mx.self.version /\ proof = rx.pass /\ role = mx.self.role
        OBVIOUS
      <4>2. sx \in {"replace", "open"} => Fresh(u, v, proof, role)
        BY <3>3, <4>1 DEF Knows
      <4>3. sx \in {"replace", "open"} => Fresh(u, v, proof, role)'
        BY <1>10, <3>4, <4>1, <4>2
      <4> QED BY <4>1, <4>3
    <3>6. rx.kind = "change" => rx.target \in exists'
      BY <1>4, <3>3 DEF Knows
    <3> QED BY <3>2, <3>3, <3>5, <3>6 DEF Knows, LockedAt
  <2> QED BY <2>1, <2>2
<1> QED BY <1>9, <1>11, <1>12, <1>13 DEF AccountsInv

-----------------------------------------------------------------------------
(* The theorems.                                                           *)

\* The empty database.
LEMMA Start ==
    ASSUME Init
    PROVE  AccountsInv
<1>1. TypeOK
  BY NothingType DEF Init, TypeOK, Steps
<1>2. LastSuperKept
  BY DEF Init, LastSuperKept
<1>3. \A w \in Workers : Names(req[w], pc[w]) /\ Knows(req[w], pc[w], mem[w]) /\ pc[w] \notin LockedAt
  BY NothingType DEF Init, Names, Knows, AdminKinds, ChangeKinds, LockedAt
<1> QED BY <1>1, <1>2, <1>3 DEF Init, AccountsInv

\* Every step of every request.
LEMMA Inductive ==
    ASSUME AccountsInv, [Next]_vars
    PROVE  AccountsInv'
<1>1. ASSUME NEW w \in Workers, Arrive(w) PROVE AccountsInv'
  BY <1>1, ArriveKeeps
<1>2. ASSUME NEW w \in Workers, Serve(w) PROVE AccountsInv'
  BY <1>2, LoginKeeps, IdentifyKeeps, LockKeeps, TargetKeeps, OwnRowKeeps, CommitKeeps DEF Serve
<1>3. ASSUME NEW w \in Workers, Abort(w) PROVE AccountsInv'
  <2>1. Tracked
    BY <1>3, FewerTracked DEF Abort
  <2> QED BY <1>3, <2>1, LeaveKeeps DEF Abort
<1>4. ASSUME NEW s \in sessions, ExpireSession(s) PROVE AccountsInv'
  <2>1. sessions' \subseteq sessions /\ UNCHANGED <<rows, writer, pc, req, mem, edits, logins>>
    BY <1>4 DEF ExpireSession
  <2> QED BY <2>1 DEF AccountsInv, TypeOK, LastSuperKept, Supers, Fresh, Knows, Checked, UpToDate, Entitled, rows
<1>5. CASE UNCHANGED vars
  BY <1>5 DEF vars, AccountsInv, TypeOK, LastSuperKept, Supers, Fresh, Knows, Checked, UpToDate, Entitled
<1> QED BY <1>1, <1>2, <1>3, <1>4, <1>5 DEF Next

\* The types, and everything that lock_users is meant to keep true.
THEOREM AccountsSafe == Spec => []AccountsInv
BY Start, Inductive, PTL DEF Spec

\* Sessions, requests and accounts keep their shape through every interleaving.
THEOREM AccountTypes == Spec => []TypeOK
<1>1. AccountsInv => TypeOK
  BY DEF AccountsInv
<1> QED BY <1>1, AccountsSafe, PTL

\* update_user: from the first account on there is an enabled super
\* administrator, however many demote or disable each other at once.
THEOREM SuperRemains == Spec => []LastSuperKept
<1>1. AccountsInv => LastSuperKept
  BY DEF AccountsInv
<1> QED BY <1>1, AccountsSafe, PTL

\* auth_version: a session that is still accepted belongs to the password and
\* the role of this moment, whatever logins were under way when they changed.
THEOREM SessionsEnd == Spec => []SessionsFresh
<1>1. AccountsInv => SessionsFresh
  BY DEF AccountsInv, SessionsFresh, Fresh
<1> QED BY <1>1, AccountsSafe, PTL

\* lock_users: who changes accounts is a super administrator when it happens.
THEOREM ActorsHold == Spec => ActorsEntitled
<1>1. AccountsInv => \A w \in Workers : pc[w] = "commit" /\ req[w].kind \in AdminKinds => Entitled(req[w])
  BY DEF AccountsInv, Knows, Checked, UpToDate
<1>2. AccountsInv /\ [Next]_vars =>
          [\A w \in Workers :
              pc[w] = "commit" /\ req[w].kind \in AdminKinds /\ account' # account =>
                  LET a == account[req[w].actor]
                  IN  a.on /\ a.role = "super_admin" /\ ~a.must /\ a.version = req[w].version]_vars
  BY <1>1 DEF Entitled
<1> QED BY <1>2, AccountsSafe, PTL DEF Spec, ActorsEntitled

\* change_password: the old password that is given is the one that is replaced.
THEOREM OldPasswordKnown == Spec => PasswordsProven
<1>1. AccountsInv => \A w \in Workers : pc[w] = "commit" /\ req[w].kind = "change" =>
                         req[w].current = account[req[w].target].password
  BY DEF AccountsInv, Knows, Checked, UpToDate
<1>2. AccountsInv /\ [Next]_vars =>
          [\A w \in Workers :
              pc[w] = "commit" /\ req[w].kind = "change" /\ account' # account =>
                  req[w].current = account[req[w].target].password]_vars
  BY <1>1
<1> QED BY <1>2, AccountsSafe, PTL DEF Spec, PasswordsProven

\* bootstrap: the command founds nothing where somebody is.
THEOREM FoundedOnce == Spec => OneFounder
<1>1. AccountsInv => \A w \in Workers : pc[w] = "commit" /\ req[w].kind = "bootstrap" => exists = {}
  BY DEF AccountsInv, Knows, Checked
<1>2. AccountsInv /\ [Next]_vars =>
          [\A w \in Workers : pc[w] = "commit" /\ pc'[w] = "idle" /\ req[w].kind = "bootstrap"
                              /\ exists' # exists => exists = {}]_vars
  BY <1>1
<1> QED BY <1>2, AccountsSafe, PTL DEF Spec, OneFounder

=============================================================================
