--------------------------- MODULE AdminAccounts ---------------------------
(***************************************************************************)
(* The administrator accounts (app/admin/users.py), their sessions         *)
(* (app/admin/auth.py, the handlers of app/admin/api.py) and the command   *)
(* that creates or recovers the first account (app/admin/cli.py).  Every   *)
(* change of an account is a transaction that first writes one row of      *)
(* ADMIN_SETTING, the key "__user_lock", and so waits for the transaction  *)
(* before it.  Logins and the checks of a session do not wait.             *)
(***************************************************************************)
EXTENDS FiniteSets, Integers

CONSTANTS
    Users,          \* user names
    Passwords,
    Workers,        \* requests and commands in flight at the same time
    None,           \* no account, no password, no transaction
    MaxEdits,       \* bound: how many changes of accounts may be asked for
    MaxLogins       \* bound: how many logins may be tried

ASSUME BoundsAssumption == MaxEdits \in Nat /\ MaxLogins \in Nat
ASSUME UsersAssumption == IsFiniteSet(Users) /\ None \notin Users \cup Passwords \cup Workers

VARIABLES
    exists,         \* rows of ADMIN_USER
    account,        \* what they hold
    latch,          \* the row "__user_lock" is committed
    writer,         \* the transaction that has written it and is not over
    sessions,       \* Redis: admin sessions
    pc, req, mem,   \* next step, request and memory of each worker
    edits, logins   \* how many there were

vars == <<exists, account, latch, writer, sessions, pc, req, mem, edits, logins>>

Roles == {"admin", "super_admin"}

Account == [role : Roles, on : BOOLEAN, must : BOOLEAN, version : Nat, password : Passwords \cup {None}]

Row(role, on, must, version, password) ==
    [role |-> role, on |-> on, must |-> must, version |-> version, password |-> password]

NoRow == Row("admin", FALSE, FALSE, 0, None)

\* Of the last two fields the program knows nothing: the password that was
\* given at the login and the role the account had then.
Session == [id : Nat, user : Users, version : Nat, proof : Passwords, role : Roles]

AdminKinds == {"create", "update", "reset"}
Kinds == AdminKinds \cup {"none", "login", "logout", "change", "bootstrap", "recover"}

\* version is what the session says; old names the session of the cookie.
Request == [kind : Kinds, actor : Users \cup {None}, sid : Nat, version : Nat, old : Nat,
            target : Users \cup {None}, role : Roles, on : BOOLEAN,
            current : Passwords \cup {None}, pass : Passwords \cup {None}]

Call(kind, actor, sid, version, target, role, on, current, pass) ==
    [kind |-> kind, actor |-> actor, sid |-> sid, version |-> version, old |-> 0, target |-> target,
     role |-> role, on |-> on, current |-> current, pass |-> pass]

\* The rows of the caller and of the account to be changed, as they were read.
Memory == [self : Account, row : Account]

NoRequest == Call("none", None, 0, 0, None, "admin", FALSE, None, None)
NoMemory == [self |-> NoRow, row |-> NoRow]

LockedAt == {"count users", "refresh", "target", "count", "own row", "recover", "commit"}
Steps == {"idle", "read", "replace", "open", "identify", "latch", "lock", "drop"} \cup LockedAt

TypeOK ==
    /\ exists \subseteq Users
    /\ account \in [Users -> Account]
    /\ \A u \in exists : account[u].password # None /\ account[u].version > 0
    /\ latch \in BOOLEAN
    /\ writer \in Workers \cup {None}
    /\ sessions \subseteq Session
    /\ pc \in [Workers -> Steps]
    /\ req \in [Workers -> Request]
    /\ mem \in [Workers -> Memory]
    /\ edits \in Nat /\ logins \in Nat

Init ==
    /\ exists = {}
    /\ account = [u \in Users |-> NoRow]
    /\ latch = FALSE /\ writer = None
    /\ sessions = {}
    /\ pc = [w \in Workers |-> "idle"]
    /\ req = [w \in Workers |-> NoRequest]
    /\ mem = [w \in Workers |-> NoMemory]
    /\ edits = 0 /\ logins = 0

rows == <<exists, account, latch>>

-----------------------------------------------------------------------------

Goto(w, step) == pc' = [pc EXCEPT ![w] = step]

\* The answer is sent, whatever it is; an open transaction is rolled back.
Leave(w) ==
    /\ Goto(w, "idle")
    /\ req' = [req EXCEPT ![w] = NoRequest]
    /\ mem' = [mem EXCEPT ![w] = NoMemory]
    /\ writer' = IF writer = w THEN None ELSE writer

Move(w, step) == Goto(w, step) /\ UNCHANGED <<writer, req, mem>>

Accept(w, r, step) ==
    /\ pc[w] = "idle"
    /\ Goto(w, step)
    /\ req' = [req EXCEPT ![w] = r]
    /\ UNCHANGED <<rows, writer, sessions, mem>>

Edit(w, r, step) ==
    /\ edits < MaxEdits /\ edits' = edits + 1
    /\ Accept(w, r, step)
    /\ UNCHANGED logins

Supers == {u \in exists : account[u].role = "super_admin" /\ account[u].on}

-----------------------------------------------------------------------------
(* login: the row is read once; the session is opened three calls later.   *)

Login(w, u, p, old) ==
    /\ logins < MaxLogins /\ logins' = logins + 1
    /\ Accept(w, [Call("login", u, logins + 1, 0, None, "admin", FALSE, None, p) EXCEPT !.old = old], "read")
    /\ UNCHANGED edits

ReadAccount(w) ==
    LET a == account[req[w].actor]
    IN  /\ pc[w] = "read"
        /\ IF req[w].actor \in exists /\ a.on /\ a.password = req[w].pass
           THEN Goto(w, "replace") /\ mem' = [mem EXCEPT ![w].self = a] /\ UNCHANGED <<writer, req>>
           ELSE Leave(w)
        /\ UNCHANGED <<rows, sessions, edits, logins>>

Without(id) == {s \in sessions : s.id # id}

ReplaceSession(w) ==
    /\ pc[w] = "replace"
    /\ sessions' = Without(req[w].old)
    /\ Move(w, "open")
    /\ UNCHANGED <<rows, edits, logins>>

\* A plausible slip: the version is looked up again when the session is written.
VersionAtOpen(w) == account[req[w].actor].version
VersionAtLogin(w) == mem[w].self.version

OpenSession(w) ==
    /\ pc[w] = "open"
    /\ sessions' = sessions \cup
           {[id |-> req[w].sid, user |-> req[w].actor, version |-> VersionAtLogin(w),
             proof |-> req[w].pass, role |-> mem[w].self.role]}
    /\ Leave(w)
    /\ UNCHANGED <<rows, edits, logins>>

ExpireSession(s) ==
    /\ sessions' = sessions \ {s}
    /\ UNCHANGED <<rows, writer, pc, req, mem, edits, logins>>

-----------------------------------------------------------------------------
(* Requests with a session.                                                *)

Create(w, s, u, role, p) ==
    Edit(w, Call("create", s.user, s.id, s.version, u, role, TRUE, None, p), "identify")
Update(w, s, u, role, on) ==
    Edit(w, Call("update", s.user, s.id, s.version, u, role, on, None, None), "identify")
Reset(w, s, u, p) ==
    Edit(w, Call("reset", s.user, s.id, s.version, u, "admin", FALSE, None, p), "identify")
Change(w, s, current, p) ==
    Edit(w, Call("change", s.user, s.id, s.version, s.user, "admin", FALSE, current, p), "identify")
Logout(w, s) ==
    /\ Accept(w, Call("logout", s.user, s.id, s.version, None, "admin", FALSE, None, None), "identify")
    /\ UNCHANGED <<edits, logins>>

\* current_identity, administrator and super_administrator.
Identified(w, a) ==
    /\ a.on /\ a.version = req[w].version
    /\ req[w].kind \in AdminKinds => ~a.must /\ a.role = "super_admin"

Identify(w) ==
    LET a == account[req[w].actor]
    IN  /\ pc[w] = "identify"
        /\ IF Identified(w, a)
           THEN /\ Goto(w, IF req[w].kind = "logout" THEN "drop" ELSE "lock")
                /\ mem' = [mem EXCEPT ![w].self = a]
                /\ UNCHANGED <<writer, req>>
           ELSE Leave(w)
        /\ UNCHANGED <<rows, sessions, edits, logins>>

\* logout, and the end of a change of password.
DropSession(w) ==
    /\ pc[w] = "drop"
    /\ sessions' = Without(req[w].sid)
    /\ Leave(w)
    /\ UNCHANGED <<rows, edits, logins>>

-----------------------------------------------------------------------------
(* The transactions.                                                       *)

\* A plausible slip: the transactions do not wait for each other.
Unserialized == TRUE
Unwritten == writer = None

\* lock_users, and the first line of change_password.
LockUsers(w) ==
    /\ pc[w] = "lock"
    /\ \/ ~latch /\ Leave(w)            \* 503
       \/ /\ latch /\ Unwritten
          /\ \/ req[w].kind = "change" /\ Goto(w, "own row")
             \/ req[w].kind = "recover" /\ Goto(w, "recover")
             \/ req[w].kind \in AdminKinds /\ Goto(w, "refresh")
          /\ writer' = w
          /\ UNCHANGED <<req, mem>>
    /\ UNCHANGED <<rows, sessions, edits, logins>>

\* A plausible slip: trusting the caller's row as it was identified.
Remembered(w) == mem[w].self.on
Confirmed(w) ==
    LET a == account[req[w].actor]
    IN  a.version = mem[w].self.version /\ a.on /\ a.role = "super_admin" /\ ~a.must

RefreshActor(w) ==
    /\ pc[w] = "refresh"
    /\ IF Confirmed(w) THEN Move(w, "target") ELSE Leave(w)
    /\ UNCHANGED <<rows, sessions, edits, logins>>

\* The update takes an enabled super administrator away.
Removes(r, a) ==
    /\ r.kind = "update"
    /\ a.on /\ a.role = "super_admin"
    /\ ~r.on \/ r.role # "super_admin"

\* A plausible slip: the edited account is not looked for first.
Unchecked(r) == r.kind = "create" => r.target \notin exists
Addressed(r) == (r.target \in exists) = (r.kind # "create")

ReadTarget(w) ==
    LET a == account[req[w].target]
    IN  /\ pc[w] = "target"
        /\ IF Addressed(req[w])
           THEN /\ Goto(w, IF Removes(req[w], a) THEN "count" ELSE "commit")
                /\ mem' = [mem EXCEPT ![w].row = a]
                /\ UNCHANGED <<writer, req>>
           ELSE Leave(w)                \* 404 or 409
        /\ UNCHANGED <<rows, sessions, edits, logins>>

\* A plausible slip: off by one at the last super administrator.
OneTooMany == Cardinality(Supers) > 0
Dispensable == Cardinality(Supers) > 1

CountSupers(w) ==
    /\ pc[w] = "count"
    /\ IF Dispensable THEN Move(w, "commit") ELSE Leave(w)
    /\ UNCHANGED <<rows, sessions, edits, logins>>

\* A plausible slip: comparing with the password the session was identified with.
ProvenBefore(w, a) == mem[w].self.password = req[w].current
Proven(w, a) == a.password = req[w].current

ReadOwnRow(w) ==
    LET a == account[req[w].actor]
    IN  /\ pc[w] = "own row"
        /\ IF a.on /\ Proven(w, a) /\ req[w].current # req[w].pass
           THEN Goto(w, "commit") /\ mem' = [mem EXCEPT ![w].row = a] /\ UNCHANGED <<writer, req>>
           ELSE Leave(w)
        /\ UNCHANGED <<rows, sessions, edits, logins>>

\* The command line: the first account, or an existing super administrator again.
Bootstrap(w, u, p) == Edit(w, Call("bootstrap", None, 0, 0, u, "super_admin", TRUE, None, p), "latch")
Recover(w, u, p) == Edit(w, Call("recover", None, 0, 0, u, "super_admin", TRUE, None, p), "lock")

InsertLatch(w) ==
    /\ pc[w] = "latch"
    /\ Unwritten
    /\ IF latch THEN Leave(w)           \* IntegrityError
       ELSE writer' = w /\ Goto(w, "count users") /\ UNCHANGED <<req, mem>>
    /\ UNCHANGED <<rows, sessions, edits, logins>>

CountUsers(w) ==
    /\ pc[w] = "count users"
    /\ IF exists = {} THEN Move(w, "commit") ELSE Leave(w)
    /\ UNCHANGED <<rows, sessions, edits, logins>>

ReadRecovered(w) ==
    LET a == account[req[w].target]
    IN  /\ pc[w] = "recover"
        /\ IF req[w].target \in exists /\ a.role = "super_admin"
           THEN Goto(w, "commit") /\ mem' = [mem EXCEPT ![w].row = a] /\ UNCHANGED <<writer, req>>
           ELSE Leave(w)
        /\ UNCHANGED <<rows, sessions, edits, logins>>

NextVersion(v) == v + 1

Edited(w) ==
    LET r == req[w]
        a == mem[w].row
        v == NextVersion(a.version)
    IN  IF r.kind \in {"create", "bootstrap"} THEN Row(r.role, TRUE, TRUE, 1, r.pass)
        ELSE IF r.kind = "update"
        THEN Row(r.role, r.on, a.must, IF r.role # a.role \/ r.on # a.on THEN v ELSE a.version, a.password)
        ELSE Row(a.role, a.on \/ r.kind = "recover", r.kind # "change", v, r.pass)

Commit(w) ==
    /\ pc[w] = "commit"
    /\ exists' = exists \cup {req[w].target}
    /\ account' = [account EXCEPT ![req[w].target] = Edited(w)]
    /\ latch' = (latch \/ req[w].kind = "bootstrap")
    /\ IF req[w].kind = "change"
       THEN Goto(w, "drop") /\ writer' = None /\ UNCHANGED <<req, mem>>
       ELSE Leave(w)
    /\ UNCHANGED <<sessions, edits, logins>>

\* A call raises or the worker dies: the transaction is rolled back.
Abort(w) ==
    /\ pc[w] # "idle"
    /\ Leave(w)
    /\ UNCHANGED <<rows, sessions, edits, logins>>

Arrive(w) ==
    \/ \E u \in Users, p \in Passwords, old \in 0..logins : Login(w, u, p, old)
    \/ \E s \in sessions :
        \/ \E u \in Users, role \in Roles :
            \/ \E p \in Passwords : Create(w, s, u, role, p)
            \/ \E on \in BOOLEAN : Update(w, s, u, role, on)
        \/ \E u \in Users, p \in Passwords : Reset(w, s, u, p)
        \/ \E current, p \in Passwords : Change(w, s, current, p)
        \/ Logout(w, s)
    \/ \E u \in Users, p \in Passwords : Bootstrap(w, u, p) \/ Recover(w, u, p)

Serve(w) ==
    \/ ReadAccount(w) \/ ReplaceSession(w) \/ OpenSession(w)
    \/ Identify(w) \/ DropSession(w)
    \/ LockUsers(w) \/ RefreshActor(w) \/ ReadTarget(w) \/ CountSupers(w) \/ ReadOwnRow(w)
    \/ InsertLatch(w) \/ CountUsers(w) \/ ReadRecovered(w)
    \/ Commit(w)

Next ==
    \/ \E w \in Workers : Arrive(w) \/ Serve(w) \/ Abort(w)
    \/ \E s \in sessions : ExpireSession(s)

Spec == Init /\ [][Next]_vars

-----------------------------------------------------------------------------
(* Properties.                                                             *)

\* update_user: from the first account on there is an enabled super
\* administrator, whoever demotes or disables whom at the same time.
LastSuperKept == latch => Supers # {}

\* auth_version: a session that is still accepted was opened with the password
\* its account has now and in the role it has now, so that a reset, a change, a
\* recovery or a change of role ends every session, those being opened included.
SessionsFresh ==
    \A s \in sessions :
        s.version = account[s.user].version =>
            s.proof = account[s.user].password /\ s.role = account[s.user].role

\* lock_users: when an account is created, edited or reset, the caller is an
\* enabled super administrator with a permanent password at that very moment,
\* and the session it was identified with is still good.
ActorsEntitled ==
    [][\A w \in Workers :
          pc[w] = "commit" /\ req[w].kind \in AdminKinds /\ account' # account =>
              LET a == account[req[w].actor]
              IN  a.on /\ a.role = "super_admin" /\ ~a.must /\ a.version = req[w].version]_vars

\* change_password: an old password does not overwrite a reset that has just
\* been made: the password that is given is the one that is replaced.
PasswordsProven ==
    [][\A w \in Workers :
          pc[w] = "commit" /\ req[w].kind = "change" /\ account' # account =>
              req[w].current = account[req[w].target].password]_vars

\* bootstrap: the command creates an account only where there is none.
OneFounder ==
    [][\A w \in Workers : pc[w] = "commit" /\ pc'[w] = "idle" /\ req[w].kind = "bootstrap"
                          /\ exists' # exists => exists = {}]_vars

-----------------------------------------------------------------------------
(* The inductive invariant behind them.                                    *)

ChangeKinds == AdminKinds \cup {"change", "bootstrap", "recover"}

\* What a request names, and which requests are served at a step.
Names(r, step) ==
    /\ r.kind \in AdminKinds \cup {"login", "logout", "change"} => r.actor \in Users
    /\ r.kind \in ChangeKinds => r.target \in Users
    /\ r.kind \in {"login"} \cup (ChangeKinds \ {"update"}) => r.pass \in Passwords
    /\ r.kind = "change" => r.target = r.actor
    /\ r.kind = "bootstrap" => r.role = "super_admin"
    /\ step \in {"read", "replace", "open"} => r.kind = "login"
    /\ step = "identify" => r.kind \in AdminKinds \cup {"change", "logout"}
    /\ step = "lock" => r.kind \in AdminKinds \cup {"change", "recover"}
    /\ step \in {"refresh", "target"} => r.kind \in AdminKinds
    /\ step = "count" => r.kind = "update"
    /\ step = "own row" => r.kind = "change"
    /\ step = "recover" => r.kind = "recover"
    /\ step \in {"latch", "count users"} => r.kind = "bootstrap"
    /\ step = "commit" => r.kind \in ChangeKinds

\* A login that is not over, or a session, is outdated or agrees with its account.
Fresh(user, version, proof, role) ==
    /\ user \in exists
    /\ version <= account[user].version
    /\ version = account[user].version => proof = account[user].password /\ role = account[user].role

Entitled(r) ==
    LET a == account[r.actor]
    IN  a.on /\ a.role = "super_admin" /\ ~a.must /\ a.version = r.version

\* What was read inside the lock is still so.
UpToDate(r, row) ==
    /\ r.kind = "create" => r.target \notin exists
    /\ r.kind \in {"update", "reset", "change", "recover"} => r.target \in exists /\ row = account[r.target]
    /\ r.kind \in AdminKinds => Entitled(r)

\* What the checks before the commit have shown.
Checked(r, row) ==
    /\ UpToDate(r, row)
    /\ r.kind = "bootstrap" => exists = {}
    /\ r.kind = "recover" => row.role = "super_admin"
    /\ r.kind = "change" => r.current = row.password
    /\ Removes(r, row) => \E u \in Supers : u # r.target

\* What a request at a step remembers.
Knows(r, step, m) ==
    /\ r.kind = "change" => r.target \in exists
    /\ step \in {"replace", "open"} => Fresh(r.actor, m.self.version, r.pass, m.self.role)
    /\ step \in {"lock", "refresh"} /\ r.kind \in AdminKinds => m.self.version = r.version
    /\ step = "target" => Entitled(r)
    /\ step = "count" => UpToDate(r, m.row)
    /\ step = "commit" => Checked(r, m.row)

\* lock_users as an invariant: who is inside the lock is its only writer and
\* what it has read is so until it commits; a login that has read an outdated
\* account knows an outdated version.
AccountsInv ==
    /\ TypeOK
    /\ LastSuperKept
    /\ \A s \in sessions : Fresh(s.user, s.version, s.proof, s.role)
    /\ \A w \in Workers :
          /\ Names(req[w], pc[w])
          /\ Knows(req[w], pc[w], mem[w])
          /\ pc[w] \in LockedAt => writer = w
=============================================================================
