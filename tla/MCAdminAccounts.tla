-------------------------- MODULE MCAdminAccounts --------------------------
(* Finite instances of AdminAccounts.                                      *)
EXTENDS AdminAccounts, Functions, TLC

Symmetry == Permutations(Workers) \cup Permutations(Passwords) \cup Permutations(Users)

\* A later moment: every account is an enabled super administrator that has
\* changed its temporary password to p and logged in again, as session id[u].
Established(p, id) ==
    /\ exists = Users
    /\ account = [u \in Users |-> Row("super_admin", TRUE, FALSE, 2, p)]
    /\ latch = TRUE /\ writer = None
    /\ sessions = {[id |-> id[u], user |-> u, version |-> 2, proof |-> p, role |-> "super_admin"] : u \in Users}
    /\ pc = [w \in Workers |-> "idle"]
    /\ req = [w \in Workers |-> NoRequest]
    /\ mem = [w \in Workers |-> NoMemory]
    /\ edits = 1 /\ logins = Cardinality(Users)

EstablishedInit == \E p \in Passwords, id \in Injection(Users, 1..Cardinality(Users)) : Established(p, id)

\* From the empty database and from the later moment.
EitherSpec == (Init \/ EstablishedInit) /\ [][Next]_vars
=============================================================================
