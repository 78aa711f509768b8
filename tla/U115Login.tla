----------------------------- MODULE U115Login -----------------------------
(***************************************************************************)
(* One authorisation of a 115 account (app/api/u115_auth.py): the client   *)
(* asks for an address and polls for the token, the user's browser returns *)
(* to the callback, the callback exchanges the code with 115 and stores    *)
(* the token in the session, which lives in Redis.  Every step between two *)
(* awaits is an action of its own; time passes between them.               *)
(***************************************************************************)
EXTENDS Integers

CONSTANTS
    Callbacks,      \* requests that return from 115, each with its own code
    Polls,          \* requests for the token
    None,
    Second,         \* clock ticks in a second; Redis knows whole seconds
    Lifetime,       \* AUTH_SESSION_TTL_SECONDS, in ticks
    MaxTime         \* bound: ticks

VARIABLES
    now,
    session,        \* Redis: the session of the state, None for no key
    pc, mem,        \* of the requests, with the session each has loaded
    stored,         \* some callback has stored its token and shown success
    picked,         \* some poll has read a token
    gone            \* tokens whose session was deleted by the poll that took them

vars == <<now, session, pc, mem, stored, picked, gone>>

Tokens == Callbacks
\* dies: when Redis drops the key.
Session == [status : {"pending", "completed"}, token : Tokens \cup {None}, expires : Nat, dies : Nat]

TypeOK ==
    /\ now \in 0..MaxTime
    /\ session \in Session \cup {None}
    /\ pc \in [Callbacks \cup Polls -> {"idle", "check", "discard", "exchange", "save", "take", "answer", "over"}]
    /\ mem \in [Callbacks \cup Polls -> Session \cup {None}]
    /\ {stored, picked} \subseteq BOOLEAN /\ gone \subseteq Tokens

\* session_ttl: whole seconds, but at least one.
SessionTtl(s) == IF s.expires - now >= Second THEN ((s.expires - now) \div Second) * Second ELSE Second

Saved(s) == [s EXCEPT !.dies = now + SessionTtl(s)]

\* get_auth_url has created the session.
Init ==
    /\ now = 0
    /\ session = Saved([status |-> "pending", token |-> None, expires |-> Lifetime, dies |-> 0])
    /\ pc = [r \in Callbacks \cup Polls |-> "idle"]
    /\ mem = [r \in Callbacks \cup Polls |-> None]
    /\ stored = FALSE /\ picked = FALSE /\ gone = {}

Goto(r, step) == pc' = [pc EXCEPT ![r] = step]

Tick ==
    /\ now < MaxTime
    /\ now' = now + 1
    /\ session' = IF session # None /\ session.dies <= now + 1 THEN None ELSE session
    /\ UNCHANGED <<pc, mem, stored, picked, gone>>

\* load_auth_session reads the key.
Load(r) ==
    /\ pc[r] = "idle"
    /\ mem' = [mem EXCEPT ![r] = session]
    /\ Goto(r, IF session = None THEN "over" ELSE "check")
    /\ UNCHANGED <<now, session, stored, picked, gone>>

Expired(s) == s.expires < now

Ready(s) == s.status = "completed"

Check(r) ==
    /\ pc[r] = "check"
    /\ Goto(r, IF Expired(mem[r]) THEN "discard"
               ELSE IF r \in Callbacks THEN "exchange"
               ELSE IF Ready(mem[r]) THEN "take" ELSE "over")
    /\ picked' = (picked \/ (r \in Polls /\ ~Expired(mem[r]) /\ mem[r].status = "completed"))
    /\ UNCHANGED <<now, session, mem, stored, gone>>

\* Mutant of Discard: a token that is taken stays.
KeepTaken(r) ==
    /\ pc[r] \in {"discard", "take"}
    /\ session' = IF pc[r] = "take" THEN session ELSE None
    /\ Goto(r, IF pc[r] = "take" THEN "answer" ELSE "over")
    /\ gone' = IF pc[r] = "take" THEN gone \cup {mem[r].token} ELSE gone
    /\ UNCHANGED <<now, mem, stored, picked>>

\* delete_auth_session of an expired session, or of one whose token is taken.
Discard(r) ==
    /\ pc[r] \in {"discard", "take"}
    /\ session' = None
    /\ Goto(r, IF pc[r] = "take" THEN "answer" ELSE "over")
    /\ gone' = IF pc[r] = "take" THEN gone \cup {mem[r].token} ELSE gone
    /\ UNCHANGED <<now, mem, stored, picked>>

\* authCodeToToken: the token, a refusal or an error, within ten seconds.
Exchange(r) ==
    /\ pc[r] = "exchange"
    /\ \/ /\ mem' = [mem EXCEPT ![r].status = "completed", ![r].token = r]
          /\ Goto(r, "save")
       \/ Goto(r, "over") /\ UNCHANGED mem
    /\ UNCHANGED <<now, session, stored, picked, gone>>

\* save_auth_session and the success page; without Redis an error page.
Save(r) ==
    /\ pc[r] = "save"
    /\ \/ session' = Saved(mem[r]) /\ stored' = TRUE
       \/ UNCHANGED <<session, stored>>
    /\ Goto(r, "over")
    /\ UNCHANGED <<now, mem, picked, gone>>

Answer(r) ==
    /\ pc[r] = "answer"
    /\ Goto(r, "over")
    /\ UNCHANGED <<now, session, mem, stored, picked, gone>>

Next == Tick \/ \E r \in Callbacks \cup Polls :
            Load(r) \/ Check(r) \/ Discard(r) \/ Exchange(r) \/ Save(r) \/ Answer(r)

Spec == Init /\ [][Next]_vars

-----------------------------------------------------------------------------
(* Once the user has seen the page of success the token is there for the    *)
(* client until the last second of the session: it is stored, or some poll  *)
(* has read one, whichever callbacks and polls overlap.                     *)
SuccessNotLost ==
    stored /\ now + Second <= Lifetime =>
        picked \/ (session # None /\ session.status = "completed")

(* A token that a poll has taken is not served to a poll that comes later:  *)
(* what is stored by then is the token of another callback.                 *)
NotServedAgain == session # None => session.token \notin gone
=============================================================================
