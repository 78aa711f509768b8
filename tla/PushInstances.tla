--------------------------- MODULE PushInstances ---------------------------
(***************************************************************************)
(* What the relay promises about instances and their keys: an instance has *)
(* exactly one current key from the moment it exists; a key is issued to   *)
(* one instance once and for all, so a key that was replaced never works   *)
(* again; instances are switched on and off but never lost.  Module        *)
(* PushCredentials implements it.                                          *)
(***************************************************************************)
CONSTANTS Keys, Relays, None

VARIABLES
    owner,      \* the instance a key was issued to
    current,    \* the key of each instance
    open        \* instances that are switched on

vars == <<owner, current, open>>

Init ==
    /\ owner = [k \in Keys |-> None]
    /\ current = [r \in Relays |-> None]
    /\ open = {}

Issue(r, k) ==
    /\ owner[k] = None
    /\ owner' = [owner EXCEPT ![k] = r]
    /\ current' = [current EXCEPT ![r] = k]

Found(r, k) == current[r] = None /\ Issue(r, k) /\ open' = open \cup {r}

Replace(r, k) == current[r] \in Keys /\ Issue(r, k) /\ UNCHANGED open

Switch(r, on) ==
    /\ current[r] \in Keys
    /\ open' = IF on THEN open \cup {r} ELSE open \ {r}
    /\ UNCHANGED <<owner, current>>

Next ==
    \E r \in Relays :
        \/ \E k \in Keys : Found(r, k) \/ Replace(r, k)
        \/ \E on \in BOOLEAN : Switch(r, on)

Spec == Init /\ [][Next]_vars
=============================================================================
