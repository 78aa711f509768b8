---------------------------- MODULE RateWindow ----------------------------
(***************************************************************************)
(* The two rate limits, each for one caller: rate_limit of the push         *)
(* interface (app/services/push/registry.py) counts in buckets of the       *)
(* worker's clock, check_login_limit (app/admin/auth.py) in a window that   *)
(* the first attempt opens.  Both increment a key in Redis and set its life *)
(* time in one transaction, and look at the result afterwards.              *)
(***************************************************************************)
EXTENDS FiniteSetsExt, Integers

CONSTANTS
    Tasks,          \* requests of the caller in flight at the same time
    None,           \* no request
    Limit,          \* requests admitted in a window
    Window,         \* ticks in a window
    MaxDelay,       \* bound: ticks between the reading of the clock and Redis
    MaxTime         \* bound: ticks

VARIABLES
    kind,           \* which of the limits the behaviour is about
    now,
    key,            \* Redis: count and end of life of each key
    at,             \* when each request has read the clock
    admitted,       \* requests admitted by the moment they count for
    unfounded       \* a request was refused although too few were admitted

vars == <<kind, now, key, at, admitted, unfounded>>

Times == 0..MaxTime
NoKey == [count |-> 0, dies |-> 0]

TypeOK ==
    /\ kind \in {"push", "login"} /\ now \in Times
    /\ key \in [Times -> [count : Nat, dies : Nat]]
    /\ at \in [Tasks -> Times \cup {None}]
    /\ admitted \in [Times -> Nat] /\ unfounded \in BOOLEAN

Init ==
    /\ kind \in {"push", "login"} /\ now = 0
    /\ key = [b \in Times |-> NoKey]
    /\ at = [t \in Tasks |-> None]
    /\ admitted = [x \in Times |-> 0] /\ unfounded = FALSE

\* Admitted requests from one moment to another.
Between(from, to) == SumFunctionOnSet(admitted, {x \in Times : from <= x /\ x <= to})

\* The name of the key: with the bucket of the clock, or without.
Bucket(time) == IF kind = "push" THEN time \div Window ELSE 0

\* Mutant of Dies: the key lives for one window.
DiesWithBucket(k) == IF kind = "push" THEN now + Window
                     ELSE IF k # NoKey THEN k.dies ELSE now + Window

\* EXPIRE for two windows, renewed by every request; EXPIRE NX for one.
Dies(k) == IF kind = "push" THEN now + 2 * Window
           ELSE IF k # NoKey THEN k.dies ELSE now + Window

ReadClock(t) ==
    /\ at[t] = None
    /\ at' = [at EXCEPT ![t] = now]
    /\ UNCHANGED <<kind, now, key, admitted, unfounded>>

Admits(count) == count <= Limit

\* INCR and EXPIRE, and the comparison; no count matters beyond the first too many.
Count(t) ==
    LET b == Bucket(at[t])
        count == key[b].count + 1
        moment == IF kind = "push" THEN at[t] ELSE now
    IN  /\ at[t] # None
        /\ key' = [key EXCEPT ![b] = [count |-> IF count > Limit + 1 THEN Limit + 2 ELSE count, dies |-> Dies(key[b])]]
        /\ IF Admits(count)
           THEN admitted' = [admitted EXCEPT ![moment] = @ + 1] /\ UNCHANGED unfounded
           ELSE /\ unfounded' = (unfounded \/ Between(at[t] - Window + 1, now) < Limit)
                /\ UNCHANGED admitted
        /\ at' = [at EXCEPT ![t] = None]
        /\ UNCHANGED <<kind, now>>

\* Without Redis the request is refused.
Unavailable(t) ==
    /\ at[t] # None
    /\ at' = [at EXCEPT ![t] = None]
    /\ UNCHANGED <<kind, now, key, admitted, unfounded>>

\* The time-outs of the connection are shorter than a window; keys die.
Tick ==
    /\ now < MaxTime
    /\ \A t \in Tasks : at[t] # None => now - at[t] < MaxDelay
    /\ now' = now + 1
    /\ key' = [b \in Times |-> IF key[b].dies <= now + 1 THEN NoKey ELSE key[b]]
    /\ UNCHANGED <<kind, at, admitted, unfounded>>

Next == Tick \/ \E t \in Tasks : ReadClock(t) \/ Count(t) \/ Unavailable(t)

Spec == Init /\ [][Next]_vars

-----------------------------------------------------------------------------
(* The quota of a bucket holds also for requests that reach Redis when the  *)
(* bucket is over: its key outlives them.                                   *)
BucketHeld ==
    kind = "push" => \A b \in Times : Between(b * Window, b * Window + Window - 1) <= Limit

(* At no time more than twice the limit is admitted within one window: one  *)
(* window that ends and one that begins.                                    *)
BurstBounded == \A x \in Times : Between(x, x + Window - 1) <= 2 * Limit

(* Whoever is refused has used the limit within the last window: attempts   *)
(* that are refused do not lengthen the wait.                               *)
RefusedWithReason == ~unfounded
=============================================================================
