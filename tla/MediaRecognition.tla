------------------------- MODULE MediaRecognition -------------------------
(***************************************************************************)
(* The shared recognition records (app/services/media_recognize_share.py):  *)
(* one JSON text per medium in Redis.  An upsert reads the record, merges   *)
(* and writes it; a query reads it, and writes it back when its form is not *)
(* the present one; the administrator deletes it                           *)
(* (app/admin/data.py).  Each command to Redis is a step of its own.        *)
(***************************************************************************)
EXTENDS Naturals

CONSTANTS
    None,           \* no value
    Unreadable,     \* text that is no record
    Tasks,          \* requests in flight
    Media,          \* what requests are about: keyword, type, year, season, music
    Ids, Titles,    \* media ids and titles, or None, that clients report
    Folds,          \* text |-> its normal form, where that is another text
    MaxUpserts,     \* bound: accepted upserts
    MaxDeletes      \* bound: deletions

VARIABLES
    store,          \* Redis: cache key |-> record, text that no one can read, or None
    newest,         \* ghost: the id of the last accepted upsert, until a deletion
    pc, req, got,   \* step of each task, what it is for, the record it has read
    served,         \* the last answer of each task to a query
    upserts, deletes,
    audit           \* committed audit records: requested and confirmed deletions

vars == <<store, newest, pc, req, got, served, upserts, deletes, audit>>

\* strip, lower and the collapse of white space.
Folded(text) == IF text = None THEN "" ELSE IF text \in DOMAIN Folds THEN Folds[text] ELSE text

NormalizeYear(year) == IF Folded(year) = "" THEN None ELSE Folded(year)
NormalizeMediaType(type) == IF Folded(type) \in {"movie", "tv", "music"} THEN Folded(type) ELSE None
NormalizeSeason(type, season) == IF NormalizeMediaType(type) = "tv" /\ season \in Nat THEN season ELSE None
NormalizeMusicType(type, music) ==
    IF NormalizeMediaType(type) # "music" THEN None
    ELSE IF music \in {None, ""} THEN "recording"
    ELSE IF Folded(music) \in {"recording", "album", "artist"} THEN Folded(music) ELSE None

\* The key of a medium; None when the request is refused.
BuildCacheKey(m) ==
    LET type == NormalizeMediaType(m.type)
        music == NormalizeMusicType(m.type, m.music)
    IN  IF Folded(m.keyword) = "" \/ type = None \/ (type = "music" /\ music = None) THEN None
        ELSE <<Folded(m.keyword), type, NormalizeYear(m.year), NormalizeSeason(type, m.season), music>>

\* Music was stored without its kind once.
BuildLegacyMusicCacheKey(m) == <<Folded(m.keyword), "music", NormalizeYear(m.year), None, None>>

\* The fields of a medium as _normalize_item_dict stores them.
NormalizeMedium(m) ==
    [keyword |-> m.keyword, type |-> NormalizeMediaType(m.type), year |-> NormalizeYear(m.year),
     season |-> NormalizeSeason(m.type, m.season), music |-> NormalizeMusicType(m.type, m.music)]

\* A record is complete when it has all keys; a fresh one lacks those without
\* a value, an old one the unified identity.
Record(m, id, title, complete) == [medium |-> m, id |-> id, title |-> title, complete |-> complete]

\* _normalize_item_dict: None for a record without key or identity.
NormalizeItem(item) ==
    IF item \in {None, Unreadable} THEN None
    ELSE IF BuildCacheKey(item.medium) = None THEN None
    ELSE Record(NormalizeMedium(item.medium), item.id, item.title, TRUE)

\* _merge_item: new values first, nothing is lost to an empty one.
Merge(existing, item) ==
    IF existing = None THEN [item EXCEPT !.complete = FALSE]
    ELSE [item EXCEPT !.title = IF item.title = None THEN existing.title ELSE item.title]

-----------------------------------------------------------------------------
Exact == {BuildCacheKey(m) : m \in Media} \ {None}
Legacy == {BuildLegacyMusicCacheKey(m) : m \in {x \in Media : NormalizeMediaType(x.type) = "music"}}

OldMedium(k) == [keyword |-> k[1], type |-> k[2], year |-> k[3], season |-> k[4], music |-> k[5]]

IsRecord(item) ==
    /\ DOMAIN item = DOMAIN Record(None, None, None, TRUE)
    /\ item.id \in Ids \cup {"old", "legacy"} /\ item.title \in Titles \cup {None}
    /\ item.complete \in BOOLEAN

NoRequest == [op |-> "none", key |-> None, asked |-> None, item |-> None, known |-> FALSE]

TypeOK ==
    /\ \A k \in DOMAIN store : store[k] \in {None, Unreadable} \/ IsRecord(store[k])
    /\ \A k \in DOMAIN store : newest[k] \in Ids \cup {None}
    /\ pc \in [Tasks -> {"idle", "get", "rewrite", "set", "delete", "confirm"}]
    /\ \A t \in Tasks : \A item \in {got[t], served[t]} : item = None \/ IsRecord(item)
    /\ \A t \in Tasks : req[t].key \in DOMAIN store \cup {None}
    /\ upserts \in 0..MaxUpserts /\ deletes \in 0..MaxDeletes

Init ==
    /\ \E stale \in {None, Unreadable, "old"} :
          store = [k \in Exact \cup Legacy |->
                      IF k \in Legacy THEN Record(OldMedium(k), "legacy", None, FALSE)
                      ELSE IF stale = "old" THEN Record(OldMedium(k), "old", None, FALSE)
                      ELSE stale]
    /\ newest = [k \in Exact \cup Legacy |-> None]
    /\ pc = [t \in Tasks |-> "idle"]
    /\ req = [t \in Tasks |-> NoRequest]
    /\ got = [t \in Tasks |-> None] /\ served = [t \in Tasks |-> None]
    /\ upserts = 0 /\ deletes = 0 /\ audit = [requested |-> 0, confirmed |-> 0]

Goto(t, step) == pc' = [pc EXCEPT ![t] = step]
Begin(t, op, key, asked, item, known) ==
    /\ pc[t] = "idle"
    /\ req' = [req EXCEPT ![t] = [op |-> op, key |-> key, asked |-> asked, item |-> item, known |-> known]]
    /\ got' = [got EXCEPT ![t] = None]
    /\ served' = [served EXCEPT ![t] = None]

-----------------------------------------------------------------------------
\* A request that has no key is refused before Redis is asked.
Upsert(t, m, id, title) ==
    LET item == Record(NormalizeMedium(m), id, title, TRUE)
        key == BuildCacheKey(item.medium)
    IN  /\ key # None /\ upserts < MaxUpserts
        /\ upserts' = upserts + 1
        /\ Begin(t, "upsert", key, key, item, FALSE)
        /\ Goto(t, "get")
        /\ UNCHANGED <<store, newest, deletes, audit>>

Query(t, m) ==
    LET key == BuildCacheKey(m) IN
    /\ key # None
    /\ Begin(t, "query", key, key, None, newest[key] # None)
    /\ Goto(t, "get")
    /\ UNCHANGED <<store, newest, upserts, deletes, audit>>

\* Mutant of Fallback: all music was stored without its kind.
FallbackForMusic(t) ==
    /\ req[t].op = "query" /\ req[t].key = req[t].asked
    /\ req[t].asked[2] = "music"

\* The rest of a task once _get_item has returned.
Fallback(t) ==
    /\ req[t].op = "query" /\ req[t].key = req[t].asked
    /\ req[t].asked[5] = "recording"

Returned(t, item) ==
    IF req[t].op = "upsert"
    THEN Goto(t, "set") /\ got' = [got EXCEPT ![t] = item] /\ UNCHANGED <<req, served>>
    ELSE IF item = None /\ Fallback(t)
    THEN /\ req' = [req EXCEPT ![t].key = BuildLegacyMusicCacheKey(OldMedium(req[t].asked))]
         /\ UNCHANGED <<pc, got, served>>
    ELSE /\ Goto(t, "idle") /\ served' = [served EXCEPT ![t] = item]
         /\ got' = [got EXCEPT ![t] = None] /\ UNCHANGED req

\* GET, and the decision whether the form of the record is the present one.
Get(t) ==
    LET stored == store[req[t].key]
        item == NormalizeItem(stored)
    IN  /\ pc[t] = "get"
        /\ IF item = None \/ item = stored
           THEN Returned(t, item)
           ELSE Goto(t, "rewrite") /\ got' = [got EXCEPT ![t] = item] /\ UNCHANGED <<req, served>>
        /\ UNCHANGED <<store, newest, upserts, deletes, audit>>

Rewrite(t) ==
    /\ pc[t] = "rewrite"
    /\ store' = [store EXCEPT ![req[t].key] = got[t]]
    /\ Returned(t, got[t])
    /\ UNCHANGED <<newest, upserts, deletes, audit>>

Set(t) ==
    /\ pc[t] = "set"
    /\ store' = [store EXCEPT ![req[t].key] = Merge(got[t], req[t].item)]
    /\ newest' = [newest EXCEPT ![req[t].key] = req[t].item.id]
    /\ Goto(t, "idle")
    /\ req' = [req EXCEPT ![t] = NoRequest] /\ got' = [got EXCEPT ![t] = None]
    /\ UNCHANGED <<served, upserts, deletes, audit>>

\* delete_recognition: the intent is committed before the record is deleted.
RequestDelete(t, k) ==
    /\ deletes < MaxDeletes
    /\ deletes' = deletes + 1
    /\ Begin(t, "delete", k, k, None, FALSE)
    /\ audit' = [audit EXCEPT !.requested = @ + 1]
    /\ Goto(t, "delete")
    /\ UNCHANGED <<store, newest, upserts>>

Delete(t) ==
    LET k == req[t].key IN
    /\ pc[t] = "delete"
    /\ Goto(t, IF store[k] = None THEN "idle" ELSE "confirm")
    /\ store' = [store EXCEPT ![k] = None]
    /\ newest' = [newest EXCEPT ![k] = None]
    /\ req' = [u \in Tasks |-> IF req[u].key = k \/ req[u].asked = k THEN [req[u] EXCEPT !.known = FALSE] ELSE req[u]]
    /\ UNCHANGED <<got, served, upserts, deletes, audit>>

\* The second commit may fail: the deletion stays, and so does its intent.
Confirm(t) ==
    /\ pc[t] = "confirm"
    /\ \/ audit' = [audit EXCEPT !.confirmed = @ + 1]
       \/ UNCHANGED audit
    /\ Goto(t, "idle")
    /\ UNCHANGED <<store, newest, req, got, served, upserts, deletes>>

Next ==
    \E t \in Tasks :
       \/ \E m \in Media : Query(t, m) \/ \E id \in Ids, title \in Titles : Upsert(t, m, id, title)
       \/ \E k \in DOMAIN store : RequestDelete(t, k)
       \/ Get(t) \/ Rewrite(t) \/ Set(t) \/ Delete(t) \/ Confirm(t)

Spec == Init /\ [][Next]_vars

-----------------------------------------------------------------------------
Answered(t) == pc[t] = "idle" /\ req[t].op = "query"

(* A medium that was reported before a query began is found by it, in every *)
(* spelling of its fields, and under its own key: neither the rewrite of    *)
(* the form nor a concurrent upsert makes it disappear for a moment.        *)
KnownIsServed ==
    \A t \in Tasks : Answered(t) /\ req[t].known => served[t] # None /\ served[t].id # "legacy"

(* An answer is about what was asked: what the key of the record says of it *)
(* is what the record says itself, also where a record of the former scheme *)
(* stands in for a recording.                                               *)
AnswerFits ==
    \A t \in Tasks : Answered(t) /\ served[t] # None => BuildCacheKey(served[t].medium) = req[t].asked

(* Redis and the tables share no transaction: every deletion has its intent *)
(* on record, and no deletion is confirmed that did not take place.         *)
TracedDeletion ==
    /\ (\E k \in DOMAIN store : store[k] # None /\ store'[k] = None) => audit.requested > audit.confirmed
    /\ audit'.confirmed <= audit.requested
DeletionsTraced == [][TracedDeletion]_vars
=============================================================================
