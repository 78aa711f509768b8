--------------------------- MODULE MediaIdentity ---------------------------
(***************************************************************************)
(* The identity of a medium, a source and its native id (app/core/media.py, *)
(* the validators of app/schemas/models.py), on its way through the system: *)
(* it arrives in one of several historical forms, or lies in a row that the *)
(* start of the program migrates (app/services/database_schema.py), is     *)
(* stored as a pair, served in the new and the old form, and comes back    *)
(* from a client that knows one of the two.                                *)
(*                                                                         *)
(* The program cleans texts with strip and casefold, the migration with    *)
(* TRIM and LOWER; the two differ for tabs and for letters outside ASCII.   *)
(* What they make of a text is a parameter, bound by TextLaws only.        *)
(***************************************************************************)
EXTENDS Naturals, Sequences

CONSTANTS
    None,           \* a missing value
    Texts,          \* all the texts in play
    RawSources,     \* those given as a source
    RawIds,         \* those given as an id
    RawOld,         \* those given as an id in an old field, or in an old key
    Stripped,       \* strip() of a text
    Folded,         \* strip().casefold()
    Trimmed,        \* TRIM, of the database
    Lowered,        \* LOWER(TRIM)
    Extensions,     \* texts like MEDIA_SOURCE_IDENTIFIER_PATTERN that are no aliases
    Unfit,          \* texts that are too long, or hold a blank or a colon
    Numbers         \* the number, written out, for a text of digits only

VARIABLES
    stage,          \* where the identity is
    item,           \* its fields there, as they are written
    origin          \* the pair that is to be kept

vars == <<stage, item, origin>>

NoPair == <<None, None>>

\* The empty text, and what old clients send for no id.
NoText == ""
Void == {NoText, "0"}

\* MEDIA_SOURCE_ALIASES, as far as the properties tell sources apart: names
\* that stay, and names that change.
Aliases == [name \in {"tmdb", "themoviedb", "douban", "douban_music", "doubanmusic"} |->
               CASE name = "tmdb" -> "themoviedb" [] name = "douban_music" -> "doubanmusic" [] OTHER -> name]

Sources == {Aliases[name] : name \in DOMAIN Aliases} \cup Extensions

Prefix(source) == IF source = "themoviedb" THEN "tmdb" ELSE source

\* LEGACY_MEDIA_SOURCE_ID_FIELDS in its order; the first is a number.
LegacyFields == <<"tmdbid", "doubanid">>
LegacySource == [tmdbid |-> "themoviedb", doubanid |-> "douban"]
Numeric == {"tmdbid"}

\* What holds of the texts.  The functions agree with themselves; the blanks
\* that TRIM removes are among those of strip, and casefold folds whatever
\* LOWER does; the names of sources are already as each of them would have it.
TextLaws ==
    /\ Void \cup {"composite"} \cup DOMAIN Aliases \cup RawSources \cup RawIds \cup RawOld \subseteq Texts
    /\ {Stripped, Folded, Trimmed, Lowered} \subseteq [Texts -> Texts]
    /\ \A text \in Texts :
          /\ Stripped[Stripped[text]] = Stripped[text] /\ Folded[Folded[text]] = Folded[text]
          /\ Trimmed[Trimmed[text]] = Trimmed[text] /\ Lowered[Lowered[text]] = Lowered[text]
          /\ Stripped[Trimmed[text]] = Stripped[text] /\ Trimmed[Stripped[text]] = Stripped[text]
          /\ Folded[Lowered[text]] = Folded[text]
    /\ \A text \in Void \cup {"composite"} : Stripped[text] = text
    /\ \A name \in DOMAIN Aliases \cup Extensions : Folded[name] = name
    /\ \A source \in Sources : Stripped[source] = source /\ Lowered[source] = source
    /\ Extensions \subseteq Texts \ DOMAIN Aliases
    /\ Sources \cap (Unfit \cup {NoText}) = {} /\ "composite" \notin Void
    /\ DOMAIN Numbers \subseteq Texts /\ \A digits \in DOMAIN Numbers : Numbers[digits] \in Texts

NormalizeMediaSource(text) ==
    LET folded == IF text = None THEN None ELSE Folded[text] IN
    IF folded \in DOMAIN Aliases THEN Aliases[folded]
    ELSE IF folded \in Extensions THEN folded ELSE None

\* A value that cleaning leaves something of, zero not counted.
Filled(text, clean) == IF text = None \/ clean[text] \in Void THEN None ELSE clean[text]

NormalizeMediaId(text) == Filled(text, Stripped)

Pair(source, id) == IF source = None \/ id = None THEN NoPair ELSE <<source, id>>

ResolveMediaIdentity(i) == Pair(NormalizeMediaSource(i.source), NormalizeMediaId(i.id))

\* The old composite key: a text with a colon is the record of its two parts,
\* another text has no source, and no text has nothing.
NoKey == [source |-> None, id |-> None]

ParseMediaKey(key) ==
    IF key.source = None THEN NoPair
    ELSE Pair(NormalizeMediaSource(key.source), NormalizeMediaId(key.id))

KeyText(key) == IF key.source = None THEN NormalizeMediaId(key.id) ELSE "composite"

\* The first legacy field that is filled in, cleaned by the one who asks.
FirstLegacy(i, clean) ==
    LET filled == {n \in DOMAIN LegacyFields : Filled(i.legacy[LegacyFields[n]], clean) # None}
        first == LegacyFields[CHOOSE n \in filled : \A m \in filled : n <= m]
    IN  IF filled = {} THEN NoPair ELSE <<LegacySource[first], Filled(i.legacy[first], clean)>>

OwnLegacy(i, source) ==
    IF \E f \in DOMAIN LegacySource : LegacySource[f] = source
    THEN NormalizeMediaId(i.legacy[CHOOSE f \in DOMAIN LegacySource : LegacySource[f] = source])
    ELSE None

ResolveLegacyMediaIdentity(i) ==
    LET declared == NormalizeMediaSource(IF i.source \in {None, NoText} THEN i.declared ELSE i.source)
        byKey == ParseMediaKey(i.key)
    IN  IF ResolveMediaIdentity(i) # NoPair THEN ResolveMediaIdentity(i)
        ELSE IF declared # None /\ OwnLegacy(i, declared) # None THEN <<declared, OwnLegacy(i, declared)>>
        ELSE IF byKey # NoPair THEN byKey
        ELSE IF declared # None /\ KeyText(i.key) # None THEN <<declared, KeyText(i.key)>>
        ELSE FirstLegacy(i, Stripped)

Item(source, id, declared, key, legacy) ==
    [source |-> source, id |-> id, declared |-> declared, key |-> key, legacy |-> legacy]

NoLegacy == [f \in DOMAIN LegacySource |-> None]

\* What an old field says of a pair: nothing, if it is a number and the id none.
LegacyValue(f, pair) ==
    IF LegacySource[f] # pair[1] THEN None
    ELSE IF f \notin Numeric THEN pair[2]
    ELSE IF pair[2] \in DOMAIN Numbers THEN Numbers[pair[2]] ELSE None

\* The fields of the answer that an old client reads.
BuildLegacyMediaIdentity(i) ==
    LET pair == ResolveMediaIdentity(i)
    IN  IF pair = NoPair THEN [i EXCEPT !.legacy = NoLegacy, !.key = NoKey]
        ELSE [i EXCEPT !.source = pair[1], !.id = pair[2],
                       !.legacy = [f \in DOMAIN LegacySource |-> LegacyValue(f, pair)],
                       !.key = [source |-> Prefix(pair[1]), id |-> pair[2]]]

\* The condition of media_identity_check_sql.
MediaIdentityCheck(source, id) ==
    \/ source = None /\ id = None
    \/ /\ source # None /\ id # None
       /\ source = Lowered[source] /\ Trimmed[source] # NoText /\ source \notin Unfit
       /\ Trimmed[id] \notin Void

\* _ensure_subscribe_identity_schema on one row: the aliases, the case, the
\* legacy columns in their order, NULL for what is left, the blanks of the id.
MigratedSource(source) ==
    LET lowered == IF source = None THEN None ELSE Lowered[source] IN
    IF lowered \in DOMAIN Aliases THEN Aliases[lowered] ELSE lowered

InvalidIdentity(source, id) ==
    \/ source = None \/ id = None
    \/ Trimmed[source] = NoText \/ source \in Unfit \/ Trimmed[id] \in Void

\* Mutant of Migrated: a legacy column overwrites a pair that is valid.
MigratedOver(i) ==
    LET old == FirstLegacy(i, Trimmed)
        source == MigratedSource(i.source)
        pair == IF old # NoPair \/ InvalidIdentity(source, i.id) THEN old ELSE <<source, Trimmed[i.id]>>
    IN  Item(pair[1], pair[2], None, NoKey, NoLegacy)

Migrated(i) ==
    LET source == MigratedSource(i.source)
        pair == IF InvalidIdentity(source, i.id) THEN FirstLegacy(i, Trimmed) ELSE <<source, Trimmed[i.id]>>
    IN  Item(pair[1], pair[2], None, NoKey, NoLegacy)

\* Rows in which the program reads an identity and the migration another one.
\* A pair that is valid to the database stays, whether or not the program can
\* read it, and one that is not goes, although the program may read it; without
\* a pair the migration takes the first column that is filled in, the program
\* the one of the declared source before all others.
Disputed(i) ==
    /\ ResolveLegacyMediaIdentity(i) # NoPair
    /\ IF InvalidIdentity(MigratedSource(i.source), i.id)
       THEN \/ ResolveMediaIdentity(i) # NoPair
            \/ FirstLegacy(i, Trimmed)[1] # ResolveLegacyMediaIdentity(i)[1]
       ELSE ResolveMediaIdentity(i) = NoPair

-----------------------------------------------------------------------------
Declared == {None, "douban", "douban_music"}
Keys == {NoKey} \cup [source : {None, "tmdb", "0"}, id : RawOld]

TypeOK ==
    /\ stage \in {"request", "row", "stored", "served", "refused"}
    /\ item.source \in Texts \cup {None} /\ item.id \in Texts \cup {None}
    /\ item.legacy \in [DOMAIN LegacySource -> Texts \cup {None}]

\* A request with an identity in any of the forms, or a row of any age; to be
\* kept of a row is what the program reads in it.
Init ==
    \E source \in RawSources \cup {None}, id \in RawIds \cup {None},
       legacy \in [DOMAIN LegacySource -> RawOld \cup {None}] :
          \/ /\ stage = "row" /\ item = Item(source, id, None, NoKey, legacy)
             /\ origin = ResolveLegacyMediaIdentity(item)
          \/ /\ stage = "request"
             /\ \E declared \in Declared, key \in Keys : item = Item(source, id, declared, key, legacy)
             /\ origin = NoPair

\* The validators of the models and the check of the services: both or none.
Accept ==
    LET pair == ResolveLegacyMediaIdentity(item) IN
    /\ stage = "request"
    /\ IF pair = NoPair
       THEN stage' = "refused" /\ UNCHANGED <<item, origin>>
       ELSE /\ stage' = "stored" /\ item' = Item(pair[1], pair[2], None, NoKey, NoLegacy)
            /\ origin' = IF origin = NoPair THEN pair ELSE origin

\* Every start of the program migrates, also what it has migrated before.  In
\* a disputed row the word of the migration counts from then on.
Migrate ==
    /\ stage \in {"row", "stored"}
    /\ stage' = "stored" /\ item' = Migrated(item)
    /\ origin' = IF stage = "row" /\ Disputed(item) THEN ResolveMediaIdentity(item') ELSE origin

Serve ==
    /\ stage = "stored"
    /\ stage' = "served" /\ item' = BuildLegacyMediaIdentity(item)
    /\ UNCHANGED origin

\* A client sends what it was served, an old one only the fields it knows.
SendBack ==
    /\ stage = "served"
    /\ stage' = "request"
    /\ item' \in {item, [item EXCEPT !.source = None, !.id = None]}
    /\ UNCHANGED origin

Next == Accept \/ Migrate \/ Serve \/ SendBack

Spec == Init /\ [][Next]_vars

-----------------------------------------------------------------------------
(* What is stored satisfies the constraint of the tables: no request is     *)
(* answered with a database error and no migration fails on its own rows.   *)
StoredPassesCheck == stage = "stored" => MediaIdentityCheck(item.source, item.id)

(* The program reads in what is stored the identity that it read in the     *)
(* request, or in the row with its legacy columns, from which it came,      *)
(* after any number of migrations, answers and ways through clients of      *)
(* either age.  Of a row that is disputed this holds from its migration on. *)
IdentityKept == stage = "stored" /\ origin # NoPair => ResolveMediaIdentity(item) = origin

(* Nothing that was served with an identity is refused when it comes back.  *)
ServedIsAccepted == stage = "refused" => origin = NoPair

(* The migration drops the legacy columns: what the program read in a row,  *)
(* they included, it reads in the unified columns afterwards, and where it  *)
(* read nothing there is nothing, unless the row is disputed.               *)
LosslessMigration ==
    stage = "row" /\ ~Disputed(item) => ResolveMediaIdentity(item') = ResolveLegacyMediaIdentity(item)
=============================================================================
