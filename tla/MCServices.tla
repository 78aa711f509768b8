----------------------------- MODULE MCServices -----------------------------
(***************************************************************************)
(* The services behind the interfaces: how edits reach the caches, how the *)
(* workers start, clean up and stop, the authorisation of 115 accounts and  *)
(* the identities of media.  They have no state in common, so each         *)
(* behaviour is about one of them.  There is no symmetry set: two of the    *)
(* components have liveness properties.                                    *)
(***************************************************************************)
EXTENDS FiniteSets, Integers

CONSTANTS
    Procs, Tasks, Callbacks, Polls, Rows, None,
    MaxFills, MaxEdits, MaxOutages, MaxFaults, MaxRuns,
    Second, Lifetime, MaxTime,
    RawSources, RawIds, RawOld,
    Texts, Stripped, Folded, Trimmed, Lowered, Extensions, Unfit, Numbers

VARIABLES
    part,           \* the component that this behaviour is about
    cache, fills, revision, up, outages, seen, pending, commits, told, lost,
    pc, mem, dialect, db, draft, writer, lock, hit, faults, proc, lapsed,
    orphaned, rows, audited, marked, runs, now, session, stored, picked,
    gone, stage, item, origin

vars == <<part, cache, fills, revision, up, outages, seen, pending, commits, told,
          lost, pc, mem, dialect, db, draft, writer, lock, hit, faults,
          proc, lapsed, orphaned, rows, audited, marked, runs, now, session,
          stored, picked, gone, stage, item, origin>>

Invalidation == INSTANCE CacheInvalidation
Schema == INSTANCE SchemaMigration WITH Workers <- Procs
Cleanup == INSTANCE DataCleanup
Login == INSTANCE U115Login
Identity == INSTANCE MediaIdentity

\* Numbers are numbers, a clock that counts seconds ticks in them, and some
\* process serves.
ASSUME BoundsAssumption ==
    /\ {MaxEdits, MaxOutages, MaxFaults, MaxRuns, Lifetime, MaxTime} \subseteq Nat
    /\ Second \in Nat \ {0}
    /\ IsFiniteSet(Rows)
    /\ Procs # {}

\* Nobody is somebody, no session is a session and no text is a text.
ASSUME AbsentAssumption ==
    /\ None \notin Procs /\ None \notin Callbacks
    /\ None \notin Cleanup!Cleaners /\ None \notin Login!Session
    /\ None \notin Texts

\* Blanks, letters and names are what the program takes them for.
ASSUME TextAssumption == Identity!TextLaws

\* The variables of the other components keep no value.
WithoutInvalidation == <<dialect, db, draft, writer, lock, hit, faults, proc, lapsed, orphaned,
    rows, audited, marked, runs, now, session, stored, picked, gone,
    stage, item, origin>>
WithoutSchema == <<cache, fills, revision, up, outages, pending, commits, told, lost,
    mem, proc, lapsed, orphaned, rows, audited, marked, runs, now,
    session, stored, picked, gone, stage, item, origin>>
WithoutCleanup == <<cache, fills, revision, up, outages, seen, pending, commits, told,
    lost, mem, dialect, db, draft, writer, hit, faults, now, session,
    stored, picked, gone, stage, item, origin>>
WithoutLogin == <<cache, fills, revision, up, outages, seen, pending, commits, told,
    lost, dialect, db, draft, writer, lock, hit, faults, proc, lapsed,
    orphaned, rows, audited, marked, runs, stage, item, origin>>
WithoutIdentity == <<cache, fills, revision, up, outages, seen, pending, commits, told,
    lost, pc, mem, dialect, db, draft, writer, lock, hit, faults, proc,
    lapsed, orphaned, rows, audited, marked, runs, now, session, stored,
    picked, gone>>

Init ==
    \/ /\ part = "invalidation" /\ Invalidation!Init
       /\ dialect = None /\ db = None /\ draft = None /\ writer = None
       /\ lock = None /\ hit = None /\ faults = None /\ proc = None
       /\ lapsed = None /\ orphaned = None /\ rows = None
       /\ audited = None /\ marked = None /\ runs = None /\ now = None
       /\ session = None /\ stored = None /\ picked = None /\ gone = None
       /\ stage = None /\ item = None /\ origin = None
    \/ /\ part = "schema" /\ Schema!Init
       /\ cache = None /\ fills = None /\ revision = None /\ up = None
       /\ outages = None /\ pending = None /\ commits = None
       /\ told = None /\ lost = None /\ mem = None /\ proc = None
       /\ lapsed = None /\ orphaned = None /\ rows = None
       /\ audited = None /\ marked = None /\ runs = None /\ now = None
       /\ session = None /\ stored = None /\ picked = None /\ gone = None
       /\ stage = None /\ item = None /\ origin = None
    \/ /\ part = "cleanup" /\ Cleanup!Init
       /\ cache = None /\ fills = None /\ revision = None /\ up = None
       /\ outages = None /\ seen = None /\ pending = None
       /\ commits = None /\ told = None /\ lost = None /\ mem = None
       /\ dialect = None /\ db = None /\ draft = None /\ writer = None
       /\ hit = None /\ faults = None /\ now = None /\ session = None
       /\ stored = None /\ picked = None /\ gone = None /\ stage = None
       /\ item = None /\ origin = None
    \/ /\ part = "login" /\ Login!Init
       /\ cache = None /\ fills = None /\ revision = None /\ up = None
       /\ outages = None /\ seen = None /\ pending = None
       /\ commits = None /\ told = None /\ lost = None /\ dialect = None
       /\ db = None /\ draft = None /\ writer = None /\ lock = None
       /\ hit = None /\ faults = None /\ proc = None /\ lapsed = None
       /\ orphaned = None /\ rows = None /\ audited = None
       /\ marked = None /\ runs = None /\ stage = None /\ item = None
       /\ origin = None
    \/ /\ part = "identity" /\ Identity!Init
       /\ cache = None /\ fills = None /\ revision = None /\ up = None
       /\ outages = None /\ seen = None /\ pending = None
       /\ commits = None /\ told = None /\ lost = None /\ pc = None
       /\ mem = None /\ dialect = None /\ db = None /\ draft = None
       /\ writer = None /\ lock = None /\ hit = None /\ faults = None
       /\ proc = None /\ lapsed = None /\ orphaned = None /\ rows = None
       /\ audited = None /\ marked = None /\ runs = None /\ now = None
       /\ session = None /\ stored = None /\ picked = None /\ gone = None

Next ==
    /\ UNCHANGED part
    /\ \/ part = "invalidation" /\ Invalidation!Next /\ UNCHANGED WithoutInvalidation
       \/ part = "schema" /\ Schema!Next /\ UNCHANGED WithoutSchema
       \/ part = "cleanup" /\ Cleanup!Next /\ UNCHANGED WithoutCleanup
       \/ part = "login" /\ Login!Next /\ UNCHANGED WithoutLogin
       \/ part = "identity" /\ Identity!Next /\ UNCHANGED WithoutIdentity

invalidationVars == Invalidation!vars
schemaVars == Schema!vars

Fairness ==
    /\ \A t \in Tasks : WF_invalidationVars(part = "invalidation" /\ Invalidation!Step(t))
    /\ \A p \in Procs : WF_invalidationVars(part = "invalidation" /\ Invalidation!Poll(p))
    /\ WF_invalidationVars(part = "invalidation" /\ Invalidation!Recover)
    /\ \A w \in Procs : WF_schemaVars(part = "schema" /\ Schema!Step(w))

Spec == Init /\ [][Next]_vars /\ Fairness

-----------------------------------------------------------------------------
(* Representatives of the texts: aliases and an extension, with letters to  *)
(* fold, with a blank, a tab or both around them, and what is no source.    *)
(* "~" is a letter that casefold folds and LOWER does not, the long s.      *)
SomeSources == {"themoviedb", "TMDB ", "TMDB\t", "\t TMDB", "douban", "Douban_Mu~ic",
                "plugin.x", "Plugin.X ", "My Site", "a:b", "1abc", "", "long"}
SomeIds == {"", " 0 ", "12", " 12 ", "12\t", "\t", "x9", "012"}
SomeOldIds == {"12", "0", "\t"}

SomeTexts == SomeSources \cup SomeIds \cup SomeOldIds
    \cup {"tmdb", "themoviedb", "douban", "douban_music", "doubanmusic"}
    \cup {"composite", "TMDB", "Plugin.X", "tmdb\t", "\t tmdb", "douban_mu~ic", "my site"}

WithoutBlanks == [text \in SomeTexts |->
    CASE text = "TMDB " -> "TMDB" [] text = "Plugin.X " -> "Plugin.X"
      [] text = " 0 " -> "0"      [] text = " 12 " -> "12"
      [] OTHER -> text]

WithoutSpace == [text \in SomeTexts |->
    CASE text \in {"TMDB ", "TMDB\t", "\t TMDB"} -> "TMDB" [] text \in {"tmdb\t", "\t tmdb"} -> "tmdb"
      [] text = "12\t" -> "12" [] text = "\t" -> ""
      [] OTHER -> WithoutBlanks[text]]

InLowerCase(text) ==
    CASE text = "TMDB" -> "tmdb" [] text = "TMDB\t" -> "tmdb\t" [] text = "\t TMDB" -> "\t tmdb"
      [] text = "Plugin.X" -> "plugin.x" [] text = "My Site" -> "my site"
      [] text = "Douban_Mu~ic" -> "douban_mu~ic"
      [] OTHER -> text

Casefolded == [text \in SomeTexts |->
    LET lower == InLowerCase(WithoutSpace[text])
    IN  IF lower = "douban_mu~ic" THEN "douban_music" ELSE lower]

LowerCased == [text \in SomeTexts |-> InLowerCase(WithoutBlanks[text])]

Identifiers == {"plugin.x", "x9", "composite"}
UnfitSources == {"a:b", "My Site", "my site", "long", "\t TMDB", "\t tmdb", "TMDB ", "Plugin.X ", " 0 ", " 12 "}
Digits12 == [text \in {"12", "012"} |-> "12"]

-----------------------------------------------------------------------------
(* The properties of a component are explained where it is defined.         *)

(* Invalidation: a process that has seen a revision serves nothing older,   *)
(* and an edit that is not announced is on its way.                         *)
InvalidationCorrect == part = "invalidation" =>
    /\ Invalidation!TypeOK
    /\ Invalidation!SeenMeansCleared /\ Invalidation!AnnouncementKept

(* Invalidation: while Redis comes back, every edit reaches all processes.  *)
EditsReachProcs ==
    \A n \in 1..MaxEdits :
        (part = "invalidation" /\ commits = n) ~> (part = "invalidation" /\ Invalidation!Reached(n))

(* Migration: workers that start together do not make one another fail,     *)
(* what is left behind can be migrated, and who has migrated serves with    *)
(* the final schema.                                                        *)
MigrationCorrect == part = "schema" =>
    /\ Schema!TypeOK
    /\ Schema!NobodyFails /\ Schema!NothingHalfDone /\ Schema!MigratedMeansFinal

(* Migration: no worker waits for ever.                                     *)
EveryoneServes ==
    \A w \in Procs : (part = "schema" /\ pc[w] = "start") ~> (part = "schema" /\ Schema!Serves(w))

(* Cleanup: one at a time unless a lease lapsed, its lock is not left       *)
(* behind, and the audit log reports exactly what was deleted.              *)
CleanupCorrect == part = "cleanup" =>
    /\ Cleanup!TypeOK
    /\ Cleanup!OneCleanup /\ Cleanup!LockNotLeft /\ Cleanup!AuditExact

(* 115: a token that was announced is there for the one who waits for it,   *)
(* and one that was taken is not served again.                              *)
LoginCorrect == part = "login" =>
    /\ Login!TypeOK
    /\ Login!SuccessNotLost /\ Login!NotServedAgain

(* Identities: what is stored passes the constraint of the table, is read   *)
(* as the identity it was, and is accepted when a client sends it back.     *)
IdentitiesCorrect == part = "identity" =>
    /\ Identity!TypeOK
    /\ Identity!StoredPassesCheck /\ Identity!IdentityKept /\ Identity!ServedIsAccepted

(* What no step may do: release the lock of another cleanup, or read in a   *)
(* migrated row another identity than the program does, unless the row is   *)
(* one of those on which the two are known to differ.                       *)
RightfulSteps ==
    [][/\ part = "cleanup" => Cleanup!OwnRelease
       /\ part = "identity" => Identity!LosslessMigration]_vars

=============================================================================
