-------------------------- MODULE MCPublicInterface -------------------------
(***************************************************************************)
(* The public interface: the six components that keep what clients report  *)
(* and share, and the windows that limit requests.  They have no state in  *)
(* common, so each behaviour is about one of them.                         *)
(***************************************************************************)
EXTENDS FiniteSets, Integers, TLC

CONSTANTS
    Tasks, Users, Titles, Procs, OneProc,
    None, Unreadable,
    MaxFills, MaxWrites, MaxInstalls, MaxDeletes, MaxRequests, MaxReports,
    MaxShares, MaxForks, MaxUpserts,
    Limit, Window, MaxDelay, MaxTime

ASSUME BoundsAssumption ==
    /\ {MaxFills, MaxWrites, MaxInstalls, MaxDeletes, MaxRequests, MaxReports,
        MaxShares, MaxForks, MaxUpserts, Limit, Window, MaxDelay, MaxTime} \subseteq Nat
    /\ IsFiniteSet(Tasks) /\ IsFiniteSet(Users)

\* A connection gives up before a window is over.
ASSUME WindowAssumption == 0 < Window /\ MaxDelay <= Window

\* Marks whose average is not a tenth; a spelling with capitals and one without.
Marks == {20, 45}
Names == {"MyPlugin", "myplugin"}
Camel == {"MyPlugin"}
Windows == 3

About(keyword, type, year, season, music) ==
    [keyword |-> keyword, type |-> type, year |-> year, season |-> season, music |-> music]

\* A recording, an album, no kind of music; and, on its own, a series.
Media == {About("The Song", "Music ", None, None, None),
          About(" The  Song", "music", " ", 1, "Album"),
          About("The Song", "music", None, None, "x")}
TheSeries == {About("The Song", "TV", " 1999", 1, None)}
Ids == {"i1"}
Folds ==
    [text \in {"The Song", " The  Song", "Music ", "TV", "Album", " ", " 1999"} |->
        IF text \in {"The Song", " The  Song"} THEN "the song" ELSE IF text = "Music " THEN "music"
        ELSE IF text = "TV" THEN "tv" ELSE IF text = "Album" THEN "album" ELSE IF text = " " THEN "" ELSE "1999"]

Symmetry ==
    Permutations(Tasks) \cup Permutations(Users) \cup Permutations(Procs)

VARIABLES
    part,           \* the component that this behaviour is about
    cache, fills, rating, summary, holder, commits, asked, done, pc, mem,
    row, born, reported, credited, removed, deletes, added, tally, raced,
    quiet, swept, reader, cached, table, dialect, share, drawn, chosen, store,
    newest, req, got, served, upserts, audit, kind, now, key, at, admitted,
    unfounded

vars == <<part, cache, fills, rating, summary, holder, commits, asked, done, pc,
          mem, row, born, reported, credited, removed, deletes, added,
          tally, raced, quiet, swept, reader, cached, table, dialect, share, drawn,
          chosen, store, newest, req, got, served, upserts, audit, kind,
          now, key, at, admitted, unfounded>>

Rating == INSTANCE PluginRating
Installs == INSTANCE InstallCounters
Subscribe == INSTANCE SubscribeStatistics
Usage == INSTANCE UsageStatistics
Share == INSTANCE Shares WITH Procs <- OneProc, Uids <- Users
Recognition == INSTANCE MediaRecognition
Series == INSTANCE MediaRecognition WITH Media <- TheSeries
Rate == INSTANCE RateWindow

\* No row is a row, and nobody has a number.
ASSUME AbsentAssumption ==
    /\ None \notin Nat /\ None \notin Tasks
    /\ None \notin Installs!Row /\ None \notin Installs!Memory
    /\ None \notin Usage!Row /\ None \notin Usage!Figures
    /\ None \notin Rating!Row /\ None \notin Rating!Totals /\ None \notin Rating!Entry
    /\ None \notin Rating!Memory /\ None \notin Rating!Committed
    /\ None \notin Share!Share /\ None \notin Share!Entry /\ None \notin Share!Memory
    /\ None \notin Subscribe!Memory

\* What is about a medium, in the form it is stored in; and its keys.
Texts == {"The Song", " The  Song", "the song", "movie", "tv", "music", "recording", "album", "artist",
          "", "x", "1999"}
Described ==
    [keyword : Texts, type : Texts \cup {None}, year : Texts \cup {None}, season : {1, None},
     music : Texts \cup {None}]
Items == [medium : Described, id : Ids \cup {"old", "legacy"}, title : Titles \cup {None}, complete : BOOLEAN]
Keys == Texts \X Texts \X (Texts \cup {None}) \X {1, None} \X (Texts \cup {None})

\* No text is absent, and neither are a key and a record.
ASSUME TextsAssumption ==
    /\ None \notin Texts /\ None \notin DOMAIN Folds /\ None \notin Keys
    /\ None \notin Items /\ Unreadable \notin Items /\ None \notin Ids

\* The variables of the other components keep no value.
WithoutRating == <<row, born, reported, credited, removed, deletes, added, tally, raced,
    quiet, swept, reader, cached, table, dialect, share, drawn, chosen, store,
    newest, req, got, served, upserts, audit, kind, now, key, at,
    admitted, unfounded>>
WithoutInstalls == <<cache, fills, rating, summary, holder, commits, asked, done, added,
    tally, raced, quiet, swept, reader, cached, table, dialect, share, drawn,
    chosen, store, newest, req, got, served, upserts, audit, kind, now,
    key, at, admitted, unfounded>>
WithoutSubscribe == <<cache, fills, rating, summary, holder, commits, done, reported,
    credited, removed, deletes, quiet, swept, reader, cached, table,
    share, drawn, chosen, store, newest, req, got, served, upserts, audit,
    kind, now, key, at, admitted, unfounded>>
WithoutUsage == <<cache, fills, rating, summary, holder, commits, done, born, reported,
    added, tally, raced, table, dialect, share, drawn, chosen, store, newest, req,
    got, served, upserts, audit, kind, now, key, at, admitted, unfounded>>
WithoutShare == <<rating, summary, holder, row, born, reported, credited, removed,
    deletes, added, tally, quiet, swept, reader, cached, store, newest,
    req, got, served, upserts, audit, kind, now, key, at, admitted,
    unfounded>>
WithoutRecognition == <<cache, fills, rating, summary, holder, commits, asked, done, mem, row,
    born, reported, credited, removed, added, tally, raced, quiet, swept,
    reader, cached, table, dialect, share, drawn, chosen, kind, now, key, at,
    admitted, unfounded>>
WithoutRate == <<cache, fills, rating, summary, holder, commits, asked, done, pc, mem,
    row, born, reported, credited, removed, deletes, added, tally, raced,
    quiet, swept, reader, cached, table, dialect, share, drawn, chosen, store,
    newest, req, got, served, upserts, audit>>

Init ==
    \/ /\ part = "rating" /\ Rating!Init
       /\ row = None /\ born = None /\ reported = None /\ credited = None
       /\ removed = None /\ deletes = None /\ added = None
       /\ tally = None /\ raced = None /\ quiet = None /\ swept = None
       /\ reader = None /\ cached = None /\ table = None /\ dialect = None /\ share = None
       /\ drawn = None /\ chosen = None /\ store = None /\ newest = None
       /\ req = None /\ got = None /\ served = None /\ upserts = None
       /\ audit = None /\ kind = None /\ now = None /\ key = None
       /\ at = None /\ admitted = None /\ unfounded = None
    \/ /\ part = "installs" /\ Installs!Init
       /\ cache = None /\ fills = None /\ rating = None /\ summary = None
       /\ holder = None /\ commits = None /\ asked = None /\ done = None
       /\ added = None /\ tally = None /\ raced = None /\ quiet = None
       /\ swept = None /\ reader = None /\ cached = None /\ table = None /\ dialect = None
       /\ share = None /\ drawn = None /\ chosen = None /\ store = None
       /\ newest = None /\ req = None /\ got = None /\ served = None
       /\ upserts = None /\ audit = None /\ kind = None /\ now = None
       /\ key = None /\ at = None /\ admitted = None /\ unfounded = None
    \/ /\ part = "subscribe" /\ Subscribe!Init
       /\ cache = None /\ fills = None /\ rating = None /\ summary = None
       /\ holder = None /\ commits = None /\ done = None
       /\ reported = None /\ credited = None /\ removed = None
       /\ deletes = None /\ quiet = None /\ swept = None /\ reader = None
       /\ cached = None /\ table = None /\ share = None /\ drawn = None
       /\ chosen = None /\ store = None /\ newest = None /\ req = None
       /\ got = None /\ served = None /\ upserts = None /\ audit = None
       /\ kind = None /\ now = None /\ key = None /\ at = None
       /\ admitted = None /\ unfounded = None
    \/ /\ part = "usage" /\ Usage!Init
       /\ cache = None /\ fills = None /\ rating = None /\ summary = None
       /\ holder = None /\ commits = None /\ done = None /\ born = None
       /\ reported = None /\ added = None /\ tally = None /\ raced = None
       /\ table = None /\ dialect = None /\ share = None /\ drawn = None /\ chosen = None
       /\ store = None /\ newest = None /\ req = None /\ got = None
       /\ served = None /\ upserts = None /\ audit = None /\ kind = None
       /\ now = None /\ key = None /\ at = None /\ admitted = None
       /\ unfounded = None
    \/ /\ part = "shares" /\ Share!Init
       /\ rating = None /\ summary = None /\ holder = None /\ row = None
       /\ born = None /\ reported = None /\ credited = None
       /\ removed = None /\ deletes = None /\ added = None
       /\ tally = None /\ quiet = None /\ swept = None /\ reader = None
       /\ cached = None /\ store = None /\ newest = None /\ req = None
       /\ got = None /\ served = None /\ upserts = None /\ audit = None
       /\ kind = None /\ now = None /\ key = None /\ at = None
       /\ admitted = None /\ unfounded = None
    \/ /\ \/ part = "recognition" /\ Recognition!Init
          \/ part = "series" /\ Series!Init
       /\ cache = None /\ fills = None /\ rating = None /\ summary = None
       /\ holder = None /\ commits = None /\ asked = None /\ done = None
       /\ mem = None /\ row = None /\ born = None /\ reported = None
       /\ credited = None /\ removed = None /\ added = None
       /\ tally = None /\ raced = None /\ quiet = None /\ swept = None
       /\ reader = None /\ cached = None /\ table = None /\ dialect = None /\ share = None
       /\ drawn = None /\ chosen = None /\ kind = None /\ now = None
       /\ key = None /\ at = None /\ admitted = None /\ unfounded = None
    \/ /\ part = "rate" /\ Rate!Init
       /\ cache = None /\ fills = None /\ rating = None /\ summary = None
       /\ holder = None /\ commits = None /\ asked = None /\ done = None
       /\ pc = None /\ mem = None /\ row = None /\ born = None
       /\ reported = None /\ credited = None /\ removed = None
       /\ deletes = None /\ added = None /\ tally = None /\ raced = None
       /\ quiet = None /\ swept = None /\ reader = None /\ cached = None
       /\ table = None /\ dialect = None /\ share = None /\ drawn = None /\ chosen = None
       /\ store = None /\ newest = None /\ req = None /\ got = None
       /\ served = None /\ upserts = None /\ audit = None

Next ==
    /\ UNCHANGED part
    /\ \/ part = "rating" /\ Rating!Next /\ UNCHANGED WithoutRating
       \/ part = "installs" /\ Installs!Next /\ UNCHANGED WithoutInstalls
       \/ part = "subscribe" /\ Subscribe!Next /\ UNCHANGED WithoutSubscribe
       \/ part = "usage" /\ Usage!Next /\ UNCHANGED WithoutUsage
       \/ part = "shares" /\ Share!Next /\ UNCHANGED WithoutShare
       \/ part = "recognition" /\ Recognition!Next /\ UNCHANGED WithoutRecognition
       \/ part = "series" /\ Series!Next /\ UNCHANGED WithoutRecognition
       \/ part = "rate" /\ Rate!Next /\ UNCHANGED WithoutRate

Spec == Init /\ [][Next]_vars

-----------------------------------------------------------------------------
(* The properties of a component are explained where it is defined.         *)

(* Plugin ratings: whoever rates, deletes and reads at a time, the summary  *)
(* is the aggregate of the rows, the one retry of a submission is enough,   *)
(* and a process that has written serves nothing older.                     *)
RatingsCorrect == part = "rating" =>
    /\ Rating!TypeOK
    /\ Rating!SummaryMatches /\ Rating!NobodyRefused /\ Rating!RefreshedAfterRating

(* Installations: every committed report is counted once, whichever         *)
(* spelling of the name it used, and one fails only for a deletion.         *)
InstallsCorrect == part = "installs" =>
    /\ Installs!TypeOK
    /\ Installs!InstallsCounted /\ Installs!RefusedOnlyAfterDelete

(* Subscriptions: no row counts zero or less, overlapping reports invent no *)
(* subscriber on PostgreSQL, and without overlap the count is exact.        *)
PopularityCorrect == part = "subscribe" =>
    /\ Subscribe!TypeOK
    /\ Subscribe!PopularityPositive /\ Subscribe!NeverOvercounted /\ Subscribe!CountedAlone

(* Usage: every answered report counts in one row, one fails only for a     *)
(* deletion, what a process serves is as new as its last clear, and figures *)
(* that six queries collect fit together.                                   *)
UsageCorrect == part = "usage" =>
    /\ Usage!TypeOK
    /\ Usage!ReportsCounted /\ Usage!ReportRefused
    /\ Usage!ClearedForGood /\ Usage!FiguresFit

(* Shares: a title once at a time unless requests overlap, identifiers      *)
(* collide only when payloads bring them, and a process that has changed    *)
(* the shares lists nothing older.                                          *)
SharesCorrect == part = "shares" =>
    /\ Share!TypeOK
    /\ Share!OneShareAlone /\ Share!IdsFit /\ Share!ListedAfterChange

(* Recognition: what was reported is found, and an answer is about what was *)
(* asked, although records of three generations lie side by side.           *)
RecognitionCorrect ==
    /\ part = "recognition" =>
           Recognition!TypeOK /\ Recognition!KnownIsServed /\ Recognition!AnswerFits
    /\ part = "series" =>
           Series!TypeOK /\ Series!KnownIsServed /\ Series!AnswerFits

(* Windows: a counter dies with its bucket, a client gets in at most so     *)
(* often, and nobody is turned away without having had the limit.           *)
WindowsCorrect == part = "rate" =>
    /\ Rate!TypeOK
    /\ Rate!BucketHeld /\ Rate!BurstBounded /\ Rate!RefusedWithReason

(* What a user's request deletes is the user's own share, unless SQLite has *)
(* given its id to another; a deletion of the administrator in Redis has    *)
(* its intent on record in the database.                                    *)
DeletionsEntitled ==
    [][/\ part = "shares" /\ dialect = "postgresql" /\ ~chosen => Share!OwnDeletion
       /\ part = "recognition" => Recognition!TracedDeletion
       /\ part = "series" => Series!TracedDeletion]_vars

=============================================================================
