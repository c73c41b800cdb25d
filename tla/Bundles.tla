------------------------------ MODULE Bundles -------------------------------
(***************************************************************************)
(* Evidence packages: the zip of an export is built by the server, served  *)
(* from disk, pruned by a cleanup job that is another process, and lost or *)
(* cut short when the server stops (routes/exports.js, server.js,          *)
(* tools/cleanup-bundles.js).                                              *)
(*                                                                         *)
(* An export has one file name, so file[x] is the directory entry: a build *)
(* that opens a name in use empties the file everybody has open, and one   *)
(* that opens a name unlinked since writes where nobody looks.             *)
(*                                                                         *)
(* A definition whose name ends in _Something is the one before the        *)
(* underscore with a plausible mistake in it; no action uses it.           *)
(***************************************************************************)
EXTENDS Naturals

CONSTANTS Exports, Builds, Readers, NoFile, NoBuild,
          MaxDeaths     \* bound: how often the cleanup job dies half-way

VARIABLES bundlePath,  \* whether t661_exports.bundle_path is set
          file,        \* the bundle on disk
          build,       \* POST /api/exports/:id/evidence-package under way
          downloads,   \* GET /api/exports/:id/evidence-package under way
          server,      \* the Node process: up, draining or down
          cleaner,     \* tools/cleanup-bundles.js
          tainted      \* ghost: exports whose builds overlapped, or whose row
                       \* was restored over a directory of later bundles

serverVars == <<build, downloads, server>>
bundleVars == <<bundlePath, file, build, downloads, server, cleaner, tainted>>

BundleFile == [whole: BOOLEAN, old: BOOLEAN]

\* stream: the write stream.  dead: the archive stopped with an error, nothing
\* more is written.  linked: what this build writes goes into the file that the
\* directory names.  alone: no other build has opened that file since.
BuildRow == [of: Exports,
             stream: {"opening", "open", "flushed", "broken", "closed"},
             dead: BOOLEAN, cleanedUp: BOOLEAN, unlinking: BOOLEAN,
             linked: BOOLEAN, alone: BOOLEAN, answers: 0..2]

ASSUME BundlesAssumption ==
    NoFile \notin BundleFile /\ NoBuild \notin BuildRow /\ MaxDeaths \in Nat

BundlesTypeOK ==
    /\ bundlePath \in [Exports -> BOOLEAN]
    /\ file \in [Exports -> BundleFile \cup {NoFile}]
    /\ build \in [Builds -> BuildRow \cup {NoBuild}]
    /\ downloads \subseteq Readers
    /\ server \in {"up", "draining", "down"}
    /\ cleaner \in [pc: {"idle", "stat", "null", "unlink", "orphans", "orphan"},
                   at: SUBSET Exports, todo: SUBSET Exports, deaths: 0..MaxDeaths]
    /\ tainted \subseteq Exports

\* at: the export whose file or row the job is about to change; todo: those it
\* has still to look at.
CleanerIdle(deaths) == [pc |-> "idle", at |-> {}, todo |-> {}, deaths |-> deaths]

BundlesInit ==
    /\ bundlePath = [x \in Exports |-> FALSE]
    /\ file = [x \in Exports |-> NoFile]
    /\ build = [r \in Builds |-> NoBuild]
    /\ downloads = {}
    /\ server = "up"
    /\ cleaner = CleanerIdle(0)
    /\ tainted = {}

-----------------------------------------------------------------------------
(* Building *)

onDisk(x) == file[x] # NoFile

running(r) == build[r] # NoBuild

writing(r, x) == running(r) /\ build[r].of = x /\ build[r].stream = "open" /\ build[r].linked

mayBuild_Anyway(x) == TRUE

\* 409 "evidence package already built" is all that stops a build.
mayBuild(x) == ~bundlePath[x]

\* POST /api/exports/:id/evidence-package, up to its first await.
PostPackage(r, x) ==
    /\ server = "up"
    /\ ~running(r)
    /\ mayBuild(x)
    /\ build' = [build EXCEPT ![r] =
         [of |-> x, stream |-> "opening", dead |-> FALSE, cleanedUp |-> FALSE,
          unlinking |-> FALSE, linked |-> FALSE, alone |-> FALSE, answers |-> 0]]
    /\ tainted' = IF \E s \in Builds : running(s) /\ build[s].of = x
                    THEN tainted \cup {x} ELSE tainted
    /\ UNCHANGED <<bundlePath, file, downloads, server, cleaner>>

\* createWriteStream opens the file, and empties one that is there.
OpenFile(r) ==
    /\ running(r)
    /\ build[r].stream = "opening"
    /\ LET x == build[r].of IN
       /\ file' = [file EXCEPT ![x] = [whole |-> FALSE, old |-> FALSE]]
       /\ build' = [s \in Builds |->
            IF s = r THEN [build[s] EXCEPT !.stream = "open", !.linked = ~build[s].dead,
                             !.alone = ~build[s].dead /\ ~\E t \in Builds : writing(t, x)]
            ELSE IF writing(s, x) THEN [build[s] EXCEPT !.alone = FALSE]
            ELSE build[s]]
    /\ UNCHANGED <<bundlePath, downloads, server, cleaner, tainted>>

\* Build b writes no more.
still(b) == [b EXCEPT !.linked = FALSE, !.alone = FALSE]

\* The archive is written out and the file closed.  What two builds wrote over
\* one another may or may not be a zip.
Flush(r) ==
    /\ running(r)
    /\ build[r].stream = "open"
    /\ ~build[r].dead
    /\ build' = [build EXCEPT ![r] = still([@ EXCEPT !.stream = "flushed"])]
    /\ IF build[r].linked
         THEN \E w \in IF build[r].alone THEN {TRUE} ELSE BOOLEAN :
                file' = [file EXCEPT ![build[r].of].whole = w]
         ELSE UNCHANGED file
    /\ UNCHANGED <<bundlePath, downloads, server, cleaner, tainted>>

cleanup_Mute(b) == [b EXCEPT !.cleanedUp = TRUE]

\* cleanupBundle: one unlink and one error for the client, whatever fires.
cleanup(b) ==
    IF b.cleanedUp THEN b ELSE [b EXCEPT !.cleanedUp = TRUE, !.unlinking = TRUE]

\* The disk is full or fails: the stream's 'error', its 'close' comes later.
OutputFails(r) ==
    /\ running(r)
    /\ build[r].stream \in {"opening", "open"}
    /\ build' = [build EXCEPT ![r] = cleanup(still([@ EXCEPT !.stream = "broken"]))]
    /\ UNCHANGED <<bundlePath, file, downloads, server, cleaner, tainted>>

\* The archive's 'error'.  Nobody ends the stream: it never closes.
ArchiveFails(r) ==
    /\ running(r)
    /\ build[r].stream \in {"opening", "open"}
    /\ ~build[r].dead
    /\ build' = [build EXCEPT ![r] = cleanup(still([@ EXCEPT !.dead = TRUE]))]
    /\ UNCHANGED <<bundlePath, file, downloads, server, cleaner, tainted>>

published_Always(b) == TRUE

published(b) == ~b.cleanedUp

\* The stream's 'close'.
Close(r) ==
    /\ running(r)
    /\ build[r].stream \in {"flushed", "broken"}
    /\ LET ok == published(build[r]) IN
       /\ build' = [build EXCEPT ![r].stream = "closed",
                                 ![r].answers = IF ok THEN @ + 1 ELSE @]
       /\ bundlePath' = IF ok THEN [bundlePath EXCEPT ![build[r].of] = TRUE] ELSE bundlePath
    /\ UNCHANGED <<file, downloads, server, cleaner, tainted>>

\* The name of export x leaves the directory.
removed(x) == [file EXCEPT ![x] = NoFile]

unlinked(x) ==
    [s \in Builds |-> IF running(s) /\ build[s].of = x
                        THEN still(build[s]) ELSE build[s]]

\* fs.unlink calls back, whether the file was there or not: next(err).
Unlinked(r) ==
    /\ running(r)
    /\ build[r].unlinking
    /\ file' = removed(build[r].of)
    /\ build' = [unlinked(build[r].of) EXCEPT ![r].unlinking = FALSE, ![r].answers = @ + 1]
    /\ UNCHANGED <<bundlePath, downloads, server, cleaner, tainted>>

\* Nothing of the request is left; a stream that never closes is abandoned.
Over(r) ==
    /\ running(r)
    /\ build[r].answers > 0
    /\ ~build[r].unlinking
    /\ build[r].stream = "closed" \/ (build[r].stream = "open" /\ build[r].dead)
    /\ build' = [build EXCEPT ![r] = NoBuild]
    /\ UNCHANGED <<bundlePath, file, downloads, server, cleaner, tainted>>

\* GET /api/exports/:id/evidence-package; otherwise 404.
GetPackage(c, x) ==
    /\ server = "up"
    /\ bundlePath[x]
    /\ onDisk(x)
    /\ c \notin downloads
    /\ downloads' = downloads \cup {c}
    /\ UNCHANGED <<bundlePath, file, build, server, cleaner, tainted>>

\* The client has it all, or hangs up.
Served(c) ==
    /\ c \in downloads
    /\ downloads' = downloads \ {c}
    /\ UNCHANGED <<bundlePath, file, build, server, cleaner, tainted>>

-----------------------------------------------------------------------------
(* The process *)

\* The process is gone: its requests go unanswered, its files stay as they are.
Gone ==
    /\ server' = "down"
    /\ build' = [r \in Builds |-> NoBuild]
    /\ downloads' = {}
    /\ UNCHANGED <<bundlePath, file, cleaner, tainted>>

\* SIGTERM or SIGINT: no new request; a second signal changes nothing.
Shutdown ==
    /\ server = "up"
    /\ server' = "draining"
    /\ UNCHANGED <<bundlePath, file, build, downloads, cleaner, tainted>>

\* server.close calls back: every request is answered.
Drained ==
    /\ server = "draining"
    /\ downloads = {}
    /\ \A r \in Builds : running(r) => build[r].answers > 0
    /\ Gone

forceExitDue_Never == FALSE

forceExitDue == server = "draining"

\* The ten seconds of forceExitTimer are over.
ForceExit == forceExitDue /\ Gone

\* A crash, a kill, or an unhandled rejection, such as that of finalize().
Crash == server # "down" /\ Gone

\* The supervisor starts the server again.
Boot ==
    /\ server = "down"
    /\ server' = "up"
    /\ UNCHANGED <<bundlePath, file, build, downloads, cleaner, tainted>>

-----------------------------------------------------------------------------
(* tools/cleanup-bundles.js *)

\* readdirSync lists the bundles.
CleanerStarts ==
    /\ cleaner.pc = "idle"
    /\ cleaner' = [cleaner EXCEPT !.pc = "stat", !.todo = {x \in Exports : onDisk(x)}]
    /\ UNCHANGED <<bundlePath, file, serverVars, tainted>>

\* statSync: a bundle that is fresh, or gone, is passed over.
CleanerStats(x) ==
    /\ cleaner.pc = "stat"
    /\ x \in cleaner.todo
    /\ cleaner' = IF onDisk(x) /\ file[x].old
                    THEN [cleaner EXCEPT !.pc = "null", !.at = {x}, !.todo = @ \ {x}]
                    ELSE [cleaner EXCEPT !.todo = @ \ {x}]
    /\ UNCHANGED <<bundlePath, file, serverVars, tainted>>

\* UPDATE ... SET bundle_path = NULL WHERE bundle_path = the file's.
CleanerNulls(x) ==
    /\ cleaner.pc = "null"
    /\ x \in cleaner.at
    /\ bundlePath' = [bundlePath EXCEPT ![x] = FALSE]
    /\ cleaner' = [cleaner EXCEPT !.pc = "unlink"]
    /\ UNCHANGED <<file, serverVars, tainted>>

\* unlinkSync.
CleanerUnlinks(x) ==
    /\ cleaner.pc = "unlink"
    /\ x \in cleaner.at
    /\ file' = removed(x)
    /\ build' = unlinked(x)
    /\ cleaner' = [cleaner EXCEPT !.pc = "stat", !.at = {}]
    /\ UNCHANGED <<bundlePath, downloads, server, tainted>>

listed_None == {}

\* SELECT id, bundle_path FROM t661_exports WHERE bundle_path IS NOT NULL
listed == {x \in Exports : bundlePath[x]}

\* The second pass looks for rows that name a missing bundle.
CleanerLists ==
    /\ cleaner.pc = "stat"
    /\ cleaner.todo = {}
    /\ cleaner' = [cleaner EXCEPT !.pc = "orphans", !.todo = listed]
    /\ UNCHANGED <<bundlePath, file, serverVars, tainted>>

\* existsSync, and if the bundle is missing the UPDATE of its row.
CleanerLooks(x) ==
    /\ cleaner.pc = "orphans"
    /\ x \in cleaner.todo
    /\ cleaner' = IF onDisk(x)
                    THEN [cleaner EXCEPT !.todo = @ \ {x}]
                    ELSE [cleaner EXCEPT !.pc = "orphan", !.at = {x}, !.todo = @ \ {x}]
    /\ UNCHANGED <<bundlePath, file, serverVars, tainted>>

CleanerClears(x) ==
    /\ cleaner.pc = "orphan"
    /\ x \in cleaner.at
    /\ bundlePath' = [bundlePath EXCEPT ![x] = FALSE]
    /\ cleaner' = [cleaner EXCEPT !.pc = "orphans", !.at = {}]
    /\ UNCHANGED <<file, serverVars, tainted>>

CleanerEnds ==
    /\ cleaner.pc = "orphans"
    /\ cleaner.todo = {}
    /\ cleaner' = CleanerIdle(cleaner.deaths)
    /\ UNCHANGED <<bundlePath, file, serverVars, tainted>>

\* The job dies between two of its steps.
CleanerDies ==
    /\ cleaner.pc # "idle"
    /\ cleaner.deaths < MaxDeaths
    /\ cleaner' = CleanerIdle(cleaner.deaths + 1)
    /\ UNCHANGED <<bundlePath, file, serverVars, tainted>>

CleanerStep ==
    \/ CleanerStarts
    \/ CleanerLists
    \/ CleanerEnds
    \/ \E x \in Exports :
         \/ CleanerStats(x)
         \/ CleanerNulls(x)
         \/ CleanerUnlinks(x)
         \/ CleanerLooks(x)
         \/ CleanerClears(x)

\* Ninety days pass for a bundle nobody writes.
Age(x) ==
    /\ onDisk(x)
    /\ ~file[x].old
    /\ \A r \in Builds : ~writing(r, x)
    /\ file' = [file EXCEPT ![x].old = TRUE]
    /\ UNCHANGED <<bundlePath, serverVars, cleaner, tainted>>

\* An operator deletes a bundle by hand.
DeletedByHand(x) ==
    /\ onDisk(x)
    /\ file' = removed(x)
    /\ build' = unlinked(x)
    /\ UNCHANGED <<bundlePath, downloads, server, cleaner, tainted>>

\* What libuv does for build r, sooner or later.
Advance(r) == OpenFile(r) \/ Flush(r) \/ Close(r) \/ Unlinked(r)

BuildStep ==
    \/ \E r \in Builds :
         \/ \E x \in Exports : PostPackage(r, x)
         \/ Advance(r)
         \/ OutputFails(r)
         \/ ArchiveFails(r)
         \/ Over(r)
    \/ \E c \in Readers : Served(c) \/ \E x \in Exports : GetPackage(c, x)

ProcessStep == Shutdown \/ Drained \/ ForceExit \/ Crash \/ Boot

BundlesNext ==
    \/ BuildStep
    \/ ProcessStep
    \/ CleanerStep
    \/ CleanerDies
    \/ \E x \in Exports : Age(x) \/ DeletedByHand(x)

\* What is sure to happen: files get written, streams and unlinks call back, the
\* ten-second timer fires, and the job runs again and again (README.md:170).
\* Clients, operators, failures, the clock and the supervisor owe nothing.
BundlesFairness ==
    /\ \A r \in Builds : WF_bundleVars(Advance(r))
    /\ WF_bundleVars(ForceExit)
    /\ WF_bundleVars(CleanerStep)

BundlesSpec == BundlesInit /\ [][BundlesNext]_bundleVars /\ BundlesFairness

-----------------------------------------------------------------------------
(* Properties *)

\* A bundle that GET would serve is a whole archive, whatever errors, crashes,
\* cleanups and rebuilds went before, as long as no two builds of its export
\* were under way together (exports.js:211, :236-253: the 409, the single
\* cleanup and the close that comes after an error).
PublishedIsWhole ==
    \A x \in Exports : bundlePath[x] /\ onDisk(x) /\ x \notin tainted => file[x].whole

\* Every POST that starts a build is answered, however its streams fail and in
\* whatever order their events come, unless the process ends first
\* (exports.js:231-253).
EachPostAnswered == \A r \in Builds : running(r) ~> (running(r) => build[r].answers = 1)

\* A row that names a missing bundle, which answers 404 to GET and 409 to POST,
\* gets its column cleared or its bundle back, with the job dying half-way some
\* of the time (cleanup-bundles.js:68-80).
DanglingIsCleared ==
    \A x \in Exports : (bundlePath[x] /\ ~onDisk(x)) ~> (~bundlePath[x] \/ onDisk(x))

\* A signal ends the process, however slow the client of a download is
\* (server.js:134-148).
ShutdownEnds == (server = "draining") ~> (server = "down")
=============================================================================
