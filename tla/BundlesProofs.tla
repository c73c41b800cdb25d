--------------------------- MODULE BundlesProofs ----------------------------
(***************************************************************************)
(* Proofs about bundles and backups, for any exports, builds, downloads,   *)
(* pieces of evidence and deaths of the cleanup job: the types, that no    *)
(* build is answered twice, that what is published is whole, also after    *)
(* restores, and that a restore keeps the files of what still stands.      *)
(***************************************************************************)
EXTENDS Backups, TLAPS

\* What the events of one build leave behind.
Sound(b) ==
    /\ b.answers <= 1
    /\ b.unlinking => b.cleanedUp /\ b.answers = 0
    /\ b.stream # "closed" /\ ~b.cleanedUp => b.answers = 0
    /\ b.stream = "broken" \/ b.dead => b.cleanedUp
    /\ b.linked => b.stream = "open" /\ ~b.dead

BuildsSound == \A r \in Builds : running(r) => Sound(build[r])

of(r, x) == running(r) /\ build[r].of = x

\* What a build writes to the directory's file, there is a file for.
Rooted == \A r \in Builds : running(r) /\ build[r].linked => onDisk(build[r].of)

\* The only build of export x: what it has published, and what is in the file.
Alone(x) ==
    \A r, s \in Builds : of(r, x) /\ of(s, x) => r = s

InStep(x) ==
    \A r \in Builds : of(r, x) =>
      /\ bundlePath[x] => build[r].stream = "closed"
      /\ build[r].linked => build[r].alone
      /\ build[r].stream = "open" /\ ~build[r].dead /\ ~build[r].linked => ~onDisk(x)
      /\ build[r].stream = "flushed" /\ onDisk(x) => file[x].whole

\* The part of PublishedIsWhole about export x.
Whole(x) == bundlePath[x] /\ onDisk(x) => file[x].whole

Orderly(x) == Alone(x) /\ InStep(x) /\ Whole(x)

Inv == /\ BundlesTypeOK /\ BuildsSound /\ Rooted
       /\ \A x \in Exports : x \notin tainted => Orderly(x)

-----------------------------------------------------------------------------
(* Types *)

LEMMA BuildType ==
    ASSUME BundlesTypeOK, NEW r \in Builds, running(r)
    PROVE  build[r] \in BuildRow /\ build[r].of \in Exports
BY DEF BundlesTypeOK, running, BuildRow

LEMMA UpdatedRow ==
    ASSUME BundlesTypeOK, NEW r \in Builds, NEW b \in BuildRow
    PROVE  LET t == [build EXCEPT ![r] = b]
           IN  /\ t \in [Builds -> BuildRow \cup {NoBuild}]
               /\ t[r] = b
               /\ \A s \in Builds \ {r} : t[s] = build[s]
BY DEF BundlesTypeOK

LEMMA StillSound ==
    ASSUME NEW b \in BuildRow, Sound(b)
    PROVE  /\ still(b) \in BuildRow /\ Sound(still(b))
           /\ ~still(b).linked
           /\ \A f \in {"of", "stream", "dead", "cleanedUp", "unlinking", "answers"} :
                still(b)[f] = b[f]
BY DEF still, BuildRow, Sound

LEMMA CleanupSound ==
    ASSUME NEW b \in BuildRow, b.cleanedUp \/ b.answers = 0
    PROVE  /\ cleanup(b) \in BuildRow
           /\ cleanup(b).cleanedUp
           /\ ~b.cleanedUp => cleanup(b).unlinking
           /\ b.cleanedUp => cleanup(b) = b
           /\ \A f \in {"of", "stream", "dead", "linked", "alone", "answers"} :
                cleanup(b)[f] = b[f]
BY DEF cleanup, BuildRow

LEMMA UnlinkedType ==
    ASSUME BundlesTypeOK, NEW x \in Exports
    PROVE  /\ unlinked(x) \in [Builds -> BuildRow \cup {NoBuild}]
           /\ \A s \in Builds :
                IF running(s) /\ build[s].of = x
                  THEN unlinked(x)[s] = still(build[s]) ELSE unlinked(x)[s] = build[s]
<1>1. ASSUME NEW s \in Builds, running(s) PROVE still(build[s]) \in BuildRow
  BY <1>1, BuildType DEF still, BuildRow
<1> QED BY <1>1 DEF unlinked, BundlesTypeOK

LEMMA RowWritten ==
    ASSUME BundlesTypeOK, BuildsSound, NEW r \in Builds, NEW b \in BuildRow, Sound(b),
           build' = [build EXCEPT ![r] = b]
    PROVE  /\ build' \in [Builds -> BuildRow \cup {NoBuild}]
           /\ BuildsSound'
           /\ running(r)' /\ build'[r] = b
           /\ \A s \in Builds \ {r} : build'[s] = build[s]
<1>1. build' \in [Builds -> BuildRow \cup {NoBuild}] /\ build'[r] = b
      /\ \A s \in Builds \ {r} : build'[s] = build[s]
  BY UpdatedRow
<1>2. running(r)'
  BY <1>1, BundlesAssumption DEF running
<1>3. BuildsSound'
  BY <1>1 DEF BuildsSound, running
<1> QED BY <1>1, <1>2, <1>3

\* The builds' rows stay in order.
RowsFit == build' \in [Builds -> BuildRow \cup {NoBuild}] /\ BuildsSound'

LEMMA PostPackageRow ==
    ASSUME BundlesTypeOK, BuildsSound, NEW r \in Builds, NEW x \in Exports, PostPackage(r, x)
    PROVE  /\ RowsFit
           /\ of(r, x)' /\ build'[r].stream = "opening" /\ ~build'[r].linked
           /\ \A s \in Builds \ {r} : build'[s] = build[s]
<1> DEFINE b == [of |-> x, stream |-> "opening", dead |-> FALSE, cleanedUp |-> FALSE,
                 unlinking |-> FALSE, linked |-> FALSE, alone |-> FALSE, answers |-> 0]
<1>1. b \in BuildRow /\ Sound(b)
  BY DEF BuildRow, Sound
<1>2. b.of = x /\ b.stream = "opening" /\ ~b.linked
  OBVIOUS
<1>3. build' = [build EXCEPT ![r] = b]
  BY DEF PostPackage
<1> HIDE DEF b
<1>4. /\ build' \in [Builds -> BuildRow \cup {NoBuild}] /\ BuildsSound'
      /\ running(r)' /\ build'[r] = b
      /\ \A s \in Builds \ {r} : build'[s] = build[s]
  BY <1>1, <1>3, RowWritten
<1> QED BY <1>2, <1>4 DEF RowsFit, of

LEMMA OpenFileRow ==
    ASSUME BundlesTypeOK, BuildsSound, NEW r \in Builds, OpenFile(r)
    PROVE  /\ RowsFit
           /\ running(r)' /\ build'[r].of = build[r].of
           /\ build'[r].linked = ~build[r].dead
           /\ build'[r].stream = "open" /\ build'[r].dead = build[r].dead
           /\ build'[r].alone =
                (~build[r].dead /\ ~\E t \in Builds : writing(t, build[r].of))
           /\ \A s \in Builds \ {r} : ~writing(s, build[r].of) => build'[s] = build[s]
           /\ \A s \in Builds \ {r} : running(s)' => running(s) /\ build'[s].of = build[s].of
<1> DEFINE x == build[r].of
           opened == [build[r] EXCEPT !.stream = "open", !.linked = ~build[r].dead,
                             !.alone = ~build[r].dead /\ ~\E t \in Builds : writing(t, x)]
           shared(s) == [build[s] EXCEPT !.alone = FALSE]
<1>1. build[r] \in BuildRow /\ running(r) /\ Sound(build[r]) /\ build[r].stream = "opening"
  BY BuildType DEF OpenFile, BuildsSound
<1>2. /\ opened \in BuildRow /\ Sound(opened)
      /\ opened.of = build[r].of /\ opened.linked = ~build[r].dead
      /\ opened.stream = "open" /\ opened.dead = build[r].dead
      /\ opened.alone = (~build[r].dead /\ ~\E t \in Builds : writing(t, x))
  BY <1>1 DEF BuildRow, Sound
<1>3. ASSUME NEW s \in Builds, running(s)
      PROVE  shared(s) \in BuildRow /\ Sound(shared(s)) /\ shared(s).of = build[s].of
  BY <1>3, BuildType DEF BuildsSound, BuildRow, Sound
<1>4. build' = [s \in Builds |-> IF s = r THEN opened
                                 ELSE IF writing(s, x) THEN shared(s) ELSE build[s]]
  BY DEF OpenFile
<1> HIDE DEF opened, shared
<1>5. \A s \in Builds : writing(s, x) => running(s)
  BY DEF writing
<1>6. build' \in [Builds -> BuildRow \cup {NoBuild}]
  BY <1>2, <1>3, <1>4, <1>5 DEF BundlesTypeOK
<1>7. running(r)' /\ build'[r] = opened
  BY <1>2, <1>4, BundlesAssumption DEF running
<1>8. \A s \in Builds \ {r} :
        build'[s] = IF writing(s, x) THEN shared(s) ELSE build[s]
  BY <1>4
<1>9. \A s \in Builds \ {r} : running(s)' => running(s) /\ build'[s].of = build[s].of
  BY <1>3, <1>5, <1>8 DEF running
<1>10. BuildsSound'
  BY <1>2, <1>3, <1>5, <1>7, <1>8, <1>9 DEF BuildsSound
<1> QED BY <1>2, <1>6, <1>7, <1>8, <1>9, <1>10 DEF RowsFit

LEMMA FlushRow ==
    ASSUME BundlesTypeOK, BuildsSound, NEW r \in Builds, Flush(r)
    PROVE  /\ RowsFit
           /\ running(r)' /\ build'[r].of = build[r].of
           /\ ~build'[r].linked /\ build'[r].stream = "flushed"
           /\ \A s \in Builds \ {r} : build'[s] = build[s]
<1> DEFINE b == [build[r] EXCEPT !.stream = "flushed"]
<1>1. build[r] \in BuildRow /\ Sound(build[r]) /\ build[r].stream = "open" /\ ~build[r].dead
  BY BuildType DEF Flush, BuildsSound
<1>2. b \in BuildRow
  BY <1>1 DEF BuildRow
<1>3. /\ still(b) \in BuildRow /\ Sound(still(b))
      /\ still(b).of = build[r].of /\ ~still(b).linked /\ still(b).stream = "flushed"
  BY <1>1, <1>2 DEF still, Sound, BuildRow
<1>4. build' = [build EXCEPT ![r] = still(b)]
  BY DEF Flush
<1> HIDE DEF b
<1>5. /\ build' \in [Builds -> BuildRow \cup {NoBuild}] /\ BuildsSound'
      /\ running(r)' /\ build'[r] = still(b)
      /\ \A s \in Builds \ {r} : build'[s] = build[s]
  BY <1>3, <1>4, RowWritten
<1> QED BY <1>3, <1>5 DEF RowsFit

LEMMA FailureRow ==
    ASSUME BundlesTypeOK, BuildsSound, NEW r \in Builds, OutputFails(r) \/ ArchiveFails(r)
    PROVE  /\ RowsFit
           /\ running(r) /\ running(r)' /\ build'[r].of = build[r].of
           /\ ~build'[r].linked /\ build'[r].stream \in {"broken", "opening", "open"}
           /\ build[r].stream # "closed"
           /\ build'[r].dead \/ build'[r].stream = "broken"
           /\ \A s \in Builds \ {r} : build'[s] = build[s]
<1>1. /\ running(r) /\ build[r] \in BuildRow /\ Sound(build[r])
      /\ build[r].stream \in {"opening", "open"}
  BY BuildType DEF OutputFails, ArchiveFails, BuildsSound
<1>2. ASSUME NEW b \in {[build[r] EXCEPT !.stream = "broken"], [build[r] EXCEPT !.dead = TRUE]}
      PROVE  LET n == cleanup(still(b)) IN
             /\ n \in BuildRow /\ Sound(n) /\ n.of = build[r].of /\ ~n.linked
             /\ n.stream \in {"broken", "opening", "open"}
             /\ n.dead \/ n.stream = "broken"
  BY <1>1 DEF still, cleanup, Sound, BuildRow
<1>3. PICK b \in {[build[r] EXCEPT !.stream = "broken"], [build[r] EXCEPT !.dead = TRUE]} :
        build' = [build EXCEPT ![r] = cleanup(still(b))]
  BY DEF OutputFails, ArchiveFails
<1> DEFINE n == cleanup(still(b))
<1>4. /\ n \in BuildRow /\ Sound(n) /\ n.of = build[r].of /\ ~n.linked
      /\ n.stream \in {"broken", "opening", "open"}
      /\ n.dead \/ n.stream = "broken"
  BY <1>2
<1>5. build' = [build EXCEPT ![r] = n]
  BY <1>3
<1> HIDE DEF n
<1>6. /\ build' \in [Builds -> BuildRow \cup {NoBuild}] /\ BuildsSound'
      /\ running(r)' /\ build'[r] = n
      /\ \A s \in Builds \ {r} : build'[s] = build[s]
  BY <1>4, <1>5, RowWritten
<1> QED BY <1>1, <1>4, <1>6 DEF RowsFit

LEMMA CloseRow ==
    ASSUME BundlesTypeOK, BuildsSound, NEW r \in Builds, Close(r)
    PROVE  /\ RowsFit
           /\ running(r) /\ running(r)' /\ build'[r].of = build[r].of
           /\ build'[r].linked = build[r].linked /\ build'[r].stream = "closed"
           /\ build[r].stream # "closed"
           /\ build'[r].alone = build[r].alone
           /\ published(build[r]) => build[r].stream = "flushed"
           /\ \A s \in Builds \ {r} : build'[s] = build[s]
<1> DEFINE k == IF published(build[r]) THEN build[r].answers + 1 ELSE build[r].answers
           n == [build[r] EXCEPT !.stream = "closed", !.answers = k]
<1>1. /\ running(r) /\ build[r] \in BuildRow /\ Sound(build[r])
      /\ build[r].stream \in {"flushed", "broken"}
  BY BuildType DEF Close, BuildsSound
<1>2. /\ n \in BuildRow /\ Sound(n) /\ n.of = build[r].of /\ n.linked = build[r].linked
      /\ n.stream = "closed" /\ n.alone = build[r].alone
      /\ published(build[r]) => build[r].stream = "flushed"
  <2>1. build[r].answers \in 0..2 /\ build[r].cleanedUp \in BOOLEAN
    BY <1>1 DEF BuildRow
  <2>2. /\ k \in 0..1 /\ k \in 0..2
        /\ build[r].unlinking => k = 0
    BY <1>1, <2>1 DEF Sound, published
  <2>3. build[r].stream = "broken" => build[r].cleanedUp
    BY <1>1 DEF Sound
  <2> HIDE DEF k
  <2>4. n \in BuildRow
    <3> DEFINE m == [build[r] EXCEPT !.stream = "closed"]
    <3>1. m \in BuildRow
      BY <1>1 DEF BuildRow
    <3>2. n = [m EXCEPT !.answers = k]
      BY <1>1 DEF BuildRow
    <3> HIDE DEF m, n
    <3> QED BY <3>1, <3>2, <2>2 DEF BuildRow
  <2>5. /\ n.answers = k /\ n.stream = "closed"
        /\ \A f \in {"of", "dead", "cleanedUp", "unlinking", "linked", "alone"} :
             n[f] = build[r][f]
    BY <1>1 DEF BuildRow
  <2> HIDE DEF n
  <2>6. Sound(n)
    BY <1>1, <2>2, <2>5 DEF Sound
  <2> QED BY <1>1, <2>3, <2>4, <2>5, <2>6 DEF published
<1>3. build' = [build EXCEPT ![r] = n]
  <2>1. build' = [build EXCEPT ![r].stream = "closed",
                     ![r].answers = IF published(build[r]) THEN @ + 1 ELSE @]
    BY DEF Close
  <2> QED BY <2>1, <1>1 DEF BundlesTypeOK, BuildRow
<1> HIDE DEF n
<1>4. /\ build' \in [Builds -> BuildRow \cup {NoBuild}] /\ BuildsSound'
      /\ running(r)' /\ build'[r] = n
      /\ \A s \in Builds \ {r} : build'[s] = build[s]
  BY <1>2, <1>3, RowWritten
<1> QED BY <1>1, <1>2, <1>4 DEF RowsFit

\* A name leaves the directory: what is being written goes nowhere.
Severed(x) ==
    \A s \in Builds : running(s)' => /\ running(s)
                                     /\ build'[s].of = build[s].of
                                     /\ build'[s].stream = build[s].stream
                                     /\ build'[s].dead = build[s].dead
                                     /\ IF build[s].of = x
                                          THEN ~build'[s].linked
                                          ELSE build'[s] = build[s]

LEMMA UnlinkedRows ==
    ASSUME BundlesTypeOK, BuildsSound, NEW x \in Exports, build' = unlinked(x)
    PROVE  RowsFit /\ Severed(x)
<1>1. \A s \in Builds : running(s)' => running(s)
  BY DEF unlinked, running
<1>2. ASSUME NEW s \in Builds, running(s), build[s].of = x
      PROVE  /\ build'[s] \in BuildRow /\ Sound(build'[s]) /\ ~build'[s].linked
             /\ \A f \in {"of", "stream", "dead"} : build'[s][f] = build[s][f]
  <2>1. build'[s] = still(build[s])
    BY <1>2 DEF unlinked
  <2>2. build[s] \in BuildRow /\ Sound(build[s])
    BY <1>2, BuildType DEF BuildsSound
  <2> QED BY <2>1, <2>2, StillSound
<1>3. \A s \in Builds : ~(running(s) /\ build[s].of = x) => build'[s] = build[s]
  BY DEF unlinked
<1>4. build' \in [Builds -> BuildRow \cup {NoBuild}]
  BY UnlinkedType
<1>5. BuildsSound'
  BY <1>1, <1>2, <1>3 DEF BuildsSound
<1>6. Severed(x)
  <2> SUFFICES ASSUME NEW s \in Builds, running(s)'
               PROVE  /\ running(s) /\ build'[s].of = build[s].of
                      /\ build'[s].stream = build[s].stream
                      /\ build'[s].dead = build[s].dead
                      /\ IF build[s].of = x THEN ~build'[s].linked
                                            ELSE build'[s] = build[s]
    BY DEF Severed
  <2> QED BY <1>1, <1>2, <1>3
<1> QED BY <1>4, <1>5, <1>6 DEF RowsFit

\* Unlinked severs, too, and marks the row it answers.
LEMMA CalledBackRow ==
    ASSUME BundlesTypeOK, BuildsSound, NEW r \in Builds, Unlinked(r)
    PROVE  RowsFit /\ Severed(build[r].of) /\ running(r)
<1> DEFINE x == build[r].of
           b == still(build[r])
           m == [b EXCEPT !.unlinking = FALSE]
           n == [m EXCEPT !.answers = build[r].answers + 1]
<1>1. /\ running(r) /\ build[r] \in BuildRow /\ Sound(build[r]) /\ build[r].unlinking
      /\ x \in Exports
  BY BuildType DEF Unlinked, BuildsSound
<1>2. /\ b \in BuildRow /\ Sound(b) /\ ~b.linked
      /\ \A f \in {"of", "stream", "dead", "cleanedUp", "unlinking", "answers"} :
           b[f] = build[r][f]
  BY <1>1, StillSound
<1>3. build[r].answers = 0 /\ build[r].cleanedUp
  BY <1>1 DEF Sound
<1>4. build' = [unlinked(x) EXCEPT ![r] = n]
  <2>1. build' = [unlinked(x) EXCEPT ![r].unlinking = FALSE, ![r].answers = @ + 1]
    BY DEF Unlinked
  <2>2. unlinked(x)[r] = b /\ unlinked(x) \in [Builds -> BuildRow \cup {NoBuild}]
    BY <1>1, UnlinkedType
  <2>3. m.answers = build[r].answers
    BY <1>2 DEF BuildRow
  <2> HIDE DEF b
  <2> QED BY <2>1, <2>2, <2>3
<1>5. /\ n \in BuildRow /\ Sound(n) /\ ~n.linked
      /\ n.of = x /\ n.stream = build[r].stream /\ n.dead = build[r].dead
  <2> HIDE DEF b
  <2>1. m \in BuildRow
    BY <1>2 DEF BuildRow
  <2>2. n \in BuildRow
    <3> HIDE DEF m
    <3> QED BY <2>1, <1>3 DEF BuildRow
  <2>3. /\ n.answers = 1 /\ ~n.unlinking
        /\ \A f \in {"of", "stream", "dead", "cleanedUp", "linked"} : n[f] = b[f]
    BY <1>2, <1>3 DEF BuildRow
  <2> HIDE DEF m, n
  <2>4. Sound(n)
    BY <1>2, <1>3, <2>2, <2>3 DEF Sound
  <2> QED BY <1>2, <2>2, <2>3, <2>4
<1> HIDE DEF n
<1>6. build'[r] = n /\ build' \in [Builds -> BuildRow \cup {NoBuild}]
  BY <1>1, <1>4, <1>5, UnlinkedType
<1>7. \A s \in Builds \ {r} : build'[s] = unlinked(x)[s]
  BY <1>1, <1>4, UnlinkedType
<1>8. ASSUME NEW s \in Builds \ {r}, running(s)'
      PROVE  /\ running(s) /\ Sound(build'[s]) /\ build'[s].of = build[s].of
             /\ build'[s].stream = build[s].stream /\ build'[s].dead = build[s].dead
             /\ IF build[s].of = x THEN ~build'[s].linked ELSE build'[s] = build[s]
  <2>1. running(s)
    BY <1>1, <1>7, <1>8, UnlinkedType DEF running
  <2>2. build[s] \in BuildRow /\ Sound(build[s])
    BY <2>1, BuildType DEF BuildsSound
  <2>3. build'[s] = IF build[s].of = x THEN still(build[s]) ELSE build[s]
    BY <1>1, <1>7, <2>1, UnlinkedType
  <2> QED BY <2>1, <2>2, <2>3, StillSound
<1>9. BuildsSound'
  BY <1>5, <1>6, <1>8 DEF BuildsSound
<1>10. Severed(x)
  BY <1>1, <1>5, <1>6, <1>8 DEF Severed
<1> QED BY <1>1, <1>6, <1>9, <1>10 DEF RowsFit

\* Rows that go, and rows that stay.
LEMMA OverRows ==
    ASSUME BundlesTypeOK, BuildsSound,
           \/ \E r \in Builds : build' = [build EXCEPT ![r] = NoBuild]
           \/ build' = [r \in Builds |-> NoBuild]
           \/ UNCHANGED build
    PROVE  RowsFit /\ \A s \in Builds : running(s)' => running(s) /\ build'[s] = build[s]
<1>1. build' \in [Builds -> BuildRow \cup {NoBuild}]
  BY DEF BundlesTypeOK
<1>2. \A s \in Builds : running(s)' => running(s) /\ build'[s] = build[s]
  BY DEF BundlesTypeOK, running
<1>3. BuildsSound'
  BY <1>2 DEF BuildsSound
<1> QED BY <1>1, <1>2, <1>3 DEF RowsFit

-----------------------------------------------------------------------------
(* Order: for an export whose builds never overlapped, most steps only     *)
(* take away, and the three that write are those of its only build.        *)

Steady(x) ==
    /\ bundlePath'[x] => bundlePath[x]
    /\ onDisk(x)' => onDisk(x) /\ file'[x].whole = file[x].whole
    /\ \A s \in Builds : of(s, x)' =>
         /\ of(s, x)
         /\ build[s].stream = "closed" => build'[s].stream = "closed"
         /\ \/ build'[s] = build[s]
            \/ ~onDisk(x)' /\ build'[s].stream = build[s].stream /\ ~build'[s].linked
            \/ /\ ~build'[s].linked
               /\ build'[s].stream # "flushed"
               /\ build'[s].dead \/ build'[s].stream # "open"

LEMMA SteadyKeepsOrder ==
    ASSUME NEW x \in Exports, Orderly(x), Steady(x)
    PROVE  Orderly(x)'
<1>1. Alone(x)'
  BY DEF Orderly, Alone, Steady
<1>2. Whole(x)'
  BY DEF Orderly, Whole, Steady
<1>3. InStep(x)'
  <2> SUFFICES ASSUME NEW s \in Builds, of(s, x)'
               PROVE  /\ bundlePath'[x] => build'[s].stream = "closed"
                      /\ build'[s].linked => build'[s].alone
                      /\ build'[s].stream = "open" /\ ~build'[s].dead /\ ~build'[s].linked
                           => ~onDisk(x)'
                      /\ build'[s].stream = "flushed" /\ onDisk(x)' => file'[x].whole
    BY DEF InStep
  <2>1. /\ bundlePath[x] => build[s].stream = "closed"
        /\ build[s].linked => build[s].alone
        /\ build[s].stream = "open" /\ ~build[s].dead /\ ~build[s].linked => ~onDisk(x)
        /\ build[s].stream = "flushed" /\ onDisk(x) => file[x].whole
    BY DEF Orderly, InStep, Steady
  <2>2. CASE build'[s] = build[s]
    BY <2>1, <2>2 DEF Steady
  <2>3. CASE ~onDisk(x)' /\ build'[s].stream = build[s].stream /\ ~build'[s].linked
    BY <2>1, <2>3 DEF Steady
  <2>4. CASE /\ ~build'[s].linked
             /\ build'[s].stream # "flushed"
             /\ build'[s].dead \/ build'[s].stream # "open"
    BY <2>1, <2>4 DEF Steady
  <2> QED BY <2>2, <2>3, <2>4 DEF Steady
<1> QED BY <1>1, <1>2, <1>3 DEF Orderly

LEMMA PostPackageOrder ==
    ASSUME BundlesTypeOK, BuildsSound, NEW r \in Builds, NEW y \in Exports, PostPackage(r, y),
           NEW x \in Exports, x \notin tainted', Orderly(x)
    PROVE  Orderly(x)'
<1>1. /\ of(r, y)' /\ build'[r].stream = "opening" /\ ~build'[r].linked
      /\ \A s \in Builds \ {r} : build'[s] = build[s]
  BY PostPackageRow
<1>2. UNCHANGED <<bundlePath, file>> /\ mayBuild(y) /\ ~running(r)
  BY DEF PostPackage
<1>3. ASSUME x # y PROVE Steady(x)
  BY <1>1, <1>2, <1>3 DEF Steady, of, running, onDisk
<1>4. ASSUME x = y PROVE Orderly(x)'
  <2>1. ~\E s \in Builds : of(s, x)
    BY <1>4 DEF PostPackage, of
  <2>2. \A s \in Builds : of(s, x)' => s = r
    BY <1>1, <2>1 DEF of, running
  <2>3. ~bundlePath'[x]
    BY <1>2, <1>4 DEF mayBuild
  <2>4. Alone(x)'
    BY <2>2 DEF Alone
  <2>5. InStep(x)'
    BY <1>1, <2>2, <2>3 DEF InStep
  <2> QED BY <2>3, <2>4, <2>5 DEF Orderly, Whole
<1> QED BY <1>3, <1>4, SteadyKeepsOrder

LEMMA OpenFileOrder ==
    ASSUME BundlesTypeOK, BuildsSound, NEW r \in Builds, OpenFile(r),
           NEW x \in Exports, x \notin tainted, Orderly(x)
    PROVE  Orderly(x)'
<1> DEFINE y == build[r].of
<1>1. /\ running(r)' /\ build'[r].of = y
      /\ build'[r].linked = ~build[r].dead
      /\ build'[r].stream = "open" /\ build'[r].dead = build[r].dead
      /\ build'[r].alone = (~build[r].dead /\ ~\E t \in Builds : writing(t, y))
      /\ \A s \in Builds \ {r} : ~writing(s, y) => build'[s] = build[s]
      /\ \A s \in Builds \ {r} : running(s)' => running(s) /\ build'[s].of = build[s].of
  BY OpenFileRow
<1>2. /\ running(r) /\ build[r].stream = "opening" /\ y \in Exports
      /\ bundlePath' = bundlePath
      /\ file' = [file EXCEPT ![y] = [whole |-> FALSE, old |-> FALSE]]
  BY BuildType DEF OpenFile
<1>3. build[r].dead \in BOOLEAN /\ ~build[r].linked
  BY <1>2, BuildType DEF BuildRow, BuildsSound, Sound
<1>4. ASSUME x # y PROVE Steady(x)
  <2>1. file'[x] = file[x]
    BY <1>2, <1>4
  <2>2. \A s \in Builds : of(s, x)' => of(s, x) /\ build'[s] = build[s]
    BY <1>1, <1>4 DEF of, writing
  <2> QED BY <1>2, <2>1, <2>2 DEF Steady, onDisk
<1>5. ASSUME x = y PROVE Orderly(x)'
  <2>1. of(r, x)
    BY <1>2, <1>5 DEF of
  <2>2. \A s \in Builds : of(s, x)' => s = r
    BY <1>1, <2>1, <1>5 DEF Orderly, Alone, of
  <2>3. ~bundlePath'[x]
    BY <1>2, <2>1 DEF Orderly, InStep
  <2>4. ~\E t \in Builds : writing(t, y)
    BY <1>3, <1>5, <2>1 DEF Orderly, Alone, of, writing
  <2>5. Alone(x)'
    BY <2>2 DEF Alone
  <2>6. InStep(x)'
    BY <1>1, <1>3, <2>2, <2>3, <2>4 DEF InStep
  <2> QED BY <2>3, <2>5, <2>6 DEF Orderly, Whole
<1> QED BY <1>4, <1>5, SteadyKeepsOrder

LEMMA FlushOrder ==
    ASSUME BundlesTypeOK, BuildsSound, Rooted, NEW r \in Builds, Flush(r),
           NEW x \in Exports, x \notin tainted, Orderly(x)
    PROVE  Orderly(x)'
<1> DEFINE y == build[r].of
<1>1. /\ running(r)' /\ build'[r].of = y
      /\ ~build'[r].linked /\ build'[r].stream = "flushed"
      /\ \A s \in Builds \ {r} : build'[s] = build[s]
  BY FlushRow
<1>2. /\ running(r) /\ build[r].stream = "open" /\ ~build[r].dead /\ y \in Exports
      /\ bundlePath' = bundlePath
  BY BuildType DEF Flush
<1>3. ASSUME x # y PROVE Steady(x)
  <2>1. file'[x] = file[x]
    BY <1>3 DEF Flush, BundlesTypeOK
  <2>2. \A s \in Builds : of(s, x)' => of(s, x) /\ build'[s] = build[s]
    BY <1>1, <1>3 DEF of, running
  <2> QED BY <1>2, <2>1, <2>2 DEF Steady, onDisk
<1>4. ASSUME x = y PROVE Orderly(x)'
  <2>1. of(r, x)
    BY <1>2, <1>4 DEF of
  <2>2. \A s \in Builds : of(s, x)' => s = r
    BY <1>1, <2>1 DEF Orderly, Alone, of, running
  <2>3. ~bundlePath'[x]
    BY <1>2, <2>1 DEF Orderly, InStep
  <2>4. onDisk(x)' => file'[x].whole
    <3>1. CASE build[r].linked
      <4>1. build[r].alone
        BY <3>1, <2>1 DEF Orderly, InStep
      <4>2. file' = [file EXCEPT ![y].whole = TRUE]
        BY <3>1, <4>1 DEF Flush
      <4>3. onDisk(x)
        BY <3>1, <1>2, <1>4 DEF Rooted
      <4> QED BY <4>2, <4>3, <1>4, <1>2 DEF BundlesTypeOK, BundleFile, onDisk
    <3>2. CASE ~build[r].linked
      BY <3>2, <1>2, <2>1 DEF Flush, Orderly, InStep, onDisk
    <3> QED BY <3>1, <3>2
  <2>5. Alone(x)'
    BY <2>2 DEF Alone
  <2>6. InStep(x)'
    BY <1>1, <2>2, <2>3, <2>4 DEF InStep
  <2> QED BY <2>3, <2>5, <2>6 DEF Orderly, Whole
<1> QED BY <1>3, <1>4, SteadyKeepsOrder

LEMMA CloseOrder ==
    ASSUME BundlesTypeOK, BuildsSound, NEW r \in Builds, Close(r),
           NEW x \in Exports, x \notin tainted, Orderly(x)
    PROVE  Orderly(x)'
<1> DEFINE y == build[r].of
<1>1. /\ running(r) /\ running(r)' /\ build'[r].of = y
      /\ build'[r].linked = build[r].linked /\ build'[r].stream = "closed"
      /\ build'[r].alone = build[r].alone
      /\ published(build[r]) => build[r].stream = "flushed"
      /\ \A s \in Builds \ {r} : build'[s] = build[s]
  BY CloseRow
<1>2. /\ y \in Exports /\ file' = file
      /\ bundlePath' = IF published(build[r]) THEN [bundlePath EXCEPT ![y] = TRUE]
                                              ELSE bundlePath
  BY <1>1, BuildType DEF Close
<1>3. ASSUME x # y PROVE Steady(x)
  <2>1. \A s \in Builds : of(s, x)' => of(s, x) /\ build'[s] = build[s]
    BY <1>1, <1>3 DEF of, running
  <2> QED BY <1>2, <1>3, <2>1 DEF Steady, onDisk
<1>4. ASSUME x = y PROVE Orderly(x)'
  <2>1. of(r, x)
    BY <1>1, <1>4 DEF of
  <2>2. \A s \in Builds : of(s, x)' => s = r
    BY <1>1, <2>1 DEF Orderly, Alone, of, running
  <2>3. Whole(x)'
    BY <1>1, <1>2, <2>1 DEF Orderly, InStep, Whole, onDisk
  <2>4. Alone(x)'
    BY <2>2 DEF Alone
  <2>5. InStep(x)'
    BY <1>1, <2>1, <2>2 DEF InStep, Orderly
  <2> QED BY <2>3, <2>4, <2>5 DEF Orderly
<1> QED BY <1>3, <1>4, SteadyKeepsOrder

\* An export keeps its order while only its file, row or builds lose something.
Frame == RowsFit /\ \A s \in Builds : running(s)' => running(s) /\ build'[s] = build[s]

LEMMA FailureOrder ==
    ASSUME BundlesTypeOK, BuildsSound, NEW r \in Builds, OutputFails(r) \/ ArchiveFails(r),
           NEW x \in Exports, Orderly(x)
    PROVE  Orderly(x)'
<1>1. /\ running(r) /\ running(r)' /\ build'[r].of = build[r].of
      /\ ~build'[r].linked /\ build'[r].stream \in {"broken", "opening", "open"}
      /\ build[r].stream # "closed"
      /\ build'[r].dead \/ build'[r].stream = "broken"
      /\ \A s \in Builds \ {r} : build'[s] = build[s]
  BY FailureRow
<1>2. UNCHANGED <<bundlePath, file>>
  BY DEF OutputFails, ArchiveFails
<1>3. Steady(x)
  <2> SUFFICES ASSUME NEW s \in Builds, of(s, x)'
               PROVE  /\ of(s, x)
                      /\ build[s].stream = "closed" => build'[s].stream = "closed"
                      /\ \/ build'[s] = build[s]
                         \/ /\ ~build'[s].linked
                            /\ build'[s].stream # "flushed"
                            /\ build'[s].dead \/ build'[s].stream # "open"
    BY <1>2 DEF Steady, onDisk
  <2>1. CASE s = r
    BY <1>1, <2>1 DEF of
  <2>2. CASE s # r
    BY <1>1, <2>2 DEF of, running
  <2> QED BY <2>1, <2>2
<1> QED BY <1>3, SteadyKeepsOrder

LEMMA RemovalOrder ==
    ASSUME BundlesTypeOK, NEW y \in Exports, Severed(y), file' = removed(y),
           UNCHANGED bundlePath, NEW x \in Exports, Orderly(x)
    PROVE  Orderly(x)'
<1>1. IF x = y THEN ~onDisk(x)' ELSE file'[x] = file[x]
  BY DEF removed, onDisk, BundlesTypeOK
<1>2. ASSUME NEW s \in Builds, of(s, x)'
      PROVE  /\ of(s, x)
             /\ build'[s].stream = build[s].stream
             /\ build'[s] = build[s] \/ (~onDisk(x)' /\ ~build'[s].linked)
  BY <1>1, <1>2 DEF of, Severed
<1>3. Steady(x)
  BY <1>1, <1>2 DEF Steady, onDisk
<1> QED BY <1>3, SteadyKeepsOrder

LEMMA FrameOrder ==
    ASSUME BundlesTypeOK, Frame,
           NEW x \in Exports, Orderly(x),
           bundlePath'[x] => bundlePath[x],
           onDisk(x)' => onDisk(x) /\ file'[x].whole = file[x].whole
    PROVE  Orderly(x)'
<1>1. Steady(x)
  BY DEF Steady, Frame, of
<1> QED BY <1>1, SteadyKeepsOrder

LEMMA FrameRooted ==
    ASSUME Rooted, Frame, \A x \in Exports : onDisk(x) => onDisk(x)', BundlesTypeOK
    PROVE  Rooted'
<1>1. ASSUME NEW s \in Builds, running(s)', build'[s].linked
      PROVE  file'[build'[s].of] # NoFile
  <2>1. running(s) /\ build'[s] = build[s]
    BY <1>1 DEF Frame
  <2>2. build[s].of \in Exports
    BY <2>1, BuildType
  <2> QED BY <1>1, <2>1, <2>2 DEF Rooted, onDisk
<1> QED BY <1>1 DEF Rooted, onDisk

LEMMA RemovalRooted ==
    ASSUME Rooted, BundlesTypeOK, NEW y \in Exports, Severed(y), file' = removed(y)
    PROVE  Rooted'
<1>1. ASSUME NEW s \in Builds, running(s)', build'[s].linked
      PROVE  file'[build'[s].of] # NoFile
  <2>1. running(s) /\ build[s].of # y /\ build'[s] = build[s]
    BY <1>1 DEF Severed
  <2>2. build[s].of \in Exports
    BY <2>1, BuildType
  <2> QED BY <1>1, <2>1, <2>2 DEF Rooted, onDisk, removed, BundlesTypeOK
<1> QED BY <1>1 DEF Rooted, onDisk

\* What is not the builds' rows is well typed after every step that says so.
LEMMA RemovedType ==
    ASSUME BundlesTypeOK, NEW x \in Exports
    PROVE  removed(x) \in [Exports -> BundleFile \cup {NoFile}]
BY DEF BundlesTypeOK, removed

LEMMA ClearedType ==
    ASSUME BundlesTypeOK, NEW x \in Exports, NEW v \in BOOLEAN
    PROVE  /\ [bundlePath EXCEPT ![x] = v] \in [Exports -> BOOLEAN]
           /\ v = FALSE => \A y \in Exports : [bundlePath EXCEPT ![x] = v][y] => bundlePath[y]
BY DEF BundlesTypeOK

LEMMA FileWritten ==
    ASSUME BundlesTypeOK, NEW x \in Exports, NEW f \in BundleFile
    PROVE  [file EXCEPT ![x] = f] \in [Exports -> BundleFile \cup {NoFile}]
BY DEF BundlesTypeOK

LEMMA InitInv == BundlesInit => Inv
<1> SUFFICES ASSUME BundlesInit PROVE Inv
  OBVIOUS
<1>1. BundlesTypeOK
  BY BundlesAssumption DEF BundlesInit, BundlesTypeOK, CleanerIdle
<1>2. \A r \in Builds : ~running(r)
  BY DEF BundlesInit, running
<1>3. \A x \in Exports : ~bundlePath[x]
  BY DEF BundlesInit
<1> QED BY <1>1, <1>2, <1>3 DEF Inv, BuildsSound, Rooted, Orderly, Alone, InStep, Whole, of

-----------------------------------------------------------------------------
(* Each step preserves the invariant.  OrderKept is its last part. *)

OrderKept == \A x \in Exports : x \notin tainted' => Orderly(x)'

CleanerRow == [pc: {"idle", "stat", "null", "unlink", "orphans", "orphan"},
               at: SUBSET Exports, todo: SUBSET Exports, deaths: 0..MaxDeaths]

\* The variables but the builds' rows have their types.
RestTyped ==
    /\ bundlePath' \in [Exports -> BOOLEAN]
    /\ file' \in [Exports -> BundleFile \cup {NoFile}]
    /\ downloads' \subseteq Readers
    /\ server' \in {"up", "draining", "down"}
    /\ cleaner' \in CleanerRow
    /\ tainted' \subseteq Exports

LEMMA Together == RowsFit /\ RestTyped /\ Rooted' /\ OrderKept => Inv'
BY DEF RowsFit, RestTyped, CleanerRow, OrderKept, Inv, BundlesTypeOK

\* Steps that leave the builds' rows as they are, or take some away.
LEMMA QuietStep ==
    ASSUME Inv, RestTyped, tainted' = tainted,
           \/ \E r \in Builds : build' = [build EXCEPT ![r] = NoBuild]
           \/ build' = [r \in Builds |-> NoBuild]
           \/ UNCHANGED build,
           \A x \in Exports : /\ bundlePath'[x] => bundlePath[x]
                              /\ onDisk(x)' <=> onDisk(x)
                              /\ onDisk(x)' => file'[x].whole = file[x].whole
    PROVE  Inv'
<1>1. BundlesTypeOK /\ BuildsSound /\ Rooted
  BY DEF Inv
<1>2. Frame
  BY <1>1, OverRows DEF Frame
<1>3. Rooted'
  BY <1>1, <1>2, FrameRooted
<1>4. OrderKept
  <2> SUFFICES ASSUME NEW x \in Exports, x \notin tainted' PROVE Orderly(x)'
    BY DEF OrderKept
  <2>1. Orderly(x)
    BY DEF Inv
  <2> QED BY <1>1, <1>2, <2>1, FrameOrder
<1> QED BY <1>2, <1>3, <1>4, Together DEF Frame

\* Steps that take a name from the directory.
LEMMA RemovingStep ==
    ASSUME Inv, RestTyped, tainted' = tainted, RowsFit,
           NEW y \in Exports, Severed(y), file' = removed(y), UNCHANGED bundlePath
    PROVE  Inv'
<1>1. BundlesTypeOK /\ Rooted
  BY DEF Inv
<1>2. Rooted'
  BY <1>1, RemovalRooted
<1>3. OrderKept
  <2> SUFFICES ASSUME NEW x \in Exports, x \notin tainted' PROVE Orderly(x)'
    BY DEF OrderKept
  <2>1. Orderly(x)
    BY DEF Inv
  <2> QED BY <1>1, <2>1, RemovalOrder
<1> QED BY <1>2, <1>3, Together

LEMMA BuildStepInv ==
    ASSUME Inv, BuildStep PROVE Inv'
<1> USE DEF RestTyped, CleanerRow
<1>1. BundlesTypeOK /\ BuildsSound /\ Rooted
  BY DEF Inv
<1>2. ASSUME NEW r \in Builds, NEW x \in Exports, PostPackage(r, x) PROVE Inv'
  <2>1. RowsFit /\ build'[r].stream = "opening" /\ ~build'[r].linked
        /\ \A s \in Builds \ {r} : build'[s] = build[s]
    BY <1>1, <1>2, PostPackageRow
  <2>2. /\ RestTyped /\ UNCHANGED <<bundlePath, file>> /\ tainted \subseteq tainted'
    BY <1>1, <1>2 DEF PostPackage, BundlesTypeOK
  <2>3. Rooted'
    BY <1>1, <2>1, <2>2 DEF Rooted, onDisk, running
  <2>4. OrderKept
    BY <1>1, <1>2, <2>2, PostPackageOrder DEF OrderKept, Inv
  <2> QED BY <2>1, <2>2, <2>3, <2>4, Together
<1>3. ASSUME NEW r \in Builds, OpenFile(r) PROVE Inv'
  <2> DEFINE y == build[r].of
             empty == [whole |-> FALSE, old |-> FALSE]
  <2>1. /\ RowsFit /\ build'[r].of = y
        /\ \A s \in Builds \ {r} : ~writing(s, y) => build'[s] = build[s]
        /\ \A s \in Builds \ {r} : running(s)' => running(s) /\ build'[s].of = build[s].of
    BY <1>1, <1>3, OpenFileRow
  <2>2. y \in Exports /\ file' = [file EXCEPT ![y] = empty] /\ empty \in BundleFile
    BY <1>1, <1>3, BuildType DEF OpenFile, BundleFile
  <2>3. RestTyped /\ UNCHANGED tainted
    <3> HIDE DEF y, empty
    <3>1. file' \in [Exports -> BundleFile \cup {NoFile}]
      BY <1>1, <2>2, FileWritten
    <3> QED BY <1>1, <1>3, <3>1 DEF OpenFile, BundlesTypeOK
  <2>4. file'[y] # NoFile /\ \A x \in Exports \ {y} : file'[x] = file[x]
    BY <1>1, <2>2, BundlesAssumption DEF BundlesTypeOK
  <2>5. ASSUME NEW s \in Builds, running(s)', build'[s].linked
        PROVE  file'[build'[s].of] # NoFile
    <3>1. CASE build'[s].of = y
      BY <3>1, <2>4
    <3>2. CASE build'[s].of # y
      <4>1. running(s) /\ build'[s] = build[s]
        BY <2>1, <2>5, <3>2 DEF writing
      <4>2. build[s].of \in Exports
        BY <1>1, <4>1, BuildType
      <4> QED BY <1>1, <2>4, <2>5, <3>2, <4>1, <4>2 DEF Rooted, onDisk
    <3> QED BY <3>1, <3>2
  <2>6. Rooted'
    BY <2>5 DEF Rooted, onDisk
  <2>7. OrderKept
    BY <1>1, <1>3, <2>3, OpenFileOrder DEF OrderKept, Inv
  <2> QED BY <2>1, <2>3, <2>6, <2>7, Together
<1>4. ASSUME NEW r \in Builds, Flush(r) PROVE Inv'
  <2> DEFINE y == build[r].of
  <2>1. /\ RowsFit /\ running(r) /\ ~build'[r].linked
        /\ \A s \in Builds \ {r} : build'[s] = build[s]
    BY <1>1, <1>4, FlushRow DEF Flush
  <2>2. y \in Exports
    BY <1>1, <2>1, BuildType
  <2>3. /\ file' \in [Exports -> BundleFile \cup {NoFile}]
        /\ \A x \in Exports : onDisk(x) => onDisk(x)'
    <3>1. CASE build[r].linked
      <4>1. file[y] \in BundleFile
        BY <1>1, <2>1, <2>2, <3>1 DEF Rooted, onDisk, BundlesTypeOK
      <4>2. PICK w \in BOOLEAN : file' = [file EXCEPT ![y].whole = w]
        BY <1>4, <3>1 DEF Flush
      <4>3. [file[y] EXCEPT !.whole = w] \in BundleFile
        BY <4>1 DEF BundleFile
      <4>4. file' = [file EXCEPT ![y] = [file[y] EXCEPT !.whole = w]]
        BY <4>2
      <4> HIDE DEF y
      <4> QED BY <1>1, <2>2, <4>3, <4>4, BundlesAssumption DEF BundlesTypeOK, onDisk
    <3>2. CASE ~build[r].linked
      BY <1>1, <1>4, <3>2 DEF Flush, BundlesTypeOK, onDisk
    <3> QED BY <3>1, <3>2
  <2>4. RestTyped /\ UNCHANGED tainted
    BY <1>1, <1>4, <2>3 DEF Flush, BundlesTypeOK
  <2>5. Rooted'
    <3>1. ASSUME NEW s \in Builds, running(s)', build'[s].linked
          PROVE  file'[build'[s].of] # NoFile
      <4>1. running(s) /\ build'[s] = build[s]
        BY <2>1, <3>1 DEF running
      <4>2. build[s].of \in Exports
        BY <1>1, <4>1, BuildType
      <4> QED BY <1>1, <2>3, <3>1, <4>1, <4>2 DEF Rooted, onDisk
    <3> QED BY <3>1 DEF Rooted, onDisk
  <2>6. OrderKept
    BY <1>1, <1>4, <2>4, FlushOrder DEF OrderKept, Inv
  <2> QED BY <2>1, <2>4, <2>5, <2>6, Together
<1>5. ASSUME NEW r \in Builds, OutputFails(r) \/ ArchiveFails(r) PROVE Inv'
  <2>1. /\ RowsFit /\ ~build'[r].linked
        /\ \A s \in Builds \ {r} : build'[s] = build[s]
    BY <1>1, <1>5, FailureRow
  <2>2. RestTyped /\ UNCHANGED <<tainted, file>>
    BY <1>1, <1>5 DEF OutputFails, ArchiveFails, BundlesTypeOK
  <2>3. Rooted'
    BY <1>1, <2>1, <2>2 DEF Rooted, onDisk, running
  <2>4. OrderKept
    BY <1>1, <1>5, <2>2, FailureOrder DEF OrderKept, Inv
  <2> QED BY <2>1, <2>2, <2>3, <2>4, Together
<1>6. ASSUME NEW r \in Builds, Close(r) PROVE Inv'
  <2>1. /\ RowsFit /\ running(r) /\ build'[r].of = build[r].of
        /\ build'[r].linked = build[r].linked
        /\ \A s \in Builds \ {r} : build'[s] = build[s]
    BY <1>1, <1>6, CloseRow
  <2>2. build[r].of \in Exports
    BY <1>1, <2>1, BuildType
  <2>3. RestTyped /\ UNCHANGED <<tainted, file>>
    BY <1>1, <1>6, <2>2, ClearedType DEF Close, BundlesTypeOK
  <2>4. Rooted'
    BY <1>1, <2>1, <2>3 DEF Rooted, onDisk, running
  <2>5. OrderKept
    BY <1>1, <1>6, <2>3, CloseOrder DEF OrderKept, Inv
  <2> QED BY <2>1, <2>3, <2>4, <2>5, Together
<1>7. ASSUME NEW r \in Builds, Unlinked(r) PROVE Inv'
  <2>1. RowsFit /\ Severed(build[r].of) /\ running(r)
    BY <1>1, <1>7, CalledBackRow
  <2>2. build[r].of \in Exports
    BY <1>1, <2>1, BuildType
  <2>3. RestTyped /\ UNCHANGED <<tainted, bundlePath>> /\ file' = removed(build[r].of)
    BY <1>1, <1>7, <2>2, RemovedType DEF Unlinked, BundlesTypeOK
  <2> QED BY <2>1, <2>2, <2>3, RemovingStep
<1>8. ASSUME NEW r \in Builds, Over(r) PROVE Inv'
  <2>1. RestTyped /\ UNCHANGED <<bundlePath, file, tainted>>
        /\ build' = [build EXCEPT ![r] = NoBuild]
    BY <1>1, <1>8 DEF Over, BundlesTypeOK
  <2> QED BY <2>1, QuietStep DEF onDisk
<1>9. ASSUME NEW c \in Readers, NEW x \in Exports, GetPackage(c, x) PROVE Inv'
  <2>1. RestTyped /\ UNCHANGED <<bundlePath, file, tainted, build>>
    BY <1>1, <1>9 DEF GetPackage, BundlesTypeOK
  <2> QED BY <2>1, QuietStep DEF onDisk
<1>10. ASSUME NEW c \in Readers, Served(c) PROVE Inv'
  <2>1. RestTyped /\ UNCHANGED <<bundlePath, file, tainted, build>>
    BY <1>1, <1>10 DEF Served, BundlesTypeOK
  <2> QED BY <2>1, QuietStep DEF onDisk
<1> QED
  BY <1>2, <1>3, <1>4, <1>5, <1>6, <1>7, <1>8, <1>9, <1>10 DEF BuildStep, Advance

LEMMA ProcessStepInv ==
    ASSUME Inv, ProcessStep PROVE Inv'
<1>1. BundlesTypeOK
  BY DEF Inv
<1>2. ASSUME Gone PROVE Inv'
  <2>1. RestTyped /\ UNCHANGED <<bundlePath, file, tainted>>
        /\ build' = [r \in Builds |-> NoBuild]
    BY <1>1, <1>2 DEF Gone, BundlesTypeOK, RestTyped, CleanerRow
  <2> QED BY <2>1, QuietStep DEF onDisk
<1>3. ASSUME Shutdown \/ Boot PROVE Inv'
  <2>1. RestTyped /\ UNCHANGED <<bundlePath, file, tainted, build>>
    BY <1>1, <1>3 DEF Shutdown, Boot, BundlesTypeOK, RestTyped, CleanerRow
  <2> QED BY <2>1, QuietStep DEF onDisk
<1> QED BY <1>2, <1>3 DEF ProcessStep, Drained, ForceExit, Crash

LEMMA CleanerMoves ==
    ASSUME NEW c \in CleanerRow, NEW at \in SUBSET Exports, NEW todo \in SUBSET Exports,
           NEW pc \in {"idle", "stat", "null", "unlink", "orphans", "orphan"}
    PROVE  /\ [c EXCEPT !.pc = pc] \in CleanerRow
           /\ [c EXCEPT !.todo = todo] \in CleanerRow
           /\ [c EXCEPT !.pc = pc, !.todo = todo] \in CleanerRow
           /\ [c EXCEPT !.pc = pc, !.at = at] \in CleanerRow
           /\ [c EXCEPT !.pc = pc, !.at = at, !.todo = todo] \in CleanerRow
           /\ CleanerIdle(c.deaths) \in CleanerRow
           /\ c.deaths < MaxDeaths => CleanerIdle(c.deaths + 1) \in CleanerRow
<1>1. [c EXCEPT !.pc = pc] \in CleanerRow /\ [c EXCEPT !.todo = todo] \in CleanerRow
  BY DEF CleanerRow
<1>2. [c EXCEPT !.pc = pc, !.todo = todo] \in CleanerRow
  BY DEF CleanerRow
<1>3. [c EXCEPT !.pc = pc, !.at = at] \in CleanerRow
  BY DEF CleanerRow
<1>4. [c EXCEPT !.pc = pc, !.at = at, !.todo = todo] \in CleanerRow
  BY DEF CleanerRow
<1>5. /\ CleanerIdle(c.deaths) \in CleanerRow
      /\ c.deaths < MaxDeaths => CleanerIdle(c.deaths + 1) \in CleanerRow
  BY BundlesAssumption DEF CleanerRow, CleanerIdle
<1> QED BY <1>1, <1>2, <1>3, <1>4, <1>5

LEMMA CleanerInv ==
    ASSUME Inv, CleanerStep \/ CleanerDies PROVE Inv'
<1> USE DEF RestTyped
<1>1. BundlesTypeOK /\ BuildsSound /\ cleaner \in CleanerRow
  BY DEF Inv, BundlesTypeOK, CleanerRow
<1>2. ASSUME CleanerStarts \/ CleanerLists \/ CleanerEnds \/ CleanerDies PROVE Inv'
  <2>1. cleaner' \in CleanerRow
    <3>1. CASE CleanerStarts
      BY <1>1, <3>1, CleanerMoves DEF CleanerStarts
    <3>2. CASE CleanerLists
      BY <1>1, <3>2, CleanerMoves DEF CleanerLists, listed
    <3>3. CASE CleanerEnds \/ CleanerDies
      BY <1>1, <3>3, CleanerMoves DEF CleanerEnds, CleanerDies
    <3> QED BY <1>2, <3>1, <3>2, <3>3
  <2>2. RestTyped /\ UNCHANGED <<bundlePath, file, tainted, build>>
    BY <1>1, <1>2, <2>1
       DEF BundlesTypeOK, CleanerStarts, CleanerLists, CleanerEnds, CleanerDies, serverVars
  <2> QED BY <2>2, QuietStep DEF onDisk
<1>3. ASSUME NEW x \in Exports, CleanerStats(x) \/ CleanerLooks(x) PROVE Inv'
  <2>1. cleaner' \in CleanerRow
    <3>1. cleaner.todo \ {x} \in SUBSET Exports /\ {x} \in SUBSET Exports
      BY <1>1 DEF CleanerRow
    <3>2. \A pc \in {"null", "orphan"} :
            [cleaner EXCEPT !.pc = pc, !.at = {x}, !.todo = cleaner.todo \ {x}] \in CleanerRow
      BY <1>1, <3>1 DEF CleanerRow
    <3>3. [cleaner EXCEPT !.todo = cleaner.todo \ {x}] \in CleanerRow
      BY <1>1, <3>1 DEF CleanerRow
    <3> QED BY <1>3, <3>2, <3>3 DEF CleanerStats, CleanerLooks
  <2>2. RestTyped /\ UNCHANGED <<bundlePath, file, tainted, build>>
    BY <1>1, <1>3, <2>1 DEF BundlesTypeOK, CleanerStats, CleanerLooks, serverVars
  <2> QED BY <2>2, QuietStep DEF onDisk
<1>4. ASSUME NEW x \in Exports, CleanerNulls(x) \/ CleanerClears(x) PROVE Inv'
  <2>1. cleaner' \in CleanerRow
    <3>1. [cleaner EXCEPT !.pc = "unlink"] \in CleanerRow
      BY <1>1 DEF CleanerRow
    <3>2. [cleaner EXCEPT !.pc = "orphans", !.at = {}] \in CleanerRow
      BY <1>1 DEF CleanerRow
    <3> QED BY <1>4, <3>1, <3>2 DEF CleanerNulls, CleanerClears
  <2>2. /\ RestTyped /\ UNCHANGED <<file, tainted, build>>
        /\ \A y \in Exports : bundlePath'[y] => bundlePath[y]
    BY <1>1, <1>4, <2>1, ClearedType DEF BundlesTypeOK, CleanerNulls, CleanerClears, serverVars
  <2> QED BY <2>2, QuietStep DEF onDisk
<1>5. ASSUME NEW x \in Exports, CleanerUnlinks(x) PROVE Inv'
  <2>0. cleaner' \in CleanerRow
    BY <1>1, <1>5, CleanerMoves DEF CleanerUnlinks
  <2>1. RestTyped /\ UNCHANGED <<tainted, bundlePath>> /\ file' = removed(x)
        /\ build' = unlinked(x)
    BY <1>1, <1>5, <2>0, RemovedType DEF CleanerUnlinks, BundlesTypeOK
  <2>2. RowsFit /\ Severed(x)
    BY <1>1, <2>1, UnlinkedRows
  <2> QED BY <2>1, <2>2, RemovingStep
<1> QED BY <1>2, <1>3, <1>4, <1>5 DEF CleanerStep

LEMMA DiskInv ==
    ASSUME Inv, NEW x \in Exports, Age(x) \/ DeletedByHand(x) PROVE Inv'
<1> USE DEF RestTyped, CleanerRow
<1>1. BundlesTypeOK /\ BuildsSound
  BY DEF Inv
<1>2. ASSUME Age(x) PROVE Inv'
  <2> DEFINE f == [file[x] EXCEPT !.old = TRUE]
  <2>1. f \in BundleFile /\ f.whole = file[x].whole
    BY <1>1, <1>2 DEF Age, onDisk, BundlesTypeOK, BundleFile
  <2>2. file' = [file EXCEPT ![x] = f]
    BY <1>2 DEF Age
  <2>3. RestTyped /\ UNCHANGED <<bundlePath, tainted, build>>
    BY <1>1, <1>2, <2>1, <2>2, FileWritten DEF Age, BundlesTypeOK, serverVars
  <2> HIDE DEF f
  <2>4. \A y \in Exports : /\ onDisk(y)' <=> onDisk(y)
                           /\ onDisk(y)' => file'[y].whole = file[y].whole
    BY <1>1, <1>2, <2>1, <2>2, BundlesAssumption DEF Age, onDisk, BundlesTypeOK
  <2> QED BY <2>3, <2>4, QuietStep
<1>3. ASSUME DeletedByHand(x) PROVE Inv'
  <2>1. RestTyped /\ UNCHANGED <<tainted, bundlePath>> /\ file' = removed(x)
        /\ build' = unlinked(x)
    BY <1>1, <1>3, RemovedType DEF DeletedByHand, BundlesTypeOK
  <2>2. RowsFit /\ Severed(x)
    BY <1>1, <2>1, UnlinkedRows
  <2> QED BY <2>1, <2>2, RemovingStep
<1> QED BY <1>2, <1>3

LEMMA StepInv == Inv /\ [BundlesNext]_bundleVars => Inv'
<1> SUFFICES ASSUME Inv, [BundlesNext]_bundleVars PROVE Inv'
  OBVIOUS
<1>1. CASE BundlesNext
  BY <1>1, BuildStepInv, ProcessStepInv, CleanerInv, DiskInv DEF BundlesNext
<1>2. CASE UNCHANGED bundleVars
  <2>1. RestTyped /\ UNCHANGED <<bundlePath, file, tainted, build>>
    BY <1>2 DEF Inv, BundlesTypeOK, RestTyped, CleanerRow, bundleVars
  <2> QED BY <2>1, QuietStep DEF onDisk
<1> QED BY <1>1, <1>2

\* The invariant holds throughout: the types, the order of each build's events,
\* and, for an export whose builds never overlapped, a single build that leaves
\* the published file alone.
THEOREM AlwaysInOrder == BundlesSpec => []Inv
BY InitInv, StepInv, PTL DEF BundlesSpec

\* PublishedIsWhole: what GET serves is a whole archive, whatever errors,
\* crashes and cleanups went before (exports.js:211, :236-253).
THEOREM PublishedWhole == BundlesSpec => []PublishedIsWhole
<1>1. Inv => PublishedIsWhole
  BY DEF Inv, Orderly, Whole, PublishedIsWhole
<1> QED BY <1>1, AlwaysInOrder, PTL

\* No POST is answered twice, in whatever order its streams and its unlink call
\* back (exports.js:231-253): the safety half of EachPostAnswered.
AnsweredOnce == \A r \in Builds : running(r) => build[r].answers <= 1

THEOREM NoSecondAnswer == BundlesSpec => []AnsweredOnce
<1>1. Inv => AnsweredOnce
  BY DEF Inv, BuildsSound, Sound, AnsweredOnce
<1> QED BY <1>1, AlwaysInOrder, PTL

-----------------------------------------------------------------------------
(* Backups: what a finished one holds *)

BackupTypeOK ==
    /\ item \in [Items -> {"none", "received", "stored", "dropped", "stray", "bare"}]
    /\ backup # NoBackup => /\ DOMAIN backup = {"rows", "paths", "tar", "taken"}
                            /\ backup.paths \in [Exports -> BOOLEAN]
                            /\ backup.taken \in 0..2

\* The database comes first, then the uploads.
HalvesInOrder ==
    backup # NoBackup => /\ backup.taken = 0 => backup.rows = {}
                         /\ backup.taken < 2 => backup.tar = NoTar

\* A row that the snapshot has stands until somebody deletes it.
RowsStand ==
    backup # NoBackup => \A i \in Items : i \in backup.rows \ lost => hasRow(i)

\* And its file, if it still has one, is in the tarball.
FilesPacked ==
    backup # NoBackup /\ backup.tar # NoTar =>
       \A i \in Items : i \in backup.rows \ lost /\ hasFile(i) => i \in backup.tar

\* The inductive invariant: whatever is uploaded and deleted during a backup or
\* after it, what stands of the snapshot is packed.
BackupInv == BackupTypeOK /\ HalvesInOrder /\ RowsStand /\ FilesPacked

\* The halves of a backup, item by item.
LEMMA SnapshotTaken ==
    ASSUME BackupInv, Snapshot
    PROVE  /\ DOMAIN backup' = {"rows", "paths", "tar", "taken"}
           /\ backup # NoBackup /\ backup.taken = 0 /\ backup'.taken = 1
           /\ backup'.rows = {i \in Items : hasRow(i)} /\ backup'.paths = bundlePath
           /\ backup'.tar = NoTar
           /\ item' = item /\ lost' = {}
<1>1. backup # NoBackup /\ backup.taken \in 0..1 /\ order[backup.taken + 1] = "db"
  BY DEF Snapshot, due, BackupInv, BackupTypeOK
<1>2. backup.taken = 0
  BY <1>1 DEF order
<1> QED BY <1>1, <1>2 DEF Snapshot, BackupInv, BackupTypeOK, HalvesInOrder

LEMMA TarTaken ==
    ASSUME BackupInv, Tar
    PROVE  /\ DOMAIN backup' = {"rows", "paths", "tar", "taken"}
           /\ backup # NoBackup /\ backup.taken = 1 /\ backup'.taken = 2
           /\ backup'.rows = backup.rows /\ backup'.paths = backup.paths
           /\ backup'.tar \in {{i \in Items : hasFile(i)}, NoTar}
           /\ item' = item /\ lost' = lost
<1>1. backup # NoBackup /\ backup.taken \in 0..1 /\ order[backup.taken + 1] = "uploads"
  BY DEF Tar, due, BackupInv, BackupTypeOK
<1>2. backup.taken = 1
  BY <1>1 DEF order
<1>3. PICK tar \in {{i \in Items : hasFile(i)}, NoTar} :
        backup' = [backup EXCEPT !.tar = tar, !.taken = @ + 1]
  BY DEF Tar
<1> QED BY <1>1, <1>2, <1>3 DEF Tar, BackupInv, BackupTypeOK

\* An item after a restore from the backup that stands.
LEMMA RestoredAs ==
    ASSUME BackupInv, NEW newHost \in BOOLEAN, Restore(newHost)
    PROVE  /\ backup # NoBackup /\ backup' = backup /\ lost' = lost
           /\ item' \in [Items -> {"none", "stored", "stray", "bare"}]
           /\ \A i \in backup.rows \cap Items :
                /\ item'[i] \in {"stored", "bare"}
                /\ item'[i] = "stored" =>
                     hasFile(i) \/ (backup.tar # NoTar /\ i \in backup.tar)
                /\ item'[i] = "bare" /\ backup.tar # NoTar =>
                     IF newHost THEN i \notin backup.tar ELSE ~hasFile(i)
<1>1. PICK unpack \in {newHost, TRUE} :
        LET survives(i) == \/ ~newHost /\ hasFile(i)
                           \/ unpack /\ backup.tar # NoTar /\ i \in backup.tar
        IN item' = [i \in Items |->
                      IF i \in backup.rows THEN IF survives(i) THEN "stored" ELSE "bare"
                      ELSE IF survives(i) THEN "stray" ELSE "none"]
  BY DEF Restore
<1> QED BY <1>1 DEF Restore

LEMMA BackupStart == BackupsInit => BackupInv
BY DEF BackupsInit, BackupInv, BackupTypeOK, HalvesInOrder, RowsStand, FilesPacked

\* While the backup stands, and no row of it comes or goes unnoticed, and no
\* file that it has no copy of is written, the invariant stands too.
LEMMA ItemStep ==
    ASSUME BackupInv, backup' = backup, lost \subseteq lost',
           item' \in [Items -> {"none", "received", "stored", "dropped", "stray", "bare"}],
           \A i \in Items : hasRow(i) => i \in lost' \/ item'[i] = item[i]
    PROVE  BackupInv'
<1>1. BackupTypeOK' /\ HalvesInOrder'
  BY DEF BackupInv, BackupTypeOK, HalvesInOrder
<1>2. RowsStand'
  BY DEF BackupInv, RowsStand, hasRow
<1>3. FilesPacked'
  BY DEF BackupInv, RowsStand, FilesPacked, hasRow, hasFile
<1> QED BY <1>1, <1>2, <1>3 DEF BackupInv

LEMMA BackupStep ==
    ASSUME BundlesTypeOK, BackupInv, [BackupsNext]_allVars
    PROVE  BackupInv'
<1>0. BackupTypeOK
  BY DEF BackupInv
<1>1. CASE UNCHANGED allVars
  BY <1>0, <1>1, ItemStep DEF allVars, BackupTypeOK
<1>2. CASE BundleStep
  <2>1. /\ backup' = backup /\ lost' = lost
        /\ item' = [i \in Items |-> stepOf(i)]
    BY <1>2 DEF BundleStep
  <2>2. \A i \in Items :
          /\ stepOf(i) \in {"none", "received", "stored", "dropped", "stray", "bare"}
          /\ hasRow(i) => stepOf(i) = item[i]
    BY <1>0 DEF stepOf, hasRow, BackupTypeOK
  <2> QED BY <2>1, <2>2, ItemStep
<1>3. CASE BackupStarts
  <2>1. backup' = EmptyBackup /\ item' = item /\ lost' = {}
    BY <1>3 DEF BackupStarts
  <2>2. /\ DOMAIN backup' = {"rows", "paths", "tar", "taken"}
        /\ backup'.rows = {} /\ backup'.tar = NoTar /\ backup'.taken = 0
        /\ backup'.paths \in [Exports -> BOOLEAN]
    BY <2>1 DEF EmptyBackup
  <2> QED BY <1>0, <2>1, <2>2
          DEF BackupInv, BackupTypeOK, HalvesInOrder, RowsStand, FilesPacked
<1>4. CASE Snapshot
  BY <1>0, <1>4, SnapshotTaken
     DEF BackupInv, BackupTypeOK, HalvesInOrder, RowsStand, FilesPacked, hasRow, BundlesTypeOK
<1>5. CASE Tar
  <2>1. BackupTypeOK' /\ HalvesInOrder'
    BY <1>0, <1>5, TarTaken DEF BackupTypeOK, HalvesInOrder
  <2>2. RowsStand'
    BY <1>5, TarTaken DEF BackupInv, RowsStand, hasRow
  <2>3. FilesPacked'
    BY <1>5, TarTaken DEF FilesPacked, hasFile
  <2> QED BY <2>1, <2>2, <2>3 DEF BackupInv
<1>6. ASSUME NEW newHost \in BOOLEAN, Restore(newHost) PROVE BackupInv'
  <2>1. /\ backup # NoBackup /\ backup' = backup /\ lost' = lost
        /\ item' \in [Items -> {"none", "stored", "stray", "bare"}]
        /\ \A i \in backup.rows \cap Items :
             /\ item'[i] \in {"stored", "bare"}
             /\ item'[i] = "stored" =>
                  hasFile(i) \/ (backup.tar # NoTar /\ i \in backup.tar)
    BY <1>6, RestoredAs
  <2>2. BackupTypeOK' /\ HalvesInOrder'
    BY <2>1 DEF BackupInv, BackupTypeOK, HalvesInOrder
  <2>3. RowsStand'
    BY <2>1 DEF RowsStand, hasRow
  <2>4. FilesPacked'
    BY <2>1 DEF BackupInv, FilesPacked, hasFile
  <2> QED BY <2>2, <2>3, <2>4 DEF BackupInv
<1>7. ASSUME NEW i \in Items, Received(i) \/ Stored(i) \/ Deleted(i) \/ Dropped(i)
      PROVE  BackupInv'
  <2>1. backup' = backup /\ lost \subseteq lost'
    BY <1>7 DEF Received, Stored, Deleted, Dropped
  <2>2. item' \in [Items -> {"none", "received", "stored", "dropped", "stray", "bare"}]
    BY <1>0, <1>7 DEF Received, Stored, Deleted, Dropped, BackupTypeOK
  <2>3. \A j \in Items : hasRow(j) => j \in lost' \/ item'[j] = item[j]
    BY <1>0, <1>7 DEF Received, Stored, Deleted, Dropped, BackupTypeOK, hasRow
  <2> QED BY <2>1, <2>2, <2>3, ItemStep
<1> QED BY <1>1, <1>2, <1>3, <1>4, <1>5, <1>6, <1>7 DEF BackupsNext

-----------------------------------------------------------------------------
(* Bundles under restores *)

\* Nothing is built while the process is down, which is when one restores.
DownIsQuiet == server = "down" => \A r \in Builds : ~running(r)

LEMMA QuietStays ==
    ASSUME BundlesTypeOK, DownIsQuiet, [BundlesNext]_bundleVars
    PROVE  DownIsQuiet'
<1>1. ASSUME UNCHANGED server,
             UNCHANGED build \/ (\E x \in Exports : build' = unlinked(x)) \/ server # "down"
      PROVE  DownIsQuiet'
  BY <1>1 DEF DownIsQuiet, running, unlinked
<1>2. CASE BuildStep
  <2>1. ASSUME NEW r \in Builds, NEW x \in Exports, PostPackage(r, x) PROVE DownIsQuiet'
    BY <2>1 DEF PostPackage, DownIsQuiet
  <2>2. ASSUME NEW r \in Builds, running(r), UNCHANGED server PROVE DownIsQuiet'
    BY <1>1, <2>2 DEF DownIsQuiet
  <2>3. ASSUME NEW r \in Builds,
               Advance(r) \/ OutputFails(r) \/ ArchiveFails(r) \/ Over(r)
        PROVE  DownIsQuiet'
    <3>1. running(r) /\ UNCHANGED server
      BY <2>3 DEF Advance, OpenFile, Flush, Close, Unlinked, OutputFails, ArchiveFails, Over
    <3> QED BY <2>2, <3>1
  <2>4. ASSUME NEW c \in Readers, Served(c) \/ \E x \in Exports : GetPackage(c, x)
        PROVE  DownIsQuiet'
    BY <1>1, <2>4 DEF Served, GetPackage
  <2> QED BY <1>2, <2>1, <2>3, <2>4 DEF BuildStep
<1>3. CASE ProcessStep
  BY <1>3 DEF ProcessStep, Shutdown, Drained, ForceExit, Crash, Boot, Gone, DownIsQuiet,
              running
<1>4. CASE CleanerStep \/ CleanerDies
  BY <1>1, <1>4 DEF CleanerStep, CleanerDies, CleanerStarts, CleanerLists, CleanerEnds,
                    CleanerStats, CleanerNulls, CleanerUnlinks, CleanerLooks, CleanerClears,
                    serverVars
<1>5. CASE \E x \in Exports : Age(x) \/ DeletedByHand(x)
  BY <1>1, <1>5 DEF Age, DeletedByHand, serverVars
<1>6. CASE UNCHANGED bundleVars
  BY <1>1, <1>6 DEF bundleVars
<1> QED BY <1>2, <1>3, <1>4, <1>5, <1>6 DEF BundlesNext

\* What a restore brings back is either of the same backup as the directory of
\* bundles, empty on a new host, or tainted.
LEMMA RestoreInOrder ==
    ASSUME Inv, DownIsQuiet, BackupInv, NEW newHost \in BOOLEAN, Restore(newHost)
    PROVE  Inv'
<1>1. /\ \A r \in Builds : ~running(r)
      /\ UNCHANGED <<build, downloads, server, cleaner>>
      /\ bundlePath' \in [Exports -> BOOLEAN]
  BY DEF Restore, DownIsQuiet, BackupInv, BackupTypeOK, serverVars
<1>2. \A r \in Builds : ~running(r)'
  BY <1>1 DEF running
<1>3. BundlesTypeOK'
  BY <1>1 DEF Restore, Inv, BundlesTypeOK
<1>4. \A x \in Exports : x \notin tainted' => ~onDisk(x)'
  BY DEF Restore, onDisk
<1> QED BY <1>2, <1>3, <1>4
        DEF Inv, BuildsSound, Rooted, Orderly, Alone, InStep, Whole, of

\* Bundles and backups together.
RestoreInv == Inv /\ DownIsQuiet /\ BackupInv

LEMMA RestoreStep == RestoreInv /\ [BackupsNext]_allVars => RestoreInv'
<1> SUFFICES ASSUME RestoreInv, [BackupsNext]_allVars PROVE RestoreInv'
  OBVIOUS
<1>1. Inv /\ BundlesTypeOK /\ DownIsQuiet /\ BackupInv
  BY DEF RestoreInv, Inv
<1>2. BackupInv'
  BY <1>1, BackupStep
<1>3. CASE [BundlesNext]_bundleVars
  BY <1>1, <1>2, <1>3, StepInv, QuietStays DEF RestoreInv
<1>4. ASSUME NEW newHost \in BOOLEAN, Restore(newHost) PROVE RestoreInv'
  <2>1. DownIsQuiet'
    BY <1>1, <1>4 DEF Restore, serverVars, DownIsQuiet, running
  <2> QED BY <1>1, <1>2, <1>4, <2>1, RestoreInOrder DEF RestoreInv
<1>5. \/ [BundlesNext]_bundleVars
      \/ \E newHost \in BOOLEAN : Restore(newHost)
  BY DEF BackupsNext, allVars, BundleStep, BackupStarts, Snapshot, Tar, Received, Stored,
         Deleted, Dropped
<1> QED BY <1>3, <1>4, <1>5

LEMMA RestoreStart == BackupsInit => RestoreInv
<1> SUFFICES ASSUME BackupsInit PROVE RestoreInv
  OBVIOUS
<1>1. Inv
  BY InitInv DEF BackupsInit
<1>2. DownIsQuiet
  BY DEF BackupsInit, BundlesInit, DownIsQuiet
<1> QED BY <1>1, <1>2, BackupStart DEF RestoreInv

LEMMA AlwaysRestorable == BackupsSpec => []RestoreInv
BY RestoreStart, RestoreStep, PTL DEF BackupsSpec

\* Whatever is uploaded, deleted and built while backup.js runs and after it, and
\* however often one restores, an item loses its file to a restore only if it was
\* deleted since the snapshot or the tarball failed (backup.js:113-125).
THEOREM RestoresKeepFiles == BackupsSpec => RestoreKeepsFiles
<1>1. RestoreInv /\ [BackupsNext]_allVars =>
        \A i \in Items : item[i] # "bare" /\ item'[i] = "bare"
                           => i \in lost \/ backup.tar = NoTar
  <2> SUFFICES ASSUME BackupInv, [BackupsNext]_allVars, NEW i \in Items,
                      item[i] # "bare", item'[i] = "bare"
               PROVE  i \in lost \/ backup.tar = NoTar
    BY DEF RestoreInv
  <2>1. BackupTypeOK
    BY DEF BackupInv
  <2>2. PICK newHost \in BOOLEAN : Restore(newHost)
    BY <2>1 DEF BackupTypeOK, BackupsNext, allVars, BundleStep, stepOf, BackupStarts, Snapshot,
                Tar, Received, Stored, Deleted, Dropped
  <2>3. /\ backup # NoBackup
        /\ i \in backup.rows
        /\ backup.tar # NoTar => IF newHost THEN i \notin backup.tar ELSE ~hasFile(i)
    <3>1. i \in backup.rows
      BY <2>2 DEF Restore
    <3> QED BY <2>2, <3>1, RestoredAs
  <2>4. i \notin lost => item[i] = "stored"
    BY <2>3 DEF BackupInv, RowsStand, hasRow
  <2> QED BY <2>3, <2>4 DEF BackupInv, FilesPacked, hasFile
<1> QED BY <1>1, AlwaysRestorable, PTL DEF BackupsSpec, RestoreKeepsFiles

\* And what GET serves stays a whole archive under any number of restores, on
\* this host or on a new one, but for an export whose row was restored over a
\* directory that still had a bundle of it (exports.js:211, backup.js:113-125).
THEOREM PublishedWholeAfterRestores == BackupsSpec => []PublishedIsWhole
<1>1. RestoreInv => PublishedIsWhole
  BY DEF RestoreInv, Inv, Orderly, Whole, PublishedIsWhole
<1> QED BY <1>1, AlwaysRestorable, PTL
=============================================================================
