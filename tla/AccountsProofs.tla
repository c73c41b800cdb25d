--------------------------- MODULE AccountsProofs ---------------------------
(***************************************************************************)
(* Theorems about deactivating and reactivating users, for every set of    *)
(* users and claimants.                                                    *)
(***************************************************************************)
EXTENDS MCAccounts, TLAPS

HistoryTypeOK ==
    /\ offBy \in [Users -> [Claimants -> {"user", "admin", "-"}]]
    /\ touched \in [Users -> [Claimants -> BOOLEAN]]

\* Nobody is marked before there is a row to mark.
AbsentUnmarked == \A u \in Users, c \in Claimants : ustatus[u] = "absent" => ~marker[u][c]

\* What went down with its user and has not come back is inactive.
DownIsInactive ==
    \A u \in Users, c \in Claimants : offBy[u][c] = "user" => att[u][c] = "inactive"

\* A marker nobody patched around means that the attachment went down with its
\* user, or that it is active again.
MarkedWentDown ==
    \A u \in Users, c \in Claimants :
       marker[u][c] /\ ~touched[u][c] => offBy[u][c] = "user" \/ att[u][c] = "active"

\* The inductive invariant: markers tell what went down with the user, in both
\* directions.
MarkerInv ==
    /\ AccountsTypeOK
    /\ HistoryTypeOK
    /\ AbsentUnmarked
    /\ DownIsInactive
    /\ DownWithUserIsMarked
    /\ MarkedWentDown

-----------------------------------------------------------------------------
(* What the history variables record *)

\* Record, for one attachment.
LEMMA RecordAt ==
    ASSUME NEW cause, NEW patched, Record(cause, patched),
           NEW u \in Users, NEW c \in Claimants
    PROVE  /\ att'[u][c] # "inactive" => offBy'[u][c] = "-"
           /\ att'[u][c] = "inactive" /\ att[u][c] = "inactive" =>
                offBy'[u][c] = offBy[u][c]
           /\ att'[u][c] = "inactive" /\ att[u][c] # "inactive" =>
                offBy'[u][c] = cause
           /\ touched'[u][c] <=> /\ marker'[u][c]
                                 /\ touched[u][c] \/ <<u, c>> \in patched
BY DEF Record, PerAttachment

\* The history variables keep their type.
LEMMA RecordType ==
    ASSUME HistoryTypeOK, AccountsTypeOK', NEW cause \in {"user", "admin", "-"},
           NEW patched, Record(cause, patched)
    PROVE  HistoryTypeOK'
<1>1. offBy' \in [Users -> [Claimants -> {"user", "admin", "-"}]]
  BY DEF Record, PerAttachment, HistoryTypeOK
<1>2. touched' \in [Users -> [Claimants -> BOOLEAN]]
  BY DEF Record, PerAttachment, HistoryTypeOK, AccountsTypeOK
<1> QED BY <1>1, <1>2 DEF HistoryTypeOK

-----------------------------------------------------------------------------
(* What a step does to one attachment *)

Left(u, c) ==
    /\ att'[u][c] = att[u][c] /\ (marker'[u][c] <=> marker[u][c])
    /\ ustatus'[u] = "absent" => ustatus[u] = "absent"

Created(u, c) ==
    /\ ustatus[u] = "absent" /\ ustatus'[u] # "absent"
    /\ att'[u][c] \in {"active", "none"} /\ (marker'[u][c] <=> marker[u][c])

Downed(u, c) ==
    /\ ustatus'[u] # "absent"
    /\ att'[u][c] = IF att[u][c] = "active" THEN "inactive" ELSE att[u][c]
    /\ marker'[u][c] <=> marker[u][c] \/ att[u][c] = "active"

Restored(u, c) ==
    /\ ustatus'[u] # "absent"
    /\ att'[u][c] = IF marker[u][c] THEN "active" ELSE att[u][c]
    /\ ~marker'[u][c]

Attached(u, c) ==
    /\ ustatus'[u] = ustatus[u]
    /\ att[u][c] = "none" /\ att'[u][c] = "active"
    /\ marker'[u][c] <=> marker[u][c]

\* Whoever patches a marked attachment is recorded as having touched it.
Touched(u, c) ==
    /\ ustatus'[u] = ustatus[u]
    /\ att'[u][c] \in AttStatus
    /\ (marker'[u][c] <=> marker[u][c])
    /\ touched'[u][c] <=> marker'[u][c]

Blamed(u, c, cause) ==
    /\ att'[u][c] # "inactive" => offBy'[u][c] = "-"
    /\ att'[u][c] = "inactive" /\ att[u][c] = "inactive" => offBy'[u][c] = offBy[u][c]
    /\ att'[u][c] = "inactive" /\ att[u][c] # "inactive" => offBy'[u][c] = cause

Unpatched(u, c) == touched'[u][c] <=> marker'[u][c] /\ touched[u][c]

Stepped(u, c) ==
    \/ Left(u, c) /\ (\E cause : Blamed(u, c, cause)) /\ Unpatched(u, c)
    \/ Created(u, c) /\ Blamed(u, c, "-") /\ Unpatched(u, c)
    \/ Downed(u, c) /\ Blamed(u, c, "user") /\ Unpatched(u, c)
    \/ Restored(u, c) /\ Blamed(u, c, "-") /\ Unpatched(u, c)
    \/ Attached(u, c) /\ Blamed(u, c, "-") /\ Unpatched(u, c)
    \/ Touched(u, c) /\ Blamed(u, c, "admin")

\* Record blames and remembers.
LEMMA Remembered ==
    ASSUME NEW cause, NEW patched, Record(cause, patched),
           NEW u \in Users, NEW c \in Claimants
    PROVE  /\ Blamed(u, c, cause)
           /\ <<u, c>> \notin patched => Unpatched(u, c)
           /\ <<u, c>> \in patched => (touched'[u][c] <=> marker'[u][c])
BY RecordAt DEF Blamed, Unpatched

\* Every handler keeps the types and does one of these to each attachment.
LEMMA HandlersStep ==
    ASSUME MarkerInv, MCNext
    PROVE  /\ AccountsTypeOK' /\ HistoryTypeOK'
           /\ \A u \in Users, c \in Claimants : Stepped(u, c)
<1>0. AccountsTypeOK /\ HistoryTypeOK
  BY DEF MarkerInv
<1> USE DEF AccountsTypeOK, Roles, UserStatus, AttStatus
<1>1. ASSUME NEW w \in Users, Enrol(w), Record("-", {})
      PROVE  /\ AccountsTypeOK'
             /\ \A u \in Users, c \in Claimants : Left(u, c)
  BY <1>0, <1>1 DEF Enrol, Left
<1>2. ASSUME NEW a \in Users, NEW w \in Users, NEW r \in Roles,
             NEW cs \in SUBSET Claimants, CreateUser(a, w, r, cs)
      PROVE  /\ AccountsTypeOK'
             /\ \A u \in Users, c \in Claimants : Left(u, c) \/ Created(u, c)
  BY <1>0, <1>2 DEF CreateUser, Left, Created
<1>3. ASSUME NEW a \in Users, NEW w \in Users, NEW r \in Roles,
             NEW s \in UserStatus, PatchUser(a, w, r, s)
      PROVE  /\ AccountsTypeOK'
             /\ \A u \in Users, c \in Claimants : Left(u, c)
  BY <1>0, <1>3 DEF PatchUser, Left
<1>4. ASSUME NEW a \in Users, NEW w \in Users, Deactivate(a, w)
      PROVE  /\ AccountsTypeOK'
             /\ \A u \in Users, c \in Claimants : Left(u, c) \/ Downed(u, c)
  BY <1>0, <1>4 DEF Deactivate, Left, Downed
<1>5. ASSUME NEW a \in Users, NEW w \in Users, Reactivate(a, w)
      PROVE  /\ AccountsTypeOK'
             /\ \A u \in Users, c \in Claimants : Left(u, c) \/ Restored(u, c)
  BY <1>0, <1>5 DEF Reactivate, Left, Restored
<1>6. ASSUME NEW a \in Users, NEW w \in Users, NEW d \in Claimants, Attach(a, w, d)
      PROVE  /\ AccountsTypeOK'
             /\ \A u \in Users, c \in Claimants : Left(u, c) \/ Attached(u, c)
  BY <1>0, <1>6 DEF Attach, Left, Attached
<1>7. ASSUME NEW a \in Users, NEW w \in Users, NEW d \in Claimants,
             NEW s \in AttStatus, PatchAttachment(a, w, d, s),
             Record("admin", {<<w, d>>})
      PROVE  /\ AccountsTypeOK'
             /\ \A u \in Users, c \in Claimants :
                  \/ Left(u, c) /\ <<u, c>> \notin {<<w, d>>}
                  \/ Touched(u, c)
  <2>1. AccountsTypeOK'
    BY <1>0, <1>7 DEF PatchAttachment
  <2>2. ASSUME NEW u \in Users, NEW c \in Claimants, <<u, c>> # <<w, d>>
        PROVE  Left(u, c)
    BY <1>0, <1>7, <2>2 DEF PatchAttachment, Left
  <2>3. Touched(w, d)
    <3>1. PICK patched : patched = {<<w, d>>}
      OBVIOUS
    <3>2. Record("admin", patched) /\ <<w, d>> \in patched
      BY <1>7, <3>1
    <3>3. touched'[w][d] <=> marker'[w][d]
      BY <3>2, Remembered
    <3> QED BY <1>0, <1>7, <3>3 DEF PatchAttachment, Touched
  <2> QED BY <2>1, <2>2, <2>3
<1> HIDE DEF AccountsTypeOK, Roles, UserStatus, AttStatus
<1>8. ASSUME NEW cause \in {"user", "admin", "-"}, NEW patched,
             Record(cause, patched), AccountsTypeOK'
      PROVE  HistoryTypeOK'
  BY <1>0, <1>8, RecordType
<1>9. ASSUME NEW cause \in {"user", "admin", "-"}, Record(cause, {}),
             AccountsTypeOK',
             \A u \in Users, c \in Claimants :
                \/ Left(u, c)
                \/ cause = "-" /\ (Created(u, c) \/ Restored(u, c) \/ Attached(u, c))
                \/ cause = "user" /\ Downed(u, c)
      PROVE  /\ AccountsTypeOK' /\ HistoryTypeOK'
             /\ \A u \in Users, c \in Claimants : Stepped(u, c)
  <2>1. ASSUME NEW u \in Users, NEW c \in Claimants PROVE Stepped(u, c)
    <3>1. PICK patched : patched = {}
      OBVIOUS
    <3>2. Record(cause, patched) /\ <<u, c>> \notin patched
      BY <1>9, <3>1
    <3>3. Blamed(u, c, cause) /\ Unpatched(u, c)
      BY <3>2, Remembered
    <3> QED BY <1>9, <3>3 DEF Stepped
  <2> QED BY <1>8, <1>9, <2>1
<1>10. ASSUME NEW a \in Users, NEW w \in Users, NEW d \in Claimants,
              NEW s \in AttStatus, PatchAttachment(a, w, d, s),
              Record("admin", {<<w, d>>})
       PROVE  /\ AccountsTypeOK' /\ HistoryTypeOK'
              /\ \A u \in Users, c \in Claimants : Stepped(u, c)
  <2>1. ASSUME NEW u \in Users, NEW c \in Claimants PROVE Stepped(u, c)
    <3>1. /\ Blamed(u, c, "admin")
          /\ <<u, c>> \notin {<<w, d>>} => Unpatched(u, c)
      BY <1>10, Remembered
    <3> QED BY <1>7, <1>10, <3>1 DEF Stepped
  <2> QED BY <1>7, <1>8, <1>10, <2>1
<1>11. ASSUME NEW w \in Users, Enrol(w), Record("-", {})
       PROVE  /\ AccountsTypeOK' /\ HistoryTypeOK'
              /\ \A u \in Users, c \in Claimants : Stepped(u, c)
  BY <1>1, <1>9, <1>11
<1>12. ASSUME NEW a \in Users, NEW w \in Users, Record("-", {}),
              \/ \E r \in Roles, cs \in SUBSET Claimants : CreateUser(a, w, r, cs)
              \/ \E r \in Roles, s \in UserStatus : PatchUser(a, w, r, s)
              \/ Reactivate(a, w)
              \/ \E d \in Claimants : Attach(a, w, d)
       PROVE  /\ AccountsTypeOK' /\ HistoryTypeOK'
              /\ \A u \in Users, c \in Claimants : Stepped(u, c)
  BY <1>2, <1>3, <1>5, <1>6, <1>9, <1>12
<1>13. ASSUME NEW a \in Users, NEW w \in Users, Deactivate(a, w), Record("user", {})
       PROVE  /\ AccountsTypeOK' /\ HistoryTypeOK'
              /\ \A u \in Users, c \in Claimants : Stepped(u, c)
  BY <1>4, <1>9, <1>13
<1> QED BY <1>10, <1>11, <1>12, <1>13 DEF MCNext

\* Nobody and nothing is attached in the freshly seeded database.
LEMMA MarkerStart == MCInit => MarkerInv
<1> SUFFICES ASSUME MCInit PROVE MarkerInv
  OBVIOUS
<1>1. AccountsTypeOK
  BY FirstAdminAssumption
     DEF MCInit, AccountsInit, AccountsTypeOK, Roles, UserStatus, AttStatus
<1>2. /\ offBy = [u \in Users |-> [c \in Claimants |-> "-"]]
      /\ touched = [u \in Users |-> [c \in Claimants |-> FALSE]]
      /\ marker = [u \in Users |-> [c \in Claimants |-> FALSE]]
  BY DEF MCInit, PerAttachment, AccountsInit
<1> QED BY <1>1, <1>2 DEF MarkerInv, HistoryTypeOK, AbsentUnmarked, DownIsInactive,
                          DownWithUserIsMarked, MarkedWentDown

\* Markers keep telling what went down with the user.
LEMMA MarkerStep == MarkerInv /\ [MCNext]_mcVars => MarkerInv'
<1> SUFFICES ASSUME MarkerInv, [MCNext]_mcVars PROVE MarkerInv'
  OBVIOUS
<1>1. CASE UNCHANGED mcVars
  BY <1>1 DEF mcVars, MarkerInv, AccountsTypeOK, HistoryTypeOK, AbsentUnmarked,
              DownIsInactive, DownWithUserIsMarked, MarkedWentDown
<1>2. CASE MCNext
  <2>1. AccountsTypeOK' /\ HistoryTypeOK'
    BY <1>2, HandlersStep
  <2>2. ASSUME NEW u \in Users, NEW c \in Claimants
        PROVE  /\ ustatus'[u] = "absent" => ~marker'[u][c]
               /\ offBy'[u][c] = "user" => att'[u][c] = "inactive" /\ marker'[u][c]
               /\ marker'[u][c] /\ ~touched'[u][c] =>
                    offBy'[u][c] = "user" \/ att'[u][c] = "active"
    <3>1. Stepped(u, c)
      BY <1>2, HandlersStep
    <3>2. /\ ustatus[u] = "absent" => ~marker[u][c]
          /\ offBy[u][c] = "user" => att[u][c] = "inactive" /\ marker[u][c]
          /\ marker[u][c] /\ ~touched[u][c] =>
               offBy[u][c] = "user" \/ att[u][c] = "active"
          /\ att[u][c] \in {"active", "inactive", "none"}
      BY DEF MarkerInv, AbsentUnmarked, DownIsInactive, DownWithUserIsMarked,
             MarkedWentDown, AccountsTypeOK, AttStatus
    <3> USE DEF Blamed
    <3>3. CASE Left(u, c) /\ (\E cause : Blamed(u, c, cause)) /\ Unpatched(u, c)
      BY <3>2, <3>3 DEF Left, Unpatched
    <3>4. CASE Created(u, c) /\ Blamed(u, c, "-") /\ Unpatched(u, c)
      BY <3>2, <3>4 DEF Created, Unpatched
    <3>5. CASE Downed(u, c) /\ Blamed(u, c, "user") /\ Unpatched(u, c)
      BY <3>2, <3>5 DEF Downed, Unpatched
    <3>6. CASE Restored(u, c) /\ Blamed(u, c, "-") /\ Unpatched(u, c)
      BY <3>2, <3>6 DEF Restored, Unpatched
    <3>7. CASE Attached(u, c) /\ Blamed(u, c, "-") /\ Unpatched(u, c)
      BY <3>2, <3>7 DEF Attached, Unpatched
    <3>8. CASE Touched(u, c) /\ Blamed(u, c, "admin")
      BY <3>2, <3>8 DEF Touched, AttStatus
    <3> QED BY <3>1, <3>3, <3>4, <3>5, <3>6, <3>7, <3>8 DEF Stepped
  <2> QED BY <2>1, <2>2 DEF MarkerInv, AbsentUnmarked, DownIsInactive,
                            DownWithUserIsMarked, MarkedWentDown
<1> QED BY <1>1, <1>2

\* The invariant holds in every reachable state.
LEMMA MarkerInvariance == MCSpec => []MarkerInv
BY MarkerStart, MarkerStep, PTL DEF MCSpec

-----------------------------------------------------------------------------
(* Theorems *)

\* Whatever admins post and patch, users and attachments have the states that
\* their columns allow (users.js:151-303, user-claimants.js:21-85).
THEOREM AccountsTypeCorrect == MCSpec => []AccountsTypeOK
<1>1. MarkerInv => AccountsTypeOK
  BY DEF MarkerInv
<1> QED BY MarkerInvariance, <1>1, PTL

\* No patch, status edit or further deactivation loses the marker of an
\* attachment that went down with its user and is still down: reactivate finds
\* what deactivate left (users.js:251-266, :291-303).
THEOREM DownWithUserStaysMarked == MCSpec => []DownWithUserIsMarked
<1>1. MarkerInv => DownWithUserIsMarked
  BY DEF MarkerInv
<1> QED BY MarkerInvariance, <1>1, PTL

\* Reactivation brings back exactly what went down with the user, over any number
\* of rounds, where nobody patched a marked attachment in between.
THEOREM ReactivateUndoes == MCSpec => ReactivateUndoesDeactivate
<1>1. ASSUME MarkerInv, NEW a \in Users, NEW u \in Users, Reactivate(a, u),
             NEW c \in Claimants, ~touched[u][c]
      PROVE  att'[u][c] = IF offBy[u][c] = "user" THEN "active" ELSE att[u][c]
  <2>1. att'[u][c] = IF marker[u][c] THEN "active" ELSE att[u][c]
    BY <1>1 DEF Reactivate, MarkerInv, AccountsTypeOK
  <2>2. /\ offBy[u][c] = "user" => marker[u][c]
        /\ marker[u][c] => offBy[u][c] = "user" \/ att[u][c] = "active"
    BY <1>1 DEF MarkerInv, DownWithUserIsMarked, MarkedWentDown
  <2> QED BY <2>1, <2>2
<1>2. MarkerInv /\ [MCNext]_mcVars =>
        [\A a, u \in Users : Reactivate(a, u) =>
           \A c \in Claimants : ~touched[u][c] =>
              att'[u][c] = IF offBy[u][c] = "user" THEN "active" ELSE att[u][c]]_mcVars
  BY <1>1
<1> QED BY MarkerInvariance, <1>2, PTL DEF MCSpec, ReactivateUndoesDeactivate
=============================================================================
