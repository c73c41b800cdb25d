----------------------------- MODULE MCAccounts -----------------------------
(***************************************************************************)
(* Accounts with history variables for TLC: why each inactive attachment   *)
(* is inactive, and which marked ones were patched.                        *)
(***************************************************************************)
EXTENDS Accounts

VARIABLES
    offBy,     \* offBy[u][c]: "user" (went down with the user), "admin"
               \* (set inactive on its own), "-" (not inactive)
    touched    \* touched[u][c]: patched since it was marked

mcVars == <<role, ustatus, att, marker, offBy, touched>>

PerAttachment(F(_, _)) == [u \in Users |-> [c \in Claimants |-> F(u, c)]]

MCInit ==
    /\ AccountsInit
    /\ LET none(u, c) == "-" IN offBy = PerAttachment(none)
    /\ LET no(u, c) == FALSE IN touched = PerAttachment(no)

\* cause: what a step that switches an attachment off is to be blamed on;
\* patched: the attachments the step patches.
Record(cause, patched) ==
    LET why(u, c) == CASE att'[u][c] # "inactive" -> "-"
                       [] att'[u][c] = "inactive" /\ att[u][c] = "inactive" -> offBy[u][c]
                       [] OTHER -> cause
        now(u, c) == marker'[u][c] /\ (touched[u][c] \/ <<u, c>> \in patched)
    IN offBy' = PerAttachment(why) /\ touched' = PerAttachment(now)

MCNext ==
    \/ \E u \in Users : Enrol(u) /\ Record("-", {})
    \/ \E a, u \in Users :
         \/ \E r \in Roles, cs \in SUBSET Claimants :
              CreateUser(a, u, r, cs) /\ Record("-", {})
         \/ \E r \in Roles, s \in UserStatus : PatchUser(a, u, r, s) /\ Record("-", {})
         \/ Deactivate(a, u) /\ Record("user", {})
         \/ Reactivate(a, u) /\ Record("-", {})
         \/ \E c \in Claimants : Attach(a, u, c) /\ Record("-", {})
         \/ \E c \in Claimants, s \in AttStatus :
              PatchAttachment(a, u, c, s) /\ Record("admin", {<<u, c>>})

MCSpec == MCInit /\ [][MCNext]_mcVars

-----------------------------------------------------------------------------
\* Whatever patches, further deactivations and status edits come in between, an
\* attachment that went down with its user and is still down carries the marker
\* reactivate looks for (users.js:251-266, :291-303): none is ever lost.
DownWithUserIsMarked ==
    \A u \in Users, c \in Claimants : offBy[u][c] = "user" => marker[u][c]

\* Reactivate undoes what deactivate did and nothing more, across any number of
\* rounds, as long as nobody patched a marked attachment in between: what went
\* down with the user comes back, what was switched off on its own stays off
\* (the comments at users.js:252-258 and :291-296).
ReactivateUndoesDeactivate ==
    [][\A a, u \in Users : Reactivate(a, u) =>
         \A c \in Claimants : ~touched[u][c] =>
            att'[u][c] = IF offBy[u][c] = "user" THEN "active" ELSE att[u][c]]_mcVars

\* "Independently-deactivated attachments are left alone." (docs/api.md:61),
\* with no exception for attachments patched while their user was disabled.
ReactivateSparesOthers ==
    [][\A a, u \in Users : Reactivate(a, u) =>
         \A c \in Claimants : offBy[u][c] = "admin" => att'[u][c] = "inactive"]_mcVars
=============================================================================
