------------------------------ MODULE Projects ------------------------------
(***************************************************************************)
(* Projects and their revision history, edited by several admins at once:  *)
(* routes/projects.js and the creation of projects in routes/claimants.js. *)
(*                                                                         *)
(* A tab is one open edit form (public/admin/projects/edit.js).  It keeps  *)
(* the updated_at it was loaded with through any number of submissions: a  *)
(* lost answer, a second click and a request that comes late are all       *)
(* submissions of a tab that has not been reloaded.  PATCH has no await    *)
(* between its checks and its transaction, so its arrival is one action.   *)
(*                                                                         *)
(* Which values a field accepts (enums, the manager's role, date shapes)   *)
(* only narrows the updates and is left out.                               *)
(***************************************************************************)
EXTENDS Integers, Sequences

CONSTANTS Projects, Tabs,
          Fields,       \* EDITABLE_FIELDS
          Narrative,    \* SNAPSHOT_FIELDS
          Values,
          Times,        \* readings of the server's clock
          NoProject, NoForm

VARIABLES project,     \* projects: the editable fields and updated_at
          revisions,   \* project_revisions, oldest first
          form,        \* form[t]: what tab t has loaded
          now          \* the server's clock; it may step back

vars == <<project, revisions, form, now>>

Row == [Fields -> Values]
Snapshot == [Narrative -> Values]
ProjectRow == [row: Row, stamp: Nat]
Form == [of: Projects, row: Row, stamp: Nat]

ASSUME ProjectsAssumption ==
    /\ Narrative \subseteq Fields
    /\ Times \subseteq Nat /\ 0 \in Times
    /\ NoProject \notin ProjectRow \cup Row
    /\ NoForm \notin Form

\* The body of a PATCH: new values for some of the fields.
Updates == UNION {[K -> Values] : K \in (SUBSET Fields) \ {{}}}

narrative(row) == [f \in Narrative |-> row[f]]

TypeOK ==
    /\ project \in [Projects -> ProjectRow \cup {NoProject}]
    /\ revisions \in [Projects -> Seq(Snapshot)]
    /\ form \in [Tabs -> Form \cup {NoForm}]
    /\ now \in Times

Init ==
    /\ project = [p \in Projects |-> NoProject]
    /\ revisions = [p \in Projects |-> <<>>]
    /\ form = [t \in Tabs |-> NoForm]
    /\ now = 0

-----------------------------------------------------------------------------
\* POST /api/claimants/:id/projects: the row and its first revision, in one
\* transaction.  updated_at is the column's default, the time cut to the
\* second, which only makes it earlier.
Create(p, row) ==
    /\ project[p] = NoProject
    /\ project' = [project EXCEPT ![p] = [row |-> row, stamp |-> now]]
    /\ revisions' = [revisions EXCEPT ![p] = <<narrative(row)>>]
    /\ UNCHANGED <<form, now>>

\* GET /api/projects/:id into the form of tab t.
Load(t, p) ==
    /\ project[p] # NoProject
    /\ form' = [form EXCEPT ![t] = [of |-> p, row |-> project[p].row,
                                    stamp |-> project[p].stamp]]
    /\ UNCHANGED <<project, revisions, now>>

\* (Names that end in a mistake, like the next one, are what the properties are
\* there to catch; Spec uses none.)
nextStamp_Clock(stamp) == now

\* Strictly greater than the previous updated_at, whatever the clock says.
nextStamp(stamp) == IF now > stamp THEN now ELSE stamp + 1

merged_Replace(row, updates) == updates

merged(row, updates) ==
    [f \in Fields |-> IF f \in DOMAIN updates THEN updates[f] ELSE row[f]]

snapshotNeeded_AnyKey(row, updates) == DOMAIN updates \cap Narrative # {}

snapshotNeeded(row, updates) ==
    \E f \in DOMAIN updates \cap Narrative : updates[f] # row[f]

current_Always(t) == form[t] # NoForm

\* The __updated_at of the tab is the project's: checked before the handler
\* looks at the body and again inside the transaction.
current(t) == form[t] # NoForm /\ form[t].stamp = project[form[t].of].stamp

\* PATCH /api/projects/:id.  Any other submission is answered 409 and changes
\* nothing.
Patch(t, updates) ==
    /\ current(t)
    /\ LET p == form[t].of   old == project[p].row   new == merged(old, updates) IN
         /\ project' = [project EXCEPT ![p] =
                          [row |-> new, stamp |-> nextStamp(project[p].stamp)]]
         /\ revisions' = IF snapshotNeeded(old, updates)
                           THEN [revisions EXCEPT ![p] = Append(@, narrative(new))]
                           ELSE revisions
    /\ UNCHANGED <<form, now>>

Clock(t) == now' = t /\ UNCHANGED <<project, revisions, form>>

Next ==
    \/ \E p \in Projects, row \in Row : Create(p, row)
    \/ \E t \in Tabs, p \in Projects : Load(t, p)
    \/ \E t \in Tabs, updates \in Updates : Patch(t, updates)
    \/ \E t \in Times : Clock(t)

Spec == Init /\ [][Next]_vars

-----------------------------------------------------------------------------
(* Properties *)

\* updated_at names a version: a tab whose stamp is still the project's shows
\* the project's current row, and no tab holds a stamp of the future, whatever
\* the clock did and however fast the saves came (projects.js:185-204).
StampNamesVersion ==
    \A t \in Tabs : form[t] # NoForm =>
        LET p == project[form[t].of] IN
        /\ p # NoProject
        /\ form[t].stamp <= p.stamp
        /\ form[t].stamp = p.stamp => form[t].row = p.row

\* The newest revision is the current narrative, and no revision repeats the one
\* before it: the history is complete and has no empty edits (projects.js:175
\* and :210-231, claimants.js:226-274).
HistoryTellsNarrative ==
    \A p \in Projects : project[p] # NoProject =>
        LET h == revisions[p] IN
        /\ Len(h) > 0
        /\ h[Len(h)] = narrative(project[p].row)
        /\ \A i \in 1 .. Len(h) - 1 : h[i] # h[i + 1]

rowOf(p) == IF p = NoProject THEN NoProject ELSE p.row

copyOf(f) == IF f = NoForm THEN NoForm ELSE [of |-> f.of, row |-> f.row]

\* The refinement mapping: stamps are only a way to know which copies are fresh.
docOf == [p \in Projects |-> rowOf(project[p])]
copiesOf == [t \in Tabs |-> copyOf(form[t])]
freshOf == {t \in Tabs : current(t)}

Sessions == INSTANCE EditSessions WITH
    Docs <- Projects, Editors <- Tabs, Rows <- Row,
    NoDoc <- NoProject, NoCopy <- NoForm,
    doc <- docOf, copy <- copiesOf, fresh <- freshOf

\* No admin overwrites an edit they have not seen, and a form that was answered,
\* or whose answer was lost, saves at most once.
NoLostUpdate == Sessions!SessionsSpec
=============================================================================
