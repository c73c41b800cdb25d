--------------------------- MODULE ProjectsProofs ---------------------------
(***************************************************************************)
(* Theorems about project editing, for every set of projects, tabs,        *)
(* fields, values and clock readings.                                      *)
(***************************************************************************)
EXTENDS Projects, TLAPS

-----------------------------------------------------------------------------
(* The helpers *)

\* A PATCH body laid over a row is a row.
LEMMA MergedRow ==
    ASSUME NEW row \in Row, NEW updates \in Updates
    PROVE  merged(row, updates) \in Row
BY DEF merged, Row, Updates

\* The narrative of a row is a snapshot of the right fields.
LEMMA NarrativeType ==
    ASSUME NEW row \in Row
    PROVE  narrative(row) \in Snapshot
BY ProjectsAssumption DEF narrative, Row, Snapshot

\* A revision is taken exactly when the narrative changes.
LEMMA SnapshotIffChanged ==
    ASSUME NEW row \in Row, NEW updates \in Updates
    PROVE  snapshotNeeded(row, updates)
             <=> narrative(merged(row, updates)) # narrative(row)
<1>1. ASSUME snapshotNeeded(row, updates)
      PROVE  narrative(merged(row, updates)) # narrative(row)
  <2>1. PICK f \in DOMAIN updates \cap Narrative : updates[f] # row[f]
    BY <1>1 DEF snapshotNeeded
  <2>2. f \in Fields /\ f \in Narrative
    BY <2>1, ProjectsAssumption
  <2>3. narrative(merged(row, updates))[f] = updates[f] /\ narrative(row)[f] = row[f]
    BY <2>1, <2>2 DEF narrative, merged
  <2> QED BY <2>1, <2>3
<1>2. ASSUME ~snapshotNeeded(row, updates)
      PROVE  narrative(merged(row, updates)) = narrative(row)
  <2>1. \A f \in Narrative : merged(row, updates)[f] = row[f]
    BY <1>2, ProjectsAssumption DEF snapshotNeeded, merged
  <2> QED BY <2>1 DEF narrative
<1> QED BY <1>1, <1>2

\* updated_at grows with every save, whatever the clock reads.
LEMMA StampGrows ==
    ASSUME NEW stamp \in Nat, now \in Times
    PROVE  nextStamp(stamp) \in Nat /\ nextStamp(stamp) > stamp
BY ProjectsAssumption DEF nextStamp

-----------------------------------------------------------------------------
(* The inductive invariant.  Types alone are not inductive: that a save finds *)
(* its project is what StampNamesVersion says of the tab.                     *)

Inv == TypeOK /\ StampNamesVersion /\ HistoryTellsNarrative

\* The empty database satisfies the invariant.
LEMMA InitInv == Init => Inv
BY ProjectsAssumption
   DEF Init, Inv, TypeOK, StampNamesVersion, HistoryTellsNarrative

\* A new project starts a history of one.
LEMMA CreateInv ==
    ASSUME Inv, NEW p \in Projects, NEW row \in Row, Create(p, row)
    PROVE  Inv'
<1> DEFINE n == [row |-> row, stamp |-> now]
           h == <<narrative(row)>>
<1>1. n \in ProjectRow /\ n # NoProject
  BY ProjectsAssumption DEF ProjectRow, Inv, TypeOK
<1>2. h \in Seq(Snapshot) /\ Len(h) = 1 /\ h[1] = narrative(row)
  BY NarrativeType
<1>3. /\ project[p] = NoProject
      /\ project' = [project EXCEPT ![p] = n]
      /\ revisions' = [revisions EXCEPT ![p] = h]
      /\ UNCHANGED <<form, now>>
  BY DEF Create
<1>4. n.row = row
  OBVIOUS
<1> HIDE DEF n, h
<1>5. TypeOK'
  BY <1>1, <1>2, <1>3 DEF Inv, TypeOK
<1>6. StampNamesVersion'
  BY <1>3 DEF Inv, TypeOK, StampNamesVersion, Form
<1>7. HistoryTellsNarrative'
  <2>1. \A q \in Projects : q # p =>
          project'[q] = project[q] /\ revisions'[q] = revisions[q]
    BY <1>3 DEF Inv, TypeOK
  <2>2. project'[p] = n /\ revisions'[p] = h
    BY <1>3 DEF Inv, TypeOK
  <2>3. /\ Len(h) > 0
        /\ h[Len(h)] = narrative(n.row)
        /\ \A i \in 1 .. Len(h) - 1 : h[i] # h[i + 1]
    BY <1>2, <1>4
  <2> QED BY <2>1, <2>2, <2>3 DEF Inv, HistoryTellsNarrative
<1> QED BY <1>5, <1>6, <1>7 DEF Inv

\* A tab that loads a project holds its stamp and row of that moment.
LEMMA LoadInv ==
    ASSUME Inv, NEW t \in Tabs, NEW p \in Projects, Load(t, p)
    PROVE  Inv'
<1> DEFINE f == [of |-> p, row |-> project[p].row, stamp |-> project[p].stamp]
<1>1. project[p] \in ProjectRow
  BY DEF Load, Inv, TypeOK
<1>2. f \in Form
  BY <1>1 DEF ProjectRow, Form
<1>3. f.of = p /\ f.row = project[p].row /\ f.stamp = project[p].stamp
  OBVIOUS
<1>4. form' = [form EXCEPT ![t] = f] /\ UNCHANGED <<project, revisions, now>>
      /\ project[p] # NoProject
  BY DEF Load
<1> HIDE DEF f
<1>5. TypeOK'
  BY <1>2, <1>4 DEF Inv, TypeOK
<1>6. StampNamesVersion'
  BY <1>1, <1>3, <1>4 DEF Inv, TypeOK, StampNamesVersion, ProjectRow
<1>7. HistoryTellsNarrative'
  BY <1>4 DEF Inv, HistoryTellsNarrative
<1> QED BY <1>5, <1>6, <1>7 DEF Inv

\* What a save does: a strictly newer stamp, and a revision appended exactly
\* when the narrative differs.
LEMMA PatchEffect ==
    ASSUME Inv, NEW t \in Tabs, NEW updates \in Updates, Patch(t, updates)
    PROVE  \E p \in Projects, n \in ProjectRow :
             /\ form[t] # NoForm /\ p = form[t].of
             /\ project[p] \in ProjectRow /\ project[p] # NoProject
             /\ form[t].row = project[p].row
             /\ n.stamp > project[p].stamp
             /\ project' = [project EXCEPT ![p] = n]
             /\ IF narrative(n.row) # narrative(project[p].row)
                  THEN revisions' = [revisions EXCEPT ![p] =
                                       Append(revisions[p], narrative(n.row))]
                  ELSE revisions' = revisions
             /\ UNCHANGED <<form, now>>
<1> DEFINE p == form[t].of
           new == merged(project[p].row, updates)
           n == [row |-> new, stamp |-> nextStamp(project[p].stamp)]
<1>1. form[t] # NoForm /\ form[t] \in Form /\ form[t].stamp = project[p].stamp
  BY DEF Patch, current, Inv, TypeOK
<1>2. p \in Projects /\ project[p] # NoProject /\ project[p] \in ProjectRow
      /\ form[t].row = project[p].row
  BY <1>1 DEF Inv, TypeOK, StampNamesVersion, Form
<1>3. new \in Row /\ nextStamp(project[p].stamp) \in Nat
      /\ nextStamp(project[p].stamp) > project[p].stamp
  BY <1>2, MergedRow, StampGrows DEF ProjectRow, Inv, TypeOK
<1>4. n \in ProjectRow /\ n.row = new /\ n.stamp = nextStamp(project[p].stamp)
  BY <1>3 DEF ProjectRow
<1>5. snapshotNeeded(project[p].row, updates)
        <=> narrative(new) # narrative(project[p].row)
  BY <1>2, SnapshotIffChanged DEF ProjectRow
<1>6. /\ project' = [project EXCEPT ![p] = n]
      /\ revisions' = IF snapshotNeeded(project[p].row, updates)
                        THEN [revisions EXCEPT ![p] = Append(revisions[p], narrative(new))]
                        ELSE revisions
      /\ UNCHANGED <<form, now>>
  BY DEF Patch
<1> HIDE DEF n, new, p
<1>7. n.stamp > project[p].stamp
  BY <1>3, <1>4
<1>8. IF narrative(n.row) # narrative(project[p].row)
        THEN revisions' = [revisions EXCEPT ![p] = Append(revisions[p], narrative(n.row))]
        ELSE revisions' = revisions
  BY <1>4, <1>5, <1>6
<1>9. p = form[t].of
  BY DEF p
<1> QED BY <1>1, <1>2, <1>4, <1>6, <1>7, <1>8, <1>9

\* A save preserves the invariant: other tabs hold smaller stamps, the history
\* grows by at most the new narrative.
LEMMA PatchInv ==
    ASSUME Inv, NEW t \in Tabs, NEW updates \in Updates, Patch(t, updates)
    PROVE  Inv'
<1>1. PICK p \in Projects, n \in ProjectRow :
             /\ form[t] # NoForm /\ p = form[t].of
             /\ project[p] \in ProjectRow /\ project[p] # NoProject
             /\ form[t].row = project[p].row
             /\ n.stamp > project[p].stamp
             /\ project' = [project EXCEPT ![p] = n]
             /\ IF narrative(n.row) # narrative(project[p].row)
                  THEN revisions' = [revisions EXCEPT ![p] =
                                       Append(revisions[p], narrative(n.row))]
                  ELSE revisions' = revisions
             /\ UNCHANGED <<form, now>>
  BY PatchEffect
<1> DEFINE h == revisions[p]
           x == narrative(n.row)
           new == Append(h, x)
<1>2. n # NoProject /\ n.stamp \in Nat /\ project[p].stamp \in Nat
  BY <1>1, ProjectsAssumption DEF ProjectRow
<1>3. h \in Seq(Snapshot) /\ Len(h) > 0 /\ h[Len(h)] = narrative(project[p].row)
      /\ \A i \in 1 .. Len(h) - 1 : h[i] # h[i + 1]
  BY <1>1 DEF Inv, TypeOK, HistoryTellsNarrative
<1>4. x \in Snapshot
  BY NarrativeType DEF ProjectRow
<1> HIDE DEF x
<1>5. /\ new \in Seq(Snapshot) /\ Len(new) = Len(h) + 1 /\ new[Len(new)] = x
      /\ \A i \in 1 .. Len(h) : new[i] = h[i]
  BY <1>3, <1>4
<1>6. revisions'[p] = IF x # narrative(project[p].row) THEN new ELSE h
  BY <1>1 DEF Inv, TypeOK, x
<1>7. \A q \in Projects : q # p =>
        project'[q] = project[q] /\ revisions'[q] = revisions[q]
  BY <1>1 DEF Inv, TypeOK
<1>8. project'[p] = n
  BY <1>1 DEF Inv, TypeOK
<1>9. TypeOK'
  <2>1. revisions' \in [Projects -> Seq(Snapshot)]
    BY <1>1, <1>5, <1>6 DEF Inv, TypeOK, x
  <2> QED BY <1>1, <2>1 DEF Inv, TypeOK
<1>10. StampNamesVersion'
  <2>1. ASSUME NEW u \in Tabs, form[u] # NoForm
        PROVE  /\ project'[form[u].of] # NoProject
               /\ form[u].stamp <= project'[form[u].of].stamp
               /\ form[u].stamp = project'[form[u].of].stamp =>
                    form[u].row = project'[form[u].of].row
    <3>1. form[u] \in Form /\ form[u].of \in Projects /\ form[u].stamp \in Nat
      BY <2>1 DEF Inv, TypeOK, Form
    <3>2. /\ project[form[u].of] # NoProject
          /\ form[u].stamp <= project[form[u].of].stamp
          /\ form[u].stamp = project[form[u].of].stamp =>
               form[u].row = project[form[u].of].row
      BY <2>1 DEF Inv, StampNamesVersion
    <3>3. CASE form[u].of = p
      BY <1>1, <1>2, <1>8, <3>1, <3>2, <3>3
    <3>4. CASE form[u].of # p
      BY <1>7, <3>1, <3>2, <3>4
    <3> QED BY <3>3, <3>4
  <2> QED BY <1>1, <2>1 DEF StampNamesVersion
<1>11. HistoryTellsNarrative'
  <2>1. CASE x = narrative(project[p].row)
    BY <1>3, <1>6, <1>7, <1>8, <2>1 DEF Inv, HistoryTellsNarrative, x
  <2>2. CASE x # narrative(project[p].row)
    <3> HIDE DEF h, new
    <3>1. \A i \in 1 .. Len(new) - 1 : new[i] # new[i + 1]
      <4> SUFFICES ASSUME NEW i \in 1 .. Len(new) - 1 PROVE new[i] # new[i + 1]
        OBVIOUS
      <4>1. Len(h) \in Nat /\ i \in 1 .. Len(h)
        BY <1>3, <1>5
      <4>2. CASE i = Len(h)
        BY <1>3, <1>5, <2>2, <4>1, <4>2
      <4>3. CASE i # Len(h)
        BY <1>3, <1>5, <4>1, <4>3
      <4> QED BY <4>2, <4>3
    <3>2. Len(new) > 0 /\ new[Len(new)] = narrative(project'[p].row)
      BY <1>3, <1>5, <1>8 DEF x
    <3>3. revisions'[p] = new
      BY <1>6, <2>2
    <3> QED BY <1>7, <3>1, <3>2, <3>3 DEF Inv, HistoryTellsNarrative
  <2> QED BY <2>1, <2>2
<1> QED BY <1>9, <1>10, <1>11 DEF Inv

\* Every step, the clock's included, preserves the invariant.
LEMMA StepInv == Inv /\ [Next]_vars => Inv'
<1> SUFFICES ASSUME Inv, [Next]_vars PROVE Inv'
  OBVIOUS
<1>1. CASE UNCHANGED vars
  BY <1>1 DEF vars, Inv, TypeOK, StampNamesVersion, HistoryTellsNarrative
<1>2. ASSUME NEW t \in Times, Clock(t) PROVE Inv'
  BY <1>2 DEF Clock, Inv, TypeOK, StampNamesVersion, HistoryTellsNarrative
<1> QED BY <1>1, <1>2, CreateInv, LoadInv, PatchInv DEF Next

\* The invariant holds in every reachable state.
LEMMA Invariance == Spec => []Inv
<1> QED BY InitInv, StepInv, PTL DEF Spec

\* All rows, histories, forms and the clock have their type in every reachable
\* state.
THEOREM TypeCorrect == Spec => []TypeOK
<1>1. Inv => TypeOK
  BY DEF Inv
<1> QED BY Invariance, <1>1, PTL

\* updated_at names a version of the project, for any clock.
THEOREM StampsNameVersions == Spec => []StampNamesVersion
<1>1. Inv => StampNamesVersion
  BY DEF Inv
<1> QED BY Invariance, <1>1, PTL

\* The revision history ends in the current narrative and never repeats itself,
\* however long it grows.
THEOREM HistoryIsComplete == Spec => []HistoryTellsNarrative
<1>1. Inv => HistoryTellsNarrative
  BY DEF Inv
<1> QED BY Invariance, <1>1, PTL

-----------------------------------------------------------------------------
(* Refinement: projects are edited in sessions that never lose an update. *)

\* The empty database is an empty set of sessions.
LEMMA SessionsStart == Init => Sessions!SessionsInit
BY DEF Init, Sessions!SessionsInit, docOf, copiesOf, freshOf, rowOf, copyOf, current

\* Nobody has a project open that does not exist yet.
LEMMA CreateIsNew ==
    ASSUME Inv, NEW p \in Projects, NEW row \in Row, Create(p, row)
    PROVE  Sessions!New(p)
<1> DEFINE n == [row |-> row, stamp |-> now]
<1>1. n \in ProjectRow /\ n # NoProject /\ n.row = row
  BY ProjectsAssumption DEF ProjectRow, Inv, TypeOK
<1>2. project[p] = NoProject /\ project' = [project EXCEPT ![p] = n] /\ UNCHANGED form
  BY DEF Create
<1> HIDE DEF n
<1>3. docOf[p] = NoProject /\ docOf' = [docOf EXCEPT ![p] = row]
  BY <1>1, <1>2 DEF docOf, rowOf, Inv, TypeOK
<1>4. copiesOf' = copiesOf
  BY <1>2 DEF copiesOf, copyOf
<1>5. ASSUME NEW t \in Tabs PROVE current(t)' = current(t)
  <2>1. CASE form[t] = NoForm
    BY <1>2, <2>1 DEF current
  <2>2. CASE form[t] # NoForm
    <3>1. form[t].of \in Projects /\ form[t].of # p
      BY <1>2, <2>2 DEF Inv, TypeOK, StampNamesVersion, Form
    <3>2. project'[form[t].of] = project[form[t].of]
      BY <1>2, <3>1 DEF Inv, TypeOK
    <3> QED BY <1>2, <3>2 DEF current
  <2> QED BY <2>1, <2>2
<1>6. freshOf' = freshOf
  BY <1>5 DEF freshOf
<1> QED BY <1>3, <1>4, <1>6 DEF Sessions!New

\* Loading the form opens a fresh copy.
LEMMA LoadIsOpen ==
    ASSUME Inv, NEW t \in Tabs, NEW p \in Projects, Load(t, p)
    PROVE  Sessions!Open(t, p)
<1> DEFINE f == [of |-> p, row |-> project[p].row, stamp |-> project[p].stamp]
<1>1. project[p] \in ProjectRow /\ project[p] # NoProject
  BY DEF Load, Inv, TypeOK
<1>2. f # NoForm
  BY <1>1, ProjectsAssumption DEF ProjectRow, Form
<1>3. f.of = p /\ f.row = project[p].row /\ f.stamp = project[p].stamp
  OBVIOUS
<1>4. form' = [form EXCEPT ![t] = f] /\ UNCHANGED <<project, now>>
  BY DEF Load
<1> HIDE DEF f
<1>5. docOf[p] = project[p].row /\ docOf[p] # NoProject /\ docOf' = docOf
  BY <1>1, <1>4, ProjectsAssumption DEF docOf, rowOf, ProjectRow
<1>6. copiesOf' = [copiesOf EXCEPT ![t] = [of |-> p, row |-> docOf[p]]]
  <2>1. form'[t] = f /\ \A u \in Tabs : u # t => form'[u] = form[u]
    BY <1>4 DEF Inv, TypeOK
  <2>2. copyOf(f) = [of |-> p, row |-> docOf[p]]
    BY <1>2, <1>3, <1>5 DEF copyOf
  <2>3. copiesOf' = [u \in Tabs |-> copyOf(form'[u])]
    BY DEF copiesOf, copyOf
  <2> QED BY <2>1, <2>2, <2>3 DEF copiesOf
<1>7. freshOf' = freshOf \cup {t}
  <2>1. current(t)'
    BY <1>2, <1>3, <1>4 DEF current, Inv, TypeOK
  <2>2. ASSUME NEW u \in Tabs, u # t PROVE current(u)' = current(u)
    BY <1>4, <2>2 DEF current, Inv, TypeOK
  <2> QED BY <2>1, <2>2 DEF freshOf
<1> QED BY <1>5, <1>6, <1>7 DEF Sessions!Open

\* A save makes every copy of the project stale, because the stamp grew past
\* every stamp a tab can hold.
LEMMA PatchIsSave ==
    ASSUME Inv, NEW t \in Tabs, NEW updates \in Updates, Patch(t, updates)
    PROVE  Sessions!Save(t)
<1>1. PICK p \in Projects, n \in ProjectRow :
             /\ form[t] # NoForm /\ p = form[t].of
             /\ project[p] \in ProjectRow /\ project[p] # NoProject
             /\ form[t].row = project[p].row
             /\ n.stamp > project[p].stamp
             /\ project' = [project EXCEPT ![p] = n]
             /\ UNCHANGED <<form, now>>
  BY PatchEffect
<1>2. n # NoProject /\ n.row \in Row /\ n.stamp \in Nat /\ project[p].stamp \in Nat
  BY <1>1, ProjectsAssumption DEF ProjectRow
<1>3. project'[p] = n /\ \A q \in Projects : q # p => project'[q] = project[q]
  BY <1>1 DEF Inv, TypeOK
<1>4. docOf' = [docOf EXCEPT ![p] = n.row]
  <2>1. rowOf(n) = n.row
    BY <1>2 DEF rowOf
  <2>2. docOf' = [q \in Projects |-> rowOf(project'[q])]
    BY DEF docOf, rowOf
  <2> QED BY <1>3, <2>1, <2>2 DEF docOf
<1>5. \A u \in Tabs : form[u] # NoForm =>
        copiesOf[u].of = form[u].of /\ copiesOf[u].row = form[u].row
  BY DEF copiesOf, copyOf
<1>6. docOf[p] = form[t].row
  BY <1>1 DEF docOf, rowOf
<1>7. t \in freshOf
  BY DEF freshOf, Patch
<1>8. copiesOf' = copiesOf
  BY <1>1 DEF copiesOf, copyOf
<1>9. ASSUME NEW u \in Tabs
      PROVE  current(u)' <=> current(u) /\ copiesOf[u].of # p
  <2>1. CASE form[u] = NoForm
    BY <1>1, <2>1 DEF current
  <2>2. CASE form[u] # NoForm
    <3>1. form[u].of \in Projects /\ form[u].stamp \in Nat
          /\ form[u].stamp <= project[form[u].of].stamp
      BY <2>2 DEF Inv, TypeOK, StampNamesVersion, Form
    <3>2. CASE form[u].of = p
      BY <1>1, <1>2, <1>3, <1>5, <2>2, <3>1, <3>2 DEF current
    <3>3. CASE form[u].of # p
      BY <1>1, <1>3, <1>5, <2>2, <3>1, <3>3 DEF current
    <3> QED BY <3>2, <3>3
  <2> QED BY <2>1, <2>2
<1>10. copiesOf[t].of = p /\ copiesOf[t].row = form[t].row
  BY <1>1, <1>5
<1>11. freshOf' = {u \in freshOf : copiesOf[u].of # copiesOf[t].of}
  BY <1>9, <1>10 DEF freshOf
<1> QED BY <1>2, <1>4, <1>6, <1>7, <1>8, <1>10, <1>11 DEF Sessions!Save

\* Every step of the projects is a step of the sessions or invisible there.
LEMMA SessionsStep ==
    Inv /\ [Next]_vars => [Sessions!SessionsNext]_<<docOf, copiesOf, freshOf>>
<1> SUFFICES ASSUME Inv, [Next]_vars
             PROVE  Sessions!SessionsNext \/ UNCHANGED <<docOf, copiesOf, freshOf>>
  OBVIOUS
<1>1. ASSUME UNCHANGED <<project, form>>
      PROVE  UNCHANGED <<docOf, copiesOf, freshOf>>
  BY <1>1 DEF docOf, copiesOf, freshOf, rowOf, copyOf, current
<1>2. CASE UNCHANGED vars
  BY <1>1, <1>2 DEF vars
<1>3. ASSUME NEW t \in Times, Clock(t)
      PROVE  UNCHANGED <<docOf, copiesOf, freshOf>>
  BY <1>1, <1>3 DEF Clock
<1> QED BY <1>2, <1>3, CreateIsNew, LoadIsOpen, PatchIsSave
        DEF Next, Sessions!SessionsNext

\* The stamp check implements edit sessions that never lose an update: no PATCH
\* replaces a row its sender had not loaded, for any clock.
THEOREM ImplementsSessions == Spec => NoLostUpdate
<1> QED BY Invariance, SessionsStart, SessionsStep, PTL
        DEF Spec, NoLostUpdate, Sessions!SessionsSpec, Sessions!sessionVars
=============================================================================
