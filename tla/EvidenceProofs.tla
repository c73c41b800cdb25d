--------------------------- MODULE EvidenceProofs ---------------------------
(***************************************************************************)
(* Theorems about evidence, for every number of requests in flight, items, *)
(* files, periods and entries.  The invariant of the ledger is taken from  *)
(* LedgerProofs: evidence adds steps that leave the ledger alone and       *)
(* narrows those that do not.                                              *)
(***************************************************************************)
EXTENDS Evidence, LedgerProofs

\* A row belongs where it says: what InPlace asks of an item apart from its
\* link, which may disappear while a request waits for the sniff.
Placed(row) ==
    /\ period[row.period] # NoRow
    /\ period[row.period].claimant = ClaimantOf[row.project]
    /\ row.link = NoEntry => /\ period[row.period].start <= row.date
                             /\ row.date <= period[row.period].end

Linked(row) == row.link # NoEntry => entry[row.link] # NoRow

ItemsPlaced == \A i \in Items : item[i] # NoRow => Placed(item[i]) /\ Linked(item[i])

\* The row a request waits with was true when it was built, and still is: no
\* step moves or removes a period.
RequestsPlaced == \A q \in Requests : sniffing(q) => Placed(req[q].row)

\* Only file evidence is sniffed, and its row is for the caller and the file of
\* its own request.
RequestsCarry ==
    \A q \in Requests : sniffing(q) =>
       /\ req[q].file # NoFile
       /\ req[q].row.kind = "file"
       /\ req[q].row.file = req[q].file
       /\ req[q].row.uploader = req[q].user

\* A file that came with a request is on disk, to itself, until the answer.
RequestsHaveTheirFiles ==
    \A q \in Requests : live(q) /\ req[q].file # NoFile =>
       /\ req[q].file \in disk \ unlinking
       /\ \A s \in Requests \ {q} : live(s) => req[s].file # req[q].file

\* The inductive invariant.  That items have their files needs the files of
\* requests in flight apart from one another, or one refusal could take the file
\* of an item that another request has inserted meanwhile.
EvidenceInv ==
    /\ Inv
    /\ EvidenceTypeOK
    /\ ItemsPlaced
    /\ RequestsPlaced
    /\ RequestsCarry
    /\ RequestsHaveTheirFiles
    /\ ItemsHaveTheirFiles

-----------------------------------------------------------------------------
(* What every step leaves alone *)

\* The handlers of this part write no table of the ledger.
LEMMA LedgerStepOrStill == [EvidenceNext]_allVars => [Next]_vars
<1> SUFFICES ASSUME [EvidenceNext]_allVars PROVE Next \/ UNCHANGED vars
  OBVIOUS
<1>1. CASE LedgerStep
  BY <1>1 DEF LedgerStep
<1>2. CASE UNCHANGED allVars
  BY <1>2 DEF allVars
<1>3. CASE Crash \/ \E f \in Files : Unlinked(f)
  BY <1>3 DEF Crash, Unlinked
<1>4. ASSUME NEW q \in Requests,
             UploadFails(q) \/ Refuse(q) \/ StoreFails(q) \/ SniffRejects(q)
      PROVE  UNCHANGED vars
  BY <1>4 DEF UploadFails, Refuse, StoreFails, SniffRejects
<1>5. ASSUME NEW q \in Requests, NEW i \in Items, Store(q, i) PROVE UNCHANGED vars
  BY <1>5 DEF Store, Insert
<1>6. ASSUME NEW q \in Requests, NEW a \in Users, NEW kind \in Kinds,
             NEW f \in Files \cup {NoFile}, Receive(q, a, kind, f)
      PROVE  UNCHANGED vars
  BY <1>6 DEF Receive
<1>7. ASSUME NEW q \in Requests, NEW i \in Items, NEW pr \in Projects,
             NEW link \in EntryIds \cup {NoEntry}, NEW d \in Dates,
             NEW b \in Bodies, Check(q, i, pr, link, d, b)
      PROVE  UNCHANGED vars
  BY <1>7 DEF Check, Insert
<1>8. ASSUME NEW a \in Users, NEW i \in Items, NEW d \in Dates, NEW b \in Bodies,
             PatchEvidence(a, i, d, b)
      PROVE  UNCHANGED vars
  BY <1>8 DEF PatchEvidence
<1>9. ASSUME NEW a \in Users, NEW i \in Items, DeleteEvidence(a, i)
      PROVE  UNCHANGED vars
  BY <1>9 DEF DeleteEvidence
<1> QED BY <1>1, <1>2, <1>3, <1>4, <1>5, <1>6, <1>7, <1>8, <1>9 DEF EvidenceNext

\* A period, once there, keeps its claimant and its dates.
LEMMA PeriodsStand ==
    ASSUME Inv, [Next]_vars, NEW p \in Periods, period[p] # NoRow
    PROVE  /\ period'[p] # NoRow
           /\ period'[p].start = period[p].start
           /\ period'[p].end = period[p].end
           /\ period'[p].claimant = period[p].claimant
<1>1. CASE UNCHANGED vars
  BY <1>1 DEF vars
<1>2. CASE Next
  BY <1>2, StepMoves, MovedTyped
<1> QED BY <1>1, <1>2

-----------------------------------------------------------------------------
(* The rows the handlers build *)

\* Whatever the checks let through has its type and is in place.
LEMMA CheckedRow ==
    ASSUME EvidenceInv, NEW q \in Requests, live(q), NEW pr \in Projects,
           NEW link \in EntryIds \cup {NoEntry}, NEW d \in Dates,
           NEW b \in Bodies, NEW p \in periodFor(pr, link, d)
    PROVE  /\ NewItem(req[q], pr, p, link, d, b) \in ItemRow
           /\ Placed(NewItem(req[q], pr, p, link, d, b))
<1>1. req[q] \in Request
  BY DEF EvidenceInv, EvidenceTypeOK, live
<1>2. ClaimantOf[pr] \in Claimants /\ TypeOK
  BY LedgerAssumption DEF EvidenceInv, Inv
<1>3. /\ p \in Periods /\ period[p] # NoRow /\ period[p].claimant = ClaimantOf[pr]
      /\ link = NoEntry => period[p].start <= d /\ d <= period[p].end
  <2>1. CASE link = NoEntry
    BY <1>2, <2>1, FoundIsOpen DEF periodFor, OpenPeriod
  <2>2. CASE link # NoEntry
    <3>1. /\ p \in Periods /\ entry[link] # NoRow
          /\ entry[link].project = pr /\ entry[link].period = p
      BY <2>2 DEF periodFor
    <3>2. Bucketed(entry[link])
      BY <2>2, <3>1 DEF EvidenceInv, Inv, EntriesBucketed
    <3> QED BY <2>2, <3>1, <3>2 DEF Bucketed
  <2> QED BY <2>1, <2>2
<1> DEFINE n == NewItem(req[q], pr, p, link, d, b)
<1>4. n \in ItemRow
  BY <1>1, <1>3 DEF NewItem, ItemRow, Request
<1>5. n.period = p /\ n.project = pr /\ n.date = d /\ n.link = link
  BY DEF NewItem
<1>6. Placed(n)
  <2> HIDE DEF n
  <2> QED BY <1>3, <1>5 DEF Placed
<1> QED BY <1>4, <1>6

\* The row a PATCH writes.
Redated(r, d, b, p) == [r EXCEPT !.date = d, !.body = b, !.period = p]

\* A PATCH keeps an item in place: the same period for the same date, else an
\* open one of the same claimant that covers the new date.
LEMMA PatchedItem ==
    ASSUME EvidenceInv, NEW i \in Items, item[i] # NoRow, NEW d \in Dates,
           NEW b \in Bodies, NEW p \in rebucket(item[i], d),
           NEW s, s = Redated(item[i], d, b, p)
    PROVE  /\ s \in ItemRow
           /\ Placed(s) /\ (Linked(item[i]) => Linked(s))
           /\ s.kind = item[i].kind /\ s.file = item[i].file
           /\ s.uploader = item[i].uploader
<1> DEFINE r == item[i]
<1>1. r \in ItemRow /\ Placed(r) /\ TypeOK
  BY DEF EvidenceInv, EvidenceTypeOK, ItemsPlaced, Inv
<1>2. ClaimantOf[r.project] \in Claimants
  BY <1>1, LedgerAssumption DEF ItemRow
<1>3. /\ p \in Periods /\ period[p] # NoRow /\ period[p].claimant = ClaimantOf[r.project]
      /\ r.link = NoEntry => period[p].start <= d /\ d <= period[p].end
  <2>1. CASE d = r.date
    BY <1>1, <2>1 DEF rebucket, Placed, ItemRow
  <2>2. CASE d # r.date
    BY <1>1, <1>2, <2>2, FoundIsOpen DEF rebucket, OpenPeriod
  <2> QED BY <2>1, <2>2
<1>4. s \in ItemRow
  BY <1>1, <1>3 DEF ItemRow, Redated
<1>5. /\ s.period = p /\ s.project = r.project /\ s.date = d /\ s.link = r.link
      /\ s.kind = r.kind /\ s.file = r.file /\ s.uploader = r.uploader
  BY <1>1 DEF ItemRow, Redated
<1> QED BY <1>3, <1>4, <1>5 DEF Placed, Linked

\* The sniff is awaited with the row beside the request.
LEMMA RowGiven ==
    ASSUME NEW r \in Request, NEW row \in ItemRow,
           NEW s, s = [r EXCEPT !.row = row]
    PROVE  /\ s \in Request /\ s.row = row /\ s.row # NoRow
           /\ s.user = r.user /\ s.kind = r.kind /\ s.file = r.file
BY EvidenceAssumption DEF Request

-----------------------------------------------------------------------------
(* Every step is one of these. *)

\* An INSERT, at once or after the sniff: a row that is in place, for the caller
\* of its request, and either with the request's file or without one.
Inserted(q, i, row) ==
    /\ live(q)
    /\ row \in ItemRow /\ Placed(row)
    /\ row.uploader = req[q].user
    /\ row.kind = "file" <=> row.file # NoFile
    /\ row.file # NoFile => row.file = req[q].file
    /\ row.file = NoFile => req[q].kind # "file"
    /\ Insert(q, i, row)

\* The checks pass and the request awaits the sniff.
Sniffed(q, row) ==
    /\ unchecked(q)
    /\ row \in ItemRow /\ Placed(row)
    /\ row.uploader = req[q].user
    /\ row.kind = "file" /\ row.file = req[q].file /\ row.file # NoFile
    /\ req' = [req EXCEPT ![q].row = row]
    /\ itemTrail' = {}
    /\ UNCHANGED <<vars, item, disk, unlinking>>

\* The catch of the handler answers and drops the file, if there is one.
Dropped(q) ==
    /\ live(q)
    /\ dropFile(req[q].file)
    /\ answered(q)
    /\ itemTrail' = {}
    /\ UNCHANGED <<vars, item, disk>>

\* The file is off the disk before the answer; at most it is unlinked again.
Removed(q) ==
    /\ live(q)
    /\ disk' = disk \ {req[q].file}
    /\ dropFile(req[q].file) \/ UNCHANGED unlinking
    /\ answered(q)
    /\ itemTrail' = {}
    /\ UNCHANGED <<vars, item>>

RequestMoved ==
    \E q \in Requests :
       \/ \E i \in Items, row \in ItemRow : Inserted(q, i, row)
       \/ \E row \in ItemRow : Sniffed(q, row)
       \/ Dropped(q)
       \/ Removed(q)
       \/ \E a \in Users, kind \in Kinds, f \in Files \cup {NoFile} :
            Receive(q, a, kind, f)

ItemMoved ==
    \E a \in Users, i \in Items :
       \/ \E d \in Dates, b \in Bodies : PatchEvidence(a, i, d, b)
       \/ DeleteEvidence(a, i)

EvidenceMoved ==
    \/ LedgerStep
    \/ Crash
    \/ \E f \in Files : Unlinked(f)
    \/ RequestMoved
    \/ ItemMoved

\* The checks of POST /api/evidence end in an INSERT or in the sniff.
LEMMA CheckMoves ==
    ASSUME EvidenceInv, NEW q \in Requests, NEW i \in Items, NEW pr \in Projects,
           NEW link \in EntryIds \cup {NoEntry}, NEW d \in Dates,
           NEW b \in Bodies, Check(q, i, pr, link, d, b)
    PROVE  RequestMoved
<1>1. PICK p \in periodFor(pr, link, d) :
        LET row == NewItem(req[q], pr, p, link, d, b) IN
        \/ /\ req[q].kind # "file"
           /\ Insert(q, i, row)
        \/ /\ req[q].kind = "file" /\ req[q].file # NoFile
           /\ req' = [req EXCEPT ![q].row = row]
           /\ itemTrail' = {}
           /\ UNCHANGED <<vars, item, disk, unlinking>>
  BY DEF Check
<1>2. live(q) /\ unchecked(q)
  BY DEF Check, unchecked
<1>3. PICK row : row = NewItem(req[q], pr, p, link, d, b)
  OBVIOUS
<1>4. row \in ItemRow /\ Placed(row)
  BY <1>2, <1>3, CheckedRow
<1>5. /\ row.uploader = req[q].user /\ row.kind = req[q].kind
      /\ row.file = IF req[q].kind = "file" THEN req[q].file ELSE NoFile
  BY <1>3 DEF NewItem
<1>6. CASE req[q].kind # "file" /\ Insert(q, i, row)
  BY <1>2, <1>4, <1>5, <1>6 DEF Inserted, RequestMoved
<1>7. CASE /\ req[q].kind = "file" /\ req[q].file # NoFile
           /\ req' = [req EXCEPT ![q].row = row]
           /\ itemTrail' = {}
           /\ UNCHANGED <<vars, item, disk, unlinking>>
  BY <1>2, <1>4, <1>5, <1>7 DEF Sniffed, RequestMoved
<1> QED BY <1>1, <1>3, <1>6, <1>7

\* When the sniff accepts, the row the request carried is inserted.
LEMMA StoreMoves ==
    ASSUME EvidenceInv, NEW q \in Requests, NEW i \in Items, Store(q, i)
    PROVE  RequestMoved
<1>1. sniffing(q) /\ live(q) /\ Insert(q, i, req[q].row)
  BY DEF Store, sniffing
<1>2. req[q] \in Request
  BY <1>1 DEF EvidenceInv, EvidenceTypeOK, live
<1>3. req[q].row \in ItemRow /\ Placed(req[q].row)
  BY <1>1, <1>2 DEF sniffing, Request, EvidenceInv, RequestsPlaced
<1>4. /\ req[q].file # NoFile
      /\ req[q].row.kind = "file"
      /\ req[q].row.file = req[q].file
      /\ req[q].row.uploader = req[q].user
  BY <1>1 DEF EvidenceInv, RequestsCarry
<1>5. Inserted(q, i, req[q].row)
  BY <1>1, <1>3, <1>4 DEF Inserted
<1> QED BY <1>3, <1>5 DEF RequestMoved

\* Every step is of one of these kinds.
LEMMA EvidenceMoves == EvidenceInv /\ EvidenceNext => EvidenceMoved
<1> SUFFICES ASSUME EvidenceInv, EvidenceNext PROVE EvidenceMoved
  OBVIOUS
<1>1. ASSUME NEW q \in Requests,
             UploadFails(q) \/ Refuse(q) \/ StoreFails(q) \/ SniffRejects(q)
      PROVE  RequestMoved
  <2>1. CASE Refuse(q) \/ StoreFails(q)
    BY <2>1 DEF RequestMoved, Dropped, Refuse, StoreFails, unchecked, sniffing
  <2>2. CASE UploadFails(q) \/ SniffRejects(q)
    BY <2>2 DEF RequestMoved, Removed, UploadFails, SniffRejects, unchecked, sniffing
  <2> QED BY <1>1, <2>1, <2>2
<1>2. ASSUME NEW q \in Requests, NEW a \in Users, NEW kind \in Kinds,
             NEW f \in Files \cup {NoFile}, Receive(q, a, kind, f)
      PROVE  RequestMoved
  BY <1>2 DEF RequestMoved
<1>3. ASSUME NEW q \in Requests, NEW i \in Items, Store(q, i) PROVE RequestMoved
  BY <1>3, StoreMoves
<1>4. ASSUME NEW q \in Requests, NEW i \in Items, NEW pr \in Projects,
             NEW link \in EntryIds \cup {NoEntry}, NEW d \in Dates,
             NEW b \in Bodies, Check(q, i, pr, link, d, b)
      PROVE  RequestMoved
  BY <1>4, CheckMoves
<1> QED BY <1>1, <1>2, <1>3, <1>4 DEF EvidenceNext, EvidenceMoved, ItemMoved

\* Of these, only a step of the ledger changes its tables.
LEMMA MovedNext == EvidenceMoved => LedgerStep \/ UNCHANGED vars
BY DEF EvidenceMoved, Crash, Unlinked, RequestMoved, Inserted, Insert, Sniffed,
       Dropped, Removed, Receive, ItemMoved, PatchEvidence, DeleteEvidence

-----------------------------------------------------------------------------
(* The inductive invariant *)

\* The freshly seeded database, an empty uploads directory and no request
\* satisfy the invariant.
LEMMA EvidenceStarts == EvidenceInit => EvidenceInv
BY InitInv, EvidenceAssumption
   DEF EvidenceInit, EvidenceInv, EvidenceTypeOK, ItemsPlaced, RequestsPlaced,
       RequestsCarry, RequestsHaveTheirFiles, ItemsHaveTheirFiles, live, sniffing

\* Every row, request, file and audit row has its type after every step.
LEMMA EvidenceTyped == EvidenceInv /\ EvidenceMoved => EvidenceTypeOK'
<1> SUFFICES ASSUME EvidenceInv, EvidenceMoved PROVE EvidenceTypeOK'
  OBVIOUS
<1>0. /\ EvidenceTypeOK
      /\ \A i \in Items : item[i] \in ItemRow \cup {NoRow}
      /\ \A q \in Requests : live(q) => req[q] \in Request
  BY DEF EvidenceInv, EvidenceTypeOK, live
<1>1. ASSUME NEW a \in Users, NEW i \in Items,
             NEW act \in {"create", "update", "delete"}, auditItem(a, act, i)
      PROVE  itemTrail' \subseteq ItemAudit
  BY <1>1 DEF auditItem, ItemAudit
<1>2. CASE LedgerStep
  BY <1>0, <1>2 DEF LedgerStep, EvidenceTypeOK, evidenceVars, uploadVars
<1>3. CASE Crash \/ \E f \in Files : Unlinked(f)
  BY <1>0, <1>3 DEF Crash, Unlinked, EvidenceTypeOK
<1>4. CASE RequestMoved
  <2>1. ASSUME NEW q \in Requests, NEW i \in Items, NEW row \in ItemRow,
               Inserted(q, i, row)
        PROVE  EvidenceTypeOK'
    <3>1. req[q].user \in Users
      BY <1>0, <2>1 DEF Inserted, Request
    <3>2. itemTrail' \subseteq ItemAudit
      BY <1>1, <2>1, <3>1 DEF Inserted, Insert
    <3> QED BY <1>0, <2>1, <3>2 DEF Inserted, Insert, answered, EvidenceTypeOK
  <2>2. ASSUME NEW q \in Requests, NEW row \in ItemRow, Sniffed(q, row)
        PROVE  EvidenceTypeOK'
    <3>1. PICK s : s = [req[q] EXCEPT !.row = row]
      OBVIOUS
    <3>2. s \in Request
      BY <1>0, <2>2, <3>1, RowGiven DEF Sniffed, unchecked
    <3>3. req' = [req EXCEPT ![q] = s]
      BY <2>2, <3>1 DEF Sniffed
    <3> QED BY <1>0, <2>2, <3>2, <3>3 DEF Sniffed, EvidenceTypeOK
  <2>3. ASSUME NEW q \in Requests, Dropped(q) \/ Removed(q) PROVE EvidenceTypeOK'
    <3>1. req[q].file \in Files \cup {NoFile}
      BY <1>0, <2>3 DEF Dropped, Removed, Request
    <3> QED BY <1>0, <2>3, <3>1 DEF Dropped, Removed, dropFile, answered, EvidenceTypeOK
  <2>4. ASSUME NEW q \in Requests, NEW a \in Users, NEW kind \in Kinds,
               NEW f \in Files \cup {NoFile}, Receive(q, a, kind, f)
        PROVE  EvidenceTypeOK'
    <3>1. role[a] \in Roles
      BY DEF EvidenceInv, Inv, TypeOK, AccountsTypeOK
    <3>2. [user |-> a, role |-> role[a], kind |-> kind, file |-> f, row |-> NoRow]
            \in Request
      BY <3>1 DEF Request
    <3> QED BY <1>0, <2>4, <3>2 DEF Receive, EvidenceTypeOK
  <2> QED BY <1>4, <2>1, <2>2, <2>3, <2>4 DEF RequestMoved
<1>5. CASE ItemMoved
  <2>1. ASSUME NEW a \in Users, NEW i \in Items, NEW d \in Dates, NEW b \in Bodies,
               PatchEvidence(a, i, d, b)
        PROVE  EvidenceTypeOK'
    <3>1. PICK p \in rebucket(item[i], d) :
            item' = [item EXCEPT ![i].date = d, ![i].body = b, ![i].period = p]
      BY <2>1 DEF PatchEvidence
    <3>2. PICK s : s = Redated(item[i], d, b, p)
      OBVIOUS
    <3>3. s \in ItemRow
      BY <2>1, <3>2, PatchedItem DEF PatchEvidence
    <3>4. item' = [item EXCEPT ![i] = s]
      BY <1>0, <3>1, <3>2 DEF Redated, EvidenceTypeOK
    <3>5. itemTrail' \subseteq ItemAudit
      BY <1>1, <2>1 DEF PatchEvidence
    <3> QED BY <1>0, <2>1, <3>3, <3>4, <3>5 DEF PatchEvidence, uploadVars, EvidenceTypeOK
  <2>2. ASSUME NEW a \in Users, NEW i \in Items, DeleteEvidence(a, i)
        PROVE  EvidenceTypeOK'
    <3>1. item[i].file \in Files \cup {NoFile}
      BY <1>0, <2>2 DEF DeleteEvidence, ItemRow
    <3>2. itemTrail' \subseteq ItemAudit
      BY <1>1, <2>2 DEF DeleteEvidence
    <3> QED BY <1>0, <2>2, <3>1, <3>2 DEF DeleteEvidence, dropFile, EvidenceTypeOK
  <2> QED BY <1>5, <2>1, <2>2 DEF ItemMoved
<1> QED BY <1>2, <1>3, <1>4, <1>5 DEF EvidenceMoved

\* What a step does to one item, when it touches it at all.
LEMMA ItemChanges ==
    ASSUME EvidenceInv, EvidenceMoved, NEW i \in Items, item'[i] # item[i]
    PROVE  /\ UNCHANGED vars
           /\ \A j \in Items : j # i => item'[j] = item[j]
           /\ \/ /\ item[i] = NoRow
                 /\ \E q \in Requests, row \in ItemRow :
                      Inserted(q, i, row) /\ item'[i] = row
              \/ \E a \in Users, d \in Dates, b \in Bodies :
                   /\ PatchEvidence(a, i, d, b)
                   /\ \E p \in rebucket(item[i], d) :
                        item'[i] = Redated(item[i], d, b, p)
              \/ \E a \in Users : DeleteEvidence(a, i) /\ item'[i] = NoRow
<1>0. item \in [Items -> ItemRow \cup {NoRow}]
  BY DEF EvidenceInv, EvidenceTypeOK
<1>1. ~LedgerStep /\ ~Crash /\ ~\E f \in Files : Unlinked(f)
  BY DEF LedgerStep, Crash, Unlinked, evidenceVars
<1>2. CASE RequestMoved
  <2>1. PICK q \in Requests, j \in Items, row \in ItemRow : Inserted(q, j, row)
    BY <1>2 DEF RequestMoved, Sniffed, Dropped, Removed, Receive
  <2>2. item[j] = NoRow /\ item' = [item EXCEPT ![j] = row] /\ UNCHANGED vars
    BY <2>1 DEF Inserted, Insert
  <2>3. i = j
    BY <1>0, <2>2
  <2> QED BY <1>0, <2>1, <2>2, <2>3
<1>3. CASE ItemMoved
  <2>1. ASSUME NEW a \in Users, NEW j \in Items, NEW d \in Dates, NEW b \in Bodies,
               PatchEvidence(a, j, d, b)
        PROVE  /\ j = i /\ UNCHANGED vars
               /\ \A k \in Items : k # i => item'[k] = item[k]
               /\ \E p \in rebucket(item[i], d) :
                    item'[i] = Redated(item[i], d, b, p)
    <3>1. PICK p \in rebucket(item[j], d) :
            item' = [item EXCEPT ![j].date = d, ![j].body = b, ![j].period = p]
      BY <2>1 DEF PatchEvidence
    <3>2. /\ item'[j] = Redated(item[j], d, b, p)
          /\ \A k \in Items : k # j => item'[k] = item[k]
      BY <1>0, <3>1 DEF Redated
    <3>3. j = i
      BY <3>2
    <3> QED BY <2>1, <3>2, <3>3 DEF PatchEvidence
  <2>2. ASSUME NEW a \in Users, NEW j \in Items, DeleteEvidence(a, j)
        PROVE  /\ j = i /\ UNCHANGED vars /\ item'[i] = NoRow
               /\ \A k \in Items : k # i => item'[k] = item[k]
    BY <1>0, <2>2 DEF DeleteEvidence
  <2>3. PICK a \in Users, j \in Items :
          \/ \E d \in Dates, b \in Bodies : PatchEvidence(a, j, d, b)
          \/ DeleteEvidence(a, j)
    BY <1>3 DEF ItemMoved
  <2>4. CASE \E d \in Dates, b \in Bodies : PatchEvidence(a, j, d, b)
    <3>1. PICK d \in Dates, b \in Bodies : PatchEvidence(a, j, d, b)
      BY <2>4
    <3>2. j = i
      BY <2>1, <3>1
    <3>3. /\ PatchEvidence(a, i, d, b) /\ UNCHANGED vars
          /\ \A k \in Items : k # i => item'[k] = item[k]
          /\ \E p \in rebucket(item[i], d) :
               item'[i] = Redated(item[i], d, b, p)
      BY <2>1, <3>1, <3>2
    <3> QED BY <3>3
  <2>5. CASE DeleteEvidence(a, j)
    BY <2>2, <2>5
  <2> QED BY <2>3, <2>4, <2>5
<1> QED BY <1>1, <1>2, <1>3 DEF EvidenceMoved

\* Periods stand and links hold, so items stay in place, whatever the ledger does
\* meanwhile; new and edited items are in place to begin with.
LEMMA ItemsStayPlaced == EvidenceInv /\ EvidenceMoved => ItemsPlaced'
<1> SUFFICES ASSUME EvidenceInv, EvidenceMoved, NEW i \in Items, item'[i] # NoRow
             PROVE  Placed(item[i])' /\ Linked(item[i])'
  BY DEF ItemsPlaced
<1>0. /\ Inv /\ item[i] \in ItemRow \cup {NoRow}
      /\ item[i] # NoRow => Placed(item[i]) /\ Linked(item[i])
  BY DEF EvidenceInv, EvidenceTypeOK, ItemsPlaced
<1>1. CASE item'[i] # item[i]
  <2>1. UNCHANGED <<period, entry>>
    BY <1>1, ItemChanges DEF vars
  <2>2. CASE \E q \in Requests, row \in ItemRow : Inserted(q, i, row) /\ item'[i] = row
    BY <2>1, <2>2 DEF Inserted, Insert, Placed, Linked
  <2>3. CASE \E a \in Users, d \in Dates, b \in Bodies :
               /\ PatchEvidence(a, i, d, b)
               /\ \E p \in rebucket(item[i], d) :
                    item'[i] = Redated(item[i], d, b, p)
    <3>1. PICK d \in Dates, b \in Bodies :
            /\ item[i] # NoRow
            /\ \E p \in rebucket(item[i], d) :
                 item'[i] = Redated(item[i], d, b, p)
      BY <2>3 DEF PatchEvidence
    <3>2. PICK p \in rebucket(item[i], d) : item'[i] = Redated(item[i], d, b, p)
      BY <3>1
    <3>3. PICK s : s = Redated(item[i], d, b, p)
      OBVIOUS
    <3>4. Placed(s) /\ (Linked(item[i]) => Linked(s))
      BY <3>1, <3>3, PatchedItem
    <3>5. Linked(item[i])
      BY <1>0, <3>1
    <3> QED BY <2>1, <3>2, <3>3, <3>4, <3>5 DEF Placed, Linked
  <2> QED BY <1>1, <2>2, <2>3, ItemChanges
<1>2. CASE item'[i] = item[i]
  <2>1. PICK r : r = item[i] /\ r \in ItemRow /\ Placed(r) /\ Linked(r)
    BY <1>0, <1>2
  <2>2. r.period \in Periods /\ r.link \in EntryIds \cup {NoEntry}
    BY <2>1 DEF ItemRow
  <2>3. /\ period'[r.period] # NoRow
        /\ period'[r.period].start = period[r.period].start
        /\ period'[r.period].end = period[r.period].end
        /\ period'[r.period].claimant = period[r.period].claimant
    BY <1>0, <2>1, <2>2, PeriodsStand, MovedNext DEF Placed, LedgerStep
  <2>4. r.link # NoEntry => entry'[r.link] # NoRow
    <3>1. CASE LedgerStep
      BY <1>0, <1>2, <2>1, <2>2, <3>1 DEF LedgerStep, linked
    <3>2. CASE UNCHANGED vars
      BY <2>1, <3>2 DEF Linked, vars
    <3> QED BY <3>1, <3>2, MovedNext
  <2> QED BY <1>2, <2>1, <2>3, <2>4 DEF Placed, Linked
<1> QED BY <1>1, <1>2

\* A request awaiting its sniff keeps its row, and the period of it stands.
LEMMA RequestsStayPlaced ==
    EvidenceInv /\ EvidenceMoved => RequestsPlaced' /\ RequestsCarry'
<1> SUFFICES ASSUME EvidenceInv, EvidenceMoved, NEW q \in Requests, sniffing(q)'
             PROVE  /\ Placed(req[q].row)'
                    /\ req'[q].file # NoFile
                    /\ req'[q].row.kind = "file"
                    /\ req'[q].row.file = req'[q].file
                    /\ req'[q].row.uploader = req'[q].user
  BY DEF RequestsPlaced, RequestsCarry
<1>0. /\ Inv /\ req \in [Requests -> Request \cup {NoReq}]
      /\ req[q] # NoReq => req[q] \in Request
  BY DEF EvidenceInv, EvidenceTypeOK
<1>1. CASE req'[q] = req[q]
  <2>1. /\ sniffing(q) /\ Placed(req[q].row)
        /\ req[q].file # NoFile
        /\ req[q].row.kind = "file"
        /\ req[q].row.file = req[q].file
        /\ req[q].row.uploader = req[q].user
    BY <1>1 DEF sniffing, live, EvidenceInv, RequestsPlaced, RequestsCarry
  <2>2. PICK r : r = req[q].row /\ r \in ItemRow /\ Placed(r)
    BY <1>0, <2>1 DEF sniffing, live, Request
  <2>3. r.period \in Periods
    BY <2>2 DEF ItemRow
  <2>4. /\ period'[r.period] # NoRow
        /\ period'[r.period].start = period[r.period].start
        /\ period'[r.period].end = period[r.period].end
        /\ period'[r.period].claimant = period[r.period].claimant
    BY <1>0, <2>2, <2>3, PeriodsStand, MovedNext DEF Placed, LedgerStep
  <2>5. req'[q].row = r
    BY <1>1, <2>2
  <2> QED BY <1>1, <2>1, <2>2, <2>4, <2>5 DEF Placed
<1>2. CASE req'[q] # req[q]
  <2>1. ~LedgerStep /\ ~Crash /\ ~(\E f \in Files : Unlinked(f)) /\ ~ItemMoved
    <3>1. ~LedgerStep /\ ~(\E f \in Files : Unlinked(f)) /\ ~ItemMoved
      BY <1>2 DEF LedgerStep, Unlinked, ItemMoved, PatchEvidence, DeleteEvidence,
                  evidenceVars, uploadVars
    <3>2. ~Crash
      BY DEF Crash, sniffing, live
    <3> QED BY <3>1, <3>2
  <2>2. PICK s \in Requests :
          \/ \E i \in Items, row \in ItemRow : Inserted(s, i, row)
          \/ \E row \in ItemRow : Sniffed(s, row)
          \/ Dropped(s)
          \/ Removed(s)
          \/ \E a \in Users, kind \in Kinds, f \in Files \cup {NoFile} :
               Receive(s, a, kind, f)
    BY <2>1 DEF EvidenceMoved, RequestMoved
  <2>3. ~answered(s)
    BY <1>0, <1>2 DEF answered, sniffing, live
  <2>4. ~\E a \in Users, kind \in Kinds, f \in Files \cup {NoFile} :
           Receive(s, a, kind, f)
    <3>1. ASSUME NEW a \in Users, NEW kind \in Kinds, NEW f \in Files \cup {NoFile},
                 Receive(s, a, kind, f)
          PROVE  FALSE
      <4>1. s = q
        BY <1>0, <1>2, <3>1 DEF Receive
      <4> QED BY <1>0, <3>1, <4>1 DEF Receive, sniffing
    <3> QED BY <3>1
  <2>5. PICK row \in ItemRow : Sniffed(s, row)
    BY <2>2, <2>3, <2>4 DEF Inserted, Insert, Dropped, Removed
  <2>6. s = q
    BY <1>0, <1>2, <2>5 DEF Sniffed
  <2>7. req[q] \in Request
    BY <1>0, <2>5, <2>6 DEF Sniffed, unchecked, live
  <2>8. PICK n : n = [req[q] EXCEPT !.row = row]
    OBVIOUS
  <2>9. req'[q] = n /\ n.row = row /\ n.user = req[q].user /\ n.file = req[q].file
    BY <1>0, <2>5, <2>6, <2>7, <2>8, RowGiven DEF Sniffed
  <2>10. UNCHANGED period
    BY <2>5 DEF Sniffed, vars
  <2> QED BY <2>5, <2>6, <2>9, <2>10 DEF Sniffed, Placed
<1> QED BY <1>1, <1>2

\* No answer, unlink, crash or edit takes the file of an item, and no new
\* request or item gets a file that somebody has.
LEMMA FilesStay ==
    EvidenceInv /\ EvidenceMoved => RequestsHaveTheirFiles' /\ ItemsHaveTheirFiles'
<1> SUFFICES ASSUME EvidenceInv, EvidenceMoved
             PROVE  RequestsHaveTheirFiles' /\ ItemsHaveTheirFiles'
  OBVIOUS
<1>0. /\ item \in [Items -> ItemRow \cup {NoRow}] /\ disk \subseteq Files
      /\ req \in [Requests -> Request \cup {NoReq}] /\ unlinking \subseteq Files
      /\ NoFile \notin Files /\ NoRow \notin ItemRow /\ NoReq \notin Request
  BY EvidenceAssumption DEF EvidenceInv, EvidenceTypeOK
<1>1. ASSUME NEW q \in Requests, req[q] # NoReq
      PROVE  /\ req[q].file \in Files \cup {NoFile}
             /\ req[q].file # NoFile =>
                  /\ req[q].file \in disk /\ req[q].file \notin unlinking
                  /\ \A s \in Requests : s # q /\ req[s] # NoReq =>
                                           req[s].file # req[q].file
  BY <1>0, <1>1 DEF EvidenceInv, RequestsHaveTheirFiles, live, Request
<1>2. ASSUME NEW i \in Items, item[i] # NoRow
      PROVE  /\ item[i].file \in Files \cup {NoFile}
             /\ item[i].kind = "file" <=> item[i].file # NoFile
             /\ item[i].file # NoFile =>
                  /\ item[i].file \in disk /\ item[i].file \notin unlinking
                  /\ \A j \in Items : j # i /\ item[j] # NoRow =>
                                        item[j].file # item[i].file
                  /\ \A q \in Requests : req[q] # NoReq =>
                                           req[q].file # item[i].file
  BY <1>0, <1>2 DEF EvidenceInv, ItemsHaveTheirFiles, HasItsFile, live, ItemRow
<1> DEFINE ReqFiles ==
             \A q \in Requests : req'[q] # NoReq /\ req'[q].file # NoFile =>
                /\ req'[q].file \in disk' /\ req'[q].file \notin unlinking'
                /\ \A s \in Requests : s # q /\ req'[s] # NoReq =>
                                         req'[s].file # req'[q].file
           ItemFiles ==
             \A i \in Items : item'[i] # NoRow =>
                /\ item'[i].kind = "file" <=> item'[i].file # NoFile
                /\ item'[i].file # NoFile =>
                     /\ item'[i].file \in disk' /\ item'[i].file \notin unlinking'
                     /\ \A j \in Items : j # i /\ item'[j] # NoRow =>
                                           item'[j].file # item'[i].file
                     /\ \A q \in Requests : req'[q] # NoReq =>
                                              req'[q].file # item'[i].file
<1>3. ReqFiles /\ ItemFiles => RequestsHaveTheirFiles' /\ ItemsHaveTheirFiles'
  BY DEF RequestsHaveTheirFiles, ItemsHaveTheirFiles, HasItsFile, live
<1> SUFFICES ReqFiles /\ ItemFiles
  BY <1>3
<1>4. CASE LedgerStep
  BY <1>1, <1>2, <1>4 DEF LedgerStep, evidenceVars, uploadVars
<1>5. CASE Crash
  BY <1>2, <1>5 DEF Crash
<1>6. ASSUME NEW f \in Files, Unlinked(f) PROVE ReqFiles /\ ItemFiles
  BY <1>1, <1>2, <1>6 DEF Unlinked
<1>7. ASSUME NEW q \in Requests, NEW i \in Items, NEW row \in ItemRow,
             Inserted(q, i, row)
      PROVE  ReqFiles /\ ItemFiles
  <2>1. /\ req[q] # NoReq /\ UNCHANGED <<disk, unlinking>>
        /\ req'[q] = NoReq /\ \A s \in Requests : s # q => req'[s] = req[s]
        /\ item[i] = NoRow
        /\ item'[i] = row /\ \A j \in Items : j # i => item'[j] = item[j]
        /\ row.kind = "file" <=> row.file # NoFile
        /\ row.file # NoFile => row.file = req[q].file
    BY <1>0, <1>7 DEF Inserted, Insert, answered, live
  <2>2. ReqFiles
    BY <1>1, <2>1
  <2>3. ItemFiles
    BY <1>1, <1>2, <2>1
  <2> QED BY <2>2, <2>3
<1>8. ASSUME NEW q \in Requests, NEW row \in ItemRow, Sniffed(q, row)
      PROVE  ReqFiles /\ ItemFiles
  <2>1. req[q] \in Request
    BY <1>0, <1>8 DEF Sniffed, unchecked, live
  <2>2. PICK r : r = [req[q] EXCEPT !.row = row]
    OBVIOUS
  <2>3. r \in Request /\ r.file = req[q].file
    BY <2>1, <2>2, RowGiven
  <2>4. /\ req'[q] = r /\ r # NoReq /\ r.file = req[q].file /\ req[q] # NoReq
        /\ \A s \in Requests : s # q => req'[s] = req[s]
        /\ UNCHANGED <<item, disk, unlinking>>
    BY <1>0, <1>8, <2>1, <2>2, <2>3 DEF Sniffed
  <2>5. \A s \in Requests : (req'[s] # NoReq <=> req[s] # NoReq)
                            /\ (req[s] # NoReq => req'[s].file = req[s].file)
    BY <2>4
  <2>6. ReqFiles
    BY <1>1, <2>4, <2>5
  <2>7. ItemFiles
    BY <1>2, <2>4, <2>5
  <2> QED BY <2>6, <2>7
<1>9. ASSUME NEW q \in Requests, Dropped(q) \/ Removed(q)
      PROVE  ReqFiles /\ ItemFiles
  <2>1. /\ req[q] # NoReq
        /\ req'[q] = NoReq /\ \A s \in Requests : s # q => req'[s] = req[s]
        /\ UNCHANGED item
        /\ disk \ {req[q].file} \subseteq disk'
        /\ unlinking' \subseteq unlinking \cup ({req[q].file} \ {NoFile})
    BY <1>0, <1>9 DEF Dropped, Removed, dropFile, answered, live
  <2>2. ReqFiles
    BY <1>1, <2>1
  <2>3. ItemFiles
    BY <1>1, <1>2, <2>1
  <2> QED BY <2>2, <2>3
<1>10. ASSUME NEW q \in Requests, NEW a \in Users, NEW kind \in Kinds,
              NEW f \in Files \cup {NoFile}, Receive(q, a, kind, f)
       PROVE  ReqFiles /\ ItemFiles
  <2>1. PICK r : r = [user |-> a, role |-> role[a], kind |-> kind, file |-> f,
                      row |-> NoRow]
    OBVIOUS
  <2>2. /\ r.file = f /\ UNCHANGED <<item, unlinking>>
        /\ disk' = disk \cup ({f} \ {NoFile})
        /\ req'[q] = r /\ \A s \in Requests : s # q => req'[s] = req[s]
    BY <1>0, <1>10, <2>1 DEF Receive
  <2>3. f # NoFile =>
          /\ f \notin unlinking
          /\ \A i \in Items : item[i] # NoRow => item[i].file # f
          /\ \A s \in Requests : req[s] # NoReq => req[s].file # f
    <3>1. f # NoFile => f \in FreshFiles
      BY <1>10 DEF Receive
    <3> QED BY <3>1 DEF FreshFiles, live
  <2>4. ReqFiles
    BY <1>1, <2>2, <2>3
  <2>5. ItemFiles
    BY <1>2, <2>2, <2>3
  <2> QED BY <2>4, <2>5
<1>11. CASE ItemMoved
  <2>1. UNCHANGED <<disk, req>>
    BY <1>11 DEF ItemMoved, PatchEvidence, DeleteEvidence, uploadVars
  <2>2. ASSUME NEW a \in Users, NEW i \in Items, NEW d \in Dates, NEW b \in Bodies,
               PatchEvidence(a, i, d, b)
        PROVE  ReqFiles /\ ItemFiles
    <3>1. PICK p \in rebucket(item[i], d) :
            item' = [item EXCEPT ![i].date = d, ![i].body = b, ![i].period = p]
      BY <2>2 DEF PatchEvidence
    <3>2. PICK s : s = Redated(item[i], d, b, p)
      OBVIOUS
    <3>3. item[i] # NoRow /\ UNCHANGED unlinking
      BY <2>2 DEF PatchEvidence, uploadVars
    <3>4. s # NoRow /\ s.kind = item[i].kind /\ s.file = item[i].file
      BY <1>0, <3>2, <3>3, PatchedItem
    <3>5. item'[i] = s /\ \A j \in Items : j # i => item'[j] = item[j]
      BY <1>0, <3>1, <3>2 DEF Redated
    <3>6. \A j \in Items : /\ item'[j] # NoRow <=> item[j] # NoRow
                           /\ item[j] # NoRow => /\ item'[j].file = item[j].file
                                                 /\ item'[j].kind = item[j].kind
      BY <3>3, <3>4, <3>5
    <3>7. ReqFiles
      BY <1>1, <2>1, <3>3
    <3>8. ItemFiles
      BY <1>2, <2>1, <3>3, <3>6
    <3> QED BY <3>7, <3>8
  <2>3. ASSUME NEW a \in Users, NEW i \in Items, DeleteEvidence(a, i)
        PROVE  ReqFiles /\ ItemFiles
    <3>1. /\ item[i] # NoRow
          /\ item'[i] = NoRow /\ \A j \in Items : j # i => item'[j] = item[j]
          /\ unlinking' = unlinking \cup ({item[i].file} \ {NoFile})
      BY <1>0, <2>3 DEF DeleteEvidence, dropFile
    <3>2. ReqFiles
      BY <1>1, <1>2, <2>1, <3>1
    <3>3. ItemFiles
      BY <1>2, <2>1, <3>1
    <3> QED BY <3>2, <3>3
  <2> QED BY <1>11, <2>2, <2>3 DEF ItemMoved
<1> HIDE DEF ReqFiles, ItemFiles
<1> QED BY <1>4, <1>5, <1>6, <1>7, <1>8, <1>9, <1>10, <1>11
        DEF EvidenceMoved, RequestMoved

\* Every step preserves the invariant; what the ledger's own needs is in
\* LedgerProofs.
LEMMA EvidenceStep == EvidenceInv /\ [EvidenceNext]_allVars => EvidenceInv'
<1> SUFFICES ASSUME EvidenceInv, [EvidenceNext]_allVars PROVE EvidenceInv'
  OBVIOUS
<1>1. Inv'
  BY StepInv, LedgerStepOrStill DEF EvidenceInv
<1>2. CASE EvidenceNext
  <2>1. EvidenceMoved
    BY <1>2, EvidenceMoves
  <2> QED BY <1>1, <2>1, EvidenceTyped, ItemsStayPlaced, RequestsStayPlaced, FilesStay
          DEF EvidenceInv
<1>3. CASE UNCHANGED allVars
  <2>1. UNCHANGED <<period, entry, item, disk, req, unlinking, itemTrail>>
    BY <1>3 DEF allVars, vars, evidenceVars, uploadVars
  <2>2. EvidenceTypeOK' /\ ItemsPlaced' /\ RequestsPlaced' /\ RequestsCarry'
    BY <2>1 DEF EvidenceInv, EvidenceTypeOK, ItemsPlaced, Placed, Linked,
                RequestsPlaced, RequestsCarry, sniffing, live
  <2>3. RequestsHaveTheirFiles' /\ ItemsHaveTheirFiles'
    BY <2>1 DEF EvidenceInv, RequestsHaveTheirFiles, ItemsHaveTheirFiles, HasItsFile, live
  <2> QED BY <1>1, <2>2, <2>3 DEF EvidenceInv
<1> QED BY <1>2, <1>3

\* The invariant holds in every reachable state.
LEMMA EvidenceInvariance == EvidenceSpec => []EvidenceInv
<1> QED BY EvidenceStarts, EvidenceStep, PTL DEF EvidenceSpec

\* With evidence around it the ledger still does only what the ledger does: every
\* theorem about Spec holds of the composition.
THEOREM EvidenceKeepsLedger == EvidenceSpec => Spec
<1>1. EvidenceInit => Init
  BY DEF EvidenceInit
<1> QED BY <1>1, LedgerStepOrStill, PTL DEF EvidenceSpec, Spec

\* All items, requests, files and audit rows have their type in every reachable
\* state.
THEOREM EvidenceTypeCorrect == EvidenceSpec => []EvidenceTypeOK
<1>1. EvidenceInv => EvidenceTypeOK
  BY DEF EvidenceInv
<1> QED BY EvidenceInvariance, <1>1, PTL

\* However long the sniff is awaited and whatever the ledger does meanwhile, an
\* item's period is its claimant's and covers its date, and its link leads to an
\* entry.
THEOREM EvidenceStaysInPlace == EvidenceSpec => []EvidenceInPlace
<1>1. EvidenceInv => EvidenceInPlace
  BY DEF EvidenceInv, ItemsPlaced, Placed, Linked, EvidenceInPlace, InPlace
<1> QED BY EvidenceInvariance, <1>1, PTL

\* With any number of uploads, refusals, unlinks and crashes in flight an item of
\* kind file keeps its file, on disk and to itself.
THEOREM ItemsKeepTheirFiles == EvidenceSpec => []ItemsHaveTheirFiles
<1>1. EvidenceInv => ItemsHaveTheirFiles
  BY DEF EvidenceInv
<1> QED BY EvidenceInvariance, <1>1, PTL

-----------------------------------------------------------------------------
(* Closed periods *)

\* PATCH and DELETE find the period of an item open, and nothing else rewrites
\* one.
LEMMA RetainedStep ==
    ASSUME EvidenceInv, [EvidenceNext]_allVars, NEW i \in Items,
           item[i] # NoRow, closed(item[i].period)
    PROVE  /\ item'[i] = item[i]
           /\ item[i].kind = "file" => item[i].file \in disk'
<1>1. item'[i] = item[i]
  <2>1. SUFFICES ASSUME item'[i] # item[i] PROVE FALSE
    OBVIOUS
  <2>2. EvidenceNext
    BY <2>1 DEF allVars, evidenceVars
  <2>3. ~\E a \in Users, d \in Dates, b \in Bodies : PatchEvidence(a, i, d, b)
    BY DEF PatchEvidence, mutable, closed
  <2>4. ~\E a \in Users : DeleteEvidence(a, i)
    BY DEF DeleteEvidence, mutable, closed
  <2> QED BY <2>1, <2>2, <2>3, <2>4, EvidenceMoves, ItemChanges
<1>2. ItemsHaveTheirFiles /\ ItemsHaveTheirFiles'
  BY EvidenceStep DEF EvidenceInv
<1>3. item[i].kind = "file" => item'[i].file \in disk'
  BY <1>1, <1>2 DEF ItemsHaveTheirFiles, HasItsFile
<1> QED BY <1>1, <1>3

\* Evidence of a closed period is retained, row and file, for any number of
\* requests and unlinks under way when it was closed.
THEOREM ClosedEvidenceRetained == EvidenceSpec => RetainedWhileClosed
<1>1. EvidenceInv /\ [EvidenceNext]_allVars =>
        [\A i \in Items : item[i] # NoRow /\ closed(item[i].period) =>
           /\ item'[i] = item[i]
           /\ item[i].kind = "file" => item[i].file \in disk']_allVars
  BY RetainedStep
<1> QED BY EvidenceInvariance, <1>1, PTL DEF EvidenceSpec, RetainedWhileClosed

-----------------------------------------------------------------------------
(* Files on disk *)

\* Whoever gives a file up hands it to the next: the request to its item or to
\* the unlink, the item to the unlink, the unlink to nobody once it is gone.
LEMMA HandedOn ==
    ASSUME EvidenceInv, [EvidenceNext]_allVars, ~Crash, NEW f \in disk',
           owned(f), ~owned(f)'
    PROVE  \E q \in Requests : live(q) /\ req[q].file = f /\ req[q].kind # "file"
<1>0. /\ item \in [Items -> ItemRow \cup {NoRow}]
      /\ req \in [Requests -> Request \cup {NoReq}]
      /\ NoFile \notin Files /\ NoRow \notin ItemRow /\ NoReq \notin Request
      /\ disk \subseteq Files /\ unlinking \subseteq Files /\ EvidenceTypeOK'
  BY EvidenceAssumption, EvidenceStep DEF EvidenceInv, EvidenceTypeOK
<1>1. f \in Files
  BY <1>0 DEF EvidenceTypeOK
<1>2. /\ f \notin unlinking'
      /\ \A i \in Items : item'[i] # NoRow => item'[i].file # f
      /\ \A q \in Requests : req'[q] # NoReq => req'[q].file # f
  BY DEF owned, live
<1>3. \/ f \in unlinking
      \/ \E i \in Items : item[i] # NoRow /\ item[i].file = f
      \/ \E q \in Requests : req[q] # NoReq /\ req[q].file = f
  BY DEF owned, live
<1>4. EvidenceMoved
  BY <1>2, <1>3, EvidenceMoves DEF allVars, evidenceVars, uploadVars
<1>5. ~LedgerStep
  BY <1>2, <1>3 DEF LedgerStep, evidenceVars, uploadVars
<1>6. ASSUME NEW g \in Files, Unlinked(g) PROVE FALSE
  BY <1>2, <1>3, <1>6 DEF Unlinked
<1>7. ASSUME NEW q \in Requests, NEW i \in Items, NEW row \in ItemRow,
             Inserted(q, i, row)
      PROVE  live(q) /\ req[q].file = f /\ req[q].kind # "file"
  <2>1. /\ live(q) /\ UNCHANGED unlinking
        /\ \A s \in Requests : s # q => req'[s] = req[s]
        /\ item[i] = NoRow /\ row # NoRow
        /\ item'[i] = row /\ \A j \in Items : j # i => item'[j] = item[j]
        /\ row.file # NoFile => row.file = req[q].file
        /\ row.file = NoFile => req[q].kind # "file"
    BY <1>0, <1>7 DEF Inserted, Insert, answered
  <2>2. ~\E j \in Items : item[j] # NoRow /\ item[j].file = f
    BY <1>2, <2>1
  <2>3. req[q].file = f
    BY <1>2, <1>3, <2>1, <2>2
  <2>4. row.file # f
    BY <1>2, <2>1
  <2> QED BY <2>1, <2>3, <2>4
<1>8. ASSUME NEW q \in Requests, NEW row \in ItemRow, Sniffed(q, row) PROVE FALSE
  <2>1. PICK r : r = [req[q] EXCEPT !.row = row]
    OBVIOUS
  <2>2. req[q] \in Request
    BY <1>0, <1>8 DEF Sniffed, unchecked, live
  <2>3. r \in Request /\ r.file = req[q].file
    BY <2>1, <2>2, RowGiven
  <2>4. /\ req'[q] = r /\ r # NoReq /\ r.file = req[q].file
        /\ \A s \in Requests : s # q => req'[s] = req[s]
        /\ UNCHANGED <<item, unlinking>>
    BY <1>0, <1>8, <2>1, <2>3 DEF Sniffed
  <2> QED BY <1>2, <1>3, <2>4
<1>9. ASSUME NEW q \in Requests, Dropped(q) \/ Removed(q) PROVE FALSE
  <2>1. /\ \A s \in Requests : s # q => req'[s] = req[s]
        /\ unlinking \subseteq unlinking' /\ UNCHANGED item
    BY <1>0, <1>9 DEF Dropped, Removed, dropFile, answered
  <2>2. req[q].file = f
    BY <1>2, <1>3, <2>1
  <2>3. f \in unlinking' \/ f \notin disk'
    BY <1>0, <1>1, <1>9, <2>2 DEF Dropped, Removed, dropFile
  <2> QED BY <1>2, <2>3
<1>10. ASSUME NEW q \in Requests, NEW a \in Users, NEW kind \in Kinds,
              NEW g \in Files \cup {NoFile}, Receive(q, a, kind, g)
       PROVE  FALSE
  BY <1>0, <1>2, <1>3, <1>10 DEF Receive, live
<1>11. ~ItemMoved
  <2>1. SUFFICES ASSUME ItemMoved PROVE FALSE
    OBVIOUS
  <2>2. UNCHANGED req /\ unlinking \subseteq unlinking'
    BY <2>1 DEF ItemMoved, PatchEvidence, DeleteEvidence, uploadVars, dropFile
  <2>3. PICK i \in Items : item[i] # NoRow /\ item[i].file = f
    BY <1>2, <1>3, <2>2
  <2>4. item'[i] # item[i]
    BY <1>2, <2>3
  <2>5. ASSUME NEW a \in Users, NEW d \in Dates, NEW b \in Bodies,
               PatchEvidence(a, i, d, b),
               \E p \in rebucket(item[i], d) : item'[i] = Redated(item[i], d, b, p)
        PROVE  FALSE
    <3>1. PICK p \in rebucket(item[i], d) : item'[i] = Redated(item[i], d, b, p)
      BY <2>5
    <3>2. PICK s : s = Redated(item[i], d, b, p)
      OBVIOUS
    <3>3. s \in ItemRow /\ s.file = item[i].file
      BY <2>3, <3>2, PatchedItem
    <3> QED BY <1>0, <1>2, <2>3, <3>1, <3>2, <3>3
  <2>6. ASSUME NEW a \in Users, DeleteEvidence(a, i) PROVE FALSE
    BY <1>0, <1>1, <1>2, <2>3, <2>6 DEF DeleteEvidence, dropFile
  <2> QED BY <1>4, <2>3, <2>4, <2>5, <2>6, ItemChanges
<1> QED BY <1>4, <1>5, <1>6, <1>7, <1>8, <1>9, <1>10, <1>11
        DEF EvidenceMoved, RequestMoved

\* Only a crash, or a link or note that came with a file, leaves a file on disk
\* that nobody knows.
THEOREM NoFileIsForgotten == EvidenceSpec => NoFileForgotten
<1>1. EvidenceInv /\ [EvidenceNext]_allVars =>
        [\A f \in disk' : owned(f) /\ ~owned(f)' =>
           \/ Crash
           \/ \E q \in Requests : live(q) /\ req[q].file = f /\ req[q].kind # "file"]_allVars
  BY HandedOn
<1> QED BY EvidenceInvariance, <1>1, PTL DEF EvidenceSpec, NoFileForgotten

-----------------------------------------------------------------------------
(* Audit rows *)

\* The audit row of one handler about item i.
ItemAuditRow(a, action, i) == [actor |-> a, action |-> action, entity |-> i]

\* A handler here writes one audit row at a time.
LEMMA OneAuditRow ==
    ASSUME NEW a, NEW action, NEW i, NEW rows, rows = {ItemAuditRow(a, action, i)}
    PROVE  /\ rows # {}
           /\ \A row \in rows : rows = {row} /\ row.action = action /\ row.actor = a
BY DEF ItemAuditRow

\* A handler that writes an item writes the audit row that says so, for the
\* uploader or an admin.
LEMMA AccountedStep ==
    ASSUME EvidenceInv, EvidenceNext, NEW i \in Items
    PROVE  LET rows == {row \in itemTrail' : row.entity = i}
               r == IF item[i] = NoRow THEN item'[i] ELSE item[i] IN
           /\ item'[i] # item[i] => rows # {}
           /\ \A row \in rows :
                /\ rows = {row}
                /\ row.action = "create" <=> item[i] = NoRow
                /\ row.action = "delete" <=> item'[i] = NoRow
                /\ row.actor = r.uploader \/ requireAdmin(row.actor)
<1> PICK rows : rows = {row \in itemTrail' : row.entity = i}
  OBVIOUS
<1> PICK r : r = IF item[i] = NoRow THEN item'[i] ELSE item[i]
  OBVIOUS
<1> SUFFICES /\ item'[i] # item[i] => rows # {}
             /\ \A row \in rows :
                  /\ rows = {row}
                  /\ row.action = "create" <=> item[i] = NoRow
                  /\ row.action = "delete" <=> item'[i] = NoRow
                  /\ row.actor = r.uploader \/ requireAdmin(row.actor)
  OBVIOUS
<1>0. /\ item \in [Items -> ItemRow \cup {NoRow}] /\ NoRow \notin ItemRow
      /\ EvidenceMoved
  BY EvidenceAssumption, EvidenceMoves DEF EvidenceInv, EvidenceTypeOK
<1>1. CASE item' = item /\ itemTrail' = {}
  BY <1>1
<1>2. CASE item' # item \/ itemTrail' # {}
  <2>1. ASSUME NEW q \in Requests, NEW j \in Items, NEW n \in ItemRow,
               Inserted(q, j, n)
        PROVE  /\ j # i => item'[i] = item[i] /\ rows = {}
               /\ j = i => /\ item[i] = NoRow /\ item'[i] = n
                           /\ rows = {ItemAuditRow(n.uploader, "create", i)}
    <3>1. /\ item[j] = NoRow /\ item' = [item EXCEPT ![j] = n]
          /\ itemTrail' = {ItemAuditRow(n.uploader, "create", j)}
      BY <2>1 DEF Inserted, Insert, auditItem, ItemAuditRow
    <3> QED BY <1>0, <3>1 DEF ItemAuditRow
  <2>2. ASSUME NEW a \in Users, NEW j \in Items, NEW d \in Dates, NEW b \in Bodies,
               PatchEvidence(a, j, d, b)
        PROVE  /\ j # i => item'[i] = item[i] /\ rows = {}
               /\ j = i => /\ item[i] # NoRow /\ item'[i] # NoRow
                           /\ a = item[i].uploader \/ requireAdmin(a)
                           /\ rows = {ItemAuditRow(a, "update", i)}
    <3>1. PICK p \in rebucket(item[j], d) :
            item' = [item EXCEPT ![j].date = d, ![j].body = b, ![j].period = p]
      BY <2>2 DEF PatchEvidence
    <3>2. PICK s : s = Redated(item[j], d, b, p)
      OBVIOUS
    <3>3. s \in ItemRow
      BY <2>2, <3>2, PatchedItem DEF PatchEvidence
    <3>4. item'[j] = s /\ \A k \in Items : k # j => item'[k] = item[k]
      BY <1>0, <3>1, <3>2 DEF Redated
    <3>5. itemTrail' = {ItemAuditRow(a, "update", j)}
      BY <2>2 DEF PatchEvidence, auditItem, ItemAuditRow
    <3>6. item[j] # NoRow /\ (a = item[j].uploader \/ requireAdmin(a))
      BY <2>2 DEF PatchEvidence, canSee, requireAdmin
    <3> QED BY <1>0, <3>3, <3>4, <3>5, <3>6 DEF ItemAuditRow
  <2>3. ASSUME NEW a \in Users, NEW j \in Items, DeleteEvidence(a, j)
        PROVE  /\ j # i => item'[i] = item[i] /\ rows = {}
               /\ j = i => /\ item[i] # NoRow /\ item'[i] = NoRow
                           /\ a = item[i].uploader \/ requireAdmin(a)
                           /\ rows = {ItemAuditRow(a, "delete", i)}
    <3>1. /\ item[j] # NoRow /\ item' = [item EXCEPT ![j] = NoRow]
          /\ itemTrail' = {ItemAuditRow(a, "delete", j)}
          /\ a = item[j].uploader \/ requireAdmin(a)
      BY <2>3 DEF DeleteEvidence, auditItem, ItemAuditRow, canSee, requireAdmin
    <3> QED BY <1>0, <3>1 DEF ItemAuditRow
  <2>4. CASE \E q \in Requests, j \in Items, n \in ItemRow : Inserted(q, j, n)
    <3>1. PICK q \in Requests, j \in Items, n \in ItemRow : Inserted(q, j, n)
      BY <2>4
    <3>2. CASE j = i
      <4>1. item[i] = NoRow /\ item'[i] = n /\ r = n /\ n # NoRow
        BY <1>0, <2>1, <3>1, <3>2
      <4>2. rows = {ItemAuditRow(n.uploader, "create", i)}
        BY <2>1, <3>1, <3>2
      <4>3. /\ rows # {}
            /\ \A row \in rows : /\ rows = {row} /\ row.action = "create"
                                 /\ row.actor = n.uploader
        BY <4>2, OneAuditRow
      <4> QED BY <4>1, <4>3
    <3> QED BY <2>1, <3>1, <3>2
  <2>5. CASE \E a \in Users, j \in Items, d \in Dates, b \in Bodies :
               PatchEvidence(a, j, d, b)
    <3>1. PICK a \in Users, j \in Items, d \in Dates, b \in Bodies :
            PatchEvidence(a, j, d, b)
      BY <2>5
    <3>2. CASE j = i
      <4>1. /\ item[i] # NoRow /\ item'[i] # NoRow /\ r = item[i]
            /\ a = item[i].uploader \/ requireAdmin(a)
            /\ rows = {ItemAuditRow(a, "update", i)}
        BY <2>2, <3>1, <3>2
      <4>2. /\ rows # {}
            /\ \A row \in rows : rows = {row} /\ row.action = "update" /\ row.actor = a
        BY <4>1, OneAuditRow
      <4> QED BY <4>1, <4>2
    <3> QED BY <2>2, <3>1, <3>2
  <2>6. CASE \E a \in Users, j \in Items : DeleteEvidence(a, j)
    <3>1. PICK a \in Users, j \in Items : DeleteEvidence(a, j)
      BY <2>6
    <3>2. CASE j = i
      <4>1. /\ item[i] # NoRow /\ item'[i] = NoRow /\ r = item[i]
            /\ a = item[i].uploader \/ requireAdmin(a)
            /\ rows = {ItemAuditRow(a, "delete", i)}
        BY <2>3, <3>1, <3>2
      <4>2. /\ rows # {}
            /\ \A row \in rows : rows = {row} /\ row.action = "delete" /\ row.actor = a
        BY <4>1, OneAuditRow
      <4> QED BY <4>1, <4>2
    <3> QED BY <2>3, <3>1, <3>2
  <2>7. ~LedgerStep /\ ~Crash /\ ~\E f \in Files : Unlinked(f)
    BY <1>2 DEF LedgerStep, evidenceVars, Crash, Unlinked
  <2>8. RequestMoved => \E q \in Requests, j \in Items, n \in ItemRow : Inserted(q, j, n)
    BY <1>2 DEF RequestMoved, Sniffed, Dropped, Removed, Receive
  <2> QED BY <1>0, <2>4, <2>5, <2>6, <2>7, <2>8 DEF EvidenceMoved, ItemMoved
<1> QED BY <1>1, <1>2

\* Every change to an item is accounted for by one truthful audit row of its
\* uploader or of an admin.
THEOREM ItemsAlwaysAccountedFor == EvidenceSpec => ItemsAccountedFor
<1>1. EvidenceInv /\ [EvidenceNext]_allVars =>
        [\A i \in Items :
           LET rows == {row \in itemTrail' : row.entity = i}
               r == IF item[i] = NoRow THEN item'[i] ELSE item[i] IN
           /\ item'[i] # item[i] => rows # {}
           /\ \A row \in rows :
                /\ rows = {row}
                /\ row.action = "create" <=> item[i] = NoRow
                /\ row.action = "delete" <=> item'[i] = NoRow
                /\ row.actor = r.uploader \/ requireAdmin(row.actor)]_allVars
  BY AccountedStep
<1> QED BY EvidenceInvariance, <1>1, PTL DEF EvidenceSpec, ItemsAccountedFor
=============================================================================
