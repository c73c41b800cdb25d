------------------------------ MODULE Evidence ------------------------------
(***************************************************************************)
(* Evidence items and the uploads directory (routes/evidence.js), over the *)
(* ledger they document.                                                   *)
(*                                                                         *)
(* Posting evidence is the one handler of this part that is not atomic.    *)
(* multer writes the file to disk before the handler runs, and the handler *)
(* awaits the content sniff between its checks and its INSERT: any other   *)
(* request may run in between.  What was read before (the caller's role,   *)
(* the period, the linked entry) stays with the request.  The unlink after *)
(* a refusal or a DELETE is asynchronous.  A crash loses the requests and  *)
(* the unlinks in flight, but no row and no file.                          *)
(*                                                                         *)
(* Abstracted: caption, url and note are one opaque body; the file keeps   *)
(* its random name when its extension is normalised; unlinks do not fail.  *)
(***************************************************************************)
EXTENDS Ledger

CONSTANTS Requests, Items, Files, NoReq, NoFile, NoEntry

VARIABLES item,       \* evidence_items
          disk,       \* the files in config.uploadsDir
          req,        \* req[q]: the POST /api/evidence in flight in slot q
          unlinking,  \* files whose asynchronous unlink has been issued
          itemTrail   \* the audit_log rows the latest handler here wrote

uploadVars == <<disk, req, unlinking>>
evidenceVars == <<item, uploadVars>>
allVars == <<vars, evidenceVars, itemTrail>>

Kinds == {"file", "link", "note"}

ItemRow == [project: Projects, period: Periods, uploader: Users,
            link: EntryIds \cup {NoEntry},        \* labour_entry_id, expense_id
            kind: Kinds, date: Dates, body: Bodies, file: Files \cup {NoFile}]

\* Until its checks have passed a request has no row; from then on it waits for
\* the sniff with the row it is going to INSERT.
Request == [user: Users, role: Roles, kind: Kinds, file: Files \cup {NoFile},
            row: ItemRow \cup {NoRow}]

ItemAudit == [actor: Users, action: {"create", "update", "delete"}, entity: Items]

ASSUME EvidenceAssumption ==
    /\ NoReq \notin Request
    /\ NoRow \notin ItemRow
    /\ NoFile \notin Files
    /\ NoEntry \notin EntryIds

EvidenceTypeOK ==
    /\ item \in [Items -> ItemRow \cup {NoRow}]
    /\ disk \subseteq Files
    /\ req \in [Requests -> Request \cup {NoReq}]
    /\ unlinking \subseteq Files
    /\ itemTrail \subseteq ItemAudit

EvidenceInit ==
    /\ Init
    /\ item = [i \in Items |-> NoRow]
    /\ disk = {}
    /\ req = [q \in Requests |-> NoReq]
    /\ unlinking = {}
    /\ itemTrail = {}

-----------------------------------------------------------------------------
auditItem(a, action, i) ==
    itemTrail' = {[actor |-> a, action |-> action, entity |-> i]}

live(q) == req[q] # NoReq

\* (FreshFiles_ByName, and names below that end in a mistake, are what the
\* properties are there to catch; EvidenceSpec uses none.)
FreshFiles_ByName == Files

\* File names are random: a new one is on no disk, in no row and in no request.
FreshFiles ==
    Files \ (disk \cup unlinking
              \cup {item[i].file : i \in {j \in Items : item[j] # NoRow}}
              \cup {req[q].file : q \in {s \in Requests : live(s)}})

answered(q) == req' = [req EXCEPT ![q] = NoReq]

dropFile_Never(f) == UNCHANGED unlinking

dropFile_Blind(f) == unlinking' = unlinking \cup {f}

\* fs.unlink without waiting, when the request or the row has a file at all.
dropFile(f) == unlinking' = unlinking \cup ({f} \ {NoFile})

\* requireAuth has passed and multer stores the multipart file, if there is one.
Receive(q, a, kind, f) ==
    /\ ~live(q)
    /\ requireAuth(a)
    /\ f \in FreshFiles \cup {NoFile}
    /\ req' = [req EXCEPT ![q] = [user |-> a, role |-> role[a], kind |-> kind,
                                  file |-> f, row |-> NoRow]]
    /\ disk' = disk \cup ({f} \ {NoFile})
    /\ itemTrail' = {}
    /\ UNCHANGED <<vars, item, unlinking>>

unchecked(q) == live(q) /\ req[q].row = NoRow

sniffing(q) == live(q) /\ req[q].row # NoRow

\* multer fails (size, type, broken stream): the partial file is removed before
\* the answer.
UploadFails(q) ==
    /\ unchecked(q)
    /\ disk' = disk \ {req[q].file}
    /\ answered(q)
    /\ itemTrail' = {}
    /\ UNCHANGED <<vars, item, unlinking>>

\* The handler refuses the request: the catch at its end.
Refuse(q) ==
    /\ unchecked(q)
    /\ dropFile(req[q].file)
    /\ answered(q)
    /\ itemTrail' = {}
    /\ UNCHANGED <<vars, item, disk>>

\* The attachment is asked for as it is now, the role as it was at requireAuth.
assertAttached(r, c) == r.role = "admin" \/ att[r.user][c] = "active"

\* A link must be on the project and brings its period along, open or closed;
\* without a link the date decides.
periodFor(pr, link, d) ==
    IF link = NoEntry THEN findOpenPeriod(ClaimantOf[pr], d)
    ELSE {p \in Periods : /\ entry[link] # NoRow
                          /\ entry[link].project = pr
                          /\ entry[link].period = p}

NewItem(r, pr, p, link, d, b) ==
    [project |-> pr, period |-> p, uploader |-> r.user, link |-> link,
     kind |-> r.kind, date |-> d, body |-> b,
     file |-> IF r.kind = "file" THEN r.file ELSE NoFile]

\* The INSERT and its audit row; the foreign key asks that the linked entry
\* still exists.
Insert(q, i, row) ==
    /\ item[i] = NoRow
    /\ row.link # NoEntry => entry[row.link] # NoRow
    /\ item' = [item EXCEPT ![i] = row]
    /\ answered(q)
    /\ auditItem(req[q].user, "create", i)
    /\ UNCHANGED <<vars, disk, unlinking>>

\* The checks pass.  A file goes on to the sniff; a link or a note is inserted
\* at once, and a file that came with it stays behind.
Check(q, i, pr, link, d, b) ==
    /\ unchecked(q)
    /\ assertAttached(req[q], ClaimantOf[pr])
    /\ \E p \in periodFor(pr, link, d) :
         LET row == NewItem(req[q], pr, p, link, d, b) IN
         \/ /\ req[q].kind # "file"
            /\ Insert(q, i, row)
         \/ /\ req[q].kind = "file" /\ req[q].file # NoFile
            /\ req' = [req EXCEPT ![q].row = row]
            /\ itemTrail' = {}
            /\ UNCHANGED <<vars, item, disk, unlinking>>

\* The sniff accepts the content.
Store(q, i) == sniffing(q) /\ Insert(q, i, req[q].row)

\* The sniff accepts it but the linked entry is gone: the foreign key refuses
\* the INSERT, and the catch drops the file.
StoreFails(q) ==
    /\ sniffing(q)
    /\ req[q].row.link # NoEntry /\ entry[req[q].row.link] = NoRow
    /\ dropFile(req[q].file)
    /\ answered(q)
    /\ itemTrail' = {}
    /\ UNCHANGED <<vars, item, disk>>

\* The sniff rejects the content: the file is removed before the answer, and
\* once more, to no effect, by the catch.
SniffRejects(q) ==
    /\ sniffing(q)
    /\ disk' = disk \ {req[q].file}
    /\ dropFile(req[q].file)
    /\ answered(q)
    /\ itemTrail' = {}
    /\ UNCHANGED <<vars, item>>

Unlinked(f) ==
    /\ f \in unlinking
    /\ disk' = disk \ {f}
    /\ unlinking' = unlinking \ {f}
    /\ itemTrail' = {}
    /\ UNCHANGED <<vars, item, req>>

-----------------------------------------------------------------------------
canSee_Anyone(a, row) == TRUE

canSee(a, row) == role[a] = "admin" \/ row.uploader = a

mutable_Always(row) == TRUE

\* "fiscal period is closed; evidence is retained"
mutable(row) == period[row.period].status # "closed"

\* PATCH /api/evidence/:id.  Moving the date moves the period, also for
\* evidence that is linked to an entry.
PatchEvidence(a, i, d, b) ==
    /\ requireAuth(a)
    /\ item[i] # NoRow
    /\ canSee(a, item[i])
    /\ mutable(item[i])
    /\ \E p \in rebucket(item[i], d) :
         item' = [item EXCEPT ![i].date = d, ![i].body = b, ![i].period = p]
    /\ auditItem(a, "update", i)
    /\ UNCHANGED <<vars, uploadVars>>

\* DELETE /api/evidence/:id: the row at once, its file later.
DeleteEvidence(a, i) ==
    /\ requireAuth(a)
    /\ item[i] # NoRow
    /\ canSee(a, item[i])
    /\ mutable(item[i])
    /\ item' = [item EXCEPT ![i] = NoRow]
    /\ dropFile(item[i].file)
    /\ auditItem(a, "delete", i)
    /\ UNCHANGED <<vars, disk, req>>

\* The process dies and starts again.
Crash ==
    /\ req' = [q \in Requests |-> NoReq]
    /\ unlinking' = {}
    /\ itemTrail' = {}
    /\ UNCHANGED <<vars, item, disk>>

linked(e) == \E i \in Items : item[i] # NoRow /\ item[i].link = e

\* A step of the ledger; the foreign key keeps entries that evidence links to.
LedgerStep ==
    /\ Next
    /\ \A e \in EntryIds : linked(e) => entry'[e] # NoRow
    /\ itemTrail' = {}
    /\ UNCHANGED evidenceVars

EvidenceNext ==
    \/ LedgerStep
    \/ Crash
    \/ \E f \in Files : Unlinked(f)
    \/ \E q \in Requests :
         \/ UploadFails(q)
         \/ Refuse(q)
         \/ StoreFails(q)
         \/ SniffRejects(q)
         \/ \E i \in Items : Store(q, i)
         \/ \E a \in Users, kind \in Kinds, f \in Files \cup {NoFile} :
              Receive(q, a, kind, f)
         \/ \E i \in Items, pr \in Projects, link \in EntryIds \cup {NoEntry},
               d \in Dates, b \in Bodies : Check(q, i, pr, link, d, b)
    \/ \E a \in Users, i \in Items :
         \/ \E d \in Dates, b \in Bodies : PatchEvidence(a, i, d, b)
         \/ DeleteEvidence(a, i)

EvidenceSpec == EvidenceInit /\ [][EvidenceNext]_allVars

-----------------------------------------------------------------------------
(* Properties *)

\* Every item's period exists and belongs to the claimant of its project; an
\* item without a link has a date its period covers; an item with a link has its
\* entry (evidence.js:233-246 and :352-358, against the deletions, moves and
\* overlapping periods of the ledger while the sniff is awaited).
InPlace(row) ==
    LET p == period[row.period] IN
    /\ p # NoRow
    /\ p.claimant = ClaimantOf[row.project]
    /\ row.link # NoEntry => entry[row.link] # NoRow
    /\ row.link = NoEntry => p.start <= row.date /\ row.date <= p.end

EvidenceInPlace == \A i \in Items : item[i] # NoRow => InPlace(item[i])

\* Every item of kind file has its file on disk, to itself: no other item has
\* it, no request is about to drop it, no unlink is on its way to it, whatever
\* was refused, deleted or lost in a crash (evidence.js:244-298, :388-391).
HasItsFile(i) ==
    LET f == item[i].file IN
    /\ item[i].kind = "file" <=> f # NoFile
    /\ f # NoFile =>
         /\ f \in disk \ unlinking
         /\ \A j \in Items \ {i} : item[j] # NoRow => item[j].file # f
         /\ \A q \in Requests : live(q) => req[q].file # f

ItemsHaveTheirFiles == \A i \in Items : item[i] # NoRow => HasItsFile(i)

owned(f) ==
    \/ f \in unlinking
    \/ \E i \in Items : item[i] # NoRow /\ item[i].file = f
    \/ \E q \in Requests : live(q) /\ req[q].file = f

\* A file stays on disk without an item, a request or an unlink that knows it
\* only after a crash or when it came with a link or a note: every other way out
\* of the handler takes its file along (evidence.js:136-157, :196-204, :294-298).
NoFileForgotten ==
    [][\A f \in disk' : owned(f) /\ ~owned(f)' =>
         \/ Crash
         \/ \E q \in Requests : live(q) /\ req[q].file = f /\ req[q].kind # "file"]_allVars

\* While a period is closed its evidence is retained: no item of it is edited,
\* moved or deleted and its file stays on disk, whatever unlinks are under way
\* (evidence.js:379-385 "closing a fiscal period locks all its evidence").
RetainedWhileClosed ==
    [][\A i \in Items : item[i] # NoRow /\ closed(item[i].period) =>
         /\ item'[i] = item[i]
         /\ item[i].kind = "file" => item[i].file \in disk']_allVars

\* Every change to an item leaves one audit row that says what happened, and it
\* names the uploader or an admin: nobody else touches evidence, even when the
\* INSERT comes long after the session was looked at (evidence.js:100-104).
ItemsAccountedFor ==
    [][\A i \in Items :
         LET rows == {row \in itemTrail' : row.entity = i}
             r == IF item[i] = NoRow THEN item'[i] ELSE item[i] IN
         /\ item'[i] # item[i] => rows # {}
         /\ \A row \in rows :
              /\ rows = {row}
              /\ row.action = "create" <=> item[i] = NoRow
              /\ row.action = "delete" <=> item'[i] = NoRow
              /\ row.actor = r.uploader \/ requireAdmin(row.actor)]_allVars

\* "labour_entry is not on this project" refuses a link to another project's
\* entry (evidence.js:236): no item is linked to one.
LinkedOnItsProject ==
    \A i \in Items : item[i] # NoRow /\ item[i].link # NoEntry
                       => entry[item[i].link].project = item[i].project
=============================================================================
