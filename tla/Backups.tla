------------------------------ MODULE Backups -------------------------------
(***************************************************************************)
(* Backups: a snapshot of the database, then a tarball of the uploads,     *)
(* while the server goes on storing and deleting evidence and building     *)
(* bundles, and what a restore makes of them (tools/backup.js, README.md   *)
(* "Backup and restore").                                                  *)
(*                                                                         *)
(* Of the database two tables matter: evidence_items, for which an item    *)
(* stands with its file, and t661_exports with its bundle_path.  Of the    *)
(* backups only the latest, which no prune deletes, is kept.               *)
(***************************************************************************)
EXTENDS Bundles

CONSTANTS Items,      \* pieces of evidence of kind file
          NoBackup, NoTar

VARIABLES item,    \* "none", "received" (a file, its row to come), "stored",
                   \* "dropped" (a file, its unlink to come), "stray" (a file
                   \* nobody knows of), "bare" (only a row)
          backup,  \* the latest snapshot with its tarball
          lost     \* ghost: items deleted since that snapshot

allVars == <<bundleVars, item, backup, lost>>

BackupsInit ==
    /\ BundlesInit
    /\ item = [i \in Items |-> "none"]
    /\ backup = NoBackup
    /\ lost = {}

-----------------------------------------------------------------------------
hasRow(i) == item[i] \in {"stored", "bare"}

hasFile(i) == item[i] \in {"received", "stored", "dropped", "stray"}

\* A process that ends forgets the uploads and unlinks it was about to finish.
stepOf(i) ==
    IF server # "down" /\ server' = "down" /\ item[i] \in {"received", "dropped"}
    THEN "stray" ELSE item[i]

BundleStep ==
    /\ BundlesNext
    /\ item' = [i \in Items |-> stepOf(i)]
    /\ UNCHANGED <<backup, lost>>

\* multer writes the upload; the row follows, or the request ends without it.
Received(i) ==
    /\ server = "up"
    /\ item[i] = "none"
    /\ item' = [item EXCEPT ![i] = "received"]
    /\ UNCHANGED <<bundleVars, backup, lost>>

Stored(i) ==
    /\ server # "down"
    /\ item[i] = "received"
    /\ item' = [item EXCEPT ![i] = "stored"]
    /\ UNCHANGED <<bundleVars, backup, lost>>

\* DELETE /api/evidence/:id drops the row, fs.unlink the file later.
Deleted(i) ==
    /\ server = "up"
    /\ hasRow(i)
    /\ item' = [item EXCEPT ![i] = IF hasFile(i) THEN "dropped" ELSE "none"]
    /\ lost' = lost \cup {i}
    /\ UNCHANGED <<bundleVars, backup>>

Dropped(i) ==
    /\ item[i] = "dropped"
    /\ item' = [item EXCEPT ![i] = "none"]
    /\ UNCHANGED <<bundleVars, backup, lost>>

order_Swapped == <<"uploads", "db">>

\* main() of backup.js.
order == <<"db", "uploads">>

\* taken: how many of its halves backup.js has got through.
EmptyBackup == [rows |-> {}, paths |-> [x \in Exports |-> FALSE], tar |-> NoTar, taken |-> 0]

BackupStarts ==
    /\ backup # NoBackup => backup.taken = 2
    /\ backup' = EmptyBackup
    /\ lost' = {}
    /\ UNCHANGED <<bundleVars, item>>

due(half) == backup # NoBackup /\ backup.taken < 2 /\ order[backup.taken + 1] = half

\* db.backup() copies the database as it is when it ends.
Snapshot ==
    /\ due("db")
    /\ backup' = [backup EXCEPT !.rows = {i \in Items : hasRow(i)}, !.paths = bundlePath,
                                !.taken = @ + 1]
    /\ lost' = {}
    /\ UNCHANGED <<bundleVars, item>>

\* tar copies the uploads; when it fails, or there are none, the snapshot stays
\* alone.
Tar ==
    /\ due("uploads")
    /\ \E tar \in {{i \in Items : hasFile(i)}, NoTar} :
         backup' = [backup EXCEPT !.tar = tar, !.taken = @ + 1]
    /\ UNCHANGED <<bundleVars, item, lost>>

\* The operator restores: on this host, where uploads and bundles are still
\* there, or on a new one, where there is only the tarball.
Restore(newHost) ==
    /\ server = "down"
    /\ backup # NoBackup
    /\ backup.taken = 2
    /\ cleaner.pc = "idle"
    /\ \E unpack \in {newHost, TRUE} :
         LET survives(i) == \/ ~newHost /\ hasFile(i)
                            \/ unpack /\ backup.tar # NoTar /\ i \in backup.tar
         IN item' = [i \in Items |->
                       IF i \in backup.rows THEN IF survives(i) THEN "stored" ELSE "bare"
                       ELSE IF survives(i) THEN "stray" ELSE "none"]
    /\ bundlePath' = backup.paths
    /\ file' = IF newHost THEN [x \in Exports |-> NoFile] ELSE file
    /\ tainted' = IF newHost THEN {} ELSE tainted \cup {x \in Exports : onDisk(x)}
    /\ UNCHANGED <<serverVars, cleaner, backup, lost>>

BackupsNext ==
    \/ BundleStep
    \/ BackupStarts
    \/ Snapshot
    \/ Tar
    \/ \E newHost \in BOOLEAN : Restore(newHost)
    \/ \E i \in Items : Received(i) \/ Stored(i) \/ Deleted(i) \/ Dropped(i)

BackupsSpec == BackupsInit /\ [][BackupsNext]_allVars

-----------------------------------------------------------------------------
(* Properties *)

\* A restore leaves an item without its file only if somebody deleted the item
\* since the snapshot, or if the tarball failed: what is uploaded between the
\* two halves of a backup is in neither or in both (backup.js:113-125).
RestoreKeepsFiles ==
    [][\A i \in Items : item[i] # "bare" /\ item'[i] = "bare"
                          => i \in lost \/ backup.tar = NoTar]_allVars
=============================================================================
