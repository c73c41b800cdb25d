# A verification development of sred

sred keeps the records behind SR&ED tax claims: who worked how long on which
project, what was spent, what evidence there is, and the T661 figures that
follow. It is an Express server on SQLite (`src/src`), a browser application
(`src/public`) and a few operator tools (`src/tools`). This directory holds
TLA+ models of its core, the TLC runs that check them on small instances, and
proofs, checked by TLAPS, that the main properties hold for every value of the
constants. Paths below start at the root of the repository, `src/`.

Contents: 1 the system, 2 the modules and the code, 3 the runs, 4 fairness and
liveness, 5 the proofs, 6 where the code and its documents disagree, 7 what is
not modelled, 8 the plan.

## 1 The system

One Node process serves everything. better-sqlite3 is synchronous, so a handler
that has no `await` between its first read and its last write runs alone: it is
one action of a model. Statements commit one by one except inside
`db.transaction`. Concurrency comes from what is left: handlers that await (the
content sniff of an upload, the verification of a passkey, a zip build, an
e-mail), callbacks nobody waits for (`fs.unlink`), other processes (the cleanup
and backup tools), several browsers and tabs with state of their own, and
crashes.

| Component | Code | State | Operations |
| --- | --- | --- | --- |
| Accounts | `src/routes/users.js`, `user-claimants.js`, `src/auth/middleware.js` | `users`, `user_claimants`, the marker `deactivated_with_user_id` | create, enrol, patch, deactivate, reactivate, attach, patch attachment |
| Ledger | `src/routes/labour.js`, `expenses.js`, `periods.js`, `claimants.js`, `src/lib/route-helpers.js` | `labour_entries`, `expenses`, `fiscal_periods` | post, patch, delete, approve, reject, bulk approve, import; create, close, reopen a period |
| Audit log | `src/lib/audit.js` | `audit_log` | one row per change; written by the others, read by `audit-log.js` |
| Projects | `src/routes/projects.js`, `public/admin/projects/edit.js` | `projects`, `project_revisions`, assignments; the open edit forms | create, load, save with `__updated_at`, assign |
| Evidence | `src/routes/evidence.js` | `evidence_items`, the uploads directory | upload (store, check, sniff, insert), patch, delete |
| Refresh tokens | `src/auth/refresh.js`, `src/routes/auth.js`, `src/lib/refresh-cookie.js` | `refresh_tokens`, cookies | mint, rotate, replay, logout |
| Enrolment | `src/auth/webauthn.js`, `tokens.js`, `src/routes/auth.js`, `src/lib/email.js` | `credentials`, `webauthn_challenges`, `email_tokens` | two-step ceremonies, magic links |
| T661 and its renderings | `src/lib/t661.js`, `wage-caps.js`, `format.js` | none: functions of the approved rows | compute, compare, print |
| Exports and bundles | `src/routes/exports.js`, `tools/cleanup-bundles.js` | `t661_exports`, the bundle directory | export, build a zip, serve, clean up |
| Expense fields, claimant settings | `src/routes/expenses.js`, `claimants.js`, `public/features.js` | columns that depend on category and currency | normalise on post and patch; the forms |
| Database | `src/db/migrate.js` | `schema_migrations` | apply, check foreign keys |
| Server, mail, limits, logs | `src/server.js`, `src/lib/*` | sockets, timers | shut down, send, throttle |
| SPA | `public/*` | JWT in storage, one refresh in flight | fetch with retry, forms |
| Tools | `tools/*`, `src/scripts/*` | files | backup, seed, audit reports |

How they interact: every handler asks `requireAuth` for the caller's row as it is
now, so the accounts decide what each of the others may do; entries and evidence
are filed under the open period of the claimant of their project; evidence holds
foreign keys into the ledger and so blocks deletions there; every change leaves an
audit row through the same helper; exports read all of it.

What is hard here, and what correctness means for each part:

- **Accounts.** Reactivation must undo deactivation exactly, though attachments
  are patched, and users disabled by another route, in between.
- **Ledger.** Periods open, close and overlap while entries move between them. A
  closed period must not change but by review, an approved entry must not change behind its
  reviewer's back, and every entry must lie in a period of the right claimant
  that covers its date.
- **Projects.** Forms are loaded, kept open, submitted twice and answered late;
  the clock can step back. No edit may overwrite one its author has not seen, and
  the history must tell the whole narrative.
- **Evidence.** An upload reads the database, awaits, and writes; files are
  dropped by callbacks; the process may die anywhere. Items must keep their files
  and their place, and a closed period its evidence.
- **Refresh tokens.** Requests are resent, answers are lost or overtaken, two tabs
  share a cookie, a crash splits a rotation. A login must never have two usable
  tokens, and only a usable one may buy the next.
- **Enrolment.** A ceremony is two requests, and the second awaits a verdict between
  taking a challenge and writing anything; two ceremonies of one user share the
  newest challenge; the passkey is stored before the link is spent; the mail of an
  invitation may never be answered. A link and a signature must count once, and who
  was let in must be able to come back.
- **Bundles.** Two streams, an unlink and a response end a build in any order; a
  second process nulls and unlinks what the server serves; operators use `rm`;
  everything may die half-way. What is served must be whole, every request answered
  once, a dangling row cleared, and a signal must end the process.
- **Backups.** The database and the uploads are copied one after the other while
  both change. A restore must not lose the file of an item it brings back.
- **Claims.** An expense's category, currency and rate have companions that come and
  go together; some rows are older than the columns; forms show defaults for what a
  row lacks; the figures of a closed period rest on pay, on who is a specified
  employee, on project types and on reviews, none of which a period closes. No legal
  sequence of edits may end in a refusal of the database, move an amount to another
  line unasked, or change closed figures in a way nobody knows of; the three formats of
  a T661 must print the same.

`PROJECT.json` lists every hazard at its line, with the properties that cover it
or the reason why none does yet.

## 2 The modules and the code

| Module | What it is |
| --- | --- |
| `Accounts` | users, roles, attachments and the reactivation marker |
| `Ledger` | extends `Accounts`: periods, entries, reviews, the audit rows of the latest step |
| `PeriodBooks` | abstract: records in books that are open or closed; `Ledger` implements it |
| `Evidence` | extends `Ledger`: evidence items, files, uploads in flight, crashes |
| `Projects` | projects, revisions, open edit forms, the clock |
| `EditSessions` | abstract: documents, copies, and saves from fresh copies; `Projects` implements it |
| `RefreshTokens` | refresh tokens, devices, the network, crashes |
| `Enrolment` | links, challenges, passkeys, the two halves of a ceremony, the await |
| `Bundles` | builds, downloads, the cleanup process, shutdown and crashes |
| `Backups` | extends `Bundles`: evidence files, the two halves of a backup, restores |
| `ExpenseFields` | functions: the validators, POST and PATCH over the fields, the forms |
| `T661` | functions: the T661 of a period, its renderings, the comparison |
| `Claims` | extends `ExpenseFields`, instantiates `T661`: expenses, periods, currency, and what a T661 reads beside them: pay, the specified flag, project types, reviews of labour |
| `LedgerProofs`, `EvidenceProofs`, `AccountsProofs`, `ProjectsProofs`, `RefreshTokensProofs`, `EnrolmentProofs`, `BundlesProofs`, `ClaimsProofs` | the proofs; `BundlesProofs` is about `Backups` too, `AccountsProofs` about `MCAccounts` with its history variables |
| `MCLedger`, `MCAccounts`, `MCEvidence`, `MCProjects`, `MCRefreshTokens`, `MCEnrolment`, `MCBundles`, `MCBackups`, `MCClaims` | instances for TLC |

Conventions. A database row is a record; an id that names no row has the value
`NoRow`. Actions have the handlers' names and take the caller as their first
argument, where who calls makes a difference. A refused request and a request that
changes nothing are stuttering steps. A definition whose name has a suffix such as `_Never` or `_AnyStatus` is a
plausible mistake in the definition it is named after; no specification uses it,
and `PROJECT.json` says which property must fail when it takes that definition's
place.

**Accounts.** `role`, `ustatus`, `att`, `marker` are the columns of the same
meaning; a `user_claimants` row is named by its user and claimant, which are
UNIQUE, and "absent" and "none" stand for a row that does not exist.
`PatchUser` writes role and status as given, on the caller too, as the code does:
nothing stops the last admin from disabling himself. `PATCH /api/user-claimants/:id` also
writes the title, the start date and `is_specified_employee`, which no rule of the accounts
reads; the flag is a variable of `Claims`.

**Ledger.** Labour entries and expenses have the same life cycle, through the same
helpers of `route-helpers.js`, so `entry` is one function over two disjoint sets of
ids; `findOpenPeriod`, `resolveUserClaimant`, `isOwnerOrAdmin`, `assertEditable`,
`selfApproved` keep the source's names. `findOpenPeriod` is the set of all
matching periods: the query has `LIMIT 1` and no `ORDER BY`, and overlapping periods
are accepted, so the code may get any of them. `rebucket` is what PATCH does with a
date: the same date keeps the period, a new one is looked up. Ids of deleted rows
are free again, as rowids are. Hours, amounts, categories and texts are one opaque
body. `trail` holds the audit rows of the latest handler.

**Evidence.** A `POST /api/evidence` is a slot of `req` and goes through `Receive`
(requireAuth, then multer stores the file), `Check` (attachment, link, period; a
link or a note is inserted at once), and, for a file, `Store`, `StoreFails` or
`SniffRejects` when the awaited sniff answers: the row that is inserted then is the
one computed before. `UploadFails` and `Refuse` are the other ways out. Files
dropped by `fs.unlink` without waiting are in `unlinking` until `Unlinked`. `Crash`
empties `req` and `unlinking` and keeps rows and files. `LedgerStep` is any step of
the ledger that the foreign keys of evidence allow.

**Projects.** A tab has loaded a form with the row and its `updated_at`; it may
submit any number of times. `Patch` is the arrival of a submission whose
`__updated_at` is current; any other is answered 409. `nextStamp` is the bump that
keeps `updated_at` growing when the clock does not. A lost answer needs no action of
its own: it is a tab that does not reload.

**RefreshTokens.** `token` is the table, with a column it does not have: `root`, the
token the login began with, which no guard reads. A device is what keeps one token: a
cookie jar or an API client. `Ask`, `Deliver`, `Lose` are the network: requests may be
sent again, answers lost or delivered in any order, the latest to arrive is kept.
`Rotate` is the handler when it runs to its end, `RotateCrash` when the process dies
between the UPDATE and the INSERT, which are in no transaction. A request that the CSRF
guard stops is a lost one. `Enrol` is the end of register/finish, which asks nothing of
the user's status; `Login` does. `Prunable` leaves open which expired rows the textual
comparison of timestamps spares.

**Enrolment.** `cred`, `challenge` and `link` are tables by row id; `ceremony[n]` is what
a browser knows between the halves, `request[q]` what the server's second half knows
after its await has begun: the challenge it took (`expected`), the counter it read
(`read`) and whether the new passkey is already in the table (`stored`). Before the
await: `RegisterFinish`, `LoginFinish`. After it: `KeyStored` and then `RegisterEnds`, or
`LoginEnds`, or `Refused`. A response may be posted any number of times. `opened` and
`accepted` are ghosts that count; no guard reads them. Signatures belong to the library:
`genuine` and `advances` are what it promises. A challenge may live for any time, as the
textual comparison of its expiry leaves open. The reapers of expired rows are left out:
no query finds those rows. `sending` holds the links whose mail an invitation awaits.

**Bundles.** An export has one file name, so `file[x]` is the directory entry; a build
that opens a name truncates what is there, and one whose name was unlinked goes on
writing where nobody looks (`linked`). `alone` tells that nobody else writes the same
file. `OpenFile`, `Flush`, `Close`, `Unlinked`, `OutputFails`, `ArchiveFails` are the
events of one build, in any order the streams allow; `answers` counts its responses.
`cleaner` is the other process, with a program counter that stops between its UPDATE and
its unlink. `tainted` is a ghost: the exports whose builds overlapped, which the 409 does
not prevent, or whose row was restored over a surviving directory. Nothing is claimed of
those (section 6).

**Backups.** An item is a row, a file, both or neither, by its state; `Snapshot` and `Tar`
are the halves of `backup.js`, in the order `order` gives; `Restore` is the operator's,
on the same host or a new one, with or without the tarball. `lost` is a ghost: items
deleted since the snapshot.

**ExpenseFields, Claims.** A body is a record in which `Omitted` stands for a field that
is not there. `posted`, `inserted` and `mayPost` are POST; `withoutLeftovers`, `merged`
and `passes` are PATCH with its auto-null part and its waivers for old rows; `columnsFit`
are the CHECKs of single columns, whose failure is a 500 that changes nothing, and
`CompanionsFit` those over two. `formOf`, `shown` and `bodyOf` are the inline editor.
`Claims` has one claimant and one employee; who may post where, and how labour is posted,
edited and deleted, is `Ledger`'s subject. Here a day belongs to one period for good, and
the entries of labour stand, approved at first, and are reviewed again. `Seeds` are the
rows an installation may hold that is older than migrations 014 and 015. The method of a
claimant never changes, so it is a parameter of the figures. What a T661 reads and no
period closes are the variables `costVars`, with an action for each handler that writes
them: `pay` (`PostCompensation`), `specified` (`PatchAttachment`: the flag decides whether
the wage cap applies, t661.js:79-88), `type` (`CreateProject`, `Retype`) and
`approvedLabour` (`ApproveLabour`, `RejectLabour`). `bookOf` is everything `computeT661`
reads, at the moment it reads it.

**T661.** Money is in cents, hours in quarters of an hour, rates in hundredths, and a
quotient is rounded exactly where the code rounds a float. A rendering is the figures it
prints, each with the form line printed beside it: `toMarkdown`, `toCsv` and `toPdf` are
translated one by one, each from its own code, and so are the three of a comparison.

## 3 The runs

| Run | Instance and bounds | What it checks |
| --- | --- | --- |
| `ledger` (1 min) | two admins, one employee; two claimants, one project; two periods on three dates; two labour entries or one expense | `ReviewConsistent`, `EntriesBucketed`, `ClosedPeriodFrozen`, `ApprovedContentLocked`, `EveryChangeLogged`, `EmployeesKeepToTheirOwn`, and `ImplementsBooks`: the ledger implements `PeriodBooks` |
| `accounts` | an admin and a user, two claimants, with history variables | `DownWithUserIsMarked`, `ReactivateUndoesDeactivate` |
| `reactivate_spares` | the same | that reactivation revives an attachment switched off on its own (expected violation) |
| `projects` (1 min) | two projects, two tabs, two fields, two values, stamps to 3 | `StampNamesVersion`, `HistoryTellsNarrative`, and `NoLostUpdate`: `Projects` implements `EditSessions` |
| `evidence` (1 min) | one admin, one employee; two periods; one entry; one request, one item, two files | `EvidenceInPlace`, `ItemsHaveTheirFiles`, `NoFileForgotten`, `RetainedWhileClosed`, `ItemsAccountedFor` |
| `evidence_on_other_project` | two projects, one period | that an item can end up on an entry of another project (expected violation) |
| `refresh_tokens` | two users, three devices, three tokens; one request and one answer under way | `OneLivePerLogin`, `AlarmEndsTheFamily`, `NewTokensAreEarned` |
| `enrolment` (1 min) | one user with two passkeys, one of them counting; one link; two browsers, two second halves, two challenges | `LinkOpensOnce`, `ResponseAcceptedOnce`, `EnrolledHasKey`, `InviteIsAnswered` |
| `counter_falls` | one counting passkey, three challenges, counts to 2 | that two logins verified together can lower the counter on file (expected violation) |
| `bundles` (2 min) | one export, two builds, one download; the cleanup job dies once | `PublishedIsWhole`, `EachPostAnswered`, `DanglingIsCleared`, `ShutdownEnds` |
| `backups` (1 min) | one item, one export, one build at a time | `RestoreKeepsFiles` |
| `claims` (2 min) | two expenses, one of them touched; two days in two periods, two currencies, one rate, one amount; four sets of old rows; three entries, one of them overtime and one reviewed again; pay that is back-dated, a flag that is set and lifted, a project that is created and changes its type | `CategoryMayChange`, `RouteKnowsTheChecks`, `UntouchedSaveKeepsLine`, `FiguresAddUp`, `FormatsAgree`, `ClosedFiguresStand` |

The runs of `ledger`, `accounts`, `projects`, `evidence` and `refresh_tokens` also check
a type invariant; those of `Enrolment`, `Bundles` and `Claims` are proved.

Why the bounds are enough to meet the interesting cases:

- *Ledger.* A third user is needed so that one admin reviews what another has
  approved, and an admin is demoted and promoted in between; two overlapping periods
  and three dates give a date in both, one in each alone, and moves from one to the
  other; two claimants give a period and an attachment of the wrong claimant. Roles
  and attachments change only for one admin and one employee (`Casting`), since every
  account state is the subject of `accounts`. Labour entries and expenses do not exist
  together here: no handler looks at one to decide about the other.
- *Accounts.* The admin handlers touch one user at a time and treat attachments one
  by one; two claimants show that one attachment can go down with the user while the
  other is off already. That run has `CHECK_DEADLOCK FALSE` because the only admin can
  disable himself with PATCH, after which the system really has stopped.
- *Projects.* Two tabs on the same project are a lost update, two projects show that
  a save of one leaves the other's forms fresh, a field outside the narrative shows
  saves without a revision. The clock goes back and forth over four readings, below,
  at and above the stamps.
- *Evidence.* One request is enough for an upload to race everything else, because the
  other actors are the ledger, deletions, unlinks and crashes; two files show a name
  taken while the other is being dropped. Entries stay unreviewed here, since no
  evidence handler reads the review. Notes go the way of links.
- *Refresh tokens.* Three tokens are a login, its rotation and a second login, or two
  rotations; pruned names come back. One request and one answer at a time already
  arrive in any order relative to each other's token, since a request that waits while
  another device acts is the stale one.

- *Enrolment.* Two browsers and two second halves are what it takes for two ceremonies of
  one user to take each other's challenge, for a response to be posted twice at once, and
  for two registrations to go through one link. A second user would add challenges that
  no query of the first one finds. The counter needs three challenges to fall: one to
  register with and two that are awaited together, so it has a run of its own.
- *Bundles.* Builds of different exports share no file and no row; two of one export
  overlap, follow one another, or find what the other left. The cleanup process may die
  once at every point, and then runs again as often as it likes.
- *Backups.* Items do not look at one another; one goes through every state at every
  point of a backup. The builds of one export are enough to leave a path in the snapshot
  that the directory no longer knows.
- *Claims.* One expense is written in every way, against one that stands in the other
  category and currency, so that sums, lines and filters have something to add and to
  leave out. One amount and one rate suffice: both are only multiplied, and the amount is
  odd so that rounding shows. Two years, of which one has no cap of its own; hours with
  and without overtime; a period that nothing prices until the pay is back-dated. Of what
  no period closes one thing of each kind changes, as often as it likes: the pay of the one
  attachment (once), its flag, the type of the touched expense's project, the review of
  the entry in the period that is closed and reopened.

Symmetry sets are only used in runs without liveness properties. `trail`, `itemTrail`
and `alarms` are left out of the `VIEW`: no guard reads them, and properties read
them only primed, in the step that writes them.

## 4 Fairness and liveness

Most properties are safety properties, and the specifications of accounts, ledger,
projects, evidence, refresh tokens, backups and claims assume no fairness: a request in
flight may be lost, a refused one is not retried by the server, a form may stay open for
ever. Two specifications do.

- `BundlesSpec` is fair to `Advance(r)`, the opening, writing, closing and unlinking that
  libuv completes for a build; to `ForceExit`, the ten-second timer of `server.js`; and to
  `CleanerStep`, since the job is run periodically (`README.md:170`) and each run ends
  unless it dies, which it does at most `MaxDeaths` times. Clients, operators, failures,
  the clock and the supervisor that boots the server owe nothing: a download may never
  end. With that, every POST is answered exactly once or ended by the process
  (`EachPostAnswered`), a row that names a missing bundle is cleared or gets it back
  (`DanglingIsCleared`), and a signal ends the process (`ShutdownEnds`).
- `EnrolmentSpec` is fair to `MailTimesOut`, the timer of `withTimeout`; the mail server
  owes nothing. With that an invitation is answered (`InviteIsAnswered`).

## 5 The proofs

`PROJECT.json` lists the theorems; they hold for all values of the constants that
meet the assumptions of their modules (`FirstAdminAssumption`, `LedgerAssumption`,
`ProjectsAssumption`, `RefreshTokensAssumption`, `EnrolmentAssumption`,
`BundlesAssumption`, `FieldsAssumption`, `ClaimsAssumption`): claimants of projects, dates,
clock readings and periods have their types, ids of labour, expenses and periods differ
(they are rows of three tables, and an audit row names the table: `entity_type`,
migrations/001:209), the rows an installation starts with pass its CHECKs, the
"no row" values are not rows, and the tables that a T661 is computed from are finite, with
the columns their CHECKs allow: labour on attachments, in hours that are not negative
(migrations/007:43-59), pay with positive amounts and hours (migrations/013:32-41), caps of
some years (`wage-caps.js`).

*Ledger.* The inductive invariant is
`Inv == TypeOK /\ AbsentUnattached /\ ReviewConsistent /\ EntriesBucketed`.
`EntriesBucketed` says that an entry's attachment exists, and creating a user
overwrites his attachments, so it needs `AbsentUnattached`: a user who does not exist
has none. `ReviewConsistent` is inductive with the types alone, thanks to the shape
the rows are written in, and `ClosedPeriodFrozen` needs `EntriesBucketed` to know that
the period of a row exists. The proof first shows that every handler comes
down to one of a few kinds of step (`Posted`, `Patched`, `Deleted`, `Reviewed`,
`Imported`, `PeriodsTurned`, an accounts step: lemma `StepMoves`), so that each
property is proved once per kind, for labour and expenses together. Theorems:
`TypeCorrect`, `ReviewAlwaysConsistent`, `AlwaysBucketed`, `ClosedStaysFrozen`,
`ApprovedStaysLocked`, and `LedgerImplementsBooks`: under the mapping that forgets
dates, users and reviews every step is a step of `PeriodBooks` or stutters. The audit rows
of a step are not an invariant's matter: `NextIsHandled` sorts the handlers by the rows they
write, `AuditRowsOf` says which of them name one entry, and `LoggedStep` and `OwnStep`
compare those with what became of the entry. Hence `EveryChangeIsLogged` and
`EmployeesStayWithTheirOwn`, for batches and imports of any size.

*Accounts.* Why an attachment is inactive is recorded in two history variables. The
invariant, `MarkerInv`, says in both directions that the marker tells what went down with
its user: `DownWithUserIsMarked`, and `MarkedWentDown`, that a marker nobody patched
around is the trace of a deactivation unless the attachment is active again. The latter is
what the property of reactivation needs and no run states; `AbsentUnmarked` and
`DownIsInactive` make it inductive. `HandlersStep` reduces every handler to what it does to
one attachment. Theorems: `AccountsTypeCorrect`, `DownWithUserStaysMarked`,
`ReactivateUndoes`.

*Evidence.* `EvidenceKeepsLedger` comes first: whatever uploads, awaits, unlinks and
crashes are under way, the variables of the ledger change by its own steps, so that
everything proved of the ledger holds of the composition. `EvidenceInv` adds to the
ledger's `Inv` what the await makes necessary: the row that a request computed before it
is still in place (`RequestsPlaced`, since no step moves or removes a period) and is for the
caller and the file of that request (`RequestsCarry`), and the files of requests under way
are on disk and apart from one another (`RequestsHaveTheirFiles`); without the last, the
refusal of one upload could take the file that another has just stored. A link is not part
of `RequestsPlaced`: the entry may go during the await, and the foreign key is what the
INSERT then meets. Theorems: `EvidenceTypeCorrect`, `EvidenceStaysInPlace`,
`ItemsKeepTheirFiles`, `ClosedEvidenceRetained`, `NoFileIsForgotten`,
`ItemsAlwaysAccountedFor`.

*Projects.* The invariant is
`Inv == TypeOK /\ StampNamesVersion /\ HistoryTellsNarrative`, inductive as it stands:
`PatchEffect` shows that the stamp strictly grows, hence that every other form of the
project goes stale, and `SnapshotIffChanged` that a revision is added exactly when the
narrative changes. `ImplementsSessions` proves the refinement of `EditSessions`.

*Refresh tokens.* `Inv == TypeOK /\ OneLivePerLogin`. Lemma `StepGives` reduces every
step to three: nobody gains anything (each row stays, goes, or becomes less usable),
a login opens a session whose root no row has, or a rotation spends a usable token for
one with the same root. Theorems: `TokensTyped`, `OneLive`, `NewTokensEarned`,
`AlarmEnds`.

*Enrolment.* The invariant is
`Inv == EnrolmentTypeOK /\ CeremoniesFit /\ LinksSpent /\ KeysKept /\ ChallengesTaken`.
`LinksSpent` ties the session a link has opened to its `consumed` column, which is what
the second of two registrations meets. `KeysKept` adds to `EnrolledHasKey` the requests
that have stored their passkey and not yet spent their link: between the two the passkey
must survive removals. `ChallengesTaken` says that a challenge is held by one request at a
time and, once a ceremony has had a signature accepted, by no request that could accept
it again. Most steps leave links, keys and taken challenges as they are
(lemma `QuietStep`); the rest have a lemma each. That the newest challenge exists
(`HasNewest`) rests on the well-foundedness of the naturals. Theorems:
`AlwaysFits`, `OneSessionPerLink`, `OneUsePerResponse`, `LetInWithKey`.

*Bundles.* The invariant is the types, `BuildsSound` (what the events of one build leave
behind, in whatever order), `Rooted` (what a build writes into the directory is there) and,
for each export that is not tainted, `Orderly`: it has one build at most, nothing is
published while that build writes, and what is published is whole. Every step is reduced to
what it does to the rows of the builds and to the export concerned. Theorems:
`AlwaysInOrder`, `PublishedWhole`, and `NoSecondAnswer`, the safety half of
`EachPostAnswered`.

*Backups.* `BackupInv` says that the database is copied before the uploads
(`HalvesInOrder`), that a row of the snapshot stands unless its item was deleted since
(`RowsStand`), and that its file, if it has one, is in the tarball (`FilesPacked`).
With the halves swapped the last is false: an item uploaded in between has a row and no
copy. `RestoresKeepFiles` follows. Together with `Inv` and `DownIsQuiet`, that nothing is
built while the process is down, it also gives `PublishedWholeAfterRestores`.

*Claims.* The book of a period is read from the expenses and from `costVars`. `StepMoves`
shows that a step writes one row in open periods alone, reviews one, or leaves the expenses
as they are; `CostsChange` that every other handler than those of pay, the flag, projects
and reviews of labour leaves `costVars` alone. The expenses of a closed period stand through
a write in open ones (`ClosedRowsStand`) and through the reviews of other periods
(`OtherReviewsStand`), and a book stands when its expenses, its labour and the rest of
`costVars` do (`BookStands`). Hence `ClosedFiguresSettled`: the figures of a closed period
change by a review of its own expenses or labour, by a `POST` of pay, by a `PATCH` of an
attachment, by the creation of a project or a change of its type, and by nothing else. `RouteAlwaysKnows` needs no
invariant: `PassingFits` shows that what the waivers for old rows let through is still
within the CHECKs, `InsertsFit` that an INSERT keeps no companion of another category.
`UpdatesAre` and `UpdatedIs` give PATCH field by field, for any body; with them
`CategoryAlwaysChanges` shows that everything left of the old category is dropped whatever
it was, and `UntouchedSavesKeepTheLine` that the defaults which the editor shows for a row
older than its fields are those that `format.js` prints for it. Both need the types alone.
`FormatsAlwaysAgree` holds of any snapshot that lists expenses of its own projects, and of
any comparison.

`T661AddsUp` is about sums over any number of rows. `totalOf` is a fold, and the induction
theorems of the library take an operator as parameter, which the provers cannot
instantiate; `BySubsets` does the same with a family of subsets of a finite set, and rests
on the well-foundedness of strict inclusion (a minimal counterexample). From it come, in this
order: that the fold of a finite set is well defined (`Countable`, by cardinality), that it
does not depend on the order in which elements are taken out (`CountsInAnyOrder`), and what
a total does when its domain is split (`OverBoth`), its values are sums (`OverSums`), its
elements are renamed (`OverRenamed`: the CSV lists expenses by id) or grouped (`OverGroups`:
the worksheet lists labour by employee). What is left is to show that costs and amounts are
integers at all: a priced entry has a row of pay (`PricedByLatest`: the latest row in effect
exists), a year has a cap (`CapIsKnown`), an expense has an amount and a positive rate
(`LineIsSound`). These facts make up `Sound`, which the types give (`BookIsSound`), and
every sum is proved of any sound book. Theorems: `ClaimsTyped`, `ClosedFiguresSettled`,
`RouteAlwaysKnows`, `CategoryAlwaysChanges`, `UntouchedSavesKeepTheLine`,
`FormatsAlwaysAgree`, `PricedByLatest`, `T661AddsUp`.

Before it was proved, every inductive invariant was checked by TLC on the instance of its
run. Every invariant and every action property of a passing run is a theorem. Only
model-checked are the liveness properties `EachPostAnswered`, `DanglingIsCleared`,
`ShutdownEnds` and `InviteIsAnswered`: liveness under fairness and `ENABLED` are out of the
prover's reach, and so are modules with `RECURSIVE` operators.

## 6 Where the code and its documents disagree

Shown by a run:

- `reactivate_spares`: PATCH of an attachment leaves the marker of an earlier
  deactivation, and the next reactivation revives an attachment that was switched off
  on its own (`docs/api.md:61`).
- `evidence_on_other_project`: the check that the linked entry is on the project is
  made before the await; the entry can be deleted and its rowid reused by another
  project's entry before the INSERT.
- `counter_falls`: `finishLogin` compares with the counter it read before its await and
  writes whatever it was sent; of two logins verified together the later can lower the
  counter (`docs/auth.md:36`).

Met while modelling. The actions of the models do what the code does in these cases,
where a module has them; no run is spent on one that a reading settles.

- *Closed periods.* Approve, reject and bulk-approve never look at the period
  (`docs/api.md:86`). Linked evidence inherits the period of its entry, closed or not,
  and an upload keeps the one found before its await (`docs/use-cases.md:47`); the entry
  can later move to another period than its evidence. The figures of a closed period still
  move: with reviews of its expenses and its labour, with compensation rows that are
  back-dated, when `PATCH /api/user-claimants/:id` sets `is_specified_employee`, which
  applies or lifts the wage cap (`user-claimants.js:19-22`, `t661.js:79-88`), when a
  project changes its type, and with a project that is created, which adds a row of
  zeros. `ClosedFiguresStand` shows that there are no others. A T661 that is not a draft is accepted on an open period
  (`docs/use-cases.md:183`).
- *Accounts.* An employee taken off a project can still post to it
  (`docs/use-cases.md:97`); assignments to attachments that are inactive, and by project
  managers demoted since, stand. An admin can disable or demote himself, and the last
  admin, with PATCH. Disabling a user leaves his refresh tokens for the day he is active
  again. `insertAttachment` runs outside a transaction: a compensation row that a CHECK
  refuses leaves the attachment behind.
- *Sessions and enrolment.* Any revoked token counts as replayed, so one revoked by a
  logout or by an earlier alarm ends the sessions begun since (`docs/api.md:27`). The
  application asks for a refresh only when it can see a cookie whose path hides it from
  the page. A refused register/finish leaves its credential behind. A challenge lives to
  the end of its UTC day, because an ISO time is compared as text with SQLite's. Two
  ceremonies of one user that start together and finish in that order both fail: the first
  takes the second's challenge. A login ends well though its credential was deleted during
  the await. A reaped link's rowid can be reused, and a registration that was under way
  then spends another link.
- *Audit.* A crash between a write and its audit row leaves the change unrecorded
  (`docs/use-cases.md:224`). Deleted rowids are reused, so an `entity_id` or an id in the
  manifest of an export may name another row later.
- *Bundles.* The 409 is the only guard against a second build, and it reads a column that
  is set at the end (`docs/api.md:157`): builds that overlap write over each other, and a
  failing one unlinks what the other has published. A bundle deleted by hand answers 404
  to GET and 409 to POST until the cleanup job has cleared its row (`README.md:165`); the
  comment on a crash between the job's UPDATE and its unlink says that the row then names
  a missing file (`cleanup-bundles.js:51-54`), while it is the file that no row names. A
  restore over a surviving bundle directory may publish a partial file. The promise of
  `archiver.finalize()` is not handled, so its rejection ends the process. The bundle
  directory of the tool differs from the server's when only `UPLOADS_DIR` is set.
- *Expenses.* A PATCH with null for the currency or the date, or with a rate that is not
  positive, is answered 500 by a constraint. Changing the reporting currency leaves foreign
  rows without a rate, and edits of anything else are refused until they have one; a rate
  left on a row in the reporting currency still multiplies. The edit form classifies a row
  older than the columns with a default as soon as it is saved, and cannot save one that
  lacks a rate source or an overhead basis. The inline editor sends every field it showed
  and so undoes what others have changed; only projects have a version.
- *Elsewhere.* A foreign-key violation found after a migration is not looked for again at
  the next boot. A file uploaded with a link or a note is left on disk. Evidence linked to
  an entry makes the entry's DELETE fail with a server error. The package for a reviewer
  (UC-R3) lacks the labour and expense entries. `missing_from` of a comparison never
  occurs, since both sides list the same projects of the claimant.

## 7 What is not modelled

- Out of the scope of models: page rendering, the layout of PDF, CSV and zip, wording,
  logs, the content security policy, configuration, rate limits (a library's counters),
  seed scripts, the visual audit tool, the narrative checks, which only advise, and
  read-only listings and reports, the reading of the audit log included.
- External: the cryptography of passkeys, JWTs and hashes (tokens are fresh names), the
  network, multer, archiver, the clock, Node itself. They appear through what the code
  assumes of them.
- Migrations run once, before the server listens; the rows they leave are the `Seeds` of
  `Claims`.
- Of the single-page application: where a tab keeps its tokens and the one retry after a
  401 (what a late or repeated refresh does to the server is part of `RefreshTokens`);
  pages that display what the API returns.
- In the modules at hand: names and addresses of users and claimants, and the compensation
  row that comes with a new attachment; assignments of employees to projects; which values
  project fields accept; descriptions of expenses; the revisions and the manifest of ids
  that an export stores; the normalisation of a file's extension after the sniff; unlinks
  that fail; the access token, which lives on until it expires, an hour by default.
- In `Claims`: attachments that are added later, since nothing posted in a closed period
  is theirs; entries of labour posted, edited and deleted, and dates that fall into other
  periods, which are `Ledger`'s; a change of `wage-caps.js`, which is a change of the code.
- What some properties leave to others or to section 6. `ClosedPeriodFrozen` leaves the
  review columns out, as reviews of closed periods are what the code allows;
  `ClosedFiguresStand` counts them among the ways figures move. `CategoryMayChange` and
  `UntouchedSaveKeepsLine` presuppose a rate that fits the reporting currency.
  `ResponseAcceptedOnce` holds for challenges that live any time, and so would not notice
  that they live longer than meant. `PublishedIsWhole` excludes builds that overlap: of
  them it is false. In `FormatsAgree` the Markdown and the PDF of one snapshot have the same
  definition, since the code prints the same figures in both; its content is that the CSV,
  which goes through the lines in tables of its own, agrees with them, and the comparisons.
- Floating point: `T661` rounds exact quotients. A product of cents and a rate that is no
  binary fraction can differ from that by a cent where it lies half-way.
- `Ledger` treats a handler as atomic, which it is except for a crash between its
  statements: the audit row can then be missing, so `EveryChangeLogged` says what holds
  when handlers run to their end.

## 8 The plan

1. Done: `Accounts`, `Ledger`, `PeriodBooks`, `Projects`, `EditSessions`, `Evidence`,
   `RefreshTokens`, `Enrolment`, `Bundles` with the shutdown, `Backups`, `ExpenseFields`,
   `T661`, `Claims`, and the proofs above.
2. Proofs, done: all invariants and action properties of the runs. To come: the safety
   halves of the other liveness properties.
3. `AuditTrail`: the log as a whole over the ledger, with the crash between write and
   audit and with reused ids. `Participation`: assignments over the ledger and accounts.
   `Migrations`: what an interrupted upgrade leaves. The SPA's coalesced refresh and retry.
