# Formal models of mhed-platform

TLA+ specifications of the API of mhed-platform (`src/api`), with the TLC configurations that check
them on small instances and the TLAPS proofs that establish their main properties for all instances.
Every definition is written from the Go code and the SQL migrations; `PROJECT.json` maps each one to
the lines it stands for.

## 1. The system

One Go process (`cmd/server`) answers HTTP requests and runs one delivery worker; PostgreSQL keeps all
shared state; a read-only SQLite file holds the game data. Requests run concurrently, one goroutine
each, and meet only in PostgreSQL, under READ COMMITTED: what two requests may do to each other is
decided by row locks, unique indexes, one advisory lock and two deferred triggers.

| Component | State | Operations | What makes it correct |
|---|---|---|---|
| Outbox and delivery worker (`mailservice/service.go`) | `email_outbox`, the switch in `email_provider_settings` | `Enqueue`, `deliverOne` (claim, lease, send, record), `Run` | every mail is settled; bounded sends; nothing settled is reopened; a payload lives as long as it is needed |
| Verification codes (`service.go`, `00004`) | `email_verification_challenges` | created by `Enqueue`, made usable by the worker, spent by `Verify` | usable only once delivered, redeemed once, every guess counted |
| Rate limits (`service.go` `Enqueue`) | the same rows, by time | lock, count per address, count per source, insert | a minute between codes, caps per hour |
| Super administrators (`admin_identity.go`, `00001`) | `users.status`, `user_roles` | `updateUserStatus`, `replaceUserRoles`, `mhedctl bootstrap` | an active super administrator remains |
| Passwords and sessions (`api.go`, `desktop_auth.go`, `desktop_email_auth.go`, `admin_identity.go`) | `users.password_hash`, `must_change_password`, `sessions` | login, logout, change, reset by mail, temporary password, binding, disabling | no session outlives a revocation; no password is replaced unseen |
| Loadouts (`loadouts.go`, `desktop_loadouts.go`) | `loadouts` and its two index tables | create, edit, change status, delete, moderate | a build once per data version, up to old rows; dates and versions consistent; no edit lost |
| Reports and likes (same files) | `loadout_reports`, `loadout_likes` | report, resolve, like, unlike | only public loadouts, capped, resolved once and whole |
| Validation (`game/mh3g/adapter.go`, `catalog.go`) | none (pure, over the game database) | `Validate`, `CharmRules` | results do not depend on map order; skills by their thresholds; one fingerprint, one result; the editor's rules are those of validation |
| Session expiry and CSRF (`api.go`, `admin/src`) | `sessions.idle_expires_at`, `absolute_expires_at`, `csrf_hash`; the cookie and each tab's token | every authenticated request, `me`, login, logout | an ended session stays ended; a tab's token is refused for a reason |
| Identities (`desktop_auth.go`, `desktop_email_auth.go`, `admin_identity.go`, `mhedctl`) | `users.username`, `email`, `email_verified_at`, `status`; the credential file | code requests, registration, binding, creation and status changes by administrators, `create-local-user`, `bootstrap`, login's lookup | an address is held by who proved it; a login selects one user; a reported account has a password |
| Email settings form (`email_settings.go`) | `email_provider_settings` | `updateEmailSettings` | mail that is enabled is configured; a key is not lost |
| Game data (`mhedctl import-game-data`, `mh3g.Open`) | `mh3g.sqlite` and `manifest.json` in the runtime directory, the adapter's connections | import, start, the pool's connections, restart | readers see whole files; the two files match; answers carry the version they were read from |
| Catalog searches, listings, dashboard, audit log, password hashing, configuration, public site, deployment | none of their own, or append-only | reads | not modelled: see section 8 |

How they interact: registration, reset and binding ask `Enqueue` for a code and `Verify` for its
answer before they touch `users`; resolving a report writes the loadout in the same transaction;
every creation and edit of a loadout first calls `Validate`, whose fingerprint is the unique key of
`loadouts`; administrative requests are admitted by the session check and write `users`, `user_roles`
and `sessions`; the switch and the key of the settings form decide what the worker can send. An import
and a server meet in two files and in nothing else.

The hard behaviours are listed one by one in `PROJECT.json` under `hazards`. In short: counts that are
read before the row they guard is inserted; a check outside the transaction that relies on it; triggers
that see their own snapshot; a login between two statements of which another request revokes all
sessions; a worker that may die with a mail claimed, sent or half recorded; two writes outside a
transaction; errors that are dropped; versions that one writer raises and another does not; a name or an
address found free and taken when its code comes back; answers that reach a browser's tabs out of order;
two files that are replaced one after the other beside a reader that opens one of them by name again.

## 2. Modules

| Module | Models | Extends or instantiates |
|---|---|---|
| `VerificationCode` | the promise: the life of a code, its guesses, its redemption | |
| `EmailOutbox` | outbox, worker, challenges, `Verify`, faults | instantiates `VerificationCode` |
| `EmailOutboxProofs` | theorems | `EmailOutbox`, `TLAPS` |
| `EmailRate`, `EmailRateProofs` | `Enqueue` as concurrent transactions with a clock | |
| `SuperAdmins`, `SuperAdminsProofs` | administrators under READ COMMITTED with triggers | |
| `Credentials`, `CredentialsProofs` | passwords and sessions | |
| `Loadouts`, `LoadoutsProofs` | the `loadouts` table, edit forms, requests | |
| `Feedback`, proofs in `LoadoutsProofs` | reports and likes on top of the loadouts | extends `Loadouts` |
| `Validation`, `ValidationProofs` | `Validate` and what it calls, `CharmRules` | |
| `Identities`, `IdentitiesProofs` | names, addresses and who may claim them | instantiates `VerificationCode` |
| `Console` | the console's session in a browser with tabs | |
| `GameData` | imports, the start of the server and its pool | |
| `EmailSettings` | overlapping saves of the settings row | |
| `AdministrationProofs` | theorems about the last three, and about all four side by side | `MCAdministration`, `SuperAdminsProofs` |
| `MCAdministration` | `SuperAdmins`, `Console`, `GameData` and `EmailSettings` side by side | all four |
| other `MC*` | constants and symmetry for TLC | the module they are named after |

### VerificationCode and EmailOutbox

A code and its mail are inserted together and have one row each, so both are indexed by the number of
the mail. `Enqueue(m)` inserts them. The worker is one process with a program counter: `Claim` is the
transaction that selects a due row and leases it (`attempt_count` rises there, before the mail is sent),
`Submit` the call of the provider with its three outcomes, and `RecordSent`, `RecordRetry`,
`RecordGiveUp` and `RecordAbandon` the statements that follow; giving up takes two, outside a
transaction, and so two actions. `Verify` is a transaction that holds its challenge `FOR UPDATE`:
`VerifyRead` takes the lock, `VerifyAccept` and `VerifyRefuse` end it. `Fault` is a statement or commit
that fails, `Crash` the end of the process between any two steps: the worker forgets where it was and
the locks are freed. Time is two flags: a row becomes due, a code expires. `accepted`, `redeemed` and
`refused` are history and nothing reads them.

`VerificationCode` is what the rest of the platform relies on: a code is unissued, pending, live,
redeemed or void; it goes live once, is guessed at most so often, is redeemed at most once.
`ImplementsVerificationCode` maps the three tables to that. A challenge past its time counts as void
unless a `Verify` that read it in time still holds it.

### EmailRate

A call of `Enqueue` is four steps: `Begin` (which fixes `now()`), `LockAndCountEmail` (the advisory
lock of the address, then the count), `CountSource`, `Insert` with its commit. Another call may run
between any two. `Tick` moves the clock. The lock covers the address only.

### SuperAdmins

Each administrative request is a transaction with an operation, a target and a step. A status change
locks the user's row; a replacement of roles deletes rows, waiting for one another transaction has in
hand, and inserts. `CheckTriggers` counts administrators in what the transaction sees, which is the
committed state and its own changes; `Commit` makes it visible later. Rows of `user_roles` carry a
number since a waiting `DELETE` does not see a row inserted after it began. `EmptiedOnlyByOverlap` is
what the triggers do guarantee; `AlwaysAnAdmin` is what they are meant to.

### Credentials

Every handler that touches a password or a session is a sequence of steps: admission by a live
session, verification of a password, the update of `users` (which locks the row), the revocation, the
commit. A password is a number that grows with every hash stored; a code is the outcome of
`VerificationCode` reduced to a flag. `epoch` counts the commits that should have left no session, and
`overlap` marks requests and sessions that such a commit fell into; both are history.

### Loadouts and Feedback

Each write of a loadout is a transaction whose `UPDATE` holds the row until it commits, so it is one
step. What lies outside is a step of its own: the read that fills an edit form (`OpenEditor`), and the
search for a duplicate (`BeginCreate`, `BeginUpdate`). `hash` stands for the payload, its hashes and the
two index tables. It names the game data the payload was validated with: those of the server that takes
the request, which an import and a restart may change between any two requests, so each request brings
its own `d`. A row keeps the `data_version` of its insertion, and an edit leaves it (`loadouts.go:185`);
lookup and unique index compare it together with the hash. `Legacy` are the rows from before
`build_hash`, which hold their `content_hash` there, name included (`00003:29`); a behaviour may start
with any that the index accepts. So two loadouts can hold one build: one was edited after an import, or
is that old. `TwinsComeFromOldRows` says that there is no third way. `Rejected` is any update that changes nothing: an unknown or deleted row, an old
version, a build taken meanwhile. `Moderate` is what resolving a report does to a loadout; `Feedback`
calls it from `ResolveReport` in the same step as the report. `Feedback` separates the count of a user's
reports (`CountReports`; `CountFails` when the query's error is dropped) from the insertion.
Its steps are those of `Loadouts` or leave the loadouts alone. `shown`, the builds a loadout ever
showed, is history.

### Validation

The game database is given as constants. Refusals, diagnostics and the collection of points are
operators over a loadout; `Visit` and `CopyChest` are the two loops of `applyTorsoUp`, each of which
takes what is left in any order, as Go's maps do; `Consider` is one row of the loop that finds the
active skill, and `Scan` the loop: a recursive function over the rows in the order of the query. A list
has three decorations, a tree seven columns and a charm two skills, so those sums are written out. What
a sorted list tells is how often each value is in it, and `Sorted` is just that. The properties compare the results with definitions that do not loop. Zeros (empty
places) are part of the fingerprint as they are in the code: `[0, 5]` and `[5]` are two builds.
`CharmRules` is what the catalog offers the editor for a charm; `CharmRulesAgree` compares it with what
`Validate` reports, which is another piece of code over the same rows. Ids out of the range a save can
hold are refused (`SaveId`, `SkillId`), whether the database knows them or not. The queries behind a
charm's diagnostics, whose errors the code drops (`adapter.go:535-570`), are taken to answer.

### Identities

A request occupies a slot with a step and a claim: it has found the name or the address free
("checked"), has spent the code for it ("redeemed"), or, for a command of `mhedctl`, has written the
credential file ("filed"). `RegisterCode` and `BindEmailCode` are the lookups before a code is mailed,
`EnqueueCode` the mailing; the code then lives as `VerificationCode` promises (the module `EmailOutbox`
implements it); `RedeemRegistration` and `RedeemBinding` are `Verify` for the two purposes, and
`InsertRegistered` and `BindEmail` the statements that follow, which the unique indexes may refuse
(`Refused`, then `Abort`). In between administrators create, disable, delete and restore accounts. The
commands of `mhedctl` check the name, create the file with `O_EXCL`, insert, and remove the file when
the insertion or its answer fails; they may die in between. `rival` is history: another account got in
the way of a claim since it was found free. Names and addresses that differ in case only are one, since
every statement compares them by `lower`; a name cannot be an address, since names are letters, digits
and underscores (`validUsername`).

### Console

`visit` holds the requests the server works on and their answers on the way back. A request is let in by
`requireAuthentication`'s `SELECT` and extends the session by the `UPDATE` after it (`Extend`), which
asks for no condition; `Load` is `me`, which replaces the session's only CSRF token; `Receive` is the
browser taking an answer, in any order, and `Leave` a tab that is closed or reloaded before it comes.
`LoadUnanswered` is a replaced token whose request is answered with an error, `LoseLogin` a login whose
cookie arrives and whose body does not.
`at` is when a request was admitted, `overtaken` is history. A desktop client uses the same two
statements with a bearer token and has no CSRF token, so its sessions expire as these do.

### GameData

A version is the content of a database together with the manifest that has its hash. `VerifySource`
reads the manifest and hashes the database, `CopySource` reads the database again into a temporary
file, `RenameDatabase` puts it in place, `TruncateManifest` and `Finish` are the two halves of
`os.WriteFile`; `Stop` is an error or a crash between any two. `ReadManifest`, `HashDatabase` and
`PingPool` are the steps of `mh3g.Open`, `OpenConnection` and `CloseConnection` what `database/sql` does
later. `spoiled` and `replaced` are history. The source directory is filled by another repository and is
taken to change as a whole.

### EmailSettings

`updateEmailSettings` reads the row, checks the form against it and writes the whole row in a later
transaction: `BeginWithKey` or `BeginWithoutKey`, then `CommitSave` or `RollbackSave`. A key is a
number; `overlapped` is history.

### MCAdministration

`SuperAdmins`, `Console`, `GameData` and `EmailSettings` share no variable and no row. The module runs
them in one specification: `part` says which of them moves in a behaviour, so that one run checks the
properties of all four. Nothing is lost by that, since steps of modules that share nothing commute.

## 3. Runs

| Run | Configuration | Bounds | Shows |
|---|---|---|---|
| `email_outbox` | `MCEmailOutbox.cfg` | 2 mails, 2 verifications, 2 sends, 2 guesses, 1 fault | safety of outbox and codes under crashes and failed writes; the refinement of `VerificationCode`; every mail settles |
| `email_rate` | `MCEmailRate.cfg` | 2 calls, 2 addresses, 2 sources, minute 2, hour 5, caps 2, time 6 | interval and caps |
| `administration` | `MCAdministration.cfg` | 2 users, 2 transactions, 3 role rows; 2 tabs, 2 sessions, 2 requests, 3 tokens, idle time 1 and absolute time 2 of 2; 2 imports, 2 connections, 3 versions; 2 saves, 2 keys | administrators, the console's session, imports and starts, the settings form |
| `super_admins_last` | `MCAdministrationLast.cfg` | the same, administrators only | violation: no administrator is left |
| `game_data_version` | `MCAdministrationVersion.cfg` | the same, game data only | violation: new data under the old version |
| `identities` | `MCIdentities.cfg` | 2 accounts, 2 names, 1 address, 2 codes, 2 requests, 1 guess | who holds a name or an address, and whose the credential file is |
| `identities_login` | `MCIdentitiesLogin.cfg` | the same | violation: a login by address meets a deleted account |
| `credentials` | `MCCredentials.cfg` | 1 user, 2 sessions, 2 requests, 2 revocations | sessions and passwords under overlap |
| `credentials_revoked` | `MCCredentialsRevoked.cfg` | the same | violation: a session survives a reset |
| `loadouts` | `MCLoadouts.cfg` | 2 loadouts, 1 build, 2 data versions, 1 name, 2 editors, 3 writes, at most one row from before `build_hash` | where two loadouts with one build come from; dates, versions |
| `feedback` | `MCFeedback.cfg` | 1 loadout that was not there before `build_hash`, 1 build, 2 data versions, 2 writes, 3 reports, 2 requests, cap 1, 1 fault | reports and likes |
| `validation` | `MCValidation.cfg` | 53 loadouts, in pairs | results of `Validate` in every map order; the charm rules |

Why the bounds are enough to meet the interesting cases. Two of everything that competes: the worst
meeting in this code is between two requests (or a request and the worker), since every guard reads
one row or one count. One fault anywhere lets a mail be lost after it was sent, recorded in part, or
sent again; two sends and two guesses let a counter be below, at and past its limit. In `email_rate` the
hour is longer than two minutes and the clock runs past one hour, so codes leave the window. Three role
rows let an administrator lose and regain the role, which is where a waiting `DELETE` misses a row. Three
tokens are a login and a load in each of two tabs; the idle time ends before the absolute one, so a
session can be extended and still end. Three versions let a source change between the hash and the copy
of one import and again between two imports; two connections are one opened by the start and one later.
Two keys let a save with an empty field meet one that stores another key. In `identities` one address and
two accounts are the shortage itself: both may ask for it, one may be deleted after it had it. One wrong
guess voids a code there, as five do: what a guess does is `EmailOutbox`'s. One user is enough in
`credentials`: no statement there touches another user's rows. In `loadouts` three writes make room for a
creation, an edit that falls between another editor's read and save, and that save; or for a loadout that
is created, deleted and restored while another takes its build; or for an edit under other data and the
creation it no longer stands in the way of. A row from before `build_hash` is alone at first and leaves
one write, enough for its own deletion or restoration or for a new row with its build. One build is
enough: the two data versions and the name make four hashes of it. In `validation` the loadouts lie on each
side of every comparison: points at 9, 10 and 15 and at -10, one and two parts with torso up and the
chest with it, decorations in two orders, and charms that differ from a generated one in each column.
What the bounds cut off is covered by the theorems, which have none.

`CHECK_DEADLOCK FALSE` is set for the three runs of `MCAdministration`, for `credentials`, its violation,
`loadouts` and `feedback`, where the bound on inserted rows, keys, time, writes or revocations can be used
up with nothing left to do. The other runs check deadlock.

Symmetry is used only in runs without liveness, over requests, rows, names, data versions and processes that no
definition tells apart. `MCAdministration` names the instances of its four parts with the same six model
values, so that three permutations serve all; it starts with one given user as an administrator, users
being alike.

Each property of a passing run has a mutant in `PROJECT.json`: a plausible mistake in one definition
(each is in the module, above the definition it replaces) that makes TLC report the
property.

## 4. Fairness

Only `EmailOutbox` states liveness, checked in `email_outbox` without symmetry. `LiveSpec` assumes weak fairness of the worker (`Deliver`, all its
steps together: it is one sequential process) and of each row's becoming due. The code justifies it:
`Run` is a loop over a ticker that ends only with the process, which is restarted; it calls `deliverOne`
again after every outcome and every error, and the provider call has a timeout, so a worker that can
take a step does; the clock moves by itself. The claim does not look at the switch that disables mail
(sending fails then), so nothing an administrator does disables it for ever. The claim takes the first
due row, and `EveryMailSettles` shows that no mail waits for ever behind others. Nothing is assumed of
users or of `Verify`. Crashes and failed writes are bounded by `MaxFaults`: with infinitely many of them
no delivery could be promised.

The other modules promise nothing that must happen: a request is made when a user or an administrator
makes it, and each may be abandoned at any step.

## 5. Proofs

All theorems hold for every value of the constants that satisfies the named `ASSUME` of the module
(natural bounds, limits of at least one, null values outside their sets, names that are no addresses,
finitely many requests where they are counted). Each module of proofs shows
type correctness first; invariants are proved by a strengthening `IInv` with the three facts
`Init => IInv`, `IInv /\ [Next]_vars => IInv'`, and `IInv` implies the property, by one case per action.

- `EmailOutboxProofs`: `PayloadKept`, `UsableAfterDelivery`, `SendsAreBounded`, `AtMostOneRedemption`,
  `EveryGuessCounted`, `SpentStaysSpent`, `SettledStaysSettled`, `Refinement`. The invariants need
  `LockInv` (the holder of a challenge is alone and has read what is stored), `WorkerInv` (what the
  worker knows at each step), `AttemptsLeft` (a pending row has attempts left or owes them to a fault)
  and `RowsInv` (mail and challenge are born together). The refinement shows that every step is a step
  of `VerificationCode` or leaves the mapped state alone.
- `EmailRateProofs`: `CodesAreSpaced`, `AddressesAreCapped`, `SourcesAreNearlyCapped`. The first two need
  that one call at a time holds an address's lock (`OneHolder`) and that what it counted stays clear, and
  below the cap, until it inserts (`ClearAhead`, `RoomAhead`). No lock covers the count per source:
  `SourceInv` counts the rows of an hour together with the calls cleared to add one, since an insertion
  moves a call from one to the other and a call that is cleared found the rows below the cap.
- `SuperAdminsProofs`: `OnlyOverlapEmpties`. `Rows` says what rows each step of a
  transaction holds, `ChecksHold` that a transaction whose triggers passed and which no commit has
  overtaken still sees an administrator.
- `CredentialsProofs`: `RevocationMissesOnlyOverlaps`, `PasswordsReplacedKnowingly`. `Known` relates
  what each request has read to the row, unless a commit fell in between.
- `LoadoutsProofs`, of `Loadouts`: `TwinsAreExplained`, `DatesStayRight`, `FormsStayCurrent`,
  `UpdatesAreInformed`. The conjunction of the invariants with `VersionsStart` and `KeysUnique` is
  inductive: `KeysUnique` is what the index keeps, over data version and hash, and a hash that is taken
  of the row's own data version (`Native`) leaves only the build to tell two rows apart.
- `LoadoutsProofs`, of `Feedback`: `FeedbackTypes`, `OnlyShownGetsFeedback`,
  `ResolutionsAreWhole`, `ReportsAreNearlyCapped`. Every step is one of `Loadouts` or leaves its variables
  alone (`StoreStep`), so its inductive invariant is kept; with `Built` (what exists has a build), `Named`
  (reports and requests name a loadout and a user) and `ShownNow` (what is public has been shown) that
  carries `FeedbackOnShown`. The cap is inductive as it is stated, because it counts the recent reports
  and the requests that are past their count together.
- `AdministrationProofs`: `TokensAreLostToOthers`, `RevivalsWereAdmitted`, `ConnectionsStayWhole`,
  `StraysNeedAnImport`, `FilesMatch`, `EnabledStaysConfigured`, `KeysAreKept`. For the tokens `CallsKnow`
  (a tab waits for one request), `LoginsKnow` (until its answer arrives nobody else has a login's session)
  and `WaitsKnow` (who waits for an old token has been overtaken) carry `TabsKnow`; for the revivals, what
  was admitted was valid then (`AdmittedInv`). For the files `ServerKnows` says what a start has read and
  `ImportsKnow` that an import beside which no other ran is alone and the database is its copy.
  `ConnectionsStayWhole` says only that no file is read half written; of which version it is, is left to
  `StraysNeedAnImport`. For the
  settings `SavesKnow` says that what a save will write passed its check. `PartsKeepTheirRules` shows that a
  behaviour of `MCAdministration` is one of each of its four parts, so that what is proved of a part holds
  when they run side by side; `AdministrationTypes` is its first consequence.
- `IdentitiesProofs`: `IdentitiesTypes`, `CodesLiveAsPromised`, `AddressesAreProved`,
  `CodesAreLostToRivals`, `OnlyDeletedShadow`, `PasswordsStayInFile`. `ClaimsKnow` says of every code and every request that its claim is well formed,
  that it is marked if a row stands in its way, and that a request which has redeemed a code has a spent
  one for just this claim; `NamesUnique` and `EmailsUnique` are what the two indexes keep, restorations
  included; `FileKnown` says that only the command that wrote the credential file has it. Six actions
  write one row of `users`: `PutStep` is the one lemma for all of them, under what each of them checks.
  `Identities` takes the steps of a code from `VerificationCode`; `CodesLiveAsPromised` states that the
  requests around them ask of a code nothing else, so that its promise, which `EmailOutbox` implements,
  is the whole interface between the two.
- `ValidationProofs`: `AnswerIsResult`, `TypesHold`, `ChestCountsOnce`, `FurthestSkill`, `RulesAgree`,
  `SameBuildSameAnswer`. The invariant says what the two loops of `applyTorsoUp` have done so far:
  `Doubled(l, done, s, rest)` is what was collected from `l`, with the chest added in the slots of `done`
  except for the trees of `rest` in slot `s`. Nothing in it depends on the order of the visits, so at the
  end the points are `Final(l)` and the answer is `Result(l)`, an operator of the loadout and the database
  alone. The properties are then facts about `Result`: `SumOfCopies` counts the chest, `ConsiderKeepsBest`
  is one row of the scan and `ScanFindsBest` all of them, `EditorDiagnostics` says when the four codes
  are given, and `SortedPermutes` that lists with one bag are permutations of each other, which is why
  sums over them agree (`SumPermuted`). Assumed of the database: points belong to trees it has and are
  integers, as are slots and thresholds; a decoration's id is positive, since 0 is an empty place.
  The order of the rows of `active_skills` is not assumed.

The scan of the skills is an induction over data. The library states induction with an operator as a
parameter, which no installed prover can instantiate; `LeastNumber` (from the well-foundedness of `<` on
the naturals, which is stated with sets) and `UpTo` do what it would, and `ScanExists` shows that the
recursive function is defined at all.

The types of the variables of `EmailOutbox`, `EmailRate`, `SuperAdmins`, `Credentials` and `Loadouts`, and
`SpentForGood`, `SettledForGood`, `KeysUnique` and `FormsAreCurrent`, are proved and not run again.

Only model-checked: `EveryMailSettles` (liveness under fairness is out of the prover's reach, like
`ENABLED`). Every other property of a passing run is stated by a theorem. The four violations are what
TLC finds and no theorem is about them. No module declares a `RECURSIVE` operator.

## 6. What the checks found

Four statements of the documents that the code does not keep, each with a run whose counterexample
shows how:

1. `docs/ARCHITECTURE.md:50`, the final active super administrator cannot be disabled or stripped: the
   triggers count in their own snapshot; two transactions that each remove the other's administrator
   both pass (`00001_platform.sql:165`). Run `super_admins_last`. `EmptiedOnlyByOverlap` shows that
   this is the only way.
2. `contracts/openapi.yaml:96`, password reset and all sessions revoked: a login that verified the old
   password inserts its session after the revocation (`desktop_email_auth.go:213`). Run
   `credentials_revoked`. `SurvivorsOverlapped` shows that only a login that overlapped survives.
3. `contracts/openapi.yaml:73`, a login accepts a verified address: an address that a deleted account had
   verified can be verified again, and the login selects by address without looking at the status, so it
   may read the deleted row and answer that the credentials are wrong (`desktop_auth.go:46`). Run
   `identities_login`. `ShadowedOnlyByDeleted` shows that it never reads another user's row.
4. `docs/IMPLEMENTATION_PLAN.md:76`, corrected game data never give an old data version a new meaning: the
   pool opens the database by name for each connection, so after an import a running server reads the
   new one and answers with the old version (`adapter.go:160`). Run `game_data_version`.
   `StrayOnlyAfterImport` shows that only an import since the start's hash does it.

Met while modelling and not given a run, since no state but only an answer is wrong, or since a passing
property already states what holds:

- `Verify` drops the errors of counting a wrong guess (`service.go:359`), so that a code may be guessed at
  more than five times (`docs/EMAIL_ACCOUNT.md:25`) when the database fails; `GuessesCounted` says that
  guesses go uncounted only by such faults.
- The cap of ten codes an hour per source (`docs/EMAIL_ACCOUNT.md:26`) may be passed by requests for
  different addresses that run at once (`service.go:311`); `SourceNearlyCapped` bounds the excess. So may
  the cap of five reports (`docs/IMPLEMENTATION_PLAN.md:160`, `loadouts.go:396`, `ReportsNearlyCapped`).
- Duplicate builds are refused by `build_hash` (`docs/IMPLEMENTATION_PLAN.md:233`), but not those of a
  loadout that was edited after an import (`loadouts.go:185`) or that is older than the column
  (`00003_public_profiles_and_social.sql:29`); `TwinsComeFromOldRows` shows that there are no others.
- A save of the email settings with an empty key field, which keeps the key as the form says
  (`admin/src/App.tsx:1170`), brings back the old one if another save stored a key since it read
  (`email_settings.go:135`); `KeyKeptUnlessOverlapped` shows that nothing else loses a key.
- A reset for an account disabled meanwhile is answered as done (`desktop_email_auth.go:210`); a like of a
  loadout restored between two statements is answered and not stored (`desktop_loadouts.go:134`).
- When the answer to its commit is lost, `mhedctl bootstrap-super-admin` removes the only copy of the
  password of an account that exists (`main.go:207`), and `create-local-user` does the same. Logout drops the error of the revocation (`api.go:302`). A
  late refusal clears the cookie of a newer login (`api.go:211`).
- The trigger that keeps an administrator fires for every `UPDATE` of `users`: while there is none, nobody
  can change a password or bind an address (`00001_platform.sql:176`).

## 7. Plan

Done: the modules above. In this order, next:

1. A theorem that a code redeemed by `EmailOutbox` is the one `Identities` spends: both implement
   `VerificationCode`, and the composition of the two is argued here and not proved.
2. `SuperAdmins` with the two ordinary roles once something reads them.
3. The desktop client's own handling of an expired session, which is in another repository.

## 8. Not modelled, and why

- Listings, dashboard, catalog searches and public pages are single `SELECT`s; what they show is a
  function of the state the modules have. The audit log is appended in the modelled transactions and
  never read by them.
- Password hashing, digests and encryption are taken as injective: a password or code matches or does
  not. Configuration, routing, body limits and HTML are input and output.
- The admin page keeps a loadout's version between reading and saving, which is in `Loadouts`, and a CSRF
  token per tab, which is in `Console`; the rest of it is display.
- `mhedctl migrate` calls goose. The two roles besides `super_admin` are rows that nothing reads. Defences
  and resistances in `Validate` are sums of columns with nothing that decides. A query of the game
  database that fails in the middle of `validateCharm` is left out: it adds a diagnostic of the charm.
- PostgreSQL, the mail provider and the reverse proxy are external. Of PostgreSQL the modules use row
  locks, unique indexes, READ COMMITTED snapshots, advisory locks and deferred triggers as documented;
  of the provider, that a request is accepted, refused or fails.
