# A TLA+ model of regixtry

regixtry is a single-process OCI/Docker registry: an HTTP front end over a
filesystem blob store, a SQLite metadata store and a PostgreSQL identity store,
with vulnerability and secret scanning, a signature policy, a blob garbage
collector, managed scanner runtimes, an installer/upgrader and a terminal admin
console. This directory holds the models of the parts of it whose correctness
depends on the order in which things happen, the TLC runs that check them and
the TLAPS proofs about them.

All paths below are relative to `src/`.

## 1. Inventory

| Part | State it keeps | Operations | Talks to |
| --- | --- | --- | --- |
| Blob store `internal/infra/storage/fsblob` | upload directories (data file and state file), blob files and their mtimes | BeginUpload, PutUploadChunk, CommitUpload, BlobExists, OpenBlob, ListBlobs, DeleteBlob | called by the registry service; nothing but the file system serialises its callers |
| Metadata store `internal/infra/metadata/sqlite` | uploads, repositories, manifests, manifest_blobs, tags, gc_reports, scan_runs, secret_scan_runs, scan settings and policies, overrides, feature_runtime_state, scan_scheduler_state | one statement or one transaction per method; TryAcquireScanSchedulerLease and HeartbeatScanScheduler are a read followed by a write | registry service, scheduler, runtime managers |
| Registry service `internal/app/regixtry` | `scanGate`, `secretScanGate`, `gcGate`, `scanQueueMu`, background goroutines | push (upload, publish), pull (manifest, blob, with the scan and signing gates), delete, listings, GC report and delete, scanning, signing verdicts, feature toggles and runtimes, repository overrides | both stores, scanner runners, auth principals |
| Scan scheduler `internal/app/scanning` | the lease row; its own timer | tick: lease, heartbeat, RunScheduledScans | metadata store, registry service |
| Auth service `internal/app/auth` and `internal/infra/auth/postgres` | users, repo grants, tokens, credentials | bootstrap, user and robot administration, logins, token issue and verification, grants | PostgreSQL; every handler is a sequence of separate statements |
| Domain rules `internal/domain` | none | digests, manifests, scopes, grants, cosign and bundle verification | used by the services |
| HTTP protocol `internal/protocol/http` | none of its own | routing, authentication, challenges, the admin API | the services |
| Scanner runtimes `internal/infra/scanning/{trivy,gitleaks}` | release directories, the `bin/active` symlink, the `feature_runtime_state` row | install, upgrade, rollback, probe; running a scan | GitHub releases, metadata store |
| Installer `internal/infra/install`, `internal/infra/release`, `cmd/regixtry` | binary, unit, environment file, receipt, provenance, database and content; the compose project with its volumes | setup, upgrade with rollback, uninstall, compose up/down; wiring of the server process | systemd, docker, GitHub releases |
| Admin console `internal/tui` | pages, prompts, session, lists, modals and forms | keys; answers of calls that run beside it | HTTP admin API |

What is hard about it:

* every HTTP request is a goroutine and a handler is a sequence of separate
  store calls, so any two handlers interleave between any two calls. Only the
  gates and `scanQueueMu` serialise anything, and only inside one process;
* two stores (files and rows) are updated without a common transaction, so a
  crash or a failing call leaves one ahead of the other;
* values are read, then waited with, then used: the clock and the report status
  before the GC gate, a user row before it is written back whole, a policy and
  its override, a scan run copied into a goroutine;
* background goroutines die with the process and leave rows that say "queued",
  "running" or "installing";
* setups and upgrades are sequences of commands any of which may fail, or be
  the last one before the process dies, and so are their rollbacks;
* the console applies every answer to whatever is on the screen when it comes.

`PROJECT.json` lists the hazards, each at its line, with the properties that
would catch it going wrong.

## 2. Plan

| Order | Module | Models | State |
| --- | --- | --- | --- |
| 1 | `BlobGC` | push, publish, delete and the collector over both stores | done, safety proved |
| 2 | `UploadSession` | uploads, one write at a time | done, proved |
| 3 | `ScanRuns`, `ScanScheduler` | scan runs behind their gate; the sweep loop | done, safety of `ScanRuns` proved |
| 4 | `UserAdmin` | accounts and the last-admin guard | done, proved |
| 5 | `FeatureRuntime` | install, upgrade, rollback, status of a scanner | done, proved |
| 6 | `Registry`, `RegistryContents` | manifests, tags, referrers and listings; what a client may rely on | done, the refinement, the listings and the answers of several queries proved |
| 7 | `Policy`, `PullGate`, `SecretScans` | settings and overrides; the gates of a pull; the secret leg of a scan | done, proved |
| 8 | `Access`, `Routes` | logins, tokens, scopes, grants, robots; paths | done, proved |
| 9 | `Installer`, `Compose` | systemd and docker setup, upgrade, uninstall, rollbacks | done, proved |
| 10 | `Inspection`, `AdminPanel`, `ScanHistory`, `OverrideEditor`, `FeatureScreens`, `Console` | the console | done, proved |

## 3. The modules

Every handler is a small program counter: one step per call of a store, a file
system, a scanner or the operating system, because requests are goroutines that
interleave between any two of those calls. What an SQL statement or transaction
does is one step. Names follow the code. Variables that only record what
happened, for the properties, are marked so in each module.

**`BlobGC`** (`service_gc.go`, `service.go`, `fsblob/store.go`,
`sqlite/store.go`). `disk`/`mtime` are the blob files, `uploading`/`wtime` the
complete upload files, whose mtime the rename keeps; `rows` the manifests with
their blob references; `report` the gc_reports rows; `push` and `gc` the requests
in flight; `gate` is `gcGate.inFlight`. A delete reads the report, waits for the
gate, computes the candidates again with the clock it read at first, and for each
checks the references and unlinks. Restarts drop the requests and keep files and
rows. The walk of `ListBlobs` is taken as one snapshot.

**`UploadSession`** (`fsblob/store.go`, `service.go`). `content` is the bytes of
each inode, `data` the uploads whose data file is still in the upload directory,
`blob` the inode a digest's path names, `state` the state file, `row` the size in
the uploads row. A chunk opens the file, appends a piece per write, stats it
and writes the state; a commit hashes piece by piece, compares, renames and
removes the directory; a data file renamed away is still written through an open
descriptor.

**`ScanRuns`** (`service_scanning.go`). `rows` is scan_runs, `exec` one
goroutine per run, `queue` the call that holds `scanQueueMu`, `gate` is
`scanGate.inFlight`. **`ScanScheduler`** (`scheduler.go`, the lease in
`sqlite/store.go`, `RunScheduledScans`): the clock is kept as distances (time
until the goroutine wakes, until the lease ends, since the last batch), so the
model is finite without a horizon. Any error of a tick ends the loop, as in `Run`.

**`UserAdmin`** (`app/auth/service.go`, `postgres/store.go`). `users` is
auth_users, `req` the requests: each reads a row, runs the last-admin guard where
the code does, and writes the whole row back with an upsert.

**`FeatureRuntime`** (`trivy/runtime_manager.go`; the gitleaks manager has the
same statements). `bin` the version directories, `link` and `next` the two
symlinks, `row` the feature_runtime_state row, `op` the operations in flight.

**`Registry`** (`service.go`, `queries.go`, `sqlite/store.go`). The four tables
with row numbers and cascades; a publish checks its subject in one query and
commits in another transaction; resolving, tag details, catalog paging, referrers
and summaries read in as many queries as the code does. `Upgrade` and `Downgrade`
switch between the binary with the subject_digest column, whose backfill runs
once, and the one before it. Times are formatted as RFC 3339 with trimmed zeros and
compared as text, as SQLite does. **`RegistryContents`** is the abstract
specification: per repository a set of manifests and a set of tags, and four
writes that each happen at one instant. `Registry` instantiates it with
`ContentsOf`, what the tables hold read off row by row, and `ImplementsContents`
says that it implements it.

**`Policy`** (`feature_registry.go`, `repository_overrides.go`): signing policy,
scan policy, scanner settings and overrides; a PUT is one step, an operation that
merges its input into the row it read is two. **`PullGate`** (`service_signing.go`,
`service_scanning.go`, `service_signing_key_usage.go`, `queries.go`,
`domain/signing`): a pull or a status reads policies, run and signatures one
query at a time while they change. Whether a signature verifies is an attribute of
it; the order in which signatures, keys and identities are tried is the code's.
**`SecretScans`**: the leg behind every vulnerability scan, which looks for an
active run, waits at its gate and then inserts its row without a lock. Its writes may
be lost for good; a row lost at the start is inserted at the end, with the time of the
start. Rows age together: `Overdue` makes those older than a row overdue with it.

**`Access`** (`app/auth`, `domain/auth`, `postgres/store.go`, `ports`,
`protocol/http`): logins, tokens, credentials, grants and robots statement by
statement, what each route demands, and the challenge a client follows.
**`Routes`**: the routers as operators on paths. `splitRepositoryPath` looks for
markers in the text of a path; a path is here the list of its segments, so that a
marker's last word may be met by a segment that only begins with it (`Longer`:
`listing` for `list`), and, at the very end of a path, its first word by one that
only ends with it (`Compound`: `mytags` for `tags`). Checked for every repository name
of up to three segments that may be the routers' own words or one of these.

**`Installer`** (`install/linux`, `cmd/regixtry/main.go`): the files of an
installation, the service and a command in flight as the list of steps it has
still to take; a step fails, or the command dies, anywhere, also in the rollback.
Between commands somebody turns a switch in `regixtry.env` or takes out its line.
`OnRecord` says that the file says what the provenance records. It is off the record
when a line was taken out, when a setup failed between writing the one and the
other, or when the file is cut off; an upgrade then goes by the record, and may change
what the settings mean and probe with the wrong scheme. These cases are the exceptions
of `UpgradeKeepsDataAndSettings` and `ProbeSpeaksAsServed`; the second takes three
commands to show. A write that fails or dies may leave its file half written: `Torn`,
but of `regixtry.env` a beginning of it (`Cut`), which `parseManagedEnvFile` parses
like any other file and the next upgrade goes by. It is cut between the strings,
certificate and key, and the switches, never inside one of these.
**`Compose`** (`install/compose`): the project directory, the stack with its
volume and password, PostgreSQL's temporary and final server.

**`Inspection`** (repositories, projects, tags and their delete prompts),
**`AdminPanel`** (sign-in, session, accounts, robots, tokens, grants),
**`ScanHistory`**, **`OverrideEditor`** and **`FeatureScreens`** (feature pages,
policies, update channel) model `internal/tui`: keys are actions, calls are members
of a set, answers arrive in any order or not at all. The scan runs of a repository
are `scans`, newest first, as the server lists them. **`Console`** puts the parts
together, `ConsoleSpec` is the conjunction of their specifications, and it states
what holds on all screens.

`MC*` modules hold constants, bounds and symmetry sets, and put modules that share
no state side by side in one run: a variable `side` says which of them a behaviour
is of, and the others stay in one of their initial states. `*Proofs` modules hold
the theorems.

## 4. The runs

| Run | Shows | Result |
| --- | --- | --- |
| `BlobGC` | `NoDanglingOutsideWindow`: a served manifest lacks a blob only if the unlink overlapped the publish; `PromptPushKeepsBlobs`: the grace window protects a prompt push, even from a collector with an old clock; `AuditTruthful`, `TypeOK` (the gate admits one), `GateReleased` | hold |
| `BlobGCAudit` | `AuditTrailComplete` (docs/registry.md:61) | violated: two deletes of one report |
| `UploadSession` | `IntactUnlessOverlapped`, `AckedPresent`, `QuietIsSound` (row and file agree, and the upload can be completed, unless a request was cut between two file operations), `TypeOK` | hold |
| `ScanRuns` | `DuplicateOnlyIfOverdue`, `CompletedKept`, `TypeOK` (the gate counts its holders); `RunsSettle`: queued runs are carried out, rows left by a crash are cleared; `SweepsKeepTime`: the sweep comes by every repository again and again and its batches keep their distance | hold |
| `ScanRunsRescan` | `LatestCompletedBlocks` (docs/features.md:125) | violated: a rescan opens the pull gate |
| `UserAdminLastAdmin` | `LastAdminKept` (docs/users.md:126) | violated: two overlapping removals |
| `Deployment` | `ReportsAreTrue`, `NothingLost` (`Installer`), `DockerReportsAreTrue` (`Compose`), `TargetsOnDisk`, `LinkFollowsRow`, `SwitchKeepsFormer` (`FeatureRuntime`) | hold |
| `Registry` | `ImplementsContents` (the refinement), `TornOnlyByWrites`, `ListingsComplete`, `DanglingNeedsDelete` | hold |
| `Verdicts` | `VerdictExplained`: a pull is let through only on what held at some moment of it, and a proof is refused only for a named cause; `CountsSeeIndexed`, `MergesKeepTheRest`, `SecretScansExplained` | hold |
| `Access` | `ServedExplained`, `ChallengeSuffices`, `EscalationBounds`, `RobotsWhole`, `EveryPathFound`; `LockoutNeedsOverlap`, `OnlyOverlapLosesUpdates` of `UserAdmin` | hold |
| `ConsoleConfirm` | `NeverConfirmBlind` (internal/tui/model.go:2012) | violated: Backspace clears the question and leaves the prompt armed |
| `Console` | `PromptWasAsked` (`Inspection`), `NothingCarriedOver` (`AdminPanel`), `WaitingHasACall`, `ShownIsOfSelection`, `ShownIsInRegistry` (`Console`) | hold |

The violated properties state what a document or a comment of the repository
says; the `findings` of `PROJECT.json` quote it.

A property with several named parts has a mutant for each part: a plausible
mistake in the code (an operator whose name ends in `_` and a word) under which the
run finds the property violated.

### The exceptions

Most passing properties carry an exception, and the exception is the point: it is
where the code departs from what one would like to say.

Store and scans:

* `NoDanglingOutsideWindow`: a publish that commits between
  `IsBlobDigestReferenced` and the unlink loses its blob (docs/registry.md:59
  says such a digest "is excluded from the delete").
* `IntactUnlessOverlapped`: a chunk that opened the data file before a commit
  renamed it appends to the published blob (README.md:179: "SHA-256 validation
  before a blob is published").
* `QuietIsSound`: a request that dies inside the `os.WriteFile` of `state.json`, or
  between the rename and `DeleteUpload`, leaves an upload that fails every later
  request.
* `DuplicateOnlyIfOverdue`: the age of a run counts its wait for the gate, so a
  live run may be force-failed and its image queued again (docs/features.md:105:
  "never duplicated").
* `SweepsKeepTime`: any error of a tick, a runtime that is not ready among them,
  ends the loop until the process restarts, and only the first 100 repositories are
  ever swept (docs/features.md:111: "every repository's `latest` tag").
* `SwitchKeepsFormer`: installing the active version again makes it its own
  rollback target; a failing install leaves the row at "installing", although the
  link is restored (trivy-runtime/spec.md:39: "record the failure truthfully"). An
  install takes any error of its read of the row for a row that is not there
  (runtime_manager.go:138-141) and marks the row with no version: the version that was
  active is then no rollback target any more, with nobody else at work
  (trivy-runtime/spec.md:27: "while retaining one rollback target").

Registry and verdicts:

* `ListingsComplete`: `Catalog` filters a page after its LIMIT and gives no link, so
  a client stops behind a page it may not read; referrers pushed by an older binary
  after the one-time backfill stay invisible; within one second MAX over time text
  may prefer the earlier push.
* `TornOnlyByWrites`: tag details and a manifest's blobs are read in several
  queries; a write in between mixes two states, or fails the list.
* `VerdictExplained`: a policy and its override are read apart; a manifest at the
  legacy signature tag hides every bundle, though none of its own entries, and without
  one a garbled index does (`Hidden`); a trusted signature over another image ends the
  search.
* `CountsSeeIndexed`: neither the signature count nor the key usage shown before a
  revocation looks at referrers, which the gate does (a comment at
  service_signing_key_usage.go says it mirrors the gate "exactly"). The status of an
  image whose only proof is a referrer that no index lists is therefore verified, at the
  legacy tag, with a count of 0 (queries.go:423), although the comment over that
  code says a real bundle signature "must never be reported back as a nonexistent legacy
  tag with a zero count" (queries.go:388-391).
* `MergesKeepTheRest`: enable, disable and configure write back the row they read;
  a key revoked in between is trusted again.
* `SecretScansExplained`: two legs that both looked before either inserted scan one
  image; an image whose run fell out of the newest 50 counts as unscanned.

Identity:

* `LockoutNeedsOverlap`, `OnlyOverlapLosesUpdates`: guard and write are separate
  statements and the row is written back whole; an upsert that comes after
  `DeleteRobot` inserts the robot again (docs/users.md:99: "a real hard delete").
* `EscalationBounds`: a delegate's check of its peer and its write are two
  statements (docs/users.md:55). A read-only account with a repository-admin grant
  administers grants and deletes the repository (docs/security.md:53 says it cannot).
* `RobotsWhole`: `CreateRobot` takes nothing back: a lifetime beyond thirty days is
  refused after account and grant were written.
* `EveryPathFound`: a repository name with the text of a marker behind its first
  segment is ambiguous, and "/tags/list" is the text of a marker also where more
  follows: of team/tags/listing, a valid name, the paths of the tag list and of the
  referrers are cut behind `team` and answered 404 (router.go:708-713).

Installation:

* `ReportsAreTrue`: an upgrade's rollback enables and starts without stopping
  (upgrade.go:531-537), so where the new release was up when the upgrade failed, its
  process goes on running over the old files and answers the probe. The design says
  "else restore snapshot and restart previous binary" and "rollback restarts prior
  binary" (regixtry-upgrade-lifecycle/design.md:28, 75). The property allows that one
  case and asks otherwise for the old release. A setup that meets a running service
  leaves it as it is, and one that was told not to start says "is running".
* `NothingLost`: a rollback cut off while it writes the binary back leaves a torn
  one; a line removed from `regixtry.env` comes back from the provenance. An upgrade
  that dies, or whose rollback fails, while `os.WriteFile` has `regixtry.env` truncated
  (bootstrap.go:408, upgrade.go:519) leaves the beginning of the new or of the old
  file, and the settings behind the cut are gone unless they are on record. The
  property does not cover a second setup over an installation, which truncates
  the database before the bind check refuses and whose rollback removes the data.
* `DockerReportsAreTrue`: a `docker compose down` that fails is followed by the
  removal of the directory all the same; the orphan volume keeps the old password. A
  write that fails in `WriteProject` leaves a directory that the next setup refuses.

Console:

* `NothingCarriedOver`: an answer that comes after the operator has moved on is
  applied all the same, and no handler looks at the session it was asked in: an
  earlier robot's secret can be shown again (a comment at model.go says it "can never
  render a second time"), an old session's expiry ends the new one. That nothing is left
  of a session is said of `m.adminView` alone: `logoutAdmin` and `expireAdminSession`
  (model.go:3990-4031) leave the pages in `m.adminScreens` mounted, and the next
  session's keys bring an override editor or the update channel up as they were left.
* `WaitingHasACall`: coming back from the panel restores a loading page whose
  answer came meanwhile; a failed history load leaves it loading; a save answered by an
  expired session leaves the update channel saving until the console restarts. The
  override editor is not covered: an answer that says the session has expired does not
  get to it (model.go:1262) and it goes on loading.
* `ShownIsOfSelection`: tokens stay up when the load of another account's fails; a late
  grants answer chooses its account under the tokens that are shown
  (model.go:1446-1448), and a late revocation comes back to a page whose account
  has changed; a history answered twice moves the cursor and keeps the former
  run's findings; a list replaced under an open prompt leaves its index.
* `ShownIsInRegistry`: loads and writes that cross leave a stale copy, which the next
  modal writes back whole; the page of the signing feature is not loaded again
  after its policy is saved; a save answered after its editor was closed does not
  reach its row; and a late save or clear of another feature, which every page gets,
  marks the row of the repository on the page whose editor is open, because
  `applySavedToRow` does not look at the feature (screen_gitleaks_repos.go:69-72,
  151-167; the comment at 55-57 calls a foreign response a no-op).

### Bounds

Two of what interleaves: the races are between a reader and a writer, and each
property is about one blob, image, account, upload, version or screen against one
rival. Where a third party matters it is there: two admins and a robot, two GC
reports in turn, an image with its signature under two tags. `MaxTime` lets a blob
age past the grace window and a report past its lifetime after the last write; time
in `ScanScheduler` is relative and needs no bound. An upload has files of at most two
pieces, enough for a chunk to be torn, interleaved or appended after a rename; two
uploads at once have one piece each (`Bounded` of `MCUploadSession`). `MaxRuns`,
`MaxRow`, `MaxChanges`, `MaxRequests`, `MaxSetups`, `MaxCommands`, `MaxLoads`,
`MaxSent`, `MaxAsked`, `MaxAsks`, `MaxFetches`, `MaxMessages` cap rows, requests,
commands and calls; `MaxCrashes`, `MaxFaults`, `MaxComposeFaults`, `MaxRestarts`,
`MaxLag` cap failures: two faults are needed for one to hit a rollback. `MCBlobGC`
has either pushes against one GC request or two GC requests without pushes.
`MCVerdicts` explores pulls and secret scans apart, and in behaviours of their own three
legs after one write of the settings, two of them at once: after a restart a third leg
meets the rows that two rivals left.
`MCDeployment` and `MCConsole` narrow five sides further, and the theorems below are
without these bounds: `FewerFaultsLater` (of three commands the first has at most two
faults, the first two at most one, and a third runs where nothing failed),
`ThreeCallsAlone`, `FourCallsAlone` and `SixCallsAlone` (the last call of the panel, of
the editor and of the overlay only while one repository is in play), `ForeignEarly`
(another feature's answer comes to the first editor, before it has written),
`QuietAfterCrossing` (no key on a feature screen that is already excused).
Deadlock is checked in `BlobGC` and `ScanRuns`; in the other runs a bound (upload ids,
rows, calls, commands) runs out, after which nothing happens.

### Fairness

* `BlobGC`: weak fairness of each GC request's own steps: a goroutine runs until
  it returns, and one that waits polls the gate every 10 ms and takes it if it
  stays free.
* `ScanRuns`: weak fairness of the goroutines, the clock and the call that holds
  `scanQueueMu`; a scanner process returns because it has a deadline. Strong
  fairness of taking the mutex, which `sync.Mutex` hands to a waiter after a
  millisecond, by requests for each image, which the sweep keeps making.
* `ScanScheduler`: weak fairness of the goroutine and of time.

`RunsSettle` is about a bounded number of runs: a waiter at `scanGate` can be
overtaken by each of them once, not for ever; with an endless stream of runs the
polling gate promises no order. No fairness is assumed of crashes, failures, clients
or answers: what the console waits for is stated as an invariant (a call is under
way), because a call may be lost.

## 5. The proofs

Eight modules hold theorems, each for every value of the constants of its
component: any number of requests, accounts, images, blobs, and any bounds. What
they assume of the constants is the named assumption of the component's module,
which TLC evaluates in the component's run: mostly that bounds are numbers and that
a value that stands for "none" is no member of the set it is missing from. Each
argument is an inductive invariant, checked by TLC on the run's instance before it
was proved, and one lemma per action.

`BlobGCProofs` (`BlobGCAssumption`):

* `TypeCorrect`: `Spec => []TypeOK`, strengthened by `DeleteLoopLocals` (the
  current blob of a delete loop is a blob).
* `NoBlobLostOutsideWindow`: `Spec => []NoDanglingOutsideWindow`. It is not
  inductive: the unlink must know that nobody refers to the blob, and the insert
  that its blobs are still there. `WInv` adds both: `CheckedBlobsExist` (what a
  publish has checked is on disk or raced) and `UnlinkIsUnreferenced` (a blob
  about to be unlinked is not referenced, or raced).
* `GraceProtectsPromptPush`: `Spec => []PromptPushKeepsBlobs`. `GInv` relates the
  collector's old clock to modification times: a clock read is never ahead of the
  clock, what a prompt publish checked is still fresh, and what a running delete
  has listed is older than the window, hence no prompt manifest's blob unless it
  was replaced meanwhile.
* `AuditRowsAreTrue`: `Spec => []AuditTruthful`. `AInv` says that one request at a
  time is behind the gate (`GateExclusive`) and keeps its accounts (`Accounts`):
  what it has not come to has no outcome, what it calls deleted was unlinked for
  its report, and what it is about to unlink is still a file.

`UploadSessionProofs` (`UploadSessionAssumption`): `TypeCorrect`, `BlobsIntact`
(`IntactUnlessOverlapped`), `AckedIsThere` (`AckedPresent`) and
`QuietUploadsSound` (`QuietIsSound`) from one invariant. A request works on its own
upload only, so two requests disturb each other only if the upload is overlapped
(`Alone`); as long as it is not, each knows at every line what the lines before it
left behind (`Found`): where the file is, how long it is, what the state file says
and, at the rename, that the content is what was hashed.

`ScanRunsProofs` (`ScanRunsAssumption`): `TypeCorrect`, `DuplicatesAreOverdue`
(`DuplicateOnlyIfOverdue`), and the action property `ResultsKept`
(`CompletedKept`). The hard part is what `GetActiveScanRunByDigest` returns when
several rows are active, because a force-failed run that starts after all makes
its row active again. `Superseded` orders the rows of an image: all but the last
are finished for good, or were force-failed and created strictly earlier; `InsertInv`
carries what the query found through `scanQueueMu` to the insertion.

`DeploymentProofs` (`FeatureRuntimeAssumption`, `InstallAssumption`), of what is put on
a host. The scanner runtimes:

* `TargetsAlwaysOnDisk`: `Spec => []TargetsOnDisk`. The invariant has to say the
  same of everything an operation carries: the row it read, the version it found,
  its target once it is past the extraction, and the shared `.next` link.
* `LinkAlwaysFollowsRow` (`LinkFollowsRow`) and the action property
  `FormerAlwaysKept` (`SwitchKeepsFormer`), both about operations one after the
  other. `LinkInv` says where the link is at each place of the one operation in
  flight: at the row's version until the rename, at the target until the row is
  saved, on its way back after a failed probe.

The docker deployment, `DockerReportsAlwaysTrue` (`DockerReportsAreTrue`): `DeployInv`
says what a setup has done where its program counter is, and `Clean` that what is left
over was left by a failure.

The installer, for any number of commands, faults and hand edits:

* `InstallInvHolds`: `InstallSpec => []InstallInv`. What a command reports is about
  files written many steps before, by steps that may each have failed, so no report
  follows from the last step. A command is the list of steps it has still to take,
  and `InstallInv` says for each number of steps left what is on disk: `SetupAt`,
  `UpgradeAt`, `CopiesAt` and `RestoredAt` for the restore of a failed upgrade,
  `RemovedAt` for rollback and uninstall, and `AtRest` between commands, where
  anything may have been left except a copy of the binary under the name of an
  upgrade's own. One lemma per step and list; that a list only gets shorter is
  `SuffixHead` and `SuffixLater`.
* `ReportsAlwaysTrue` (`ReportsAreTrue`) and `NothingEverLost` (`NothingLost`), action
  properties, from it. The proof needed `regixtry.env` to be on record where an
  upgrade starts. Nothing gives that, and TLC then showed behaviours of three commands
  in which the settings or the probe go wrong: that is the exception `OnRecord`, which
  a run of two commands never met.

`RegistryProofs` (`Registry_Constants`; its last conjunct says that the value for
"no repository" is not the contents of one, and another that no tag is a digest):

* `StoreImplementsContents`: `Spec => ImplementsContents`, the refinement. Every
  transaction over the four tables is one write to one repository of
  `RegistryContents`, and everything else a stutter. It rests on `TInv`: row numbers
  are handed out once, names and digests are unique where the schema says so, no row
  outlives the one it refers to; then a tag leads to one manifest of its own
  repository, and the mapping is a function.
* `ListingsAlwaysComplete`: `Spec => []ListingsComplete`, from one argument for each of
  its four parts. `RowsNeverOrphaned` and `ReferrersAlwaysComplete` are the first two,
  from `BInv` (the blob rows of a manifest are its payload's) and `SInv` (a subject
  column is right once the backfill has run, but for rows that the older binary wrote
  after it). A page is a prefix of the sorted names, and by `ReadInv` a client has got
  every name up to the last one it was given that was there all the time, or has
  counted it as hidden. That text orders times of different seconds is
  proved for every fraction. Sorted lists exist by a least
  counterexample: the well-founded order of the naturals takes the place of an
  induction over them.
* `TornOnlyByAWrite`: `Spec => []TornOnlyByWrites`, from `ReadInv` as well: as long as
  nothing was written to its repository, the tables still hold every row that a request
  in flight was told of, and the second query finds what the first one found. It needs
  that no tag is a digest, as `ParseDigest` decides by the form of a reference which
  of the two it is.
* `DanglingOnlyByDelete`: `Spec => DanglingNeedsDelete`, an action property.
  `PInv`: the subject of a push that was checked is there, unless a delete came
  after the check.

`AccessProofs` (`Access_Constants`), of `AccessSpec`; the run adds paths, each of
whose steps is one of `AccessSpec` or leaves it alone: `ServedIsExplained`
(`ServedExplained`), `ChallengeIsEnough` (`ChallengeSuffices`), `EscalationIsBounded`
(`EscalationBounds`) and `RobotsAlwaysWhole` (`RobotsWhole`). A request carries what
it has seen. `RequestsSound` says for each place in its code what that is: its secret
and account were good at some moment, the roles it found cover what it may do
(`Passed`), its copies are the rows as long as nothing overtook it (`UpToDate`), and
a delegate about to write over an administrator's grant looked before the grant was
made (`PeerChecked`). `HalfRobots`: a robot without a credential has a request that is
still creating this very row, or is broken.

Also in `AccessProofs` (`UserAdminAssumption`), of `UserAdmin`:

* `LockoutOnlyByOverlap`: `Spec => []LockoutNeedsOverlap`. `IInv` adds the types,
  that a request which nobody overtook holds a copy that equals its row
  (`CopyInv`), that its guard has found another admin who is still there
  (`GuardInv`), and that the rows of robots are no admins' (`RowInv`).
* `AdminQueriesAlwaysAgree`: `Spec => []AdminQueriesAgree`, from the same: the query
  of bootstrap and the one of the last-admin guard agree on whether there is an
  admin. It is proved and not part of a run.
* `UpdatesLostOnlyByOverlap`: `Spec => OnlyOverlapLosesUpdates`, an action property
  from the same `IInv`: by `CopyInv` what a fresh request holds is the row, so the row
  it writes differs from the one it replaces in what it was asked to change only.

And of `Routes` (`RoutesAssumption`: a repository name is a list of segments and none
of them is one of the actions glued to a user's name, whose colon
`repositorySegmentPattern` does not allow):

* `EveryNameFound`: `requested \in RepoName \cup {<<>>} => EveryPathFound`, for names of
  any length, where the run tries those of up to three segments. `MarkerBehindName`
  is the heart of it: in the path of a name that is not ambiguous every marker, as
  text, stands right behind the name, and one does; so whichever of the six the router
  finds first, it cuts the path there (`SplitAtName`), and the switch sees the suffix
  alone. In the paths of the administration the name is at a place that is counted
  from one end.

`PullGateProofs` (`PolicyAssumption`, `PullGateAssumption`):

* `VerdictsExplained` (`VerdictExplained`) and `UsageSeesIndexed`
  (`CountsSeeIndexed`), of `PullSpec`: one request against anybody who writes
  settings, signatures and scan runs. `RInv` says what a request knows between its
  reads: what it read still holds or was written since (`Read`), the policy it
  decides by held at some moment or both of its rows were rewritten (`PolicySeen`),
  and, if nothing was written, nothing it passed over would have been accepted
  (`Passed`). A refusal then has one of four reasons, and an acceptance was reached
  by a legacy entry, by a listed bundle or by a referrer, which is what the two
  counts can and cannot see.
* `MergesAlwaysKeepTheRest` (`MergesKeepTheRest`), of `PolicySpec`: all writers of
  settings at once, where the run has those of the gates and those of the scanners
  apart. `PInv`: a caller nobody overtook has read the row as it is, and one that
  will enable the policy has seen a key in it.
* `SecretScansAlwaysExplained` (`SecretScansExplained`), of `SecretSpec`
  (`SecretScansAssumption`): any number of legs, rows and restarts. `SInv` adds that
  of the runs of its image which a leg saw, none is in flight and younger than the
  timeout until it inserts its own row (`Cleared`). The code looks at the newest
  active run only; that this is enough needs `OlderFirst`: of two runs in flight the
  older one is overdue first. A model in which rows became overdue in any order was
  refuted by the attempt to prove it.

`ConsoleProofs` (`GlobalKeysAssumption`: the global keys are a list of keys). The run explores the
parts one at a time and with few calls; the theorems are of all of them at once, with
any number of calls, and each part has an invariant of its own:

* `PromptsAreAsked` (`PromptWasAsked`), of `Inspection`. `InspectionInv`: a prompt
  keeps a question of its own kind that was asked; what was deleted and is still listed
  will be told of, by the catalog its delete loads or by one that no longer lists it;
  at most one list is being fetched.
* `PanelCarriesNothingOver` (`NothingCarriedOver`), of `AdminPanel`. `PanelInv`: until
  an answer overtakes a selection, a call that is not late was sent from the page that is
  up and, where tokens are shown, for the account that is chosen; a prompt was opened on
  the page it will act on; without a session the view is empty.
* `WaitingAlwaysHasACall`, `ShownIsAlwaysOfSelection`, `ShownIsAlwaysInRegistry`, of
  `ConsoleSpec`, from these and three more. `HistoryInv`: what a window lists or asks
  about was recorded, and a run's id says whose it is. `ScreensInv`: unless requests
  crossed or the session expired, an answer on its way says what the server keeps
  (`AnswersAgree`), and where a screen is behind, an answer that brings it up to date is
  on its way (`PageAgrees`, `ChannelAgrees`). `EditorInv`: while the editor is sure, at
  most one call is about its repository, and its answer is what is stored
  (`EditorTold`); a row that is behind has a write in flight that was carried out
  (`RowsTold`); one count is under way at most, of the key the list points at
  (`CountTold`).

Only model-checked: liveness (`GateReleased`, `RunsSettle`, `SweepsKeepTime`), because
fairness and `ENABLED` are out of the prover's reach. Every other property of a passing
run is stated by a theorem.

## 6. Not modelled

* Byte formats, HTTP encoding and decoding, logging, terminal output and views,
  JSON reports of the scanners, cryptography, password hashing, DDL, downloads.
  Their outcomes are inputs or choices of the models.
* Parsing of manifests: what a manifest refers to is a constant function of it.
* The order in which `ListBlobs` walks directories; `CancelUpload`, which nothing
  calls.
* In the installer: the global admin that a systemd setup makes in PostgreSQL before
  its first step (`bootstrapSetupAuth`, cmd/regixtry/main.go:1340-1343), which no failure
  and no rollback takes back (`Compose` has the docker setup's); the import of a
  legacy Trivy directory, the detection of the
  platform, and hand edits of the TLS settings, after which an upgrade probes with
  the wrong scheme (hand edits of the switches are in).
* Receipts of the scanner runtimes, and rows the store derives from settings older
  than managed runtimes.
* In the console: tables and sorting, the decoding of the admin client and its
  15-second timeout (an answer that is an error stands for it).

`components` in `PROJECT.json` says of each part what is in and why the rest is out.

## 7. Running

    tlc -config BlobGC.cfg MCBlobGC      (likewise for every run of PROJECT.json)
    tlapm BlobGCProofs.tla
