# sdl_db_backup: specification and proofs

TLA+ models of the backup runner in `internal/backupapp`, the TLC
configurations that check them on small instances, and theorems about them that
TLAPS checks for every value of the constants.

Paths below are relative to the repository (`src/` in `PROJECT.json`).

## 1. Inventory

| Component (files) | State it keeps | Operations | Hard because | What makes it correct |
|---|---|---|---|---|
| Backup lock (`app.go`: `acquireLock`, `isLockStale`, `backupRunMutex`) | in-process mutex, flock, PID in the lock file | acquire, release, death of the owner | file contents and flock change separately; PID reuse; two kinds of lock users | one holder at a time; a lock left by a crash can be taken again |
| Run orchestration (`app.go` `RunBackup`, `reliability.go`, `durability.go`) | run folder, `manifest.json`, schedule state, history line | capture, verify, upload, save schedule state, finalize, append | many early returns, each leaving other files behind; crash between any two writes | what the history, the schedule and the manifest say agrees with what was stored |
| Direct upload (`s3.go`, `multipart_journal.go`) | objects under the run prefix, markers, multipart journal | destination check, PUT/multipart, HEAD, GET compare, list, marker, confirm | retries, lost responses, journal reuse after a crash | COMPLETED only for a whole intact capture, never overwritten |
| Manifest pin (`manifest_commit.go`) | `manifest-commit.json`, `final-run-metadata.json` | pin, final metadata, verification | pin is written after the marker | a pinned manifest is what was uploaded |
| History (`database.go`, `platform.go`) | `backup-runs.jsonl` | append, read-modify-rename | rewritten without any lock | no record is lost |
| Reconciliation (`reliability.go`) | manifest, audit | re-verify, re-publish | starts from what a failed upload left behind | only verified captures are published |
| Storage manager (`storage_manager.go`, `storage_delete.go`, `storage_count_expiry.go`, `storage_metadata.go`, `storage_remote.go`, `storage_verify_cache.go`, `storage.go`) | local payloads, deletion journals, reports, verification cache | scan, classify, protect, delete, recover intents, emergency release | evidence gathered long before the deletion; remote objects change in between; crash between intent, unlink and audit | never deletes the last good copies, whatever fails |
| Retention (`retention.go`, `cleanup.go`) | quarantine folders, audit | plan, apply | same evidence problem, own lock | minimum generations kept |
| Schedule (`schedule.go`) and its editing (`schedule_apply.go`, `systemd.go`) | last success per kind; env file and timers | evaluate due slots; transaction with rollback | time zones, DST, long runs, partial failure of the transaction | every slot is served once |
| Capture (`database.go`, `global_capture.go`, `ddl_guard.go`, `logical_compress.go`, `schema_inventory.go`, `pitr.go`) | artifacts | worker pool, retries, DDL guard | concurrency, DDL during the dump | a success is a complete dump |
| Manual runs and scope (`tui/app.go`, `tui/input.go`, `tui/cmds.go`) | pages, selections, confirmation, log channel of the run | keys, late messages, start, log lines, finish | commands answer after the page has moved on; the backup writes into a channel the page reads | the scope applied is the one shown; a started run ends |
| Physical backup (`xtrabackup.go`, `physical_integrity.go`, `physical_restore.go`) | S3 stream, verification | stream, retry, parallel verification | pipe of processes, retry after partial effects | success only when verified |
| Restore validation (`restore.go`) | sandbox schema, evidence | restore test, evidence | concurrent with runs | evidence is about the artifact it names |
| HTTP API, other TUI pages, metrics, health, config, crypto, resources, dashboards | - | presentation, parsing, I/O | - | not modelled, see section 7 |

How they interact: `RunBackup` takes the lock, calls the storage manager before
the capture, the capture, the physical backup, `cleanupOldBackups`, the upload,
`saveScheduleState` and `finalizeRun` in that order. Reconciliation and the
storage recovery commands take the same lock. Validations, the API and the TUI
share files with them and take no lock.

## 2. Plan

Order of the modules, the most important behaviour first. Those marked *done*
are in this directory.

| Module | Content | Composition | State |
|---|---|---|---|
| `RecoveryPoint` | abstract: a recovery point appears whole, once, and is claimed only after it exists | - | done |
| `RunRecord` | the run record as data: outcomes of dumps, verification, bookkeeping | - | done |
| `RunPublish` | a run, the upload, the pin, the history, reconciliation, validations, crashes | extends `RunRecord`, implements `RecoveryPoint` | done |
| `RunLock` | the lock that makes one holder of `RunPublish` and `StorageCleanup` | - | done |
| `StorageCleanup` | the pass before a capture, deletion journal, accidents around it | - | done |
| `MultipartUpload` | requests, journal, abort, recovery, crashes of one large artifact | a finer view of `UploadArtifact` | done |
| `ScheduleSlots` | `evaluateSchedule` with the state file, runs, edits | moved by `MCOperator` | done |
| `ScheduleApply` | transaction over env file, drop-in and timer with rollback | moved by `MCOperator` | done |
| `LogicalDump` | discovery, worker pool, pipeline and retries | gives the dump outcomes of `RunPublish`; moved by `MCCapture` | done |
| `GlobalCapture` | one dump of all databases under the DDL lock | gives the dump outcomes of `RunPublish`; moved by `MCCapture` | done |
| `PhysicalBackup` | stream, comparison, marker of one attempt | gives the physical outcomes of `RunPublish`; moved by `MCCapture` | done |
| `TuiScope`, `TuiRun` | the scope page; the manual backup page and its run | before and above a run; moved by `MCOperator`, `MCCapture` | done |
| `Retention` | plan by generations and quarantine | after a run; moved by `MCOperator` | done |
| `VerifyCache` | which evidence may be reused | under `StorageCleanup`; moved by `MCOperator` | done |
| physical attempts and restore | the loop over attempts, the restore steps | beside `PhysicalBackup` | later |
| the multipart transfer as an implementation of the one-step transfer | a refinement mapping | `MultipartUpload` to `UploadArtifact` | later |

Theorems: every invariant that a passing run checks, every action property but
two, and the refinement of `RecoveryPoint` are proved (section 8). To come: the
parts of `CoverageKept` that need no induction over the fold, and the multipart
refinement above.

## 3. Modules and the code

**`RunRecord`** holds what `manifest.json` and the history say of a run
(`app.go` `databaseResult`, `runRecord`). A database's result is one of the
outcomes of a dump that later code tells apart: intact, damaged on disk,
with an inventory that the parser misreads, scoped, failed, absent.
`verifyLogicalCapture` decides from them as `reliability.go` does from hashes
and inventories, `setManifestMetadata`, `Tally` and the two
`markLogicalUpload...` are the bookkeeping in the order of the code.

**`RunPublish`** has one action per step between two durable effects: the
variables are the local files (`manifest`, `commit`, `history`, `sched`), the
S3 objects (`object`, `rmanifest`, `marker`), the memory of the lock holder
(`pc`, `job`, `rec`, `cap`, ...) and of one validation (`vpc`, `vsnap`). Run and
reconciliation share the actions of the direct upload, as they share
`uploadBackupDirectToS3`. Each S3 write may fail, take effect, or take effect
and lose its answer; each local write named in `Faults` may fail; `Crash` may
happen between any two steps. `Faults` holds `"premanifest"` only in the run
that shows what this failure does, because the code ignores it. Simplifications: the draft
manifest is transferred before the artifacts (the code takes the files in name
order, and nothing reads them before the inventory check); a request whose
client gave up takes effect at once or never; failures before the run folder
exists only append to the history and are left out.

**`RunLock`** separates the in-process mutex, the flock and the content of the
lock file, as `acquireLock` changes them one system call at a time.
`EnterDirectly` are the commands that take the lock without the mutex.

**`RecoveryPoint`** is what an operator may rely on. In `RunPublish` the point
of a run is what its COMPLETED marker lists and the claim is what the history
says (`Published`, `Claim`).

**`StorageCleanup`** follows `storageManager.ensure` (`storage_manager.go`).
`kind`, `local`, `remote`, `guard` and `folders` are the files; `pass` is the
evidence in memory (`protectedFiles`, `proofs`, the candidates), which is what
gets stale; `journal` is `storage-deletions/*.json`. One payload is one unit of
the disk, so the required space, the watermarks and the count limit are small
numbers. `Scan`, `VerifyRemote`, `recoverIntents`, `DeleteNext`/`HoldNext`,
`ReleaseSecond` and `Finish` are the parts of `ensure`; `CheckLocal`,
`WriteIntent`, `unlinkStoragePayload` and `RecordOutcome` are
`deleteCandidate` split where something durable changes or where a check looks
at files or at S3. `blocked` is the early return with too little evidence.
Around the pass, `Pin` pins a run, `RestoreTest` tests one, `Replace` rewrites a
local payload, `RemoteChanges` removes or replaces an object, `Crash` ends the
process. What the pass knows of a test is what `manifest.json` says
(`runHasSuccessfulRestoreValidation`), and that is `guard`; what really happened
is in the history, and that is `proved`, which no step of the pass reads. The two
differ for every run that was published before its test: `updateRunRecord` writes
the history, then `writeManifest` refuses the committed manifest
(`database.go:1366`). `remote` tells whether a run was published: "none" is
never, "removed" is published and gone from the bucket since.
`late` is the one variable without a counterpart: it records which
side (files, S3) changed after the last check that looks at it, and only the
property reads it.
Simplifications: a run has one payload; writing DELETED and pruning the folder
are one step (a crash between them leaves a folder of metadata, which the next
pass prunes); a local file that is replaced gets a new identity (inode or
times), and a file that was damaged before the pass keeps its size; a capture
without a logical task has the limits of "apply".

**`LogicalDump`** is the logical capture below `RunBackup`. `capture` is the
run (discovery, the tasks handed to the pool, the tally), `worker` the pool of
goroutines, `outcomes` the buffered channel of results. `task[i]` is one
database in `dumpWithRetry`: the dump process, the pipe, the compressor and the
file are separate, because a compressor whose input ends sees the same end of
stream whether the dump finished or died. A file records which attempt wrote
how many chunks. The content of a dump is a number of chunks.

**`GlobalCapture`** is `captureGlobalLogical` (`global_capture.go`) under the
lock of `ddl_guard.go`: fingerprints, the dump of one database after another,
the question whether the session still lives, and the comparison. `Ddl` changes
a schema whenever the session is not there; `LoseGuard` ends the session at any
time. `schema` is what the server would say, `read` what the dump found. The
model compares whole schemas, the code names of objects; `GlobalIsFrozen` needs
only the check of the session and holds without the comparison too.

**`MultipartUpload`** is one large artifact in `uploadDirectMultipart`
(`s3.go`, `multipart_journal.go`): initiate, journal, parts, complete, HEAD, the
deferred abort and the recovery of the next attempt. Each request may fail, take
effect, or take effect and lose its answer; a completion may fail behind a
status of 200. `forgotten` is the one variable without a counterpart: uploads
whose identifier was lost before any file could name it.

**`PhysicalBackup`** is one attempt of `runPhysicalBackup`: two piped processes
with their exits, the listing of the prefix, the workers that compare each chunk
with its checksum, the deadline, and the marker with its HEAD.

**`TuiScope`** and **`TuiRun`** are two pages of the terminal interface: one
action per group of keys that do the same, one per message that `Update`
handles. In `TuiScope` a listing is in flight between the command and its
message, and answers after any number of keys. In `TuiRun` the backup runs in a
goroutine, its log lines go through a channel of `LogBuffer` lines that one
command at a time reads, and the finish message arrives when the channel is
closed. The cursor of the tables moves by its position among those that the
search shows (`Position`), as the code's does. `Patient` says that a new start is confirmed only after the messages of
the previous run were handled (section 6).

**`ScheduleSlots`** has the clock, the schedule, the last success and the active
run; `Due` is `evaluateSchedule` with its targets, which are computed partly in
the named zone and partly in the zone of the process. **`ScheduleApply`** has
one action per step of `applyScheduleTransaction`, forward and back, on the
files and on the timer as systemd sees it (`loaded` and `active`, external);
`strange` is a drop-in of somebody else that makes every verification fail.
Others write `.env` and the temporary overrides at any time.

**`Retention`** has the folders, the plan of `PlanRetention` with the loop of
the code as a fold, and `applyRetentionPlan` candidate by candidate. Restore
tests, pins and damage happen at any time. `hurt` is read by the property only:
runs that were damaged after the plan.

**`VerifyCache`** has the cache file and one record per verification, with the
cache in its memory. An identity is a number that every change of the artifact
increases; it stands for size, times, inode and the claims of the manifest, or
for ETag, version and size in S3. `full` are the verifications that read
everything and only record.

**`MCOperator`** and **`MCCapture`** put components together that share no
variable in the code. A product of their states would say nothing more than
the sum, so `part` picks the component that moves and the others stay where
they started. Each action and property is the one of the component's own
module; the constant `Moving` restricts an instance of `MCOperator`.

## 4. Runs

| Run | Instance | What it shows |
|---|---|---|
| `publish` | one run, two databases (symmetric), five dump outcomes, all upload modes and physical outcomes, all failing writes but `premanifest` | the main safety properties and the refinement of `RecoveryPoint` |
| `publish_validate` | the same with a validation at any time, direct mode | `CompletedIsWhole`, `RemoteEvidence` and `CompletedFinal` survive the unlocked rewrites |
| `premanifest_lost` | the write before the upload fails | a violation, section 6 |
| `marker_manifest` | no local failure at all | a violation, section 6 |
| `history_kept` | two runs and a validation | a violation, section 6 |
| `lock` | two processes of two threads, two deaths, one PID reuse or I/O error | mutual exclusion, the named holder, and availability |
| `storage` | eleven histories of at most four runs, disk of 4 or 5 payloads, limit off or 3, two passes, one crash, one accident | the seven properties of `StorageCleanup` |
| `storage_outage` | three healthy runs, S3 not answering | a violation, section 6 |
| `storage_damaged` | the oldest of three runs damaged | a violation, section 6 |
| `operator` | scope page over two databases of two tables; two appliers of three plans; seven schedules over 38 ticks of a four-tick day; four runs under four retention policies with two events; one local file and one object under two verifications | selections, due slots, the schedule transaction, retention and the verification cache: nine properties |
| `capture` | two manual runs with three log lines and a buffer of one; two databases, two workers, two attempts, two chunks; two databases of two schema versions; three uploads of two parts; a stream of three objects and two workers | a run that ends, dumps that are whole, the frozen schema, the object, the journal and the physical marker: nine properties |
| `retention_tested` | the retention part of `operator` | a violation, section 6 |

Why the bounds suffice. `RunPublish`: runs interact only through the history,
the schedule state and the inventory parser, so one run with two databases
(one can fail while the other succeeds) and re-runs through reconciliation
reach every branch; two runs are needed, and used, for the lost history line
only. The proofs cover any number of both. `RunLock`: three of the four actors
can be holder, stale owner and newcomer at once. `StorageCleanup`: four runs
are the two protected points, one candidate and one more; the limit 3 is the
smallest that allows count expiry; the disk of four refuses or releases the
second point, that of five runs into the low watermark; the second pass finds
the journal of the first. `LogicalDump`: two attempts and two chunks are a first attempt that
leaves less, as much or nothing, and two workers race for two tasks and for the
channel. `GlobalCapture`: DDL needs a second version to change to and back,
and a database before and after the cursor. `MultipartUpload`: the third
upload meets what two earlier ones left, one of them named by the journal.
`PhysicalBackup`: two data chunks and one of metadata, so that one is
missing, one wrong and one at a worker. `ScheduleSlots`: three weeks of three
days, which is longer than any schedule looks back. `Retention`: four
runs are one more than the newest periods of any policy keep, with two in one
day, week or month; two events are a test and a pin, or a test and damage.
`VerifyCache`: two verifications, one change and one tick, so that an entry can
be fresh, expired or of an older file; the theorem about it has no bounds.

The histories of `MCStorageCleanup`, oldest run first:

1. three whole points in both places: cleanup by count and by pressure;
2. a temporary dump of a failed run below two good ones;
3. a partial run whose payload equals that of run 1 (`MCTwin`);
4. a point that never reached S3, with two newer ones: count expiry;
5. the same with damaged bytes in a full store;
6. a run whose physical task failed (PARTIAL marker) and one whose S3 copy is rotten;
7. two evicted points and a local one: evidence from different runs on each side;
8. a pinned oldest run;
9. a published oldest run that S3 has lost: a test of it stays invisible;
10. nothing intact: the pass is blocked;
11. two expired damaged payloads below two good points: the second pass meets the
    failed deletion and the interrupted one of the first.

Every property of a passing run has a mutant in `PROJECT.json`: a plausible
slip in one definition that TLC then reports. The mutated forms stand in the
modules before the definitions they replace, each under a comment.

`CHECK_DEADLOCK FALSE` is set where the system may stop: the number of runs,
passes or deaths is bounded, and a finished instance has nothing left to do.

## 5. Fairness

`RunLock`: the timer starts the tool again and again (`WF Start`, `EnterRun`), a
process that is not killed runs on (`Acquire`, `Unlock`). Nothing is assumed of
how long a holder works, and deaths are never required. `LockRegained` is
claimed for behaviours without PID reuse and I/O errors.

`StorageCleanup`: a pass is sequential code with timeouts on every request, so
a started pass is not left alone (`WF PassStep`); a crash also ends it. Nothing
is assumed of operators, S3 or the disk.

`TuiRun`: goroutines are scheduled and `Update` handles every message
(`PageFairness`); keys are never required. `LogicalDump`: processes and goroutines are scheduled, and every dump
has a timeout after which it is killed (`DumpFairness`), one condition for the
capture and one for each database; no step has to succeed. `RunEnds` and
`CaptureEnds` are claimed under these.

The other modules have no liveness property. `RunPublish`: an upload may fail
for ever. `ScheduleApply`: a transaction may be killed.

## 6. What the code does not keep

Six runs end in a counterexample to a sentence of the repository
(`PROJECT.json` "findings" quotes each):

- `premanifest_lost`: when `manifest.json` cannot be written before the upload
  the uploader publishes the manifest of the start of the run, with a FAILED
  marker and no artifact, and the run is a verified success;
- `marker_manifest`: when the answer to the PUT of COMPLETED.json is lost, the
  manifest the marker refers to is rewritten locally;
- `history_kept`: a validation that ends while a run appends to the history
  drops that record;
- `storage_outage`: over the count limit an outage of S3 stops the captures
  although the disk has room;
- `storage_damaged`: an expired run with damaged bytes fails every pass, and so
  every capture, until someone removes it.
- `retention_tested`: a run that was published and then restore-tested is
  proposed for quarantine. The test reaches the manifest only while it is not
  committed (`database.go:1366`), and the plan reads the manifest
  (`retention.go:90`).

The storage manager has the same gap, and there it costs the payload. README.md:430
and :467-468 and WORKING.md:213-214 say that restore-tested runs are kept, but
`deleteCandidate` and the checks before it (`storage_delete.go:232`,
`storage_count_expiry.go:53`, `storage_manager.go:258`, `:275`, `:359`, `:485`)
ask the manifest. That is why
`Justified` says `r \in proved => remote[r] # "none"` and not `r \notin proved`: a
tested run is safe only if it was never published. With the stronger conjunct TLC
finds, in the instance of `storage`, a pass over a store of four whole runs
(history 8): run 2 is published and its restore test succeeds, at any step up to
`CheckLocal`; the manifest carries no test, run 2 stays a complete duplicate
beside the protected points 1, 3 and 4, and its payload goes. The same happens to
an expired run by count retention (history 9).

Three constants keep a property true, and TLC finds a counterexample when
they are changed:

- `LocalZone` different from `ScheduleZone` in `Operator.cfg` breaks
  `DueAtSlots`: the last success is read in the zone of the process
  (`schedule.go:23`), so a slot is due twice or not at all;
- `Steady = FALSE` breaks `AcceptedIsWhole`: `recordLocal` calls stat after the
  file was read (`storage_verify_cache.go:195`), and a file replaced in between is
  later accepted unread;
- verifications of two processes (`ProcessOf` injective) break `ResultsKept`: the
  mutex around load and write is of one process, and `retention-plan` saves in another.

`Patient = FALSE` breaks `RunEnds`: a second start that is confirmed before the
messages of the previous run were handled leaves the channel of the new run
without a reader once the old one is closed, and the backup blocks in its
logger with the lock held.

Seen while the code was translated, as behaviour of the models and not as properties:

- with validations `PinnedIsPublished` fails: `writeManifest` looks for the pin
  and then writes (`database.go:1366`), and an upload may pin in between;
- a late listing shows the tables of one database under the name of another
  (`tui/app.go:566`);
- a schedule that is applied while temporary overrides are in force writes them
  into `.env`, because the effective configuration is saved; the configuration is
  loaded before the schedule lock is taken, so a save in between is lost, and a
  rollback restores `.env` over saves made during the transaction;
- a drop-in write that fails after its rename, and a failed audit, return an
  error without a rollback; a transaction that is killed is not repaired;
- a slot that passes while a run is active counts as served by it;
- when the tables of a database cannot be listed, the database is dumped whole,
  while the log says it is skipped; the check for an empty dump
  (`database.go:1010`) never fires because the compressor writes a header;
- a dump that succeeds after a retry keeps the error text of the earlier
  attempt; a hash that fails in the last attempt leaves a whole file under a
  failed result;
- a lost answer of the initiate request, a crash before the journal, and a
  completion that fails behind a status of 200 leave open uploads that no file
  names; a completion whose answer is lost reports a failure over a whole object;
- one damaged candidate ends a retention pass; damage to a run the plan keeps,
  and a test that succeeds after the plan, are not seen.

## 7. Not modelled

Dump contents, compression, encryption, SQL inventories and XtraBackup streams
are data or other programs; their outcomes are inputs. The HTTP API, metrics,
health reports and inspection read what the models write and decide nothing; the
settings, schedule and inspection pages of the TUI edit a draft of the
configuration and call what `ScheduleApply` models. Configuration parsing,
installation scripts and dashboards have no state. Of the physical backup the
loop over attempts and the restore are left out: the loop returns after its first
attempt whatever that gave, and the restore is work of the tools. A sandbox restore is one
outcome (`RestoreTest` of `Retention` and `StorageCleanup`, a validation); one that
fails after another succeeded is in `Retention` only. Leaving the terminal
interface while its backup runs ends the process; `RunPublish` and `RunLock` have
that as a crash, `TuiRun` does not. Also outside: a history line
torn by a crash, two runs with one identifier or a day of another length at a
change of the clock, writers of the backup disk other than the tool, and fields
of the audit files that no code reads back.

## 8. Proofs

The constants are any values that satisfy the assumptions of the modules
(`...Assumption`): counts are natural numbers, a day has a tick, the absent
upload is not an upload ID, what `.env` lists are databases and tables that
exist. What a theorem assumes beyond that stands in it as `ASSUME`. Each module
of proofs extends the component's module.

**`RunLock_proofs`**: `TypeCorrect`, `MutualExclusion`, `HolderAlwaysNamed` and
`BusyAlwaysOwned`. The inductive invariant says that a thread between opening
and unlocking owns what its step needs: the flock from `read` on, the mutex when
it entered through a run, and that the file holds its PID from `hold` on.
`BusyIsOwned` needs the converse (`OwnerFound`): without a fault the file names
nobody, a dead process, or the one whose thread holds the lock, so a live PID in
the file is never left behind.

**`RunPublish_proofs`**, in five layers.

- `TypeCorrect` and `CompletedIsFinal`: an upload in flight met an empty
  marker (`HeadChecked`), so nothing changes under a prefix once its marker is
  there.
- `CompletedAlwaysWhole` and `EvidenceIsRemote`, with validations that
  rewrite manifests at any time. A validation changes the manifest under the
  uploader, so "the manifest is the one that was read" is not invariant. What
  is: all records of a run that tell of its capture, on disk, in memory, in a
  validation and in S3, tell the same (`OneCapture`), none of them is replaced
  by one that tells nothing on its way to the marker (`Telling`), and a record
  claims an upload only of a run that is pinned, or about to be (`Evidence`).
- `PinnedAlwaysPublished`, from `PointInv`: the manifest that an upload read is
  the current one and pinned by nobody until the uploader does.
- `SuccessAlwaysCompleted` and the refinement `ImplementsPoint`, from
  `ClaimInv`: the record in memory, the manifest that the uploader reads and the
  capture it uploads are the same (`Matched`), a success among them verifies
  (`Verified`), nothing claims an upload before the marker is confirmed
  (`Claimed`). For the refinement `Settled` adds that the history reports a run
  once, after which no reconciliation takes it up. Every step then is a step of
  the abstract point (publish, claim) or a stutter.
- `SlotServedByCapture` and `ReportedSuccessServes`, from `SlotInv`: the run that
  served the slot has its manifest in place and at most two steps to go.

The last three layers assume `~Validating`; the last two also `"premanifest"
\notin Faults`. Both are needed: section 6 has the step of a validation that
breaks `PinnedIsPublished`, and the run `premanifest_lost`.

**`StorageCleanup_proofs`**: `TypeCorrect`; `OneIntentAtATime`, where an intent
in the journal belongs to the job at hand or to a pass that still has to
recover it, so no second one is written before; `JournalAlwaysTruthful`, by
which payload each step of a deletion has removed; `CaptureAlwaysFits`, where
no step but a capture adds a payload, and a capture follows an answer that was
given with `Sufficient` true.

`DeletionAlwaysJustified` rests on the invariant `Evidence`: what a pass
carries from its checks to the removal. `LocalInv`: a protected point whose file
identity is still the one inspected is whole, and the newest protected point has
nothing whole above it (`Lead`; a greatest element of a finite set of numbers,
by well-foundedness). `ChoiceInv`: two complete points were found in S3, none
under a PARTIAL marker, and a temporary dump is a candidate only under a newer
protected point. `JobInv`: what each check of a deletion established still holds
unless `late` says that something changed after it. It is needed because the
removal looks at nothing but the file: all of `Justified` comes from earlier
steps, and the release of the second newest point must be seen not to take the
leading one. Of restore tests it says what the manifest allows: `TestShows` is the
invariant that a tested run was published or shows its test or a pin, so what the
last look does not see is a test of a published run, or comes later.

`RefusalAlwaysCaused` adds `Clean`, which holds while no accident has happened:
what was inspected is still so, every candidate that is left was tried or is
authorized, and an intent is one of an authorized deletion. The proof attempt
corrected the property. It had excused a refusal only by the failed deletion at
hand; with two damaged expired payloads a crash leaves the intent of the first,
and the next pass refuses over it without a job (history 11, `Spoiled`).

**`LogicalDump_proofs`**: `DumpTypeCorrect`, `DumpedAlwaysWhole` and
`SavedAlwaysMeansAll`, for any databases, workers, attempts and chunks.
`DumpInv` says for every task what its stage implies (`AllSound`): during an
attempt the file holds what this attempt's compressor was sent, a dump that
exited well has sent everything, a success was earned by such a dump and by a
compressor that ended after it. Since a step changes one task, each action is a lemma
about one record. `HandedOver` says that a result in the channel is final, and `Saved`
that the tally was taken with all of them there.

**`GlobalCapture_proofs`**: `GlobTypeCorrect` and `GlobalAlwaysFrozen`. While
the session lives the schemas stand still, so what was read of them is what they
are (`Frozen`); the check that finds the session alive turns this into the
agreement of fingerprint and dump, which no later loss or DDL can undo
(`Agreed`). The comparison alone would not be enough: DDL can change a schema and
change it back.

**`Capture_proofs`**: for the physical stream `PhysTypeCorrect` and
`MarkerAlwaysVerified`. `Pipeline` says what each process has stored when it has
ended, `Accounted` that a chunk handed out is verified, at a worker, or was
counted as an error. That the listing is all of the stream comes from a count:
two finite sets, one inside the other, of the same cardinality are equal.
For the multipart upload `MultipartTypeCorrect`, `ObjectAlwaysWhole` and
`OpenUploadsAlwaysKnown`: the parts acknowledged are a beginning of the artifact
and stored in the upload that the process names (`InOrder`, `Named`), so a
completion completes all of them; `Journalled` says at which steps the journal,
and at which the process alone, names what is open. Then `PageTypeCorrect` of
`TuiRun`, and `CaptureTypeCorrect` of the composition, from the step lemmas of
its five components.

**`VerifyCache_proofs`**: `CacheTypeCorrect`, `AcceptedAlwaysWhole` under
`Steady`, and `RemoteAlwaysWhole` without it. No entry, in the file, in a cache
in memory or waiting to be saved, has an identity that was not given out yet,
and one whose identity is the current one stands for a whole artifact; merging,
expiry and lost writes keep this because they only choose among such entries.
`ResultsAlwaysKept` assumes one process (section 6 has the counterexample for
two): one verification at a time is between load and write, and what it writes
is the file merged with its results (`WritesMerged`).

**`Operator_proofs`**, one section for each component.

- Scope page: `ScopeTypeCorrect`, `TablesAlwaysCovered`, `CursorAlwaysShown`.
  `Sound` is one condition on the page: cursor and marks inside the lists, the
  cursor on a table that is shown if any is, and a database with selected tables
  selected. Every key and every answer is a lemma that it keeps `Sound`. The
  move of the cursor needs that every number up to the count of the shown tables
  is the position of one of them.
- Schedule transaction: `ApplyTypeCorrect` and `AppliedAllOrNothing`. `Stage` says
  how far `.env`, the drop-in and the timer have come at each phase, forward and
  back; it survives the steps of others because one applier at a time is inside
  (`OneApplier`), and because a write of `.env` by somebody else is remembered
  (`foreign`).
- Slots: `SlotTypeCorrect` and `DueOnlyAtSlots`, which assumes that the process
  runs in the zone of the schedule (`ScheduleZone = LocalZone`, section 6). It is
  arithmetic: the first daily or weekly slot after the last success, as the code
  computes it, is a slot, and none lies between. No bound on the length of the
  day, the week or the time line is used.
- Retention: `RetentionTypeCorrect` and `MovesAlwaysJournaled`, the half of
  `CoverageKept` that is not about counting: what is moved is in the journal, is
  not the run at hand, and was whole when it was read again. The invariant
  keeps this from the plan to the move while runs are pinned, tested and damaged
  (`ToMove`, `WasWhole`).
- `OperatorTypeCorrect` of the composition.

The `Is...` and `...Fields` lemmas of these modules say what a record update makes of
each field; they exist because the provers handle short records better than long ones.

Only model-checked: `GenerationsKept`, and the count in `CoverageKept`, because
the plan is a fold over the healthy runs and what a fold computes for every
input is an induction over data that TLAPS does not do here; and the liveness
properties `LockRegained`, `EveryPassEnds`, `RunEnds` and `CaptureEnds`, whose
proofs need fairness and ENABLED.
