------------------------------ MODULE RunPublish ------------------------------
(***************************************************************************)
(* One host's backup runs and the publication of their captures.           *)
(*                                                                         *)
(* A run captures its databases, writes manifest.json, uploads every       *)
(* artifact and the manifest to S3, verifies them, puts a marker object    *)
(* last, pins the manifest locally (manifest-commit.json), saves the       *)
(* schedule state, writes the final metadata and appends to the run        *)
(* history.  Any of these steps can fail, the response of a request can be *)
(* lost after it took effect, and the process can crash between any two.   *)
(* `reconcile-capture` re-publishes a preserved capture along the same     *)
(* upload path.  A validation (command, API or TUI) rewrites the history   *)
(* and the manifest without the lock that runs and reconciliations hold.   *)
(***************************************************************************)
EXTENDS RunRecord

CONSTANTS
  Runs,             \* run identifiers; each names one run folder and prefix
  CaptureOutcomes,  \* the outcomes of a dump this instance explores
  PhysicalOutcomes, \* the outcomes of the physical task it explores
  Modes,            \* the upload modes an operator may configure
  Faults,           \* local writes that may fail in this instance
  Validating        \* TRUE when validations run beside the runner

ASSUME ConstantsAssumption ==
  /\ None \notin Runs
  /\ CaptureOutcomes \subseteq Outcomes \ {"absent"}
  /\ PhysicalOutcomes \subseteq {"none", "success", "failed"}
  /\ Modes \subseteq UploadModes
  /\ Validating \in BOOLEAN

VARIABLES
  \* durable, local
  used,      \* run folders that exist
  manifest,  \* manifest[r]: <run>/manifest.json
  commit,    \* commit[r]: the manifest pinned by <run>/manifest-commit.json
  history,   \* history[r]: the record of r a reader of backup-runs.jsonl finds
  sched,     \* backup-schedule-state.json: the last run that served each slot
  parserFixed, \* whether the installed inventory parser has been corrected
  \* durable, S3
  object,    \* object[r][d]: the artifact of d under the prefix of r
  rmanifest, \* rmanifest[r]: the uploaded manifest.json
  marker,    \* marker[r][m]: the marker object m, with the inventory it lists
  \* memory of the lock holder
  pc, job, cur, mode,
  rec,       \* the run record being built
  cap,       \* the record the uploader read from manifest.json
  pending,   \* databases whose artifact is still to be uploaded
  \* memory of a validation
  vpc, vrun,
  vsnap      \* the history it read and modified

localVars == <<used, manifest, commit, history, sched, parserFixed>>
remoteVars == <<object, rmanifest, marker>>
procVars == <<pc, job, cur, mode, rec, cap, pending>>
validVars == <<vpc, vrun, vsnap>>
vars == <<localVars, remoteVars, procVars, validVars>>

Markers == {"COMPLETED", "PARTIAL", "FAILED"}
Payload == {"absent", "intact", "damaged"}
Inventory == [dbs : SUBSET Databases, manifest : Record]

\* The steps of uploadBackupDirectToS3, in order.
UploadSteps == {"head", "read", "draft", "artifacts", "manifest",
                "inventory", "marker", "confirm", "commit", "uploadFailed"}
Steps == {"idle", "capture", "finish", "premanifest", "upload", "uploaded",
          "state", "final", "append", "reconcile"} \cup UploadSteps

\* The kind of value each variable holds.
LocalTypeOK ==
  /\ used \subseteq Runs
  /\ manifest \in [Runs -> Record \cup {None}]
  /\ commit \in [Runs -> Record \cup {None}]
  /\ history \in [Runs -> Record \cup {None}]
  /\ sched \in [logical : Runs \cup {None}, physical : Runs \cup {None}]
  /\ parserFixed \in BOOLEAN

RemoteTypeOK ==
  /\ object \in [Runs -> [Databases -> Payload]]
  /\ rmanifest \in [Runs -> Record \cup {None}]
  /\ marker \in [Runs -> [Markers -> Inventory \cup {None}]]

HolderTypeOK ==
  /\ pc \in Steps
  /\ job \in {"none", "run", "reconcile"}
  /\ cur \in Runs \cup {None}
  /\ pc # "idle" => cur \in Runs
  /\ mode \in UploadModes \cup {"undue"}
  /\ rec \in Record /\ cap \in Record
  /\ pending \subseteq Databases

ValidationTypeOK ==
  /\ vpc \in {"idle", "rewrite", "stat", "write"}
  /\ vrun \in Runs \cup {None}
  /\ vpc # "idle" => vrun \in Runs
  /\ vsnap \in [Runs -> Record \cup {None}]
  /\ vpc # "idle" => vsnap[vrun] \in Record

TypeOK == LocalTypeOK /\ RemoteTypeOK /\ HolderTypeOK /\ ValidationTypeOK

Init ==
  /\ used = {}
  /\ manifest = [r \in Runs |-> None]
  /\ commit = [r \in Runs |-> None]
  /\ history = [r \in Runs |-> None]
  /\ sched = [logical |-> None, physical |-> None]
  /\ parserFixed = FALSE
  /\ object = [r \in Runs |-> [d \in Databases |-> "absent"]]
  /\ rmanifest = [r \in Runs |-> None]
  /\ marker = [r \in Runs |-> [m \in Markers |-> None]]
  /\ pc = "idle" /\ job = "none" /\ cur = None /\ mode = "undue"
  /\ rec = NewRecord /\ cap = NewRecord /\ pending = {}
  /\ vpc = "idle" /\ vrun = None /\ vsnap = [r \in Runs |-> None]

-----------------------------------------------------------------------------
\* Definitions whose comment says "Mutant" are used by no action: each is the
\* definition below it with one plausible mistake, and PROJECT.json names the
\* property that notices when it takes its place.

\* Mutant: the step that was to end the process leaves it where it was.
ReleaseMidway ==
  /\ job' = "none" /\ cur' = None /\ mode' = "undue"
  /\ rec' = NewRecord /\ cap' = NewRecord /\ pending' = {} /\ pc' = pc

\* Releasing the lock: the process forgets the run.
Release ==
  /\ pc' = "idle" /\ job' = "none" /\ cur' = None /\ mode' = "undue"
  /\ rec' = NewRecord /\ cap' = NewRecord /\ pending' = {}

\* A local write may fail when the instance allows it.  atomicWriteFile can
\* report an error after its rename, so the new content may be there or not.
MayFail(write) == write \in Faults

-----------------------------------------------------------------------------
\* RunBackup up to the run folder: the lock, the run ID, the first manifest.
StartRun(r) ==
  /\ pc = "idle" /\ r \notin used
  /\ used' = used \cup {r}
  /\ manifest' = [manifest EXCEPT ![r] = RunningRecord]
  /\ pc' = "capture" /\ job' = "run" /\ cur' = r
  /\ \E m \in Modes \cup {"undue"} : mode' = m
  /\ rec' = [RunningRecord EXCEPT !.status = "failed"]
  /\ UNCHANGED <<commit, history, sched, parserFixed, remoteVars, cap, pending,
                 validVars>>

\* The first manifest cannot be written: RunBackup returns without a record.
StartRunFails(r) ==
  /\ pc = "idle" /\ r \notin used /\ MayFail("start")
  /\ used' = used \cup {r}
  /\ \E written \in {None, RunningRecord} :
       manifest' = [manifest EXCEPT ![r] = written]
  /\ UNCHANGED <<commit, history, sched, parserFixed, remoteVars, procVars,
                 validVars>>

\* The logical task: every discovered database gets a result.
CaptureLogical ==
  /\ pc = "capture" /\ mode # "undue"
  /\ \E result \in [Databases -> CaptureOutcomes \cup {"absent"}] :
       rec' = [rec EXCEPT !.result = result]
  /\ pc' = "finish"
  /\ UNCHANGED <<localVars, remoteVars, job, cur, mode, cap, pending, validVars>>

\* Discovery, PITR metadata or the global transaction fails: straight to
\* finalizeRun, with no result, no upload and no schedule update.
CaptureAborts ==
  /\ pc = "capture" /\ mode # "undue"
  /\ rec' = [rec EXCEPT !.reason = "other"]
  /\ pc' = "final"
  /\ UNCHANGED <<localVars, remoteVars, job, cur, mode, cap, pending, validVars>>

SkipLogical ==
  /\ pc = "capture" /\ mode = "undue"
  /\ pc' = "finish"
  /\ UNCHANGED <<localVars, remoteVars, job, cur, mode, rec, cap, pending,
                 validVars>>

\* The physical task, cleanupOldBackups, the status of the run and the local
\* verification of a capture that looks complete.
FinishCapture ==
  /\ pc = "finish"
  /\ \E physical \in PhysicalOutcomes, fatalCleanup \in BOOLEAN :
       /\ mode = "undue" => physical # "none"
       /\ fatalCleanup => MayFail("cleanup")
       /\ LET blocked == physical = "failed" \/ fatalCleanup
              tallied == Tally([rec EXCEPT !.physical = physical], blocked)
          IN IF mode # "undue" /\ tallied.status = "success"
                  /\ ~verifyLogicalCapture(tallied, parserFixed)
             THEN \E why \in VerifyReasons(tallied, parserFixed) :
                    rec' = [tallied EXCEPT !.status = "failed", !.reason = why]
             ELSE rec' = tallied
  /\ pc' = IF mode = "undue" THEN "state" ELSE "premanifest"
  /\ UNCHANGED <<localVars, remoteVars, job, cur, mode, cap, pending, validVars>>

\* The manifest the uploader will read.  RunBackup only logs a failure here.
WritePreUploadManifest ==
  /\ pc = "premanifest"
  /\ LET new == setManifestMetadata(rec, mode) IN
       /\ rec' = new
       /\ \E written \in {manifest[cur], new} :
            /\ written # new => MayFail("premanifest")
            /\ manifest' = [manifest EXCEPT ![cur] = written]
  /\ pc' = "upload"
  /\ UNCHANGED <<used, commit, history, sched, parserFixed, remoteVars, job,
                 cur, mode, cap, pending, validVars>>

\* uploadBackupToS3: no upload, the verified direct path, or a legacy helper.
SkipUpload ==
  /\ pc = "upload" /\ mode = "off"
  /\ rec' = [rec EXCEPT !.upload = "skipped"]
  /\ pc' = "state"
  /\ UNCHANGED <<localVars, remoteVars, job, cur, mode, cap, pending, validVars>>

StartDirectUpload ==
  /\ pc = "upload" /\ mode = "direct"
  /\ pc' = "head"
  /\ UNCHANGED <<localVars, remoteVars, job, cur, mode, rec, cap, pending,
                 validVars>>

\* A helper that accepts a verified capture still proves nothing remotely.
LegacyUpload ==
  /\ pc = "upload" /\ mode = "legacy"
  /\ \/ /\ ~RequireRemoteCompletion
        /\ manifest[cur] # None
        /\ verifyLogicalCapture(manifest[cur], parserFixed)
        /\ rec' = [rec EXCEPT !.upload = "pending", !.status = "partial",
                              !.reason = "other"]
     \/ rec' = markLogicalUploadFailure(rec)
  /\ pc' = "state"
  /\ UNCHANGED <<localVars, remoteVars, job, cur, mode, cap, pending, validVars>>
-----------------------------------------------------------------------------
\* uploadBackupDirectToS3.  Any request may fail for good after its retries;
\* the uploader then returns an error and the lock holder handles it.
GiveUp == pc' = "uploadFailed"

RequestFails ==
  /\ pc \in {"head", "inventory", "confirm"}
  /\ GiveUp
  /\ UNCHANGED <<localVars, remoteVars, job, cur, mode, rec, cap, pending,
                 validVars>>

\* Mutant: the destination is not looked at before it is written.
AcceptFinalized == FALSE

\* HEAD of COMPLETED.json: a finalized recovery point is never overwritten.
RefuseFinalized == marker[cur]["COMPLETED"] # None

CheckDestination ==
  /\ pc = "head"
  /\ pc' = IF RefuseFinalized THEN "uploadFailed" ELSE "read"
  /\ UNCHANGED <<localVars, remoteVars, job, cur, mode, rec, cap, pending,
                 validVars>>

\* readManifest and the artifacts it allows: those of successful results.
ReadCapture ==
  /\ pc = "read"
  /\ IF manifest[cur] = None
     THEN GiveUp /\ UNCHANGED <<cap, pending>>
     ELSE /\ cap' = manifest[cur]
          /\ pending' = Succeeded(manifest[cur])
          /\ pc' = "draft"
  /\ UNCHANGED <<localVars, remoteVars, job, cur, mode, rec, validVars>>

\* The manifest is among the artifacts uploaded and verified one by one.  (It
\* goes in name order with them; no marker depends on this first copy.)
UploadDraftManifest ==
  /\ pc = "draft"
  /\ \/ rmanifest' = [rmanifest EXCEPT ![cur] = manifest[cur]] /\ pc' = "artifacts"
     \/ /\ \E stored \in {rmanifest[cur], manifest[cur]} :
             rmanifest' = [rmanifest EXCEPT ![cur] = stored]
        /\ GiveUp
  /\ UNCHANGED <<localVars, object, marker, job, cur, mode, rec, cap, pending,
                 validVars>>

\* Mutant: the remote payload is not read back.
UploadArtifactUnread(d) ==
  /\ pc = "artifacts" /\ d \in pending
  /\ \E stored \in {"intact", "damaged"} : object' = [object EXCEPT ![cur][d] = stored]
  /\ pending' = pending \ {d}
  /\ UNCHANGED <<localVars, rmanifest, marker, pc, job, cur, mode, rec, cap,
                 validVars>>

\* PUT or multipart upload, HEAD size and streamed GET comparison: success
\* means the remote payload equals the local file.
UploadArtifact(d) ==
  /\ pc = "artifacts" /\ d \in pending
  /\ object' = [object EXCEPT ![cur][d] = "intact"]
  /\ pending' = pending \ {d}
  /\ UNCHANGED <<localVars, rmanifest, marker, pc, job, cur, mode, rec, cap,
                 validVars>>

UploadArtifactFails(d) ==
  /\ pc = "artifacts" /\ d \in pending
  /\ \E stored \in {object[cur][d], "intact", "damaged"} :
       object' = [object EXCEPT ![cur][d] = stored]
  /\ GiveUp
  /\ UNCHANGED <<localVars, rmanifest, marker, job, cur, mode, rec, cap,
                 pending, validVars>>

\* All artifacts verified: the manifest with the transfer evidence replaces
\* the local one, unless an earlier upload committed it.
PublishManifest ==
  /\ pc = "artifacts" /\ pending = {}
  /\ LET new == setManifestMetadata(markLogicalUploadSuccess(cap), mode) IN
       /\ cap' = new
       /\ IF commit[cur] # None
          THEN /\ pc' = IF manifest[cur] = commit[cur] THEN "manifest"
                        ELSE "uploadFailed"
               /\ UNCHANGED manifest
          ELSE \/ /\ manifest' = [manifest EXCEPT ![cur] = new]
                  /\ pc' = "manifest"
               \/ /\ MayFail("manifest")
                  /\ \E written \in {manifest[cur], new} :
                       manifest' = [manifest EXCEPT ![cur] = written]
                  /\ GiveUp
  /\ UNCHANGED <<used, commit, history, sched, parserFixed, remoteVars, job,
                 cur, mode, rec, pending, validVars>>

\* The file as it is on disk now is uploaded and verified.
UploadManifest ==
  /\ pc = "manifest"
  /\ \/ rmanifest' = [rmanifest EXCEPT ![cur] = manifest[cur]] /\ pc' = "inventory"
     \/ /\ \E stored \in {rmanifest[cur], manifest[cur]} :
             rmanifest' = [rmanifest EXCEPT ![cur] = stored]
        /\ GiveUp
  /\ UNCHANGED <<localVars, object, marker, job, cur, mode, rec, cap, pending,
                 validVars>>

\* Mutant: the marker is forgotten.
CheckInventoryThenCommit ==
  /\ pc = "inventory"
  /\ pc' = IF \A d \in Succeeded(cap) : object[cur][d] # "absent"
           THEN "commit" ELSE "uploadFailed"
  /\ UNCHANGED <<localVars, remoteVars, job, cur, mode, rec, cap, pending,
                 validVars>>

\* Every verified artifact is listed under the prefix with its size.
CheckInventory ==
  /\ pc = "inventory"
  /\ pc' = IF \A d \in Succeeded(cap) : object[cur][d] # "absent"
           THEN "marker" ELSE "uploadFailed"
  /\ UNCHANGED <<localVars, remoteVars, job, cur, mode, rec, cap, pending,
                 validVars>>

\* Mutant: no database failed, so the capture is taken for complete.
MarkerForUnfailed(capture) ==
  IF Failed(capture) = {} THEN "COMPLETED"
  ELSE IF Succeeded(capture) = {} THEN "FAILED" ELSE "PARTIAL"

\* Which marker a capture deserves.
MarkerFor(capture) ==
  IF verifyLogicalCapture(capture, parserFixed) THEN "COMPLETED"
  ELSE IF Succeeded(capture) = {} THEN "FAILED" ELSE "PARTIAL"

\* Mutant: the marker refers to the manifest meant, not to the one uploaded.
MarkerEntryMeant == [dbs |-> Succeeded(cap), manifest |-> cap]

\* The marker lists the verified artifacts and the uploaded manifest.
MarkerEntry == [dbs |-> Succeeded(cap), manifest |-> rmanifest[cur]]

\* The PUT of the marker may fail without effect, or take effect and lose its
\* response.
PutMarker ==
  /\ pc = "marker"
  /\ LET put == [marker EXCEPT ![cur][MarkerFor(cap)] = MarkerEntry] IN
       \/ marker' = put /\ pc' = "confirm"
       \/ marker' \in {marker, put} /\ GiveUp
  /\ UNCHANGED <<localVars, object, rmanifest, job, cur, mode, rec, cap,
                 pending, validVars>>

\* HEAD of the marker just put.
ConfirmMarker ==
  /\ pc = "confirm"
  /\ pc' = IF marker[cur][MarkerFor(cap)] # None THEN "commit" ELSE "uploadFailed"
  /\ UNCHANGED <<localVars, remoteVars, job, cur, mode, rec, cap, pending,
                 validVars>>

\* persistManifestCommit pins the manifest that was uploaded.
PersistManifestCommit ==
  /\ pc = "commit"
  /\ \/ commit' = [commit EXCEPT ![cur] = rmanifest[cur]] /\ pc' = "uploaded"
     \/ /\ MayFail("commit")
        /\ \E written \in {commit[cur], rmanifest[cur]} :
             commit' = [commit EXCEPT ![cur] = written]
        /\ GiveUp
  /\ UNCHANGED <<used, manifest, history, sched, parserFixed, remoteVars, job,
                 cur, mode, rec, cap, pending, validVars>>
-----------------------------------------------------------------------------
\* Back in the lock holder.
UploadSucceeds ==
  /\ pc = "uploaded"
  /\ rec' = setManifestMetadata(markLogicalUploadSuccess(rec), mode)
  /\ pc' = IF job = "run" THEN "state" ELSE "final"
  /\ UNCHANGED <<localVars, remoteVars, job, cur, mode, cap, pending, validVars>>

\* Mutant: the error of the upload is logged and forgotten.
UploadErrorForgotten ==
  /\ pc = "uploadFailed" /\ job = "run"
  /\ rec' = markLogicalUploadSuccess(rec)
  /\ pc' = "state"
  /\ UNCHANGED <<localVars, remoteVars, job, cur, mode, cap, pending, validVars>>

\* RunBackup makes the run a failure, also when the capture was good.
UploadFailsInRun ==
  /\ pc = "uploadFailed" /\ job = "run"
  /\ rec' = markLogicalUploadFailure(rec)
  /\ pc' = "state"
  /\ UNCHANGED <<localVars, remoteVars, job, cur, mode, cap, pending, validVars>>

\* Reconciliation records the failure in the manifest, unless it is pinned,
\* without refreshing the recovery state, and returns.
UploadFailsInReconcile ==
  /\ pc = "uploadFailed" /\ job = "reconcile"
  /\ IF commit[cur] # None THEN UNCHANGED manifest
     ELSE \E written \in {manifest[cur], markLogicalUploadFailure(rec)} :
            /\ written = manifest[cur] => MayFail("reconcile")
            /\ manifest' = [manifest EXCEPT ![cur] = written]
  /\ Release
  /\ UNCHANGED <<used, commit, history, sched, parserFixed, remoteVars, validVars>>

\* Mutant: the slot is served when every database was dumped.
ScheduleAfterCapture ==
  [logical  |-> IF mode # "undue" /\ Failed(rec) = {} THEN cur ELSE sched.logical,
   physical |-> IF rec.physical = "success" THEN cur ELSE sched.physical]

\* The schedule state after the run: a slot is served only by a success, and
\* only a run with something to record writes the file.
ScheduleAfter ==
  [logical  |-> IF mode # "undue" /\ rec.status = "success" THEN cur
                ELSE sched.logical,
   physical |-> IF rec.physical = "success" THEN cur ELSE sched.physical]

\* Mutant: only the physical task marks the state as changed.
StateDirtyPhysical == rec.physical = "success"

StateDirty == (mode # "undue" /\ Failed(rec) = {}) \/ rec.physical = "success"

SaveScheduleState ==
  /\ pc = "state"
  /\ IF ~StateDirty THEN UNCHANGED <<sched, rec>>
     ELSE \/ sched' = ScheduleAfter /\ UNCHANGED rec
          \/ /\ MayFail("state")
             /\ sched' \in {sched, ScheduleAfter}
             /\ rec' = [rec EXCEPT !.status = "failed", !.reason = "other"]
  /\ pc' = "final"
  /\ UNCHANGED <<used, manifest, commit, history, parserFixed, remoteVars, job,
                 cur, mode, cap, pending, validVars>>

\* Mutant: the final record replaces the manifest, pinned or not.
FinalManifestAlways(new) == new

FinalManifest(new) == IF commit[cur] = None THEN new ELSE manifest[cur]

\* persistFinalRunMetadata: the manifest is rewritten unless it is pinned; a
\* pinned one must match its pin, and the record goes to a separate audit.
PersistFinalMetadata ==
  /\ pc = "final"
  /\ LET new == setManifestMetadata(rec, mode)
         lost == [new EXCEPT !.status = "failed", !.reason = "other",
                             !.recovery = "FAILED"]
         fails(written) ==
           /\ manifest' = [manifest EXCEPT ![cur] = written]
           /\ IF job = "run" THEN rec' = lost /\ pc' = "append" /\
                                  UNCHANGED <<job, cur, mode, cap, pending>>
              ELSE Release
     IN \/ /\ commit[cur] \in {None, manifest[cur]}
           /\ manifest' = [manifest EXCEPT ![cur] = FinalManifest(new)]
           /\ rec' = new /\ pc' = "append"
           /\ UNCHANGED <<job, cur, mode, cap, pending>>
        \/ commit[cur] \notin {None, manifest[cur]} /\ fails(manifest[cur])
        \/ /\ MayFail("final")
           /\ \E written \in {manifest[cur], FinalManifest(new)} : fails(written)
  /\ UNCHANGED <<used, commit, history, sched, parserFixed, remoteVars, validVars>>

\* The history line, the last write of the run; its failure is only logged.
AppendRunRecord ==
  /\ pc = "append"
  /\ \E written \in {history[cur], rec} :
       /\ written # rec => MayFail("history")
       /\ history' = [history EXCEPT ![cur] = written]
  /\ Release
  /\ UNCHANGED <<used, manifest, commit, sched, parserFixed, remoteVars, validVars>>
-----------------------------------------------------------------------------
\* ReconcileCapturedLogicalRun reads the manifest of a preserved capture and
\* verifies the artifacts again, as if the run had succeeded ...
Reconcile(r) ==
  /\ pc = "idle" /\ manifest[r] # None
  /\ Reconcilable(manifest[r])
  /\ verifyLogicalCapture(Probe(manifest[r]), parserFixed)
  /\ \E m \in Modes :
       /\ mode' = m
       /\ rec' = setManifestMetadata([Probe(manifest[r]) EXCEPT !.upload = "none"], m)
  /\ pc' = "reconcile" /\ job' = "reconcile" /\ cur' = r
  /\ UNCHANGED <<localVars, remoteVars, cap, pending, validVars>>

\* ... then replaces the manifest, whatever the upload mode goes on to the
\* direct upload,
WriteReconciled ==
  /\ pc = "reconcile" /\ commit[cur] = None
  /\ manifest' = [manifest EXCEPT ![cur] = rec]
  /\ pc' = "head"
  /\ UNCHANGED <<used, commit, history, sched, parserFixed, remoteVars, job,
                 cur, mode, rec, cap, pending, validVars>>

\* or returns: an upload has pinned the manifest, or the write fails.
ReconcileRefused ==
  /\ pc = "reconcile"
  /\ \/ commit[cur] # None /\ UNCHANGED manifest
     \/ /\ commit[cur] = None /\ MayFail("reconcile")
        /\ \E written \in {manifest[cur], rec} :
             manifest' = [manifest EXCEPT ![cur] = written]
  /\ Release
  /\ UNCHANGED <<used, commit, history, sched, parserFixed, remoteVars, validVars>>

\* A new release of the tool corrects the inventory parser.
CorrectParser ==
  /\ pc = "idle" /\ ~parserFixed
  /\ parserFixed' = TRUE
  /\ UNCHANGED <<used, manifest, commit, history, sched, remoteVars, procVars,
                 validVars>>

\* The lock holder dies between two steps; the kernel drops its lock.
Crash ==
  /\ pc # "idle"
  /\ Release
  /\ UNCHANGED <<localVars, remoteVars, validVars>>
-----------------------------------------------------------------------------
\* updateRunRecord, called when a validation ends, holding no lock: it reads
\* the whole history and changes the record of one run ...
ReadHistory(r) ==
  /\ Validating /\ vpc = "idle" /\ history[r] # None
  /\ vsnap' = [history EXCEPT ![r].tested = TRUE]
  /\ vrun' = r /\ vpc' = "rewrite"
  /\ UNCHANGED <<localVars, remoteVars, procVars>>

\* ... renames a rewritten file over the history ...
RewriteHistory ==
  /\ vpc = "rewrite"
  /\ history' = vsnap
  /\ vpc' = "stat"
  /\ UNCHANGED <<used, manifest, commit, sched, parserFixed, remoteVars,
                 procVars, vrun, vsnap>>

\* Mutant: the validation does not know that it has ended.
ForgetValidation ==
  vpc' = "idle" /\ vrun' = None /\ vsnap' = [r \in Runs |-> None]

\* ... finds out whether the manifest is pinned ...
StatCommit ==
  /\ vpc = "stat"
  /\ IF commit[vrun] = None THEN vpc' = "write" /\ UNCHANGED <<vrun, vsnap>>
     ELSE ForgetValidation
  /\ UNCHANGED <<localVars, remoteVars, procVars>>

\* ... and if it was not, replaces it by the record of the history.
RewriteManifest ==
  /\ vpc = "write"
  /\ manifest' = [manifest EXCEPT ![vrun] = vsnap[vrun]]
  /\ ForgetValidation
  /\ UNCHANGED <<used, commit, history, sched, parserFixed, remoteVars, procVars>>
-----------------------------------------------------------------------------
DirectUpload ==
  \/ CheckDestination \/ RequestFails \/ ReadCapture \/ UploadDraftManifest
  \/ \E d \in Databases : UploadArtifact(d) \/ UploadArtifactFails(d)
  \/ PublishManifest \/ UploadManifest \/ CheckInventory
  \/ PutMarker \/ ConfirmMarker \/ PersistManifestCommit

Run ==
  \/ \E r \in Runs : StartRun(r) \/ StartRunFails(r)
  \/ CaptureLogical \/ CaptureAborts \/ SkipLogical \/ FinishCapture
  \/ WritePreUploadManifest \/ SkipUpload \/ StartDirectUpload \/ LegacyUpload
  \/ UploadSucceeds \/ UploadFailsInRun \/ SaveScheduleState
  \/ PersistFinalMetadata \/ AppendRunRecord

Reconciliation ==
  \/ \E r \in Runs : Reconcile(r)
  \/ WriteReconciled \/ ReconcileRefused \/ UploadFailsInReconcile

Validation ==
  \/ \E r \in Runs : ReadHistory(r)
  \/ RewriteHistory \/ StatCommit \/ RewriteManifest

Next == Run \/ DirectUpload \/ Reconciliation \/ Validation \/ CorrectParser \/ Crash

Spec == Init /\ [][Next]_vars
-----------------------------------------------------------------------------
(* Safety *)

\* A remote point marked COMPLETED lists every database its manifest expects,
\* none of them failed or scoped, each one remotely equal to the local artifact,
\* beside the very manifest the marker refers to.  WORKING.md: "All required
\* databases and objects must pass for COMPLETED.json".
PointIsWhole(r, entry) ==
  /\ entry.dbs # {} /\ entry.dbs = Expected(entry.manifest)
  /\ FullScope(entry.manifest)
  /\ \A d \in entry.dbs : object[r][d] = "intact"
  /\ rmanifest[r] = entry.manifest

CompletedIsWhole ==
  \A r \in Runs : LET entry == marker[r]["COMPLETED"] IN
    entry # None => PointIsWhole(r, entry)

\* A run reported as a success with a verified upload has its COMPLETED marker:
\* no failure, lost response or crash makes the history claim more than S3
\* holds.
OffsiteSuccess(record) == record.status = "success" /\ record.upload = "success"

SuccessMeansCompleted ==
  \A r \in Runs : history[r] # None /\ OffsiteSuccess(history[r])
                    => marker[r]["COMPLETED"] # None

\* A pinned manifest is the one some marker of its run refers to, and the local
\* file still is that manifest: what manifest-commit.json vouches for is what
\* was uploaded.
PinnedIsPublished ==
  \A r \in Runs : commit[r] # None =>
    /\ manifest[r] = commit[r]
    /\ \E m \in Markers : marker[r][m] # None /\ marker[r][m].manifest = commit[r]

\* A local manifest that claims a verified upload is right about every
\* artifact, also after a crash between the upload and the marker and after the
\* capture was re-published.
RemoteEvidence ==
  \A r \in Runs : manifest[r] # None /\ manifest[r].upload = "success" =>
    \A d \in Succeeded(manifest[r]) : object[r][d] = "intact"

\* The run that served the logical slot holds a capture that verifies, and it
\* either is completed remotely or had no upload to make: a slot is never
\* consumed by a capture that was lost on its way.
ScheduleServed ==
  LET r == sched.logical IN
  r # None =>
    /\ manifest[r] # None
    /\ Expected(manifest[r]) # {}
    /\ Expected(manifest[r]) \subseteq Verifiable(manifest[r], parserFixed)
    /\ \/ marker[r]["COMPLETED"] # None
       \/ manifest[r].upload \in {"none", "skipped"}

\* A due run that goes into the history as a success is the one the schedule
\* state remembers: the slot is not served a second time.
SuccessServesSlot ==
  [][\A r \in Runs :
       pc = "append" /\ job = "run" /\ mode # "undue" /\ cur = r
         /\ history'[r] # history[r] /\ history'[r].status = "success"
       => sched.logical = r]_vars

\* Once COMPLETED.json exists nothing under its prefix changes any more,
\* whatever is retried, reconciled or validated.  WORKING.md: "Completed
\* destinations cannot be overwritten".
CompletedFinal ==
  [][\A r \in Runs : marker[r]["COMPLETED"] # None =>
       /\ object'[r] = object[r]
       /\ rmanifest'[r] = rmanifest[r]
       /\ marker'[r] = marker[r]]_vars

\* Seen from outside, the recovery point of a run appears whole in one step,
\* stays, and is claimed only after it exists.
Claim(r) ==
  IF history[r] = None THEN "none"
  ELSE IF history[r].status # "success" THEN "failure"
  ELSE IF history[r].upload = "success" THEN "offsite" ELSE "local"

Published(r) ==
  IF marker[r]["COMPLETED"] = None THEN {} ELSE marker[r]["COMPLETED"].dbs

Point == INSTANCE RecoveryPoint WITH
           published <- [r \in Runs |-> Published(r)],
           claim <- [r \in Runs |-> Claim(r)]

ImplementsRecoveryPoint == Point!Spec
-----------------------------------------------------------------------------
(* What the repository says and the code does not keep. *)

\* manifest_commit.go: "The manifest referenced by the remote completion marker
\* is immutable."  The local manifest of a completed point stays the one the
\* marker refers to.
MarkerManifestImmutable ==
  \A r \in Runs : marker[r]["COMPLETED"] # None
                    => manifest[r] = marker[r]["COMPLETED"].manifest

\* WORKING.md: the run history is "Append-only structured run summaries": a
\* record that was appended stays.
HistoryKept ==
  [][\A r \in Runs : history[r] # None => history'[r] # None]_vars
=============================================================================
