------------------------------ MODULE RunRecord ------------------------------
(***************************************************************************)
(* The run record (runRecord in app.go) as far as the control of a run     *)
(* depends on it, and the pure functions on it: the recovery state, the    *)
(* capture verification and the status a run is given.  The same record is *)
(* manifest.json, a line of the run history and the state in memory.       *)
(***************************************************************************)

CONSTANTS
  Databases,               \* databases the server may hold
  RequireRemoteCompletion, \* BACKUP_REQUIRE_REMOTE_COMPLETION
  None                     \* no file, no record

\* The result of one database: not discovered; dumped and verifiable; dumped
\* but its objects do not match what the inventory parser reads from it
\* ("captured ... objects differ"); dumped but unreadable or altered; dumped
\* with omissions or a table scope; or failed.
Outcomes == {"absent", "good", "mismatch", "corrupt", "scoped", "failed"}

UploadModes == {"direct", "legacy", "off"}

Record ==
  [status   : {"running", "success", "partial", "failed"},
   reason   : {"none", "captured", "other"},
   result   : [Databases -> Outcomes],
   physical : {"none", "success", "failed"},
   upload   : {"none", "success", "failed", "skipped", "pending"},
   recovery : {"RUNNING", "COMPLETE", "PARTIAL", "FAILED"},
   tested   : BOOLEAN]

ASSUME RecordAssumption ==
  /\ None \notin Record
  /\ None \notin [dbs : SUBSET Databases, manifest : Record]
  /\ RequireRemoteCompletion \in BOOLEAN

NewRecord ==
  [status |-> "failed", reason |-> "none",
   result |-> [d \in Databases |-> "absent"], physical |-> "none",
   upload |-> "none", recovery |-> "FAILED", tested |-> FALSE]

RunningRecord == [NewRecord EXCEPT !.status = "running", !.recovery = "RUNNING"]

\* ExpectedDatabases, and the databases whose result is "success".
Expected(r) == {d \in Databases : r.result[d] # "absent"}
Succeeded(r) ==
  {d \in Databases : r.result[d] \in {"good", "mismatch", "corrupt", "scoped"}}
Failed(r) == {d \in Databases : r.result[d] = "failed"}
FullScope(r) == \A d \in Databases : r.result[d] # "scoped"

Whole(r) ==
  r.status = "success" /\ r.reason = "none" /\ Failed(r) = {} /\ FullScope(r)

recoveryState(r) ==
  IF r.status = "running" THEN "RUNNING"
  ELSE IF Whole(r) THEN "COMPLETE"
  ELSE IF r.status = "partial" THEN "PARTIAL"
  ELSE "FAILED"

\* Completion is withheld until the remote copy has been verified.
AwaitsRemote(r, mode) ==
  /\ RequireRemoteCompletion
  /\ mode \in {"direct", "legacy"}
  /\ Expected(r) # {} /\ r.status = "success"
  /\ ~(r.upload = "success" /\ mode = "direct")

setManifestMetadata(r, mode) ==
  [r EXCEPT !.recovery =
     IF AwaitsRemote(r, mode) THEN "RUNNING" ELSE recoveryState(r)]

\* Each expected artifact passes its hashes and its object inventory; a
\* corrected parser accepts what its predecessor reported as a mismatch.
Verifiable(r, fixed) ==
  {d \in Databases : \/ r.result[d] = "good"
                     \/ r.result[d] = "mismatch" /\ fixed}

verifyLogicalCapture(r, fixed) ==
  Whole(r) /\ Expected(r) # {} /\ Expected(r) \subseteq Verifiable(r, fixed)

\* What the verification of a capture reports: the first artifact in the
\* order of the results, so any of the offending ones.
VerifyReasons(r, fixed) ==
  {IF r.result[d] = "mismatch" THEN "captured" ELSE "other" :
     d \in Expected(r) \ Verifiable(r, fixed)}
  \cup (IF Expected(r) = {} THEN {"other"} ELSE {})

\* The status switch of RunBackup.  `blocked`: the physical task failed or a
\* cleanup failure is configured to be fatal.
Tally(r, blocked) ==
  LET clean == Failed(r) = {} /\ ~blocked IN
  [r EXCEPT
     !.status = IF clean /\ FullScope(r) THEN "success"
                ELSE IF clean \/ Succeeded(r) # {} THEN "partial"
                ELSE "failed",
     !.reason = IF clean THEN "none" ELSE "other"]

markLogicalUploadSuccess(r) == [r EXCEPT !.upload = "success"]

markLogicalUploadFailure(r) ==
  [r EXCEPT !.upload = "failed", !.status = "failed",
            !.reason = IF @ = "none" THEN "other" ELSE @]

\* A preserved capture that only failed its object inventory.
Reconcilable(r) ==
  r.physical = "none" /\ r.status = "failed" /\ r.reason = "captured"

Probe(r) == [r EXCEPT !.status = "success", !.reason = "none"]
=============================================================================
