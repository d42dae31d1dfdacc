--------------------------- MODULE RunPublish_proofs ---------------------------
(***************************************************************************)
(* Proofs about RunPublish, for any runs, databases, upload modes and      *)
(* local failures.                                                         *)
(***************************************************************************)
EXTENDS RunPublish, TLAPS

-----------------------------------------------------------------------------
(* The functions on run records. *)

\* The record functions return records: no step writes anything else into a
\* manifest or the history.
LEMMA RecordsStayRecords ==
  ASSUME NEW r \in Record
  PROVE  /\ \A m : setManifestMetadata(r, m) \in Record
         /\ markLogicalUploadSuccess(r) \in Record
         /\ markLogicalUploadFailure(r) \in Record
         /\ Probe(r) \in Record
<1>1. recoveryState(r) \in {"RUNNING", "COMPLETE", "PARTIAL", "FAILED"}
  BY DEF recoveryState
<1>2. \A m : setManifestMetadata(r, m) \in Record
  BY <1>1 DEF setManifestMetadata, Record
<1>3. markLogicalUploadSuccess(r) \in Record
  BY DEF markLogicalUploadSuccess, Record
<1>4. markLogicalUploadFailure(r) \in Record
  BY DEF markLogicalUploadFailure, Record
<1>5. Probe(r) \in Record
  BY DEF Probe, Record
<1> QED
  BY <1>2, <1>3, <1>4, <1>5

LEMMA TallyIsRecord ==
  ASSUME NEW r \in Record, NEW blocked \in BOOLEAN
  PROVE  Tally(r, blocked) \in Record
  BY DEF Tally, Record

LEMMA FailureIsRecord ==
  ASSUME NEW r \in Record, NEW why \in {"captured", "other"}
  PROVE  /\ [r EXCEPT !.status = "failed", !.reason = why] \in Record
         /\ [r EXCEPT !.status = "failed", !.reason = why, !.recovery = "FAILED"]
              \in Record
  BY DEF Record

LEMMA FreshRecords ==
  NewRecord \in Record /\ RunningRecord \in Record
  BY DEF NewRecord, RunningRecord, Record, Outcomes

\* What the functions on records keep of the capture and of the status.
LEMMA StatusKept ==
  ASSUME NEW x \in Record, NEW m
  PROVE  /\ setManifestMetadata(x, m).result = x.result
         /\ setManifestMetadata(x, m).status = x.status
         /\ setManifestMetadata(x, m).upload = x.upload
         /\ setManifestMetadata(x, m).reason = x.reason
  BY DEF setManifestMetadata, Record

LEMMA UploadMarksKept ==
  ASSUME NEW x \in Record
  PROVE  /\ markLogicalUploadSuccess(x).result = x.result
         /\ markLogicalUploadSuccess(x).status = x.status
         /\ markLogicalUploadSuccess(x).reason = x.reason
         /\ markLogicalUploadSuccess(x).upload = "success"
         /\ markLogicalUploadFailure(x).result = x.result
         /\ markLogicalUploadFailure(x).status = "failed"
         /\ markLogicalUploadFailure(x).upload = "failed"
  BY DEF markLogicalUploadSuccess, markLogicalUploadFailure, Record

LEMMA PublishedKept ==
  ASSUME NEW x \in Record, NEW m
  PROVE  LET new == setManifestMetadata(markLogicalUploadSuccess(x), m) IN
         /\ new \in Record /\ new.result = x.result /\ new.status = x.status
         /\ new.upload = "success" /\ new.reason = x.reason
<1> DEFINE g == markLogicalUploadSuccess(x)
<1>1. /\ g \in Record /\ g.result = x.result /\ g.status = x.status
      /\ g.upload = "success" /\ g.reason = x.reason
  BY RecordsStayRecords, UploadMarksKept
<1> HIDE DEF g
<1>2. setManifestMetadata(g, m) \in Record
  BY <1>1, RecordsStayRecords
<1> QED
  BY <1>1, <1>2, StatusKept DEF g

\* How a record may be corrected in place.
LEMMA FieldsKept ==
  ASSUME NEW x \in Record
  PROVE  /\ LET y == [x EXCEPT !.status = "failed", !.reason = "other",
                               !.recovery = "FAILED"]
            IN y.result = x.result /\ y.status = "failed" /\ y.upload = x.upload
                /\ y.reason = "other"
         /\ LET y == [x EXCEPT !.status = "failed", !.reason = "other"]
            IN y.result = x.result /\ y.status = "failed" /\ y.upload = x.upload
                /\ y.reason = "other"
         /\ LET y == [x EXCEPT !.upload = "pending", !.status = "partial",
                               !.reason = "other"]
            IN y.result = x.result /\ y.status = "partial" /\ y.upload = "pending"
         /\ LET y == [x EXCEPT !.upload = "skipped"]
            IN y.result = x.result /\ y.status = x.status /\ y.upload = "skipped"
                /\ y.reason = x.reason
         /\ LET y == [x EXCEPT !.reason = "other"]
            IN y.result = x.result /\ y.status = x.status /\ y.upload = x.upload
         /\ LET y == [x EXCEPT !.tested = TRUE]
            IN y.result = x.result /\ y.status = x.status /\ y.upload = x.upload
  BY DEF Record

LEMMA ProbeKept ==
  ASSUME NEW x \in Record, NEW m
  PROVE  LET y == setManifestMetadata([Probe(x) EXCEPT !.upload = "none"], m) IN
         /\ y \in Record /\ y.result = x.result /\ y.status = "success"
         /\ y.upload = "none" /\ y.reason = "none"
<1> DEFINE g == [Probe(x) EXCEPT !.upload = "none"]
<1>1. g \in Record
  BY DEF Probe, Record
<1>2. g.result = x.result /\ g.status = "success" /\ g.upload = "none" /\ g.reason = "none"
  BY DEF Probe, Record
<1> HIDE DEF g
<1>3. setManifestMetadata(g, m) \in Record
  BY <1>1, RecordsStayRecords
<1> QED
  BY <1>1, <1>2, <1>3, StatusKept DEF g

-----------------------------------------------------------------------------
(* Type correctness. *)

\* The uploader works on files that exist.
ManifestsPresent ==
  /\ pc \in {"draft", "artifacts", "manifest", "inventory", "marker"}
       => manifest[cur] \in Record
  /\ pc \in {"inventory", "marker"} => rmanifest[cur] \in Record

TypeInv == TypeOK /\ ManifestsPresent

LEMMA InitType == Init => TypeInv
<1> SUFFICES ASSUME Init PROVE TypeInv
  OBVIOUS
<1>1. /\ manifest \in [Runs -> Record \cup {None}]
      /\ commit \in [Runs -> Record \cup {None}]
      /\ history \in [Runs -> Record \cup {None}]
  BY DEF Init
<1>2. sched \in [logical : Runs \cup {None}, physical : Runs \cup {None}]
  BY DEF Init
<1>3. LocalTypeOK
  BY <1>1, <1>2 DEF Init, LocalTypeOK
<1>4. RemoteTypeOK
  BY DEF Init, RemoteTypeOK, Payload
<1>5. HolderTypeOK
  BY FreshRecords DEF Init, HolderTypeOK, Steps
<1>6. ValidationTypeOK
  BY DEF Init, ValidationTypeOK
<1>7. ManifestsPresent
  BY DEF Init, ManifestsPresent
<1> QED
  BY <1>3, <1>4, <1>5, <1>6, <1>7 DEF TypeInv, TypeOK

LEMMA LocalTypeStep == TypeInv /\ [Next]_vars => LocalTypeOK'
<1> SUFFICES ASSUME TypeInv, [Next]_vars PROVE LocalTypeOK'
  OBVIOUS
<1> USE DEF TypeInv, TypeOK
<1>1. CASE UNCHANGED localVars
  BY <1>1 DEF LocalTypeOK, localVars
<1>2. ASSUME NEW r \in Runs, StartRun(r) PROVE LocalTypeOK'
  BY <1>2, FreshRecords DEF StartRun, LocalTypeOK
<1>3. ASSUME NEW r \in Runs, StartRunFails(r) PROVE LocalTypeOK'
  BY <1>3, FreshRecords DEF StartRunFails, LocalTypeOK
<1>4. CASE WritePreUploadManifest
  <2>1. setManifestMetadata(rec, mode) \in Record
    BY RecordsStayRecords DEF HolderTypeOK
  <2>2. manifest' \in [Runs -> Record \cup {None}]
    BY <1>4, <2>1 DEF WritePreUploadManifest, LocalTypeOK
  <2> QED
    BY <1>4, <2>2 DEF WritePreUploadManifest, LocalTypeOK
<1>5. CASE PublishManifest
  <2>1. setManifestMetadata(markLogicalUploadSuccess(cap), mode) \in Record
    BY RecordsStayRecords DEF HolderTypeOK
  <2>2. manifest' \in [Runs -> Record \cup {None}]
    BY <1>5, <2>1 DEF PublishManifest, LocalTypeOK
  <2> QED
    BY <1>5, <2>2 DEF PublishManifest, LocalTypeOK
<1>6. CASE PersistManifestCommit
  BY <1>6 DEF PersistManifestCommit, LocalTypeOK, RemoteTypeOK, HolderTypeOK
<1>7. CASE UploadFailsInReconcile
  BY <1>7, RecordsStayRecords DEF UploadFailsInReconcile, LocalTypeOK, HolderTypeOK
<1>8. CASE SaveScheduleState
  <2>1. ScheduleAfter \in [logical : Runs \cup {None}, physical : Runs \cup {None}]
    BY DEF ScheduleAfter, LocalTypeOK, HolderTypeOK
  <2> QED
    BY <1>8, <2>1 DEF SaveScheduleState, LocalTypeOK
<1>9. CASE PersistFinalMetadata
  <2>1. setManifestMetadata(rec, mode) \in Record
    BY RecordsStayRecords DEF HolderTypeOK
  <2>2. manifest' \in [Runs -> Record \cup {None}]
    BY <1>9, <2>1 DEF PersistFinalMetadata, FinalManifest, LocalTypeOK
  <2> QED
    BY <1>9, <2>2 DEF PersistFinalMetadata, LocalTypeOK
<1>10. CASE AppendRunRecord
  BY <1>10 DEF AppendRunRecord, LocalTypeOK, HolderTypeOK
<1>11. CASE WriteReconciled
  BY <1>11 DEF WriteReconciled, LocalTypeOK, HolderTypeOK
<1>12. CASE ReconcileRefused
  BY <1>12 DEF ReconcileRefused, LocalTypeOK, HolderTypeOK
<1>13. CASE CorrectParser
  BY <1>13 DEF CorrectParser, LocalTypeOK
<1>14. CASE RewriteHistory
  BY <1>14 DEF RewriteHistory, LocalTypeOK, ValidationTypeOK
<1>15. CASE RewriteManifest
  BY <1>15 DEF RewriteManifest, LocalTypeOK, ValidationTypeOK
<1>16. CASE \/ CaptureLogical \/ CaptureAborts \/ SkipLogical \/ FinishCapture
            \/ SkipUpload \/ StartDirectUpload \/ LegacyUpload \/ UploadSucceeds
            \/ UploadFailsInRun \/ (\E r \in Runs : Reconcile(r)) \/ Crash
            \/ (\E r \in Runs : ReadHistory(r)) \/ StatCommit
  <2>1. UNCHANGED localVars
    BY <1>16 DEF CaptureLogical, CaptureAborts, SkipLogical, FinishCapture,
         SkipUpload, StartDirectUpload, LegacyUpload, UploadSucceeds,
         UploadFailsInRun, Reconcile, Crash, ReadHistory, StatCommit
  <2> QED
    BY <1>1, <2>1
<1>17. CASE \/ CheckDestination \/ RequestFails \/ ReadCapture \/ UploadDraftManifest
            \/ (\E d \in Databases : UploadArtifact(d) \/ UploadArtifactFails(d))
            \/ UploadManifest \/ CheckInventory \/ PutMarker \/ ConfirmMarker
  <2>1. UNCHANGED localVars
    BY <1>17 DEF CheckDestination, RequestFails, ReadCapture, UploadDraftManifest,
         UploadArtifact, UploadArtifactFails, UploadManifest, CheckInventory,
         PutMarker, ConfirmMarker
  <2> QED
    BY <1>1, <2>1
<1>18. CASE UNCHANGED vars
  BY <1>1, <1>18 DEF vars
<1> QED
  BY <1>2, <1>3, <1>4, <1>5, <1>6, <1>7, <1>8, <1>9, <1>10, <1>11, <1>12, <1>13,
     <1>14, <1>15, <1>16, <1>17, <1>18
     DEF Next, Run, DirectUpload, Reconciliation, Validation

LEMMA RemoteTypeStep == TypeInv /\ [Next]_vars => RemoteTypeOK'
<1> SUFFICES ASSUME TypeInv, [Next]_vars PROVE RemoteTypeOK'
  OBVIOUS
<1> USE DEF TypeInv, TypeOK
<1>1. CASE UNCHANGED remoteVars
  BY <1>1 DEF RemoteTypeOK, remoteVars
<1>2. CASE UploadDraftManifest
  BY <1>2 DEF UploadDraftManifest, RemoteTypeOK, LocalTypeOK, HolderTypeOK
<1>3. ASSUME NEW d \in Databases, UploadArtifact(d) PROVE RemoteTypeOK'
  BY <1>3 DEF UploadArtifact, RemoteTypeOK, HolderTypeOK, Payload
<1>4. ASSUME NEW d \in Databases, UploadArtifactFails(d) PROVE RemoteTypeOK'
  BY <1>4 DEF UploadArtifactFails, RemoteTypeOK, HolderTypeOK, Payload
<1>5. CASE UploadManifest
  BY <1>5 DEF UploadManifest, RemoteTypeOK, LocalTypeOK, HolderTypeOK
<1>6. CASE PutMarker
  <2>1. cur \in Runs /\ MarkerEntry \in Inventory /\ MarkerFor(cap) \in Markers
    BY <1>6 DEF PutMarker, HolderTypeOK, ManifestsPresent, MarkerEntry, Inventory,
         MarkerFor, Markers, Succeeded
  <2>2. [marker EXCEPT ![cur][MarkerFor(cap)] = MarkerEntry]
          \in [Runs -> [Markers -> Inventory \cup {None}]]
    BY <2>1 DEF RemoteTypeOK
  <2> QED
    BY <1>6, <2>2 DEF PutMarker, RemoteTypeOK
<1>7. CASE Run \/ Reconciliation \/ Validation \/ CorrectParser \/ Crash
  <2>1. UNCHANGED remoteVars
    BY <1>7 DEF Run, StartRun, StartRunFails, CaptureLogical, CaptureAborts,
         SkipLogical, FinishCapture, WritePreUploadManifest, SkipUpload,
         StartDirectUpload, LegacyUpload, UploadSucceeds, UploadFailsInRun,
         SaveScheduleState, PersistFinalMetadata, AppendRunRecord, Reconciliation,
         Reconcile, WriteReconciled, ReconcileRefused, UploadFailsInReconcile,
         Validation, ReadHistory, RewriteHistory, StatCommit, RewriteManifest,
         CorrectParser, Crash
  <2> QED
    BY <1>1, <2>1
<1>8. CASE CheckDestination \/ RequestFails \/ ReadCapture \/ PublishManifest
           \/ CheckInventory \/ ConfirmMarker \/ PersistManifestCommit
  <2>1. UNCHANGED remoteVars
    BY <1>8 DEF CheckDestination, RequestFails, ReadCapture, PublishManifest,
         CheckInventory, ConfirmMarker, PersistManifestCommit, remoteVars
  <2> QED
    BY <1>1, <2>1
<1>9. CASE UNCHANGED vars
  BY <1>1, <1>9 DEF vars
<1> QED
  BY <1>2, <1>3, <1>4, <1>5, <1>6, <1>7, <1>8, <1>9 DEF Next, DirectUpload

LEMMA ValidationTypeStep == TypeInv /\ [Next]_vars => ValidationTypeOK'
<1> SUFFICES ASSUME TypeInv, [Next]_vars PROVE ValidationTypeOK'
  OBVIOUS
<1> USE DEF TypeInv, TypeOK
<1>1. CASE UNCHANGED validVars
  BY <1>1 DEF ValidationTypeOK, validVars
<1>2. ASSUME NEW r \in Runs, ReadHistory(r) PROVE ValidationTypeOK'
  <2>1. [history[r] EXCEPT !.tested = TRUE] \in Record
    BY <1>2 DEF ReadHistory, LocalTypeOK, Record
  <2>2. vsnap' \in [Runs -> Record \cup {None}] /\ vsnap'[r] \in Record
    BY <1>2, <2>1 DEF ReadHistory, LocalTypeOK
  <2> QED
    BY <1>2, <2>2 DEF ReadHistory, ValidationTypeOK
<1>3. CASE RewriteHistory
  BY <1>3 DEF RewriteHistory, ValidationTypeOK
<1>4. CASE StatCommit
  BY <1>4 DEF StatCommit, ForgetValidation, ValidationTypeOK
<1>5. CASE RewriteManifest
  BY <1>5 DEF RewriteManifest, ForgetValidation, ValidationTypeOK
<1>6. CASE Run \/ Reconciliation \/ CorrectParser \/ Crash
  <2>1. UNCHANGED validVars
    BY <1>6 DEF Run, StartRun, StartRunFails, CaptureLogical, CaptureAborts,
         SkipLogical, FinishCapture, WritePreUploadManifest, SkipUpload,
         StartDirectUpload, LegacyUpload, UploadSucceeds, UploadFailsInRun,
         SaveScheduleState, PersistFinalMetadata, AppendRunRecord, Reconciliation,
         Reconcile, WriteReconciled, ReconcileRefused, UploadFailsInReconcile,
         CorrectParser, Crash
  <2> QED
    BY <1>1, <2>1
<1>7. CASE DirectUpload
  <2>1. UNCHANGED validVars
    BY <1>7 DEF DirectUpload, CheckDestination, RequestFails, ReadCapture,
         UploadDraftManifest, UploadArtifact, UploadArtifactFails, PublishManifest,
         UploadManifest, CheckInventory, PutMarker, ConfirmMarker,
         PersistManifestCommit
  <2> QED
    BY <1>1, <2>1
<1>8. CASE UNCHANGED vars
  BY <1>1, <1>8 DEF vars
<1> QED
  BY <1>2, <1>3, <1>4, <1>5, <1>6, <1>7, <1>8 DEF Next, Validation

LEMMA HolderTypeStep == TypeInv /\ [Next]_vars => HolderTypeOK'
<1> SUFFICES ASSUME TypeInv, [Next]_vars PROVE HolderTypeOK'
  OBVIOUS
<1> USE RecordAssumption, ConstantsAssumption
        DEF TypeInv, TypeOK, HolderTypeOK, Steps, UploadSteps, GiveUp
<1>1. CASE UNCHANGED procVars
  BY <1>1 DEF procVars
<1>2. CASE Release
  BY <1>2, FreshRecords DEF Release
<1>3. ASSUME NEW r \in Runs, StartRun(r) PROVE HolderTypeOK'
  <2>1. [RunningRecord EXCEPT !.status = "failed"] \in Record
    BY FreshRecords DEF Record
  <2> QED
    BY <1>3, <2>1 DEF StartRun
<1>4. CASE CaptureLogical
  <2>1. rec' \in Record
    BY <1>4 DEF CaptureLogical, Record, Outcomes
  <2> QED
    BY <1>4, <2>1 DEF CaptureLogical
<1>5. CASE CaptureAborts
  <2>1. [rec EXCEPT !.reason = "other"] \in Record
    BY DEF Record
  <2> QED
    BY <1>5, <2>1 DEF CaptureAborts
<1>6. CASE SkipLogical
  BY <1>6 DEF SkipLogical
<1>7. CASE FinishCapture
  <2>1. PICK physical \in PhysicalOutcomes, fatalCleanup \in BOOLEAN :
          LET tallied == Tally([rec EXCEPT !.physical = physical],
                               physical = "failed" \/ fatalCleanup)
          IN \/ rec' = tallied
             \/ \E why \in VerifyReasons(tallied, parserFixed) :
                  rec' = [tallied EXCEPT !.status = "failed", !.reason = why]
    BY <1>7 DEF FinishCapture
  <2> DEFINE tallied == Tally([rec EXCEPT !.physical = physical],
                              physical = "failed" \/ fatalCleanup)
  <2>2. [rec EXCEPT !.physical = physical] \in Record
    BY DEF Record
  <2>3. tallied \in Record
    BY <2>2, TallyIsRecord
  <2>4. \A why \in VerifyReasons(tallied, parserFixed) : why \in {"captured", "other"}
    BY DEF VerifyReasons
  <2>5. \A why \in {"captured", "other"} :
          [tallied EXCEPT !.status = "failed", !.reason = why] \in Record
    BY <2>3, FailureIsRecord
  <2>6. rec' \in Record
    BY <2>1, <2>3, <2>4, <2>5
  <2> QED
    BY <1>7, <2>6 DEF FinishCapture
<1>8. CASE WritePreUploadManifest
  BY <1>8, RecordsStayRecords DEF WritePreUploadManifest
<1>9. CASE SkipUpload
  <2>1. [rec EXCEPT !.upload = "skipped"] \in Record
    BY DEF Record
  <2> QED
    BY <1>9, <2>1 DEF SkipUpload
<1>10. CASE StartDirectUpload
  BY <1>10 DEF StartDirectUpload
<1>11. CASE LegacyUpload
  <2>1. [rec EXCEPT !.upload = "pending", !.status = "partial", !.reason = "other"]
          \in Record
    BY DEF Record
  <2> QED
    BY <1>11, <2>1, RecordsStayRecords DEF LegacyUpload
<1>12. CASE RequestFails \/ CheckDestination \/ CheckInventory \/ ConfirmMarker
  BY <1>12 DEF RequestFails, CheckDestination, CheckInventory, ConfirmMarker
<1>13. CASE ReadCapture
  BY <1>13 DEF ReadCapture, LocalTypeOK, Succeeded
<1>14. CASE UploadDraftManifest \/ UploadManifest \/ PutMarker \/ PersistManifestCommit
  BY <1>14 DEF UploadDraftManifest, UploadManifest, PutMarker, PersistManifestCommit
<1>15. ASSUME NEW d \in Databases, UploadArtifact(d) PROVE HolderTypeOK'
  BY <1>15 DEF UploadArtifact
<1>16. ASSUME NEW d \in Databases, UploadArtifactFails(d) PROVE HolderTypeOK'
  BY <1>16 DEF UploadArtifactFails
<1>17. CASE PublishManifest
  <2>1. setManifestMetadata(markLogicalUploadSuccess(cap), mode) \in Record
    BY RecordsStayRecords
  <2> QED
    BY <1>17, <2>1 DEF PublishManifest
<1>18. CASE UploadSucceeds
  <2>1. setManifestMetadata(markLogicalUploadSuccess(rec), mode) \in Record
    BY RecordsStayRecords
  <2> QED
    BY <1>18, <2>1 DEF UploadSucceeds
<1>19. CASE UploadFailsInRun
  BY <1>19, RecordsStayRecords DEF UploadFailsInRun
<1>20. CASE SaveScheduleState
  <2>1. [rec EXCEPT !.status = "failed", !.reason = "other"] \in Record
    BY DEF Record
  <2> QED
    BY <1>20, <2>1 DEF SaveScheduleState
<1>21. CASE PersistFinalMetadata
  <2> DEFINE new == setManifestMetadata(rec, mode)
  <2>1. new \in Record
    BY RecordsStayRecords
  <2>2. [new EXCEPT !.status = "failed", !.reason = "other", !.recovery = "FAILED"]
          \in Record
    BY <2>1, FailureIsRecord
  <2> QED
    BY <1>2, <1>21, <2>1, <2>2 DEF PersistFinalMetadata
<1>22. ASSUME NEW r \in Runs, Reconcile(r) PROVE HolderTypeOK'
  <2>1. Probe(manifest[r]) \in Record
    BY <1>22, RecordsStayRecords DEF Reconcile, LocalTypeOK
  <2>2. [Probe(manifest[r]) EXCEPT !.upload = "none"] \in Record
    BY <2>1 DEF Record
  <2> QED
    BY <1>22, <2>2, RecordsStayRecords DEF Reconcile
<1>23. CASE WriteReconciled
  BY <1>23 DEF WriteReconciled
<1>24. CASE AppendRunRecord \/ UploadFailsInReconcile \/ ReconcileRefused \/ Crash
  BY <1>2, <1>24 DEF AppendRunRecord, UploadFailsInReconcile, ReconcileRefused, Crash
<1>25. CASE (\E r \in Runs : StartRunFails(r)) \/ CorrectParser \/ Validation
  <2>1. UNCHANGED procVars
    BY <1>25 DEF StartRunFails, CorrectParser, Validation, ReadHistory,
         RewriteHistory, StatCommit, RewriteManifest
  <2> QED
    BY <1>1, <2>1
<1>26. CASE UNCHANGED vars
  BY <1>1, <1>26 DEF vars
<1> QED
  BY <1>3, <1>4, <1>5, <1>6, <1>7, <1>8, <1>9, <1>10, <1>11, <1>12, <1>13, <1>14,
     <1>15, <1>16, <1>17, <1>18, <1>19, <1>20, <1>21, <1>22, <1>23, <1>24, <1>25,
     <1>26
     DEF Next, Run, DirectUpload, Reconciliation

\* The eight steps of the uploader before its end are reached from the uploader
\* only.
LEMMA OutsideUploader ==
  ASSUME HolderTypeOK, Run \/ Reconciliation \/ CorrectParser \/ Crash
  PROVE  pc' \notin {"read", "draft", "artifacts", "manifest", "inventory", "marker",
                     "confirm", "commit"}
<1>1. CASE Run
  BY <1>1 DEF HolderTypeOK, Run, StartRun, StartRunFails, CaptureLogical,
       CaptureAborts, SkipLogical, FinishCapture, WritePreUploadManifest,
       SkipUpload, StartDirectUpload, LegacyUpload, UploadSucceeds,
       UploadFailsInRun, SaveScheduleState, PersistFinalMetadata,
       AppendRunRecord, Release, procVars
<1>2. CASE Reconciliation \/ CorrectParser \/ Crash
  BY <1>2 DEF Reconciliation, Reconcile, WriteReconciled, ReconcileRefused,
       UploadFailsInReconcile, CorrectParser, Crash, Release, procVars
<1> QED
  BY <1>1, <1>2

LEMMA ManifestsPresentStep == TypeInv /\ [Next]_vars => ManifestsPresent'
<1> SUFFICES ASSUME TypeInv, [Next]_vars PROVE ManifestsPresent'
  OBVIOUS
<1> DEFINE Uploading == {"draft", "artifacts", "manifest", "inventory", "marker"}
<1> USE RecordAssumption
        DEF TypeInv, TypeOK, ManifestsPresent, HolderTypeOK, LocalTypeOK, GiveUp
<1>1. CASE pc' \notin Uploading
  BY <1>1
<1>2. CASE ReadCapture
  BY <1>2 DEF ReadCapture, localVars
<1>3. CASE UploadDraftManifest
  BY <1>3 DEF UploadDraftManifest, localVars
<1>4. ASSUME NEW d \in Databases, UploadArtifact(d) \/ UploadArtifactFails(d)
      PROVE ManifestsPresent'
  BY <1>4 DEF UploadArtifact, UploadArtifactFails, localVars
<1>5. CASE PublishManifest
  <2>1. setManifestMetadata(markLogicalUploadSuccess(cap), mode) \in Record
    BY RecordsStayRecords
  <2> QED
    BY <1>5, <2>1 DEF PublishManifest
<1>6. CASE UploadManifest
  BY <1>6 DEF UploadManifest, RemoteTypeOK, localVars
<1>7. CASE CheckInventory
  BY <1>7 DEF CheckInventory, localVars, remoteVars
<1>8. CASE RewriteManifest
  BY <1>8 DEF RewriteManifest, ValidationTypeOK, remoteVars, procVars
<1>9. CASE (\E r \in Runs : ReadHistory(r)) \/ RewriteHistory \/ StatCommit
  BY <1>9 DEF ReadHistory, RewriteHistory, StatCommit, localVars, remoteVars, procVars
<1>10. CASE RequestFails \/ CheckDestination \/ PutMarker \/ ConfirmMarker
            \/ PersistManifestCommit
  BY <1>1, <1>10 DEF RequestFails, CheckDestination, PutMarker, ConfirmMarker,
       PersistManifestCommit
<1>11. CASE Run \/ Reconciliation \/ CorrectParser \/ Crash
  BY <1>1, <1>11, OutsideUploader
<1>12. CASE UNCHANGED vars
  BY <1>12 DEF vars, localVars, remoteVars, procVars
<1> QED
  BY <1>2, <1>3, <1>4, <1>5, <1>6, <1>7, <1>8, <1>9, <1>10, <1>11, <1>12
     DEF Next, DirectUpload, Validation

LEMMA TypeInvStep == TypeInv /\ [Next]_vars => TypeInv'
  BY LocalTypeStep, RemoteTypeStep, HolderTypeStep, ValidationTypeStep,
     ManifestsPresentStep DEF TypeInv, TypeOK

\* Every file, object and variable holds a value of its kind in every reachable
\* state, whatever fails, is lost or crashes; in particular a marker never
\* refers to a manifest that was not uploaded.
THEOREM TypeCorrect == Spec => []TypeOK
<1>1. Spec => []TypeInv
  BY InitType, TypeInvStep, PTL DEF Spec
<1>2. TypeInv => TypeOK
  BY DEF TypeInv
<1> QED
  BY <1>1, <1>2, PTL

-----------------------------------------------------------------------------
(* A completed point is final. *)

\* Between the look at the destination and the marker, the point is open.
HeadChecked ==
  pc \in {"read", "draft", "artifacts", "manifest", "inventory", "marker"}
    => marker[cur]["COMPLETED"] = None

\* No step outside these five touches S3.
LEMMA RemoteFrame ==
  ASSUME [Next]_vars, ~UploadDraftManifest, ~UploadManifest, ~PutMarker,
         \A d \in Databases : ~UploadArtifact(d) /\ ~UploadArtifactFails(d)
  PROVE  UNCHANGED remoteVars
<1>1. CASE Run \/ Reconciliation \/ Validation \/ CorrectParser \/ Crash
  BY <1>1 DEF Run, StartRun, StartRunFails, CaptureLogical, CaptureAborts,
       SkipLogical, FinishCapture, WritePreUploadManifest, SkipUpload,
       StartDirectUpload, LegacyUpload, UploadSucceeds, UploadFailsInRun,
       SaveScheduleState, PersistFinalMetadata, AppendRunRecord, Reconciliation,
       Reconcile, WriteReconciled, ReconcileRefused, UploadFailsInReconcile,
       Validation, ReadHistory, RewriteHistory, StatCommit, RewriteManifest,
       CorrectParser, Crash
<1>2. CASE CheckDestination \/ RequestFails \/ ReadCapture \/ PublishManifest
           \/ CheckInventory \/ ConfirmMarker \/ PersistManifestCommit
  BY <1>2 DEF CheckDestination, RequestFails, ReadCapture, PublishManifest,
       CheckInventory, ConfirmMarker, PersistManifestCommit, remoteVars
<1>3. CASE UNCHANGED vars
  BY <1>3 DEF vars
<1> QED
  BY <1>1, <1>2, <1>3 DEF Next, DirectUpload

LEMMA HeadCheckedStep == TypeInv /\ HeadChecked /\ [Next]_vars => HeadChecked'
<1> SUFFICES ASSUME TypeInv, HeadChecked, [Next]_vars PROVE HeadChecked'
  OBVIOUS
<1> DEFINE Open == {"read", "draft", "artifacts", "manifest", "inventory", "marker"}
<1> USE DEF TypeInv, TypeOK, HeadChecked, GiveUp
<1>1. CASE pc' \notin Open
  BY <1>1
<1>2. CASE CheckDestination
  BY <1>2 DEF CheckDestination, RefuseFinalized, remoteVars
<1>3. CASE \/ ReadCapture \/ UploadDraftManifest \/ PublishManifest \/ UploadManifest
           \/ CheckInventory
           \/ (\E d \in Databases : UploadArtifact(d) \/ UploadArtifactFails(d))
  BY <1>3 DEF ReadCapture, UploadDraftManifest, PublishManifest, UploadManifest,
       CheckInventory, UploadArtifact, UploadArtifactFails, remoteVars
<1>4. CASE RequestFails \/ PutMarker \/ ConfirmMarker \/ PersistManifestCommit
  BY <1>1, <1>4 DEF RequestFails, PutMarker, ConfirmMarker, PersistManifestCommit
<1>5. CASE Run \/ Reconciliation \/ CorrectParser \/ Crash
  BY <1>1, <1>5, OutsideUploader
<1>6. CASE Validation
  BY <1>6 DEF Validation, ReadHistory, RewriteHistory, StatCommit, RewriteManifest,
       remoteVars, procVars
<1>7. CASE UNCHANGED vars
  BY <1>7 DEF vars, remoteVars, procVars
<1> QED
  BY <1>2, <1>3, <1>4, <1>5, <1>6, <1>7 DEF Next, DirectUpload

\* A step leaves a run whose point is complete alone.
LEMMA CompletedUntouched ==
  ASSUME TypeInv, HeadChecked, [Next]_vars, NEW r \in Runs,
         marker[r]["COMPLETED"] # None
  PROVE  /\ object'[r] = object[r]
         /\ rmanifest'[r] = rmanifest[r]
         /\ marker'[r] = marker[r]
<1> USE DEF TypeInv, TypeOK, HeadChecked, RemoteTypeOK, HolderTypeOK
<1>1. CASE UploadDraftManifest
  BY <1>1 DEF UploadDraftManifest
<1>2. ASSUME NEW d \in Databases, UploadArtifact(d) \/ UploadArtifactFails(d)
      PROVE object'[r] = object[r] /\ rmanifest'[r] = rmanifest[r] /\ marker'[r] = marker[r]
  BY <1>2 DEF UploadArtifact, UploadArtifactFails
<1>3. CASE UploadManifest
  BY <1>3 DEF UploadManifest
<1>4. CASE PutMarker
  BY <1>4 DEF PutMarker
<1>5. CASE UNCHANGED remoteVars
  BY <1>5 DEF remoteVars
<1> QED
  BY <1>1, <1>2, <1>3, <1>4, <1>5, RemoteFrame

\* A completed destination is never overwritten, for any number of runs, any
\* failures and any validations running beside the runner.
THEOREM CompletedIsFinal == Spec => CompletedFinal
<1>1. Init => TypeInv /\ HeadChecked
  BY InitType DEF Init, HeadChecked
<1>2. TypeInv /\ HeadChecked /\ [Next]_vars
        => [\A r \in Runs : marker[r]["COMPLETED"] # None =>
              /\ object'[r] = object[r]
              /\ rmanifest'[r] = rmanifest[r]
              /\ marker'[r] = marker[r]]_vars
  BY CompletedUntouched
<1> QED
  BY <1>1, <1>2, TypeInvStep, HeadCheckedStep, PTL DEF Spec, CompletedFinal

-----------------------------------------------------------------------------
(* The run at hand, also with validations beside the runner.                 *)

\* The holder and a validation work on existing run folders, and a run not
\* started has left nothing behind.
OwnRun ==
  /\ pc # "idle" => cur \in used
  /\ vpc # "idle" => vrun \in used
  /\ \A r \in Runs \ used :
       /\ manifest[r] = None /\ commit[r] = None
       /\ history[r] = None /\ vsnap[r] = None

\* Until the uploader pins it, the manifest of the run at hand is not pinned.
Unpinned ==
  pc \in {"capture", "finish", "premanifest", "upload", "head", "read", "draft",
          "artifacts", "manifest", "inventory", "marker", "confirm", "commit"}
    => commit[cur] = None

\* Every artifact no longer pending is intact remotely.
Shipped ==
  /\ pc = "draft" => pending = Succeeded(cap)
  /\ pc = "artifacts" =>
       \A d \in Succeeded(cap) \ pending : object[cur][d] = "intact"
  /\ pc \in {"manifest", "inventory", "marker"} =>
       \A d \in Succeeded(cap) : object[cur][d] = "intact"

HolderInv == TypeInv /\ HeadChecked /\ OwnRun /\ Unpinned /\ Shipped

LEMMA SucceededByResult ==
  ASSUME NEW r, NEW s, r.result = s.result
  PROVE  Succeeded(r) = Succeeded(s) /\ Expected(r) = Expected(s)
  BY DEF Succeeded, Expected

\* A capture that verifies is one a marker may call complete.
LEMMA VerifiedIsComplete ==
  ASSUME NEW r \in Record, NEW fixed \in BOOLEAN, verifyLogicalCapture(r, fixed)
  PROVE  /\ Succeeded(r) = Expected(r) /\ Expected(r) # {} /\ FullScope(r)
         /\ r.status = "success"
  BY DEF verifyLogicalCapture, Whole, Succeeded, Expected, Verifiable

LEMMA OwnRunStep == HolderInv /\ [Next]_vars => OwnRun'
<1> SUFFICES ASSUME HolderInv, [Next]_vars PROVE OwnRun'
  OBVIOUS
<1> USE DEF HolderInv, TypeInv, TypeOK, OwnRun, LocalTypeOK, HolderTypeOK,
            ValidationTypeOK
<1>1. CASE UNCHANGED <<localVars, validVars>> /\ (cur' = cur \/ pc' = "idle")
           /\ (pc = "idle" => pc' = "idle")
  BY <1>1 DEF localVars, validVars
<1>2. ASSUME NEW r \in Runs, StartRun(r) \/ StartRunFails(r) PROVE OwnRun'
  BY <1>2 DEF StartRun, StartRunFails, procVars, validVars
<1>3. CASE \/ CaptureLogical \/ CaptureAborts \/ SkipLogical \/ FinishCapture
           \/ SkipUpload \/ StartDirectUpload \/ LegacyUpload \/ UploadSucceeds
           \/ UploadFailsInRun \/ Crash
  <2>1. UNCHANGED <<localVars, validVars>> /\ (cur' = cur \/ pc' = "idle") /\ pc # "idle"
    BY <1>3 DEF CaptureLogical, CaptureAborts, SkipLogical, FinishCapture,
         SkipUpload, StartDirectUpload, LegacyUpload, UploadSucceeds,
         UploadFailsInRun, Crash, Release
  <2> QED
    BY <1>1, <2>1
<1>4. CASE \/ CheckDestination \/ RequestFails \/ ReadCapture \/ UploadDraftManifest
           \/ (\E d \in Databases : UploadArtifact(d) \/ UploadArtifactFails(d))
           \/ UploadManifest \/ CheckInventory \/ PutMarker \/ ConfirmMarker
  <2>1. UNCHANGED <<localVars, validVars>> /\ cur' = cur /\ pc # "idle"
    BY <1>4 DEF CheckDestination, RequestFails, ReadCapture, UploadDraftManifest,
         UploadArtifact, UploadArtifactFails, UploadManifest, CheckInventory,
         PutMarker, ConfirmMarker
  <2> QED
    BY <1>1, <2>1
<1>5. CASE \/ WritePreUploadManifest \/ PublishManifest \/ PersistManifestCommit
           \/ SaveScheduleState
  BY <1>5 DEF WritePreUploadManifest, PublishManifest, PersistManifestCommit,
       SaveScheduleState, validVars
<1>6. CASE PersistFinalMetadata \/ AppendRunRecord
  BY <1>6 DEF PersistFinalMetadata, AppendRunRecord, Release, validVars
<1>7. ASSUME NEW r \in Runs, Reconcile(r) PROVE OwnRun'
  BY <1>7 DEF Reconcile, localVars, validVars
<1>8. CASE WriteReconciled \/ ReconcileRefused \/ UploadFailsInReconcile
  BY <1>8 DEF WriteReconciled, ReconcileRefused, UploadFailsInReconcile, Release, validVars
<1>9. CASE CorrectParser
  BY <1>9 DEF CorrectParser, procVars, validVars
<1>10. CASE \/ (\E r \in Runs : ReadHistory(r)) \/ RewriteHistory \/ StatCommit
            \/ RewriteManifest
  BY <1>10 DEF ReadHistory, RewriteHistory, StatCommit, RewriteManifest,
       ForgetValidation, localVars, procVars
<1>11. CASE UNCHANGED vars
  BY <1>11 DEF vars, localVars, procVars, validVars
<1> QED
  BY <1>2, <1>3, <1>4, <1>5, <1>6, <1>7, <1>8, <1>9, <1>10, <1>11
     DEF Next, Run, DirectUpload, Reconciliation, Validation

LEMMA UnpinnedStep == HolderInv /\ [Next]_vars => Unpinned'
<1> SUFFICES ASSUME HolderInv, [Next]_vars PROVE Unpinned'
  OBVIOUS
<1> DEFINE Open == {"capture", "finish", "premanifest", "upload", "head", "read",
                    "draft", "artifacts", "manifest", "inventory", "marker",
                    "confirm", "commit"}
<1> USE DEF HolderInv, Unpinned, TypeInv, TypeOK, HolderTypeOK, LocalTypeOK, GiveUp
<1>1. CASE pc' \notin Open
  BY <1>1
<1>2. CASE pc \in Open /\ cur' = cur /\ commit' = commit
  BY <1>2
<1>3. ASSUME NEW r \in Runs, StartRun(r) PROVE Unpinned'
  BY <1>3 DEF StartRun, OwnRun
<1>4. ASSUME NEW r \in Runs, StartRunFails(r) \/ Reconcile(r) PROVE Unpinned'
  BY <1>4 DEF StartRunFails, Reconcile, procVars
<1>5. CASE \/ CaptureLogical \/ CaptureAborts \/ SkipLogical \/ FinishCapture
           \/ WritePreUploadManifest \/ SkipUpload \/ StartDirectUpload
           \/ LegacyUpload
  BY <1>5 DEF CaptureLogical, CaptureAborts, SkipLogical, FinishCapture,
       WritePreUploadManifest, SkipUpload, StartDirectUpload, LegacyUpload, localVars
<1>6. CASE \/ CheckDestination \/ RequestFails \/ ReadCapture \/ UploadDraftManifest
           \/ (\E d \in Databases : UploadArtifact(d) \/ UploadArtifactFails(d))
           \/ PublishManifest \/ UploadManifest \/ CheckInventory \/ PutMarker
           \/ ConfirmMarker
  BY <1>6 DEF CheckDestination, RequestFails, ReadCapture, UploadDraftManifest,
       UploadArtifact, UploadArtifactFails, PublishManifest, UploadManifest,
       CheckInventory, PutMarker, ConfirmMarker, localVars
<1>7. CASE PersistManifestCommit \/ UploadSucceeds \/ UploadFailsInRun
           \/ SaveScheduleState
  BY <1>1, <1>7 DEF PersistManifestCommit, UploadSucceeds, UploadFailsInRun,
       SaveScheduleState
<1>8. CASE PersistFinalMetadata \/ AppendRunRecord \/ UploadFailsInReconcile
           \/ ReconcileRefused \/ Crash
  BY <1>1, <1>8 DEF PersistFinalMetadata, AppendRunRecord, UploadFailsInReconcile,
       ReconcileRefused, Crash, Release
<1>9. CASE WriteReconciled
  BY <1>9 DEF WriteReconciled
<1>10. CASE CorrectParser
  BY <1>10 DEF CorrectParser, procVars
<1>11. CASE Validation
  BY <1>11 DEF Validation, ReadHistory, RewriteHistory, StatCommit, RewriteManifest,
       localVars, procVars
<1>12. CASE UNCHANGED vars
  BY <1>12 DEF vars, localVars, procVars
<1> QED
  BY <1>3, <1>4, <1>5, <1>6, <1>7, <1>8, <1>9, <1>10, <1>11, <1>12
     DEF Next, Run, DirectUpload, Reconciliation

LEMMA ShippedStep == HolderInv /\ [Next]_vars => Shipped'
<1> SUFFICES ASSUME HolderInv, [Next]_vars PROVE Shipped'
  OBVIOUS
<1> DEFINE Flight == {"draft", "artifacts", "manifest", "inventory", "marker"}
<1> USE DEF HolderInv, Shipped, TypeInv, TypeOK, HolderTypeOK, LocalTypeOK,
            RemoteTypeOK, GiveUp
<1>1. CASE pc' \notin Flight
  BY <1>1
<1>2. CASE ReadCapture
  BY <1>2 DEF ReadCapture
<1>3. CASE UploadDraftManifest
  BY <1>3 DEF UploadDraftManifest
<1>4. ASSUME NEW d \in Databases, UploadArtifact(d) PROVE Shipped'
  BY <1>4 DEF UploadArtifact, Succeeded
<1>5. ASSUME NEW d \in Databases, UploadArtifactFails(d) PROVE Shipped'
  BY <1>1, <1>5 DEF UploadArtifactFails
<1>6. CASE PublishManifest
  <2>1. Succeeded(cap') = Succeeded(cap)
    BY <1>6, PublishedKept, SucceededByResult DEF PublishManifest
  <2> QED
    BY <1>6, <2>1 DEF PublishManifest, remoteVars
<1>7. CASE UploadManifest
  BY <1>7 DEF UploadManifest
<1>8. CASE CheckInventory
  BY <1>8 DEF CheckInventory, remoteVars
<1>9. CASE \/ CheckDestination \/ RequestFails \/ PutMarker \/ ConfirmMarker
           \/ PersistManifestCommit
  BY <1>1, <1>9 DEF CheckDestination, RequestFails, PutMarker, ConfirmMarker,
       PersistManifestCommit
<1>10. CASE Run \/ Reconciliation \/ CorrectParser \/ Crash
  BY <1>1, <1>10, OutsideUploader
<1>11. CASE Validation
  BY <1>11 DEF Validation, ReadHistory, RewriteHistory, StatCommit, RewriteManifest,
       remoteVars, procVars
<1>12. CASE UNCHANGED vars
  BY <1>12 DEF vars, remoteVars, procVars
<1> QED
  BY <1>2, <1>3, <1>4, <1>5, <1>6, <1>7, <1>8, <1>9, <1>10, <1>11, <1>12
     DEF Next, DirectUpload

LEMMA InitHolder == Init => HolderInv
<1> SUFFICES ASSUME Init PROVE HolderInv
  OBVIOUS
<1>1. TypeInv
  BY InitType
<1>2. HeadChecked /\ Unpinned /\ Shipped
  BY DEF Init, HeadChecked, Unpinned, Shipped
<1>3. OwnRun
  BY DEF Init, OwnRun
<1> QED
  BY <1>1, <1>2, <1>3 DEF HolderInv

LEMMA HolderInvStep == HolderInv /\ [Next]_vars => HolderInv'
  BY TypeInvStep, HeadCheckedStep, OwnRunStep, UnpinnedStep, ShippedStep DEF HolderInv

\* A pin is placed by the uploader only, and never moved.
LEMMA PinsStay ==
  ASSUME HolderInv, [Next]_vars, NEW r \in Runs
  PROVE  /\ commit[r] # None => commit'[r] = commit[r]
         /\ commit'[r] # commit[r] => PersistManifestCommit /\ r = cur
<1> USE DEF HolderInv, TypeInv, TypeOK, LocalTypeOK, HolderTypeOK, Unpinned
<1>1. CASE PersistManifestCommit
  BY <1>1 DEF PersistManifestCommit
<1>2. CASE Run \/ Reconciliation \/ Validation \/ CorrectParser \/ Crash
  BY <1>2 DEF Run, StartRun, StartRunFails, CaptureLogical, CaptureAborts,
       SkipLogical, FinishCapture, WritePreUploadManifest, SkipUpload,
       StartDirectUpload, LegacyUpload, UploadSucceeds, UploadFailsInRun,
       SaveScheduleState, PersistFinalMetadata, AppendRunRecord, Reconciliation,
       Reconcile, WriteReconciled, ReconcileRefused, UploadFailsInReconcile,
       Validation, ReadHistory, RewriteHistory, StatCommit, RewriteManifest,
       CorrectParser, Crash, localVars
<1>3. CASE DirectUpload /\ ~PersistManifestCommit
  BY <1>3 DEF DirectUpload, CheckDestination, RequestFails, ReadCapture,
       UploadDraftManifest, UploadArtifact, UploadArtifactFails, PublishManifest,
       UploadManifest, CheckInventory, PutMarker, ConfirmMarker, localVars
<1>4. CASE UNCHANGED vars
  BY <1>4 DEF vars, localVars
<1> QED
  BY <1>1, <1>2, <1>3, <1>4 DEF Next

-----------------------------------------------------------------------------
(* What COMPLETED.json vouches for, also with validations beside the runner. *)

Reading == {"draft", "artifacts", "manifest", "inventory", "marker"}

\* A record written after the capture tells of it.
Tells(x, f) == x # None /\ x.status # "running" => x.result = f

\* Every record of a run that tells of its capture tells the same: those on
\* disk, the one a validation carries, those in memory and the one uploaded.
OneCapture(r, f) ==
  /\ Tells(manifest[r], f) /\ Tells(history[r], f) /\ Tells(vsnap[r], f)
  /\ cur = r =>
       /\ pc \notin {"idle", "capture", "finish"} => rec.result = f
       /\ pc \in Reading => Tells(cap, f)
       /\ pc \in {"inventory", "marker"} => Tells(rmanifest[r], f)

\* When a record tells of the capture: nothing does before the capture has
\* ended, and the uploader does not exchange one that does for one that does not.
Telling ==
  /\ \A r \in Runs : /\ history[r] # None => history[r].status # "running"
                     /\ vsnap[r] # None => vsnap[r].status # "running"
  /\ pc # "idle" => rec.status # "running"
  /\ pc \in {"capture", "finish"} =>
       /\ history[cur] = None /\ vsnap[cur] = None
       /\ manifest[cur] \in Record /\ manifest[cur].status = "running"
  /\ pc \in {"draft", "artifacts", "manifest"} /\ cap.status # "running"
       => manifest[cur].status # "running"
  /\ pc \in {"inventory", "marker"} /\ cap.status # "running"
       => rmanifest[cur].status # "running"

WholeInv ==
  /\ HolderInv /\ Telling /\ CompletedIsWhole
  /\ \A r \in Runs : \E f : OneCapture(r, f)

\* The end of a capture: the record in memory has a status.
LEMMA FinishedKept ==
  ASSUME TypeInv, FinishCapture
  PROVE  /\ rec' \in Record /\ rec'.status # "running" /\ rec'.upload = rec.upload
         /\ mode # "undue" /\ rec'.status = "success"
              => verifyLogicalCapture(rec', parserFixed)
<1>1. PICK physical \in PhysicalOutcomes, blocked \in BOOLEAN :
        LET tallied == Tally([rec EXCEPT !.physical = physical], blocked) IN
        IF mode # "undue" /\ tallied.status = "success"
           /\ ~verifyLogicalCapture(tallied, parserFixed)
        THEN \E why \in VerifyReasons(tallied, parserFixed) :
               rec' = [tallied EXCEPT !.status = "failed", !.reason = why]
        ELSE rec' = tallied
  BY DEF FinishCapture
<1> DEFINE g == [rec EXCEPT !.physical = physical]
<1> DEFINE tallied == Tally(g, blocked)
<1>2. g \in Record /\ g.upload = rec.upload
  BY ConstantsAssumption DEF TypeInv, TypeOK, HolderTypeOK, Record
<1> HIDE DEF g
<1>3. tallied \in Record
  BY <1>2, TallyIsRecord
<1>4. tallied.upload = rec.upload /\ tallied.status \in {"success", "partial", "failed"}
  BY <1>2 DEF Tally, Record
<1> USE DEF g
<1> HIDE DEF tallied
<1>5. \A why \in VerifyReasons(tallied, parserFixed) : why \in {"captured", "other"}
  BY DEF VerifyReasons
<1>6. \A why \in {"captured", "other"} :
        LET y == [tallied EXCEPT !.status = "failed", !.reason = why] IN
        y \in Record /\ y.status = "failed" /\ y.upload = rec.upload
  BY <1>3, <1>4 DEF Record
<1>7. \/ rec' = tallied /\ (mode # "undue" /\ tallied.status = "success"
                              => verifyLogicalCapture(tallied, parserFixed))
      \/ \E why \in {"captured", "other"} :
           rec' = [tallied EXCEPT !.status = "failed", !.reason = why]
  BY <1>1, <1>5 DEF tallied
<1> QED
  BY <1>3, <1>4, <1>6, <1>7

LEMMA TellingStep == HolderInv /\ Telling /\ [Next]_vars => Telling'
<1> SUFFICES ASSUME HolderInv, Telling, [Next]_vars PROVE Telling'
  OBVIOUS
<1>0. /\ rec \in Record /\ cap \in Record /\ (pc # "idle" => cur \in Runs)
      /\ manifest \in [Runs -> Record \cup {None}]
      /\ history \in [Runs -> Record \cup {None}]
      /\ vsnap \in [Runs -> Record \cup {None}] /\ (vpc # "idle" => vrun \in Runs)
      /\ rmanifest \in [Runs -> Record \cup {None}] /\ None \notin Record
      /\ pc \in Steps
      /\ pc \in Reading => manifest[cur] \in Record
      /\ pc \in {"inventory", "marker"} => rmanifest[cur] \in Record
      /\ vpc # "idle" => vsnap[vrun] \in Record
  BY RecordAssumption DEF HolderInv, TypeInv, TypeOK, HolderTypeOK, LocalTypeOK,
     RemoteTypeOK, ValidationTypeOK, ManifestsPresent, Reading
<1> USE DEF Telling
<1>1. ASSUME NEW r \in Runs, StartRun(r) PROVE Telling'
  <2>1. /\ RunningRecord \in Record /\ RunningRecord.status = "running"
        /\ [RunningRecord EXCEPT !.status = "failed"].status = "failed"
    BY FreshRecords DEF RunningRecord, NewRecord, Record
  <2> HIDE DEF RunningRecord
  <2> QED
    BY <1>0, <1>1, <2>1 DEF StartRun, HolderInv, OwnRun, validVars, remoteVars
<1>2. CASE (\E r \in Runs : StartRunFails(r)) \/ CorrectParser
  BY <1>2 DEF StartRunFails, CorrectParser, procVars, validVars, remoteVars
<1>3. CASE CaptureLogical
  <2>1. rec'.status = rec.status
    BY <1>0, <1>3 DEF CaptureLogical, Record
  <2> QED
    BY <1>0, <1>3, <2>1 DEF CaptureLogical, localVars, validVars, remoteVars
<1>4. CASE CaptureAborts
  BY <1>0, <1>4, FieldsKept DEF CaptureAborts, localVars, validVars, remoteVars
<1>5. CASE SkipLogical
  BY <1>0, <1>5 DEF SkipLogical, localVars, validVars, remoteVars
<1>6. CASE FinishCapture
  <2>1. rec'.status # "running"
    BY <1>6, FinishedKept DEF HolderInv
  <2> QED
    BY <1>6, <2>1 DEF FinishCapture, localVars, validVars, remoteVars
<1>7. CASE WritePreUploadManifest
  BY <1>0, <1>7, StatusKept DEF WritePreUploadManifest, validVars, remoteVars
<1>8. CASE SkipUpload \/ StartDirectUpload \/ LegacyUpload
  <2>1. rec'.status # "running" /\ pc' \in {"state", "head"} /\ history' = history
        /\ vsnap' = vsnap
    <3>1. /\ [rec EXCEPT !.upload = "skipped"].status = rec.status
          /\ markLogicalUploadFailure(rec).status = "failed"
          /\ [rec EXCEPT !.upload = "pending", !.status = "partial",
                         !.reason = "other"].status = "partial"
      BY <1>0, FieldsKept, UploadMarksKept
    <3> QED
      BY <1>8, <3>1 DEF SkipUpload, StartDirectUpload, LegacyUpload, localVars, validVars
  <2> QED
    BY <2>1
<1>9. CASE CheckDestination \/ RequestFails \/ ConfirmMarker \/ PutMarker
  BY <1>9 DEF CheckDestination, RequestFails, ConfirmMarker, PutMarker, GiveUp,
     localVars, validVars, remoteVars
<1>10. CASE PersistManifestCommit
  BY <1>10 DEF PersistManifestCommit, GiveUp, validVars
<1>11. CASE ReadCapture
  BY <1>11 DEF ReadCapture, GiveUp, localVars, validVars, remoteVars
<1>12. CASE UploadDraftManifest
  BY <1>0, <1>12 DEF UploadDraftManifest, GiveUp, localVars, validVars
<1>13. CASE \E d \in Databases : UploadArtifact(d) \/ UploadArtifactFails(d)
  BY <1>13 DEF UploadArtifact, UploadArtifactFails, GiveUp, localVars, validVars
<1>14. CASE PublishManifest
  <2> DEFINE new == setManifestMetadata(markLogicalUploadSuccess(cap), mode)
  <2>1. new \in Record /\ new.status = cap.status
    BY <1>0, PublishedKept
  <2> HIDE DEF new
  <2>2. /\ cap' = new /\ rec' = rec /\ cur' = cur /\ history' = history /\ vsnap' = vsnap
        /\ \/ pc' = "uploadFailed"
           \/ pc' = "manifest" /\ manifest' = [manifest EXCEPT ![cur] = new]
        /\ pc = "artifacts"
    BY <1>14 DEF PublishManifest, GiveUp, HolderInv, Unpinned, validVars, new
  <2> QED
    BY <1>0, <2>1, <2>2
<1>15. CASE UploadManifest
  BY <1>0, <1>15 DEF UploadManifest, GiveUp, localVars, validVars
<1>16. CASE CheckInventory
  BY <1>16 DEF CheckInventory, localVars, validVars, remoteVars
<1>17. CASE UploadSucceeds \/ UploadFailsInRun \/ SaveScheduleState
  <2>1. rec'.status # "running" /\ pc' \in {"state", "final"} /\ history' = history
        /\ vsnap' = vsnap
    <3>1. /\ setManifestMetadata(markLogicalUploadSuccess(rec), mode).status = rec.status
          /\ markLogicalUploadFailure(rec).status = "failed"
          /\ [rec EXCEPT !.status = "failed", !.reason = "other"].status = "failed"
      BY <1>0, FieldsKept, UploadMarksKept, PublishedKept
    <3> QED
      BY <1>17, <3>1 DEF UploadSucceeds, UploadFailsInRun, SaveScheduleState, localVars,
         validVars
  <2> QED
    BY <2>1
<1>18. CASE PersistFinalMetadata
  <2> DEFINE new == setManifestMetadata(rec, mode)
  <2>1. new \in Record /\ new.status = rec.status
    BY <1>0, StatusKept, RecordsStayRecords
  <2> HIDE DEF new
  <2>2. /\ history' = history /\ vsnap' = vsnap /\ pc = "final"
        /\ \/ pc' = "idle"
           \/ /\ pc' = "append"
              /\ rec' \in {new, [new EXCEPT !.status = "failed", !.reason = "other",
                                            !.recovery = "FAILED"]}
    BY <1>18 DEF PersistFinalMetadata, Release, validVars, new
  <2>3. [new EXCEPT !.status = "failed", !.reason = "other", !.recovery = "FAILED"].status
          = "failed"
    BY <2>1, FieldsKept
  <2> QED
    BY <2>1, <2>2, <2>3
<1>19. CASE AppendRunRecord
  BY <1>0, <1>19 DEF AppendRunRecord, Release, validVars
<1>20. CASE UploadFailsInReconcile \/ ReconcileRefused \/ Crash
  BY <1>20 DEF UploadFailsInReconcile, ReconcileRefused, Crash, Release, validVars,
     localVars
<1>21. ASSUME NEW r \in Runs, Reconcile(r) PROVE Telling'
  <2>1. rec'.status = "success"
    BY <1>0, <1>21, ProbeKept DEF Reconcile
  <2> QED
    BY <1>21, <2>1 DEF Reconcile, localVars, validVars
<1>22. CASE WriteReconciled
  BY <1>22 DEF WriteReconciled, validVars
<1>23. ASSUME NEW r \in Runs, ReadHistory(r) PROVE Telling'
  <2>1. \A s \in Runs : /\ vsnap'[s] # None => vsnap'[s].status # "running"
                        /\ history[s] = None => vsnap'[s] = None
    <3>1. vsnap' = [history EXCEPT ![r].tested = TRUE] /\ history[r] \in Record
      BY <1>0, <1>23 DEF ReadHistory
    <3>2. [history[r] EXCEPT !.tested = TRUE].status = history[r].status
      BY <3>1, FieldsKept
    <3>3. vsnap'[r] = [history[r] EXCEPT !.tested = TRUE]
      BY <1>0, <3>1
    <3>4. \A s \in Runs \ {r} : vsnap'[s] = history[s]
      BY <1>0, <3>1
    <3> QED
      BY <1>0, <3>1, <3>2, <3>3, <3>4
  <2> QED
    BY <1>23, <2>1 DEF ReadHistory, localVars, procVars, remoteVars
<1>24. CASE RewriteHistory
  BY <1>24 DEF RewriteHistory, procVars, remoteVars
<1>25. CASE StatCommit
  <2>1. vsnap' = vsnap \/ \A r \in Runs : vsnap'[r] = None
    BY <1>25 DEF StatCommit, ForgetValidation
  <2> QED
    BY <1>0, <1>25, <2>1 DEF StatCommit, localVars, procVars, remoteVars
<1>26. CASE RewriteManifest
  BY <1>0, <1>26 DEF RewriteManifest, ForgetValidation, procVars, remoteVars
<1>27. CASE UNCHANGED vars
  BY <1>27 DEF vars, localVars, procVars, remoteVars, validVars
<1> QED
  BY <1>1, <1>2, <1>3, <1>4, <1>5, <1>6, <1>7, <1>8, <1>9, <1>10, <1>11, <1>12, <1>13,
     <1>14, <1>15, <1>16, <1>17, <1>18, <1>19, <1>20, <1>21, <1>22, <1>23, <1>24, <1>25,
     <1>26, <1>27
  DEF Next, Run, DirectUpload, Reconciliation, Validation

\* A record a validation carries tells what the history told.
LEMMA SnapshotTells ==
  ASSUME HolderInv, NEW s \in Runs, ReadHistory(s), NEW r \in Runs, NEW f, Tells(history[r], f)
  PROVE  Tells(vsnap'[r], f)
<1>1. /\ history \in [Runs -> Record \cup {None}] /\ None \notin Record /\ history[s] # None
      /\ vsnap' = [history EXCEPT ![s].tested = TRUE]
  BY RecordAssumption DEF HolderInv, TypeInv, TypeOK, LocalTypeOK, ReadHistory
<1>2. [history[s] EXCEPT !.tested = TRUE].result = history[s].result
      /\ [history[s] EXCEPT !.tested = TRUE].status = history[s].status
  BY <1>1, FieldsKept
<1>3. vsnap'[r] = IF r = s THEN [history[s] EXCEPT !.tested = TRUE] ELSE history[r]
  BY <1>1
<1> QED
  BY <1>1, <1>2, <1>3 DEF Tells

\* Whatever a step writes into a record of r tells what the others told; the end
\* of the capture is where the first record tells.
LEMMA OneCaptureStep ==
  ASSUME HolderInv, Telling, [Next]_vars, NEW r \in Runs, NEW f, OneCapture(r, f)
  PROVE  \E g : OneCapture(r, g)'
<1>0. /\ rec \in Record /\ cap \in Record /\ (pc # "idle" => cur \in Runs)
      /\ manifest \in [Runs -> Record \cup {None}]
      /\ history \in [Runs -> Record \cup {None}]
      /\ vsnap \in [Runs -> Record \cup {None}] /\ (vpc # "idle" => vrun \in Runs)
      /\ rmanifest \in [Runs -> Record \cup {None}] /\ None \notin Record
      /\ pc \in Steps
      /\ pc \in Reading => manifest[cur] \in Record
      /\ vpc # "idle" => vsnap[vrun] \in Record
  BY RecordAssumption DEF HolderInv, TypeInv, TypeOK, HolderTypeOK, LocalTypeOK,
     RemoteTypeOK, ValidationTypeOK, ManifestsPresent, Reading
<1> USE DEF OneCapture, Reading
<1>1. CASE (\E s \in Runs : StartRun(s))
  <2>1. PICK s \in Runs : StartRun(s)
    BY <1>1
  <2>2. RunningRecord \in Record /\ RunningRecord.status = "running"
    BY FreshRecords DEF RunningRecord, NewRecord, Record
  <2> HIDE DEF RunningRecord
  <2>3. /\ history' = history /\ vsnap' = vsnap /\ pc' = "capture"
        /\ manifest'[r] = manifest[r] \/ manifest'[r] = RunningRecord
    BY <1>0, <2>1 DEF StartRun, validVars
  <2>4. OneCapture(r, f)'
    BY <2>2, <2>3 DEF Tells
  <2> QED
    BY <2>4
<1>2. CASE (\E s \in Runs : StartRunFails(s))
  <2>1. PICK s \in Runs : StartRunFails(s)
    BY <1>2
  <2>2. RunningRecord \in Record /\ RunningRecord.status = "running"
    BY FreshRecords DEF RunningRecord, NewRecord, Record
  <2> HIDE DEF RunningRecord
  <2>3. /\ history' = history /\ vsnap' = vsnap /\ pc' = "idle"
        /\ manifest'[r] \in {manifest[r], RunningRecord, None}
    BY <1>0, <2>1 DEF StartRunFails, validVars, procVars
  <2>4. OneCapture(r, f)'
    BY <2>2, <2>3 DEF Tells
  <2> QED
    BY <2>4
<1>3. CASE CaptureLogical \/ SkipLogical
  <2>1. UNCHANGED <<manifest, history, vsnap>> /\ pc' = "finish"
    BY <1>3 DEF CaptureLogical, SkipLogical, localVars, validVars
  <2> QED
    BY <2>1
<1>4. CASE CaptureAborts \/ FinishCapture
  <2>1. /\ UNCHANGED <<manifest, history, vsnap, rmanifest, cur>>
        /\ pc' \in {"final", "state", "premanifest"} /\ pc \in {"capture", "finish"}
    BY <1>4 DEF CaptureAborts, FinishCapture, localVars, validVars, remoteVars
  <2>2. CASE cur = r
    <3>1. PICK g : g = rec'.result
      OBVIOUS
    <3>2. OneCapture(r, g)'
      BY <1>0, <2>1, <2>2, <3>1 DEF Tells, Telling
    <3> QED
      BY <3>2
  <2>3. CASE cur # r
    BY <2>1, <2>3
  <2> QED
    BY <2>2, <2>3
<1>5. CASE WritePreUploadManifest
  <2> DEFINE new == setManifestMetadata(rec, mode)
  <2>1. new \in Record /\ new.result = rec.result
    BY <1>0, StatusKept, RecordsStayRecords
  <2> HIDE DEF new
  <2>2. /\ UNCHANGED <<history, vsnap, cur>> /\ pc' = "upload" /\ pc = "premanifest"
        /\ rec' = new /\ (r # cur => manifest'[r] = manifest[r])
        /\ manifest'[cur] \in {manifest[cur], new}
    BY <1>0, <1>5 DEF WritePreUploadManifest, validVars, new
  <2>3. OneCapture(r, f)'
    BY <2>1, <2>2 DEF Tells
  <2> QED
    BY <2>3
<1>6. CASE SkipUpload \/ StartDirectUpload \/ LegacyUpload
  <2>1. /\ [rec EXCEPT !.upload = "skipped"].result = rec.result
        /\ markLogicalUploadFailure(rec).result = rec.result
        /\ [rec EXCEPT !.upload = "pending", !.status = "partial",
                       !.reason = "other"].result = rec.result
    BY <1>0, FieldsKept, UploadMarksKept
  <2>2. /\ rec'.result = rec.result /\ UNCHANGED <<manifest, history, vsnap, cur>>
        /\ pc' \in {"state", "head"} /\ pc = "upload"
    BY <1>6, <2>1
       DEF SkipUpload, StartDirectUpload, LegacyUpload, localVars, validVars
  <2> QED
    BY <2>2
<1>7. CASE \/ CheckDestination \/ RequestFails \/ ConfirmMarker \/ PutMarker \/ CheckInventory
           \/ PersistManifestCommit
  <2>1. /\ UNCHANGED <<manifest, history, vsnap, cur, rec, cap, rmanifest>>
        /\ \/ pc' \in {"read", "uploadFailed", "confirm", "commit", "uploaded"}
           \/ pc = "inventory" /\ pc' = "marker"
        /\ pc \in {"head", "inventory", "confirm", "marker", "commit"}
    BY <1>7 DEF CheckDestination, RequestFails, ConfirmMarker, PutMarker, CheckInventory,
       PersistManifestCommit, GiveUp, localVars, validVars, remoteVars
  <2> QED
    BY <2>1
<1>8. CASE ReadCapture
  <2>1. /\ UNCHANGED <<manifest, history, vsnap, cur, rec, rmanifest>> /\ pc = "read"
        /\ \/ pc' = "uploadFailed"
           \/ pc' = "draft" /\ cap' = manifest[cur]
    BY <1>8 DEF ReadCapture, GiveUp, localVars, validVars, remoteVars
  <2> QED
    BY <2>1
<1>9. CASE UploadDraftManifest
  <2>1. /\ UNCHANGED <<manifest, history, vsnap, cur, rec, cap>> /\ pc = "draft"
        /\ pc' \in {"uploadFailed", "artifacts"}
    BY <1>9 DEF UploadDraftManifest, GiveUp, localVars, validVars
  <2> QED
    BY <2>1
<1>10. CASE \E d \in Databases : UploadArtifact(d) \/ UploadArtifactFails(d)
  <2>1. /\ UNCHANGED <<manifest, history, vsnap, cur, rec, cap>> /\ pc = "artifacts"
        /\ pc' \in {"uploadFailed", "artifacts"}
    BY <1>10 DEF UploadArtifact, UploadArtifactFails, GiveUp, localVars, validVars
  <2> QED
    BY <2>1
<1>11. CASE PublishManifest
  <2> DEFINE new == setManifestMetadata(markLogicalUploadSuccess(cap), mode)
  <2>1. new \in Record /\ new.result = cap.result /\ new.status = cap.status
    BY <1>0, PublishedKept
  <2> HIDE DEF new
  <2>2. /\ UNCHANGED <<history, vsnap, cur, rec>> /\ cap' = new /\ pc = "artifacts"
        /\ pc' \in {"manifest", "uploadFailed"}
        /\ r # cur => manifest'[r] = manifest[r]
        /\ manifest'[cur] \in {manifest[cur], new}
    BY <1>0, <1>11 DEF PublishManifest, GiveUp, validVars, new
  <2>3. OneCapture(r, f)'
    BY <1>0, <2>1, <2>2 DEF Tells
  <2> QED
    BY <2>3
<1>12. CASE UploadManifest
  <2>1. /\ UNCHANGED <<manifest, history, vsnap, cur, rec, cap>> /\ pc = "manifest"
        /\ \/ pc' = "uploadFailed"
           \/ pc' = "inventory" /\ rmanifest'[cur] = manifest[cur]
    BY <1>0, <1>12 DEF UploadManifest, GiveUp, localVars, validVars
  <2> QED
    BY <2>1
<1>13. CASE UploadSucceeds \/ UploadFailsInRun \/ SaveScheduleState
  <2>1. /\ setManifestMetadata(markLogicalUploadSuccess(rec), mode).result = rec.result
        /\ markLogicalUploadFailure(rec).result = rec.result
        /\ [rec EXCEPT !.status = "failed", !.reason = "other"].result = rec.result
    BY <1>0, FieldsKept, UploadMarksKept, PublishedKept
  <2>2. /\ rec'.result = rec.result /\ UNCHANGED <<manifest, history, vsnap, cur>>
        /\ pc' \in {"state", "final"} /\ pc \in {"uploaded", "uploadFailed", "state"}
    BY <1>13, <2>1 DEF UploadSucceeds, UploadFailsInRun, SaveScheduleState, localVars,
       validVars
  <2> QED
    BY <2>2
<1>14. CASE PersistFinalMetadata
  <2> DEFINE new == setManifestMetadata(rec, mode)
  <2>1. new \in Record /\ new.result = rec.result
    BY <1>0, StatusKept, RecordsStayRecords
  <2> HIDE DEF new
  <2>2. [new EXCEPT !.status = "failed", !.reason = "other", !.recovery = "FAILED"].result
          = new.result
    BY <2>1, FieldsKept
  <2>3. /\ UNCHANGED <<history, vsnap>> /\ pc = "final"
        /\ r # cur => manifest'[r] = manifest[r]
        /\ manifest'[cur] \in {manifest[cur], new}
        /\ \/ pc' = "idle"
           \/ /\ pc' = "append" /\ cur' = cur
              /\ rec' \in {new, [new EXCEPT !.status = "failed", !.reason = "other",
                                            !.recovery = "FAILED"]}
    BY <1>0, <1>14 DEF PersistFinalMetadata, FinalManifest, Release, validVars, new
  <2>4. OneCapture(r, f)'
    BY <1>0, <2>1, <2>2, <2>3 DEF Tells
  <2> QED
    BY <2>4
<1>15. CASE AppendRunRecord
  <2>1. /\ UNCHANGED <<manifest, vsnap>> /\ pc = "append" /\ pc' = "idle"
        /\ r # cur => history'[r] = history[r]
        /\ history'[cur] \in {history[cur], rec}
    BY <1>0, <1>15 DEF AppendRunRecord, Release, validVars
  <2>2. OneCapture(r, f)'
    BY <2>1 DEF Tells
  <2> QED
    BY <2>2
<1>16. CASE UploadFailsInReconcile \/ ReconcileRefused
  <2>1. markLogicalUploadFailure(rec).result = rec.result
    BY <1>0, UploadMarksKept
  <2>2. /\ UNCHANGED <<history, vsnap>> /\ pc' = "idle" /\ pc \in {"uploadFailed", "reconcile"}
        /\ r # cur => manifest'[r] = manifest[r]
        /\ manifest'[cur] \in {manifest[cur], markLogicalUploadFailure(rec), rec}
    BY <1>0, <1>16 DEF UploadFailsInReconcile, ReconcileRefused, Release, validVars
  <2>3. OneCapture(r, f)'
    BY <2>1, <2>2 DEF Tells
  <2> QED
    BY <2>3
<1>17. CASE Crash
  <2>1. UNCHANGED <<manifest, history, vsnap>> /\ pc' = "idle"
    BY <1>17 DEF Crash, Release, localVars, validVars
  <2> QED
    BY <2>1
<1>18. CASE (\E s \in Runs : Reconcile(s))
  <2>1. PICK s \in Runs : Reconcile(s)
    BY <1>18
  <2>2. /\ UNCHANGED <<manifest, history, vsnap>> /\ pc' = "reconcile" /\ cur' = s
        /\ rec'.result = manifest[s].result /\ manifest[s] # None
        /\ manifest[s].status = "failed"
    BY <1>0, <2>1, ProbeKept DEF Reconcile, Reconcilable, localVars, validVars
  <2>3. OneCapture(r, f)'
    BY <2>2 DEF Tells
  <2> QED
    BY <2>3
<1>19. CASE WriteReconciled
  <2>1. /\ UNCHANGED <<history, vsnap, cur, rec>> /\ pc' = "head" /\ pc = "reconcile"
        /\ r # cur => manifest'[r] = manifest[r]
        /\ manifest'[cur] = rec
    BY <1>0, <1>19 DEF WriteReconciled, validVars
  <2>2. OneCapture(r, f)'
    BY <2>1 DEF Tells
  <2> QED
    BY <2>2
<1>20. CASE (\E s \in Runs : ReadHistory(s))
  <2>1. PICK s \in Runs : ReadHistory(s)
    BY <1>20
  <2>2. Tells(vsnap'[r], f)
    BY <2>1, SnapshotTells
  <2>3. UNCHANGED <<manifest, history, cur, pc, rec, cap, rmanifest>>
    BY <2>1 DEF ReadHistory, localVars, procVars, remoteVars
  <2> QED
    BY <2>2, <2>3
<1>21. CASE RewriteHistory
  <2>1. UNCHANGED <<manifest, vsnap, cur, pc, rec, cap, rmanifest>> /\ history' = vsnap
    BY <1>21 DEF RewriteHistory, procVars, remoteVars
  <2> QED
    BY <2>1
<1>22. CASE StatCommit
  <2>1. /\ UNCHANGED <<manifest, history, cur, pc, rec, cap, rmanifest>>
        /\ vsnap' = vsnap \/ vsnap'[r] = None
    BY <1>22 DEF StatCommit, ForgetValidation, localVars, procVars, remoteVars
  <2>2. OneCapture(r, f)'
    BY <2>1 DEF Tells
  <2> QED
    BY <2>2
<1>23. CASE RewriteManifest
  <2>1. /\ UNCHANGED <<history, cur, pc, rec, cap, rmanifest>> /\ vsnap'[r] = None
        /\ manifest'[r] \in {manifest[r], vsnap[r]}
    BY <1>0, <1>23 DEF RewriteManifest, ForgetValidation, procVars, remoteVars
  <2>2. OneCapture(r, f)'
    BY <2>1 DEF Tells
  <2> QED
    BY <2>2
<1>24. CASE CorrectParser \/ UNCHANGED vars
  <2>1. UNCHANGED <<manifest, history, vsnap, cur, pc, rec, cap, rmanifest>>
    BY <1>24 DEF CorrectParser, vars, localVars, validVars, procVars, remoteVars
  <2> QED
    BY <2>1
<1> QED
  BY <1>1, <1>2, <1>3, <1>4, <1>5, <1>6, <1>7, <1>8, <1>9, <1>10, <1>11, <1>12, <1>13,
     <1>14, <1>15, <1>16, <1>17, <1>18, <1>19, <1>20, <1>21, <1>22, <1>23, <1>24
  DEF Next, Run, DirectUpload, Reconciliation, Validation

\* Only PutMarker completes a point, and then with what was read, uploaded and
\* verified.
LEMMA CompletedIsWholeStep == WholeInv /\ [Next]_vars => CompletedIsWhole'
<1> SUFFICES ASSUME WholeInv, [Next]_vars, NEW r \in Runs,
                    marker'[r]["COMPLETED"] # None
             PROVE  PointIsWhole(r, marker[r]["COMPLETED"])'
  BY DEF CompletedIsWhole
<1> USE DEF WholeInv, HolderInv, TypeInv, TypeOK, HolderTypeOK, LocalTypeOK, RemoteTypeOK
<1>1. CASE marker[r]["COMPLETED"] # None
  BY <1>1, CompletedUntouched DEF CompletedIsWhole, PointIsWhole
<1>2. CASE marker[r]["COMPLETED"] = None
  <2>1. PutMarker /\ r = cur
    <3>1. marker' # marker
      BY <1>2
    <3>2. PutMarker
      BY <3>1, RemoteFrame DEF remoteVars, UploadDraftManifest, UploadManifest,
           UploadArtifact, UploadArtifactFails
    <3> QED
      BY <1>2, <3>2 DEF PutMarker
  <2>2. /\ marker' = [marker EXCEPT ![cur][MarkerFor(cap)] = MarkerEntry]
        /\ object' = object /\ rmanifest' = rmanifest /\ pc = "marker"
        /\ \A d \in Succeeded(cap) : object[cur][d] = "intact"
        /\ parserFixed \in BOOLEAN /\ cap \in Record /\ rmanifest[cur] \in Record
    BY <1>2, <2>1 DEF PutMarker, Shipped, ManifestsPresent
  <2>3. MarkerFor(cap) = "COMPLETED"
    BY <1>2, <2>1, <2>2 DEF Markers, MarkerFor
  <2>4. verifyLogicalCapture(cap, parserFixed)
    BY <2>3 DEF MarkerFor
  <2>5. marker'[r]["COMPLETED"] = MarkerEntry
    BY <2>1, <2>2, <2>3 DEF Markers
  <2>6. /\ MarkerEntry.manifest = rmanifest[cur] /\ MarkerEntry.dbs = Expected(cap)
        /\ MarkerEntry.dbs = Succeeded(cap)
        /\ Expected(cap) # {} /\ FullScope(cap) /\ cap.status = "success"
    BY <2>2, <2>4, VerifiedIsComplete DEF MarkerEntry
  <2>7. rmanifest[cur].result = cap.result
    <3>1. PICK f : OneCapture(r, f)
      OBVIOUS
    <3>2. rmanifest[cur].status # "running"
      BY <2>2, <2>6 DEF Telling
    <3> QED
      BY <2>1, <2>2, <2>6, <3>1, <3>2, RecordAssumption DEF OneCapture, Tells, Reading
  <2>8. Expected(rmanifest[cur]) = Expected(cap) /\ FullScope(rmanifest[cur])
    BY <2>6, <2>7 DEF Expected, FullScope
  <2> QED
    BY <2>1, <2>2, <2>5, <2>6, <2>8 DEF PointIsWhole
<1> QED
  BY <1>1, <1>2

LEMMA WholeInvStep == WholeInv /\ [Next]_vars => WholeInv'
<1> SUFFICES ASSUME WholeInv, [Next]_vars PROVE WholeInv'
  OBVIOUS
<1>1. HolderInv' /\ Telling' /\ CompletedIsWhole'
  BY HolderInvStep, TellingStep, CompletedIsWholeStep DEF WholeInv
<1>2. ASSUME NEW r \in Runs PROVE \E g : OneCapture(r, g)'
  <2>1. PICK f : OneCapture(r, f)
    BY DEF WholeInv
  <2> QED
    BY <2>1, OneCaptureStep DEF WholeInv
<1> QED
  BY <1>1, <1>2 DEF WholeInv

LEMMA InitWhole == Init => WholeInv
<1> SUFFICES ASSUME Init PROVE WholeInv
  OBVIOUS
<1>1. HolderInv
  BY InitHolder
<1>2. Telling /\ CompletedIsWhole
  BY DEF Init, Telling, CompletedIsWhole, Markers
<1>3. \A r \in Runs : OneCapture(r, {})
  BY DEF Init, OneCapture, Tells, Reading
<1> QED
  BY <1>1, <1>2, <1>3 DEF WholeInv

\* COMPLETED.json never lies: it lists every expected database, each remotely
\* intact, and refers to the manifest that lies beside it, also when validations
\* rewrite the history and the manifest while the uploader works.
THEOREM CompletedAlwaysWhole == Spec => []CompletedIsWhole
<1>1. Spec => []WholeInv
  BY InitWhole, WholeInvStep, PTL DEF Spec
<1>2. WholeInv => CompletedIsWhole
  BY DEF WholeInv
<1> QED
  BY <1>1, <1>2, PTL

-----------------------------------------------------------------------------
(* What a local manifest says of the remote objects, also with validations   *)
(* beside the runner.                                                        *)

Evident(x) == x # None /\ x.upload = "success"

Early == {"capture", "finish", "premanifest", "upload", "head", "read", "draft", "artifacts"}
Transfer == {"head", "read", "draft", "artifacts", "manifest", "inventory", "marker",
             "confirm", "commit"}

\* A verified upload is on record only of a pinned run, whose objects and
\* manifest stay; and while the uploader replaces objects nothing local claims
\* them verified.
Evidence ==
  /\ \A r \in Runs : Evident(history[r]) \/ Evident(vsnap[r]) => commit[r] # None
  /\ vpc = "write" => ~Evident(vsnap[vrun])
  /\ pc \in Early \cup Transfer \cup {"reconcile"} => rec.upload # "success"
  /\ pc \in Early => ~Evident(manifest[cur])
  /\ pc \in {"confirm", "commit"} => rmanifest[cur] # None
  /\ pc = "uploaded" => commit[cur] # None
  /\ pc \in {"state", "final", "append"} /\ rec.upload = "success" => commit[cur] # None

EvidenceInv == HolderInv /\ Evidence /\ RemoteEvidence

LEMMA EvidenceStep == HolderInv /\ Evidence /\ [Next]_vars => Evidence'
<1> SUFFICES ASSUME HolderInv, Evidence, [Next]_vars PROVE Evidence'
  OBVIOUS
<1>0. /\ rec \in Record /\ cap \in Record /\ (pc # "idle" => cur \in Runs)
      /\ manifest \in [Runs -> Record \cup {None}]
      /\ commit \in [Runs -> Record \cup {None}]
      /\ history \in [Runs -> Record \cup {None}]
      /\ vsnap \in [Runs -> Record \cup {None}] /\ (vpc # "idle" => vrun \in Runs)
      /\ rmanifest \in [Runs -> Record \cup {None}] /\ None \notin Record
      /\ pc \in Steps
      /\ pc \in {"inventory", "marker"} => rmanifest[cur] \in Record
      /\ vpc # "idle" => vsnap[vrun] \in Record
  BY RecordAssumption DEF HolderInv, TypeInv, TypeOK, HolderTypeOK, LocalTypeOK,
     RemoteTypeOK, ValidationTypeOK, ManifestsPresent
<1>k. \A r \in Runs : commit[r] # None => commit'[r] # None
  BY PinsStay
<1> USE DEF Evidence, Evident, Early, Transfer
<1>1. ASSUME NEW r \in Runs, StartRun(r) PROVE Evidence'
  <2>1. /\ RunningRecord \in Record /\ RunningRecord.upload = "none"
        /\ [RunningRecord EXCEPT !.status = "failed"].upload = "none"
    BY FreshRecords DEF RunningRecord, NewRecord, Record
  <2> HIDE DEF RunningRecord
  <2> QED
    BY <1>0, <1>1, <2>1 DEF StartRun, validVars, remoteVars
<1>2. CASE (\E r \in Runs : StartRunFails(r)) \/ CorrectParser
  BY <1>2 DEF StartRunFails, CorrectParser, procVars, validVars, remoteVars
<1>3. CASE CaptureLogical \/ CaptureAborts \/ SkipLogical
  <2>1. rec'.upload = rec.upload
    <3>1. CASE CaptureLogical
      BY <1>0, <3>1 DEF CaptureLogical, Record
    <3>2. CASE CaptureAborts
      BY <1>0, <3>2, FieldsKept DEF CaptureAborts
    <3> QED
      BY <1>3, <3>1, <3>2 DEF SkipLogical
  <2> QED
    BY <1>3, <2>1 DEF CaptureLogical, CaptureAborts, SkipLogical, localVars, validVars
<1>4. CASE FinishCapture
  <2>1. rec'.upload = rec.upload
    BY <1>4, FinishedKept DEF HolderInv
  <2> QED
    BY <1>4, <2>1 DEF FinishCapture, localVars, validVars
<1>5. CASE WritePreUploadManifest
  <2> DEFINE new == setManifestMetadata(rec, mode)
  <2>1. new.upload = rec.upload
    BY <1>0, StatusKept
  <2> HIDE DEF new
  <2>2. /\ UNCHANGED <<history, vsnap, vpc, vrun, cur, commit>> /\ pc' = "upload"
        /\ rec' = new /\ manifest'[cur] \in {manifest[cur], new} /\ pc = "premanifest"
    BY <1>0, <1>5 DEF WritePreUploadManifest, validVars, new
  <2> QED
    BY <2>1, <2>2
<1>6. CASE SkipUpload \/ StartDirectUpload \/ LegacyUpload
  <2>1. /\ [rec EXCEPT !.upload = "skipped"].upload = "skipped"
        /\ markLogicalUploadFailure(rec).upload = "failed"
        /\ [rec EXCEPT !.upload = "pending", !.status = "partial",
                       !.reason = "other"].upload = "pending"
    BY <1>0, FieldsKept, UploadMarksKept
  <2>2. /\ UNCHANGED <<manifest, history, vsnap, vpc, vrun, cur, commit>>
        /\ \/ pc' = "state" /\ rec'.upload # "success"
           \/ pc' = "head" /\ rec' = rec
        /\ pc = "upload"
    BY <1>6, <2>1
       DEF SkipUpload, StartDirectUpload, LegacyUpload, localVars, validVars
  <2> QED
    BY <2>2
<1>7. CASE CheckDestination \/ RequestFails \/ ConfirmMarker \/ PutMarker \/ CheckInventory
  BY <1>0, <1>7 DEF CheckDestination, RequestFails, ConfirmMarker, PutMarker,
     CheckInventory, GiveUp, localVars, validVars, remoteVars
<1>8. CASE PersistManifestCommit
  <2>1. /\ UNCHANGED <<manifest, history, vsnap, vpc, vrun, cur>> /\ pc = "commit"
        /\ \/ pc' = "uploadFailed"
           \/ pc' = "uploaded" /\ commit'[cur] = rmanifest[cur]
    BY <1>0, <1>8 DEF PersistManifestCommit, GiveUp, validVars
  <2> QED
    BY <1>k, <2>1
<1>9. CASE ReadCapture
  BY <1>9 DEF ReadCapture, GiveUp, localVars, validVars
<1>10. CASE UploadDraftManifest
  BY <1>10 DEF UploadDraftManifest, GiveUp, localVars, validVars
<1>11. CASE \E d \in Databases : UploadArtifact(d) \/ UploadArtifactFails(d)
  BY <1>11 DEF UploadArtifact, UploadArtifactFails, GiveUp, localVars, validVars
<1>12. CASE PublishManifest
  BY <1>12 DEF PublishManifest, GiveUp, validVars
<1>13. CASE UploadManifest
  BY <1>13 DEF UploadManifest, GiveUp, localVars, validVars
<1>14. CASE UploadSucceeds
  BY <1>14 DEF UploadSucceeds, localVars, validVars
<1>15. CASE UploadFailsInRun
  <2>1. rec'.upload = "failed"
    BY <1>0, <1>15, UploadMarksKept DEF UploadFailsInRun
  <2> QED
    BY <1>15, <2>1 DEF UploadFailsInRun, localVars, validVars
<1>16. CASE SaveScheduleState
  <2>1. rec'.upload = rec.upload
    <3>1. [rec EXCEPT !.status = "failed", !.reason = "other"].upload = rec.upload
      BY <1>0, FieldsKept
    <3> QED
      BY <1>16, <3>1 DEF SaveScheduleState
  <2> QED
    BY <1>16, <2>1 DEF SaveScheduleState, validVars
<1>17. CASE PersistFinalMetadata
  <2> DEFINE new == setManifestMetadata(rec, mode)
  <2>1. new \in Record /\ new.upload = rec.upload
    BY <1>0, StatusKept, RecordsStayRecords
  <2> HIDE DEF new
  <2>2. [new EXCEPT !.status = "failed", !.reason = "other", !.recovery = "FAILED"].upload
          = new.upload
    BY <2>1, FieldsKept
  <2>3. /\ UNCHANGED <<history, vsnap, vpc, vrun, commit>> /\ pc = "final"
        /\ \/ pc' = "idle"
           \/ /\ pc' = "append" /\ cur' = cur
              /\ rec' \in {new, [new EXCEPT !.status = "failed", !.reason = "other",
                                            !.recovery = "FAILED"]}
    BY <1>17 DEF PersistFinalMetadata, Release, validVars, new
  <2> QED
    BY <2>1, <2>2, <2>3
<1>18. CASE AppendRunRecord
  <2>1. /\ UNCHANGED <<vsnap, vpc, vrun, commit>> /\ pc' = "idle" /\ pc = "append"
        /\ \A r \in Runs \ {cur} : history'[r] = history[r]
        /\ history'[cur] \in {history[cur], rec}
    BY <1>0, <1>18 DEF AppendRunRecord, Release, validVars
  <2> QED
    BY <2>1
<1>19. CASE UploadFailsInReconcile \/ ReconcileRefused \/ Crash
  BY <1>19 DEF UploadFailsInReconcile, ReconcileRefused, Crash, Release, localVars,
     validVars
<1>20. ASSUME NEW r \in Runs, Reconcile(r) PROVE Evidence'
  <2>1. rec'.upload = "none"
    BY <1>0, <1>20, ProbeKept DEF Reconcile
  <2> QED
    BY <1>20, <2>1 DEF Reconcile, localVars, validVars
<1>21. CASE WriteReconciled
  BY <1>0, <1>21 DEF WriteReconciled, validVars
<1>22. ASSUME NEW r \in Runs, ReadHistory(r) PROVE Evidence'
  <2>1. vsnap' = [history EXCEPT ![r].tested = TRUE] /\ history[r] \in Record
    BY <1>0, <1>22 DEF ReadHistory
  <2>2. [history[r] EXCEPT !.tested = TRUE].upload = history[r].upload
    BY <2>1, FieldsKept
  <2>3. \A s \in Runs : vsnap'[s] = IF s = r THEN [history[r] EXCEPT !.tested = TRUE]
                                    ELSE history[s]
    BY <1>0, <2>1
  <2>4. \A s \in Runs : Evident(vsnap'[s]) => Evident(history[s])
    BY <1>0, <2>1, <2>2, <2>3
  <2> QED
    BY <1>22, <2>4 DEF ReadHistory, localVars, procVars, remoteVars
<1>23. CASE RewriteHistory
  BY <1>23 DEF RewriteHistory, procVars, remoteVars
<1>24. CASE StatCommit
  <2>1. /\ UNCHANGED <<localVars, procVars, remoteVars>>
        /\ \/ vpc' = "idle" /\ \A r \in Runs : vsnap'[r] = None
           \/ vpc' = "write" /\ vsnap' = vsnap /\ vrun' = vrun /\ commit[vrun] = None
        /\ vrun \in Runs
    BY <1>0, <1>24 DEF StatCommit, ForgetValidation
  <2> QED
    BY <2>1 DEF localVars, procVars, remoteVars
<1>25. CASE RewriteManifest
  <2>1. /\ UNCHANGED <<history, commit, procVars, remoteVars>> /\ vpc = "write"
        /\ vpc' = "idle" /\ \A r \in Runs : vsnap'[r] = None
        /\ \A r \in Runs : manifest'[r] \in {manifest[r], vsnap[vrun]}
    BY <1>0, <1>25 DEF RewriteManifest, ForgetValidation
  <2>2. pc \in Early => ~Evident(manifest'[cur])
    BY <1>0, <2>1
  <2> QED
    BY <2>1, <2>2 DEF procVars, remoteVars
<1>26. CASE UNCHANGED vars
  BY <1>26 DEF vars, localVars, procVars, remoteVars, validVars
<1> QED
  BY <1>1, <1>2, <1>3, <1>4, <1>5, <1>6, <1>7, <1>8, <1>9, <1>10, <1>11, <1>12, <1>13,
     <1>14, <1>15, <1>16, <1>17, <1>18, <1>19, <1>20, <1>21, <1>22, <1>23, <1>24, <1>25,
     <1>26
  DEF Next, Run, DirectUpload, Reconciliation, Validation

\* A step that changes the objects of a run leaves its manifest as it is, and
\* no manifest claims them then.
LEMMA ObjectsMove ==
  ASSUME HolderInv, Evidence, [Next]_vars, NEW r \in Runs, object'[r] # object[r]
  PROVE  manifest'[r] = manifest[r] /\ ~Evident(manifest[r])
<1>1. \E d \in Databases : UploadArtifact(d) \/ UploadArtifactFails(d)
  BY RemoteFrame DEF remoteVars, UploadDraftManifest, UploadManifest, PutMarker
<1>2. r = cur /\ pc = "artifacts" /\ manifest' = manifest
  BY <1>1 DEF UploadArtifact, UploadArtifactFails, localVars, HolderInv, TypeInv, TypeOK,
     RemoteTypeOK, HolderTypeOK
<1> QED
  BY <1>2 DEF Evidence, Early

\* A manifest that comes to claim a verified upload is the one the uploader
\* writes when every artifact is verified.
LEMMA ClaimsAppear ==
  ASSUME HolderInv, Evidence, [Next]_vars, NEW r \in Runs,
         Evident(manifest'[r]), manifest'[r] # manifest[r]
  PROVE  /\ r = cur /\ pc = "artifacts" /\ pending = {}
         /\ manifest'[r].result = cap.result /\ object' = object
<1>0. /\ rec \in Record /\ cap \in Record /\ (pc # "idle" => cur \in Runs)
      /\ manifest \in [Runs -> Record \cup {None}]
      /\ vpc # "idle" => vrun \in Runs
  BY DEF HolderInv, TypeInv, TypeOK, HolderTypeOK, LocalTypeOK, ValidationTypeOK
<1> USE DEF Evident
<1>1. ASSUME NEW s \in Runs, StartRun(s) \/ StartRunFails(s) PROVE FALSE
  <2>1. RunningRecord.upload = "none"
    BY DEF RunningRecord, NewRecord
  <2> HIDE DEF RunningRecord
  <2> QED
    BY <1>0, <1>1, <2>1 DEF StartRun, StartRunFails
<1>2. CASE WritePreUploadManifest
  <2>1. setManifestMetadata(rec, mode).upload = rec.upload
    BY <1>0, StatusKept
  <2> QED
    BY <1>0, <1>2, <2>1 DEF WritePreUploadManifest, Evidence, Early
<1>3. CASE PublishManifest
  <2> DEFINE new == setManifestMetadata(markLogicalUploadSuccess(cap), mode)
  <2>1. new.result = cap.result
    BY <1>0, PublishedKept
  <2> HIDE DEF new
  <2>2. /\ pc = "artifacts" /\ pending = {} /\ object' = object
        /\ \/ manifest' = manifest
           \/ \E written \in {manifest[cur], new} :
                manifest' = [manifest EXCEPT ![cur] = written]
    BY <1>3 DEF PublishManifest, remoteVars, new
  <2> QED
    BY <1>0, <2>1, <2>2
<1>4. CASE UploadFailsInReconcile
  <2>1. markLogicalUploadFailure(rec).upload = "failed"
    BY <1>0, UploadMarksKept
  <2> QED
    BY <1>0, <1>4, <2>1 DEF UploadFailsInReconcile
<1>5. CASE PersistFinalMetadata
  <2> DEFINE new == setManifestMetadata(rec, mode)
  <2>1. new.upload = rec.upload
    BY <1>0, StatusKept
  <2> HIDE DEF new
  <2>2. /\ pc = "final"
        /\ \E written \in {manifest[cur], FinalManifest(new)} :
             manifest' = [manifest EXCEPT ![cur] = written]
    BY <1>5 DEF PersistFinalMetadata, new
  <2> QED
    BY <1>0, <2>1, <2>2 DEF Evidence, FinalManifest
<1>6. CASE WriteReconciled \/ ReconcileRefused
  BY <1>0, <1>6 DEF WriteReconciled, ReconcileRefused, Evidence
<1>7. CASE RewriteManifest
  BY <1>0, <1>7 DEF RewriteManifest, Evidence
<1>8. CASE UNCHANGED manifest
  BY <1>8
<1>9. CASE \/ CaptureLogical \/ CaptureAborts \/ SkipLogical \/ FinishCapture
           \/ SkipUpload \/ StartDirectUpload \/ LegacyUpload \/ UploadSucceeds
           \/ UploadFailsInRun \/ SaveScheduleState \/ AppendRunRecord
           \/ (\E s \in Runs : Reconcile(s)) \/ CorrectParser \/ Crash
           \/ (\E s \in Runs : ReadHistory(s)) \/ RewriteHistory \/ StatCommit
  BY <1>8, <1>9 DEF CaptureLogical, CaptureAborts, SkipLogical, FinishCapture,
     SkipUpload, StartDirectUpload, LegacyUpload, UploadSucceeds, UploadFailsInRun,
     SaveScheduleState, AppendRunRecord, Reconcile, CorrectParser, Crash, ReadHistory,
     RewriteHistory, StatCommit, localVars
<1>10. CASE DirectUpload /\ ~PublishManifest
  BY <1>8, <1>10 DEF DirectUpload, CheckDestination, RequestFails, ReadCapture,
     UploadDraftManifest, UploadArtifact, UploadArtifactFails, UploadManifest,
     CheckInventory, PutMarker, ConfirmMarker, PersistManifestCommit, localVars
<1>11. CASE UNCHANGED vars
  BY <1>8, <1>11 DEF vars, localVars
<1> QED
  BY <1>1, <1>2, <1>3, <1>4, <1>5, <1>6, <1>7, <1>9, <1>10, <1>11
  DEF Next, Run, Reconciliation, Validation

LEMMA RemoteEvidenceStep == EvidenceInv /\ [Next]_vars => RemoteEvidence'
<1> SUFFICES ASSUME EvidenceInv, [Next]_vars, NEW r \in Runs, Evident(manifest'[r]),
                    NEW d \in Succeeded(manifest'[r])
             PROVE  object'[r][d] = "intact"
  BY DEF RemoteEvidence, Evident
<1> USE DEF EvidenceInv
<1>1. CASE manifest'[r] = manifest[r]
  BY <1>1, ObjectsMove DEF RemoteEvidence, Evident
<1>2. CASE manifest'[r] # manifest[r]
  <2>1. /\ r = cur /\ pc = "artifacts" /\ pending = {}
        /\ manifest'[r].result = cap.result /\ object' = object
    BY <1>2, ClaimsAppear
  <2>2. Succeeded(manifest'[r]) = Succeeded(cap)
    BY <2>1, SucceededByResult
  <2> QED
    BY <2>1, <2>2 DEF HolderInv, Shipped
<1> QED
  BY <1>1, <1>2

\* A local manifest that claims a verified upload is right about every artifact,
\* through failures, crashes, repeated uploads and validations.
THEOREM EvidenceIsRemote == Spec => []RemoteEvidence
<1>1. Init => EvidenceInv
  <2> SUFFICES ASSUME Init PROVE EvidenceInv
    OBVIOUS
  <2>1. HolderInv
    BY InitHolder
  <2> QED
    BY <2>1 DEF Init, EvidenceInv, Evidence, Evident, RemoteEvidence, Early, Transfer
<1>2. EvidenceInv /\ [Next]_vars => EvidenceInv'
  BY HolderInvStep, EvidenceStep, RemoteEvidenceStep DEF EvidenceInv
<1>3. EvidenceInv => RemoteEvidence
  BY DEF EvidenceInv
<1> QED
  BY <1>1, <1>2, <1>3, PTL DEF Spec

-----------------------------------------------------------------------------
(* What manifest-commit.json vouches for.  From here on no validation         *)
(* rewrites manifests beside the runner.                                      *)

Quiet == vpc = "idle"

\* Memory, local file and remote file hold the same manifest on the way to the
\* marker, and the marker refers to it.
InFlight ==
  /\ pc \in {"draft", "artifacts", "manifest", "inventory", "marker", "confirm",
             "commit"} => manifest[cur] = cap
  /\ pc \in {"inventory", "marker", "confirm", "commit"} => rmanifest[cur] = cap
  /\ pc \in {"confirm", "commit"} =>
       \E m \in Markers : marker[cur][m] # None /\ marker[cur][m].manifest = cap

PointInv == HolderInv /\ Quiet /\ InFlight /\ PinnedIsPublished

LEMMA InFlightStep == PointInv /\ [Next]_vars => InFlight'
<1> SUFFICES ASSUME PointInv, [Next]_vars PROVE InFlight'
  OBVIOUS
<1> DEFINE Flight == {"draft", "artifacts", "manifest", "inventory", "marker",
                      "confirm", "commit"}
<1> USE DEF PointInv, HolderInv, InFlight, TypeInv, TypeOK, HolderTypeOK, LocalTypeOK,
            RemoteTypeOK, GiveUp
<1>1. CASE pc' \notin Flight
  BY <1>1
<1>2. CASE ReadCapture
  BY <1>2 DEF ReadCapture, localVars
<1>3. CASE UploadDraftManifest
  BY <1>3 DEF UploadDraftManifest, localVars
<1>4. CASE \E d \in Databases : UploadArtifact(d) \/ UploadArtifactFails(d)
  BY <1>4 DEF UploadArtifact, UploadArtifactFails, localVars
<1>5. CASE PublishManifest
  <2>1. commit[cur] = None
    BY <1>5 DEF PublishManifest, Unpinned
  <2> QED
    BY <1>5, <2>1 DEF PublishManifest
<1>6. CASE UploadManifest
  BY <1>6 DEF UploadManifest, localVars
<1>7. CASE CheckInventory
  BY <1>7 DEF CheckInventory, localVars, remoteVars
<1>8. CASE PutMarker
  <2> SUFFICES ASSUME pc' = "confirm" PROVE InFlight'
    BY <1>8 DEF PutMarker
  <2>1. /\ marker' = [marker EXCEPT ![cur][MarkerFor(cap)] = MarkerEntry]
        /\ rmanifest[cur] = cap /\ cur' = cur /\ cap' = cap
        /\ rmanifest' = rmanifest /\ manifest' = manifest /\ manifest[cur] = cap
    BY <1>8 DEF PutMarker, localVars
  <2>2. MarkerFor(cap) \in Markers /\ MarkerEntry.manifest = cap /\ MarkerEntry # None
    BY <2>1, RecordAssumption DEF MarkerFor, Markers, MarkerEntry, Succeeded
  <2>3. marker'[cur][MarkerFor(cap)] = MarkerEntry
    BY <2>1, <2>2, <1>8 DEF PutMarker
  <2> QED
    BY <2>1, <2>2, <2>3
<1>9. CASE ConfirmMarker
  BY <1>9 DEF ConfirmMarker, localVars, remoteVars
<1>10. CASE \/ CheckDestination \/ RequestFails \/ PersistManifestCommit
  BY <1>1, <1>10 DEF CheckDestination, RequestFails, PersistManifestCommit
<1>11. CASE Run \/ Reconciliation \/ CorrectParser \/ Crash
  BY <1>1, <1>11, OutsideUploader
<1>12. CASE Validation
  BY <1>12 DEF Quiet, Validation, ReadHistory, RewriteHistory, StatCommit, RewriteManifest,
       localVars, remoteVars, procVars
<1>13. CASE UNCHANGED vars
  BY <1>13 DEF vars, localVars, remoteVars, procVars
<1> QED
  BY <1>2, <1>3, <1>4, <1>5, <1>6, <1>7, <1>8, <1>9, <1>10, <1>11, <1>12, <1>13
     DEF Next, DirectUpload

\* Only the uploader pins a manifest, and a run with a pinned manifest is left
\* alone, locally and in its markers.
LEMMA PinnedUntouched ==
  ASSUME PointInv, [Next]_vars, NEW r \in Runs
  PROVE  /\ commit[r] # None => /\ commit'[r] = commit[r]
                                /\ manifest'[r] = manifest[r]
                                /\ marker'[r] = marker[r]
         /\ commit'[r] # commit[r] => PersistManifestCommit /\ r = cur
<1> DEFINE Goal == /\ commit[r] # None => /\ commit'[r] = commit[r]
                                          /\ manifest'[r] = manifest[r]
                                          /\ marker'[r] = marker[r]
                   /\ commit'[r] # commit[r] => PersistManifestCommit /\ r = cur
<1> SUFFICES Goal
  OBVIOUS
<1> USE DEF PointInv, HolderInv, TypeInv, TypeOK, HolderTypeOK, LocalTypeOK, RemoteTypeOK,
            Unpinned
<1>1. CASE commit' = commit /\ manifest' = manifest /\ marker' = marker
  BY <1>1
<1>2. ASSUME NEW s \in Runs, StartRun(s) \/ StartRunFails(s) PROVE Goal
  BY <1>2 DEF StartRun, StartRunFails, OwnRun, remoteVars
<1>3. CASE WritePreUploadManifest \/ PublishManifest \/ PutMarker
           \/ PersistManifestCommit
  BY <1>3 DEF WritePreUploadManifest, PublishManifest, PutMarker,
       PersistManifestCommit, localVars, remoteVars
<1>4. CASE PersistFinalMetadata
  BY <1>4 DEF PersistFinalMetadata, FinalManifest, remoteVars
<1>5. CASE WriteReconciled \/ ReconcileRefused \/ UploadFailsInReconcile
  BY <1>5 DEF WriteReconciled, ReconcileRefused, UploadFailsInReconcile, remoteVars
<1>6. CASE \/ CaptureLogical \/ CaptureAborts \/ SkipLogical \/ FinishCapture
           \/ SkipUpload \/ StartDirectUpload \/ LegacyUpload \/ UploadSucceeds
           \/ UploadFailsInRun \/ SaveScheduleState \/ AppendRunRecord
           \/ (\E s \in Runs : Reconcile(s)) \/ CorrectParser \/ Crash
  <2>1. commit' = commit /\ manifest' = manifest /\ marker' = marker
    BY <1>6 DEF CaptureLogical, CaptureAborts, SkipLogical, FinishCapture,
         SkipUpload, StartDirectUpload, LegacyUpload, UploadSucceeds,
         UploadFailsInRun, SaveScheduleState, AppendRunRecord, Reconcile,
         CorrectParser, Crash, localVars, remoteVars
  <2> QED
    BY <1>1, <2>1
<1>7. CASE \/ CheckDestination \/ RequestFails \/ ReadCapture \/ UploadDraftManifest
           \/ (\E d \in Databases : UploadArtifact(d) \/ UploadArtifactFails(d))
           \/ UploadManifest \/ CheckInventory \/ ConfirmMarker
  <2>1. commit' = commit /\ manifest' = manifest /\ marker' = marker
    BY <1>7 DEF CheckDestination, RequestFails, ReadCapture, UploadDraftManifest,
         UploadArtifact, UploadArtifactFails, UploadManifest, CheckInventory,
         ConfirmMarker, localVars, remoteVars
  <2> QED
    BY <1>1, <2>1
<1>8. CASE Validation
  BY <1>8 DEF Quiet, Validation, ReadHistory, RewriteHistory, StatCommit,
       RewriteManifest, localVars, remoteVars
<1>9. CASE UNCHANGED vars
  BY <1>1, <1>9 DEF vars, localVars, remoteVars
<1> QED
  BY <1>2, <1>3, <1>4, <1>5, <1>6, <1>7, <1>8, <1>9
     DEF Next, Run, DirectUpload, Reconciliation

LEMMA PinnedStep == PointInv /\ [Next]_vars => PinnedIsPublished'
<1> SUFFICES ASSUME PointInv, [Next]_vars, NEW r \in Runs, commit'[r] # None
             PROVE  /\ manifest'[r] = commit'[r]
                    /\ \E m \in Markers : /\ marker'[r][m] # None
                                          /\ marker'[r][m].manifest = commit'[r]
  BY DEF PinnedIsPublished
<1> USE DEF PointInv, HolderInv, TypeInv, TypeOK, HolderTypeOK, LocalTypeOK, RemoteTypeOK
<1>1. CASE commit[r] # None
  <2>1. /\ manifest[r] = commit[r]
        /\ \E m \in Markers : marker[r][m] # None /\ marker[r][m].manifest = commit[r]
    BY <1>1 DEF PinnedIsPublished
  <2>2. commit'[r] = commit[r] /\ manifest'[r] = manifest[r] /\ marker'[r] = marker[r]
    BY <1>1, PinnedUntouched
  <2> QED
    BY <2>1, <2>2
<1>2. CASE commit[r] = None
  <2>1. PersistManifestCommit /\ r = cur
    BY <1>2, PinnedUntouched
  <2> QED
    BY <1>2, <2>1 DEF PersistManifestCommit, InFlight, remoteVars
<1> QED
  BY <1>1, <1>2

LEMMA InitPoint == Init => PointInv
<1> SUFFICES ASSUME Init PROVE PointInv
  OBVIOUS
<1>1. HolderInv
  BY InitHolder
<1> QED
  BY <1>1 DEF Init, PointInv, Quiet, InFlight, PinnedIsPublished

LEMMA QuietStep == ~Validating /\ Quiet /\ [Next]_vars => Quiet'
<1> SUFFICES ASSUME ~Validating, Quiet, [Next]_vars PROVE Quiet'
  OBVIOUS
<1>1. CASE Validation
  BY <1>1 DEF Quiet, Validation, ReadHistory, RewriteHistory, StatCommit,
       RewriteManifest
<1>2. CASE Run \/ Reconciliation \/ CorrectParser \/ Crash
  BY <1>2 DEF Quiet, Run, StartRun, StartRunFails, CaptureLogical, CaptureAborts,
       SkipLogical, FinishCapture, WritePreUploadManifest, SkipUpload,
       StartDirectUpload, LegacyUpload, UploadSucceeds, UploadFailsInRun,
       SaveScheduleState, PersistFinalMetadata, AppendRunRecord, Reconciliation,
       Reconcile, WriteReconciled, ReconcileRefused, UploadFailsInReconcile,
       CorrectParser, Crash, validVars
<1>3. CASE DirectUpload
  BY <1>3 DEF Quiet, DirectUpload, CheckDestination, RequestFails, ReadCapture,
       UploadDraftManifest, UploadArtifact, UploadArtifactFails, PublishManifest,
       UploadManifest, CheckInventory, PutMarker, ConfirmMarker,
       PersistManifestCommit, validVars
<1>4. CASE UNCHANGED vars
  BY <1>4 DEF Quiet, vars, validVars
<1> QED
  BY <1>1, <1>2, <1>3, <1>4 DEF Next

LEMMA PointInvStep ==
  ASSUME ~Validating, PointInv, [Next]_vars PROVE PointInv'
<1>1. HolderInv'
  BY HolderInvStep DEF PointInv
<1>2. Quiet'
  BY QuietStep DEF PointInv
<1> QED
  BY <1>1, <1>2, InFlightStep, PinnedStep DEF PointInv

\* What manifest-commit.json pins is what was uploaded and marked, and the local
\* manifest never departs from it.
THEOREM PinnedAlwaysPublished ==
  ASSUME ~Validating PROVE Spec => []PinnedIsPublished
<1>1. PointInv /\ [Next]_vars => PointInv'
  BY PointInvStep
<1>2. Spec => []PointInv
  BY InitPoint, <1>1, PTL DEF Spec
<1>3. PointInv => PinnedIsPublished
  BY DEF PointInv
<1> QED
  BY <1>2, <1>3, PTL

-----------------------------------------------------------------------------
(* What the history claims.                                                  *)

\* Two records of the same capture, whatever the bookkeeping.
Same(r, s) == r.result = s.result /\ r.status = s.status /\ r.reason = s.reason

\* From the verification to the upload a success is a capture that verifies.
Verified ==
  pc \in Transfer \cup {"premanifest", "upload", "reconcile"} /\ rec.status = "success"
    => verifyLogicalCapture(rec, parserFixed)

\* The uploader reads from the manifest the capture that is in memory.
Matched ==
  /\ pc \in {"upload", "head", "read"} => Same(manifest[cur], rec)
  /\ pc \in {"draft", "artifacts", "manifest", "inventory", "marker", "confirm", "commit"}
       => Same(cap, rec)

\* Nothing is claimed before the upload has returned, and then only with the
\* marker in place.
Claimed ==
  /\ pc \in Transfer \cup {"capture", "finish", "premanifest", "upload", "reconcile"}
       => rec.upload # "success"
  /\ pc \in {"commit", "uploaded"} /\ rec.status = "success"
       => marker[cur]["COMPLETED"] # None
  /\ pc \in {"state", "final", "append"} /\ OffsiteSuccess(rec)
       => marker[cur]["COMPLETED"] # None

ClaimInv == PointInv /\ Verified /\ Matched /\ Claimed /\ SuccessMeansCompleted

LEMMA SameVerifies ==
  ASSUME NEW r, NEW s, NEW fixed, Same(r, s)
  PROVE  verifyLogicalCapture(r, fixed) <=> verifyLogicalCapture(s, fixed)
  BY DEF Same, verifyLogicalCapture, Whole, Failed, FullScope, Expected, Verifiable

\* What the bookkeeping does to a record.
LEMMA Noted ==
  ASSUME NEW r \in Record, NEW m
  PROVE  Same(setManifestMetadata(r, m), r) /\ setManifestMetadata(r, m).upload = r.upload
  BY DEF setManifestMetadata, Record, Same

LEMMA Succeeds ==
  ASSUME NEW r \in Record, NEW m
  PROVE  Same(setManifestMetadata(markLogicalUploadSuccess(r), m), r)
  BY DEF setManifestMetadata, markLogicalUploadSuccess, Record, Same

LEMMA Fails ==
  ASSUME NEW r \in Record
  PROVE  /\ markLogicalUploadFailure(r).status = "failed"
         /\ [r EXCEPT !.status = "failed", !.reason = "other"].status = "failed"
         /\ [r EXCEPT !.status = "failed", !.reason = "other", !.recovery = "FAILED"].status = "failed"
         /\ [r EXCEPT !.upload = "pending", !.status = "partial", !.reason = "other"].status = "partial"
         /\ [r EXCEPT !.upload = "skipped"].upload = "skipped"
  BY DEF markLogicalUploadFailure, Record

LEMMA ProbedAgain ==
  ASSUME NEW r \in Record, NEW m
  PROVE  LET s == setManifestMetadata([Probe(r) EXCEPT !.upload = "none"], m) IN
         Same(s, Probe(r)) /\ s.upload = "none"
<1>1. Probe(r).result = r.result /\ Probe(r).status = "success" /\ Probe(r).reason = "none"
  BY DEF Probe, Record
<1> QED
  BY <1>1, ProbeKept DEF Same

\* A marker that is there stays.
LEMMA MarkersStay ==
  ASSUME PointInv, [Next]_vars, NEW r \in Runs, marker[r]["COMPLETED"] # None
  PROVE  marker'[r]["COMPLETED"] # None
  BY CompletedUntouched DEF PointInv, HolderInv

LEMMA ClaimStep ==
  ASSUME ~Validating, "premanifest" \notin Faults, ClaimInv, [Next]_vars
  PROVE  Verified' /\ Matched' /\ Claimed'
<1> USE DEF ClaimInv, Verified, Matched, Claimed, Transfer
<1>0. /\ rec \in Record /\ cap \in Record /\ (pc # "idle" => cur \in Runs)
      /\ manifest \in [Runs -> Record \cup {None}]
      /\ marker \in [Runs -> [Markers -> Inventory \cup {None}]] /\ None \notin Record
  BY RecordAssumption DEF PointInv, HolderInv, TypeInv, TypeOK, HolderTypeOK, LocalTypeOK, RemoteTypeOK
<1>k. \A r \in Runs : marker[r]["COMPLETED"] # None => marker'[r]["COMPLETED"] # None
  BY MarkersStay
<1>1. CASE pc' = "idle"
  BY <1>1
<1>2. ASSUME NEW r \in Runs, StartRun(r) PROVE Verified' /\ Matched' /\ Claimed'
  BY <1>2 DEF StartRun, RunningRecord, NewRecord
<1>3. CASE \/ (\E r \in Runs : StartRunFails(r)) \/ CorrectParser
  BY <1>3 DEF StartRunFails, CorrectParser, procVars
<1>4. CASE CaptureLogical \/ CaptureAborts \/ SkipLogical
  BY <1>0, <1>4 DEF CaptureLogical, CaptureAborts, SkipLogical, Record, OffsiteSuccess, localVars
<1>5. CASE FinishCapture
  <2>1. /\ rec'.upload = rec.upload
        /\ mode # "undue" /\ rec'.status = "success"
             => verifyLogicalCapture(rec', parserFixed)
    BY <1>5, FinishedKept DEF PointInv, HolderInv
  <2> QED
    BY <1>5, <2>1 DEF FinishCapture, OffsiteSuccess, localVars
<1>6. CASE WritePreUploadManifest
  <2>1. rec' = setManifestMetadata(rec, mode) /\ manifest'[cur] = rec' /\ pc' = "upload"
        /\ parserFixed' = parserFixed /\ cur' = cur /\ pc = "premanifest"
    BY <1>0, <1>6 DEF WritePreUploadManifest, MayFail
  <2>2. Same(rec', rec) /\ rec'.upload = rec.upload
    BY <1>0, <2>1, Noted
  <2> QED
    BY <2>1, <2>2, SameVerifies DEF Same
<1>7. CASE SkipUpload \/ StartDirectUpload
  BY <1>0, <1>7 DEF SkipUpload, StartDirectUpload, OffsiteSuccess, Record, localVars
<1>8. CASE LegacyUpload
  <2>1. pc' = "state" /\ rec'.status # "success"
    BY <1>0, <1>8, Fails DEF LegacyUpload
  <2> QED
    BY <2>1 DEF OffsiteSuccess
<1>9. CASE CheckDestination \/ RequestFails
  BY <1>9 DEF CheckDestination, RequestFails, GiveUp, localVars
<1>10. CASE ReadCapture
  BY <1>10 DEF ReadCapture, GiveUp, localVars
<1>11. CASE UploadDraftManifest
  BY <1>11 DEF UploadDraftManifest, GiveUp, localVars
<1>12. CASE \E d \in Databases : UploadArtifact(d) \/ UploadArtifactFails(d)
  BY <1>12 DEF UploadArtifact, UploadArtifactFails, GiveUp, localVars
<1>13. CASE PublishManifest
  <2>1. Same(cap', cap) /\ rec' = rec /\ parserFixed' = parserFixed
        /\ pc' \in {"manifest", "uploadFailed"} /\ pc = "artifacts"
    BY <1>0, <1>13, Succeeds DEF PublishManifest, GiveUp
  <2> QED
    BY <2>1 DEF Same
<1>14. CASE UploadManifest \/ CheckInventory
  BY <1>14 DEF UploadManifest, CheckInventory, GiveUp, localVars, remoteVars
<1>15. CASE PutMarker
  BY <1>15 DEF PutMarker, GiveUp, localVars
<1>16. CASE ConfirmMarker
  <2>1. /\ pc = "confirm" /\ rec' = rec /\ cap' = cap /\ cur' = cur
        /\ marker' = marker /\ parserFixed' = parserFixed
        /\ \/ pc' = "commit" /\ marker[cur][MarkerFor(cap)] # None
           \/ pc' = "uploadFailed"
    BY <1>16 DEF ConfirmMarker, localVars, remoteVars
  <2>2. rec.status = "success" => MarkerFor(cap) = "COMPLETED"
    BY <2>1, SameVerifies DEF MarkerFor, Same
  <2> QED
    BY <2>1, <2>2
<1>17. CASE PersistManifestCommit
  BY <1>17 DEF PersistManifestCommit, GiveUp, remoteVars
<1>18. CASE UploadSucceeds
  <2>1. /\ pc = "uploaded" /\ pc' \in {"state", "final"} /\ cur' = cur /\ marker' = marker
        /\ rec'.status = rec.status
    BY <1>0, <1>18, Succeeds DEF UploadSucceeds, remoteVars, Same
  <2> QED
    BY <2>1 DEF OffsiteSuccess
<1>19. CASE UploadFailsInRun
  <2>1. pc' = "state" /\ rec'.status = "failed"
    BY <1>0, <1>19, Fails DEF UploadFailsInRun
  <2> QED
    BY <2>1 DEF OffsiteSuccess
<1>20. CASE SaveScheduleState
  <2>1. /\ pc = "state" /\ pc' = "final" /\ cur' = cur /\ marker' = marker
        /\ rec' = rec \/ rec'.status = "failed"
    BY <1>0, <1>20, Fails DEF SaveScheduleState, remoteVars
  <2> QED
    BY <2>1 DEF OffsiteSuccess
<1>21. CASE PersistFinalMetadata
  <2> DEFINE new == setManifestMetadata(rec, mode)
  <2>1. new \in Record /\ new.status = rec.status /\ new.upload = rec.upload
    BY <1>0, Noted, RecordsStayRecords DEF Same
  <2> HIDE DEF new
  <2>2. \/ pc' = "idle"
        \/ /\ pc = "final" /\ pc' = "append" /\ cur' = cur /\ marker' = marker
           /\ rec' \in {new, [new EXCEPT !.status = "failed", !.reason = "other",
                                         !.recovery = "FAILED"]}
    BY <1>21 DEF PersistFinalMetadata, Release, remoteVars, new
  <2>3. pc' = "idle" \/ /\ pc = "final" /\ pc' = "append" /\ cur' = cur /\ marker' = marker
                        /\ OffsiteSuccess(rec') => OffsiteSuccess(rec)
    BY <2>1, <2>2, Fails DEF OffsiteSuccess
  <2> QED
    BY <1>1, <2>3
<1>22. CASE AppendRunRecord \/ UploadFailsInReconcile \/ ReconcileRefused \/ Crash
  BY <1>1, <1>22 DEF AppendRunRecord, UploadFailsInReconcile, ReconcileRefused, Crash, Release
<1>23. ASSUME NEW r \in Runs, Reconcile(r) PROVE Verified' /\ Matched' /\ Claimed'
  <2>1. /\ manifest[r] \in Record /\ verifyLogicalCapture(Probe(manifest[r]), parserFixed)
        /\ pc' = "reconcile" /\ parserFixed' = parserFixed
        /\ \E m \in Modes :
             rec' = setManifestMetadata([Probe(manifest[r]) EXCEPT !.upload = "none"], m)
    BY <1>0, <1>23 DEF Reconcile, localVars
  <2>2. Same(rec', Probe(manifest[r])) /\ rec'.upload = "none"
    BY <2>1, ProbedAgain
  <2> QED
    BY <2>1, <2>2, SameVerifies
<1>24. CASE WriteReconciled
  BY <1>0, <1>24 DEF WriteReconciled, Same
<1>25. CASE Validation \/ UNCHANGED vars
  <2>1. CASE UNCHANGED vars
    BY <2>1 DEF vars, localVars, remoteVars, procVars, MarkerFor
  <2>2. CASE Validation
    BY <2>2 DEF Validation, ReadHistory, RewriteHistory, StatCommit, RewriteManifest,
                PointInv, Quiet
  <2> QED
    BY <1>25, <2>1, <2>2
<1> QED
  BY <1>2, <1>3, <1>4, <1>5, <1>6, <1>7, <1>8, <1>9, <1>10, <1>11, <1>12, <1>13, <1>14,
     <1>15, <1>16, <1>17, <1>18, <1>19, <1>20, <1>21, <1>22, <1>23, <1>24, <1>25
  DEF Next, Run, DirectUpload, Reconciliation

\* The history changes in the last step of a run or reconciliation only.
LEMMA HistoryFrame ==
  ASSUME ~Validating, PointInv, [Next]_vars
  PROVE  \/ history' = history
         \/ /\ AppendRunRecord /\ pc = "append" /\ cur \in Runs
            /\ history' = [history EXCEPT ![cur] = rec]
<1>1. CASE AppendRunRecord
  <2>1. pc = "append" /\ cur \in Runs
    BY <1>1 DEF AppendRunRecord, PointInv, HolderInv, TypeInv, TypeOK, HolderTypeOK
  <2>2. history \in [Runs -> Record \cup {None}]
    BY DEF PointInv, HolderInv, TypeInv, TypeOK, LocalTypeOK
  <2>3. \E written \in {history[cur], rec} : history' = [history EXCEPT ![cur] = written]
    BY <1>1 DEF AppendRunRecord
  <2>4. [history EXCEPT ![cur] = history[cur]] = history
    BY <2>1, <2>2
  <2> QED
    BY <1>1, <2>1, <2>3, <2>4
<1>2. CASE Validation
  BY <1>2 DEF Validation, ReadHistory, RewriteHistory, StatCommit, RewriteManifest,
              PointInv, Quiet
<1>3. CASE UNCHANGED vars
  BY <1>3 DEF vars, localVars
<1>4. CASE DirectUpload
  BY <1>4 DEF DirectUpload, CheckDestination, RequestFails, ReadCapture, UploadDraftManifest,
     UploadArtifact, UploadArtifactFails, PublishManifest, UploadManifest, CheckInventory,
     PutMarker, ConfirmMarker, PersistManifestCommit, localVars
<1>5. CASE Reconciliation \/ CorrectParser \/ Crash
  BY <1>5 DEF Reconciliation, Reconcile, WriteReconciled, ReconcileRefused,
     UploadFailsInReconcile, CorrectParser, Crash, localVars
<1>6. CASE Run /\ ~AppendRunRecord
  BY <1>6 DEF Run, StartRun, StartRunFails, CaptureLogical, CaptureAborts, SkipLogical,
     FinishCapture, WritePreUploadManifest, SkipUpload, StartDirectUpload, LegacyUpload,
     UploadSucceeds, UploadFailsInRun, SaveScheduleState, PersistFinalMetadata, localVars
<1> QED
  BY <1>1, <1>2, <1>3, <1>4, <1>5, <1>6 DEF Next

\* The history line is written last, with what the record claimed.
LEMMA HistoryStep ==
  ASSUME ~Validating, ClaimInv, [Next]_vars
  PROVE  SuccessMeansCompleted'
<1>1. \A r \in Runs : marker[r]["COMPLETED"] # None => marker'[r]["COMPLETED"] # None
  BY MarkersStay DEF ClaimInv
<1>2. \/ history' = history
      \/ /\ AppendRunRecord /\ pc = "append" /\ cur \in Runs
         /\ history' = [history EXCEPT ![cur] = rec]
  BY HistoryFrame DEF ClaimInv
<1>3. history \in [Runs -> Record \cup {None}]
  BY DEF ClaimInv, PointInv, HolderInv, TypeInv, TypeOK, LocalTypeOK
<1>4. CASE history' = history
  BY <1>1, <1>4 DEF ClaimInv, SuccessMeansCompleted
<1>5. CASE pc = "append" /\ cur \in Runs /\ history' = [history EXCEPT ![cur] = rec]
  BY <1>1, <1>3, <1>5 DEF ClaimInv, Claimed, SuccessMeansCompleted
<1> QED
  BY <1>2, <1>4, <1>5

\* A run that the history reports as a success with a verified upload has its
\* COMPLETED marker.
THEOREM SuccessAlwaysCompleted ==
  ASSUME ~Validating, "premanifest" \notin Faults
  PROVE  Spec => []SuccessMeansCompleted
<1>1. Init => ClaimInv
  <2> SUFFICES ASSUME Init PROVE ClaimInv
    OBVIOUS
  <2>1. PointInv
    BY InitPoint
  <2> QED
    BY <2>1 DEF Init, ClaimInv, Verified, Matched, Claimed, Transfer, SuccessMeansCompleted
<1>2. ClaimInv /\ [Next]_vars => ClaimInv'
  BY ClaimStep, HistoryStep, PointInvStep DEF ClaimInv
<1>3. ClaimInv => SuccessMeansCompleted
  BY DEF ClaimInv
<1> QED
  BY <1>1, <1>2, <1>3, PTL DEF Spec
-----------------------------------------------------------------------------
(* The run history and the schedule state.                                   *)

Success(x) == x # None /\ x.status = "success"

\* The history reports a run once as a success, and then its manifest is one
\* too, which no reconciliation takes up again.
Settled ==
  /\ pc # "idle" => ~Success(history[cur])
  /\ \A r \in Runs : Success(history[r]) => Success(manifest[r])
  /\ pc \in {"uploaded", "state", "final"} /\ commit[cur] # None /\ rec.status = "success"
       => Success(manifest[cur])
  /\ pc = "append" /\ rec.status = "success" => Success(manifest[cur])

\* A step changes the manifest of the run at hand only, or of a fresh one.
LEMMA ManifestFrame ==
  ASSUME PointInv, ~Validating, [Next]_vars, NEW r \in used, manifest'[r] # manifest[r]
  PROVE  pc # "idle" /\ r = cur
<1>0. /\ r \in Runs /\ (pc # "idle" => cur \in Runs)
      /\ manifest \in [Runs -> Record \cup {None}] /\ vpc = "idle"
  BY DEF PointInv, HolderInv, TypeInv, TypeOK, HolderTypeOK, LocalTypeOK, Quiet
<1>1. ASSUME NEW s \in Runs, StartRun(s) \/ StartRunFails(s) PROVE FALSE
  BY <1>0, <1>1 DEF StartRun, StartRunFails
<1>2. CASE \/ WritePreUploadManifest \/ PublishManifest \/ UploadFailsInReconcile
           \/ PersistFinalMetadata \/ WriteReconciled \/ ReconcileRefused
  <2>1. pc # "idle" /\ \E x : manifest' = [manifest EXCEPT ![cur] = x] \/ manifest' = manifest
    BY <1>2 DEF WritePreUploadManifest, PublishManifest, UploadFailsInReconcile,
       PersistFinalMetadata, WriteReconciled, ReconcileRefused
  <2> QED
    BY <1>0, <2>1
<1>3. CASE \/ CaptureLogical \/ CaptureAborts \/ SkipLogical \/ FinishCapture
           \/ SkipUpload \/ StartDirectUpload \/ LegacyUpload \/ UploadSucceeds
           \/ UploadFailsInRun \/ SaveScheduleState \/ AppendRunRecord
           \/ (\E s \in Runs : Reconcile(s)) \/ CorrectParser \/ Crash
  BY <1>3 DEF CaptureLogical, CaptureAborts, SkipLogical, FinishCapture,
     SkipUpload, StartDirectUpload, LegacyUpload, UploadSucceeds,
     UploadFailsInRun, SaveScheduleState, AppendRunRecord, Reconcile, CorrectParser,
     Crash, localVars
<1>4. CASE DirectUpload /\ ~PublishManifest
  BY <1>4 DEF DirectUpload, CheckDestination, RequestFails, ReadCapture,
     UploadDraftManifest, UploadArtifact, UploadArtifactFails, UploadManifest,
     CheckInventory, PutMarker, ConfirmMarker, PersistManifestCommit, localVars
<1>5. CASE Validation
  BY <1>0, <1>5 DEF Validation, ReadHistory, RewriteHistory, StatCommit, RewriteManifest
<1>6. CASE UNCHANGED vars
  BY <1>6 DEF vars, localVars
<1> QED
  BY <1>1, <1>2, <1>3, <1>4, <1>5, <1>6 DEF Next, Run, Reconciliation

\* A step of the holder keeps the run at hand, starts one or ends it.
LEMMA HolderFrame ==
  ASSUME HolderInv, [Next]_vars, pc' # "idle"
  PROVE  \/ pc # "idle" /\ cur' = cur /\ job' = job /\ mode' = mode
         \/ \E r \in Runs : (StartRun(r) \/ Reconcile(r)) /\ cur' = r
<1>1. CASE Run
  BY <1>1 DEF Run, StartRun, StartRunFails, CaptureLogical, CaptureAborts, SkipLogical,
     FinishCapture, WritePreUploadManifest, SkipUpload, StartDirectUpload, LegacyUpload,
     UploadSucceeds, UploadFailsInRun, SaveScheduleState, PersistFinalMetadata,
     AppendRunRecord, Release, procVars
<1>2. CASE Reconciliation \/ CorrectParser \/ Crash
  BY <1>2 DEF Reconciliation, Reconcile, WriteReconciled, ReconcileRefused,
     UploadFailsInReconcile, CorrectParser, Crash, Release, procVars
<1>3. CASE DirectUpload
  BY <1>3 DEF DirectUpload, CheckDestination, RequestFails, ReadCapture, UploadDraftManifest,
     UploadArtifact, UploadArtifactFails, PublishManifest, UploadManifest, CheckInventory,
     PutMarker, ConfirmMarker, PersistManifestCommit
<1>4. CASE Validation \/ UNCHANGED vars
  BY <1>4 DEF Validation, ReadHistory, RewriteHistory, StatCommit, RewriteManifest, vars,
     procVars
<1> QED
  BY <1>1, <1>2, <1>3, <1>4 DEF Next

\* Between the upload and the end a record may lose its success, not gain it.
LEMMA TailStep ==
  ASSUME HolderInv, [Next]_vars, pc' \in {"uploaded", "state", "final", "append"}
  PROVE  \/ /\ pc \in {"uploaded", "state", "final", "append"}
            /\ rec'.status = "success" => rec.status = "success"
            /\ pc = "append" => pc' = "append"
         \/ PersistManifestCommit
         \/ (CaptureAborts \/ FinishCapture \/ SkipUpload \/ LegacyUpload) /\ UNCHANGED localVars
         \/ UploadFailsInRun /\ rec'.status = "failed"
<1>0. rec \in Record
  BY DEF HolderInv, TypeInv, TypeOK, HolderTypeOK
<1>1. CASE UploadSucceeds
  BY <1>0, <1>1, PublishedKept DEF UploadSucceeds
<1>2. CASE SaveScheduleState
  <2>1. [rec EXCEPT !.status = "failed", !.reason = "other"].status = "failed"
    BY <1>0, FieldsKept
  <2> QED
    BY <1>2, <2>1 DEF SaveScheduleState
<1>3. CASE PersistFinalMetadata
  <2> DEFINE new == setManifestMetadata(rec, mode)
  <2>1. new \in Record /\ new.status = rec.status
    BY <1>0, StatusKept, RecordsStayRecords
  <2> HIDE DEF new
  <2>2. [new EXCEPT !.status = "failed", !.reason = "other", !.recovery = "FAILED"].status
          = "failed"
    BY <2>1, FieldsKept
  <2>3. /\ pc = "final"
        /\ \/ pc' = "idle"
           \/ rec' \in {new, [new EXCEPT !.status = "failed", !.reason = "other",
                                         !.recovery = "FAILED"]}
    BY <1>3 DEF PersistFinalMetadata, Release, new
  <2> QED
    BY <2>1, <2>2, <2>3
<1>4. CASE UploadFailsInRun
  BY <1>0, <1>4, UploadMarksKept DEF UploadFailsInRun
<1>5. CASE CaptureAborts \/ FinishCapture \/ SkipUpload \/ LegacyUpload
  BY <1>5 DEF CaptureAborts, FinishCapture, SkipUpload, LegacyUpload
<1>6. CASE \/ (\E r \in Runs : StartRun(r) \/ StartRunFails(r)) \/ CaptureLogical
           \/ SkipLogical \/ WritePreUploadManifest \/ StartDirectUpload \/ AppendRunRecord
  BY <1>6 DEF StartRun, StartRunFails, CaptureLogical, SkipLogical,
     WritePreUploadManifest, StartDirectUpload, AppendRunRecord, Release, procVars
<1>7. CASE Reconciliation \/ CorrectParser \/ Crash
  BY <1>7 DEF Reconciliation, Reconcile, WriteReconciled, ReconcileRefused,
     UploadFailsInReconcile, CorrectParser, Crash, Release, procVars
<1>8. CASE DirectUpload
  BY <1>8 DEF DirectUpload, CheckDestination, RequestFails, ReadCapture, UploadDraftManifest,
     UploadArtifact, UploadArtifactFails, PublishManifest, UploadManifest, CheckInventory,
     PutMarker, ConfirmMarker, GiveUp
<1>9. CASE Validation \/ UNCHANGED vars
  BY <1>9 DEF Validation, ReadHistory, RewriteHistory, StatCommit, RewriteManifest, vars,
     procVars
<1> QED
  BY <1>1, <1>2, <1>3, <1>4, <1>5, <1>6, <1>7, <1>8, <1>9 DEF Next, Run

LEMMA AppendStep ==
  ASSUME PointInv, [Next]_vars, pc' = "append"
  PROVE  \/ PersistFinalMetadata
         \/ pc = "append" /\ manifest' = manifest /\ rec' = rec /\ cur' = cur
<1>1. CASE Run
  BY <1>1 DEF Run, StartRun, StartRunFails, CaptureLogical, CaptureAborts, SkipLogical,
     FinishCapture, WritePreUploadManifest, SkipUpload, StartDirectUpload, LegacyUpload,
     UploadSucceeds, UploadFailsInRun, SaveScheduleState, AppendRunRecord, Release, procVars
<1>2. CASE Reconciliation \/ CorrectParser \/ Crash
  BY <1>2 DEF Reconciliation, Reconcile, WriteReconciled, ReconcileRefused,
     UploadFailsInReconcile, CorrectParser, Crash, Release, procVars
<1>3. CASE DirectUpload
  BY <1>3 DEF DirectUpload, CheckDestination, RequestFails, ReadCapture, UploadDraftManifest,
     UploadArtifact, UploadArtifactFails, PublishManifest, UploadManifest, CheckInventory,
     PutMarker, ConfirmMarker, PersistManifestCommit, GiveUp
<1>4. CASE Validation \/ UNCHANGED vars
  BY <1>4 DEF Validation, ReadHistory, RewriteHistory, StatCommit, RewriteManifest, vars,
     procVars, localVars, PointInv, Quiet
<1> QED
  BY <1>1, <1>2, <1>3, <1>4 DEF Next

LEMMA SettledStep ==
  ASSUME ~Validating, ClaimInv, Settled, [Next]_vars
  PROVE  Settled'
<1>0. /\ rec \in Record /\ cap \in Record /\ (pc # "idle" => cur \in Runs)
      /\ manifest \in [Runs -> Record \cup {None}]
      /\ commit \in [Runs -> Record \cup {None}]
      /\ history \in [Runs -> Record \cup {None}] /\ None \notin Record
      /\ PointInv /\ HolderInv
  BY RecordAssumption DEF ClaimInv, PointInv, HolderInv, TypeInv, TypeOK, HolderTypeOK,
     LocalTypeOK
<1>h. \/ history' = history
      \/ /\ AppendRunRecord /\ pc = "append" /\ cur \in Runs
         /\ history' = [history EXCEPT ![cur] = rec]
  BY <1>0, HistoryFrame
<1>f. pc' # "idle" =>
        \/ pc # "idle" /\ cur' = cur
        \/ \E r \in Runs : (StartRun(r) \/ Reconcile(r)) /\ cur' = r
  BY <1>0, HolderFrame
<1>1. pc' # "idle" => ~Success(history'[cur'])
  <2> SUFFICES ASSUME pc' # "idle" PROVE ~Success(history'[cur'])
    OBVIOUS
  <2>1. history' = history
    BY <1>h DEF AppendRunRecord, Release
  <2>2. CASE pc # "idle" /\ cur' = cur
    BY <2>1, <2>2 DEF Settled
  <2>3. ASSUME NEW r \in Runs, StartRun(r), cur' = r PROVE ~Success(history'[cur'])
    BY <1>0, <2>1, <2>3 DEF StartRun, HolderInv, OwnRun, Success
  <2>4. ASSUME NEW r \in Runs, Reconcile(r), cur' = r PROVE ~Success(history'[cur'])
    BY <2>1, <2>4 DEF Reconcile, Reconcilable, Settled, Success
  <2> QED
    BY <1>f, <2>2, <2>3, <2>4
<1>2. ASSUME NEW r \in Runs, Success(history'[r]) PROVE Success(manifest'[r])
  <2>1. CASE history'[r] = history[r]
    <3>1. r \in used /\ Success(history[r]) /\ Success(manifest[r])
      BY <1>0, <1>2, <2>1 DEF HolderInv, OwnRun, Success, Settled
    <3>2. manifest'[r] = manifest[r]
      BY <1>0, <3>1, ManifestFrame DEF Settled
    <3> QED
      BY <3>1, <3>2
  <2>2. CASE history'[r] # history[r]
    <3>1. AppendRunRecord /\ pc = "append" /\ r = cur /\ history'[r] = rec
      BY <1>0, <1>h, <2>2
    <3>2. rec.status = "success" /\ manifest' = manifest
      BY <1>2, <3>1 DEF Success, AppendRunRecord
    <3> QED
      BY <3>1, <3>2 DEF Settled
  <2> QED
    BY <2>1, <2>2
<1>3. ASSUME pc' \in {"uploaded", "state", "final"}, commit'[cur'] # None,
             rec'.status = "success"
      PROVE  Success(manifest'[cur'])
  <2>1. CASE /\ pc \in {"uploaded", "state", "final", "append"}
             /\ rec'.status = "success" => rec.status = "success"
             /\ pc = "append" => pc' = "append"
    <3>1. cur' = cur /\ cur \in Runs
      BY <1>0, <1>3, <1>f, <2>1 DEF StartRun, Reconcile
    <3>2. commit'[cur] = commit[cur]
      BY <1>0, <2>1, <3>1, PinsStay DEF PersistManifestCommit
    <3>3. Success(manifest[cur])
      BY <1>3, <2>1, <3>1, <3>2 DEF Settled
    <3>4. manifest'[cur] = manifest[cur]
      BY <1>0, <1>3, <3>1, <3>2, PinnedUntouched
    <3> QED
      BY <3>1, <3>3, <3>4
  <2>2. CASE PersistManifestCommit
    <3>1. /\ pc = "commit" /\ cur' = cur /\ manifest' = manifest /\ rec' = rec
          /\ manifest[cur] = cap
      BY <2>2 DEF PersistManifestCommit, ClaimInv, PointInv, InFlight
    <3>2. cap.status = rec.status
      BY <3>1 DEF ClaimInv, Matched, Same
    <3> QED
      BY <1>0, <1>3, <3>1, <3>2 DEF Success
  <2>3. CASE (CaptureAborts \/ FinishCapture \/ SkipUpload \/ LegacyUpload) /\ UNCHANGED localVars
    <3>1. pc \in {"capture", "finish", "upload"} /\ cur' = cur /\ commit' = commit
      BY <2>3 DEF CaptureAborts, FinishCapture, SkipUpload, LegacyUpload, localVars
    <3> QED
      BY <1>0, <1>3, <3>1 DEF HolderInv, Unpinned
  <2> QED
    BY <1>0, <1>3, <2>1, <2>2, <2>3, TailStep
<1>4. ASSUME pc' = "append", rec'.status = "success" PROVE Success(manifest'[cur'])
  <2>1. CASE pc = "append" /\ manifest' = manifest /\ rec' = rec /\ cur' = cur
    BY <1>4, <2>1 DEF Settled
  <2>2. CASE PersistFinalMetadata
    <3> DEFINE new == setManifestMetadata(rec, mode)
    <3>1. new \in Record /\ new.status = rec.status
      BY <1>0, StatusKept, RecordsStayRecords
    <3> HIDE DEF new
    <3>2. [new EXCEPT !.status = "failed", !.reason = "other", !.recovery = "FAILED"].status
            = "failed"
      BY <3>1, FieldsKept
    <3>3. /\ pc = "final" /\ cur' = cur
          /\ \/ rec' = new /\ manifest' = [manifest EXCEPT ![cur] = FinalManifest(new)]
             \/ rec' = [new EXCEPT !.status = "failed", !.reason = "other",
                                   !.recovery = "FAILED"]
      BY <1>4, <2>2 DEF PersistFinalMetadata, Release, new
    <3>4. rec' = new /\ manifest'[cur] = FinalManifest(new) /\ new.status = "success"
      BY <1>0, <1>4, <3>2, <3>3
    <3>5. CASE commit[cur] = None
      BY <1>0, <3>1, <3>3, <3>4, <3>5 DEF FinalManifest, Success
    <3>6. CASE commit[cur] # None
      BY <3>1, <3>3, <3>4, <3>6 DEF FinalManifest, Settled
    <3> QED
      BY <3>5, <3>6
  <2> QED
    BY <1>0, <1>4, <2>1, <2>2, AppendStep
<1> QED
  BY <1>1, <1>2, <1>3, <1>4 DEF Settled

ReportInv == WholeInv /\ ClaimInv /\ Settled

LEMMA ReportInvStep ==
  ASSUME ~Validating, "premanifest" \notin Faults, ReportInv, [Next]_vars
  PROVE  ReportInv'
  BY WholeInvStep, PointInvStep, ClaimStep, HistoryStep, SettledStep
  DEF ReportInv, ClaimInv

LEMMA InitReport == Init => ReportInv
<1> SUFFICES ASSUME Init PROVE ReportInv
  OBVIOUS
<1>1. WholeInv /\ PointInv
  BY InitWhole, InitPoint
<1>2. Verified /\ Matched /\ Claimed /\ SuccessMeansCompleted
  BY DEF Init, Verified, Matched, Claimed, Transfer, SuccessMeansCompleted
<1>3. Settled
  BY DEF Init, Settled, Success
<1> QED
  BY <1>1, <1>2, <1>3 DEF ReportInv, ClaimInv

\* A completed point holds databases.
LEMMA PublishedPoints ==
  ASSUME TypeOK, CompletedIsWhole, NEW r \in Runs
  PROVE  /\ Published(r) \in SUBSET Databases
         /\ marker[r]["COMPLETED"] # None <=> Published(r) # {}
  BY DEF Published, CompletedIsWhole, PointIsWhole, TypeOK, RemoteTypeOK, Inventory, Markers

\* A step that completes a point publishes it whole, and reports nothing.
LEMMA PublishStep ==
  ASSUME ReportInv, ReportInv', ~Validating, [Next]_vars, marker' # marker
  PROVE  [Point!Next]_(Point!vars)
<1>0. /\ TypeOK /\ TypeOK' /\ CompletedIsWhole /\ CompletedIsWhole' /\ PointInv
      /\ HeadChecked
  BY DEF ReportInv, WholeInv, ClaimInv, PointInv, HolderInv, TypeInv
<1>1. PutMarker
  BY RemoteFrame DEF remoteVars, UploadDraftManifest, UploadManifest, UploadArtifact,
     UploadArtifactFails
<1>2. pc = "marker" /\ cur \in Runs /\ history' = history
  BY <1>0, <1>1 DEF PutMarker, localVars, TypeOK, HolderTypeOK
<1>c. PICK s \in Runs : s = cur
  BY <1>2
<1>3. marker[s]["COMPLETED"] = None
  BY <1>0, <1>2, <1>c DEF HeadChecked
<1>4. \A r \in Runs \ {s} : marker'[r] = marker[r]
  BY <1>0, <1>1, <1>c DEF PutMarker, TypeOK, RemoteTypeOK
<1>5. Published(s) = {} /\ Published(s)' \in SUBSET Databases
  <2>1. Published(s) = {}
    BY <1>3 DEF Published
  <2>2. marker'[s]["COMPLETED"] \in Inventory \cup {None}
    BY <1>0 DEF TypeOK, RemoteTypeOK, Markers
  <2>3. Published(s)' \in SUBSET Databases
    BY <2>2 DEF Published, Inventory
  <2> QED
    BY <2>1, <2>3
<1>6. \A r \in Runs : Claim(r)' = Claim(r)
  BY <1>2 DEF Claim
<1>7. \A r \in Runs \ {s} : Published(r)' = Published(r)
  BY <1>4 DEF Published
<1>8. UNCHANGED [r \in Runs |-> Claim(r)]
  BY <1>6
<1>9. [r \in Runs |-> Published(r)]'
        = [[r \in Runs |-> Published(r)] EXCEPT ![s] = Published(s)']
  BY <1>2, <1>7
<1>10. CASE Published(s)' = {}
  BY <1>5, <1>7, <1>8, <1>10 DEF Point!vars
<1>11. CASE Published(s)' # {}
  <2>1. Point!Publish(s)
    BY <1>2, <1>5, <1>8, <1>9, <1>11 DEF Point!Publish
  <2> QED
    BY <1>2, <2>1 DEF Point!Next
<1> QED
  BY <1>10, <1>11

\* The history line reports the run, once as a success and as an offsite one
\* only of a point that is there.
LEMMA ReportStep ==
  ASSUME ReportInv, ReportInv', ~Validating, [Next]_vars, marker' = marker
  PROVE  [Point!Next]_(Point!vars)
<1>0. /\ TypeOK /\ TypeOK' /\ CompletedIsWhole /\ CompletedIsWhole' /\ PointInv
      /\ SuccessMeansCompleted' /\ None \notin Record
  BY RecordAssumption DEF ReportInv, WholeInv, ClaimInv, PointInv, HolderInv, TypeInv
<1>1. \A r \in Runs : Published(r)' = Published(r)
  BY DEF Published
<1>2. UNCHANGED [r \in Runs |-> Published(r)]
  BY <1>1
<1>3. CASE history' = history
  <2>1. \A r \in Runs : Claim(r)' = Claim(r)
    BY <1>3 DEF Claim
  <2> QED
    BY <1>2, <2>1 DEF Point!vars
<1>4. CASE /\ AppendRunRecord /\ pc = "append" /\ cur \in Runs
           /\ history' = [history EXCEPT ![cur] = rec]
  <2>0. PICK s \in Runs : s = cur
    BY <1>4
  <2>1. /\ rec \in Record /\ history \in [Runs -> Record \cup {None}] /\ history'[s] = rec
        /\ \A r \in Runs \ {s} : history'[r] = history[r]
    BY <1>0, <1>4, <2>0 DEF TypeOK, HolderTypeOK, LocalTypeOK
  <2>2. Claim(s) \in {"none", "failure"}
    BY <1>4, <2>0 DEF ReportInv, Settled, Success, Claim
  <2>3. Claim(s)' \in Point!Claims \ {"none"}
    BY <1>0, <2>1 DEF Claim, Point!Claims
  <2>4. Claim(s)' = "offsite" => Published(s) # {}
    <3> SUFFICES ASSUME Claim(s)' = "offsite" PROVE Published(s) # {}
      OBVIOUS
    <3>1. history'[s] # None /\ OffsiteSuccess(history'[s])
      BY DEF Claim, OffsiteSuccess
    <3>2. marker'[s]["COMPLETED"] # None
      BY <1>0, <1>4, <3>1 DEF SuccessMeansCompleted
    <3> QED
      BY <1>0, <1>4, <3>2, PublishedPoints
  <2>5. \A r \in Runs \ {s} : Claim(r)' = Claim(r)
    BY <2>1 DEF Claim
  <2>6. [r \in Runs |-> Claim(r)]' = [[r \in Runs |-> Claim(r)] EXCEPT ![s] = Claim(s)']
    BY <1>4, <2>5
  <2>7. Point!Report(s)
    BY <1>2, <1>4, <2>2, <2>3, <2>4, <2>6 DEF Point!Report
  <2> QED
    BY <1>4, <2>7 DEF Point!Next
<1> QED
  BY <1>0, <1>3, <1>4, HistoryFrame

\* The runner, with its failed writes, lost responses, crashes and repeated
\* uploads, implements the recovery point: it appears whole in one step, stays
\* as it is, and the history claims it only once it is there.
THEOREM ImplementsPoint ==
  ASSUME ~Validating, "premanifest" \notin Faults
  PROVE  Spec => ImplementsRecoveryPoint
<1>1. Init => Point!Init
  BY DEF Init, Point!Init, Published, Claim, Markers
<1>2. ReportInv /\ ReportInv' /\ [Next]_vars => [Point!Next]_(Point!vars)
  BY PublishStep, ReportStep
<1>3. ReportInv /\ [Next]_vars => ReportInv'
  BY ReportInvStep
<1> QED
  BY InitReport, <1>1, <1>2, <1>3, PTL DEF Spec, ImplementsRecoveryPoint, Point!Spec

-----------------------------------------------------------------------------
(* The schedule slot.                                                        *)

Holds(x) ==
  Expected(x) # {} /\ Expected(x) \subseteq Verifiable(x, parserFixed) /\ x.reason # "captured"
Landed(r, x) == marker[r]["COMPLETED"] # None \/ x.upload \in {"none", "skipped"}

\* The run that served the slot keeps a manifest that verifies, and is not
\* taken up again: it has at most its last two steps to go.
SlotKept ==
  LET r == sched.logical IN r # None =>
    /\ r \in used /\ manifest[r] # None /\ Holds(manifest[r]) /\ Landed(r, manifest[r])
    /\ pc # "idle" /\ cur = r =>
         pc \in {"final", "append"} /\ Holds(rec) /\ Landed(r, rec)

\* A due run that is to serve the slot has a capture that verifies and has
\* landed; one that is reported as a success has served it.
SlotDue ==
  /\ pc \in {"uploaded", "state"} /\ mode # "undue" /\ rec.status = "success" =>
       /\ verifyLogicalCapture(rec, parserFixed)
       /\ manifest[cur] # None /\ Holds(manifest[cur]) /\ Landed(cur, manifest[cur])
       /\ pc = "state" => Landed(cur, rec)
  /\ pc \in {"capture", "finish", "premanifest", "upload"} => rec.upload = "none"
  /\ pc = "capture" => rec.status = "failed"
  /\ pc = "upload" => manifest[cur] # None /\ manifest[cur].upload = "none"
  /\ pc \in {"final", "append"} /\ job = "run" /\ mode # "undue" /\ rec.status = "success"
       => sched.logical = cur

SlotInv == ClaimInv /\ SlotKept /\ SlotDue

LEMMA VerifiedHolds ==
  ASSUME NEW x, NEW y, verifyLogicalCapture(x, parserFixed), Same(y, x)
  PROVE  Holds(y)
  BY DEF verifyLogicalCapture, Whole, Same, Holds, Expected, Verifiable

LEMMA HoldsByResult ==
  ASSUME NEW x, NEW y, Holds(x), y.result = x.result, y.reason \in {x.reason, "other"}
  PROVE  Holds(y)
  BY DEF Holds, Expected, Verifiable

\* The parser is corrected between runs.
LEMMA ParserFrame ==
  ASSUME [Next]_vars
  PROVE  \/ parserFixed' = parserFixed
         \/ parserFixed' = TRUE /\ pc = "idle" /\ UNCHANGED procVars
<1>1. CASE CorrectParser
  BY <1>1 DEF CorrectParser
<1>2. CASE Run \/ Reconciliation \/ Validation \/ Crash
  BY <1>2 DEF Run, StartRun, StartRunFails, CaptureLogical, CaptureAborts,
       SkipLogical, FinishCapture, WritePreUploadManifest, SkipUpload,
       StartDirectUpload, LegacyUpload, UploadSucceeds, UploadFailsInRun,
       SaveScheduleState, PersistFinalMetadata, AppendRunRecord, Reconciliation,
       Reconcile, WriteReconciled, ReconcileRefused, UploadFailsInReconcile,
       Validation, ReadHistory, RewriteHistory, StatCommit, RewriteManifest, Crash,
       localVars
<1>3. CASE DirectUpload
  BY <1>3 DEF DirectUpload, CheckDestination, RequestFails, ReadCapture,
       UploadDraftManifest, UploadArtifact, UploadArtifactFails, PublishManifest,
       UploadManifest, CheckInventory, PutMarker, ConfirmMarker, PersistManifestCommit,
       localVars
<1>4. CASE UNCHANGED vars
  BY <1>4 DEF vars, localVars
<1> QED
  BY <1>1, <1>2, <1>3, <1>4 DEF Next

LEMMA HoldsStay ==
  ASSUME [Next]_vars, parserFixed \in BOOLEAN, NEW x, Holds(x)
  PROVE  Expected(x) \subseteq Verifiable(x, parserFixed')
  BY ParserFrame DEF Holds, Expected, Verifiable

LEMMA SchedFrame ==
  ASSUME [Next]_vars, ~SaveScheduleState PROVE sched' = sched
<1>1. CASE Run \/ Reconciliation \/ Validation \/ CorrectParser \/ Crash
  BY <1>1 DEF Run, StartRun, StartRunFails, CaptureLogical, CaptureAborts,
       SkipLogical, FinishCapture, WritePreUploadManifest, SkipUpload,
       StartDirectUpload, LegacyUpload, UploadSucceeds, UploadFailsInRun,
       PersistFinalMetadata, AppendRunRecord, Reconciliation, Reconcile,
       WriteReconciled, ReconcileRefused, UploadFailsInReconcile, Validation,
       ReadHistory, RewriteHistory, StatCommit, RewriteManifest, CorrectParser, Crash,
       localVars
<1>2. CASE DirectUpload
  BY <1>2 DEF DirectUpload, CheckDestination, RequestFails, ReadCapture,
       UploadDraftManifest, UploadArtifact, UploadArtifactFails, PublishManifest,
       UploadManifest, CheckInventory, PutMarker, ConfirmMarker, PersistManifestCommit,
       localVars
<1>3. CASE UNCHANGED vars
  BY <1>3 DEF vars, localVars
<1> QED
  BY <1>1, <1>2, <1>3 DEF Next

\* The last two steps: the record may be failed, its capture stays.
LEMMA LastSteps ==
  ASSUME HolderInv, Quiet, [Next]_vars, pc \in {"final", "append"}
  PROVE  \/ pc' = "idle"
         \/ UNCHANGED <<pc, job, mode, cur, rec, manifest>>
         \/ /\ pc' = "append" /\ UNCHANGED <<job, mode, cur>> /\ PersistFinalMetadata
            /\ rec'.result = rec.result /\ rec'.upload = rec.upload
            /\ rec'.reason \in {rec.reason, "other"}
            /\ rec'.status = "success" => rec.status = "success"
<1>0. rec \in Record
  BY DEF HolderInv, TypeInv, TypeOK, HolderTypeOK
<1>1. CASE PersistFinalMetadata
  <2> DEFINE new == setManifestMetadata(rec, mode)
  <2>1. /\ new \in Record /\ new.result = rec.result /\ new.upload = rec.upload
        /\ new.reason = rec.reason /\ new.status = rec.status
    BY <1>0, StatusKept, RecordsStayRecords
  <2> HIDE DEF new
  <2> DEFINE lost == [new EXCEPT !.status = "failed", !.reason = "other",
                                 !.recovery = "FAILED"]
  <2>2. lost.result = new.result /\ lost.upload = new.upload /\ lost.reason = "other"
        /\ lost.status = "failed"
    BY <2>1, FieldsKept
  <2>3. \/ pc' = "idle"
        \/ pc' = "append" /\ UNCHANGED <<job, mode, cur>> /\ rec' \in {new, lost}
    BY <1>1 DEF PersistFinalMetadata, Release, new
  <2> HIDE DEF lost
  <2> QED
    BY <1>1, <2>1, <2>2, <2>3
<1>2. CASE Run /\ ~PersistFinalMetadata
  BY <1>2 DEF Run, StartRun, StartRunFails, CaptureLogical, CaptureAborts, SkipLogical,
     FinishCapture, WritePreUploadManifest, SkipUpload, StartDirectUpload, LegacyUpload,
     UploadSucceeds, UploadFailsInRun, SaveScheduleState, AppendRunRecord, Release, procVars
<1>3. CASE Reconciliation \/ CorrectParser \/ Crash
  BY <1>3 DEF Reconciliation, Reconcile, WriteReconciled, ReconcileRefused,
     UploadFailsInReconcile, CorrectParser, Crash, Release, procVars
<1>4. CASE DirectUpload
  BY <1>4 DEF DirectUpload, CheckDestination, RequestFails, ReadCapture, UploadDraftManifest,
     UploadArtifact, UploadArtifactFails, PublishManifest, UploadManifest, CheckInventory,
     PutMarker, ConfirmMarker, PersistManifestCommit
<1>5. CASE Validation \/ UNCHANGED vars
  BY <1>5 DEF Validation, ReadHistory, RewriteHistory, StatCommit, RewriteManifest, vars,
     procVars, localVars, Quiet
<1> QED
  BY <1>1, <1>2, <1>3, <1>4, <1>5 DEF Next

LEMMA SlotDueStep ==
  ASSUME ~Validating, "premanifest" \notin Faults, SlotInv, [Next]_vars
  PROVE  SlotDue'
<1>0. /\ rec \in Record /\ cap \in Record /\ (pc # "idle" => cur \in Runs)
      /\ manifest \in [Runs -> Record \cup {None}]
      /\ parserFixed \in BOOLEAN /\ None \notin Record
      /\ PointInv /\ HolderInv /\ ClaimInv /\ Quiet /\ SlotDue /\ pc \in Steps
  BY RecordAssumption DEF SlotInv, ClaimInv, PointInv, HolderInv, TypeInv, TypeOK,
     HolderTypeOK, LocalTypeOK
<1> USE DEF SlotDue
<1>1. ASSUME NEW r \in Runs, StartRun(r) PROVE SlotDue'
  <2>1. [RunningRecord EXCEPT !.status = "failed"].upload = "none"
        /\ [RunningRecord EXCEPT !.status = "failed"].status = "failed"
    BY FreshRecords DEF RunningRecord, NewRecord, Record
  <2> HIDE DEF RunningRecord
  <2> QED
    BY <1>1, <2>1 DEF StartRun
<1>2. CASE pc' \notin {"capture", "finish", "premanifest", "upload", "uploaded", "state",
                       "final", "append"}
  BY <1>2
<1>3. CASE CaptureLogical
  <2>1. rec'.upload = rec.upload
    BY <1>0, <1>3 DEF CaptureLogical, Record
  <2> QED
    BY <1>0, <1>3, <2>1 DEF CaptureLogical
<1>4. CASE CaptureAborts
  <2>1. rec'.status = rec.status
    BY <1>0, <1>4, FieldsKept DEF CaptureAborts
  <2> QED
    BY <1>0, <1>4, <2>1 DEF CaptureAborts
<1>5. CASE SkipLogical
  BY <1>0, <1>5 DEF SkipLogical
<1>6. CASE FinishCapture
  <2>1. rec'.upload = rec.upload
    BY <1>0, <1>6, FinishedKept DEF HolderInv
  <2>2. IF mode = "undue" THEN pc' = "state" /\ mode' = "undue"
        ELSE pc' = "premanifest" /\ pc = "finish"
    BY <1>6 DEF FinishCapture
  <2> QED
    BY <1>0, <1>6, <2>1, <2>2 DEF FinishCapture
<1>7. CASE WritePreUploadManifest
  <2>1. /\ rec' = setManifestMetadata(rec, mode) /\ manifest'[cur] = rec' /\ cur' = cur
        /\ pc' = "upload" /\ pc = "premanifest"
    BY <1>0, <1>7 DEF WritePreUploadManifest, MayFail
  <2>2. rec'.upload = rec.upload /\ rec' # None
    <3>1. /\ setManifestMetadata(rec, mode) \in Record
          /\ setManifestMetadata(rec, mode).upload = rec.upload
      BY <1>0, StatusKept, RecordsStayRecords
    <3> QED
      BY <1>0, <2>1, <3>1
  <2> QED
    BY <1>0, <2>1, <2>2
<1>8. CASE SkipUpload
  <2> DEFINE new == [rec EXCEPT !.upload = "skipped"]
  <2>1. new.result = rec.result /\ new.status = rec.status /\ new.upload = "skipped"
        /\ new.reason = rec.reason
    BY <1>0, FieldsKept
  <2> HIDE DEF new
  <2>2. /\ pc = "upload" /\ pc' = "state" /\ rec' = new
        /\ UNCHANGED <<manifest, cur, parserFixed, marker>>
    BY <1>8 DEF SkipUpload, localVars, remoteVars, new
  <2>3. rec.status = "success" => verifyLogicalCapture(rec, parserFixed)
    BY <1>0, <2>2 DEF ClaimInv, Verified
  <2>4. rec.status = "success" => verifyLogicalCapture(new, parserFixed)
    BY <2>1, <2>3, SameVerifies DEF Same
  <2>5. rec.status = "success" => Holds(manifest[cur])
    BY <1>0, <2>2, <2>3, VerifiedHolds DEF ClaimInv, Matched
  <2>6. Landed(cur, manifest[cur])' /\ Landed(cur, rec)'
    BY <1>0, <2>1, <2>2 DEF Landed
  <2>7. rec.status = "success" => Holds(manifest[cur])'
    BY <2>2, <2>5 DEF Holds
  <2> QED
    BY <1>0, <2>1, <2>2, <2>4, <2>6, <2>7
<1>9. CASE StartDirectUpload
  BY <1>9 DEF StartDirectUpload
<1>10. CASE LegacyUpload
  <2>1. /\ markLogicalUploadFailure(rec).status = "failed"
        /\ [rec EXCEPT !.upload = "pending", !.status = "partial",
                       !.reason = "other"].status = "partial"
    BY <1>0, FieldsKept, UploadMarksKept
  <2> QED
    BY <1>10, <2>1 DEF LegacyUpload
<1>11. CASE PersistManifestCommit
  <2>1. /\ pc = "commit" /\ pc' \in {"uploaded", "uploadFailed"} /\ rec' = rec
        /\ UNCHANGED <<manifest, cur, parserFixed, marker>> /\ manifest[cur] = cap
    BY <1>0, <1>11 DEF PersistManifestCommit, GiveUp, remoteVars, PointInv, InFlight
  <2>2. rec.status = "success" => /\ verifyLogicalCapture(rec, parserFixed)
                                  /\ Holds(manifest[cur])
                                  /\ marker[cur]["COMPLETED"] # None
    BY <1>0, <2>1, VerifiedHolds DEF ClaimInv, Verified, Matched, Claimed, Transfer
  <2>3. rec.status = "success" => Holds(manifest[cur])' /\ Landed(cur, manifest[cur])'
    BY <2>1, <2>2 DEF Holds, Landed
  <2> QED
    BY <1>0, <2>1, <2>2, <2>3
<1>12. CASE UploadSucceeds
  <2> DEFINE new == setManifestMetadata(markLogicalUploadSuccess(rec), mode)
  <2>1. new.result = rec.result /\ new.status = rec.status /\ new.reason = rec.reason
    BY <1>0, PublishedKept
  <2> HIDE DEF new
  <2>2. /\ pc = "uploaded" /\ rec' = new /\ UNCHANGED <<manifest, cur, parserFixed, marker>>
        /\ IF job = "run" THEN pc' = "state" ELSE pc' = "final" /\ job' # "run"
        /\ mode' = mode
    BY <1>12 DEF UploadSucceeds, localVars, remoteVars, new
  <2>3. rec.status = "success" => marker[cur]["COMPLETED"] # None
    BY <1>0, <2>2 DEF ClaimInv, Claimed
  <2>4. mode # "undue" /\ rec.status = "success" =>
          /\ verifyLogicalCapture(rec, parserFixed)
          /\ manifest[cur] # None /\ Holds(manifest[cur])
    BY <1>0, <2>2
  <2>5. mode # "undue" /\ rec.status = "success" =>
          verifyLogicalCapture(new, parserFixed) /\ Holds(manifest[cur])'
    BY <2>1, <2>2, <2>4, SameVerifies DEF Same, Holds
  <2>6. rec.status = "success" => Landed(cur, manifest[cur])' /\ Landed(cur, rec)'
    BY <2>2, <2>3 DEF Landed
  <2> QED
    BY <2>1, <2>2, <2>4, <2>5, <2>6
<1>13. CASE UploadFailsInRun
  <2>1. rec'.status = "failed" /\ pc' = "state"
    BY <1>0, <1>13, UploadMarksKept DEF UploadFailsInRun
  <2> QED
    BY <2>1
<1>14. CASE SaveScheduleState
  <2>1. [rec EXCEPT !.status = "failed", !.reason = "other"].status = "failed"
    BY <1>0, FieldsKept
  <2>2. pc' = "final" /\ pc = "state" /\ UNCHANGED <<cur, mode, job>>
    BY <1>14 DEF SaveScheduleState
  <2>3. ASSUME mode # "undue", rec'.status = "success" PROVE sched'.logical = cur
    <3>1. rec' = rec /\ rec.status = "success"
      BY <1>14, <2>1, <2>3 DEF SaveScheduleState
    <3>2. verifyLogicalCapture(rec, parserFixed)
      BY <1>0, <2>2, <2>3, <3>1
    <3>3. StateDirty
      BY <2>3, <3>2 DEF StateDirty, verifyLogicalCapture, Whole
    <3>4. sched' = ScheduleAfter
      BY <1>14, <2>1, <2>3, <3>3 DEF SaveScheduleState
    <3> QED
      BY <2>3, <3>1, <3>4 DEF ScheduleAfter
  <2> QED
    BY <2>2, <2>3
<1>15. CASE pc \in {"final", "append"}
  <2>1. pc' = "idle" \/ /\ UNCHANGED <<job, mode, cur>> /\ pc' \in {"final", "append"}
                        /\ rec'.status = "success" => rec.status = "success"
    BY <1>0, <1>15, LastSteps
  <2>2. sched' = sched
    BY <1>15, SchedFrame DEF SaveScheduleState
  <2> QED
    BY <1>0, <1>15, <2>1, <2>2
<1>16. CASE \/ CheckDestination \/ RequestFails \/ ReadCapture \/ UploadDraftManifest
            \/ (\E d \in Databases : UploadArtifact(d) \/ UploadArtifactFails(d))
            \/ PublishManifest \/ UploadManifest \/ CheckInventory \/ PutMarker
            \/ ConfirmMarker
  BY <1>2, <1>16 DEF CheckDestination, RequestFails, ReadCapture, UploadDraftManifest,
     UploadArtifact, UploadArtifactFails, PublishManifest, UploadManifest, CheckInventory,
     PutMarker, ConfirmMarker, GiveUp
<1>17. CASE Reconciliation \/ Crash
  BY <1>2, <1>17 DEF Reconciliation, Reconcile, WriteReconciled, ReconcileRefused,
     UploadFailsInReconcile, Crash, Release
<1>18. CASE (\E r \in Runs : StartRunFails(r)) \/ CorrectParser
  BY <1>2, <1>18 DEF StartRunFails, CorrectParser, procVars
<1>19. CASE PersistFinalMetadata \/ AppendRunRecord
  BY <1>15, <1>19 DEF PersistFinalMetadata, AppendRunRecord
<1>20. CASE Validation
  BY <1>0, <1>20 DEF Validation, ReadHistory, RewriteHistory, StatCommit, RewriteManifest,
     Quiet
<1>21. CASE UNCHANGED vars
  BY <1>0, <1>21 DEF vars, localVars, remoteVars, procVars, Holds, Landed
<1> QED
  BY <1>1, <1>3, <1>4, <1>5, <1>6, <1>7, <1>8, <1>9, <1>10, <1>11, <1>12, <1>13, <1>14,
     <1>16, <1>17, <1>18, <1>19, <1>20, <1>21
  DEF Next, Run, DirectUpload

LEMMA ManifestAtEnd ==
  ASSUME Quiet, [Next]_vars, pc \in {"final", "append"}, manifest' # manifest
  PROVE  PersistFinalMetadata
<1>1. CASE Run
  BY <1>1 DEF Run, StartRun, StartRunFails, CaptureLogical, CaptureAborts, SkipLogical,
     FinishCapture, WritePreUploadManifest, SkipUpload, StartDirectUpload, LegacyUpload,
     UploadSucceeds, UploadFailsInRun, SaveScheduleState, AppendRunRecord
<1>2. CASE Reconciliation \/ CorrectParser \/ Crash
  BY <1>2 DEF Reconciliation, Reconcile, WriteReconciled, ReconcileRefused,
     UploadFailsInReconcile, CorrectParser, Crash, localVars
<1>3. CASE DirectUpload
  BY <1>3 DEF DirectUpload, CheckDestination, RequestFails, ReadCapture, UploadDraftManifest,
     UploadArtifact, UploadArtifactFails, PublishManifest, UploadManifest, CheckInventory,
     PutMarker, ConfirmMarker, PersistManifestCommit
<1>4. CASE Validation \/ UNCHANGED vars
  BY <1>4 DEF Validation, ReadHistory, RewriteHistory, StatCommit, RewriteManifest, vars,
     localVars, Quiet
<1> QED
  BY <1>1, <1>2, <1>3, <1>4 DEF Next

LEMMA SlotKeptStep ==
  ASSUME ~Validating, SlotInv, [Next]_vars PROVE SlotKept'
<1> DEFINE r == sched.logical
<1>0. /\ rec \in Record /\ (pc # "idle" => cur \in Runs) /\ used \subseteq Runs
      /\ manifest \in [Runs -> Record \cup {None}] /\ None \notin Record
      /\ parserFixed \in BOOLEAN
      /\ sched \in [logical : Runs \cup {None}, physical : Runs \cup {None}]
      /\ PointInv /\ HolderInv /\ ClaimInv /\ Quiet /\ SlotKept /\ SlotDue
      /\ pc # "idle" => cur \in used
  BY RecordAssumption DEF SlotInv, ClaimInv, PointInv, HolderInv, TypeInv, TypeOK,
     HolderTypeOK, LocalTypeOK, OwnRun
<1>u. used \subseteq used'
  <2>1. CASE Run \/ Reconciliation \/ Validation \/ CorrectParser \/ Crash
    BY <2>1 DEF Run, StartRun, StartRunFails, CaptureLogical, CaptureAborts,
         SkipLogical, FinishCapture, WritePreUploadManifest, SkipUpload,
         StartDirectUpload, LegacyUpload, UploadSucceeds, UploadFailsInRun,
         SaveScheduleState, PersistFinalMetadata, AppendRunRecord, Reconciliation,
         Reconcile, WriteReconciled, ReconcileRefused, UploadFailsInReconcile,
         Validation, ReadHistory, RewriteHistory, StatCommit, RewriteManifest,
         CorrectParser, Crash, localVars
  <2>2. CASE DirectUpload
    BY <2>2 DEF DirectUpload, CheckDestination, RequestFails, ReadCapture,
         UploadDraftManifest, UploadArtifact, UploadArtifactFails, PublishManifest,
         UploadManifest, CheckInventory, PutMarker, ConfirmMarker, PersistManifestCommit,
         localVars
  <2>3. CASE UNCHANGED vars
    BY <2>3 DEF vars, localVars
  <2> QED
    BY <2>1, <2>2, <2>3 DEF Next
<1>m. \A q \in Runs : marker[q]["COMPLETED"] # None => marker'[q]["COMPLETED"] # None
  BY <1>0, MarkersStay
\* The slot is served in this step.
<1>1. CASE sched'.logical # sched.logical
  <2>1. SaveScheduleState
    BY <1>1, SchedFrame
  <2> DEFINE bad == [rec EXCEPT !.status = "failed", !.reason = "other"]
  <2>2. bad.result = rec.result /\ bad.upload = rec.upload /\ bad.reason = "other"
    BY <1>0, FieldsKept
  <2> HIDE DEF bad
  <2>3. /\ sched'.logical = cur /\ mode # "undue" /\ rec.status = "success"
        /\ UNCHANGED <<manifest, parserFixed, marker, cur>> /\ rec' \in {rec, bad}
        /\ pc' = "final" /\ pc = "state"
    BY <1>1, <2>1 DEF SaveScheduleState, ScheduleAfter, remoteVars, bad
  <2>4. /\ verifyLogicalCapture(rec, parserFixed) /\ Holds(manifest[cur])
        /\ Landed(cur, manifest[cur]) /\ Landed(cur, rec) /\ manifest[cur] # None
    BY <1>0, <2>3 DEF SlotDue
  <2>5. Holds(rec)
    BY <2>4, VerifiedHolds DEF Same
  <2>6. Holds(rec')
    BY <2>2, <2>3, <2>5, HoldsByResult
  <2>7. Landed(cur, rec')
    BY <2>2, <2>3, <2>4 DEF Landed
  <2> QED
    BY <1>0, <1>u, <2>3, <2>4, <2>6, <2>7 DEF SlotKept, Holds, Landed
<1>2. CASE sched'.logical = sched.logical /\ r # None
  <2>1. /\ r \in used /\ r \in Runs /\ manifest[r] # None /\ Holds(manifest[r])
        /\ Landed(r, manifest[r])
        /\ pc # "idle" /\ cur = r =>
             pc \in {"final", "append"} /\ Holds(rec) /\ Landed(r, rec)
    BY <1>0, <1>2 DEF SlotKept
  <2> HIDE DEF r
  <2>k. PICK s \in Runs : s = r
    BY <2>1
  <2>2. ASSUME pc' # "idle", cur' = r
        PROVE  /\ pc \in {"final", "append"} /\ pc' \in {"final", "append"} /\ cur = r
               /\ rec'.result = rec.result /\ rec'.upload = rec.upload
               /\ rec'.reason \in {rec.reason, "other"}
    <3>1. ASSUME NEW q \in Runs, StartRun(q), cur' = q PROVE FALSE
      BY <2>1, <2>2, <3>1 DEF StartRun
    <3>2. ASSUME NEW q \in Runs, Reconcile(q), cur' = q PROVE FALSE
      BY <2>1, <2>2, <3>2 DEF Reconcile, Reconcilable, Holds
    <3>3. pc # "idle" /\ cur' = cur
      BY <1>0, <2>2, <3>1, <3>2, HolderFrame
    <3> QED
      BY <1>0, <2>1, <2>2, <3>3, LastSteps
  <2>3. ASSUME pc' # "idle", cur' = r
        PROVE  pc' \in {"final", "append"} /\ Holds(rec)' /\ Landed(s, rec)'
    <3>1. Holds(rec) /\ Landed(s, rec)
      BY <2>1, <2>2, <2>3, <2>k
    <3>2. Holds(rec')
      BY <2>2, <2>3, <3>1, HoldsByResult
    <3>3. parserFixed' = parserFixed
      BY <2>2, <2>3, ParserFrame
    <3>4. Landed(s, rec)'
      BY <1>m, <2>2, <2>3, <2>k, <3>1 DEF Landed
    <3> QED
      BY <2>2, <2>3, <3>2, <3>3, <3>4 DEF Holds
  <2>4. manifest'[s] # None /\ Holds(manifest[s])' /\ Landed(s, manifest[s])'
    <3>1. CASE manifest'[s] = manifest[s]
      <4>1. Holds(manifest[s])'
        BY <1>0, <2>1, <2>k, <3>1, HoldsStay DEF Holds
      <4>2. Landed(s, manifest[s])'
        BY <1>m, <2>1, <2>k, <3>1 DEF Landed
      <4> QED
        BY <2>1, <2>k, <3>1, <4>1, <4>2
    <3>2. CASE manifest'[s] # manifest[s]
      <4>1. pc \in {"final", "append"} /\ cur = s /\ Holds(rec) /\ Landed(s, rec)
        BY <1>0, <2>1, <2>k, <3>2, ManifestFrame
      <4>2. PersistFinalMetadata
        BY <1>0, <3>2, <4>1, ManifestAtEnd
      <4> DEFINE new == setManifestMetadata(rec, mode)
      <4>3. /\ new \in Record /\ new.result = rec.result /\ new.upload = rec.upload
            /\ new.reason = rec.reason
        BY <1>0, StatusKept, RecordsStayRecords
      <4> HIDE DEF new
      <4>4. /\ \E written \in {manifest[cur], FinalManifest(new)} :
                 manifest' = [manifest EXCEPT ![cur] = written]
            /\ UNCHANGED <<parserFixed, marker>>
        BY <4>2 DEF PersistFinalMetadata, remoteVars, new
      <4>5. manifest'[s] = new
        BY <1>0, <3>2, <4>1, <4>4 DEF FinalManifest
      <4>6. Holds(new)
        BY <4>1, <4>3, HoldsByResult
      <4>7. Landed(s, new)
        BY <4>1, <4>3 DEF Landed
      <4> QED
        BY <1>0, <4>3, <4>4, <4>5, <4>6, <4>7 DEF Holds, Landed
    <3> QED
      BY <3>1, <3>2
  <2> QED
    BY <1>2, <1>u, <2>1, <2>k, <2>3, <2>4 DEF SlotKept, r
<1>3. CASE sched'.logical = sched.logical /\ r = None
  BY <1>3 DEF SlotKept
<1> QED
  BY <1>1, <1>2, <1>3

LEMMA SlotInvStep ==
  ASSUME ~Validating, "premanifest" \notin Faults, SlotInv, [Next]_vars
  PROVE  SlotInv'
<1>1. ClaimInv'
  BY PointInvStep, ClaimStep, HistoryStep DEF SlotInv, ClaimInv
<1> QED
  BY <1>1, SlotKeptStep, SlotDueStep DEF SlotInv

LEMMA InitSlot == Init => SlotInv
<1> SUFFICES ASSUME Init PROVE SlotInv
  OBVIOUS
<1>1. ClaimInv
  BY InitReport DEF ReportInv
<1> QED
  BY <1>1 DEF Init, SlotInv, SlotKept, SlotDue

\* A slot is consumed only by a capture that verifies and that is completed
\* remotely or had no upload to make; no crash, failed write or later
\* reconciliation takes that back.
THEOREM SlotServedByCapture ==
  ASSUME ~Validating, "premanifest" \notin Faults
  PROVE  Spec => []ScheduleServed
<1>1. SlotInv /\ [Next]_vars => SlotInv'
  BY SlotInvStep
<1>2. SlotInv => ScheduleServed
  BY DEF SlotInv, SlotKept, Holds, Landed, ScheduleServed
<1> QED
  BY InitSlot, <1>1, <1>2, PTL DEF Spec

\* A due run that the history reports as a success has served its slot: it is
\* not run a second time for the same slot.
THEOREM ReportedSuccessServes ==
  ASSUME ~Validating, "premanifest" \notin Faults
  PROVE  Spec => SuccessServesSlot
<1>1. SlotInv /\ [Next]_vars => SlotInv'
  BY SlotInvStep
<1>2. SlotInv /\ [Next]_vars
        => [\A r \in Runs :
              pc = "append" /\ job = "run" /\ mode # "undue" /\ cur = r
                /\ history'[r] # history[r] /\ history'[r].status = "success"
              => sched.logical = r]_vars
  <2> SUFFICES ASSUME SlotInv, [Next]_vars, NEW r \in Runs, pc = "append", job = "run",
                      mode # "undue", cur = r, history'[r] # history[r],
                      history'[r].status = "success"
               PROVE  sched.logical = r
    OBVIOUS
  <2>1. PointInv /\ history \in [Runs -> Record \cup {None}]
    BY DEF SlotInv, ClaimInv, PointInv, HolderInv, TypeInv, TypeOK, LocalTypeOK
  <2>2. history' = [history EXCEPT ![cur] = rec]
    BY <2>1, HistoryFrame
  <2>3. rec.status = "success"
    BY <2>1, <2>2
  <2> QED
    BY <2>3 DEF SlotInv, SlotDue
<1> QED
  BY InitSlot, <1>1, <1>2, PTL DEF Spec, SuccessServesSlot

=============================================================================
