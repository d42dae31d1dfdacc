------------------------------ MODULE MCCapture ------------------------------
(***************************************************************************)
(* A run that is started by hand and the captures and transfers below      *)
(* RunBackup.  The components share no variable, so part picks the one     *)
(* that moves and the others stay in one of their initial states: the      *)
(* states are the sum of theirs.                                           *)
(***************************************************************************)
EXTENDS TuiRun, LogicalDump, GlobalCapture, MultipartUpload, PhysicalBackup

VARIABLE part

captureVars == <<part, pageVars, dumpVars, globVars, multipartVars, physVars>>

MCDatabases == <<"crm", "shop">>

CaptureInit ==
  /\ part \in {"page", "dump", "global", "multipart", "physical"}
  /\ PageInit /\ DumpInit /\ GlobInit /\ MultipartInit /\ PhysInit
  /\ part # "global" => schema = AllOf(CHOOSE v \in Versions : TRUE)

CaptureNext ==
  \/ part = "page" /\ PageNext /\ UNCHANGED <<part, dumpVars, globVars, multipartVars, physVars>>
  \/ part = "dump" /\ DumpNext /\ UNCHANGED <<part, pageVars, globVars, multipartVars, physVars>>
  \/ part = "global" /\ GlobNext /\ UNCHANGED <<part, pageVars, dumpVars, multipartVars, physVars>>
  \/ part = "multipart" /\ MultipartNext /\ UNCHANGED <<part, pageVars, dumpVars, globVars, physVars>>
  \/ part = "physical" /\ PhysNext /\ UNCHANGED <<part, pageVars, dumpVars, globVars, multipartVars>>

(* DumpFairness where the capture is the part that moves.  The fair        *)
(* actions of the page are enabled only where the page moves.              *)
CaptureFairness ==
  /\ PageFairness
  /\ WF_dumpVars(part = "dump" /\ CaptureSteps)
  /\ \A i \in Tasks : WF_dumpVars(part = "dump" /\ TaskSteps(i))

CaptureSpec == CaptureInit /\ [][CaptureNext]_captureVars /\ CaptureFairness

(* The state of the five components has the form that the code's structs,  *)
(* channels and processes can have.                                        *)
CaptureTypeOK == PageTypeOK /\ DumpTypeOK /\ GlobTypeOK /\ MultipartTypeOK /\ PhysTypeOK
=============================================================================
