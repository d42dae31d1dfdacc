--------------------------- MODULE MultipartUpload ---------------------------
(***************************************************************************)
(* The upload of one large artifact in parts (s3.go) and the journal file  *)
(* beside it (multipart_journal.go).  The journal names the upload that    *)
(* the store keeps open, so that the next attempt can abort what a crashed *)
(* one left.  A request may take effect although its answer is lost.       *)
(***************************************************************************)
EXTENDS Integers, FiniteSetsExt

CONSTANTS
  Parts,        \* number of parts of the artifact
  MaxUploads,   \* bound: upload IDs that the store hands out
  NoUpload

UploadIDs == 1..MaxUploads

(* An upload ID of the store is never the absent one.                      *)
ASSUME MultipartAssumption ==
  Parts \in Nat /\ MaxUploads \in Nat /\ NoUpload \notin UploadIDs

VARIABLES
  opened,       \* uploads initiated so far
  open,         \* uploads that are neither completed nor aborted
  stored,       \* stored[u]: the parts that the store has of upload u
  object,       \* the parts that make up the object under the key; {} is no object
  journal,      \* the upload that the journal file names, or NoUpload
  upload,       \* [pc, id, acked] of the process that uploads
  forgotten     \* history: uploads left open that no process ever had a record of

multipartVars == <<opened, open, stored, object, journal, upload, forgotten>>

UploadStates == {"idle", "recover", "initiate", "record", "parts", "complete", "clear",
                 "head", "abort", "uploaded", "failed"}

MultipartTypeOK ==
  /\ opened \in 0..MaxUploads /\ open \subseteq UploadIDs /\ forgotten \subseteq UploadIDs
  /\ stored \in [UploadIDs -> SUBSET (1..Parts)]
  /\ object \subseteq 1..Parts /\ journal \in UploadIDs \cup {NoUpload}
  /\ upload \in [pc : UploadStates, id : UploadIDs \cup {NoUpload}, acked : SUBSET (1..Parts)]

Resting == [pc |-> "idle", id |-> NoUpload, acked |-> {}]

MultipartInit ==
  /\ opened = 0 /\ open = {} /\ stored = [u \in UploadIDs |-> {}]
  /\ object = {} /\ journal = NoUpload /\ upload = Resting /\ forgotten = {}

-----------------------------------------------------------------------------
Goto(pc) == upload' = [upload EXCEPT !.pc = pc]

(* DELETE of an upload: it takes effect or not, and the answer says so,    *)
(* says 404 for one that is not open, or is lost.                          *)
AbortAnswers(u) ==
  {[open |-> open \ {u}, answer |-> IF u \in open THEN "ok" ELSE "404"],
   [open |-> open \ {u}, answer |-> "error"], [open |-> open, answer |-> "error"]}

StartUpload ==
  /\ upload.pc \in {"idle", "uploaded", "failed"}
  /\ upload' = [Resting EXCEPT !.pc = "recover"]
  /\ UNCHANGED <<opened, open, stored, object, journal, forgotten>>

RecoverMut ==
  /\ upload.pc = "recover"
  /\ IF journal = NoUpload THEN Goto("initiate") /\ UNCHANGED <<open, journal>>
     ELSE \E a \in AbortAnswers(journal) :
            open' = a.open /\ Goto("initiate") /\ journal' = NoUpload
  /\ UNCHANGED <<opened, stored, object, forgotten>>

(* recoverMultipartJournal: the upload of a process that is gone is        *)
(* aborted; only then the journal goes.                                    *)
Recover ==
  /\ upload.pc = "recover"
  /\ IF journal = NoUpload THEN Goto("initiate") /\ UNCHANGED <<open, journal>>
     ELSE \E a \in AbortAnswers(journal) :
            /\ open' = a.open
            /\ \/ a.answer \in {"ok", "404"} /\ Goto("initiate") /\ journal' = NoUpload
               \/ Goto("failed") /\ journal' = journal
  /\ UNCHANGED <<opened, stored, object, forgotten>>

(* withS3Retry repeats the request; when an answer was lost, the upload    *)
(* that it opened has no owner.                                            *)
Initiate ==
  /\ upload.pc = "initiate" /\ opened < MaxUploads
  /\ \/ /\ opened' = opened + 1 /\ open' = open \cup {opened + 1}
        /\ \/ upload' = [upload EXCEPT !.pc = "record", !.id = opened + 1] /\ UNCHANGED forgotten
           \/ forgotten' = forgotten \cup {opened + 1} /\ \E pc \in {"initiate", "failed"} : Goto(pc)
     \/ Goto("failed") /\ UNCHANGED <<opened, open, forgotten>>
  /\ UNCHANGED <<stored, object, journal>>

(* saveMultipartJournal; when it fails the upload is aborted at once, once. *)
Record ==
  /\ upload.pc = "record"
  /\ \/ journal' = upload.id /\ Goto("parts") /\ UNCHANGED <<open, forgotten>>
     \/ \E a \in AbortAnswers(upload.id) :
          /\ open' = a.open /\ Goto("failed")
          /\ journal' \in {journal, upload.id}
          /\ forgotten' = IF journal' = upload.id THEN forgotten ELSE forgotten \cup {upload.id}
  /\ UNCHANGED <<opened, stored, object>>

(* The parts go up one after the other, each repeated on its own.          *)
UploadPart ==
  /\ upload.pc = "parts" /\ upload.acked # 1..Parts
  /\ LET part == Cardinality(upload.acked) + 1 IN
     \/ /\ stored' = [stored EXCEPT ![upload.id] = @ \cup {part}]
        /\ upload' = [upload EXCEPT !.acked = @ \cup {part}]
     \/ stored' \in {stored, [stored EXCEPT ![upload.id] = @ \cup {part}]} /\ Goto("abort")
  /\ UNCHANGED <<opened, open, object, journal, forgotten>>

AllPartsSentMut == upload.acked # {}

AllPartsSent == upload.acked = 1..Parts

(* CompleteMultipartUpload lists the acknowledged parts.  The answer may   *)
(* be lost, and a status of 200 may carry an error that is not looked at.  *)
Complete ==
  /\ upload.pc = "parts" /\ AllPartsSent
  /\ \/ /\ object' = upload.acked /\ open' = open \ {upload.id}
        /\ \E pc \in {"clear", "abort"} : Goto(pc)
        /\ UNCHANGED forgotten
     \/ Goto("clear") /\ forgotten' = forgotten \cup {upload.id} /\ UNCHANGED <<object, open>>
     \/ Goto("abort") /\ UNCHANGED <<object, open, forgotten>>
  /\ UNCHANGED <<opened, stored, journal>>

RemoveJournal ==
  /\ upload.pc = "clear"
  /\ \/ journal' = NoUpload /\ Goto("head")
     \/ journal' = journal /\ Goto("failed")
  /\ UNCHANGED <<opened, open, stored, object, forgotten>>

(* The object must be there with the size of the file.                     *)
CheckObject ==
  /\ upload.pc = "head"
  /\ \/ object = 1..Parts /\ Goto("uploaded")
     \/ Goto("failed")
  /\ UNCHANGED <<opened, open, stored, object, journal, forgotten>>

(* The deferred abort; on an error, 404 included, the journal stays.       *)
AbortFailed ==
  /\ upload.pc = "abort"
  /\ \E a \in AbortAnswers(upload.id) :
       /\ open' = a.open
       /\ journal' \in IF a.answer = "ok" THEN {NoUpload, journal} ELSE {journal}
  /\ Goto("failed")
  /\ UNCHANGED <<opened, stored, object, forgotten>>

CrashUpload ==
  /\ upload.pc \notin {"idle", "uploaded", "failed"}
  /\ upload' = Resting
  /\ forgotten' = IF upload.pc = "record" THEN forgotten \cup {upload.id} ELSE forgotten
  /\ UNCHANGED <<opened, open, stored, object, journal>>

MultipartNext ==
  \/ StartUpload
  \/ Recover
  \/ Initiate
  \/ Record
  \/ UploadPart
  \/ Complete
  \/ RemoveJournal
  \/ CheckObject
  \/ AbortFailed
  \/ CrashUpload

MultipartSpec == MultipartInit /\ [][MultipartNext]_multipartVars

-----------------------------------------------------------------------------
(* The object under the key always holds every part of the artifact, and   *)
(* an upload that is reported as done has left one: not a request that was *)
(* repeated, aborted, cut by a crash or answered with a hidden error.      *)
ObjectIsWhole ==
  /\ object \in {{}, 1..Parts}
  /\ upload.pc = "uploaded" => object = 1..Parts

(* An upload that is still open in the store belongs to the process that   *)
(* runs or is named by the journal, through any failures and crashes; the  *)
(* exceptions are those no file could name: a lost answer of the initiate  *)
(* request, a journal that could not be written before a crash or a failed *)
(* abort, and a completion that failed behind a status of 200.             *)
OpenUploadsKnown == open \subseteq {journal, upload.id} \cup forgotten
=============================================================================
