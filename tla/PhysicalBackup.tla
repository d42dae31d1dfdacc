---------------------------- MODULE PhysicalBackup ----------------------------
(***************************************************************************)
(* One physical attempt (xtrabackup.go, physical_integrity.go): xtrabackup *)
(* streams into xbcloud, which stores chunks and the checksums of what it  *)
(* read; afterwards every remote chunk is downloaded and compared, and     *)
(* only then PHYSICAL_COMPLETED.json is written.                           *)
(***************************************************************************)
EXTENDS Integers, FiniteSets

CONSTANTS
  Stream,       \* chunks of the stream, in the order 1..N
  Metadata,     \* chunks of the files that a restore cannot do without
  Checkers      \* download workers, at most four

ASSUME PhysAssumption == Stream \in Nat \ {0}

Chunk == 1..Stream

VARIABLES
  phys,         \* [phase, xtra, cloud, sent, late, error] of the attempt
  remote,       \* remote[c]: "absent", "good" or "bad" under the prefix
  sums,         \* chunks in the checksum object that xbcloud wrote at its end
  check,        \* check[k]: the chunk that a worker downloads, or 0
  fed,          \* chunks handed to the workers
  verified,     \* chunks found equal to their checksum
  marker        \* PHYSICAL_COMPLETED.json is in the store

physVars == <<phys, remote, sums, check, fed, verified, marker>>

PhysPhases == {"start", "pipe", "list", "verify", "publish", "head", "success", "failed"}
PhysProcesses == {"none", "running", "ok", "dead"}

PhysTypeOK ==
  /\ phys \in [phase : PhysPhases, xtra : PhysProcesses, cloud : PhysProcesses,
               sent : 0..Stream, late : BOOLEAN, error : BOOLEAN]
  /\ remote \in [Chunk -> {"absent", "good", "bad"}]
  /\ sums \subseteq Chunk /\ fed \subseteq Chunk /\ verified \subseteq Chunk
  /\ check \in [Checkers -> Chunk \cup {0}]
  /\ marker \in BOOLEAN

PhysInit ==
  /\ phys = [phase |-> "start", xtra |-> "none", cloud |-> "none", sent |-> 0,
             late |-> FALSE, error |-> FALSE]
  /\ remote = [c \in Chunk |-> "absent"]
  /\ sums = {} /\ fed = {} /\ verified = {} /\ marker = FALSE
  /\ check = [k \in Checkers |-> 0]

-----------------------------------------------------------------------------
ToPhase(p) == phys' = [phys EXCEPT !.phase = p]
GiveUp == ToPhase("failed")
Listed == {c \in Chunk : remote[c] # "absent"}
Kept == UNCHANGED <<remote, sums, check, fed, verified, marker>>

(* Configuration, binaries, privileges, credentials file and the capacity  *)
(* of the work directory come first; xbcloud may not start.                *)
StartAttempt ==
  /\ phys.phase = "start"
  /\ \/ GiveUp
     \/ phys' = [phys EXCEPT !.phase = "pipe", !.xtra = "running", !.cloud = "running"]
  /\ Kept

(* A chunk that is stored may differ from what was read.                   *)
StreamChunk ==
  /\ phys.xtra = "running" /\ phys.cloud = "running" /\ phys.sent < Stream
  /\ phys' = [phys EXCEPT !.sent = @ + 1]
  /\ \E state \in {"good", "bad", "absent"} : remote' = [remote EXCEPT ![phys.sent + 1] = state]
  /\ UNCHANGED <<sums, check, fed, verified, marker>>

XtrabackupEnds ==
  /\ phys.xtra = "running"
  /\ \/ phys.sent = Stream /\ phys' = [phys EXCEPT !.xtra = "ok"]
     \/ phys' = [phys EXCEPT !.xtra = "dead"]
  /\ Kept

(* The end of the stream, however xtrabackup ended: xbcloud writes the     *)
(* checksums of what it read and exits well, or dies.                      *)
XbcloudEnds ==
  /\ phys.cloud = "running"
  /\ \/ /\ phys.xtra # "running" /\ sums' = 1..phys.sent
        /\ phys' = [phys EXCEPT !.cloud = "ok"]
     \/ /\ sums' = sums
        /\ phys' = [phys EXCEPT !.cloud = "dead", !.xtra = IF @ = "running" THEN "dead" ELSE @]
  /\ UNCHANGED <<remote, check, fed, verified, marker>>

(* The timeout kills both processes and ends every later request.          *)
Deadline ==
  /\ phys.phase \in {"pipe", "list", "verify", "publish", "head"} /\ ~phys.late
  /\ phys' = [phys EXCEPT !.late = TRUE,
                !.xtra = IF @ = "running" THEN "dead" ELSE @,
                !.cloud = IF @ = "running" THEN "dead" ELSE @]
  /\ Kept

PipelineSoundMut == phys.cloud = "ok"

PipelineSound == phys.xtra = "ok" /\ phys.cloud = "ok"

(* Both exits and both "completed" lines are needed.                       *)
JudgePipeline ==
  /\ phys.phase = "pipe" /\ phys.xtra # "running" /\ phys.cloud # "running"
  /\ \/ PipelineSound /\ ToPhase("list")
     \/ GiveUp
  /\ Kept

(* The listing and the checksums must name equally many chunks, and those  *)
(* of the metadata.                                                        *)
ListPrefix ==
  /\ phys.phase = "list"
  /\ \/ /\ ~phys.late /\ Listed # {} /\ Cardinality(sums) = Cardinality(Listed)
        /\ Metadata \subseteq sums
        /\ ToPhase("verify")
     \/ GiveUp
  /\ Kept

-----------------------------------------------------------------------------
(* verifyPhysicalInventory: a feeder and its workers; the first error      *)
(* cancels the rest.                                                       *)
Cancelled == phys.late \/ phys.error

(* After a cancellation the feeder may still hand out a chunk or stop.     *)
FeedChecker ==
  /\ phys.phase = "verify"
  /\ \E k \in Checkers, c \in Listed \ fed :
       /\ check[k] = 0 /\ \A d \in Listed \ fed : c <= d
       /\ check' = [check EXCEPT ![k] = c] /\ fed' = fed \cup {c}
  /\ UNCHANGED <<phys, remote, sums, verified, marker>>

CheckChunk(k) ==
  /\ check[k] # 0
  /\ check' = [check EXCEPT ![k] = 0]
  /\ \/ /\ ~phys.late /\ check[k] \in sums /\ remote[check[k]] = "good"
        /\ verified' = verified \cup {check[k]} /\ phys' = phys
     \/ phys' = [phys EXCEPT !.error = TRUE] /\ verified' = verified
  /\ UNCHANGED <<remote, sums, fed, marker>>

(* The workers are gone; an expired context is an error although no worker *)
(* met one.                                                                *)
VerifiedAll == ~phys.error /\ ~phys.late

EndVerify ==
  /\ phys.phase = "verify" /\ \A k \in Checkers : check[k] = 0
  /\ fed = Listed \/ Cancelled
  /\ ToPhase(IF VerifiedAll THEN "publish" ELSE "failed")
  /\ Kept

(* The answer of the request may be lost.                                  *)
PublishMarker ==
  /\ phys.phase = "publish"
  /\ \/ ~phys.late /\ marker' = TRUE /\ \E p \in {"head", "failed"} : ToPhase(p)
     \/ marker' = marker /\ GiveUp
  /\ UNCHANGED <<remote, sums, check, fed, verified>>

CheckMarker ==
  /\ phys.phase = "head"
  /\ \/ ~phys.late /\ marker /\ ToPhase("success")
     \/ GiveUp
  /\ Kept

PhysNext ==
  \/ StartAttempt
  \/ StreamChunk
  \/ XtrabackupEnds
  \/ XbcloudEnds
  \/ Deadline
  \/ JudgePipeline
  \/ ListPrefix
  \/ FeedChecker
  \/ \E k \in Checkers : CheckChunk(k)
  \/ EndVerify
  \/ PublishMarker
  \/ CheckMarker

PhysSpec == PhysInit /\ [][PhysNext]_physVars

-----------------------------------------------------------------------------
(* PHYSICAL_COMPLETED.json is never published for less than the backup:    *)
(* every chunk of the stream is in the store and was compared with its     *)
(* source checksum, although xbcloud ends as well when xtrabackup died,    *)
(* and the timeout may stop the comparison between two chunks.             *)
MarkerMeansVerified ==
  marker => verified = Chunk /\ \A c \in Chunk : remote[c] = "good"
=============================================================================
