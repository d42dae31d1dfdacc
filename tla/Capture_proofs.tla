----------------------------- MODULE Capture_proofs -----------------------------
(***************************************************************************)
(* Theorems about the two ways in which a backup reaches S3: the physical  *)
(* stream, for any length of it, any metadata chunks and any number of     *)
(* download workers, whenever a process dies, a chunk is damaged or the    *)
(* timeout strikes; and the multipart upload, for any number of parts and  *)
(* of uploads, whenever the process dies and whichever answer is lost.     *)
(* The last section has the types of the page of a manual run and, with    *)
(* the proofs of the two captures, of the composition of MCCapture.        *)
(***************************************************************************)
EXTENDS MCCapture, GlobalCapture_proofs, LogicalDump_proofs

(* The exits of the two processes: xtrabackup ends well only after its     *)
(* whole stream, xbcloud only after xtrabackup, with the checksums of what *)
(* it read.                                                                *)
Pipeline ==
  /\ phys.xtra = "ok" => phys.sent = Stream
  /\ phys.cloud = "ok" => sums = 1..phys.sent /\ phys.xtra # "running"
  /\ phys.phase = "start" => phys.xtra = "none"
  /\ phys.phase \in {"list", "verify", "publish", "head", "success"} =>
       phys.xtra = "ok" /\ phys.cloud = "ok"

(* Nothing is compared before the stream is complete, so that a chunk does *)
(* not change after it was compared.                                       *)
ChecksAfterStream ==
  /\ phys.xtra # "ok" => fed = {} /\ verified = {} /\ check = [k \in Checkers |-> 0]
  /\ \A c \in verified : remote[c] = "good"

(* What was handed to a worker is compared, with a worker, or an error.    *)
Accounted ==
  \A c \in fed : c \in verified \/ phys.error \/ \E k \in Checkers : check[k] = c

(* From the comparison on the store lists every chunk, and from the        *)
(* publication on every chunk is compared.                                 *)
Compared ==
  /\ phys.phase \in {"verify", "publish", "head", "success"} => Listed = Chunk
  /\ phys.phase \in {"publish", "head", "success"} \/ marker => verified = Chunk

PhysInv == PhysTypeOK /\ Pipeline /\ ChecksAfterStream /\ Accounted /\ Compared

-----------------------------------------------------------------------------
(* The record of the attempt and what the updates of the actions make of   *)
(* it, field by field.                                                     *)
PhysRecords == [phase : PhysPhases, xtra : PhysProcesses, cloud : PhysProcesses,
            sent : 0..Stream, late : BOOLEAN, error : BOOLEAN]
IsPhys(g, p, x, c, s, l, e) ==
  /\ g \in PhysRecords
  /\ g.phase = p /\ g.xtra = x /\ g.cloud = c /\ g.sent = s /\ g.late = l /\ g.error = e

LEMMA PhysFields ==
  ASSUME NEW g \in PhysRecords
  PROVE  /\ g.phase \in PhysPhases /\ g.xtra \in PhysProcesses /\ g.cloud \in PhysProcesses
         /\ g.sent \in 0..Stream /\ g.late \in BOOLEAN /\ g.error \in BOOLEAN
  BY DEF PhysRecords

LEMMA PhysPutPhase ==
  ASSUME NEW g \in PhysRecords, NEW p \in PhysPhases
  PROVE  IsPhys([g EXCEPT !.phase = p],
            p, g.xtra, g.cloud, g.sent, g.late, g.error)
  BY DEF IsPhys, PhysRecords

LEMMA PutXtra ==
  ASSUME NEW g \in PhysRecords, NEW x \in PhysProcesses
  PROVE  IsPhys([g EXCEPT !.xtra = x],
            g.phase, x, g.cloud, g.sent, g.late, g.error)
  BY DEF IsPhys, PhysRecords

LEMMA PutCloud ==
  ASSUME NEW g \in PhysRecords, NEW c \in PhysProcesses
  PROVE  IsPhys([g EXCEPT !.cloud = c],
            g.phase, g.xtra, c, g.sent, g.late, g.error)
  BY DEF IsPhys, PhysRecords

LEMMA PutSent ==
  ASSUME NEW g \in PhysRecords, NEW s \in 0..Stream
  PROVE  IsPhys([g EXCEPT !.sent = s],
            g.phase, g.xtra, g.cloud, s, g.late, g.error)
  BY DEF IsPhys, PhysRecords

LEMMA PutError ==
  ASSUME NEW g \in PhysRecords, NEW e \in BOOLEAN
  PROVE  IsPhys([g EXCEPT !.error = e],
            g.phase, g.xtra, g.cloud, g.sent, g.late, e)
  BY DEF IsPhys, PhysRecords

LEMMA PutStart ==
  ASSUME NEW g \in PhysRecords, NEW p \in PhysPhases, NEW x \in PhysProcesses, NEW c \in PhysProcesses
  PROVE  IsPhys([g EXCEPT !.phase = p, !.xtra = x, !.cloud = c],
            p, x, c, g.sent, g.late, g.error)
<1> DEFINE h == [g EXCEPT !.phase = p]
<1>1. IsPhys(h, p, g.xtra, g.cloud, g.sent, g.late, g.error)
  BY DEF IsPhys, PhysRecords
<1> HIDE DEF h
<1> DEFINE k == [h EXCEPT !.xtra = x]
<1>2. IsPhys(k, p, x, g.cloud, g.sent, g.late, g.error)
  BY <1>1 DEF IsPhys, PhysRecords
<1> HIDE DEF k
<1>3. IsPhys([k EXCEPT !.cloud = c],
        p, x, c, g.sent, g.late, g.error)
  BY <1>2 DEF IsPhys, PhysRecords
<1>4. [g EXCEPT !.phase = p, !.xtra = x, !.cloud = c] = [k EXCEPT !.cloud = c]
  BY DEF h, k
<1> QED
  BY <1>3, <1>4

LEMMA PutDeath ==
  ASSUME NEW g \in PhysRecords, NEW c \in PhysProcesses, NEW x \in PhysProcesses
  PROVE  IsPhys([g EXCEPT !.cloud = c, !.xtra = x],
            g.phase, x, c, g.sent, g.late, g.error)
<1> DEFINE h == [g EXCEPT !.cloud = c]
<1>1. IsPhys(h, g.phase, g.xtra, c, g.sent, g.late, g.error)
  BY DEF IsPhys, PhysRecords
<1> HIDE DEF h
<1>2. IsPhys([h EXCEPT !.xtra = x],
        g.phase, x, c, g.sent, g.late, g.error)
  BY <1>1 DEF IsPhys, PhysRecords
<1>3. [g EXCEPT !.cloud = c, !.xtra = x] = [h EXCEPT !.xtra = x]
  BY DEF h
<1> QED
  BY <1>2, <1>3

LEMMA PutLate ==
  ASSUME NEW g \in PhysRecords, NEW l \in BOOLEAN, NEW x \in PhysProcesses, NEW c \in PhysProcesses
  PROVE  IsPhys([g EXCEPT !.late = l, !.xtra = x, !.cloud = c],
            g.phase, x, c, g.sent, l, g.error)
<1> DEFINE h == [g EXCEPT !.late = l]
<1>1. IsPhys(h, g.phase, g.xtra, g.cloud, g.sent, l, g.error)
  BY DEF IsPhys, PhysRecords
<1> HIDE DEF h
<1> DEFINE k == [h EXCEPT !.xtra = x]
<1>2. IsPhys(k, g.phase, x, g.cloud, g.sent, l, g.error)
  BY <1>1 DEF IsPhys, PhysRecords
<1> HIDE DEF k
<1>3. IsPhys([k EXCEPT !.cloud = c],
        g.phase, x, c, g.sent, l, g.error)
  BY <1>2 DEF IsPhys, PhysRecords
<1>4. [g EXCEPT !.late = l, !.xtra = x, !.cloud = c] = [k EXCEPT !.cloud = c]
  BY DEF h, k
<1> QED
  BY <1>3, <1>4

-----------------------------------------------------------------------------
LEMMA PhysConstants == Stream \in Nat \ {0}
  BY PhysAssumption

(* What each kind of step makes of the record.                             *)
LEMMA PhysPhase ==
  ASSUME phys \in PhysRecords, NEW p \in PhysPhases, ToPhase(p)
  PROVE  IsPhys(phys', p, phys.xtra, phys.cloud, phys.sent, phys.late, phys.error)
<1>1. IsPhys([phys EXCEPT !.phase = p],
         p, phys.xtra, phys.cloud, phys.sent, phys.late, phys.error)
  BY PhysPutPhase, Zenon
<1> QED
  BY <1>1 DEF ToPhase

LEMMA StartStep ==
  ASSUME phys \in PhysRecords, StartAttempt
  PROVE  /\ phys.phase = "start" /\ Kept
         /\ ToPhase("failed") \/ IsPhys(phys', "pipe", "running", "running", phys.sent, phys.late, phys.error)
<1>1. "pipe" \in PhysPhases /\ "running" \in PhysProcesses
  BY PhysFields, PhysConstants DEF PhysPhases, PhysProcesses
<1>2. IsPhys([phys EXCEPT !.phase = "pipe", !.xtra = "running", !.cloud = "running"],
        "pipe", "running", "running", phys.sent, phys.late, phys.error)
  BY <1>1, PutStart, Zenon
<1> QED
  BY <1>2 DEF StartAttempt, GiveUp

LEMMA StreamStep ==
  ASSUME phys \in PhysRecords, StreamChunk
  PROVE  IsPhys(phys', phys.phase, phys.xtra, phys.cloud, phys.sent + 1, phys.late, phys.error)
<1>1. phys.sent < Stream => phys.sent + 1 \in 0..Stream
  BY PhysFields, PhysConstants DEF PhysPhases, PhysProcesses
<1>2. phys.sent < Stream => IsPhys([phys EXCEPT !.sent = phys.sent + 1],
        phys.phase, phys.xtra, phys.cloud, phys.sent + 1, phys.late, phys.error)
  BY <1>1, PutSent, Zenon
<1> QED
  BY <1>2 DEF StreamChunk, GiveUp

LEMMA XtrabackupStep ==
  ASSUME phys \in PhysRecords, XtrabackupEnds
  PROVE  \/ phys.sent = Stream /\ IsPhys(phys', phys.phase, "ok", phys.cloud, phys.sent, phys.late, phys.error)
         \/ IsPhys(phys', phys.phase, "dead", phys.cloud, phys.sent, phys.late, phys.error)
<1>1. "ok" \in PhysProcesses
  BY PhysFields, PhysConstants DEF PhysPhases, PhysProcesses
<1>2. IsPhys([phys EXCEPT !.xtra = "ok"],
        phys.phase, "ok", phys.cloud, phys.sent, phys.late, phys.error)
  BY <1>1, PutXtra, Zenon
<1>3. "dead" \in PhysProcesses
  BY PhysFields, PhysConstants DEF PhysPhases, PhysProcesses
<1>4. IsPhys([phys EXCEPT !.xtra = "dead"],
        phys.phase, "dead", phys.cloud, phys.sent, phys.late, phys.error)
  BY <1>3, PutXtra, Zenon
<1> QED
  BY <1>2, <1>4 DEF XtrabackupEnds, GiveUp

LEMMA XbcloudStep ==
  ASSUME phys \in PhysRecords, XbcloudEnds
  PROVE  \/ /\ phys.xtra # "running" /\ sums' = 1..phys.sent
            /\ IsPhys(phys', phys.phase, phys.xtra, "ok", phys.sent, phys.late, phys.error)
         \/ /\ sums' = sums
            /\ IsPhys(phys', phys.phase, IF phys.xtra = "running" THEN "dead" ELSE phys.xtra,
                              "dead", phys.sent, phys.late, phys.error)
<1>1. "ok" \in PhysProcesses
  BY PhysFields, PhysConstants DEF PhysPhases, PhysProcesses
<1>2. IsPhys([phys EXCEPT !.cloud = "ok"],
        phys.phase, phys.xtra, "ok", phys.sent, phys.late, phys.error)
  BY <1>1, PutCloud, Zenon
<1>3. "dead" \in PhysProcesses /\ (IF phys.xtra = "running" THEN "dead" ELSE phys.xtra) \in PhysProcesses
  BY PhysFields, PhysConstants DEF PhysPhases, PhysProcesses
<1>4. IsPhys([phys EXCEPT !.cloud = "dead", !.xtra = IF phys.xtra = "running" THEN "dead" ELSE phys.xtra],
        phys.phase, IF phys.xtra = "running" THEN "dead" ELSE phys.xtra, "dead", phys.sent,
                          phys.late, phys.error)
  BY <1>3, PutDeath, Zenon
<1> QED
  BY <1>2, <1>4 DEF XbcloudEnds, GiveUp

LEMMA DeadlineStep ==
  ASSUME phys \in PhysRecords, Deadline
  PROVE  IsPhys(phys', phys.phase, IF phys.xtra = "running" THEN "dead" ELSE phys.xtra,
                    IF phys.cloud = "running" THEN "dead" ELSE phys.cloud, phys.sent, TRUE, phys.error)
<1>1. TRUE \in BOOLEAN /\ (IF phys.xtra = "running" THEN "dead" ELSE phys.xtra) \in PhysProcesses /\ (IF phys.cloud = "running" THEN "dead" ELSE phys.cloud) \in PhysProcesses
  BY PhysFields, PhysConstants DEF PhysPhases, PhysProcesses
<1>2. IsPhys([phys EXCEPT !.late = TRUE, !.xtra = IF phys.xtra = "running" THEN "dead" ELSE phys.xtra, !.cloud = IF phys.cloud = "running" THEN "dead" ELSE phys.cloud],
        phys.phase, IF phys.xtra = "running" THEN "dead" ELSE phys.xtra,
                          IF phys.cloud = "running" THEN "dead" ELSE phys.cloud, phys.sent, TRUE, phys.error)
  BY <1>1, PutLate, Zenon
<1> QED
  BY <1>2 DEF Deadline, GiveUp

LEMMA CheckStep ==
  ASSUME phys \in PhysRecords, NEW k \in Checkers, CheckChunk(k)
  PROVE  \/ /\ check[k] \in sums /\ remote[check[k]] = "good"
            /\ verified' = verified \cup {check[k]} /\ phys' = phys
         \/ /\ IsPhys(phys', phys.phase, phys.xtra, phys.cloud, phys.sent, phys.late, TRUE)
            /\ verified' = verified
<1>1. TRUE \in BOOLEAN
  OBVIOUS
<1>2. IsPhys([phys EXCEPT !.error = TRUE],
         phys.phase, phys.xtra, phys.cloud, phys.sent, phys.late, TRUE)
  BY <1>1, PutError, Zenon
<1> QED
  BY <1>2 DEF CheckChunk

LEMMA PhysStart == PhysInit => PhysInv
<1> SUFFICES ASSUME PhysInit PROVE PhysInv
  OBVIOUS
<1>1. PhysTypeOK
  <2>1. phys \in [phase : PhysPhases, xtra : PhysProcesses, cloud : PhysProcesses,
                  sent : 0..Stream, late : BOOLEAN, error : BOOLEAN]
    <3>1. "start" \in PhysPhases /\ "none" \in PhysProcesses /\ 0 \in 0..Stream
      BY PhysConstants DEF PhysPhases, PhysProcesses
    <3> QED
      BY <3>1 DEF PhysInit
  <2> QED
    BY <2>1 DEF PhysInit, PhysTypeOK
<1>2. Pipeline /\ ChecksAfterStream /\ Accounted /\ Compared
  BY DEF PhysInit, Pipeline, ChecksAfterStream, Accounted, Compared
<1> QED
  BY <1>1, <1>2 DEF PhysInv

LEMMA PhysTypeStep == PhysTypeOK /\ [PhysNext]_physVars => PhysTypeOK'
<1> SUFFICES ASSUME PhysTypeOK, [PhysNext]_physVars
             PROVE  PhysTypeOK'
  OBVIOUS
<1>0. phys \in PhysRecords
  BY DEF PhysTypeOK, PhysRecords
<1> USE <1>0, PhysFields, PhysConstants DEF IsPhys, PhysPhases, PhysTypeOK, PhysRecords, Chunk, Listed
<1>1. CASE StartAttempt
  BY <1>1, StartStep, PhysPhase DEF Kept
<1>2. CASE StreamChunk
  BY <1>2, StreamStep DEF StreamChunk, Kept
<1>3. CASE XtrabackupEnds
  BY <1>3, XtrabackupStep DEF XtrabackupEnds, Kept
<1>4. CASE XbcloudEnds
  BY <1>4, XbcloudStep DEF XbcloudEnds, Kept
<1>5. CASE Deadline
  BY <1>5, DeadlineStep DEF Deadline, Kept
<1>6. CASE JudgePipeline
  BY <1>6, PhysPhase DEF JudgePipeline, GiveUp, PipelineSound, Kept
<1>7. CASE ListPrefix
  BY <1>7, PhysPhase DEF ListPrefix, GiveUp, Kept
<1>8. CASE FeedChecker
  BY <1>8 DEF FeedChecker
<1>9. ASSUME NEW k \in Checkers, CheckChunk(k)
      PROVE  PhysTypeOK'
  BY <1>9, CheckStep DEF CheckChunk
<1>10. CASE EndVerify
  BY <1>10, PhysPhase DEF EndVerify, GiveUp, Kept
<1>11. CASE PublishMarker
  BY <1>11, PhysPhase DEF PublishMarker, GiveUp, Kept
<1>12. CASE CheckMarker
  BY <1>12, PhysPhase DEF CheckMarker, GiveUp, Kept
<1>13. CASE UNCHANGED physVars
  BY <1>13 DEF physVars
<1> QED
  BY <1>1, <1>2, <1>3, <1>4, <1>5, <1>6, <1>7, <1>8, <1>9, <1>10, <1>11, <1>12, <1>13
  DEF PhysNext

LEMMA PipelineStep == PhysTypeOK /\ Pipeline /\ [PhysNext]_physVars => Pipeline'
<1> SUFFICES ASSUME PhysTypeOK /\ Pipeline, [PhysNext]_physVars
             PROVE  Pipeline'
  OBVIOUS
<1>0. phys \in PhysRecords
  BY DEF PhysTypeOK, PhysRecords
<1> USE <1>0, PhysFields, PhysConstants DEF IsPhys, PhysPhases, Pipeline
<1>1. CASE StartAttempt
  BY <1>1, StartStep, PhysPhase DEF Kept
<1>2. CASE StreamChunk
  BY <1>2, StreamStep DEF StreamChunk, Kept
<1>3. CASE XtrabackupEnds
  BY <1>3, XtrabackupStep DEF XtrabackupEnds, Kept
<1>4. CASE XbcloudEnds
  BY <1>4, XbcloudStep DEF XbcloudEnds, Kept
<1>5. CASE Deadline
  BY <1>5, DeadlineStep DEF Deadline, Kept
<1>6. CASE JudgePipeline
  BY <1>6, PhysPhase DEF JudgePipeline, GiveUp, PipelineSound, Kept
<1>7. CASE ListPrefix
  BY <1>7, PhysPhase DEF ListPrefix, GiveUp, Kept
<1>8. CASE FeedChecker
  BY <1>8 DEF FeedChecker
<1>9. ASSUME NEW k \in Checkers, CheckChunk(k)
      PROVE  Pipeline'
  BY <1>9, CheckStep DEF CheckChunk
<1>10. CASE EndVerify
  BY <1>10, PhysPhase DEF EndVerify, GiveUp, Kept
<1>11. CASE PublishMarker
  BY <1>11, PhysPhase DEF PublishMarker, GiveUp, Kept
<1>12. CASE CheckMarker
  BY <1>12, PhysPhase DEF CheckMarker, GiveUp, Kept
<1>13. CASE UNCHANGED physVars
  BY <1>13 DEF physVars
<1> QED
  BY <1>1, <1>2, <1>3, <1>4, <1>5, <1>6, <1>7, <1>8, <1>9, <1>10, <1>11, <1>12, <1>13
  DEF PhysNext

LEMMA ChecksStep == PhysTypeOK /\ Pipeline /\ ChecksAfterStream /\ [PhysNext]_physVars => ChecksAfterStream'
<1> SUFFICES ASSUME PhysTypeOK /\ Pipeline /\ ChecksAfterStream, [PhysNext]_physVars
             PROVE  ChecksAfterStream'
  OBVIOUS
<1>0. phys \in PhysRecords
  BY DEF PhysTypeOK, PhysRecords
<1> USE <1>0, PhysFields, PhysConstants DEF IsPhys, PhysPhases, PhysTypeOK, Pipeline, ChecksAfterStream
<1>1. CASE StartAttempt
  BY <1>1, StartStep, PhysPhase DEF Kept
<1>2. CASE StreamChunk
  <2>1. phys.xtra = "running" /\ phys'.xtra = "running" /\ verified' = verified
    BY <1>2, StreamStep DEF StreamChunk
  <2> QED
    BY <1>2, <2>1 DEF StreamChunk
<1>3. CASE XtrabackupEnds
  BY <1>3, XtrabackupStep DEF XtrabackupEnds, Kept
<1>4. CASE XbcloudEnds
  BY <1>4, XbcloudStep DEF XbcloudEnds, Kept
<1>5. CASE Deadline
  BY <1>5, DeadlineStep DEF Deadline, Kept
<1>6. CASE JudgePipeline
  BY <1>6, PhysPhase DEF JudgePipeline, GiveUp, PipelineSound, Kept
<1>7. CASE ListPrefix
  BY <1>7, PhysPhase DEF ListPrefix, GiveUp, Kept
<1>8. CASE FeedChecker
  BY <1>8 DEF FeedChecker
<1>9. ASSUME NEW k \in Checkers, CheckChunk(k)
      PROVE  ChecksAfterStream'
  BY <1>9, CheckStep DEF CheckChunk
<1>10. CASE EndVerify
  BY <1>10, PhysPhase DEF EndVerify, GiveUp, Kept
<1>11. CASE PublishMarker
  BY <1>11, PhysPhase DEF PublishMarker, GiveUp, Kept
<1>12. CASE CheckMarker
  BY <1>12, PhysPhase DEF CheckMarker, GiveUp, Kept
<1>13. CASE UNCHANGED physVars
  BY <1>13 DEF physVars
<1> QED
  BY <1>1, <1>2, <1>3, <1>4, <1>5, <1>6, <1>7, <1>8, <1>9, <1>10, <1>11, <1>12, <1>13
  DEF PhysNext

LEMMA AccountedStep == PhysTypeOK /\ Pipeline /\ ChecksAfterStream /\ Accounted
      /\ [PhysNext]_physVars => Accounted'
<1> SUFFICES ASSUME PhysTypeOK /\ Pipeline /\ ChecksAfterStream /\ Accounted, [PhysNext]_physVars
             PROVE  Accounted'
  OBVIOUS
<1>0. phys \in PhysRecords
  BY DEF PhysTypeOK, PhysRecords
<1> USE <1>0, PhysFields, PhysConstants DEF IsPhys, PhysPhases, PhysTypeOK, ChecksAfterStream, Accounted
<1>1. CASE StartAttempt
  BY <1>1, StartStep, PhysPhase DEF Kept
<1>2. CASE StreamChunk
  BY <1>2, StreamStep DEF StreamChunk, Kept
<1>3. CASE XtrabackupEnds
  BY <1>3, XtrabackupStep DEF XtrabackupEnds, Kept
<1>4. CASE XbcloudEnds
  BY <1>4, XbcloudStep DEF XbcloudEnds, Kept
<1>5. CASE Deadline
  BY <1>5, DeadlineStep DEF Deadline, Kept
<1>6. CASE JudgePipeline
  BY <1>6, PhysPhase DEF JudgePipeline, GiveUp, PipelineSound, Kept
<1>7. CASE ListPrefix
  BY <1>7, PhysPhase DEF ListPrefix, GiveUp, Kept
<1>8. CASE FeedChecker
  <2>1. PICK k \in Checkers, c \in Listed \ fed :
          /\ check[k] = 0 /\ check' = [check EXCEPT ![k] = c] /\ fed' = fed \cup {c}
          /\ verified' = verified /\ phys' = phys
    BY <1>8 DEF FeedChecker
  <2>2. check'[k] = c /\ \A j \in Checkers : j # k => check'[j] = check[j]
    BY <2>1
  <2>3. \A d \in fed : d # 0
    BY DEF Chunk
  <2> QED
    BY <2>1, <2>2, <2>3
<1>9. ASSUME NEW k \in Checkers, CheckChunk(k)
      PROVE  Accounted'
  BY <1>9, CheckStep DEF CheckChunk
<1>10. CASE EndVerify
  BY <1>10, PhysPhase DEF EndVerify, GiveUp, Kept
<1>11. CASE PublishMarker
  BY <1>11, PhysPhase DEF PublishMarker, GiveUp, Kept
<1>12. CASE CheckMarker
  BY <1>12, PhysPhase DEF CheckMarker, GiveUp, Kept
<1>13. CASE UNCHANGED physVars
  BY <1>13 DEF physVars
<1> QED
  BY <1>1, <1>2, <1>3, <1>4, <1>5, <1>6, <1>7, <1>8, <1>9, <1>10, <1>11, <1>12, <1>13
  DEF PhysNext

(* When the workers are done without an error, every chunk was compared.    *)
LEMMA AllVerified ==
  ASSUME Accounted, fed = Chunk, ~phys.error, verified \subseteq Chunk,
         \A c \in Chunk : \A k \in Checkers : check[k] # c
  PROVE  verified = Chunk
BY DEF Accounted

LEMMA CompleteStep == PhysInv /\ [PhysNext]_physVars => Compared'
<1> SUFFICES ASSUME PhysInv, [PhysNext]_physVars
             PROVE  Compared'
  OBVIOUS
<1>0. phys \in PhysRecords
  BY DEF PhysInv, PhysTypeOK, PhysRecords
<1>a. remote' = remote => Listed' = Listed
  BY DEF Listed
<1>b. /\ Pipeline /\ ChecksAfterStream /\ Accounted /\ Compared /\ 1 \in Chunk
      /\ sums \subseteq Chunk /\ fed \subseteq Chunk /\ verified \subseteq Chunk
  BY PhysConstants DEF PhysInv, PhysTypeOK, Chunk
<1> USE <1>0, <1>a, <1>b, PhysFields, PhysConstants DEF IsPhys, PhysPhases, Compared, Pipeline,
                  ChecksAfterStream, Accounted
<1>1. CASE StartAttempt
  BY <1>1, StartStep, PhysPhase DEF Kept
<1>2. CASE StreamChunk
  BY <1>2, StreamStep DEF StreamChunk, Kept
<1>3. CASE XtrabackupEnds
  BY <1>3, XtrabackupStep DEF XtrabackupEnds, Kept
<1>4. CASE XbcloudEnds
  BY <1>4, XbcloudStep DEF XbcloudEnds, Kept
<1>5. CASE Deadline
  BY <1>5, DeadlineStep DEF Deadline, Kept
<1>6. CASE JudgePipeline
  BY <1>6, PhysPhase DEF JudgePipeline, GiveUp, PipelineSound, Kept
<1>7. CASE ListPrefix
  <2>1. CASE ToPhase("verify")
    <3>1. /\ Cardinality(sums) = Cardinality(Listed) /\ phys.phase = "list"
          /\ marker' = marker /\ verified' = verified
      <4>1. phys'.phase = "verify"
        BY <2>1, PhysPhase
      <4>2. ~ToPhase("failed")
        BY <4>1, PhysPhase
      <4> QED
        BY <1>7, <4>2 DEF ListPrefix, GiveUp, Kept
    <3>2. sums = Chunk
      BY <3>1 DEF Chunk
    <3>3. IsFiniteSet(Chunk) /\ Listed \in SUBSET Chunk
      BY FS_Interval DEF Chunk, Listed
    <3>4. Listed = Chunk
      BY <3>1, <3>2, <3>3, FS_Subset
    <3> QED
      BY <1>7, <2>1, <3>1, <3>4, PhysPhase DEF ListPrefix, Kept
  <2>2. CASE ToPhase("failed")
    BY <1>7, <2>2, PhysPhase DEF ListPrefix, Kept
  <2> QED
    BY <1>7, <2>1, <2>2 DEF ListPrefix, GiveUp
<1>8. CASE FeedChecker
  BY <1>8 DEF FeedChecker
<1>9. ASSUME NEW k \in Checkers, CheckChunk(k)
      PROVE  Compared'
  BY <1>9, CheckStep DEF CheckChunk
<1>10. CASE EndVerify
  <2>1. CASE VerifiedAll
    <3>1. fed = Listed /\ ~phys.error /\ phys.phase = "verify" /\ Listed = Chunk
      BY <1>10, <2>1 DEF EndVerify, Cancelled, VerifiedAll
    <3>2. \A c \in Chunk : \A k \in Checkers : check[k] # c
      BY <1>10 DEF EndVerify, Chunk
    <3>3. verified = Chunk
      BY <3>1, <3>2, AllVerified
    <3> QED
      BY <1>10, <2>1, <3>1, <3>3, PhysPhase DEF EndVerify, Kept
  <2>2. CASE ~VerifiedAll
    BY <1>10, <2>2, PhysPhase DEF EndVerify, Kept
  <2> QED
    BY <2>1, <2>2
<1>11. CASE PublishMarker
  BY <1>11, PhysPhase DEF PublishMarker, GiveUp, Kept
<1>12. CASE CheckMarker
  BY <1>12, PhysPhase DEF CheckMarker, GiveUp, Kept
<1>13. CASE UNCHANGED physVars
  BY <1>13 DEF physVars
<1> QED
  BY <1>1, <1>2, <1>3, <1>4, <1>5, <1>6, <1>7, <1>8, <1>9, <1>10, <1>11, <1>12, <1>13
  DEF PhysNext

LEMMA PhysStep == PhysInv /\ [PhysNext]_physVars => PhysInv'
BY PhysTypeStep, PipelineStep, ChecksStep, AccountedStep, CompleteStep DEF PhysInv

LEMMA PhysAlways == PhysSpec => []PhysInv
BY PhysStart, PhysStep, PTL DEF PhysSpec

(* The variables of a physical attempt keep their types.                   *)
THEOREM PhysTypeCorrect == PhysSpec => []PhysTypeOK
  BY PhysAlways, PTL DEF PhysInv

(* The completion marker of a physical backup always stands for a stream   *)
(* that is in the store as a whole and was compared chunk by chunk, for a  *)
(* stream of any length, any number of workers and any failures.           *)
THEOREM MarkerAlwaysVerified == PhysSpec => []MarkerMeansVerified
<1>1. PhysInv => MarkerMeansVerified
  BY DEF PhysInv, ChecksAfterStream, Compared, MarkerMeansVerified
<1> QED
  BY <1>1, PhysAlways, PTL

-----------------------------------------------------------------------------
(* The multipart upload.                                                   *)
(* The record of the process: it names an upload from the answer of the    *)
(* store on, and its parts are acknowledged in order.                      *)
UploadRecords ==
  [pc : UploadStates, id : UploadIDs \cup {NoUpload}, acked : SUBSET (1..Parts)]

InOrder == \E k \in 0..Parts : upload.acked = 1..k

Named ==
  upload.pc \in {"record", "parts", "complete", "clear", "abort"} => upload.id \in UploadIDs

(* Which file or process knows of the uploads that are open: the process   *)
(* alone between the answer of the store and the journal, the journal at   *)
(* every other moment.  A new upload begins only without a journal.        *)
Journalled ==
  /\ IF upload.pc = "record" THEN open \subseteq {upload.id} \cup forgotten
     ELSE open \subseteq {journal} \cup forgotten
  /\ upload.pc \in {"initiate", "record"} => journal = NoUpload
  /\ upload.pc \in {"parts", "clear", "abort"} => journal = upload.id
  /\ upload.pc = "clear" => open \subseteq forgotten

MultipartInv == MultipartTypeOK /\ InOrder /\ Named /\ Journalled /\ ObjectIsWhole

-----------------------------------------------------------------------------
IsUpload(r, p, i, a) == r \in UploadRecords /\ r.pc = p /\ r.id = i /\ r.acked = a

LEMMA UploadFields ==
  ASSUME NEW r \in UploadRecords
  PROVE  IsUpload(r, r.pc, r.id, r.acked) /\ r.pc \in UploadStates
         /\ r.id \in UploadIDs \cup {NoUpload} /\ r.acked \subseteq 1..Parts
  BY DEF UploadRecords, IsUpload

LEMMA GotoStep ==
  ASSUME upload \in UploadRecords, NEW p \in UploadStates, Goto(p)
  PROVE  IsUpload(upload', p, upload.id, upload.acked)
  BY DEF Goto, UploadRecords, IsUpload

LEMMA StatesOfUpload ==
  /\ "idle" \in UploadStates /\ "recover" \in UploadStates /\ "initiate" \in UploadStates
  /\ "record" \in UploadStates /\ "parts" \in UploadStates /\ "complete" \in UploadStates
  /\ "clear" \in UploadStates /\ "head" \in UploadStates /\ "abort" \in UploadStates
  /\ "uploaded" \in UploadStates /\ "failed" \in UploadStates
  BY DEF UploadStates

LEMMA RestingRecord ==
  /\ IsUpload(Resting, "idle", NoUpload, {})
  /\ IsUpload([Resting EXCEPT !.pc = "recover"], "recover", NoUpload, {})
  BY StatesOfUpload DEF Resting, UploadRecords, IsUpload

(* The next part after 1..k is k + 1.                                      *)
LEMMA NextPart ==
  ASSUME NEW k \in 0..Parts, 1..k # 1..Parts
  PROVE  /\ Cardinality(1..k) + 1 = k + 1 /\ k + 1 \in 1..Parts
         /\ (1..k) \cup {k + 1} = 1..(k + 1)
<1>1. k \in Int /\ 1 \in Int /\ Parts \in Nat
  BY MultipartAssumption
<1>2. Cardinality(1..k) = IF 1 > k THEN 0 ELSE k - 1 + 1
  BY <1>1, FS_Interval
<1> QED
  BY <1>1, <1>2

LEMMA MultipartStart == MultipartInit => MultipartInv
<1> SUFFICES ASSUME MultipartInit PROVE MultipartInv
  OBVIOUS
<1>1. upload = Resting /\ IsUpload(upload, "idle", NoUpload, {})
  BY RestingRecord DEF MultipartInit
<1>2. MultipartTypeOK
  BY <1>1, MultipartAssumption DEF MultipartInit, MultipartTypeOK, IsUpload, UploadRecords
<1>3. InOrder
  <2>1. 0 \in 0..Parts /\ {} = 1..0
    BY MultipartAssumption
  <2> QED
    BY <1>1, <2>1 DEF InOrder, IsUpload
<1> QED
  BY <1>1, <1>2, <1>3 DEF MultipartInit, MultipartInv, Named, Journalled, ObjectIsWhole, IsUpload

(* Aborting an upload opens none, and one that the answer knows to be      *)
(* ended is not open.                                                      *)
LEMMA AbortAnswer ==
  ASSUME NEW u, NEW a \in AbortAnswers(u)
  PROVE  a.open \subseteq open /\ (a.answer \in {"ok", "404"} => a.open = open \ {u})
  BY DEF AbortAnswers

LEMMA MultipartStep == MultipartInv /\ [MultipartNext]_multipartVars => MultipartInv'
<1> SUFFICES ASSUME MultipartInv, [MultipartNext]_multipartVars PROVE MultipartInv'
  OBVIOUS
<1>0. /\ upload \in UploadRecords /\ opened \in 0..MaxUploads /\ open \subseteq UploadIDs
      /\ forgotten \subseteq UploadIDs /\ stored \in [UploadIDs -> SUBSET (1..Parts)]
      /\ object \subseteq 1..Parts /\ journal \in UploadIDs \cup {NoUpload}
      /\ upload.pc \in UploadStates /\ upload.id \in UploadIDs \cup {NoUpload}
      /\ upload.acked \subseteq 1..Parts
  BY UploadFields DEF MultipartInv, MultipartTypeOK, UploadRecords
<1>00. InOrder /\ Named /\ Journalled /\ ObjectIsWhole
  BY DEF MultipartInv
<1>a. ASSUME NEW p \in UploadStates, NEW i, NEW a, IsUpload(upload', p, i, a),
             opened' \in 0..MaxUploads, open' \subseteq UploadIDs, forgotten' \subseteq UploadIDs,
             stored' \in [UploadIDs -> SUBSET (1..Parts)], object' \subseteq 1..Parts,
             journal' \in UploadIDs \cup {NoUpload},
             \E k \in 0..Parts : a = 1..k,
             p \in {"record", "parts", "complete", "clear", "abort"} => i \in UploadIDs,
             IF p = "record" THEN open' \subseteq {i} \cup forgotten'
             ELSE open' \subseteq {journal'} \cup forgotten',
             p \in {"initiate", "record"} => journal' = NoUpload,
             p \in {"parts", "clear", "abort"} => journal' = i,
             p = "clear" => open' \subseteq forgotten',
             object' \in {{}, 1..Parts}, p = "uploaded" => object' = 1..Parts
      PROVE  MultipartInv'
  BY <1>a DEF MultipartInv, MultipartTypeOK, InOrder, Named, Journalled, ObjectIsWhole,
              IsUpload, UploadRecords
<1>b. \E k \in 0..Parts : upload.acked = 1..k
  BY <1>00 DEF InOrder
<1>c. \E k \in 0..Parts : {} = 1..k
  <2>1. 0 \in 0..Parts /\ {} = 1..0
    BY MultipartAssumption
  <2> QED
    BY <2>1
<1> USE <1>0, <1>00, StatesOfUpload
<1>1. CASE StartUpload
  <2>1. IsUpload(upload', "recover", NoUpload, {})
    BY <1>1, RestingRecord DEF StartUpload
  <2>2. /\ upload.pc # "record" /\ upload.pc # "initiate"
        /\ UNCHANGED <<opened, open, stored, object, journal, forgotten>>
    BY <1>1 DEF StartUpload
  <2> QED
    BY <2>1, <2>2, <1>a, <1>c DEF Journalled, ObjectIsWhole
<1>2. CASE Recover
  <2>1. upload.pc = "recover" /\ UNCHANGED <<opened, stored, object, forgotten>>
    BY <1>2 DEF Recover
  <2>2. open \subseteq {journal} \cup forgotten
    BY <2>1 DEF Journalled
  <2>3. CASE journal = NoUpload
    <3>1. Goto("initiate") /\ open' = open /\ journal' = journal
      BY <1>2, <2>3 DEF Recover
    <3>2. IsUpload(upload', "initiate", upload.id, upload.acked)
      BY <3>1, GotoStep
    <3> QED
      BY <2>1, <2>2, <2>3, <3>1, <3>2, <1>a, <1>b DEF ObjectIsWhole
  <2>4. CASE journal # NoUpload
    <3>1. PICK a \in AbortAnswers(journal) :
            /\ open' = a.open
            /\ \/ a.answer \in {"ok", "404"} /\ Goto("initiate") /\ journal' = NoUpload
               \/ Goto("failed") /\ journal' = journal
      BY <1>2, <2>4 DEF Recover
    <3>2. open' \subseteq open /\ (a.answer \in {"ok", "404"} => open' = open \ {journal})
      BY <3>1, AbortAnswer
    <3>3. CASE Goto("failed") /\ journal' = journal
      <4>1. IsUpload(upload', "failed", upload.id, upload.acked)
        BY <3>3, GotoStep
      <4> QED
        BY <2>1, <2>2, <3>2, <3>3, <4>1, <1>a, <1>b DEF ObjectIsWhole
    <3>4. CASE a.answer \in {"ok", "404"} /\ Goto("initiate") /\ journal' = NoUpload
      <4>1. IsUpload(upload', "initiate", upload.id, upload.acked)
        BY <3>4, GotoStep
      <4>2. open' \subseteq forgotten
        BY <3>4, <3>2, <2>2
      <4> QED
        BY <2>1, <4>1, <4>2, <3>4, <1>a, <1>b DEF ObjectIsWhole
    <3> QED
      BY <3>1, <3>3, <3>4
  <2> QED
    BY <2>3, <2>4
<1>3. CASE Initiate
  <2>1. /\ upload.pc = "initiate" /\ opened < MaxUploads
        /\ UNCHANGED <<stored, object, journal>>
    BY <1>3 DEF Initiate
  <2>2. open \subseteq {journal} \cup forgotten /\ journal = NoUpload /\ open \subseteq forgotten
    BY <2>1, MultipartAssumption DEF Journalled
  <2>3. opened + 1 \in 0..MaxUploads /\ opened + 1 \in UploadIDs
    BY <2>1, MultipartAssumption DEF UploadIDs
  <2>4. CASE /\ opened' = opened + 1 /\ open' = open \cup {opened + 1}
             /\ upload' = [upload EXCEPT !.pc = "record", !.id = opened + 1]
             /\ UNCHANGED forgotten
    <3>1. IsUpload(upload', "record", opened + 1, upload.acked)
      BY <2>3, <2>4 DEF IsUpload, UploadRecords
    <3> QED
      BY <2>1, <2>2, <2>3, <2>4, <3>1, <1>a, <1>b DEF ObjectIsWhole
  <2>5. ASSUME /\ opened' = opened + 1 /\ open' = open \cup {opened + 1}
               /\ forgotten' = forgotten \cup {opened + 1},
               NEW p \in {"initiate", "failed"}, Goto(p)
        PROVE  MultipartInv'
    <3>1. p \in UploadStates /\ IsUpload(upload', p, upload.id, upload.acked)
      BY <2>5, GotoStep
    <3> QED
      BY <2>1, <2>2, <2>3, <2>5, <3>1, <1>a, <1>b DEF ObjectIsWhole
  <2>6. CASE Goto("failed") /\ UNCHANGED <<opened, open, forgotten>>
    <3>1. IsUpload(upload', "failed", upload.id, upload.acked)
      BY <2>6, GotoStep
    <3> QED
      BY <2>1, <2>2, <2>6, <3>1, <1>a, <1>b DEF ObjectIsWhole
  <2> QED
    BY <1>3, <2>4, <2>5, <2>6 DEF Initiate
<1>4. CASE Record
  <2>1. upload.pc = "record" /\ UNCHANGED <<opened, stored, object>>
    BY <1>4 DEF Record
  <2>2. upload.id \in UploadIDs /\ open \subseteq {upload.id} \cup forgotten
    BY <2>1 DEF Journalled, Named
  <2>3. CASE journal' = upload.id /\ Goto("parts") /\ UNCHANGED <<open, forgotten>>
    <3>1. IsUpload(upload', "parts", upload.id, upload.acked)
      BY <2>3, GotoStep
    <3> QED
      BY <2>1, <2>2, <2>3, <3>1, <1>a, <1>b DEF ObjectIsWhole
  <2>4. ASSUME NEW a \in AbortAnswers(upload.id), open' = a.open, Goto("failed"),
               journal' \in {journal, upload.id},
               forgotten' = IF journal' = upload.id THEN forgotten ELSE forgotten \cup {upload.id}
        PROVE  MultipartInv'
    <3>1. IsUpload(upload', "failed", upload.id, upload.acked)
      BY <2>4, GotoStep
    <3>2. open' \subseteq open
      BY <2>4, AbortAnswer
    <3>3. open' \subseteq {journal'} \cup forgotten' /\ forgotten' \subseteq UploadIDs
      BY <2>2, <2>4, <3>2
    <3> QED
      BY <2>1, <2>2, <2>4, <3>1, <3>2, <3>3, <1>a, <1>b DEF ObjectIsWhole
  <2> QED
    BY <1>4, <2>3, <2>4 DEF Record
<1>5. CASE UploadPart
  <2>1. PICK k \in 0..Parts : upload.acked = 1..k
    BY <1>b
  <2>2. /\ upload.pc = "parts" /\ upload.acked # 1..Parts
        /\ UNCHANGED <<opened, open, object, journal, forgotten>>
    BY <1>5 DEF UploadPart
  <2>3. /\ Cardinality(upload.acked) + 1 = k + 1 /\ k + 1 \in 1..Parts
        /\ upload.acked \cup {k + 1} = 1..(k + 1) /\ k + 1 \in 0..Parts
    BY <2>1, <2>2, NextPart, MultipartAssumption
  <2>4. /\ upload.id \in UploadIDs /\ open \subseteq {journal} \cup forgotten
        /\ journal = upload.id
    BY <2>2 DEF Journalled, Named
  <2>5. [stored EXCEPT ![upload.id] = @ \cup {k + 1}] \in [UploadIDs -> SUBSET (1..Parts)]
    BY <2>3, <2>4
  <2>6. CASE /\ stored' = [stored EXCEPT ![upload.id] = @ \cup {k + 1}]
             /\ upload' = [upload EXCEPT !.acked = @ \cup {k + 1}]
    <3>1. IsUpload(upload', "parts", upload.id, 1..(k + 1))
      BY <2>2, <2>3, <2>6 DEF IsUpload, UploadRecords
    <3>2. \E j \in 0..Parts : 1..(k + 1) = 1..j
      BY <2>3
    <3> QED
      BY <2>2, <2>4, <2>5, <2>6, <3>1, <3>2, <1>a DEF ObjectIsWhole
  <2>7. CASE /\ stored' \in {stored, [stored EXCEPT ![upload.id] = @ \cup {k + 1}]}
             /\ Goto("abort")
    <3>1. IsUpload(upload', "abort", upload.id, upload.acked)
      BY <2>7, GotoStep
    <3> QED
      BY <2>2, <2>4, <2>5, <2>7, <3>1, <1>a, <1>b DEF ObjectIsWhole
  <2> QED
    BY <1>5, <2>3, <2>6, <2>7 DEF UploadPart
<1>6. CASE Complete
  <2>1. /\ upload.pc = "parts" /\ upload.acked = 1..Parts /\ UNCHANGED <<opened, stored, journal>>
    BY <1>6 DEF Complete, AllPartsSent
  <2>2. /\ upload.id \in UploadIDs /\ open \subseteq {journal} \cup forgotten
        /\ journal = upload.id
    BY <2>1 DEF Journalled, Named
  <2>3. /\ object' \in {{}, 1..Parts} /\ open' \subseteq open /\ forgotten \subseteq forgotten'
        /\ forgotten' \subseteq UploadIDs
    BY <1>6, <2>1, <2>2 DEF Complete, ObjectIsWhole
  <2>4. \E p \in {"clear", "abort"} : Goto(p)
    BY <1>6 DEF Complete
  <2>5. PICK p \in {"clear", "abort"} : IsUpload(upload', p, upload.id, upload.acked)
    BY <2>4, GotoStep
  <2>6. upload' # [upload EXCEPT !.pc = "abort"] => open' \subseteq forgotten'
    BY <1>6, <2>2 DEF Complete, Goto
  <2>7. p = "clear" => open' \subseteq forgotten'
    BY <2>5, <2>6 DEF IsUpload, UploadRecords
  <2> QED
    BY <2>1, <2>2, <2>3, <2>5, <2>7, <1>a, <1>b
<1>7. CASE RemoveJournal
  <2>1. /\ upload.pc = "clear" /\ UNCHANGED <<opened, open, stored, object, forgotten>>
    BY <1>7 DEF RemoveJournal
  <2>2. CASE journal' = NoUpload /\ Goto("head")
    <3>1. IsUpload(upload', "head", upload.id, upload.acked)
      BY <2>2, GotoStep
    <3>2. open \subseteq forgotten
      BY <2>1 DEF Journalled
    <3> QED
      BY <2>1, <2>2, <3>1, <3>2, <1>a, <1>b DEF ObjectIsWhole
  <2>3. CASE journal' = journal /\ Goto("failed")
    <3>1. IsUpload(upload', "failed", upload.id, upload.acked)
      BY <2>3, GotoStep
    <3> QED
      BY <2>1, <2>3, <3>1, <1>a, <1>b DEF Journalled, ObjectIsWhole
  <2> QED
    BY <1>7, <2>2, <2>3 DEF RemoveJournal
<1>8. CASE CheckObject
  <2>1. /\ upload.pc = "head" /\ UNCHANGED <<opened, open, stored, object, journal, forgotten>>
    BY <1>8 DEF CheckObject
  <2>2. \E p \in {"uploaded", "failed"} : Goto(p) /\ (p = "uploaded" => object = 1..Parts)
    BY <1>8 DEF CheckObject
  <2>3. PICK p \in {"uploaded", "failed"} :
          /\ IsUpload(upload', p, upload.id, upload.acked)
          /\ p = "uploaded" => object = 1..Parts
    BY <2>2, GotoStep
  <2> QED
    BY <2>1, <2>3, <1>a, <1>b DEF Journalled, ObjectIsWhole
<1>9. CASE AbortFailed
  <2>1. /\ upload.pc = "abort" /\ Goto("failed") /\ UNCHANGED <<opened, stored, object, forgotten>>
    BY <1>9 DEF AbortFailed
  <2>2. /\ upload.id \in UploadIDs /\ open \subseteq {journal} \cup forgotten
        /\ journal = upload.id
    BY <2>1 DEF Journalled, Named
  <2>3. PICK a \in AbortAnswers(upload.id) :
          /\ open' = a.open
          /\ journal' \in IF a.answer = "ok" THEN {NoUpload, journal} ELSE {journal}
    BY <1>9 DEF AbortFailed
  <2>4. open' \subseteq open /\ (a.answer = "ok" => open' = open \ {upload.id})
    BY <2>3, AbortAnswer
  <2>5. open' \subseteq {journal'} \cup forgotten /\ journal' \in UploadIDs \cup {NoUpload}
    BY <2>2, <2>3, <2>4
  <2>6. IsUpload(upload', "failed", upload.id, upload.acked)
    BY <2>1, GotoStep
  <2> QED
    BY <2>1, <2>4, <2>5, <2>6, <1>a, <1>b DEF ObjectIsWhole
<1>10. CASE CrashUpload
  <2>1. IsUpload(upload', "idle", NoUpload, {})
    BY <1>10, RestingRecord DEF CrashUpload
  <2>2. /\ UNCHANGED <<opened, open, stored, object, journal>>
        /\ forgotten' = IF upload.pc = "record" THEN forgotten \cup {upload.id} ELSE forgotten
    BY <1>10 DEF CrashUpload
  <2>3. forgotten' \subseteq UploadIDs /\ open' \subseteq {journal'} \cup forgotten'
    BY <2>2 DEF Journalled, Named
  <2> QED
    BY <2>1, <2>2, <2>3, <1>a, <1>c DEF ObjectIsWhole
<1>11. CASE UNCHANGED multipartVars
  BY <1>11 DEF multipartVars, MultipartInv, MultipartTypeOK, InOrder, Named, Journalled, ObjectIsWhole
<1> QED
  BY <1>1, <1>2, <1>3, <1>4, <1>5, <1>6, <1>7, <1>8, <1>9, <1>10, <1>11 DEF MultipartNext

LEMMA MultipartAlways == MultipartSpec => []MultipartInv
<1> QED
  BY MultipartStart, MultipartStep, PTL DEF MultipartSpec

(* The uploader's state has the form of its struct and of the store's     *)
(* answers, for any number of parts and of uploads.                        *)
THEOREM MultipartTypeCorrect == MultipartSpec => []MultipartTypeOK
<1>1. MultipartInv => MultipartTypeOK
  BY DEF MultipartInv
<1> QED
  BY <1>1, MultipartAlways, PTL

(* The object under the key holds every part or nothing, and an upload     *)
(* reported as done has left every part.  The parts are acknowledged in    *)
(* order, so the completion lists all or the guard keeps it back.          *)
THEOREM ObjectAlwaysWhole == MultipartSpec => []ObjectIsWhole
<1>1. MultipartInv => ObjectIsWhole
  BY DEF MultipartInv
<1> QED
  BY <1>1, MultipartAlways, PTL

(* An upload that the store keeps open is known to the process or to the   *)
(* journal, except those no file could name.  In the inductive invariant   *)
(* the journal alone knows it at every moment but one.                     *)
THEOREM OpenUploadsAlwaysKnown == MultipartSpec => []OpenUploadsKnown
<1>1. MultipartInv => OpenUploadsKnown
  BY DEF MultipartInv, Journalled, OpenUploadsKnown
<1> QED
  BY <1>1, MultipartAlways, PTL

-----------------------------------------------------------------------------
(* The page of a manual run.                                               *)
PageRecords == [step : StepNames, cursor : 0..2, force : BOOLEAN, preflight : BOOLEAN,
                running : BOOLEAN, log : Runs \cup {None}]
RunRecords == [state : RunStates, cfg : RunConfigs \cup {None}, outcome : Outcomes \cup {None},
               left : 0..LogLines, held : 0..LogBuffer]
Counts == [Runs -> Nat]

LEMMA PageUnfolded ==
  PageTypeOK <=>
    /\ page \in PageRecords /\ confirm \in RunConfigs \cup {None}
    /\ run \in [Runs -> RunRecords] /\ readers \in Counts /\ lines \in Counts
    /\ closes \in Counts /\ locked \in BOOLEAN
BY DEF PageTypeOK, PageRecords, RunRecords, Counts

LEMMA PageFields ==
  ASSUME NEW p \in PageRecords
  PROVE  p.step \in StepNames /\ p.cursor \in 0..2 /\ p.force \in BOOLEAN
         /\ p.preflight \in BOOLEAN /\ p.log \in Runs \cup {None}
BY DEF PageRecords

(* What the keys and the messages make of the page.                        *)
LEMMA PageGoes ==
  ASSUME NEW p \in PageRecords, NEW s \in StepNames
  PROVE  [p EXCEPT !.step = s, !.cursor = 0] \in PageRecords
<1>1. 0 \in 0..2
  OBVIOUS
<1> QED
  BY <1>1 DEF PageRecords

LEMMA PagePoints ==
  ASSUME NEW p \in PageRecords, NEW c \in 0..2
  PROVE  [p EXCEPT !.cursor = c] \in PageRecords
BY DEF PageRecords

LEMMA PageStarts ==
  ASSUME NEW p \in PageRecords, NEW s \in StepNames, NEW r \in Runs
  PROVE  [p EXCEPT !.running = TRUE, !.step = s, !.log = r] \in PageRecords
BY DEF PageRecords

LEMMA PageForgets ==
  ASSUME NEW p \in PageRecords
  PROVE  [p EXCEPT !.log = None] \in PageRecords
BY DEF PageRecords

LEMMA PageEnds ==
  ASSUME NEW p \in PageRecords, NEW s \in StepNames
  PROVE  /\ [p EXCEPT !.running = FALSE, !.step = s] \in PageRecords
         /\ [p EXCEPT !.running = FALSE, !.step = s, !.cursor = 2] \in PageRecords
<1>1. 2 \in 0..2
  OBVIOUS
<1> QED
  BY <1>1 DEF PageRecords

LEMMA PageSwitches ==
  ASSUME NEW p \in PageRecords
  PROVE  /\ [p EXCEPT !.force = ~@] \in PageRecords
         /\ [p EXCEPT !.preflight = ~@] \in PageRecords
<1>1. \A b \in BOOLEAN : [p EXCEPT !.force = b] \in PageRecords
  BY DEF PageRecords
<1>2. \A b \in BOOLEAN : [p EXCEPT !.preflight = b] \in PageRecords
  BY DEF PageRecords
<1>3. (~p.force) \in BOOLEAN /\ (~p.preflight) \in BOOLEAN
  BY Zenon
<1> QED
  BY <1>1, <1>2, <1>3

LEMMA StepList ==
  /\ StepNames = {"mode", "upload", "scope", "preview", "running", "done"}
  /\ \A i \in 1..6 : Steps[i] \in StepNames
  /\ Position("mode") = 1 /\ Position("upload") = 2 /\ Position("scope") = 3
  /\ Position("preview") = 4 /\ Position("running") = 5 /\ Position("done") = 6
BY DEF StepNames, Steps, Position

LEMMA Counted ==
  ASSUME NEW f \in Counts, NEW r \in Runs
  PROVE  /\ [f EXCEPT ![r] = @ + 1] \in Counts
         /\ f[r] > 0 => [f EXCEPT ![r] = @ - 1] \in Counts
BY DEF Counts

LEMMA PageStart == PageInit => PageTypeOK
<1> SUFFICES ASSUME PageInit PROVE PageTypeOK
  OBVIOUS
<1>1. page \in PageRecords
  BY StepList DEF PageInit, PageRecords
<1>2. [state |-> "new", cfg |-> None, outcome |-> None, left |-> LogLines, held |-> 0] \in RunRecords
  BY PageAssumption DEF RunRecords, RunStates
<1> QED
  BY <1>1, <1>2, PageUnfolded DEF PageInit, Counts

LEMMA KeysTyped ==
  ASSUME PageTypeOK,
         \/ MoveCursor \/ StepBack \/ StepForward \/ ToggleForce \/ TogglePreflight
         \/ AskStart \/ Restart \/ VisitOtherPage \/ Cancel \/ OtherProcess
  PROVE  PageTypeOK'
<1>0. page \in PageRecords /\ page.step \in StepNames
  BY PageUnfolded, PageFields
<1>1. run' = run /\ UNCHANGED logVars
  BY DEF MoveCursor, StepBack, StepForward, ToggleForce, TogglePreflight, AskStart, Restart,
         VisitOtherPage, Cancel, OtherProcess
<1>2. SUFFICES page' \in PageRecords /\ confirm' \in RunConfigs \cup {None} /\ locked' \in BOOLEAN
  BY <1>1, PageUnfolded DEF PageTypeOK, PageRecords, RunRecords, Counts, logVars
<1>3. CASE MoveCursor
  <2>1. PICK to \in {page.cursor - 1, page.cursor + 1} \cap 0..maxManualSelection(page.step) :
          page' = [page EXCEPT !.cursor = to]
    BY <1>3 DEF MoveCursor
  <2>2. maxManualSelection(page.step) \in 0..2
    BY DEF maxManualSelection
  <2>3. to \in 0..2
    BY <2>2
  <2> QED
    BY <1>0, <1>3, <2>1, <2>3, PagePoints, PageUnfolded DEF MoveCursor
<1>4. CASE StepBack
  <2>1. Position(page.step) - 1 \in 1..6
    BY <1>0, <1>4, StepList DEF StepBack
  <2> QED
    BY <1>0, <1>4, <2>1, StepList, PageGoes, PageUnfolded DEF StepBack, Go
<1>5. CASE StepForward
  <2>1. Position(page.step) + 1 \in 1..6
    BY <1>0, <1>5, StepList DEF StepForward
  <2> QED
    BY <1>0, <1>5, <2>1, StepList, PageGoes, PageUnfolded DEF StepForward, Go
<1>6. CASE ToggleForce \/ TogglePreflight
  BY <1>0, <1>6, PageSwitches, PageUnfolded DEF ToggleForce, TogglePreflight
<1>7. CASE AskStart
  BY <1>0, <1>7, PageFields, PageUnfolded DEF AskStart, RunConfigs
<1>8. CASE Restart
  BY <1>0, <1>8, StepList, PageGoes, PageUnfolded DEF Restart, Go
<1>9. CASE VisitOtherPage
  <2>1. 0 \in 0..2
    OBVIOUS
  <2> QED
    BY <1>0, <1>9, <2>1, PagePoints, PageUnfolded DEF VisitOtherPage
<1>10. CASE Cancel \/ OtherProcess
  BY <1>10, PageUnfolded DEF Cancel, OtherProcess
<1> QED
  BY <1>3, <1>4, <1>5, <1>6, <1>7, <1>8, <1>9, <1>10

(* What the messages and the goroutines make of the record of a backup.    *)
LEMMA RunUpdates ==
  ASSUME NEW g \in RunRecords, NEW s \in RunStates
  PROVE  /\ [g EXCEPT !.state = s] \in RunRecords
         /\ \A c \in RunConfigs : [g EXCEPT !.state = s, !.cfg = c] \in RunRecords
         /\ \A o \in Outcomes : [g EXCEPT !.state = s, !.outcome = o] \in RunRecords
BY DEF RunRecords

LEMMA RunChannel ==
  ASSUME NEW g \in RunRecords
  PROVE  /\ g.left > 0 /\ g.held < LogBuffer
              => [g EXCEPT !.left = @ - 1, !.held = @ + 1] \in RunRecords
         /\ g.held > 0 => [g EXCEPT !.held = @ - 1] \in RunRecords
<1>1. g.left \in 0..LogLines /\ g.held \in 0..LogBuffer
  BY DEF RunRecords
<1>2. g.left > 0 => g.left - 1 \in 0..LogLines
  BY <1>1, PageAssumption
<1>3. g.held < LogBuffer => g.held + 1 \in 0..LogBuffer
  BY <1>1, PageAssumption
<1>4. g.held > 0 => g.held - 1 \in 0..LogBuffer
  BY <1>1, PageAssumption
<1> QED
  BY <1>2, <1>3, <1>4 DEF RunRecords

LEMMA ConfirmTyped == ASSUME PageTypeOK, ConfirmStart PROVE PageTypeOK'
<1>1. PICK r \in Runs : run' = [run EXCEPT ![r].state = "confirmed", ![r].cfg = confirm]
  BY DEF ConfirmStart
<1>2. confirm \in RunConfigs /\ run \in [Runs -> RunRecords] /\ "confirmed" \in RunStates
  BY PageUnfolded DEF ConfirmStart, RunStates
<1>3. [run[r] EXCEPT !.state = "confirmed", !.cfg = confirm] \in RunRecords
  BY <1>2, RunUpdates
<1>4. run' = [run EXCEPT ![r] = [run[r] EXCEPT !.state = "confirmed", !.cfg = confirm]]
  BY <1>1, <1>2
<1>5. run' \in [Runs -> RunRecords]
  BY <1>2, <1>3, <1>4
<1> QED
  BY <1>5, PageUnfolded DEF ConfirmStart, PageTypeOK, PageRecords, RunRecords, Counts, logVars

(* A step of backup r that changes its own record only, and the counts of  *)
(* goroutines and messages by one.                                         *)
LEMMA RunTyped ==
  ASSUME PageTypeOK, NEW r \in Runs, RunSteps(r)
  PROVE  PageTypeOK'
<1>0. page \in PageRecords /\ run \in [Runs -> RunRecords] /\ run[r] \in RunRecords
      /\ readers \in Counts /\ lines \in Counts /\ closes \in Counts
  BY PageUnfolded
<1>1. UNCHANGED <<confirm, locked>>
  BY DEF RunSteps, StartBackup, ShowLine, LogClosed, RunFinished, EnterBackup, WriteLine,
         EndBackup, ReadLine, ReadClosed
<1>2. ASSUME page' \in PageRecords, NEW g \in RunRecords, run' = [run EXCEPT ![r] = g],
             readers' \in Counts, lines' \in Counts, closes' \in Counts
      PROVE  PageTypeOK'
  <2>1. run' \in [Runs -> RunRecords]
    BY <1>0, <1>2
  <2> QED
    BY <1>1, <1>2, <2>1, PageUnfolded DEF PageTypeOK, PageRecords, RunRecords, Counts
<1>3. run = [run EXCEPT ![r] = run[r]]
  BY <1>0
<1>4. {"started", "working", "closed", "ended"} \subseteq RunStates
      /\ {"running", "preview", "done"} \subseteq StepNames
      /\ {"busy", "ok", "failed"} = Outcomes
  BY StepList DEF RunStates, Outcomes
<1>5. CASE StartBackup(r)
  <2>1. run' = [run EXCEPT ![r] = [run[r] EXCEPT !.state = "started"]]
    BY <1>5 DEF StartBackup
  <2> QED
    BY <1>0, <1>2, <1>4, <1>5, <2>1, RunUpdates, PageStarts, Counted DEF StartBackup
<1>6. CASE ShowLine(r)
  <2>1. page.log \in Runs \cup {None}
    BY <1>0, PageFields
  <2> QED
    BY <1>0, <1>2, <1>3, <1>6, <2>1, Counted DEF ShowLine
<1>7. CASE LogClosed(r)
  BY <1>0, <1>2, <1>3, <1>7, PageForgets, Counted DEF LogClosed
<1>8. CASE RunFinished(r)
  <2>1. run' = [run EXCEPT ![r] = [run[r] EXCEPT !.state = "ended"]]
    BY <1>8 DEF RunFinished
  <2> QED
    BY <1>0, <1>2, <1>4, <1>8, <2>1, RunUpdates, PageEnds DEF RunFinished, logVars
<1>9. CASE EnterBackup(r)
  <2>1. \/ run' = [run EXCEPT ![r] = [run[r] EXCEPT !.state = "closed", !.outcome = "busy"]]
        \/ run' = [run EXCEPT ![r] = [run[r] EXCEPT !.state = "working"]]
    BY <1>0, <1>9 DEF EnterBackup
  <2> QED
    BY <1>0, <1>2, <1>4, <1>9, <2>1, RunUpdates DEF EnterBackup, logVars
<1>10. CASE WriteLine(r)
  <2>1. run' = [run EXCEPT ![r] = [run[r] EXCEPT !.left = @ - 1, !.held = @ + 1]]
    BY <1>0, <1>10 DEF WriteLine
  <2> QED
    BY <1>0, <1>2, <1>10, <2>1, RunChannel DEF WriteLine, logVars
<1>11. CASE EndBackup(r)
  <2>1. PICK o \in {"ok", "failed"} :
          run' = [run EXCEPT ![r] = [run[r] EXCEPT !.state = "closed", !.outcome = o]]
    BY <1>0, <1>11 DEF EndBackup
  <2> QED
    BY <1>0, <1>2, <1>4, <1>11, <2>1, RunUpdates DEF EndBackup, logVars
<1>12. CASE ReadLine(r)
  <2>1. run' = [run EXCEPT ![r] = [run[r] EXCEPT !.held = @ - 1]]
    BY <1>0, <1>12 DEF ReadLine
  <2> QED
    BY <1>0, <1>2, <1>12, <2>1, RunChannel, Counted DEF ReadLine
<1>13. CASE ReadClosed(r)
  BY <1>0, <1>2, <1>3, <1>13, Counted DEF ReadClosed
<1> QED
  BY <1>5, <1>6, <1>7, <1>8, <1>9, <1>10, <1>11, <1>12, <1>13 DEF RunSteps

LEMMA PageStep == PageTypeOK /\ [PageNext]_pageVars => PageTypeOK'
<1> SUFFICES ASSUME PageTypeOK, [PageNext]_pageVars PROVE PageTypeOK'
  OBVIOUS
<1>1. CASE UNCHANGED pageVars
  BY <1>1 DEF pageVars, PageTypeOK
<1> QED
  BY <1>1, KeysTyped, ConfirmTyped, RunTyped DEF PageNext

(* The page, the confirmation, the backups and their channels keep their   *)
(* types, for any number of backups and lines and any size of the channel. *)
THEOREM PageTypeCorrect == PageSpec => []PageTypeOK
BY PageStart, PageStep, PTL DEF PageSpec

-----------------------------------------------------------------------------
(* The composition: a step of one component leaves the others alone.       *)
TogetherInv == PageTypeOK /\ DumpInv /\ GlobInv /\ MultipartInv /\ PhysInv

LEMMA TogetherStart == CaptureInit => TogetherInv
BY PageStart, DumpStart, GlobStart, MultipartStart, PhysStart DEF CaptureInit, TogetherInv

LEMMA TogetherStep == TogetherInv /\ [CaptureNext]_captureVars => TogetherInv'
<1> SUFFICES ASSUME TogetherInv, [CaptureNext]_captureVars PROVE TogetherInv'
  OBVIOUS
<1>1. [PageNext]_pageVars /\ [DumpNext]_dumpVars /\ [GlobNext]_globVars
      /\ [MultipartNext]_multipartVars /\ [PhysNext]_physVars
  BY DEF CaptureNext, captureVars
<1> QED
  BY <1>1, PageStep, DumpStep, GlobStep, MultipartStep, PhysStep DEF TogetherInv

(* The structs, channels and processes of a manual run and of the captures *)
(* and transfers below it have the form that the code gives them,          *)
(* whichever of them move.                                                 *)
THEOREM CaptureTypeCorrect == CaptureSpec => []CaptureTypeOK
<1>1. TogetherInv => CaptureTypeOK
  BY DEF TogetherInv, CaptureTypeOK, DumpInv, GlobInv, MultipartInv, PhysInv
<1> QED
  BY <1>1, TogetherStart, TogetherStep, PTL DEF CaptureSpec
=============================================================================
