------------------------ MODULE GlobalCapture_proofs ------------------------
(***************************************************************************)
(* Theorems about GlobalCapture for any databases, schema versions and     *)
(* number of attempts, and any DDL and loss of the session of the lock.    *)
(***************************************************************************)
EXTENDS GlobalCapture, TLAPS

Guarded == {"inventory", "dump", "check", "compare"}

(* The cursor of a loop over the databases points at one of them.          *)
CursorInside == glob.phase \in {"inventory", "compare"} => glob.at \in Indexes

(* The lock is held only while the capture works, and nothing is captured  *)
(* before the dump has ended.                                              *)
GuardInside ==
  /\ guard = "held" => glob.phase \in Guarded
  /\ glob.phase \in {"start", "inventory", "dump"} => ~glob.captured

(* While the session lives the schemas stand still: what was read of them  *)
(* is what they are.                                                       *)
Frozen ==
  guard = "held" => \A d \in Indexes :
    /\ \/ glob.phase = "inventory" /\ d < glob.at
       \/ glob.phase \in {"dump", "check", "compare"}
       => finger[d] = schema[d]
    /\ \/ glob.phase = "dump" /\ d < glob.at
       \/ glob.phase = "check" /\ glob.captured
       => read[d] = schema[d]

(* After the check the fingerprints and the dump agree, whatever becomes   *)
(* of the session and of the schemas.                                      *)
Agreed ==
  glob.phase \in {"compare", "done"} /\ glob.captured =>
    \A d \in Indexes : read[d] = finger[d]

VerdictEarned ==
  \A d \in Indexes : verdict[d] = "success" =>
    glob.captured /\ glob.phase \in {"compare", "done"}

GlobInv == GlobTypeOK /\ CursorInside /\ GuardInside /\ Frozen /\ Agreed /\ VerdictEarned

-----------------------------------------------------------------------------
LEMMA GlobConstants ==
  /\ Indexes = 1..DbCount /\ DbCount \in Nat \ {0}
  /\ DumpAttempts \in Nat \ {0} /\ Unread \notin Versions
  BY GlobAssumption DEF Indexes, DbCount

LEMMA GlobStart == GlobInit => GlobInv
<1> SUFFICES ASSUME GlobInit PROVE GlobInv
  OBVIOUS
<1>1. GlobTypeOK
  BY GlobConstants DEF GlobInit, GlobTypeOK, AllOf, GlobPhases
<1>2. CursorInside /\ GuardInside /\ Frozen /\ Agreed /\ VerdictEarned
  BY GlobConstants
  DEF GlobInit, CursorInside, GuardInside, Frozen, Agreed, VerdictEarned, AllOf, Guarded
<1> QED
  BY <1>1, <1>2 DEF GlobInv

(* The record of the capture and what the updates of the actions make of   *)
(* it, field by field.                                                     *)
Globs == [phase : GlobPhases, at : 1..DbCount + 1, attempt : 0..DumpAttempts,
          captured : BOOLEAN]
IsGlob(g, p, a, n, c) ==
  g \in Globs /\ g.phase = p /\ g.at = a /\ g.attempt = n /\ g.captured = c

LEMMA GlobFields ==
  ASSUME NEW g \in Globs
  PROVE  /\ g.phase \in GlobPhases /\ g.at \in 1..DbCount + 1
         /\ g.attempt \in 0..DumpAttempts /\ g.captured \in BOOLEAN
  BY DEF Globs

LEMMA PutAt ==
  ASSUME NEW g \in Globs, NEW a \in 1..DbCount + 1
  PROVE  IsGlob([g EXCEPT !.at = a], g.phase, a, g.attempt, g.captured)
  BY DEF IsGlob, Globs

LEMMA GlobPutPhase ==
  ASSUME NEW g \in Globs, NEW p \in GlobPhases, NEW a \in 1..DbCount + 1
  PROVE  IsGlob([g EXCEPT !.phase = p, !.at = a], p, a, g.attempt, g.captured)
<1> DEFINE h == [g EXCEPT !.phase = p]
<1>1. IsGlob(h, p, g.at, g.attempt, g.captured)
  BY DEF IsGlob, Globs
<1> HIDE DEF h
<1>2. IsGlob([h EXCEPT !.at = a], p, a, g.attempt, g.captured)
  BY <1>1 DEF IsGlob, Globs
<1>3. [g EXCEPT !.phase = p, !.at = a] = [h EXCEPT !.at = a]
  BY DEF h
<1> QED
  BY <1>2, <1>3

LEMMA PutAttempt ==
  ASSUME NEW g \in Globs, NEW a \in 1..DbCount + 1, NEW n \in 0..DumpAttempts
  PROVE  IsGlob([g EXCEPT !.at = a, !.attempt = n], g.phase, a, n, g.captured)
<1> DEFINE h == [g EXCEPT !.at = a]
<1>1. IsGlob(h, g.phase, a, g.attempt, g.captured)
  BY PutAt
<1> HIDE DEF h
<1>2. IsGlob([h EXCEPT !.attempt = n], g.phase, a, n, g.captured)
  BY <1>1 DEF IsGlob, Globs
<1>3. [g EXCEPT !.at = a, !.attempt = n] = [h EXCEPT !.attempt = n]
  BY DEF h
<1> QED
  BY <1>2, <1>3

LEMMA PutPhaseAttempt ==
  ASSUME NEW g \in Globs, NEW p \in GlobPhases, NEW a \in 1..DbCount + 1,
         NEW n \in 0..DumpAttempts
  PROVE  IsGlob([g EXCEPT !.phase = p, !.at = a, !.attempt = n], p, a, n, g.captured)
<1> DEFINE h == [g EXCEPT !.phase = p, !.at = a]
<1>1. IsGlob(h, p, a, g.attempt, g.captured)
  BY GlobPutPhase
<1> HIDE DEF h
<1>2. IsGlob([h EXCEPT !.attempt = n], p, a, n, g.captured)
  BY <1>1 DEF IsGlob, Globs
<1>3. [g EXCEPT !.phase = p, !.at = a, !.attempt = n] = [h EXCEPT !.attempt = n]
  BY DEF h
<1> QED
  BY <1>2, <1>3

LEMMA PutCaptured ==
  ASSUME NEW g \in Globs, NEW p \in GlobPhases, NEW a \in 1..DbCount + 1, NEW c \in BOOLEAN
  PROVE  IsGlob([g EXCEPT !.phase = p, !.at = a, !.captured = c], p, a, g.attempt, c)
<1> DEFINE h == [g EXCEPT !.phase = p, !.at = a]
<1>1. IsGlob(h, p, a, g.attempt, g.captured)
  BY GlobPutPhase
<1> HIDE DEF h
<1>2. IsGlob([h EXCEPT !.captured = c], p, a, g.attempt, c)
  BY <1>1 DEF IsGlob, Globs
<1>3. [g EXCEPT !.phase = p, !.at = a, !.captured = c] = [h EXCEPT !.captured = c]
  BY DEF h
<1> QED
  BY <1>2, <1>3

(* What each action makes of the record.                                   *)
LEMMA RefuseCaptureStep ==
  ASSUME GlobTypeOK, CursorInside, RefuseCapture
  PROVE  IsGlob(glob', "refused", 1, glob.attempt, glob.captured)
<1>1. glob \in Globs
  BY DEF GlobTypeOK, Globs
<1>2. 1 \in 1..DbCount + 1 /\ "refused" \in GlobPhases
  BY <1>1, GlobFields, GlobConstants DEF GlobPhases, CursorInside, RefuseCapture
<1>3. IsGlob([glob EXCEPT !.phase = "refused", !.at = 1],
          "refused", 1, glob.attempt, glob.captured)
  BY <1>1, <1>2, GlobPutPhase, Zenon
<1> QED
  BY <1>3 DEF RefuseCapture, Phase

LEMMA AcquireGuardStep ==
  ASSUME GlobTypeOK, CursorInside, AcquireGuard
  PROVE  IsGlob(glob', "inventory", 1, glob.attempt, glob.captured)
<1>1. glob \in Globs
  BY DEF GlobTypeOK, Globs
<1>2. 1 \in 1..DbCount + 1 /\ "inventory" \in GlobPhases
  BY <1>1, GlobFields, GlobConstants DEF GlobPhases, CursorInside, AcquireGuard
<1>3. IsGlob([glob EXCEPT !.phase = "inventory", !.at = 1],
          "inventory", 1, glob.attempt, glob.captured)
  BY <1>1, <1>2, GlobPutPhase, Zenon
<1> QED
  BY <1>3 DEF AcquireGuard, Phase

LEMMA TakeFingerprintStep ==
  ASSUME GlobTypeOK, CursorInside, TakeFingerprint
  PROVE  IF glob.at = DbCount
         THEN IsGlob(glob', "dump", 1, 1, glob.captured)
         ELSE IsGlob(glob', "inventory", glob.at + 1, glob.attempt, glob.captured)
<1>1. glob \in Globs
  BY DEF GlobTypeOK, Globs
<1>2. 1 \in 1..DbCount + 1 /\ "dump" \in GlobPhases /\ 1 \in 0..DumpAttempts
  BY <1>1, GlobFields, GlobConstants DEF GlobPhases, CursorInside, TakeFingerprint
<1>3. IsGlob([glob EXCEPT !.phase = "dump", !.at = 1, !.attempt = 1],
          "dump", 1, 1, glob.captured)
  BY <1>1, <1>2, PutPhaseAttempt, Zenon
<1>4. glob.at # DbCount => glob.at + 1 \in 1..DbCount + 1
  BY <1>1, GlobFields, GlobConstants DEF GlobPhases, CursorInside, TakeFingerprint
<1>5. glob.at # DbCount => IsGlob([glob EXCEPT !.at = glob.at + 1],
          glob.phase, glob.at + 1, glob.attempt, glob.captured)
  BY <1>1, <1>4, PutAt, Zenon
<1> QED
  BY <1>3, <1>5 DEF TakeFingerprint, Phase

LEMMA ReadDatabaseStep ==
  ASSUME GlobTypeOK, CursorInside, ReadDatabase
  PROVE  IsGlob(glob', "dump", glob.at + 1, glob.attempt, glob.captured)
<1>1. glob \in Globs
  BY DEF GlobTypeOK, Globs
<1>2. glob.at <= DbCount => glob.at + 1 \in 1..DbCount + 1
  BY <1>1, GlobFields, GlobConstants DEF GlobPhases, CursorInside, ReadDatabase
<1>3. glob.at <= DbCount => IsGlob([glob EXCEPT !.at = glob.at + 1],
          glob.phase, glob.at + 1, glob.attempt, glob.captured)
  BY <1>1, <1>2, PutAt, Zenon
<1> QED
  BY <1>3 DEF ReadDatabase, Phase

LEMMA DumpSucceedsStep ==
  ASSUME GlobTypeOK, CursorInside, DumpSucceeds
  PROVE  IsGlob(glob', "check", 1, glob.attempt, TRUE)
<1>1. glob \in Globs
  BY DEF GlobTypeOK, Globs
<1>2. 1 \in 1..DbCount + 1 /\ "check" \in GlobPhases /\ TRUE \in BOOLEAN
  BY <1>1, GlobFields, GlobConstants DEF GlobPhases, CursorInside, DumpSucceeds
<1>3. IsGlob([glob EXCEPT !.phase = "check", !.at = 1, !.captured = TRUE],
          "check", 1, glob.attempt, TRUE)
  BY <1>1, <1>2, PutCaptured, Zenon
<1> QED
  BY <1>3 DEF DumpSucceeds, Phase

LEMMA DumpFailsStep ==
  ASSUME GlobTypeOK, CursorInside, DumpFails
  PROVE  \/ IsGlob(glob', "dump", 1, glob.attempt + 1, glob.captured)
         \/ IsGlob(glob', "check", 1, glob.attempt, glob.captured)
<1>1. glob \in Globs
  BY DEF GlobTypeOK, Globs
<1>2. glob.attempt < DumpAttempts => 1 \in 1..DbCount + 1 /\ glob.attempt + 1 \in 0..DumpAttempts
  BY <1>1, GlobFields, GlobConstants DEF GlobPhases, CursorInside, DumpFails
<1>3. glob.attempt < DumpAttempts => IsGlob([glob EXCEPT !.at = 1, !.attempt = glob.attempt + 1],
          glob.phase, 1, glob.attempt + 1, glob.captured)
  BY <1>1, <1>2, PutAttempt, Zenon
<1>4. 1 \in 1..DbCount + 1 /\ "check" \in GlobPhases
  BY <1>1, GlobFields, GlobConstants DEF GlobPhases, CursorInside, DumpFails
<1>5. IsGlob([glob EXCEPT !.phase = "check", !.at = 1],
          "check", 1, glob.attempt, glob.captured)
  BY <1>1, <1>4, GlobPutPhase, Zenon
<1> QED
  BY <1>3, <1>5 DEF DumpFails, Phase

LEMMA CheckGuardStep ==
  ASSUME GlobTypeOK, CursorInside, CheckGuard
  PROVE  \/ GuardAnswers /\ IsGlob(glob', "compare", 1, glob.attempt, glob.captured) /\ guard' = guard
         \/ IsGlob(glob', "refused", 1, glob.attempt, glob.captured) /\ guard' = Release
<1>1. glob \in Globs
  BY DEF GlobTypeOK, Globs
<1>2. 1 \in 1..DbCount + 1 /\ "compare" \in GlobPhases
  BY <1>1, GlobFields, GlobConstants DEF GlobPhases, CursorInside, CheckGuard
<1>3. IsGlob([glob EXCEPT !.phase = "compare", !.at = 1],
          "compare", 1, glob.attempt, glob.captured)
  BY <1>1, <1>2, GlobPutPhase, Zenon
<1>4. 1 \in 1..DbCount + 1 /\ "refused" \in GlobPhases
  BY <1>1, GlobFields, GlobConstants DEF GlobPhases, CursorInside, CheckGuard
<1>5. IsGlob([glob EXCEPT !.phase = "refused", !.at = 1],
          "refused", 1, glob.attempt, glob.captured)
  BY <1>1, <1>4, GlobPutPhase, Zenon
<1> QED
  BY <1>3, <1>5 DEF CheckGuard, Phase

LEMMA CompareStep ==
  ASSUME GlobTypeOK, CursorInside, Compare
  PROVE  IF glob.at = DbCount
         THEN IsGlob(glob', "done", 1, glob.attempt, glob.captured) /\ guard' = Release
         ELSE IsGlob(glob', "compare", glob.at + 1, glob.attempt, glob.captured) /\ guard' = guard
<1>1. glob \in Globs
  BY DEF GlobTypeOK, Globs
<1>2. 1 \in 1..DbCount + 1 /\ "done" \in GlobPhases
  BY <1>1, GlobFields, GlobConstants DEF GlobPhases, CursorInside, Compare
<1>3. IsGlob([glob EXCEPT !.phase = "done", !.at = 1],
          "done", 1, glob.attempt, glob.captured)
  BY <1>1, <1>2, GlobPutPhase, Zenon
<1>4. glob.at # DbCount => glob.at + 1 \in 1..DbCount + 1
  BY <1>1, GlobFields, GlobConstants DEF GlobPhases, CursorInside, Compare
<1>5. glob.at # DbCount => IsGlob([glob EXCEPT !.at = glob.at + 1],
          glob.phase, glob.at + 1, glob.attempt, glob.captured)
  BY <1>1, <1>4, PutAt, Zenon
<1> QED
  BY <1>3, <1>5 DEF Compare, Phase

LEMMA GlobTypeStep == GlobTypeOK /\ CursorInside /\ [GlobNext]_globVars => GlobTypeOK' /\ CursorInside'
<1> SUFFICES ASSUME GlobTypeOK, CursorInside, [GlobNext]_globVars
             PROVE  GlobTypeOK' /\ CursorInside'
  OBVIOUS
<1>0. glob \in Globs
  BY DEF GlobTypeOK, Globs
<1> USE <1>0, GlobFields, GlobConstants DEF IsGlob, GlobTypeOK, CursorInside, AllOf, Release
<1> USE DEF Globs
<1>1. CASE RefuseCapture
  BY <1>1, RefuseCaptureStep DEF RefuseCapture
<1>2. CASE AcquireGuard
  BY <1>2, AcquireGuardStep DEF AcquireGuard
<1>3. CASE TakeFingerprint
  BY <1>3, TakeFingerprintStep DEF TakeFingerprint
<1>4. CASE ReadDatabase
  BY <1>4, ReadDatabaseStep DEF ReadDatabase
<1>5. CASE DumpSucceeds
  BY <1>5, DumpSucceedsStep DEF DumpSucceeds
<1>6. CASE DumpFails
  BY <1>6, DumpFailsStep DEF DumpFails
<1>7. CASE CheckGuard
  BY <1>7, CheckGuardStep DEF CheckGuard, GuardAnswers
<1>8. CASE Compare
  <2>0. glob.at \in Indexes
    BY <1>8 DEF Compare
  <2>1. glob' \in Globs /\ CursorInside'
    BY <1>8, <2>0, CompareStep
  <2>3. guard' \in {"none", "held", "lost"}
    BY <1>8 DEF Compare
  <2>2. verdict' \in [Indexes -> {"failed", "success"}]
    BY <1>8 DEF Compare
  <2> QED
    BY <1>8, <2>1, <2>2, <2>3 DEF Compare
<1>9. CASE Ddl
  BY <1>9 DEF Ddl
<1>10. CASE LoseGuard
  BY <1>10 DEF LoseGuard
<1>11. CASE UNCHANGED globVars
  BY <1>11 DEF globVars
<1> QED
  BY <1>1, <1>2, <1>3, <1>4, <1>5, <1>6, <1>7, <1>8, <1>9, <1>10, <1>11 DEF GlobNext

LEMMA GlobStep == GlobInv /\ [GlobNext]_globVars => GlobInv'
<1> SUFFICES ASSUME GlobInv, [GlobNext]_globVars
             PROVE  GuardInside' /\ Frozen' /\ Agreed' /\ VerdictEarned'
  BY GlobTypeStep DEF GlobInv
<1>0. GlobTypeOK /\ CursorInside /\ glob \in Globs
  BY DEF GlobInv, GlobTypeOK, Globs
<1> USE <1>0, GlobFields, GlobConstants
    DEF GlobInv, IsGlob, GuardInside, Frozen, Agreed, VerdictEarned, AllOf, Guarded, Release
<1>1. CASE RefuseCapture
  BY <1>1, RefuseCaptureStep DEF RefuseCapture
<1>2. CASE AcquireGuard
  BY <1>2, AcquireGuardStep DEF AcquireGuard
<1>3. CASE TakeFingerprint
  <2>1. glob.at \in Indexes /\ glob.phase = "inventory"
    BY <1>3 DEF TakeFingerprint, CursorInside
  <2>2. \A d \in Indexes : finger'[d] = IF d = glob.at THEN schema[d] ELSE finger[d]
    BY <1>3, <2>1 DEF TakeFingerprint, GlobTypeOK
  <2>3. GuardInside' /\ Agreed' /\ VerdictEarned'
    BY <1>3, <2>1, TakeFingerprintStep DEF TakeFingerprint
  <2>4. ASSUME guard' = "held", NEW d \in Indexes
        PROVE  /\ \/ glob'.phase = "inventory" /\ d < glob'.at
                  \/ glob'.phase \in {"dump", "check", "compare"}
                  => finger'[d] = schema'[d]
               /\ \/ glob'.phase = "dump" /\ d < glob'.at
                  \/ glob'.phase = "check" /\ glob'.captured
                  => read'[d] = schema'[d]
    BY <1>3, <2>1, <2>2, <2>4, TakeFingerprintStep DEF TakeFingerprint
  <2> QED
    BY <2>3, <2>4
<1>4. CASE ReadDatabase
  <2>1. \A d \in Indexes : read'[d] = IF d = glob.at THEN schema[d] ELSE read[d]
    BY <1>4 DEF ReadDatabase, GlobTypeOK
  <2>2. GuardInside' /\ Agreed' /\ VerdictEarned'
    BY <1>4, ReadDatabaseStep DEF ReadDatabase
  <2>3. ASSUME guard' = "held", NEW d \in Indexes
        PROVE  /\ \/ glob'.phase = "inventory" /\ d < glob'.at
                  \/ glob'.phase \in {"dump", "check", "compare"}
                  => finger'[d] = schema'[d]
               /\ \/ glob'.phase = "dump" /\ d < glob'.at
                  \/ glob'.phase = "check" /\ glob'.captured
                  => read'[d] = schema'[d]
    BY <1>4, <2>1, <2>3, ReadDatabaseStep DEF ReadDatabase
  <2> QED
    BY <2>2, <2>3
<1>5. CASE DumpSucceeds
  BY <1>5, DumpSucceedsStep DEF DumpSucceeds
<1>6. CASE DumpFails
  BY <1>6, DumpFailsStep DEF DumpFails
<1>7. CASE CheckGuard
  BY <1>7, CheckGuardStep DEF CheckGuard, GuardAnswers
<1>8. CASE Compare
  <2>1. \A d \in Indexes : verdict'[d] = "success" =>
          glob.captured \/ verdict[d] = "success"
    BY <1>8 DEF Compare, GlobTypeOK
  <2>2. glob'.captured = glob.captured /\ glob'.phase \in {"compare", "done"}
    BY <1>8, CompareStep
  <2>3. VerdictEarned'
    BY <2>1, <2>2
  <2>4. GuardInside' /\ Frozen' /\ Agreed'
    BY <1>8, <2>2, CompareStep DEF Compare
  <2> QED
    BY <2>3, <2>4
<1>9. CASE Ddl
  BY <1>9 DEF Ddl
<1>10. CASE LoseGuard
  BY <1>10 DEF LoseGuard
<1>11. CASE UNCHANGED globVars
  BY <1>11 DEF globVars
<1> QED
  BY <1>1, <1>2, <1>3, <1>4, <1>5, <1>6, <1>7, <1>8, <1>9, <1>10, <1>11 DEF GlobNext

LEMMA GlobAlways == GlobSpec => []GlobInv
  BY GlobStart, GlobStep, PTL DEF GlobSpec

(* The variables of a global capture keep their types.                     *)
THEOREM GlobTypeCorrect == GlobSpec => []GlobTypeOK
  BY GlobAlways, PTL DEF GlobInv

(* Every database of a global capture that counts as a success was dumped  *)
(* in the schema of its fingerprint, whatever DDL runs and whenever the    *)
(* session of the lock is lost.                                            *)
THEOREM GlobalAlwaysFrozen == GlobSpec => []GlobalIsFrozen
<1>1. GlobInv => GlobalIsFrozen
  BY DEF GlobInv, Agreed, VerdictEarned, GlobalIsFrozen
<1> QED
  BY <1>1, GlobAlways, PTL
=============================================================================
