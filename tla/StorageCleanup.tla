---------------------------- MODULE StorageCleanup ----------------------------
(***************************************************************************)
(* The storage manager: the pass (ensure) that runs under the backup lock  *)
(* before a capture, or on an operator's demand.  It gathers evidence that *)
(* good copies exist locally and in S3, deletes what they make redundant   *)
(* through a journal, releases the second newest local point in an         *)
(* emergency, and lets the capture proceed or refuses it.  Around it, pins *)
(* and restore tests arrive, files and objects go bad, I/O fails and the   *)
(* process dies.  Every payload takes one unit of the disk.                *)
(***************************************************************************)
EXTENDS Naturals, FiniteSets

CONSTANTS
  Runs,         \* run identifiers: a later run has a larger number
  None,
  Twin,         \* Twin[r]: the run whose payload equals r's byte for byte
  Histories,    \* what the runs left before the first pass
  Captures,     \* what a new capture may leave
  MaxLocals,    \* the settings of BACKUP_LOCAL_MAX_BACKUPS to explore
  Modes,        \* "capture", "apply" (no capture follows), "plan" (dry run)
  Secondary,    \* whether the secondary directory can take the capture
  Disks,        \* the sizes of the backup disk to explore
  Required, LowFree, HighFree,
  Faults,       \* accidents to explore: "io" errors, "s3" errors, "world" events
  MaxPasses, MaxCrashes, MaxAccidents   \* bounds

Kinds == {"none", "complete", "physfail", "partial", "failed"}
Locals == {"none", "intact", "damaged", "temp"}
Remotes == {"none", "complete", "logical", "rotten", "removed"}
Guards == {"none", "pinned", "tested"}
Profiles == [kind : Kinds, local : Locals, remote : Remotes, guard : Guards]

ASSUME StorageAssumption ==
  /\ Runs \subseteq Nat /\ None \notin Runs /\ IsFiniteSet(Runs)
  /\ Twin \in [Runs -> Runs \cup {None}]
  /\ Histories \subseteq [Runs -> Profiles] /\ Captures \subseteq Profiles
  /\ \A h \in Histories, r \in Runs : h[r].local # "none" => h[r].kind # "none"
  /\ \A h \in Histories, r \in Runs : h[r].kind = "none" => h[r].remote = "none" /\ h[r].guard = "none"
  /\ \A c \in Captures : c.kind # "none" /\ c.guard = "none"
  /\ \A h \in Histories, d \in Disks : Cardinality({r \in Runs : h[r].local # "none"}) <= d
  /\ MaxLocals \subseteq {0} \cup {n \in Nat : n >= 3}
  /\ Disks \subseteq Nat
  /\ Modes \subseteq {"capture", "apply", "plan"} /\ Secondary \subseteq BOOLEAN
  /\ Required \in Nat \ {0}
  /\ {LowFree, HighFree, MaxPasses, MaxCrashes, MaxAccidents} \subseteq Nat

VARIABLES
  kind,      \* kind[r]: how the manifest of run r ends, "none" before the run
  local,     \* local[r]: its payload ("damaged": other bytes, same size), or a
             \* temporary dump of a failed run
  remote,    \* remote[r]: its S3 copy; "logical" is under a PARTIAL marker,
             \* "none" means never published, so that its manifest is not committed
  guard,     \* guard[r]: pinned by an operator, or its manifest carries a restore test
  proved,    \* runs whose restore test succeeded: the history has it, and no
             \* step of the pass reads it there
  ident,     \* ident[r]: identity of the local file, bumped when it changes
  folders,   \* runs that have a folder
  journal,   \* journal[r]: outcome in the deletion journal of r's payload
  jident,    \* jident[r]: the file identity that journal names
  maxLocal, disk,
  pc, pass, todo, job,  \* memory of the pass
  outcome,   \* what the last pass answered
  late,      \* what changed after the check that looks at it
  accidents, crashes, passes

files == <<kind, local, remote, guard, proved, ident, folders>>
journals == <<journal, jident>>
memory == <<pass, todo, job>>
settings == <<maxLocal, disk>>
bounds == <<accidents, crashes, passes, settings>>
vars == <<files, journals, pc, memory, outcome, late, bounds>>

Steps == {"idle", "scan", "verify", "recover", "loop", "check", "intent", "unlink",
          "record", "emergency", "final"}
Types == {"none", "temp", "duplicate", "complete", "expired"}
Outcomes == {"none", "proceed", "fallback", "refused"}
Passes == [mode : {"capture", "apply", "plan"}, room : BOOLEAN, over : BOOLEAN,
           good : SUBSET Runs, keptLocal : SUBSET Runs, keptRemote : SUBSET Runs,
           proofs : SUBSET Runs, type : [Runs -> Types], seen : [Runs -> Nat]]
Jobs == [run : Runs \cup {None}, phase : {"none", "recover", "loop", "final"},
         result : {"none", "DELETED", "FAILED"}]

NewPass(m, room, over) ==
  [mode |-> m, room |-> room, over |-> over, good |-> {}, keptLocal |-> {},
   keptRemote |-> {}, proofs |-> {}, type |-> [r \in Runs |-> "none"],
   seen |-> [r \in Runs |-> 0]]
NoJob == [run |-> None, phase |-> "none", result |-> "none"]

\* Every variable stays within its domain.
TypeOK ==
  /\ kind \in [Runs -> Kinds] /\ local \in [Runs -> Locals]
  /\ remote \in [Runs -> Remotes] /\ guard \in [Runs -> Guards]
  /\ ident \in [Runs -> Nat] /\ folders \subseteq Runs /\ proved \subseteq Runs
  /\ journal \in [Runs -> {"none", "INTENT", "DELETED", "FAILED", "REMOVED", "HELD", "CANCELLED"}]
  /\ jident \in [Runs -> Nat] /\ maxLocal \in MaxLocals /\ disk \in Disks
  /\ pc \in Steps /\ pass \in Passes /\ todo \subseteq Runs /\ job \in Jobs
  /\ pc \in {"check", "intent", "unlink", "record"} => job.run \in Runs /\ job.phase # "none"
  /\ pc = "record" => job.result # "none"
  /\ outcome \in Outcomes /\ late \subseteq {"local", "remote"}
  /\ accidents \in Nat /\ crashes \in Nat /\ passes \in Nat

Init ==
  /\ \E h \in Histories :
       /\ kind = [r \in Runs |-> h[r].kind] /\ local = [r \in Runs |-> h[r].local]
       /\ remote = [r \in Runs |-> h[r].remote] /\ guard = [r \in Runs |-> h[r].guard]
       /\ folders = {r \in Runs : h[r].kind # "none"}
       /\ proved = {r \in Runs : h[r].guard = "tested"}
  /\ ident = [r \in Runs |-> 0] /\ jident = [r \in Runs |-> 0]
  /\ journal = [r \in Runs |-> "none"]
  /\ maxLocal \in MaxLocals /\ disk \in Disks
  /\ pc = "idle" /\ pass = NewPass("apply", FALSE, FALSE) /\ todo = {} /\ job = NoJob
  /\ outcome = "none" /\ late = {}
  /\ accidents = 0 /\ crashes = 0 /\ passes = 0

-----------------------------------------------------------------------------
\* Operators over the files.

localPayloadRunCount == Cardinality({r \in Runs : local[r] # "none"})
Sufficient == Required + localPayloadRunCount <= disk
TargetMet == /\ Sufficient
             /\ LowFree + localPayloadRunCount <= disk
Newest(S, n) == {r \in S : Cardinality({q \in S : q > r}) < n}

\* A capture in which every database succeeded, whatever the physical task did.
logicalStorageRecord(r) == kind[r] \in {"complete", "physfail"}

\* The slot of the capture about to start is reserved.
Limit(m) == IF m = "capture" /\ maxLocal > 0 THEN maxLocal - 1 ELSE maxLocal
Window(m) == IF Limit(m) > 2 THEN Limit(m) ELSE 2
OverLimit(m) == Limit(m) > 0 /\ localPayloadRunCount > Limit(m)

\* A folder with metadata only goes, unless a pin or a restore test keeps it.
pruneStorageRunMetadata(r) == local[r] = "none" /\ guard[r] = "none"

Goto(step) == pc' = step
Accident(cause) == cause \in Faults /\ accidents < MaxAccidents /\ accidents' = accidents + 1
NoAccident == UNCHANGED accidents

\* The pass returns; `answer` is what its caller does next.
Return(answer) == Goto("idle") /\ outcome' = answer /\ late' = {} /\ UNCHANGED memory

\* No space here: the secondary directory, if it can take the capture.
SecondaryOrRefuse ==
  \E usable \in Secondary : Return(IF usable THEN "fallback" ELSE "refused")

\* Evidence is missing: nothing is deleted.
blocked ==
  IF maxLocal > 0 /\ localPayloadRunCount > Limit(pass.mode) THEN Return("refused")
  ELSE IF pass.room THEN Return("proceed")
  ELSE SecondaryOrRefuse

-----------------------------------------------------------------------------
\* The pass.

\* A pass starts; without pressure it deletes nothing and the capture proceeds.
Begin(m) ==
  LET pressure == ~Sufficient \/ disk <= HighFree + localPayloadRunCount \/ OverLimit(m)
  IN /\ pc = "idle" /\ passes < MaxPasses
     /\ passes' = passes + 1
     /\ folders' = IF m = "plan" THEN folders
                   ELSE folders \ {r \in folders : pruneStorageRunMetadata(r)}
     /\ pass' = NewPass(m, Sufficient, OverLimit(m))
     /\ todo' = {} /\ job' = NoJob
     /\ IF pressure \/ m = "plan"
          THEN Goto("scan") /\ outcome' = "none"
          ELSE Goto("idle") /\ outcome' = "proceed"
     /\ UNCHANGED <<kind, local, remote, guard, proved, ident, journals, late, accidents, crashes,
                    settings>>

\* Local captures are verified, newest first: the window, and older guarded ones.
Scan ==
  LET valid == {r \in folders : logicalStorageRecord(r) /\ local[r] = "intact"}
      good == Newest(valid, Window(pass.mode)) \cup {r \in valid : guard[r] # "none"}
  IN /\ pc = "scan"
     /\ IF good = {} THEN blocked
        ELSE /\ Goto("verify")
             /\ pass' = [pass EXCEPT !.good = good, !.keptLocal = good, !.seen = ident]
             /\ UNCHANGED <<todo, job, outcome, late>>
     /\ UNCHANGED <<files, journals, bounds>>

\* The bucket holds a completion marker of r.
Listed(r) == remote[r] \in {"complete", "logical", "rotten"}

\* What makes the payload of r a candidate for deletion, if anything does.
\* `young` are the temporary dumps too recent, or too whole, to be dropped.
CandidateType(r, young, keptRemote) ==
  IF r \notin folders \/ local[r] = "none" \/ r \in pass.good \/ guard[r] # "none" THEN "none"
  ELSE IF local[r] = "temp" THEN
         IF kind[r] = "failed" /\ r \notin young /\ \E g \in Newest(pass.good, 1) : r < g
         THEN "temp" ELSE "none"
  ELSE IF logicalStorageRecord(r) /\ Listed(r) THEN "complete"
  ELSE IF pass.over /\ kind[r] = "complete" THEN "expired"
  ELSE IF kind[r] \in {"partial", "physfail"} /\ Twin[r] \in keptRemote /\ local[r] = "intact"
       THEN "duplicate"
  ELSE "none"

\* The bucket is listed and its newest points downloaded and verified until two
\* hold; `missed` fails to verify.  Then the candidates are drawn up.
VerifyRemote ==
  /\ pc = "verify"
  /\ \E missed \in {{}} \cup {{r} : r \in Runs}, young \in SUBSET {r \in Runs : local[r] = "temp"} :
       LET verified == {r \in Runs \ missed : remote[r] = "complete"}
           kept == Newest(verified, 2)
           type == [r \in Runs |-> CandidateType(r, young, kept)]
       IN /\ IF missed = {} THEN NoAccident ELSE Accident("s3")
          /\ IF Cardinality(kept) < 2 THEN blocked
             ELSE /\ pass' = [pass EXCEPT !.keptRemote = kept, !.proofs = kept, !.type = type]
                  /\ todo' = {r \in Runs : type[r] # "none"}
                  /\ IF pass.mode = "plan" THEN Goto("idle") /\ outcome' = "none"
                     ELSE Goto("recover") /\ UNCHANGED outcome
                  /\ UNCHANGED <<job, late>>
  /\ UNCHANGED <<files, journals, crashes, passes, settings>>

\* The listing itself fails.
ListingFails ==
  /\ pc = "verify" /\ Accident("s3") /\ blocked
  /\ UNCHANGED <<files, journals, crashes, passes, settings>>

checkProtected ==
  /\ pass.keptLocal # {} /\ Cardinality(pass.keptRemote) >= 2
  /\ \A p \in pass.keptLocal : ident[p] = pass.seen[p]

\* Count retention: two newer points in S3 and a full window of newer local ones.
authorizeCountExpiry(r) ==
  /\ maxLocal >= 3 /\ Limit(pass.mode) >= 2 /\ r \notin pass.keptLocal
  /\ localPayloadRunCount > Limit(pass.mode)
  /\ kind[r] = "complete" /\ guard[r] = "none"
  /\ checkProtected
  /\ Cardinality({p \in pass.keptLocal : p > r}) >= Limit(pass.mode)
  /\ Cardinality({p \in pass.keptRemote \cap pass.proofs : p > r}) >= 2

\* The S3 point that holds a copy of r's payload.
Counterpart(r) == IF pass.type[r] = "duplicate" THEN Twin[r] ELSE r
NeedsCounterpart(r) == pass.type[r] \in {"duplicate", "complete"}
Readable(p) == remote[p] \in {"complete", "logical"}
AsksS3(r) == NeedsCounterpart(r) /\ Counterpart(r) \notin pass.proofs

authorizeCandidate(r) ==
  CASE pass.type[r] = "temp" -> TRUE
    [] pass.type[r] = "expired" -> authorizeCountExpiry(r)
    [] NeedsCounterpart(r) ->
         (Counterpart(r) \in pass.proofs \/ Readable(Counterpart(r))) /\ local[r] = "intact"
    [] OTHER -> FALSE

\* Mutation of StartDeletion: the job keeps no run.
StartNameless(r, phase) ==
  /\ Goto("check") /\ job' = [NoJob EXCEPT !.phase = phase]
  /\ UNCHANGED pass /\ todo' = todo \ {r}

\* The deletion of r starts; its counterpart now counts as verified.
StartDeletion(r, phase) ==
  /\ Goto("check")
  /\ job' = [run |-> r, phase |-> phase, result |-> "none"]
  /\ pass' = [pass EXCEPT !.proofs = IF NeedsCounterpart(r) THEN @ \cup {Counterpart(r)} ELSE @]
  /\ todo' = todo \ {r}

Intents == {r \in Runs : journal[r] = "INTENT"}
Eligible(r) == pass.type[r] # "none" /\ jident[r] = pass.seen[r]

Recovered(r, result) ==
  /\ journal' = [journal EXCEPT ![r] = result]
  /\ UNCHANGED <<jident, pc, memory, outcome, late, accidents>>

\* A deletion that a crash or an I/O error interrupted is settled first.
recoverIntents(r) ==
  /\ pc = "recover" /\ r \in Intents
  /\ \/ local[r] = "none" /\ Recovered(r, "REMOVED")
     \/ local[r] # "none" /\ ~Eligible(r) /\ Recovered(r, "HELD")
     \/ local[r] # "none" /\ Eligible(r) /\ TargetMet /\ Recovered(r, "CANCELLED")
     \/ /\ local[r] # "none" /\ Eligible(r) /\ ~TargetMet
        /\ authorizeCandidate(r) /\ StartDeletion(r, "recover")
        /\ UNCHANGED <<journals, outcome, late, accidents>>
     \/ /\ local[r] # "none" /\ Eligible(r) /\ ~TargetMet
        /\ \/ ~authorizeCandidate(r) /\ NoAccident
           \/ AsksS3(r) /\ Accident("s3")
        /\ Return("refused") /\ UNCHANGED journals
  /\ UNCHANGED <<files, crashes, passes, settings>>

\* Mutation of NoIntentLeft: recovery is not waited for.
RecoveryOptional ==
  /\ pc = "recover" /\ Goto("loop")
  /\ UNCHANGED <<files, journals, memory, outcome, late, bounds>>

NoIntentLeft ==
  /\ pc = "recover" /\ Intents = {} /\ Goto("loop")
  /\ UNCHANGED <<files, journals, memory, outcome, late, bounds>>

Enough == TargetMet /\ ~OverLimit(pass.mode)
Rank(r) == CASE pass.type[r] = "temp" -> 0 [] pass.type[r] = "duplicate" -> 1 [] OTHER -> 2

\* The candidates are tried in order, the oldest of each rank first.
NextCandidate(r) ==
  /\ pc = "loop" /\ ~Enough /\ r \in todo
  /\ \A q \in todo : Rank(r) < Rank(q) \/ (Rank(r) = Rank(q) /\ r <= q)

DeleteNext(r) ==
  /\ NextCandidate(r) /\ authorizeCandidate(r) /\ StartDeletion(r, "loop")
  /\ UNCHANGED <<files, journals, outcome, late, bounds>>

\* Mutations of HoldNext: the held candidate is tried again; it ends the pass.
HoldForever(r) == NextCandidate(r) /\ ~authorizeCandidate(r) /\ UNCHANGED vars
HoldAborts(r) ==
  /\ NextCandidate(r) /\ ~authorizeCandidate(r) /\ Return("refused")
  /\ UNCHANGED <<files, journals, bounds>>

\* A candidate that cannot be verified is held and the pass goes on.
HoldNext(r) ==
  /\ NextCandidate(r)
  /\ \/ ~authorizeCandidate(r) /\ NoAccident
     \/ AsksS3(r) /\ Accident("s3")
  /\ todo' = todo \ {r}
  /\ UNCHANGED <<files, journals, pc, pass, job, outcome, late, crashes, passes, settings>>

LoopEnds ==
  /\ pc = "loop" /\ (Enough \/ todo = {}) /\ Goto("emergency")
  /\ UNCHANGED <<files, journals, memory, outcome, late, bounds>>

-----------------------------------------------------------------------------
\* The deletion of one payload (deleteCandidate).

\* The protected local points are still the files inspected.
CheckLocal ==
  /\ pc = "check"
  /\ IF checkProtected /\ job.run \notin pass.keptLocal /\ guard[job.run] # "tested"
       THEN Goto("intent") /\ late' = late \ {"local"} /\ UNCHANGED <<memory, outcome>>
       ELSE Return("refused")
  /\ UNCHANGED <<files, journals, bounds>>

\* Mutation of RemoteUnchanged: the proofs of the protected points are trusted.
ProofsTrusted == NeedsCounterpart(job.run) => Readable(Counterpart(job.run))

\* So are the protected S3 points and the counterpart; the intent is persisted.
RemoteUnchanged ==
  /\ \A p \in pass.keptRemote : Readable(p)
  /\ NeedsCounterpart(job.run) => Readable(Counterpart(job.run))
  /\ pass.type[job.run] = "expired" => authorizeCountExpiry(job.run)

WriteIntent ==
  /\ pc = "intent"
  /\ IF RemoteUnchanged
       THEN /\ Goto("unlink") /\ late' = late \ {"remote"}
            /\ journal' = [journal EXCEPT ![job.run] = "INTENT"]
            /\ jident' = [jident EXCEPT ![job.run] = pass.seen[job.run]]
            /\ UNCHANGED <<memory, outcome>>
       ELSE Return("refused") /\ UNCHANGED journals
  /\ UNCHANGED <<files, bounds>>

\* A pin, another file under the name, or other bytes stop the removal; the sync
\* of the folder may fail after it.
unlinkStoragePayload ==
  LET r == job.run
      same == guard[r] # "pinned" /\ ident[r] = pass.seen[r] /\ local[r] # "damaged"
  IN /\ pc = "unlink" /\ Goto("record")
     /\ \/ /\ same /\ local' = [local EXCEPT ![r] = "none"]
           /\ \/ job' = [job EXCEPT !.result = "DELETED"] /\ NoAccident
              \/ job' = [job EXCEPT !.result = "FAILED"] /\ Accident("io")
        \/ /\ ~same /\ job' = [job EXCEPT !.result = "FAILED"]
           /\ NoAccident /\ UNCHANGED local
     /\ UNCHANGED <<kind, remote, guard, proved, ident, folders, journals, pass, todo, outcome,
                    late, crashes, passes, settings>>

\* Mutation of RecordOutcome: a failed removal is journalled as done.
RecordDeleted ==
  /\ pc = "record" /\ journal' = [journal EXCEPT ![job.run] = "DELETED"] /\ Return("refused")
  /\ UNCHANGED <<files, jident, bounds>>

\* The outcome is journalled; a folder left with metadata only is pruned, unless
\* its storage state cannot be written.
RecordOutcome ==
  LET r == job.run
  IN /\ pc = "record"
     /\ journal' = [journal EXCEPT ![r] = job.result]
     /\ \/ /\ job.result = "DELETED" /\ Goto(job.phase)
           /\ folders' = IF pruneStorageRunMetadata(r) THEN folders \ {r} ELSE folders
           /\ UNCHANGED <<memory, outcome, late, accidents>>
        \/ job.result = "DELETED" /\ Accident("io") /\ Return("refused") /\ UNCHANGED folders
        \/ job.result = "FAILED" /\ NoAccident /\ Return("refused") /\ UNCHANGED folders
     /\ UNCHANGED <<kind, local, remote, guard, proved, ident, jident, crashes, passes, settings>>

\* A folder, a journal or the report cannot be read or written, or S3 does not answer a check
\* of identity: the pass returns the error.
StorageFault ==
  /\ \/ pc \notin {"idle", "unlink", "emergency"} /\ Accident("io")
     \/ pc = "intent" /\ Accident("s3")
  /\ Return("refused")
  /\ UNCHANGED <<files, journals, crashes, passes, settings>>

-----------------------------------------------------------------------------
\* When the capture still does not fit.

Second == Newest(pass.good, 2) \ Newest(pass.good, 1)

\* The second newest local point, if its payload makes the difference.
MayRelease(r) ==
  /\ ~Sufficient /\ r \in Second /\ guard[r] = "none"
  /\ local[r] # "none" /\ Required + localPayloadRunCount <= disk + 1

ReleaseSecond(r) ==
  /\ pc = "emergency" /\ MayRelease(r)
  /\ r \in pass.proofs \/ remote[r] = "complete"
  /\ Goto("check")
  /\ job' = [run |-> r, phase |-> "final", result |-> "none"]
  /\ pass' = [pass EXCEPT !.proofs = @ \cup {r}, !.keptLocal = @ \ {r}, !.type[r] = "complete"]
  /\ UNCHANGED <<files, journals, todo, outcome, late, bounds>>

NothingToRelease ==
  /\ pc = "emergency"
  /\ \/ /\ \A r \in Second : ~MayRelease(r) \/ (r \notin pass.proofs /\ remote[r] # "complete")
        /\ NoAccident
     \/ (\E r \in Second : MayRelease(r) /\ r \notin pass.proofs) /\ Accident("s3")
  /\ Goto("final")
  /\ UNCHANGED <<files, journals, memory, outcome, late, crashes, passes, settings>>

\* Mutation of Finish: missing space is only reported.
FinishAnyway ==
  /\ pc = "final" /\ Return("proceed")
  /\ UNCHANGED <<files, journals, bounds>>

Finish ==
  /\ pc = "final"
  /\ IF Sufficient THEN Return("proceed") ELSE SecondaryOrRefuse
  /\ UNCHANGED <<files, journals, bounds>>

PassStep ==
  \/ Scan \/ VerifyRemote \/ ListingFails
  \/ \E r \in Runs : recoverIntents(r) \/ DeleteNext(r) \/ HoldNext(r) \/ ReleaseSecond(r)
  \/ NoIntentLeft \/ LoopEnds \/ NothingToRelease \/ Finish
  \/ CheckLocal \/ WriteIntent \/ unlinkStoragePayload \/ RecordOutcome
  \/ StorageFault

-----------------------------------------------------------------------------
\* The world around the pass.

\* The capture that was allowed leaves a new run.
Capture(r) ==
  /\ pc = "idle" /\ outcome = "proceed" /\ pass.mode = "capture"
  /\ kind[r] = "none" /\ \A q \in Runs : kind[q] = "none" => r <= q
  /\ \E c \in Captures :
       /\ kind' = [kind EXCEPT ![r] = c.kind] /\ local' = [local EXCEPT ![r] = c.local]
       /\ remote' = [remote EXCEPT ![r] = c.remote] /\ guard' = [guard EXCEPT ![r] = c.guard]
  /\ folders' = folders \cup {r}
  /\ outcome' = "none"
  /\ UNCHANGED <<proved, ident, journals, pc, memory, late, bounds>>

\* An operator pins a run.
Pin(r) ==
  /\ Accident("world") /\ r \in folders /\ guard[r] = "none" /\ local[r] # "none"
  /\ guard' = [guard EXCEPT ![r] = "pinned"]
  /\ late' = late \cup {"local"}
  /\ UNCHANGED <<kind, local, remote, proved, ident, folders, journals, pc, memory, outcome,
                 crashes, passes, settings>>

\* A restore test of r succeeds.  The history records it; the manifest, where the
\* pass looks for it, only if the run was never published: a committed manifest
\* is not rewritten.
RestoreTest(r) ==
  /\ Accident("world") /\ r \in folders \ proved
  /\ kind[r] = "complete" /\ local[r] = "intact"
  /\ proved' = proved \cup {r}
  /\ guard' = [guard EXCEPT ![r] = IF remote[r] = "none" /\ @ = "none" THEN "tested" ELSE @]
  /\ late' = late \cup {"local"}
  /\ UNCHANGED <<kind, local, remote, ident, folders, journals, pc, memory, outcome,
                 crashes, passes, settings>>

Protect(r) == Pin(r) \/ RestoreTest(r)

\* A local payload is rewritten with other bytes.
Replace(r) ==
  /\ Accident("world") /\ local[r] \in {"intact", "temp"}
  /\ local' = [local EXCEPT ![r] = IF @ = "intact" THEN "damaged" ELSE @]
  /\ ident' = [ident EXCEPT ![r] = @ + 1]
  /\ late' = late \cup {"local"}
  /\ UNCHANGED <<kind, remote, guard, proved, folders, journals, pc, memory, outcome,
                 crashes, passes, settings>>

\* A bucket rule removes an S3 point, or one of its objects is replaced.
RemoteChanges(r) ==
  /\ Accident("world") /\ remote[r] \in {"complete", "logical"}
  /\ \E left \in {"removed", "rotten"} : remote' = [remote EXCEPT ![r] = left]
  /\ late' = late \cup {"remote"}
  /\ UNCHANGED <<kind, local, guard, proved, ident, folders, journals, pc, memory, outcome,
                 crashes, passes, settings>>

\* The process dies; the journals and the files stay.
Crash ==
  /\ pc # "idle" /\ crashes < MaxCrashes
  /\ crashes' = crashes + 1
  /\ pc' = "idle" /\ pass' = NewPass("apply", FALSE, FALSE) /\ todo' = {} /\ job' = NoJob
  /\ outcome' = "none" /\ late' = {}
  /\ UNCHANGED <<files, journals, accidents, passes, settings>>

Next ==
  \/ PassStep
  \/ \E m \in Modes : Begin(m)
  \/ \E r \in Runs : Capture(r) \/ Protect(r) \/ Replace(r) \/ RemoteChanges(r)
  \/ Crash

Spec == Init /\ [][Next]_vars
\* A pass that started is not left alone: the process runs it to its end.
FairSpec == Spec /\ WF_vars(PassStep)

-----------------------------------------------------------------------------
\* Properties.

WholeLocal(r) == logicalStorageRecord(r) /\ local[r] = "intact"
WholeRemote == {r \in Runs : remote[r] = "complete"}
InS3(r) == Readable(r) \/ (Twin[r] # None /\ Readable(Twin[r]))

\* A payload removed (unlinkStoragePayload) was not pinned; at the last look its
\* manifest carried no restore test, and if one had succeeded the run was published
\* (the manifest of a published run cannot tell: the documents say that tested runs
\* are kept, and these are not); a complete local point stays, newer than it if it
\* was one itself or a temporary dump; two complete points stay in S3; and its own
\* bytes are in S3 too, unless it is an expired or a temporary one, which newer
\* points supersede.  What changes after the last look is excepted, no more.
Justified(r) ==
  /\ guard[r] # "pinned" /\ pass.mode # "plan"
  /\ "local" \notin late =>
       /\ guard[r] # "tested" /\ (r \in proved => remote[r] # "none")
       /\ \E g \in Runs \ {r} : WholeLocal(g) /\ (WholeLocal(r) \/ local[r] = "temp" => g > r)
  /\ "remote" \notin late =>
       /\ Cardinality(WholeRemote) >= 2
       /\ \/ local[r] = "temp" \/ InS3(r)
          \/ /\ maxLocal > 0 /\ Cardinality({p \in WholeRemote : p > r}) >= 2
             /\ "local" \notin late =>
                  Cardinality({g \in Runs : g > r /\ WholeLocal(g)}) >= Limit(pass.mode)
DeletionJustified ==
  [][\A r \in Runs : local[r] # "none" /\ local'[r] = "none" => Justified(r)]_vars

\* At most one deletion is unsettled, through crashes and journal errors
\* (recoverIntents comes before any new deletion).
OneIntent == Cardinality(Intents) <= 1

\* What the journal says of a payload is true of the disk: gone when it says so,
\* there when it was held or cancelled, and in doubt only between the two.
JournalTruthful ==
  /\ \A r \in Runs :
       /\ journal[r] \in {"DELETED", "REMOVED"} => local[r] = "none"
       /\ journal[r] \in {"HELD", "CANCELLED"} => local[r] # "none"
  /\ pc = "record" => journal[job.run] = "INTENT"

\* A capture is let through only when it fits (ensure), so the disk never overflows.
ProceedHasRoom ==
  /\ outcome = "proceed" => Sufficient
  /\ localPayloadRunCount <= disk

\* A payload that cleanup may delete now, S3 permitting.
Deletable(r) ==
  /\ pass.type[r] # "none" /\ local[r] # "none" /\ guard[r] = "none"
  /\ \/ pass.type[r] = "temp"
     \/ NeedsCounterpart(r) /\ local[r] = "intact" /\ Readable(Counterpart(r))

\* An expired payload whose bytes are not the manifest's any more, and whose
\* deletion failed for that or was interrupted and is not authorized again.
Spoiled(r) ==
  /\ pass.type[r] = "expired" /\ local[r] = "damaged"
  /\ journal[r] = "INTENT" \/ (journal[r] = "FAILED" /\ r = job.run)

\* When no accident happened and both kinds of evidence were there, a refused
\* capture does not fit and nothing redundant is left to delete (ensure), or an
\* expired payload could not be deleted for its bytes.
RefusedForCause ==
  /\ outcome = "refused" /\ accidents = 0
  /\ pass.good # {} /\ Cardinality(pass.keptRemote) >= 2
  => \/ ~Sufficient /\ \A r \in Runs : ~Deletable(r)
     \/ \E r \in Runs : Spoiled(r)

\* Every pass ends, whatever is held, fails or changes meanwhile.
EveryPassEnds == pc # "idle" ~> pc = "idle"

\* README.md and WORKING.md: with sufficient capacity a capture is not refused
\* because S3 cannot be consulted or a candidate is held.
CaptureContinues == outcome = "refused" /\ pass.mode = "capture" => ~Sufficient
=============================================================================
