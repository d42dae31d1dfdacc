----------------------------- MODULE LogicalDump -----------------------------
(***************************************************************************)
(* The logical capture of a run in per_database mode (app.go,              *)
(* database.go, logical_compress.go): discovery, the tasks, the pool of    *)
(* workers, and for each database the retried pipeline of the dump         *)
(* process, the compressor and the artifact file.                          *)
(***************************************************************************)
EXTENDS Integers, FiniteSets

CONSTANTS
  MaxTasks,     \* bound: databases discovered
  Workers,      \* {1} is the sequential loop
  Attempts,     \* BACKUP_RETRY_COUNT
  Chunks,       \* pieces of a whole dump
  NoFile

ASSUME DumpAssumption ==
  /\ MaxTasks \in Nat /\ Attempts \in Nat \ {0} /\ Chunks \in Nat
  /\ NoFile \notin [chunks : Nat, attempt : Nat]

Tasks == 1..MaxTasks
NoTask == 0

VARIABLES
  capture,      \* the run: its phase, tasks in all and handed over, its tally
  task,         \* task[i]: the i-th database; see TaskTypeOK
  worker,       \* worker[w]: the task a worker has, NoTask, or Gone
  outcomes      \* tasks whose result is in the buffered channel

dumpVars == <<capture, task, worker, outcomes>>

Gone == -1
Phases == {"discover", "prepare", "coordinates", "execute", "tally", "ended"}
Stages == {"ready", "views", "inventory", "open", "stream", "hash", "pause", "result", "sent"}
Scopes == {"some", "nothing"}   \* "nothing": none of the requested tables is there
Processes == {"none", "running", "ok", "dead"}

Fresh == [scope |-> "some", stage |-> "ready", attempt |-> 0, status |-> "failed",
          dump |-> "none", comp |-> "none", sent |-> 0, pipe |-> 0, file |-> NoFile]

Files == [chunks : 0..Chunks, attempt : 1..Attempts] \cup {NoFile}

DumpTypeOK ==
  /\ capture \in [phase : Phases, total : 0..MaxTasks, fed : 0..MaxTasks, saved : BOOLEAN,
                  succeeded : 0..MaxTasks, failed : 0..MaxTasks]
  /\ task \in [Tasks -> [scope : Scopes, stage : Stages, attempt : 0..Attempts,
                         status : {"failed", "success"},
                         dump : Processes, comp : Processes,
                         sent : 0..Chunks, pipe : 0..1, file : Files]]
  /\ worker \in [Workers -> Tasks \cup {NoTask, Gone}]
  /\ outcomes \subseteq Tasks

DumpInit ==
  /\ capture = [phase |-> "discover", total |-> 0, fed |-> 0, saved |-> FALSE,
                succeeded |-> 0, failed |-> 0]
  /\ task = [i \in Tasks |-> Fresh]
  /\ worker = [w \in Workers |-> NoTask]
  /\ outcomes = {}

-----------------------------------------------------------------------------
(* The run: discovery, tasks, the position of the binary log.              *)

EndCapture == capture' = [capture EXCEPT !.phase = "ended"]

(* listDatabases and filterDatabases; an empty server counts as a success, *)
(* a required database that is missing as a failure.                       *)
Discover ==
  /\ capture.phase = "discover"
  /\ \/ EndCapture
     \/ capture' = [capture EXCEPT !.phase = "ended", !.saved = TRUE]
     \/ \E n \in Tasks : capture' = [capture EXCEPT !.phase = "prepare", !.total = n]
  /\ UNCHANGED <<task, worker, outcomes>>

(* The requested tables that exist are dumped, or the whole database if    *)
(* none was requested or the tables cannot be listed.                      *)
PrepareTasks ==
  /\ capture.phase = "prepare"
  /\ \E scope \in [Tasks -> Scopes] :
       task' = [i \in Tasks |-> [task[i] EXCEPT
                  !.scope = scope[i],
                  !.status = IF scope[i] = "nothing" THEN "success" ELSE "failed"]]
  /\ capture' = [capture EXCEPT !.phase = "coordinates"]
  /\ UNCHANGED <<worker, outcomes>>

(* captureMySQLPITRMetadata: an error ends the run only if it is required. *)
ObserveCoordinates ==
  /\ capture.phase = "coordinates"
  /\ \/ capture' = [capture EXCEPT !.phase = "execute"]
     \/ EndCapture
  /\ UNCHANGED <<task, worker, outcomes>>

-----------------------------------------------------------------------------
(* executeLogicalBackupTasks: the tasks are handed over one by one to idle *)
(* workers; the run reads the results after every worker is gone.          *)

OutcomeRoomMut == 1

OutcomeRoom == capture.total

Feed ==
  /\ capture.phase = "execute" /\ capture.fed < capture.total
  /\ \E w \in Workers :
       /\ worker[w] = NoTask
       /\ worker' = [worker EXCEPT ![w] = capture.fed + 1]
       /\ task' = [task EXCEPT ![capture.fed + 1].stage =
                     IF task[capture.fed + 1].scope = "nothing" THEN "result" ELSE "views"]
  /\ capture' = [capture EXCEPT !.fed = @ + 1]
  /\ UNCHANGED outcomes

Report(w) ==
  /\ worker[w] \in Tasks /\ task[worker[w]].stage = "result"
  /\ Cardinality(outcomes) < OutcomeRoom
  /\ outcomes' = outcomes \cup {worker[w]}
  /\ task' = [task EXCEPT ![worker[w]].stage = "sent"]
  /\ worker' = [worker EXCEPT ![w] = NoTask]
  /\ UNCHANGED capture

WorkerLeaves(w) ==
  /\ capture.phase = "execute" /\ capture.fed = capture.total /\ worker[w] = NoTask
  /\ worker' = [worker EXCEPT ![w] = Gone]
  /\ UNCHANGED <<capture, task, outcomes>>

Collect ==
  /\ capture.phase = "execute" /\ \A w \in Workers : worker[w] = Gone
  /\ capture' = [capture EXCEPT !.phase = "tally"]
  /\ UNCHANGED <<task, worker, outcomes>>

Succeeded == {i \in outcomes : task[i].status = "success"}

TallyMut ==
  /\ capture.phase = "tally"
  /\ capture' = [capture EXCEPT !.phase = "ended",
                   !.succeeded = Cardinality(Succeeded),
                   !.failed = capture.total - Cardinality(Succeeded),
                   !.saved = Succeeded # {}]
  /\ UNCHANGED <<task, worker, outcomes>>

(* LogicalLastSuccess advances only if no database failed.                 *)
Tally ==
  /\ capture.phase = "tally"
  /\ capture' = [capture EXCEPT !.phase = "ended",
                   !.succeeded = Cardinality(Succeeded),
                   !.failed = capture.total - Cardinality(Succeeded),
                   !.saved = Cardinality(Succeeded) = capture.total]
  /\ UNCHANGED <<task, worker, outcomes>>

-----------------------------------------------------------------------------
(* dumpWithRetry of one database.                                          *)

Set(i, rec) == task' = [task EXCEPT ![i] = rec]
Others == UNCHANGED <<capture, worker, outcomes>>

(* The views are probed once; a broken one is refused or left out.         *)
CheckViews(i) ==
  /\ task[i].stage = "views"
  /\ \/ Set(i, [task[i] EXCEPT !.stage = "inventory", !.attempt = 1])
     \/ Set(i, [task[i] EXCEPT !.stage = "result"])
  /\ Others

(* The inventory and the counts belong to the first attempt only.          *)
TakeInventory(i) ==
  /\ task[i].stage = "inventory"
  /\ \E stage \in {"open", "result"} : Set(i, [task[i] EXCEPT !.stage = stage])
  /\ Others

(* A failed attempt is followed by another one unless it was the last or   *)
(* its category forbids it.                                                *)
Failed(t, file, retry) ==
  [t EXCEPT !.stage = IF retry /\ t.attempt < Attempts THEN "pause" ELSE "result",
            !.file = file, !.dump = "none", !.comp = "none", !.sent = 0, !.pipe = 0]

(* removePartialOutput renames the file; if it cannot, the partial file    *)
(* keeps the name of the artifact.                                         *)
SetAside(i, file) ==
  \E kept \in {NoFile, file}, retry \in BOOLEAN : Set(i, Failed(task[i], kept, retry))

Truncated(i) == [chunks |-> 0, attempt |-> task[i].attempt]

(* The file cannot be opened and stays as it was, or it is truncated; then *)
(* encryption, the compressor or the client may be unusable, otherwise the *)
(* processes start.                                                        *)
OpenPipeline(i) ==
  /\ task[i].stage = "open"
  /\ \/ \E retry \in BOOLEAN : Set(i, Failed(task[i], task[i].file, retry))
     \/ SetAside(i, Truncated(i))
     \/ Set(i, [task[i] EXCEPT !.stage = "stream", !.dump = "running", !.comp = "running",
                               !.file = Truncated(i)])
  /\ Others

DumpWrites(i) ==
  /\ task[i].dump = "running" /\ task[i].pipe = 0 /\ task[i].sent < Chunks
  /\ Set(i, [task[i] EXCEPT !.sent = @ + 1, !.pipe = 1])
  /\ Others

(* Its exit status is trusted: it is 0 only after everything was written.  *)
DumpExits(i) ==
  /\ task[i].dump = "running" /\ task[i].sent = Chunks
  /\ Set(i, [task[i] EXCEPT !.dump = "ok"])
  /\ Others

(* It fails, is killed by the timeout, or loses the server.                *)
DumpDies(i) ==
  /\ task[i].dump = "running"
  /\ Set(i, [task[i] EXCEPT !.dump = "dead"])
  /\ Others

(* gzip, or pigz with its feeder; the disk reserve may refuse the write.   *)
CompressorWrites(i) ==
  /\ task[i].comp = "running" /\ task[i].pipe = 1
  /\ \/ Set(i, [task[i] EXCEPT !.file = [task[i].file EXCEPT !.chunks = @ + 1],
                            !.pipe = 0])
     \/ Set(i, [task[i] EXCEPT !.comp = "dead"])
  /\ Others

(* The end of the input ends the compressor well, whatever ended the dump. *)
CompressorEnds(i) ==
  /\ task[i].comp = "running" /\ task[i].pipe = 0 /\ task[i].dump # "running"
  /\ Set(i, [task[i] EXCEPT !.comp = "ok"])
  /\ Others

CompressorDies(i) ==
  /\ task[i].comp = "running"
  /\ Set(i, [task[i] EXCEPT !.comp = "dead"])
  /\ Others

(* abortSource and Process.Kill: a dead compressor takes the dump with it. *)
AbortDump(i) ==
  /\ task[i].comp = "dead" /\ task[i].dump = "running"
  /\ Set(i, [task[i] EXCEPT !.dump = "dead"])
  /\ Others

UsableMut(t) == t.comp = "ok"

(* The artifact is kept if the stream, the closing of the file and the     *)
(* exit of the dump process were all well and the coordinate is there when *)
(* required.  That the file is not empty always holds: the header of the   *)
(* compressor is counted.                                                  *)
Usable(t) == t.comp = "ok" /\ t.dump = "ok"

EndPipeline(i) ==
  /\ task[i].stage = "stream" /\ task[i].dump # "running" /\ task[i].comp # "running"
  /\ \/ SetAside(i, task[i].file)
     \/ Usable(task[i]) /\ Set(i, [task[i] EXCEPT !.stage = "hash", !.dump = "none",
                                                  !.comp = "none", !.sent = 0, !.pipe = 0])
  /\ Others

(* A hash error is retried; after the last one the file keeps its name.    *)
HashArtifact(i) ==
  /\ task[i].stage = "hash"
  /\ \/ Set(i, [task[i] EXCEPT !.stage = "result", !.status = "success"])
     \/ Set(i, Failed(task[i], task[i].file, TRUE))
  /\ Others

Retry(i) ==
  /\ task[i].stage = "pause"
  /\ Set(i, [task[i] EXCEPT !.stage = "open", !.attempt = @ + 1])
  /\ Others

TaskSteps(i) ==
  \/ CheckViews(i) \/ TakeInventory(i) \/ OpenPipeline(i) \/ DumpWrites(i) \/ DumpExits(i)
  \/ DumpDies(i) \/ CompressorWrites(i) \/ CompressorEnds(i) \/ CompressorDies(i)
  \/ AbortDump(i) \/ EndPipeline(i) \/ HashArtifact(i) \/ Retry(i)

CaptureSteps ==
  \/ Discover
  \/ PrepareTasks
  \/ ObserveCoordinates
  \/ Feed
  \/ Collect
  \/ Tally
  \/ \E w \in Workers : Report(w) \/ WorkerLeaves(w)

DumpNext == CaptureSteps \/ \E i \in Tasks : TaskSteps(i)

(* The processes and goroutines are scheduled; every dump has a timeout.   *)
DumpFairness == WF_dumpVars(CaptureSteps) /\ \A i \in Tasks : WF_dumpVars(TaskSteps(i))

DumpSpec == DumpInit /\ [][DumpNext]_dumpVars /\ DumpFairness

-----------------------------------------------------------------------------
Whole(i) == task[i].file = [chunks |-> Chunks, attempt |-> task[i].attempt]

(* A database counts as captured only with the whole output of one dump    *)
(* process: the artifact is never what an attempt wrote before its dump    *)
(* died, its compressor broke or its time was over, although the stream    *)
(* then ends as if it were complete, and never mixes two attempts.         *)
DumpedIsWhole ==
  \A i \in Tasks : task[i].status = "success" => Whole(i) \/ task[i].scope = "nothing"

(* The success that the schedule state remembers stands for all databases: *)
(* it is saved only if each of them delivered its own result and none      *)
(* failed, whatever order the workers finished in.                         *)
SavedMeansAll ==
  capture.saved /\ capture.total > 0 =>
    /\ outcomes = 1..capture.total
    /\ \A i \in outcomes : Whole(i) \/ task[i].scope = "nothing"

(* A capture that found databases ends: no worker waits for a reader that  *)
(* waits for the workers, and a dump whose compressor died does not block  *)
(* its database.                                                           *)
CaptureEnds == capture.phase = "prepare" ~> capture.phase = "ended"
=============================================================================
