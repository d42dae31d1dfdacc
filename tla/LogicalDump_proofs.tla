------------------------- MODULE LogicalDump_proofs -------------------------
(***************************************************************************)
(* Theorems about LogicalDump for any number of databases, workers and     *)
(* attempts, dumps of any length and any failure of the processes.         *)
(***************************************************************************)
EXTENDS LogicalDump, FiniteSetTheorems, TLAPS

TaskRecords == [scope : Scopes, stage : Stages, attempt : 0..Attempts,
            status : {"failed", "success"}, dump : Processes, comp : Processes,
            sent : 0..Chunks, pipe : 0..1, file : Files]

(* What holds of one database.  The file has what the dump of this attempt *)
(* sent, except a piece in the pipe; the processes run only in the stage   *)
(* that streams; a database is a success only when it is over.             *)
Attempted(t) ==
  /\ t.stage \in {"inventory", "open", "stream"} => t.attempt > 0
  /\ t.stage = "pause" => t.attempt < Attempts
Streaming(t) ==
  /\ t.stage = "stream" =>
       t.pipe <= t.sent /\ t.file = [chunks |-> t.sent - t.pipe, attempt |-> t.attempt]
  /\ t.stage # "stream" => t.dump = "none" /\ t.comp = "none" /\ t.sent = 0 /\ t.pipe = 0
Ended(t) ==
  /\ t.dump = "ok" => t.sent = Chunks
  /\ t.comp = "ok" => t.pipe = 0 /\ t.dump # "running"
Entire(t) == t.file = [chunks |-> Chunks, attempt |-> t.attempt]
Earned(t) ==
  /\ t.stage = "hash" => Entire(t)
  /\ t.status = "success" /\ t.scope # "nothing" =>
       t.stage \in {"result", "sent"} /\ Entire(t)
Sound(t) == Attempted(t) /\ Streaming(t) /\ Ended(t) /\ Earned(t)

(* A database that was not handed over is untouched, and every result is   *)
(* that of a database that is over.                                        *)
HandedOver ==
  /\ capture.fed <= capture.total
  /\ capture.phase = "discover" => capture.total = 0
  /\ capture.phase \in {"discover", "prepare", "coordinates"} => capture.fed = 0
  /\ \A i \in Tasks : i > capture.fed => task[i].stage = "ready"
  /\ \A i \in outcomes : i <= capture.fed /\ task[i].stage = "sent"

(* The success is saved at the very end and for all databases.             *)
Saved ==
  capture.saved =>
    /\ capture.phase = "ended"
    /\ capture.total > 0 =>
         outcomes = 1..capture.total /\ \A i \in outcomes : task[i].status = "success"

AllSound == \A i \in Tasks : Sound(task[i])
DumpInv == DumpTypeOK /\ AllSound /\ HandedOver /\ Saved

-----------------------------------------------------------------------------
IsTask(g, sc, st, at, su, du, co, se, pi, fi) ==
  /\ g \in TaskRecords
  /\ g.scope = sc /\ g.stage = st /\ g.attempt = at /\ g.status = su /\ g.dump = du
  /\ g.comp = co /\ g.sent = se /\ g.pipe = pi /\ g.file = fi

LEMMA TaskFields ==
  ASSUME NEW g \in TaskRecords
  PROVE  /\ g.scope \in Scopes /\ g.stage \in Stages /\ g.attempt \in 0..Attempts
         /\ g.status \in {"failed", "success"} /\ g.dump \in Processes
         /\ g.comp \in Processes /\ g.sent \in 0..Chunks /\ g.pipe \in 0..1 /\ g.file \in Files
  BY DEF TaskRecords

LEMMA PutStage ==
  ASSUME NEW g \in TaskRecords, NEW st \in Stages
  PROVE  IsTask([g EXCEPT !.stage = st],
            g.scope, st, g.attempt, g.status, g.dump,
            g.comp, g.sent, g.pipe, g.file)
  BY DEF IsTask, TaskRecords

LEMMA PutDump ==
  ASSUME NEW g \in TaskRecords, NEW du \in Processes
  PROVE  IsTask([g EXCEPT !.dump = du],
            g.scope, g.stage, g.attempt, g.status, du,
            g.comp, g.sent, g.pipe, g.file)
  BY DEF IsTask, TaskRecords

LEMMA PutComp ==
  ASSUME NEW g \in TaskRecords, NEW co \in Processes
  PROVE  IsTask([g EXCEPT !.comp = co],
            g.scope, g.stage, g.attempt, g.status, g.dump,
            co, g.sent, g.pipe, g.file)
  BY DEF IsTask, TaskRecords

LEMMA PutTry ==
  ASSUME NEW g \in TaskRecords, NEW st \in Stages,
         NEW at \in 0..Attempts
  PROVE  IsTask([g EXCEPT !.stage = st, !.attempt = at],
            g.scope, st, at, g.status, g.dump,
            g.comp, g.sent, g.pipe, g.file)
<1> DEFINE h1 == [g EXCEPT !.stage = st]
<1>1. IsTask(h1, g.scope, st, g.attempt, g.status, g.dump,
            g.comp, g.sent, g.pipe, g.file)
  BY DEF IsTask, TaskRecords
<1> HIDE DEF h1
<1>2. IsTask([h1 EXCEPT !.attempt = at], g.scope, st, at, g.status, g.dump,
            g.comp, g.sent, g.pipe, g.file)
  BY <1>1 DEF IsTask, TaskRecords
<1>3. [g EXCEPT !.stage = st, !.attempt = at] = [h1 EXCEPT !.attempt = at]
  BY DEF h1
<1> QED
  BY <1>2, <1>3

LEMMA PutStatus ==
  ASSUME NEW g \in TaskRecords, NEW st \in Stages,
         NEW su \in {"failed", "success"}
  PROVE  IsTask([g EXCEPT !.stage = st, !.status = su],
            g.scope, st, g.attempt, su, g.dump,
            g.comp, g.sent, g.pipe, g.file)
<1> DEFINE h1 == [g EXCEPT !.stage = st]
<1>1. IsTask(h1, g.scope, st, g.attempt, g.status, g.dump,
            g.comp, g.sent, g.pipe, g.file)
  BY DEF IsTask, TaskRecords
<1> HIDE DEF h1
<1>2. IsTask([h1 EXCEPT !.status = su], g.scope, st, g.attempt, su, g.dump,
            g.comp, g.sent, g.pipe, g.file)
  BY <1>1 DEF IsTask, TaskRecords
<1>3. [g EXCEPT !.stage = st, !.status = su] = [h1 EXCEPT !.status = su]
  BY DEF h1
<1> QED
  BY <1>2, <1>3

LEMMA PutScope ==
  ASSUME NEW g \in TaskRecords, NEW sc \in Scopes,
         NEW su \in {"failed", "success"}
  PROVE  IsTask([g EXCEPT !.scope = sc, !.status = su],
            sc, g.stage, g.attempt, su, g.dump,
            g.comp, g.sent, g.pipe, g.file)
<1> DEFINE h1 == [g EXCEPT !.scope = sc]
<1>1. IsTask(h1, sc, g.stage, g.attempt, g.status, g.dump,
            g.comp, g.sent, g.pipe, g.file)
  BY DEF IsTask, TaskRecords
<1> HIDE DEF h1
<1>2. IsTask([h1 EXCEPT !.status = su], sc, g.stage, g.attempt, su, g.dump,
            g.comp, g.sent, g.pipe, g.file)
  BY <1>1 DEF IsTask, TaskRecords
<1>3. [g EXCEPT !.scope = sc, !.status = su] = [h1 EXCEPT !.status = su]
  BY DEF h1
<1> QED
  BY <1>2, <1>3

LEMMA PutPiece ==
  ASSUME NEW g \in TaskRecords, NEW se \in 0..Chunks,
         NEW pi \in 0..1
  PROVE  IsTask([g EXCEPT !.sent = se, !.pipe = pi],
            g.scope, g.stage, g.attempt, g.status, g.dump,
            g.comp, se, pi, g.file)
<1> DEFINE h1 == [g EXCEPT !.sent = se]
<1>1. IsTask(h1, g.scope, g.stage, g.attempt, g.status, g.dump,
            g.comp, se, g.pipe, g.file)
  BY DEF IsTask, TaskRecords
<1> HIDE DEF h1
<1>2. IsTask([h1 EXCEPT !.pipe = pi], g.scope, g.stage, g.attempt, g.status, g.dump,
            g.comp, se, pi, g.file)
  BY <1>1 DEF IsTask, TaskRecords
<1>3. [g EXCEPT !.sent = se, !.pipe = pi] = [h1 EXCEPT !.pipe = pi]
  BY DEF h1
<1> QED
  BY <1>2, <1>3

LEMMA PutFile ==
  ASSUME NEW g \in TaskRecords, NEW fi \in Files,
         NEW pi \in 0..1
  PROVE  IsTask([g EXCEPT !.file = fi, !.pipe = pi],
            g.scope, g.stage, g.attempt, g.status, g.dump,
            g.comp, g.sent, pi, fi)
<1> DEFINE h1 == [g EXCEPT !.file = fi]
<1>1. IsTask(h1, g.scope, g.stage, g.attempt, g.status, g.dump,
            g.comp, g.sent, g.pipe, fi)
  BY DEF IsTask, TaskRecords
<1> HIDE DEF h1
<1>2. IsTask([h1 EXCEPT !.pipe = pi], g.scope, g.stage, g.attempt, g.status, g.dump,
            g.comp, g.sent, pi, fi)
  BY <1>1 DEF IsTask, TaskRecords
<1>3. [g EXCEPT !.file = fi, !.pipe = pi] = [h1 EXCEPT !.pipe = pi]
  BY DEF h1
<1> QED
  BY <1>2, <1>3

LEMMA PutRunning ==
  ASSUME NEW g \in TaskRecords, NEW st \in Stages,
         NEW du \in Processes, NEW co \in Processes, NEW fi \in Files
  PROVE  IsTask([g EXCEPT !.stage = st, !.dump = du, !.comp = co, !.file = fi],
            g.scope, st, g.attempt, g.status, du,
            co, g.sent, g.pipe, fi)
<1> DEFINE h1 == [g EXCEPT !.stage = st]
<1>1. IsTask(h1, g.scope, st, g.attempt, g.status, g.dump,
            g.comp, g.sent, g.pipe, g.file)
  BY DEF IsTask, TaskRecords
<1> HIDE DEF h1
<1> DEFINE h2 == [h1 EXCEPT !.dump = du]
<1>2. IsTask(h2, g.scope, st, g.attempt, g.status, du,
            g.comp, g.sent, g.pipe, g.file)
  BY <1>1 DEF IsTask, TaskRecords
<1> HIDE DEF h2
<1> DEFINE h3 == [h2 EXCEPT !.comp = co]
<1>3. IsTask(h3, g.scope, st, g.attempt, g.status, du,
            co, g.sent, g.pipe, g.file)
  BY <1>2 DEF IsTask, TaskRecords
<1> HIDE DEF h3
<1>4. IsTask([h3 EXCEPT !.file = fi], g.scope, st, g.attempt, g.status, du,
            co, g.sent, g.pipe, fi)
  BY <1>3 DEF IsTask, TaskRecords
<1>5. [g EXCEPT !.stage = st, !.dump = du, !.comp = co, !.file = fi] = [h3 EXCEPT !.file = fi]
  BY DEF h1, h2, h3
<1> QED
  BY <1>4, <1>5

LEMMA PutIdle ==
  ASSUME NEW g \in TaskRecords, NEW st \in Stages,
         NEW du \in Processes, NEW co \in Processes, NEW se \in 0..Chunks,
         NEW pi \in 0..1
  PROVE  IsTask([g EXCEPT !.stage = st, !.dump = du, !.comp = co, !.sent = se, !.pipe = pi],
            g.scope, st, g.attempt, g.status, du,
            co, se, pi, g.file)
<1> DEFINE h1 == [g EXCEPT !.stage = st]
<1>1. IsTask(h1, g.scope, st, g.attempt, g.status, g.dump,
            g.comp, g.sent, g.pipe, g.file)
  BY DEF IsTask, TaskRecords
<1> HIDE DEF h1
<1> DEFINE h2 == [h1 EXCEPT !.dump = du]
<1>2. IsTask(h2, g.scope, st, g.attempt, g.status, du,
            g.comp, g.sent, g.pipe, g.file)
  BY <1>1 DEF IsTask, TaskRecords
<1> HIDE DEF h2
<1> DEFINE h3 == [h2 EXCEPT !.comp = co]
<1>3. IsTask(h3, g.scope, st, g.attempt, g.status, du,
            co, g.sent, g.pipe, g.file)
  BY <1>2 DEF IsTask, TaskRecords
<1> HIDE DEF h3
<1> DEFINE h4 == [h3 EXCEPT !.sent = se]
<1>4. IsTask(h4, g.scope, st, g.attempt, g.status, du,
            co, se, g.pipe, g.file)
  BY <1>3 DEF IsTask, TaskRecords
<1> HIDE DEF h4
<1>5. IsTask([h4 EXCEPT !.pipe = pi], g.scope, st, g.attempt, g.status, du,
            co, se, pi, g.file)
  BY <1>4 DEF IsTask, TaskRecords
<1>6. [g EXCEPT !.stage = st, !.dump = du, !.comp = co, !.sent = se, !.pipe = pi] = [h4 EXCEPT !.pipe = pi]
  BY DEF h1, h2, h3, h4
<1> QED
  BY <1>5, <1>6

LEMMA PutFailed ==
  ASSUME NEW g \in TaskRecords, NEW st \in Stages,
         NEW fi \in Files, NEW du \in Processes, NEW co \in Processes,
         NEW se \in 0..Chunks, NEW pi \in 0..1
  PROVE  IsTask([g EXCEPT !.stage = st, !.file = fi, !.dump = du, !.comp = co, !.sent = se, !.pipe = pi],
            g.scope, st, g.attempt, g.status, du,
            co, se, pi, fi)
<1> DEFINE h1 == [g EXCEPT !.stage = st]
<1>1. IsTask(h1, g.scope, st, g.attempt, g.status, g.dump,
            g.comp, g.sent, g.pipe, g.file)
  BY DEF IsTask, TaskRecords
<1> HIDE DEF h1
<1> DEFINE h2 == [h1 EXCEPT !.file = fi]
<1>2. IsTask(h2, g.scope, st, g.attempt, g.status, g.dump,
            g.comp, g.sent, g.pipe, fi)
  BY <1>1 DEF IsTask, TaskRecords
<1> HIDE DEF h2
<1> DEFINE h3 == [h2 EXCEPT !.dump = du]
<1>3. IsTask(h3, g.scope, st, g.attempt, g.status, du,
            g.comp, g.sent, g.pipe, fi)
  BY <1>2 DEF IsTask, TaskRecords
<1> HIDE DEF h3
<1> DEFINE h4 == [h3 EXCEPT !.comp = co]
<1>4. IsTask(h4, g.scope, st, g.attempt, g.status, du,
            co, g.sent, g.pipe, fi)
  BY <1>3 DEF IsTask, TaskRecords
<1> HIDE DEF h4
<1> DEFINE h5 == [h4 EXCEPT !.sent = se]
<1>5. IsTask(h5, g.scope, st, g.attempt, g.status, du,
            co, se, g.pipe, fi)
  BY <1>4 DEF IsTask, TaskRecords
<1> HIDE DEF h5
<1>6. IsTask([h5 EXCEPT !.pipe = pi], g.scope, st, g.attempt, g.status, du,
            co, se, pi, fi)
  BY <1>5 DEF IsTask, TaskRecords
<1>7. [g EXCEPT !.stage = st, !.file = fi, !.dump = du, !.comp = co, !.sent = se, !.pipe = pi] = [h5 EXCEPT !.pipe = pi]
  BY DEF h1, h2, h3, h4, h5
<1> QED
  BY <1>6, <1>7

-----------------------------------------------------------------------------
LEMMA DumpConstants ==
  /\ MaxTasks \in Nat /\ Attempts \in Nat \ {0} /\ Chunks \in Nat /\ 0 \notin Tasks
  /\ NoFile \in Files
  /\ \A c \in 0..Chunks, a \in 1..Attempts : [chunks |-> c, attempt |-> a] \in Files
  BY DumpAssumption DEF Files, Tasks

(* A step of one database replaces its record by a sound one, and only of  *)
(* a database that was handed over.                                        *)
SoundStep(i) ==
  \E r \in TaskRecords : Set(i, r) /\ Sound(r) /\ task[i].stage \notin {"ready", "sent"}

LEMMA CheckViewsSound ==
  ASSUME task \in [Tasks -> TaskRecords], NEW i \in Tasks, Sound(task[i]), CheckViews(i)
  PROVE  SoundStep(i)
<1>1. task[i] \in TaskRecords
  OBVIOUS
<1>2. "inventory" \in Stages /\ 1 \in 0..Attempts
  BY <1>1, TaskFields, DumpConstants DEF CheckViews, Stages, Processes
<1>3. IsTask([task[i] EXCEPT !.stage = "inventory", !.attempt = 1],
         task[i].scope, "inventory", 1, task[i].status,
         task[i].dump, task[i].comp, task[i].sent, task[i].pipe, task[i].file)
  BY <1>1, <1>2, PutTry, Zenon
<1>4. Sound([task[i] EXCEPT !.stage = "inventory", !.attempt = 1])
  BY <1>1, <1>3, TaskFields, DumpConstants DEF CheckViews, IsTask, Sound, Attempted, Streaming, Ended, Earned, Entire
<1>5. "result" \in Stages
  BY <1>1, TaskFields, DumpConstants DEF CheckViews, Stages, Processes
<1>6. IsTask([task[i] EXCEPT !.stage = "result"],
         task[i].scope, "result", task[i].attempt, task[i].status,
         task[i].dump, task[i].comp, task[i].sent, task[i].pipe, task[i].file)
  BY <1>1, <1>5, PutStage, Zenon
<1>7. Sound([task[i] EXCEPT !.stage = "result"])
  BY <1>1, <1>6, TaskFields, DumpConstants DEF CheckViews, IsTask, Sound, Attempted, Streaming, Ended, Earned, Entire
<1> QED
  BY <1>3, <1>4, <1>6, <1>7 DEF CheckViews, SoundStep, IsTask, Sound, Streaming

LEMMA TakeInventorySound ==
  ASSUME task \in [Tasks -> TaskRecords], NEW i \in Tasks, Sound(task[i]), TakeInventory(i)
  PROVE  SoundStep(i)
<1>1. task[i] \in TaskRecords
  OBVIOUS
<1>2. "open" \in Stages
  BY <1>1, TaskFields, DumpConstants DEF TakeInventory, Stages, Processes
<1>3. IsTask([task[i] EXCEPT !.stage = "open"],
         task[i].scope, "open", task[i].attempt, task[i].status,
         task[i].dump, task[i].comp, task[i].sent, task[i].pipe, task[i].file)
  BY <1>1, <1>2, PutStage, Zenon
<1>4. Sound([task[i] EXCEPT !.stage = "open"])
  BY <1>1, <1>3, TaskFields, DumpConstants DEF TakeInventory, IsTask, Sound, Attempted, Streaming, Ended, Earned, Entire
<1>5. "result" \in Stages
  BY <1>1, TaskFields, DumpConstants DEF TakeInventory, Stages, Processes
<1>6. IsTask([task[i] EXCEPT !.stage = "result"],
         task[i].scope, "result", task[i].attempt, task[i].status,
         task[i].dump, task[i].comp, task[i].sent, task[i].pipe, task[i].file)
  BY <1>1, <1>5, PutStage, Zenon
<1>7. Sound([task[i] EXCEPT !.stage = "result"])
  BY <1>1, <1>6, TaskFields, DumpConstants DEF TakeInventory, IsTask, Sound, Attempted, Streaming, Ended, Earned, Entire
<1> QED
  BY <1>3, <1>4, <1>6, <1>7 DEF TakeInventory, SoundStep, IsTask, Sound, Streaming

LEMMA FailedSound ==
  ASSUME task \in [Tasks -> TaskRecords], NEW i \in Tasks, Sound(task[i]),
         task[i].stage \in {"open", "stream", "hash"}, NEW file \in Files,
         NEW retry \in BOOLEAN, Set(i, Failed(task[i], file, retry))
  PROVE  SoundStep(i)
<1> DEFINE next == IF retry /\ task[i].attempt < Attempts THEN "pause" ELSE "result"
<1>1. task[i] \in TaskRecords
  OBVIOUS
<1>2. /\ next \in Stages /\ file \in Files /\ "none" \in Processes /\ 0 \in 0..Chunks /\ 0 \in 0..1
      /\ next = "pause" => task[i].attempt < Attempts
      /\ next \in {"pause", "result"}
  BY DumpConstants DEF Stages, Processes
<1> HIDE DEF next
<1> DEFINE r == [task[i] EXCEPT !.stage = next, !.file = file, !.dump = "none",
                                !.comp = "none", !.sent = 0, !.pipe = 0]
<1>3. IsTask(r, task[i].scope, next, task[i].attempt, task[i].status,
         "none", "none", 0, 0, file)
  BY <1>1, <1>2, PutFailed, Zenon
<1>4. Set(i, r)
  BY DEF Failed, next
<1> HIDE DEF r
<1>5. Sound(r)
  BY <1>2, <1>3 DEF IsTask, Sound, Attempted, Streaming, Ended, Earned, Entire
<1> QED
  BY <1>2, <1>3, <1>4, <1>5 DEF SoundStep, IsTask

LEMMA DumpWritesSound ==
  ASSUME task \in [Tasks -> TaskRecords], NEW i \in Tasks, Sound(task[i]), DumpWrites(i)
  PROVE  SoundStep(i)
<1>1. task[i] \in TaskRecords
  OBVIOUS
<1>2. task[i].sent + 1 \in 0..Chunks /\ 1 \in 0..1
  BY <1>1, TaskFields, DumpConstants DEF DumpWrites, Stages, Processes
<1>3. IsTask([task[i] EXCEPT !.sent = task[i].sent + 1, !.pipe = 1],
         task[i].scope, task[i].stage, task[i].attempt, task[i].status,
         task[i].dump, task[i].comp, task[i].sent + 1, 1, task[i].file)
  BY <1>1, <1>2, PutPiece, Zenon
<1>4. Sound([task[i] EXCEPT !.sent = task[i].sent + 1, !.pipe = 1])
  BY <1>1, <1>3, TaskFields, DumpConstants DEF DumpWrites, IsTask, Sound, Attempted, Streaming, Ended, Earned, Entire
<1> QED
  BY <1>3, <1>4 DEF DumpWrites, SoundStep, IsTask, Sound, Streaming

LEMMA DumpExitsSound ==
  ASSUME task \in [Tasks -> TaskRecords], NEW i \in Tasks, Sound(task[i]), DumpExits(i)
  PROVE  SoundStep(i)
<1>1. task[i] \in TaskRecords
  OBVIOUS
<1>2. "ok" \in Processes
  BY <1>1, TaskFields, DumpConstants DEF DumpExits, Stages, Processes
<1>3. IsTask([task[i] EXCEPT !.dump = "ok"],
         task[i].scope, task[i].stage, task[i].attempt, task[i].status,
         "ok", task[i].comp, task[i].sent, task[i].pipe, task[i].file)
  BY <1>1, <1>2, PutDump, Zenon
<1>4. Sound([task[i] EXCEPT !.dump = "ok"])
  BY <1>1, <1>3, TaskFields, DumpConstants DEF DumpExits, IsTask, Sound, Attempted, Streaming, Ended, Earned, Entire
<1> QED
  BY <1>3, <1>4 DEF DumpExits, SoundStep, IsTask, Sound, Streaming

LEMMA DumpDiesSound ==
  ASSUME task \in [Tasks -> TaskRecords], NEW i \in Tasks, Sound(task[i]), DumpDies(i)
  PROVE  SoundStep(i)
<1>1. task[i] \in TaskRecords
  OBVIOUS
<1>2. "dead" \in Processes
  BY <1>1, TaskFields, DumpConstants DEF DumpDies, Stages, Processes
<1>3. IsTask([task[i] EXCEPT !.dump = "dead"],
         task[i].scope, task[i].stage, task[i].attempt, task[i].status,
         "dead", task[i].comp, task[i].sent, task[i].pipe, task[i].file)
  BY <1>1, <1>2, PutDump, Zenon
<1>4. Sound([task[i] EXCEPT !.dump = "dead"])
  BY <1>1, <1>3, TaskFields, DumpConstants DEF DumpDies, IsTask, Sound, Attempted, Streaming, Ended, Earned, Entire
<1> QED
  BY <1>3, <1>4 DEF DumpDies, SoundStep, IsTask, Sound, Streaming

LEMMA AbortDumpSound ==
  ASSUME task \in [Tasks -> TaskRecords], NEW i \in Tasks, Sound(task[i]), AbortDump(i)
  PROVE  SoundStep(i)
<1>1. task[i] \in TaskRecords
  OBVIOUS
<1>2. "dead" \in Processes
  BY <1>1, TaskFields, DumpConstants DEF AbortDump, Stages, Processes
<1>3. IsTask([task[i] EXCEPT !.dump = "dead"],
         task[i].scope, task[i].stage, task[i].attempt, task[i].status,
         "dead", task[i].comp, task[i].sent, task[i].pipe, task[i].file)
  BY <1>1, <1>2, PutDump, Zenon
<1>4. Sound([task[i] EXCEPT !.dump = "dead"])
  BY <1>1, <1>3, TaskFields, DumpConstants DEF AbortDump, IsTask, Sound, Attempted, Streaming, Ended, Earned, Entire
<1> QED
  BY <1>3, <1>4 DEF AbortDump, SoundStep, IsTask, Sound, Streaming

LEMMA CompressorEndsSound ==
  ASSUME task \in [Tasks -> TaskRecords], NEW i \in Tasks, Sound(task[i]), CompressorEnds(i)
  PROVE  SoundStep(i)
<1>1. task[i] \in TaskRecords
  OBVIOUS
<1>2. "ok" \in Processes
  BY <1>1, TaskFields, DumpConstants DEF CompressorEnds, Stages, Processes
<1>3. IsTask([task[i] EXCEPT !.comp = "ok"],
         task[i].scope, task[i].stage, task[i].attempt, task[i].status,
         task[i].dump, "ok", task[i].sent, task[i].pipe, task[i].file)
  BY <1>1, <1>2, PutComp, Zenon
<1>4. Sound([task[i] EXCEPT !.comp = "ok"])
  BY <1>1, <1>3, TaskFields, DumpConstants DEF CompressorEnds, IsTask, Sound, Attempted, Streaming, Ended, Earned, Entire
<1> QED
  BY <1>3, <1>4 DEF CompressorEnds, SoundStep, IsTask, Sound, Streaming

LEMMA CompressorDiesSound ==
  ASSUME task \in [Tasks -> TaskRecords], NEW i \in Tasks, Sound(task[i]), CompressorDies(i)
  PROVE  SoundStep(i)
<1>1. task[i] \in TaskRecords
  OBVIOUS
<1>2. "dead" \in Processes
  BY <1>1, TaskFields, DumpConstants DEF CompressorDies, Stages, Processes
<1>3. IsTask([task[i] EXCEPT !.comp = "dead"],
         task[i].scope, task[i].stage, task[i].attempt, task[i].status,
         task[i].dump, "dead", task[i].sent, task[i].pipe, task[i].file)
  BY <1>1, <1>2, PutComp, Zenon
<1>4. Sound([task[i] EXCEPT !.comp = "dead"])
  BY <1>1, <1>3, TaskFields, DumpConstants DEF CompressorDies, IsTask, Sound, Attempted, Streaming, Ended, Earned, Entire
<1> QED
  BY <1>3, <1>4 DEF CompressorDies, SoundStep, IsTask, Sound, Streaming

LEMMA RetrySound ==
  ASSUME task \in [Tasks -> TaskRecords], NEW i \in Tasks, Sound(task[i]), Retry(i)
  PROVE  SoundStep(i)
<1>1. task[i] \in TaskRecords
  OBVIOUS
<1>2. "open" \in Stages /\ task[i].attempt + 1 \in 0..Attempts
  BY <1>1, TaskFields, DumpConstants DEF Retry, Stages, Processes, Sound, Attempted
<1>3. IsTask([task[i] EXCEPT !.stage = "open", !.attempt = task[i].attempt + 1],
         task[i].scope, "open", task[i].attempt + 1, task[i].status,
         task[i].dump, task[i].comp, task[i].sent, task[i].pipe, task[i].file)
  BY <1>1, <1>2, PutTry, Zenon
<1>4. Sound([task[i] EXCEPT !.stage = "open", !.attempt = task[i].attempt + 1])
  BY <1>1, <1>3, TaskFields, DumpConstants DEF Retry, IsTask, Sound, Attempted, Streaming, Ended, Earned, Entire
<1> QED
  BY <1>3, <1>4 DEF Retry, SoundStep, IsTask, Sound, Streaming

LEMMA SetAsideSound ==
  ASSUME task \in [Tasks -> TaskRecords], NEW i \in Tasks, Sound(task[i]),
         task[i].stage \in {"open", "stream", "hash"}, NEW file \in Files, SetAside(i, file)
  PROVE  SoundStep(i)
<1>1. PICK kept \in {NoFile, file}, retry \in BOOLEAN :
        Set(i, Failed(task[i], kept, retry))
  BY DEF SetAside
<1>2. kept \in Files
  BY DumpConstants
<1> QED
  BY <1>1, <1>2, FailedSound, Zenon

LEMMA OpenPipelineSound ==
  ASSUME task \in [Tasks -> TaskRecords], NEW i \in Tasks, Sound(task[i]), OpenPipeline(i)
  PROVE  SoundStep(i)
<1>1. task[i] \in TaskRecords /\ task[i].stage = "open" /\ task[i].file \in Files
  BY TaskFields DEF OpenPipeline
<1>2. Truncated(i) \in Files
  BY <1>1, TaskFields, DumpConstants DEF Truncated, Sound, Attempted
<1>3. CASE \E retry \in BOOLEAN : Set(i, Failed(task[i], task[i].file, retry))
  BY <1>1, <1>3, FailedSound
<1>4. CASE SetAside(i, Truncated(i))
  BY <1>1, <1>2, <1>4, SetAsideSound
<1> DEFINE r == [task[i] EXCEPT !.stage = "stream", !.dump = "running",
                                !.comp = "running", !.file = Truncated(i)]
<1>5. CASE Set(i, r)
  <2>1. "stream" \in Stages /\ "running" \in Processes
    BY DEF Stages, Processes
  <2>2. IsTask(r, task[i].scope, "stream", task[i].attempt, task[i].status,
           "running", "running", task[i].sent, task[i].pipe, Truncated(i))
    BY <1>1, <1>2, <2>1, PutRunning, Zenon
  <2> HIDE DEF r
  <2>3. task[i].sent = 0 /\ task[i].pipe = 0
    BY <1>1 DEF Sound, Streaming
  <2>4. Sound(r)
    BY <1>1, <2>2, <2>3 DEF IsTask, Sound, Attempted, Streaming, Ended, Earned, Entire, Truncated
  <2> QED
    BY <1>1, <1>5, <2>2, <2>4 DEF SoundStep, IsTask
<1> QED
  BY <1>3, <1>4, <1>5 DEF OpenPipeline

LEMMA CompressorWritesSound ==
  ASSUME task \in [Tasks -> TaskRecords], NEW i \in Tasks, Sound(task[i]), CompressorWrites(i)
  PROVE  SoundStep(i)
<1>1. /\ task[i] \in TaskRecords /\ task[i].stage = "stream" /\ task[i].pipe = 1
      /\ task[i].attempt \in 1..Attempts /\ task[i].sent \in 1..Chunks
      /\ task[i].file = [chunks |-> task[i].sent - 1, attempt |-> task[i].attempt]
  <2>1. task[i] \in TaskRecords /\ task[i].stage = "stream" /\ task[i].pipe = 1
    BY DEF CompressorWrites, Sound, Streaming
  <2> QED
    BY <2>1, TaskFields, DumpConstants DEF Sound, Streaming, Attempted
<1> DEFINE file == [chunks |-> task[i].sent, attempt |-> task[i].attempt]
           r == [task[i] EXCEPT !.file = file, !.pipe = 0]
           dead == [task[i] EXCEPT !.comp = "dead"]
<1>2. file \in Files
  BY <1>1, DumpConstants
<1>3. IsTask(r, task[i].scope, task[i].stage, task[i].attempt, task[i].status,
         task[i].dump, task[i].comp, task[i].sent, 0, file)
  <2>1. 0 \in 0..1
    OBVIOUS
  <2> HIDE DEF file
  <2> QED
    BY <1>1, <1>2, <2>1, PutFile, Zenon
<1>4. IsTask(dead, task[i].scope, task[i].stage, task[i].attempt, task[i].status,
         task[i].dump, "dead", task[i].sent, task[i].pipe, task[i].file)
  <2>1. "dead" \in Processes
    BY DEF Processes
  <2> QED
    BY <1>1, <2>1, PutComp, Zenon
<1>5. Set(i, r) \/ Set(i, dead)
  <2>1. [task[i].file EXCEPT !.chunks = @ + 1] = file
    BY <1>1, DumpConstants
  <2> QED
    BY <2>1 DEF CompressorWrites
<1> HIDE DEF r, dead
<1>6. Sound(r)
  BY <1>1, <1>3 DEF IsTask, Sound, Attempted, Streaming, Ended, Earned, Entire
<1>7. Sound(dead)
  BY <1>1, <1>4 DEF IsTask, Sound, Attempted, Streaming, Ended, Earned, Entire
<1> QED
  BY <1>1, <1>3, <1>4, <1>5, <1>6, <1>7 DEF SoundStep, IsTask

LEMMA EndPipelineSound ==
  ASSUME task \in [Tasks -> TaskRecords], NEW i \in Tasks, Sound(task[i]), EndPipeline(i)
  PROVE  SoundStep(i)
<1>1. task[i] \in TaskRecords /\ task[i].stage = "stream" /\ task[i].file \in Files
  BY TaskFields DEF EndPipeline
<1>2. CASE SetAside(i, task[i].file)
  BY <1>1, <1>2, SetAsideSound
<1> DEFINE r == [task[i] EXCEPT !.stage = "hash", !.dump = "none", !.comp = "none",
                                !.sent = 0, !.pipe = 0]
<1>3. CASE Usable(task[i]) /\ Set(i, r)
  <2>1. "hash" \in Stages /\ "none" \in Processes /\ 0 \in 0..Chunks /\ 0 \in 0..1
    BY DumpConstants DEF Stages, Processes
  <2>2. IsTask(r, task[i].scope, "hash", task[i].attempt, task[i].status,
           "none", "none", 0, 0, task[i].file)
    BY <1>1, <2>1, PutIdle, Zenon
  <2>3. Entire(task[i])
    BY <1>1, <1>3, DumpConstants DEF Usable, Entire, Sound, Streaming, Ended
  <2> HIDE DEF r
  <2>4. Sound(r)
    BY <1>1, <2>2, <2>3 DEF IsTask, Sound, Attempted, Streaming, Ended, Earned, Entire
  <2> QED
    BY <1>1, <1>3, <2>2, <2>4 DEF SoundStep, IsTask
<1> QED
  BY <1>2, <1>3 DEF EndPipeline

LEMMA HashArtifactSound ==
  ASSUME task \in [Tasks -> TaskRecords], NEW i \in Tasks, Sound(task[i]), HashArtifact(i)
  PROVE  SoundStep(i)
<1>1. task[i] \in TaskRecords /\ task[i].stage = "hash" /\ task[i].file \in Files
  BY TaskFields DEF HashArtifact
<1>2. CASE Set(i, Failed(task[i], task[i].file, TRUE))
  BY <1>1, <1>2, FailedSound
<1> DEFINE r == [task[i] EXCEPT !.stage = "result", !.status = "success"]
<1>3. CASE Set(i, r)
  <2>1. "result" \in Stages /\ "success" \in {"failed", "success"}
    BY DEF Stages
  <2>2. IsTask(r, task[i].scope, "result", task[i].attempt, "success",
           task[i].dump, task[i].comp, task[i].sent, task[i].pipe, task[i].file)
    BY <1>1, <2>1, PutStatus, Zenon
  <2> HIDE DEF r
  <2>3. Sound(r)
    BY <1>1, <2>2 DEF IsTask, Sound, Attempted, Streaming, Ended, Earned, Entire
  <2> QED
    BY <1>1, <1>3, <2>2, <2>3 DEF SoundStep, IsTask
<1> QED
  BY <1>2, <1>3 DEF HashArtifact

LEMMA TaskStepSound ==
  ASSUME task \in [Tasks -> TaskRecords], NEW i \in Tasks, Sound(task[i]), TaskSteps(i)
  PROVE  SoundStep(i) /\ Others
<1>1. SoundStep(i)
  BY CheckViewsSound, TakeInventorySound, OpenPipelineSound, DumpWritesSound,
     DumpExitsSound, DumpDiesSound, CompressorWritesSound, CompressorEndsSound,
     CompressorDiesSound, AbortDumpSound, EndPipelineSound, HashArtifactSound, RetrySound,
     Zenon
  DEF TaskSteps
<1>2. Others
  BY Zenon
  DEF TaskSteps, CheckViews, TakeInventory, OpenPipeline, DumpWrites, DumpExits, DumpDies,
      CompressorWrites, CompressorEnds, CompressorDies, AbortDump, EndPipeline,
      HashArtifact, Retry
<1> QED
  BY <1>1, <1>2

-----------------------------------------------------------------------------
(* The record of the capture.                                              *)
Captures == [phase : Phases, total : 0..MaxTasks, fed : 0..MaxTasks, saved : BOOLEAN,
             succeeded : 0..MaxTasks, failed : 0..MaxTasks]
Cap(g, ph, to, fe, sa, su, fa) ==
  /\ g \in Captures /\ g.phase = ph /\ g.total = to /\ g.fed = fe
  /\ g.saved = sa /\ g.succeeded = su /\ g.failed = fa

LEMMA CapFields ==
  ASSUME NEW g \in Captures
  PROVE  /\ g.phase \in Phases /\ g.total \in 0..MaxTasks /\ g.fed \in 0..MaxTasks
         /\ g.saved \in BOOLEAN /\ g.succeeded \in 0..MaxTasks /\ g.failed \in 0..MaxTasks
  BY DEF Captures

LEMMA CapPhase ==
  ASSUME NEW g \in Captures, NEW ph \in Phases
  PROVE  Cap([g EXCEPT !.phase = ph],
             ph, g.total, g.fed, g.saved, g.succeeded, g.failed)
  BY DEF Cap, Captures

LEMMA CapFed ==
  ASSUME NEW g \in Captures, NEW fe \in 0..MaxTasks
  PROVE  Cap([g EXCEPT !.fed = fe],
             g.phase, g.total, fe, g.saved, g.succeeded, g.failed)
  BY DEF Cap, Captures

LEMMA CapSaved ==
  ASSUME NEW g \in Captures, NEW ph \in Phases,
         NEW sa \in BOOLEAN
  PROVE  Cap([g EXCEPT !.phase = ph, !.saved = sa],
             ph, g.total, g.fed, sa, g.succeeded, g.failed)
<1> DEFINE h1 == [g EXCEPT !.phase = ph]
<1>1. Cap(h1, ph, g.total, g.fed, g.saved, g.succeeded, g.failed)
  BY DEF Cap, Captures
<1> HIDE DEF h1
<1>2. Cap([h1 EXCEPT !.saved = sa], ph, g.total, g.fed, sa, g.succeeded, g.failed)
  BY <1>1 DEF Cap, Captures
<1>3. [g EXCEPT !.phase = ph, !.saved = sa] = [h1 EXCEPT !.saved = sa]
  BY DEF h1
<1> QED
  BY <1>2, <1>3

LEMMA CapTotal ==
  ASSUME NEW g \in Captures, NEW ph \in Phases,
         NEW to \in 0..MaxTasks
  PROVE  Cap([g EXCEPT !.phase = ph, !.total = to],
             ph, to, g.fed, g.saved, g.succeeded, g.failed)
<1> DEFINE h1 == [g EXCEPT !.phase = ph]
<1>1. Cap(h1, ph, g.total, g.fed, g.saved, g.succeeded, g.failed)
  BY DEF Cap, Captures
<1> HIDE DEF h1
<1>2. Cap([h1 EXCEPT !.total = to], ph, to, g.fed, g.saved, g.succeeded, g.failed)
  BY <1>1 DEF Cap, Captures
<1>3. [g EXCEPT !.phase = ph, !.total = to] = [h1 EXCEPT !.total = to]
  BY DEF h1
<1> QED
  BY <1>2, <1>3

LEMMA CapTally ==
  ASSUME NEW g \in Captures, NEW ph \in Phases,
         NEW su \in 0..MaxTasks, NEW fa \in 0..MaxTasks, NEW sa \in BOOLEAN
  PROVE  Cap([g EXCEPT !.phase = ph, !.succeeded = su, !.failed = fa, !.saved = sa],
             ph, g.total, g.fed, sa, su, fa)
<1> DEFINE h1 == [g EXCEPT !.phase = ph]
<1>1. Cap(h1, ph, g.total, g.fed, g.saved, g.succeeded, g.failed)
  BY DEF Cap, Captures
<1> HIDE DEF h1
<1> DEFINE h2 == [h1 EXCEPT !.succeeded = su]
<1>2. Cap(h2, ph, g.total, g.fed, g.saved, su, g.failed)
  BY <1>1 DEF Cap, Captures
<1> HIDE DEF h2
<1> DEFINE h3 == [h2 EXCEPT !.failed = fa]
<1>3. Cap(h3, ph, g.total, g.fed, g.saved, su, fa)
  BY <1>2 DEF Cap, Captures
<1> HIDE DEF h3
<1>4. Cap([h3 EXCEPT !.saved = sa], ph, g.total, g.fed, sa, su, fa)
  BY <1>3 DEF Cap, Captures
<1>5. [g EXCEPT !.phase = ph, !.succeeded = su, !.failed = fa, !.saved = sa] = [h3 EXCEPT !.saved = sa]
  BY DEF h1, h2, h3
<1> QED
  BY <1>4, <1>5

LEMMA CapturePhase ==
  ASSUME capture \in Captures, NEW p \in Phases, capture' = [capture EXCEPT !.phase = p]
  PROVE  Cap(capture', p, capture.total, capture.fed, capture.saved, capture.succeeded, capture.failed)
<1>1. Cap([capture EXCEPT !.phase = p], p, capture.total, capture.fed, capture.saved, capture.succeeded, capture.failed)
  BY CapPhase, Zenon
<1> QED
  BY <1>1

LEMMA DiscoverStep ==
  ASSUME capture \in Captures, Discover
  PROVE  \/ Cap(capture', "ended", capture.total, capture.fed, capture.saved, capture.succeeded, capture.failed)
         \/ Cap(capture', "ended", capture.total, capture.fed, TRUE, capture.succeeded, capture.failed)
         \/ \E n \in Tasks :
              Cap(capture', "prepare", n, capture.fed, capture.saved, capture.succeeded, capture.failed)
<1>1. "ended" \in Phases /\ "prepare" \in Phases /\ TRUE \in BOOLEAN
  BY DEF Phases
<1>2. CASE EndCapture
  BY <1>1, <1>2, CapturePhase DEF EndCapture
<1>3. CASE capture' = [capture EXCEPT !.phase = "ended", !.saved = TRUE]
  <2>1. Cap([capture EXCEPT !.phase = "ended", !.saved = TRUE],
            "ended", capture.total, capture.fed, TRUE, capture.succeeded, capture.failed)
    BY <1>1, CapSaved, Zenon
  <2> QED
    BY <1>3, <2>1
<1>4. ASSUME NEW n \in Tasks, capture' = [capture EXCEPT !.phase = "prepare", !.total = n]
      PROVE  Cap(capture', "prepare", n, capture.fed, capture.saved, capture.succeeded, capture.failed)
  <2>1. n \in 0..MaxTasks
    BY DumpConstants DEF Tasks
  <2>2. Cap([capture EXCEPT !.phase = "prepare", !.total = n],
            "prepare", n, capture.fed, capture.saved, capture.succeeded, capture.failed)
    BY <1>1, <2>1, CapTotal, Zenon
  <2> QED
    BY <1>4, <2>2
<1> QED
  BY <1>2, <1>3, <1>4 DEF Discover

LEMMA FedStep ==
  ASSUME capture \in Captures, capture.fed < capture.total,
         capture' = [capture EXCEPT !.fed = @ + 1]
  PROVE  Cap(capture', capture.phase, capture.total, capture.fed + 1, capture.saved, capture.succeeded, capture.failed)
<1>1. capture.fed + 1 \in 0..MaxTasks
  BY CapFields, DumpConstants
<1>2. Cap([capture EXCEPT !.fed = capture.fed + 1],
          capture.phase, capture.total, capture.fed + 1, capture.saved, capture.succeeded, capture.failed)
  BY <1>1, CapFed, Zenon
<1> QED
  BY <1>2

(* The tally of results that belong to databases of this capture.          *)
LEMMA TallyStep ==
  ASSUME capture \in Captures, outcomes \subseteq 1..capture.total, Tally
  PROVE  LET won == Cardinality(Succeeded) IN
         /\ Cap(capture', "ended", capture.total, capture.fed, won = capture.total,
                won, capture.total - won)
         /\ won = capture.total => Succeeded = 1..capture.total
<1> DEFINE won == Cardinality(Succeeded)
<1>1. /\ IsFiniteSet(1..capture.total) /\ Cardinality(1..capture.total) = capture.total
      /\ Succeeded \in SUBSET (1..capture.total)
  <2>1. capture.total \in Nat
    BY CapFields, DumpConstants
  <2>2. Succeeded \in SUBSET (1..capture.total)
    BY DEF Succeeded
  <2>3. /\ IsFiniteSet(1..capture.total)
        /\ Cardinality(1..capture.total) =
             IF 1 > capture.total THEN 0 ELSE capture.total - 1 + 1
    <3>1. 1 \in Int /\ capture.total \in Int
      BY <2>1
    <3> QED
      BY <3>1, FS_Interval, Zenon
  <2> QED
    BY <2>1, <2>2, <2>3
<1>2. /\ IsFiniteSet(Succeeded) /\ won <= capture.total
      /\ won = capture.total => Succeeded = 1..capture.total
  BY <1>1, FS_Subset
<1>3. won \in Nat
  BY <1>2, FS_CardinalityType
<1> HIDE DEF won
<1>4. /\ won \in 0..MaxTasks /\ capture.total - won \in 0..MaxTasks
      /\ "ended" \in Phases /\ (won = capture.total) \in BOOLEAN
  BY <1>2, <1>3, CapFields, DumpConstants DEF Phases
<1>5. Cap([capture EXCEPT !.phase = "ended", !.succeeded = won,
             !.failed = capture.total - won, !.saved = (won = capture.total)],
          "ended", capture.total, capture.fed, won = capture.total,
          won, capture.total - won)
  BY <1>4, CapTally, Zenon
<1>6. capture' = [capture EXCEPT !.phase = "ended", !.succeeded = won,
                    !.failed = capture.total - won, !.saved = (won = capture.total)]
  BY DEF Tally, won
<1> QED
  BY <1>2, <1>5, <1>6 DEF won

-----------------------------------------------------------------------------
(* What the other steps make of the databases.                             *)
LEMMA SetStep ==
  ASSUME task \in [Tasks -> TaskRecords], NEW i \in Tasks, NEW r \in TaskRecords, Set(i, r)
  PROVE  /\ task' \in [Tasks -> TaskRecords] /\ task'[i] = r
         /\ \A j \in Tasks : j # i => task'[j] = task[j]
  BY DEF Set

LEMMA PrepareStep ==
  ASSUME task \in [Tasks -> TaskRecords], AllSound, PrepareTasks
  PROVE  /\ task' \in [Tasks -> TaskRecords] /\ AllSound'
         /\ \A i \in Tasks : task'[i].stage = task[i].stage
<1>1. PICK scope \in [Tasks -> Scopes] :
        task' = [i \in Tasks |-> [task[i] EXCEPT
                   !.scope = scope[i],
                   !.status = IF scope[i] = "nothing" THEN "success" ELSE "failed"]]
  BY DEF PrepareTasks
<1>2. ASSUME NEW i \in Tasks
      PROVE  task'[i] \in TaskRecords /\ Sound(task'[i]) /\ task'[i].stage = task[i].stage
  <2> DEFINE status == IF scope[i] = "nothing" THEN "success" ELSE "failed"
  <2>1. scope[i] \in Scopes /\ status \in {"failed", "success"} /\ task[i] \in TaskRecords
    OBVIOUS
  <2>2. status = "success" => scope[i] = "nothing"
    OBVIOUS
  <2>3. task'[i] = [task[i] EXCEPT !.scope = scope[i], !.status = status]
    BY <1>1
  <2> HIDE DEF status
  <2>4. IsTask([task[i] EXCEPT !.scope = scope[i], !.status = status],
           scope[i], task[i].stage, task[i].attempt, status, task[i].dump,
           task[i].comp, task[i].sent, task[i].pipe, task[i].file)
    BY <2>1, PutScope, Zenon
  <2>5. IsTask(task'[i],
           scope[i], task[i].stage, task[i].attempt, status, task[i].dump,
           task[i].comp, task[i].sent, task[i].pipe, task[i].file)
    BY <2>3, <2>4
  <2>6. Sound(task[i])
    BY DEF AllSound
  <2>7. Sound(task'[i])
    BY <2>2, <2>5, <2>6 DEF IsTask, Sound, Attempted, Streaming, Ended, Earned, Entire
  <2> QED
    BY <2>5, <2>7 DEF IsTask
<1>3. task' \in [Tasks -> TaskRecords]
  BY <1>1, <1>2
<1> QED
  BY <1>2, <1>3 DEF AllSound

(* A database moves to another stage outside its pipeline.                 *)
LEMMA StageStep ==
  ASSUME task \in [Tasks -> TaskRecords], AllSound, NEW i \in Tasks, NEW s \in Stages,
         task' = [task EXCEPT ![i].stage = s],
         \/ task[i].stage = "ready" /\ s \in {"views", "result"}
         \/ task[i].stage = "result" /\ s = "sent"
  PROVE  /\ task' \in [Tasks -> TaskRecords] /\ AllSound'
         /\ task'[i].stage = s /\ task'[i].status = task[i].status
         /\ \A j \in Tasks : j # i => task'[j] = task[j]
<1> DEFINE r == [task[i] EXCEPT !.stage = s]
<1>1. IsTask(r, task[i].scope, s, task[i].attempt, task[i].status, task[i].dump,
         task[i].comp, task[i].sent, task[i].pipe, task[i].file)
  <2>1. task[i] \in TaskRecords
    OBVIOUS
  <2> QED
    BY <2>1, PutStage, Zenon
<1>2. Set(i, r)
  BY DEF Set
<1> HIDE DEF r
<1>3. Sound(task[i])
  BY DEF AllSound
<1>4. Sound(r)
  BY <1>1, <1>3 DEF IsTask, Sound, Attempted, Streaming, Ended, Earned, Entire
<1>5. r \in TaskRecords
  BY <1>1 DEF IsTask
<1>6. /\ task' \in [Tasks -> TaskRecords] /\ task'[i] = r
      /\ \A j \in Tasks : j # i => task'[j] = task[j]
  BY <1>2, <1>5, SetStep
<1> QED
  BY <1>1, <1>4, <1>6 DEF AllSound, IsTask

LEMMA FeedStep ==
  ASSUME task \in [Tasks -> TaskRecords], capture \in Captures, AllSound, HandedOver, Feed
  PROVE  LET n == capture.fed + 1 IN
         /\ n \in Tasks /\ task' \in [Tasks -> TaskRecords] /\ AllSound'
         /\ \A j \in Tasks : j # n => task'[j] = task[j]
         /\ Cap(capture', capture.phase, capture.total, n, capture.saved, capture.succeeded, capture.failed)
<1> DEFINE n == capture.fed + 1
<1>1. n \in Tasks /\ capture.fed < capture.total
  BY CapFields, DumpConstants DEF Feed, HandedOver, Tasks
<1>2. task[n].stage = "ready"
  BY <1>1, CapFields, DumpConstants DEF HandedOver, Tasks
<1>3. Cap(capture', capture.phase, capture.total, n, capture.saved, capture.succeeded, capture.failed)
  BY <1>1, FedStep DEF Feed
<1> HIDE DEF n
<1> DEFINE s == IF task[n].scope = "nothing" THEN "result" ELSE "views"
<1>4. s \in Stages /\ s \in {"views", "result"}
  BY DEF Stages
<1>5. task' = [task EXCEPT ![n].stage = s]
  BY DEF Feed, n
<1> HIDE DEF s
<1>6. /\ task' \in [Tasks -> TaskRecords] /\ AllSound'
      /\ \A j \in Tasks : j # n => task'[j] = task[j]
  BY <1>1, <1>2, <1>4, <1>5, StageStep
<1> QED
  BY <1>1, <1>3, <1>6 DEF n

LEMMA ReportStep ==
  ASSUME task \in [Tasks -> TaskRecords], AllSound, NEW w \in Workers, Report(w)
  PROVE  LET i == worker[w] IN
         /\ i \in Tasks /\ task[i].stage = "result"
         /\ task' \in [Tasks -> TaskRecords] /\ AllSound'
         /\ task'[i].stage = "sent" /\ outcomes' = outcomes \cup {i}
         /\ \A j \in Tasks : j # i => task'[j] = task[j]
         /\ capture' = capture
<1>1. "sent" \in Stages
  BY DEF Stages
<1> QED
  BY <1>1, StageStep DEF Report

LEMMA DumpTypeStep == DumpInv /\ [DumpNext]_dumpVars => DumpTypeOK' /\ AllSound'
<1> SUFFICES ASSUME DumpInv, [DumpNext]_dumpVars
             PROVE  DumpTypeOK' /\ AllSound'
  OBVIOUS
<1>0. /\ task \in [Tasks -> TaskRecords] /\ capture \in Captures /\ AllSound /\ HandedOver /\ Saved
      /\ worker \in [Workers -> Tasks \cup {NoTask, Gone}] /\ outcomes \subseteq Tasks
  BY DEF DumpInv, DumpTypeOK, TaskRecords, Captures
<1>t. capture.fed \in 0..MaxTasks /\ capture.total \in 0..MaxTasks /\ capture.phase \in Phases
  BY <1>0, CapFields
<1>o. outcomes \subseteq 1..capture.total
  BY <1>0, <1>t, DumpConstants DEF HandedOver, Tasks
<1>p. {"discover", "prepare", "coordinates", "execute", "tally", "ended"} = Phases
  BY DEF Phases
<1> SUFFICES /\ task' \in [Tasks -> TaskRecords] /\ AllSound' /\ capture' \in Captures
             /\ worker' \in [Workers -> Tasks \cup {NoTask, Gone}] /\ outcomes' \subseteq Tasks
  BY DEF DumpTypeOK, TaskRecords, Captures
<1>1. CASE Discover
  BY <1>0, <1>1, DiscoverStep DEF Discover, Cap, AllSound
<1>2. CASE PrepareTasks
  BY <1>0, <1>p, <1>2, PrepareStep, CapturePhase DEF PrepareTasks, Cap
<1>3. CASE ObserveCoordinates
  BY <1>0, <1>p, <1>3, CapturePhase DEF ObserveCoordinates, EndCapture, Cap, AllSound
<1>4. CASE Feed
  BY <1>0, <1>4, FeedStep DEF Feed, Cap
<1>5. CASE Collect
  BY <1>0, <1>p, <1>5, CapturePhase DEF Collect, Cap, AllSound
<1>6. CASE Tally
  <2>1. capture' \in Captures
    BY <1>0, <1>o, <1>6, TallyStep DEF Cap
  <2> QED
    BY <1>0, <1>6, <2>1 DEF Tally, AllSound
<1>7. ASSUME NEW w \in Workers, Report(w)
      PROVE  /\ task' \in [Tasks -> TaskRecords] /\ AllSound' /\ capture' \in Captures
             /\ worker' \in [Workers -> Tasks \cup {NoTask, Gone}] /\ outcomes' \subseteq Tasks
  BY <1>0, <1>7, ReportStep DEF Report
<1>8. ASSUME NEW w \in Workers, WorkerLeaves(w)
      PROVE  /\ task' \in [Tasks -> TaskRecords] /\ AllSound' /\ capture' \in Captures
             /\ worker' \in [Workers -> Tasks \cup {NoTask, Gone}] /\ outcomes' \subseteq Tasks
  BY <1>0, <1>8 DEF WorkerLeaves, AllSound
<1>9. ASSUME NEW i \in Tasks, TaskSteps(i)
      PROVE  /\ task' \in [Tasks -> TaskRecords] /\ AllSound' /\ capture' \in Captures
             /\ worker' \in [Workers -> Tasks \cup {NoTask, Gone}] /\ outcomes' \subseteq Tasks
  <2>1. Sound(task[i])
    BY <1>0 DEF AllSound
  <2>2. SoundStep(i) /\ Others
    BY <1>0, <1>9, <2>1, TaskStepSound
  <2>3. task' \in [Tasks -> TaskRecords] /\ AllSound'
    BY <1>0, <2>2, SetStep DEF SoundStep, AllSound
  <2> QED
    BY <1>0, <2>2, <2>3 DEF Others
<1>10. CASE UNCHANGED dumpVars
  BY <1>0, <1>10 DEF dumpVars, AllSound
<1> QED
  BY <1>1, <1>2, <1>3, <1>4, <1>5, <1>6, <1>7, <1>8, <1>9, <1>10
  DEF DumpNext, CaptureSteps

LEMMA ControlStep == DumpInv /\ [DumpNext]_dumpVars => HandedOver' /\ Saved'
<1> SUFFICES ASSUME DumpInv, [DumpNext]_dumpVars
             PROVE  HandedOver' /\ Saved'
  OBVIOUS
<1>0. /\ task \in [Tasks -> TaskRecords] /\ capture \in Captures /\ AllSound /\ HandedOver /\ Saved
      /\ worker \in [Workers -> Tasks \cup {NoTask, Gone}] /\ outcomes \subseteq Tasks
  BY DEF DumpInv, DumpTypeOK, TaskRecords, Captures
<1>t. capture.fed \in 0..MaxTasks /\ capture.total \in 0..MaxTasks /\ capture.phase \in Phases
  BY <1>0, CapFields
<1>o. outcomes \subseteq 1..capture.total
  BY <1>0, <1>t, DumpConstants DEF HandedOver, Tasks
<1>p. {"discover", "prepare", "coordinates", "execute", "tally", "ended"} = Phases
  BY DEF Phases
<1> USE DumpConstants DEF Tasks
<1>1. CASE Discover
  <2>1. /\ task' = task /\ outcomes' = outcomes /\ capture.phase = "discover"
        /\ ~capture.saved /\ capture.total = 0 /\ capture.fed = 0
    BY <1>0, <1>t, <1>1 DEF Discover, HandedOver, Saved
  <2>2. /\ capture'.fed = 0 /\ capture'.total \in Nat /\ capture'.phase \in {"ended", "prepare"}
        /\ capture'.saved => capture'.phase = "ended" /\ capture'.total = 0
    <3>1. CASE Cap(capture', "ended", capture.total, capture.fed, capture.saved,
                   capture.succeeded, capture.failed)
      BY <1>t, <2>1, <3>1 DEF Cap
    <3>2. CASE Cap(capture', "ended", capture.total, capture.fed, TRUE,
                   capture.succeeded, capture.failed)
      BY <1>t, <2>1, <3>2 DEF Cap
    <3>3. ASSUME NEW n \in Tasks,
                 Cap(capture', "prepare", n, capture.fed, capture.saved,
                     capture.succeeded, capture.failed)
          PROVE  /\ capture'.fed = 0 /\ capture'.total \in Nat
                 /\ capture'.phase \in {"ended", "prepare"} /\ ~capture'.saved
      BY <2>1, <3>3 DEF Cap
    <3> QED
      BY <1>0, <1>1, <3>1, <3>2, <3>3, DiscoverStep
  <2>3. HandedOver'
    BY <1>0, <2>1, <2>2 DEF HandedOver
  <2>4. Saved'
    BY <2>2 DEF Saved
  <2> QED
    BY <2>3, <2>4
<1>2. CASE PrepareTasks
  BY <1>0, <1>t, <1>p, <1>2, PrepareStep, CapturePhase DEF PrepareTasks, Cap, HandedOver, Saved
<1>3. CASE ObserveCoordinates
  BY <1>0, <1>t, <1>p, <1>3, CapturePhase DEF ObserveCoordinates, EndCapture, Cap, HandedOver, Saved
<1>4. CASE Feed
  <2> DEFINE n == capture.fed + 1
  <2>1. /\ n \in Tasks /\ \A j \in Tasks : j # n => task'[j] = task[j]
        /\ Cap(capture', capture.phase, capture.total, n, capture.saved,
               capture.succeeded, capture.failed)
    BY <1>0, <1>4, FeedStep
  <2>2. /\ outcomes' = outcomes /\ capture.fed < capture.total
        /\ capture.phase = "execute"
    BY <1>4 DEF Feed
  <2> QED
    BY <1>0, <1>t, <2>1, <2>2 DEF Cap, HandedOver, Saved
<1>5. CASE Collect
  BY <1>0, <1>t, <1>p, <1>5, CapturePhase DEF Collect, Cap, HandedOver, Saved
<1>6. CASE Tally
  <2> DEFINE won == Cardinality(Succeeded)
  <2>1. /\ Cap(capture', "ended", capture.total, capture.fed, won = capture.total,
               won, capture.total - won)
        /\ won = capture.total => Succeeded = 1..capture.total
    BY <1>0, <1>o, <1>6, TallyStep
  <2>2. task' = task /\ outcomes' = outcomes
    BY <1>6 DEF Tally
  <2>3. HandedOver'
    BY <1>0, <1>t, <2>1, <2>2 DEF Cap, HandedOver
  <2>4. capture'.saved => Succeeded = 1..capture.total
    BY <2>1 DEF Cap
  <2>5. Saved'
    BY <1>o, <2>1, <2>2, <2>4 DEF Cap, Saved, Succeeded
  <2> QED
    BY <2>3, <2>5
<1>7. ASSUME NEW w \in Workers, Report(w)
      PROVE  HandedOver' /\ Saved'
  <2>1. /\ worker[w] \in Tasks /\ task[worker[w]].stage = "result"
        /\ task'[worker[w]].stage = "sent" /\ outcomes' = outcomes \cup {worker[w]}
        /\ \A j \in Tasks : j # worker[w] => task'[j] = task[j]
        /\ capture' = capture
    BY <1>0, <1>7, ReportStep
  <2>2. worker[w] <= capture.fed /\ worker[w] \notin outcomes
    BY <1>0, <1>t, <2>1 DEF HandedOver
  <2>3. HandedOver'
    BY <1>0, <1>t, <2>1, <2>2 DEF HandedOver
  <2>4. Saved'
    BY <1>0, <1>t, <2>1, <2>2 DEF HandedOver, Saved
  <2> QED
    BY <2>3, <2>4
<1>8. ASSUME NEW w \in Workers, WorkerLeaves(w)
      PROVE  HandedOver' /\ Saved'
  BY <1>0, <1>8 DEF WorkerLeaves, HandedOver, Saved
<1>9. ASSUME NEW i \in Tasks, TaskSteps(i)
      PROVE  HandedOver' /\ Saved'
  <2>1. Sound(task[i])
    BY <1>0 DEF AllSound
  <2>2. SoundStep(i) /\ Others
    BY <1>0, <1>9, <2>1, TaskStepSound
  <2>3. /\ task[i].stage \notin {"ready", "sent"}
        /\ \A j \in Tasks : j # i => task'[j] = task[j]
    BY <1>0, <2>2, SetStep DEF SoundStep
  <2>4. i \notin outcomes /\ i <= capture.fed
    BY <1>0, <1>t, <2>3 DEF HandedOver
  <2> QED
    BY <1>0, <1>t, <2>2, <2>3, <2>4 DEF Others, HandedOver, Saved
<1>10. CASE UNCHANGED dumpVars
  BY <1>0, <1>10 DEF dumpVars, HandedOver, Saved
<1> QED
  BY <1>1, <1>2, <1>3, <1>4, <1>5, <1>6, <1>7, <1>8, <1>9, <1>10
  DEF DumpNext, CaptureSteps

LEMMA DumpStart == DumpInit => DumpInv
<1> SUFFICES ASSUME DumpInit PROVE DumpInv
  OBVIOUS
<1>1. /\ "discover" \in Phases /\ 0 \in 0..MaxTasks /\ "some" \in Scopes /\ "ready" \in Stages
      /\ 0 \in 0..Attempts /\ "none" \in Processes /\ 0 \in 0..Chunks /\ NoFile \in Files
  BY DumpConstants DEF Phases, Scopes, Stages, Processes
<1>2. Fresh \in TaskRecords
  BY <1>1 DEF Fresh, TaskRecords
<1>3. capture \in Captures
  BY <1>1 DEF DumpInit, Captures
<1>4. DumpTypeOK
  BY <1>2, <1>3 DEF DumpInit, DumpTypeOK, TaskRecords, Captures
<1>5. Sound(Fresh)
  BY DEF Fresh, Sound, Attempted, Streaming, Ended, Earned
<1>6. AllSound
  BY <1>5 DEF DumpInit, AllSound
<1>7. HandedOver /\ Saved
  BY DEF DumpInit, HandedOver, Saved, Fresh
<1> QED
  BY <1>4, <1>6, <1>7 DEF DumpInv

LEMMA DumpStep == DumpInv /\ [DumpNext]_dumpVars => DumpInv'
BY DumpTypeStep, ControlStep DEF DumpInv

LEMMA DumpAlways == DumpSpec => []DumpInv
BY DumpStart, DumpStep, PTL DEF DumpSpec

(* The variables of a logical capture keep their types.                    *)
THEOREM DumpTypeCorrect == DumpSpec => []DumpTypeOK
  BY DumpAlways, PTL DEF DumpInv

(* A database that counts as captured always has the whole output of one   *)
(* dump process, for any number of databases, workers and attempts and any *)
(* failure of the dump, the compressor, the disk or the hash.              *)
THEOREM DumpedAlwaysWhole == DumpSpec => []DumpedIsWhole
<1>1. DumpInv => DumpedIsWhole
  BY DEF DumpInv, AllSound, Sound, Earned, Entire, DumpedIsWhole, Whole
<1> QED
  BY <1>1, DumpAlways, PTL

(* The success that the schedule state remembers always stands for every   *)
(* database that was discovered.                                           *)
THEOREM SavedAlwaysMeansAll == DumpSpec => []SavedMeansAll
<1>1. DumpInv => SavedMeansAll
  <2> SUFFICES ASSUME DumpInv, capture.saved, capture.total > 0
               PROVE  /\ outcomes = 1..capture.total
                      /\ \A i \in outcomes : Whole(i) \/ task[i].scope = "nothing"
    BY DEF SavedMeansAll
  <2>1. outcomes = 1..capture.total /\ \A i \in outcomes : task[i].status = "success"
    BY DEF DumpInv, Saved
  <2>2. outcomes \subseteq Tasks
    BY DEF DumpInv, DumpTypeOK
  <2> QED
    BY <2>1, <2>2 DEF DumpInv, AllSound, Sound, Earned, Entire, Whole
<1> QED
  BY <1>1, DumpAlways, PTL
=============================================================================
