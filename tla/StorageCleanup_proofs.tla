------------------------- MODULE StorageCleanup_proofs -------------------------
(***************************************************************************)
(* What StorageCleanup.tla keeps for every number of runs, every history,  *)
(* every setting and any number of passes, crashes and accidents.          *)
(***************************************************************************)
EXTENDS StorageCleanup, FiniteSetTheorems, WellFoundedInduction, TLAPS

LEMMA BlockedReturns == ASSUME blocked PROVE \E a \in Outcomes : Return(a)
BY DEF blocked, SecondaryOrRefuse, Outcomes

\* Returning, wherever from, keeps the memory and the control state typed.
LEMMA ReturnTyped ==
  ASSUME TypeOK, NEW a \in Outcomes, Return(a)
  PROVE  /\ pc' = "idle" /\ outcome' \in Outcomes /\ late' \subseteq {"local", "remote"}
         /\ pass' \in Passes /\ todo' \subseteq Runs /\ job' \in Jobs
BY DEF TypeOK, Return, Goto, memory, Steps

LEMMA NewPassTyped ==
  ASSUME NEW m \in {"capture", "apply", "plan"}, NEW room \in BOOLEAN, NEW over \in BOOLEAN
  PROVE  NewPass(m, room, over) \in Passes
BY DEF NewPass, Passes, Types

LEMMA CandidateTyped ==
  ASSUME NEW r, NEW young, NEW kept PROVE CandidateType(r, young, kept) \in Types
BY DEF CandidateType, Types

LEMMA TypeInit == Init => TypeOK
<1>1. SUFFICES ASSUME Init PROVE TypeOK
  OBVIOUS
<1>2. pass \in Passes
  BY <1>1, NewPassTyped DEF Init
<1>3. PICK h \in Histories :
        /\ kind = [r \in Runs |-> h[r].kind] /\ local = [r \in Runs |-> h[r].local]
        /\ remote = [r \in Runs |-> h[r].remote] /\ guard = [r \in Runs |-> h[r].guard]
        /\ folders = {r \in Runs : h[r].kind # "none"} /\ proved = {r \in Runs : h[r].guard = "tested"}
  BY <1>1 DEF Init
<1>4. h \in [Runs -> Profiles]
  BY <1>3, StorageAssumption DEF StorageAssumption
<1>5. /\ kind \in [Runs -> Kinds] /\ local \in [Runs -> Locals]
      /\ remote \in [Runs -> Remotes] /\ guard \in [Runs -> Guards] /\ folders \subseteq Runs
      /\ proved \subseteq Runs
  BY <1>3, <1>4 DEF Profiles
<1>6. /\ ident \in [Runs -> Nat] /\ jident \in [Runs -> Nat]
      /\ journal \in [Runs -> {"none", "INTENT", "DELETED", "FAILED", "REMOVED", "HELD", "CANCELLED"}]
      /\ pc = "idle" /\ todo \subseteq Runs /\ late = {} /\ outcome = "none"
      /\ accidents \in Nat /\ crashes \in Nat /\ passes \in Nat
      /\ maxLocal \in MaxLocals /\ disk \in Disks
  BY <1>1 DEF Init
<1>7. job \in Jobs
  BY <1>1 DEF Init, NoJob, Jobs
<1>8. QED BY <1>2, <1>5, <1>6, <1>7 DEF TypeOK, Steps, Outcomes

Frame == UNCHANGED <<files, journals, crashes, passes, settings>>

LEMMA AccidentTyped ==
  ASSUME TypeOK, UNCHANGED accidents \/ \E c \in {"io", "s3", "world"} : Accident(c)
  PROVE  accidents' \in Nat
BY DEF TypeOK, Accident

\* A step that returns and touches no file keeps the types.
LEMMA ReturnStep ==
  ASSUME TypeOK, NEW a \in Outcomes, Return(a), UNCHANGED <<files, jident, crashes, passes, settings>>,
         accidents' \in Nat,
         journal' \in [Runs -> {"none", "INTENT", "DELETED", "FAILED", "REMOVED", "HELD", "CANCELLED"}]
  PROVE  TypeOK'
<1>1. /\ pc' = "idle" /\ outcome' \in Outcomes /\ late' \subseteq {"local", "remote"}
      /\ pass' \in Passes /\ todo' \subseteq Runs /\ job' \in Jobs
  BY ReturnTyped
<1>2. QED BY <1>1 DEF TypeOK, files, settings, Steps

\* The steps that only move on in the pass.
LEMMA MoveStep ==
  ASSUME TypeOK, UNCHANGED <<files, journals, outcome, crashes, passes, settings>>,
         accidents' \in Nat, late' \subseteq {"local", "remote"},
         pc' \in Steps, pass' \in Passes, todo' \subseteq Runs, job' \in Jobs,
         pc' \in {"check", "intent", "unlink", "record"} => job'.run \in Runs /\ job'.phase # "none",
         pc' = "record" => job'.result # "none"
  PROVE  TypeOK'
BY DEF TypeOK, files, journals, settings

\* Starting a deletion yields a typed job and pass.
LEMMA StartTyped ==
  ASSUME TypeOK, NEW r \in Runs, NEW phase \in {"recover", "loop"}, StartDeletion(r, phase),
         pass.type[r] \in Types, Counterpart(r) \in Runs \/ ~NeedsCounterpart(r)
  PROVE  /\ pc' = "check" /\ job' \in Jobs /\ job'.run \in Runs /\ job'.phase # "none"
         /\ pass' \in Passes /\ todo' \subseteq Runs
<1>1. /\ pc' = "check" /\ todo' \subseteq Runs /\ job' = [run |-> r, phase |-> phase, result |-> "none"]
  BY DEF StartDeletion, Goto, TypeOK
<1>2. job' \in Jobs
  BY <1>1 DEF Jobs
<1>3. pass' = [pass EXCEPT !.proofs = IF NeedsCounterpart(r) THEN @ \cup {Counterpart(r)} ELSE @]
  BY DEF StartDeletion
<1>4. pass \in Passes
  BY DEF TypeOK
<1>5. pass' \in Passes
  BY <1>3, <1>4 DEF Passes
<1>6. QED BY <1>1, <1>2, <1>5

\* A duplicate is known to be one of a run.
TwinKnown == \A r \in Runs : pass.type[r] = "duplicate" => Twin[r] \in Runs
TypeInv == TypeOK /\ TwinKnown

LEMMA CounterpartRun ==
  ASSUME TypeInv, NEW r \in Runs PROVE Counterpart(r) \in Runs /\ pass.type[r] \in Types
BY DEF TypeInv, TypeOK, TwinKnown, Counterpart, Passes

\* The type of a candidate found is one, and its twin a run if it is a duplicate.
LEMMA VerifyTyped ==
  ASSUME TypeOK, VerifyRemote PROVE TypeOK' /\ (TwinKnown => TwinKnown')
<1>1. PICK missed \in {{}} \cup {{r} : r \in Runs}, young \in SUBSET {r \in Runs : local[r] = "temp"} :
        LET verified == {r \in Runs \ missed : remote[r] = "complete"}
            kept == Newest(verified, 2)
            type == [r \in Runs |-> CandidateType(r, young, kept)]
        IN /\ IF missed = {} THEN NoAccident ELSE Accident("s3")
           /\ IF Cardinality(kept) < 2 THEN blocked
              ELSE /\ pass' = [pass EXCEPT !.keptRemote = kept, !.proofs = kept, !.type = type]
                   /\ todo' = {r \in Runs : type[r] # "none"}
                   /\ IF pass.mode = "plan" THEN Goto("idle") /\ outcome' = "none"
                      ELSE Goto("recover") /\ UNCHANGED outcome
                   /\ UNCHANGED <<job, late>>
  BY DEF VerifyRemote
<1> DEFINE kept == Newest({r \in Runs \ missed : remote[r] = "complete"}, 2)
           type == [r \in Runs |-> CandidateType(r, young, kept)]
<1>2. accidents' \in Nat /\ UNCHANGED <<files, journals, crashes, passes, settings>>
  <2>1. UNCHANGED accidents \/ Accident("s3")
    BY <1>1 DEF NoAccident
  <2>2. QED BY <2>1, AccidentTyped DEF VerifyRemote
<1>3. kept \subseteq Runs
  BY DEF Newest
<1>4. type \in [Runs -> Types]
  BY CandidateTyped
<1>5. \A r \in Runs : type[r] = "duplicate" => Twin[r] \in Runs
  <2>1. ASSUME NEW r \in Runs, CandidateType(r, young, kept) = "duplicate" PROVE Twin[r] \in kept
    BY <2>1 DEF CandidateType
  <2>2. QED BY <2>1, <1>3
<1>6. CASE Cardinality(kept) < 2
  <2>1. blocked
    BY <1>1, <1>6
  <2>2. PICK a \in Outcomes : Return(a)
    BY <2>1, BlockedReturns
  <2>3. TypeOK'
    BY <2>2, <1>2, ReturnStep DEF journals, TypeOK
  <2>4. pass' = pass
    BY <2>2 DEF Return, memory
  <2>5. QED BY <2>3, <2>4 DEF TwinKnown
<1>7. CASE ~(Cardinality(kept) < 2)
  <2>1. /\ pass' = [pass EXCEPT !.keptRemote = kept, !.proofs = kept, !.type = type]
        /\ todo' = {r \in Runs : type[r] # "none"} /\ job' = job /\ late' = late
        /\ \/ pc' = "idle" /\ outcome' = "none"
           \/ pc' = "recover" /\ outcome' = outcome
    BY <1>1, <1>7 DEF Goto
  <2> HIDE DEF kept, type
  <2>2. pass' \in Passes /\ pass'.type = type
    BY <2>1, <1>3, <1>4 DEF TypeOK, Passes
  <2>3. TypeOK'
    BY <2>1, <2>2, <1>2 DEF TypeOK, files, journals, settings, Steps, Outcomes
  <2>4. QED BY <2>2, <2>3, <1>5 DEF TwinKnown
<1>8. QED BY <1>6, <1>7

LEMMA BeginTyped == ASSUME TypeOK, NEW m \in Modes, Begin(m) PROVE TypeOK' /\ TwinKnown'
<1>1. m \in {"capture", "apply", "plan"}
  BY StorageAssumption DEF StorageAssumption
<1>2. Sufficient \in BOOLEAN /\ OverLimit(m) \in BOOLEAN
  BY DEF Sufficient, OverLimit
<1>3. pass' = NewPass(m, Sufficient, OverLimit(m)) /\ pass' \in Passes
  BY <1>1, <1>2, NewPassTyped DEF Begin
<1>4. todo' = {} /\ job' = NoJob /\ NoJob \in Jobs
  BY DEF Begin, NoJob, Jobs
<1>5. pc' \in {"idle", "scan"} /\ outcome' \in Outcomes
  BY DEF Begin, Goto, Outcomes
<1>6. /\ passes' \in Nat /\ folders' \subseteq Runs
      /\ UNCHANGED <<kind, local, remote, guard, proved, ident, journals, late, accidents, crashes, settings>>
  BY DEF Begin, TypeOK
<1>7. TypeOK'
  BY <1>3, <1>4, <1>5, <1>6 DEF TypeOK, journals, settings, Steps
<1>8. \A r \in Runs : pass'.type[r] = "none"
  BY <1>3 DEF NewPass
<1>9. QED BY <1>7, <1>8 DEF TwinKnown

LEMMA ScanTyped == ASSUME TypeInv, Scan PROVE TypeInv'
<1> DEFINE valid == {r \in folders : logicalStorageRecord(r) /\ local[r] = "intact"}
           good == Newest(valid, Window(pass.mode)) \cup {r \in valid : guard[r] # "none"}
<1>1. TypeOK
  BY DEF TypeInv
<1>2. CASE good = {}
  <2>1. blocked /\ UNCHANGED <<files, journals, bounds>>
    BY <1>2 DEF Scan
  <2>2. PICK a \in Outcomes : Return(a)
    BY <2>1, BlockedReturns
  <2>3. TypeOK'
    BY <1>1, <2>1, <2>2, ReturnStep DEF journals, TypeOK, bounds
  <2>4. pass' = pass
    BY <2>2 DEF Return, memory
  <2>5. QED BY <2>3, <2>4 DEF TwinKnown, TypeInv
<1>3. CASE good # {}
  <2>1. /\ pc' = "verify" /\ pass' = [pass EXCEPT !.good = good, !.keptLocal = good, !.seen = ident]
        /\ UNCHANGED <<todo, job, outcome, late>> /\ UNCHANGED <<files, journals, bounds>>
    BY <1>3 DEF Scan, Goto
  <2>2. good \subseteq Runs
    BY <1>1 DEF Newest, TypeOK
  <2> HIDE DEF good
  <2>3. pass' \in Passes /\ pass'.type = pass.type
    BY <1>1, <2>1, <2>2 DEF TypeOK, Passes
  <2>4. TypeOK'
    BY <1>1, <2>1, <2>3 DEF TypeOK, files, journals, bounds, settings, Steps
  <2>5. QED BY <2>3, <2>4 DEF TwinKnown, TypeInv
<1>4. QED BY <1>2, <1>3

LEMMA StartKeeps ==
  ASSUME TypeInv, NEW r \in Runs, NEW phase \in {"recover", "loop"}, StartDeletion(r, phase),
         UNCHANGED <<files, journals, outcome, late, accidents, crashes, passes, settings>>
  PROVE  TypeInv'
<1>1. Counterpart(r) \in Runs /\ pass.type[r] \in Types
  BY CounterpartRun
<1>2. /\ pc' = "check" /\ job' \in Jobs /\ job'.run \in Runs /\ job'.phase # "none"
      /\ pass' \in Passes /\ todo' \subseteq Runs
  BY <1>1, StartTyped DEF TypeInv
<1>3. TypeOK'
  BY <1>2, MoveStep DEF TypeInv, Steps, TypeOK
<1>4. pass'.type = pass.type
  BY DEF StartDeletion, TypeInv, TypeOK, Passes
<1>5. QED BY <1>3, <1>4 DEF TypeInv, TwinKnown

LEMMA RecoverTyped == ASSUME TypeInv, NEW r \in Runs, recoverIntents(r) PROVE TypeInv'
<1>1. UNCHANGED <<files, crashes, passes, settings>> /\ pc = "recover"
  BY DEF recoverIntents
<1>2. ASSUME NEW result \in {"REMOVED", "HELD", "CANCELLED"}, Recovered(r, result) PROVE TypeInv'
  <2>1. journal' \in [Runs -> {"none", "INTENT", "DELETED", "FAILED", "REMOVED", "HELD", "CANCELLED"}]
    BY <1>2 DEF Recovered, TypeInv, TypeOK
  <2>2. UNCHANGED <<jident, pc, memory, outcome, late, accidents>>
    BY <1>2 DEF Recovered
  <2>3. QED BY <1>1, <2>1, <2>2 DEF TypeInv, TypeOK, TwinKnown, files, memory, settings
<1>3. ASSUME StartDeletion(r, "recover"), UNCHANGED <<journals, outcome, late, accidents>> PROVE TypeInv'
  BY <1>1, <1>3, StartKeeps
<1>4. ASSUME Return("refused"), UNCHANGED journals, NoAccident \/ Accident("s3") PROVE TypeInv'
  <2>1. accidents' \in Nat
    BY <1>4, AccidentTyped DEF TypeInv, NoAccident
  <2>2. TypeOK'
    BY <1>1, <1>4, <2>1, ReturnStep DEF TypeInv, TypeOK, journals, Outcomes
  <2>3. pass' = pass
    BY <1>4 DEF Return, memory
  <2>4. QED BY <2>2, <2>3 DEF TypeInv, TwinKnown
<1>5. QED BY <1>2, <1>3, <1>4 DEF recoverIntents

LEMMA HoldTyped == ASSUME TypeInv, NEW r \in Runs, HoldNext(r) PROVE TypeInv'
<1>1. accidents' \in Nat
  BY AccidentTyped DEF HoldNext, TypeInv, NoAccident
<1>2. /\ UNCHANGED <<files, journals, pc, pass, job, outcome, late, crashes, passes, settings>>
      /\ todo' = todo \ {r}
  BY DEF HoldNext
<1>3. QED BY <1>1, <1>2 DEF TypeInv, TypeOK, TwinKnown, files, journals, settings

LEMMA ReleaseTyped == ASSUME TypeInv, NEW r \in Runs, ReleaseSecond(r) PROVE TypeInv'
<1>1. /\ pc' = "check" /\ job' = [run |-> r, phase |-> "final", result |-> "none"]
      /\ pass' = [pass EXCEPT !.proofs = @ \cup {r}, !.keptLocal = @ \ {r}, !.type[r] = "complete"]
      /\ UNCHANGED <<files, journals, todo, outcome, late, bounds>>
  BY DEF ReleaseSecond, Goto
<1>2. job' \in Jobs
  BY <1>1 DEF Jobs
<1>3. pass' \in Passes /\ pass'.type = [pass.type EXCEPT ![r] = "complete"]
  BY <1>1 DEF TypeInv, TypeOK, Passes, Types
<1>4. TypeOK'
  BY <1>1, <1>2, <1>3 DEF TypeInv, TypeOK, files, journals, bounds, settings, Steps
<1>5. \A q \in Runs : pass'.type[q] = "duplicate" => pass.type[q] = "duplicate"
  BY <1>3 DEF TypeInv, TypeOK, Passes
<1>6. QED BY <1>4, <1>5 DEF TypeInv, TwinKnown

\* The steps of one deletion.
LEMMA DeleteTyped ==
  ASSUME TypeInv, CheckLocal \/ WriteIntent \/ unlinkStoragePayload \/ RecordOutcome
  PROVE  TypeInv'
<1>1. CASE CheckLocal
  <2>1. UNCHANGED <<files, journals, bounds>> /\ pc = "check"
    BY <1>1 DEF CheckLocal
  <2>2. CASE Goto("intent") /\ late' = late \ {"local"} /\ UNCHANGED <<memory, outcome>>
    BY <2>1, <2>2 DEF TypeInv, TypeOK, TwinKnown, Goto, Steps, files, journals, bounds, settings, memory
  <2>3. CASE Return("refused")
    <3>1. TypeOK'
      BY <2>1, <2>3, ReturnStep DEF TypeInv, TypeOK, journals, bounds, Outcomes
    <3>2. QED BY <3>1, <2>3 DEF TypeInv, TwinKnown, Return, memory
  <2>4. QED BY <1>1, <2>2, <2>3 DEF CheckLocal
<1>2. CASE WriteIntent
  <2>1. UNCHANGED <<files, bounds>> /\ pc = "intent"
    BY <1>2 DEF WriteIntent
  <2>2. CASE /\ Goto("unlink") /\ late' = late \ {"remote"}
             /\ journal' = [journal EXCEPT ![job.run] = "INTENT"]
             /\ jident' = [jident EXCEPT ![job.run] = pass.seen[job.run]]
             /\ UNCHANGED <<memory, outcome>>
    <3>1. jident' \in [Runs -> Nat]
      BY <2>1, <2>2 DEF TypeInv, TypeOK, Passes
    <3>2. journal' \in [Runs -> {"none", "INTENT", "DELETED", "FAILED", "REMOVED", "HELD", "CANCELLED"}]
      BY <2>2 DEF TypeInv, TypeOK
    <3>3. QED BY <2>1, <2>2, <3>1, <3>2 DEF TypeInv, TypeOK, TwinKnown, Goto, Steps, files, bounds, settings, memory
  <2>3. CASE Return("refused") /\ UNCHANGED journals
    <3>1. TypeOK'
      BY <2>1, <2>3, ReturnStep DEF TypeInv, TypeOK, journals, bounds, Outcomes
    <3>2. QED BY <3>1, <2>3 DEF TypeInv, TwinKnown, Return, memory
  <2>4. QED BY <1>2, <2>2, <2>3 DEF WriteIntent
<1>3. CASE unlinkStoragePayload
  <2>1. /\ pc = "unlink" /\ pc' = "record" /\ local' \in [Runs -> Locals]
        /\ \E result \in {"DELETED", "FAILED"} : job' = [job EXCEPT !.result = result]
        /\ UNCHANGED <<kind, remote, guard, proved, ident, folders, journals, pass, todo, outcome,
                       late, crashes, passes, settings>>
    BY <1>3 DEF unlinkStoragePayload, Goto, TypeInv, TypeOK, Locals
  <2>2. accidents' \in Nat
    BY <1>3, AccidentTyped DEF unlinkStoragePayload, TypeInv, NoAccident
  <2>3. job' \in Jobs /\ job'.run = job.run /\ job'.phase = job.phase /\ job'.result # "none"
    BY <2>1 DEF TypeInv, TypeOK, Jobs
  <2>4. QED BY <2>1, <2>2, <2>3 DEF TypeInv, TypeOK, TwinKnown, Steps, journals, settings
<1>4. CASE RecordOutcome
  <2>1. /\ pc = "record" /\ UNCHANGED <<kind, local, remote, guard, proved, ident, jident, crashes, passes,
                                       settings>>
        /\ journal' = [journal EXCEPT ![job.run] = job.result]
    BY <1>4 DEF RecordOutcome
  <2>2. journal' \in [Runs -> {"none", "INTENT", "DELETED", "FAILED", "REMOVED", "HELD", "CANCELLED"}]
    BY <2>1 DEF TypeInv, TypeOK, Jobs
  <2>3. CASE /\ job.result = "DELETED" /\ Goto(job.phase)
             /\ folders' = IF pruneStorageRunMetadata(job.run) THEN folders \ {job.run} ELSE folders
             /\ UNCHANGED <<memory, outcome, late, accidents>>
    <3>1. pc' \in {"recover", "loop", "final"} /\ folders' \subseteq Runs
      BY <2>1, <2>3 DEF Goto, TypeInv, TypeOK, Jobs
    <3>2. QED BY <2>1, <2>2, <2>3, <3>1 DEF TypeInv, TypeOK, TwinKnown, Steps, memory, settings
  <2>4. CASE Return("refused") /\ UNCHANGED folders /\ (NoAccident \/ Accident("io"))
    <3>1. accidents' \in Nat
      BY <2>4, AccidentTyped DEF TypeInv, NoAccident
    <3>2. UNCHANGED <<files, jident, crashes, passes, settings>>
      BY <2>1, <2>4 DEF files
    <3>3. TypeOK'
      BY <2>2, <2>4, <3>1, <3>2, ReturnStep DEF TypeInv, Outcomes
    <3>4. QED BY <3>3, <2>4 DEF TypeInv, TwinKnown, Return, memory
  <2>5. QED BY <1>4, <2>3, <2>4 DEF RecordOutcome
<1>5. QED BY <1>1, <1>2, <1>3, <1>4

\* The remaining steps of the pass return, or only move on.
LEMMA RestTyped ==
  ASSUME TypeInv, ListingFails \/ NoIntentLeft \/ LoopEnds \/ StorageFault \/ NothingToRelease \/ Finish
  PROVE  TypeInv'
<1>1. ASSUME NEW a \in Outcomes, Return(a), UNCHANGED <<files, journals, crashes, passes, settings>>,
             UNCHANGED accidents \/ Accident("io") \/ Accident("s3")
      PROVE  TypeInv'
  <2>1. accidents' \in Nat
    BY <1>1, AccidentTyped DEF TypeInv
  <2>2. TypeOK'
    BY <1>1, <2>1, ReturnStep DEF TypeInv, TypeOK, journals
  <2>3. QED BY <1>1, <2>2 DEF TypeInv, TwinKnown, Return, memory
<1>2. ASSUME UNCHANGED <<files, journals, memory, outcome, late, crashes, passes, settings>>,
             UNCHANGED accidents \/ Accident("s3"), pc' \in {"loop", "emergency", "final"}
      PROVE  TypeInv'
  <2>1. accidents' \in Nat
    BY <1>2, AccidentTyped DEF TypeInv
  <2>2. QED BY <1>2, <2>1 DEF TypeInv, TypeOK, TwinKnown, Steps, files, journals, memory, settings
<1>3. CASE ListingFails
  BY <1>1, <1>3, BlockedReturns DEF ListingFails
<1>4. CASE NoIntentLeft
  BY <1>2, <1>4 DEF NoIntentLeft, Goto, bounds
<1>5. CASE LoopEnds
  BY <1>2, <1>5 DEF LoopEnds, Goto, bounds
<1>6. CASE StorageFault
  BY <1>1, <1>6 DEF StorageFault, Outcomes
<1>7. CASE NothingToRelease
  BY <1>2, <1>7 DEF NothingToRelease, Goto, NoAccident
<1>8. CASE Finish
  <2>1. PICK a \in Outcomes : Return(a)
    BY <1>8 DEF Finish, SecondaryOrRefuse, Outcomes
  <2>2. QED BY <1>1, <1>8, <2>1 DEF Finish, bounds
<1>9. QED BY <1>3, <1>4, <1>5, <1>6, <1>7, <1>8

\* What happens around the pass keeps the types.
LEMMA WorldTyped ==
  ASSUME TypeInv, NEW r \in Runs, Capture(r) \/ Protect(r) \/ Replace(r) \/ RemoteChanges(r)
  PROVE  TypeInv'
<1>1. CASE Capture(r)
  <2>1. PICK c \in Captures :
          /\ kind' = [kind EXCEPT ![r] = c.kind] /\ local' = [local EXCEPT ![r] = c.local]
          /\ remote' = [remote EXCEPT ![r] = c.remote] /\ guard' = [guard EXCEPT ![r] = c.guard]
    BY <1>1 DEF Capture
  <2>2. c.kind \in Kinds /\ c.local \in Locals /\ c.remote \in Remotes /\ c.guard \in Guards
    BY StorageAssumption DEF StorageAssumption, Profiles
  <2>3. /\ kind' \in [Runs -> Kinds] /\ local' \in [Runs -> Locals]
        /\ remote' \in [Runs -> Remotes] /\ guard' \in [Runs -> Guards]
    BY <2>1, <2>2 DEF TypeInv, TypeOK
  <2>4. folders' \subseteq Runs /\ outcome' = "none" /\ UNCHANGED <<proved, ident, journals, pc, memory, late, bounds>>
    BY <1>1 DEF Capture, TypeInv, TypeOK
  <2>5. QED BY <2>3, <2>4 DEF TypeInv, TypeOK, TwinKnown, journals, memory, bounds, settings, Outcomes
<1>2. CASE Protect(r)
  <2>1. accidents' \in Nat
    BY <1>2, AccidentTyped DEF Protect, Pin, RestoreTest, TypeInv
  <2>2. guard' \in [Runs -> Guards]
    BY <1>2 DEF Protect, Pin, RestoreTest, TypeInv, TypeOK, Guards
  <2>3. late' \subseteq {"local", "remote"}
    BY <1>2 DEF Protect, Pin, RestoreTest, TypeInv, TypeOK
  <2>4. /\ proved' \subseteq Runs
        /\ UNCHANGED <<kind, local, remote, ident, folders, journals, pc, memory, outcome, crashes, passes, settings>>
    BY <1>2 DEF Protect, Pin, RestoreTest, TypeInv, TypeOK
  <2>5. QED BY <2>1, <2>2, <2>3, <2>4 DEF TypeInv, TypeOK, TwinKnown, journals, memory, settings
<1>3. CASE Replace(r)
  <2>1. accidents' \in Nat
    BY <1>3, AccidentTyped DEF Replace, TypeInv
  <2>2. local' \in [Runs -> Locals] /\ ident' \in [Runs -> Nat]
    BY <1>3 DEF Replace, TypeInv, TypeOK, Locals
  <2>3. late' \subseteq {"local", "remote"}
    BY <1>3 DEF Replace, TypeInv, TypeOK
  <2>4. UNCHANGED <<kind, remote, guard, proved, folders, journals, pc, memory, outcome, crashes, passes, settings>>
    BY <1>3 DEF Replace
  <2>5. QED BY <2>1, <2>2, <2>3, <2>4 DEF TypeInv, TypeOK, TwinKnown, journals, memory, settings
<1>4. CASE RemoteChanges(r)
  <2>1. accidents' \in Nat
    BY <1>4, AccidentTyped DEF RemoteChanges, TypeInv
  <2>2. remote' \in [Runs -> Remotes]
    BY <1>4 DEF RemoteChanges, TypeInv, TypeOK, Remotes
  <2>3. late' \subseteq {"local", "remote"}
    BY <1>4 DEF RemoteChanges, TypeInv, TypeOK
  <2>4. UNCHANGED <<kind, local, guard, proved, ident, folders, journals, pc, memory, outcome, crashes, passes, settings>>
    BY <1>4 DEF RemoteChanges
  <2>5. QED BY <2>1, <2>2, <2>3, <2>4 DEF TypeInv, TypeOK, TwinKnown, journals, memory, settings
<1>5. QED BY <1>1, <1>2, <1>3, <1>4

LEMMA CrashTyped == ASSUME TypeInv, Crash PROVE TypeInv'
<1>1. pass' = NewPass("apply", FALSE, FALSE) /\ pass' \in Passes
  BY NewPassTyped DEF Crash
<1>2. \A r \in Runs : pass'.type[r] = "none"
  BY <1>1 DEF NewPass
<1>3. job' = NoJob /\ NoJob \in Jobs
  BY DEF Crash, NoJob, Jobs
<1>4. /\ pc' = "idle" /\ todo' = {} /\ outcome' = "none" /\ late' = {} /\ crashes' \in Nat
      /\ UNCHANGED <<files, journals, accidents, passes, settings>>
  BY DEF Crash, TypeInv, TypeOK
<1>5. TypeOK'
  BY <1>1, <1>3, <1>4 DEF TypeInv, TypeOK, files, journals, settings, Steps, Outcomes
<1>6. QED BY <1>2, <1>5 DEF TypeInv, TwinKnown

LEMMA TypeStep == TypeInv /\ [Next]_vars => TypeInv'
<1>1. SUFFICES ASSUME TypeInv, [Next]_vars PROVE TypeInv'
  OBVIOUS
<1>2. CASE Scan \/ VerifyRemote
  BY <1>1, <1>2, ScanTyped, VerifyTyped DEF TypeInv
<1>3. ASSUME NEW r \in Runs, recoverIntents(r) \/ DeleteNext(r) \/ HoldNext(r) \/ ReleaseSecond(r)
      PROVE  TypeInv'
  <2>1. CASE DeleteNext(r)
    BY <1>1, <2>1, StartKeeps DEF DeleteNext, bounds
  <2>2. QED BY <1>1, <1>3, <2>1, RecoverTyped, HoldTyped, ReleaseTyped
<1>4. CASE ListingFails \/ NoIntentLeft \/ LoopEnds \/ StorageFault \/ NothingToRelease \/ Finish
  BY <1>1, <1>4, RestTyped
<1>5. CASE CheckLocal \/ WriteIntent \/ unlinkStoragePayload \/ RecordOutcome
  BY <1>1, <1>5, DeleteTyped
<1>6. CASE \E m \in Modes : Begin(m)
  BY <1>1, <1>6, BeginTyped DEF TypeInv
<1>7. CASE \E r \in Runs : Capture(r) \/ Protect(r) \/ Replace(r) \/ RemoteChanges(r)
  BY <1>1, <1>7, WorldTyped
<1>8. CASE Crash
  BY <1>1, <1>8, CrashTyped
<1>9. CASE UNCHANGED vars
  BY <1>1, <1>9 DEF vars, files, journals, memory, bounds, settings, TypeInv, TypeOK, TwinKnown
<1>10. QED
  BY <1>1, <1>2, <1>3, <1>4, <1>5, <1>6, <1>7, <1>8, <1>9 DEF Next, PassStep

\* Every variable stays within its domain (the data of ensure and its helpers).
THEOREM TypeCorrect == Spec => []TypeOK
<1>1. Init => TypeInv
  <2>1. Init => \A r \in Runs : pass.type[r] = "none"
    BY DEF Init, NewPass
  <2>2. QED BY <2>1, TypeInit DEF TypeInv, TwinKnown
<1>2. TypeInv => TypeOK
  BY DEF TypeInv
<1>3. QED BY <1>1, <1>2, TypeStep, PTL DEF Spec

-----------------------------------------------------------------------------
\* One intent at a time: a new one is written only when none is left, except for
\* the very deletion that is being recovered.

IntentInv ==
  /\ \E r \in Runs \cup {None} : Intents \subseteq {r}
  /\ pc \in {"loop", "emergency", "final"} => Intents = {}
  /\ pc \in {"check", "intent"} => Intents \subseteq IF job.phase = "recover" THEN {job.run} ELSE {}
  /\ pc \in {"unlink", "record"} => Intents = {job.run}

\* A step that leaves the journal alone keeps IntentInv if where it goes to
\* promises nothing new.
LEMMA JournalKept ==
  ASSUME IntentInv, UNCHANGED journal,
         \/ pc' \in {"idle", "scan", "verify", "recover"}
         \/ Intents = {} /\ pc' \notin {"unlink", "record"}
         \/ UNCHANGED <<pc, job>>
  PROVE  IntentInv'
BY DEF IntentInv, Intents

LEMMA SettleKeeps ==
  ASSUME TypeInv, IntentInv, NEW r \in Runs, NEW result, result # "INTENT",
         journal' = [journal EXCEPT ![r] = result], pc' \in {"idle", "recover"}
  PROVE  IntentInv'
<1>1. Intents' \subseteq Intents
  BY DEF Intents, TypeInv, TypeOK
<1>2. QED BY <1>1 DEF IntentInv

LEMMA IntentStep == TypeInv /\ IntentInv /\ [Next]_vars => IntentInv'
<1>1. SUFFICES ASSUME TypeInv, IntentInv, [Next]_vars PROVE IntentInv'
  OBVIOUS
<1>2. ASSUME NEW a \in Outcomes, Return(a), UNCHANGED journals PROVE IntentInv'
  BY <1>1, <1>2, JournalKept DEF Return, Goto, journals
<1>3. CASE Scan \/ VerifyRemote \/ ListingFails
  <2>1. UNCHANGED journals
    BY <1>3 DEF Scan, VerifyRemote, ListingFails
  <2>2. CASE blocked
    BY <2>1, <2>2, <1>2, BlockedReturns
  <2>3. CASE ~blocked
    <3>1. pc' \in {"idle", "verify", "recover"}
      BY <1>3, <2>3 DEF Scan, VerifyRemote, ListingFails, Goto
    <3>2. QED BY <1>1, <2>1, <3>1, JournalKept DEF journals
  <2>4. QED BY <2>2, <2>3
<1>4. ASSUME NEW r \in Runs, recoverIntents(r) PROVE IntentInv'
  <2>1. CASE \E result \in {"REMOVED", "HELD", "CANCELLED"} : Recovered(r, result)
    BY <1>1, <1>4, <2>1, SettleKeeps DEF Recovered, recoverIntents
  <2>2. CASE StartDeletion(r, "recover") /\ UNCHANGED journals
    <3>1. pc' = "check" /\ job'.run = r /\ job'.phase = "recover"
      BY <2>2 DEF StartDeletion, Goto
    <3>2. Intents = {r}
      BY <1>1, <1>4 DEF recoverIntents, IntentInv
    <3>3. QED BY <2>2, <3>1, <3>2 DEF IntentInv, Intents, journals
  <2>3. CASE Return("refused") /\ UNCHANGED journals
    BY <2>3, <1>2 DEF Outcomes
  <2>4. QED BY <1>4, <2>1, <2>2, <2>3 DEF recoverIntents
<1>5. ASSUME NEW r \in Runs, DeleteNext(r) \/ HoldNext(r) \/ ReleaseSecond(r) PROVE IntentInv'
  <2>1. Intents = {} /\ UNCHANGED journal /\ pc' \in {"loop", "check"}
    BY <1>1, <1>5 DEF DeleteNext, HoldNext, ReleaseSecond, NextCandidate, StartDeletion, Goto, IntentInv, journals
  <2>2. QED BY <1>1, <2>1, JournalKept
<1>6. CASE NoIntentLeft \/ LoopEnds \/ NothingToRelease
  <2>1. Intents = {} /\ UNCHANGED journal /\ pc' \in {"loop", "emergency", "final"}
    BY <1>1, <1>6 DEF NoIntentLeft, LoopEnds, NothingToRelease, Goto, IntentInv, journals
  <2>2. QED BY <1>1, <2>1, JournalKept
<1>7. CASE StorageFault \/ Finish
  <2>1. \E a \in Outcomes : Return(a)
    BY <1>7 DEF StorageFault, Finish, SecondaryOrRefuse, Outcomes
  <2>2. UNCHANGED journals
    BY <1>7 DEF StorageFault, Finish
  <2>3. QED BY <2>1, <2>2, <1>2
<1>8. CASE CheckLocal
  <2>1. UNCHANGED journals /\ pc = "check"
    BY <1>8 DEF CheckLocal
  <2>2. CASE Goto("intent") /\ UNCHANGED memory
    BY <1>1, <2>1, <2>2 DEF Goto, memory, journals, IntentInv, Intents
  <2>3. CASE Return("refused")
    BY <2>1, <2>3, <1>2 DEF Outcomes
  <2>4. QED BY <1>8, <2>2, <2>3 DEF CheckLocal
<1>9. CASE WriteIntent
  <2>1. CASE Return("refused") /\ UNCHANGED journals
    BY <2>1, <1>2 DEF Outcomes
  <2>2. CASE Goto("unlink") /\ journal' = [journal EXCEPT ![job.run] = "INTENT"] /\ UNCHANGED memory
    <3>1. job.run \in Runs /\ Intents \subseteq {job.run} /\ job' = job /\ pc' = "unlink"
      BY <1>1, <1>9, <2>2 DEF WriteIntent, TypeInv, TypeOK, IntentInv, Goto, memory
    <3>2. Intents' = {job.run}
      BY <1>1, <2>2, <3>1 DEF Intents, TypeInv, TypeOK
    <3>3. QED BY <3>1, <3>2 DEF IntentInv
  <2>3. QED BY <1>9, <2>1, <2>2 DEF WriteIntent
<1>10. CASE unlinkStoragePayload
  <2>1. pc = "unlink" /\ pc' = "record" /\ job'.run = job.run /\ UNCHANGED journal
    BY <1>1, <1>10 DEF unlinkStoragePayload, Goto, journals, TypeInv, TypeOK, Jobs
  <2>2. QED BY <1>1, <2>1 DEF IntentInv, Intents
<1>11. CASE RecordOutcome
  <2>1. /\ pc = "record" /\ job.run \in Runs /\ job.result \in {"DELETED", "FAILED"}
        /\ journal' = [journal EXCEPT ![job.run] = job.result]
    BY <1>1, <1>11 DEF RecordOutcome, TypeInv, TypeOK, Jobs
  <2>2. Intents' = {}
    BY <1>1, <2>1 DEF Intents, IntentInv, TypeInv, TypeOK
  <2>3. pc' \in {"idle", "recover", "loop", "final"}
    BY <1>1, <1>11 DEF RecordOutcome, Goto, Return, TypeInv, TypeOK, Jobs
  <2>4. QED BY <2>2, <2>3 DEF IntentInv
<1>12. CASE \E m \in Modes : Begin(m)
  BY <1>1, <1>12, JournalKept DEF Begin, Goto, journals
<1>13. CASE \E r \in Runs : Capture(r) \/ Protect(r) \/ Replace(r) \/ RemoteChanges(r)
  BY <1>1, <1>13, JournalKept DEF Capture, Protect, Pin, RestoreTest, Replace, RemoteChanges, journals, memory
<1>14. CASE Crash
  BY <1>1, <1>14, JournalKept DEF Crash, journals
<1>15. CASE UNCHANGED vars
  BY <1>1, <1>15, JournalKept DEF vars, journals, memory
<1>16. QED
  BY <1>1, <1>3, <1>4, <1>5, <1>6, <1>7, <1>8, <1>9, <1>10, <1>11, <1>12, <1>13, <1>14, <1>15
  DEF Next, PassStep

\* At most one deletion is unsettled at any time (recoverIntents, deleteCandidate).
THEOREM OneIntentAtATime == Spec => []OneIntent
<1>1. Init => TypeInv
  <2>1. Init => \A r \in Runs : pass.type[r] = "none"
    BY DEF Init, NewPass
  <2>2. QED BY <2>1, TypeInit DEF TypeInv, TwinKnown
<1>2. Init => IntentInv
  BY DEF Init, IntentInv, Intents
<1>3. IntentInv => OneIntent
  <2>1. SUFFICES ASSUME IntentInv PROVE Cardinality(Intents) <= 1
    BY DEF OneIntent
  <2>2. PICK r \in Runs \cup {None} : Intents \subseteq {r}
    BY <2>1 DEF IntentInv
  <2>3. Intents = {} \/ Intents = {r}
    BY <2>2
  <2>4. Cardinality({}) = 0 /\ Cardinality({r}) = 1
    BY FS_EmptySet, FS_Singleton
  <2>5. QED BY <2>3, <2>4
<1>4. QED BY <1>1, <1>2, <1>3, TypeStep, IntentStep, PTL DEF Spec

-----------------------------------------------------------------------------
\* The journal tells the truth: a removed payload never comes back, because a
\* capture writes into the folder of a new run only, which no journal names.

\* What a run left, or is to have deleted, presupposes the run.
KnownInv ==
  /\ \A r \in Runs : /\ local[r] # "none" \/ r \in folders \/ journal[r] # "none" => kind[r] # "none"
                     /\ pass.type[r] # "none" \/ r \in pass.good => kind[r] # "none"
  /\ pc \in {"check", "intent", "unlink", "record"} => kind[job.run] # "none"
  /\ pc = "record" /\ job.result = "DELETED" => local[job.run] = "none"

TruthInv == TypeInv /\ IntentInv /\ KnownInv /\ JournalTruthful

\* A step that leaves the files, the journals and the pass alone, and starts no deletion.
LEMMA TruthQuiet ==
  ASSUME TruthInv, UNCHANGED <<kind, local, journals>>, folders' \subseteq folders,
         \A r \in Runs : /\ pass'.type[r] # "none" => kind[r] # "none"
                         /\ r \in pass'.good => kind[r] # "none",
         \/ pc' \notin {"check", "intent", "unlink", "record"}
         \/ pc' \in {"check", "intent", "unlink"} /\ kind[job'.run] # "none"
  PROVE  KnownInv' /\ JournalTruthful'
BY DEF TruthInv, KnownInv, JournalTruthful, journals

LEMMA TruthReturn ==
  ASSUME TruthInv, NEW a \in Outcomes, Return(a), UNCHANGED <<kind, local, journals>>, folders' \subseteq folders
  PROVE  KnownInv' /\ JournalTruthful'
<1>1. pc' = "idle" /\ pass' = pass
  BY DEF Return, Goto, memory
<1>2. QED BY <1>1, TruthQuiet DEF TruthInv, KnownInv

\* Settling an entry of the journal with what is true of the payload.
LEMMA TruthSettled ==
  ASSUME TruthInv, NEW r \in Runs, NEW result, journal' = [journal EXCEPT ![r] = result],
         result \in {"DELETED", "REMOVED"} => local[r] = "none",
         result \in {"HELD", "CANCELLED"} => local[r] # "none",
         kind[r] # "none", UNCHANGED <<kind, local, pass>>, folders' \subseteq folders,
         pc' \notin {"check", "intent", "unlink", "record"}
  PROVE  KnownInv' /\ JournalTruthful'
BY DEF TruthInv, KnownInv, JournalTruthful, TypeInv, TypeOK

LEMMA CandidateKnown ==
  ASSUME TruthInv, NEW r \in Runs, NEW young, NEW kept, CandidateType(r, young, kept) # "none"
  PROVE  kind[r] # "none"
BY DEF CandidateType, TruthInv, KnownInv

LEMMA TruthVerify == ASSUME TruthInv, VerifyRemote PROVE KnownInv' /\ JournalTruthful'
<1>1. UNCHANGED <<files, journals>>
  BY DEF VerifyRemote
<1>2. CASE blocked
  BY <1>1, <1>2, BlockedReturns, TruthReturn DEF files
<1>3. CASE ~blocked
  <2> DEFINE found(missed) == Newest({r \in Runs \ missed : remote[r] = "complete"}, 2)
             types(young, kept) == [r \in Runs |-> CandidateType(r, young, kept)]
  <2>0. PICK missed \in {{}} \cup {{r} : r \in Runs}, young \in SUBSET {r \in Runs : local[r] = "temp"} :
          IF Cardinality(found(missed)) < 2 THEN blocked
          ELSE /\ pass' = [pass EXCEPT !.keptRemote = found(missed), !.proofs = found(missed),
                                       !.type = types(young, found(missed))]
               /\ IF pass.mode = "plan" THEN Goto("idle") /\ outcome' = "none"
                  ELSE Goto("recover") /\ UNCHANGED outcome
    BY DEF VerifyRemote
  <2> DEFINE kept == found(missed)
  <2>1. /\ pass' = [pass EXCEPT !.keptRemote = kept, !.proofs = kept, !.type = types(young, kept)]
        /\ pc' \in {"idle", "recover"}
    BY <1>3, <2>0 DEF Goto
  <2> HIDE DEF found, kept
  <2>2. pass'.type = [r \in Runs |-> CandidateType(r, young, kept)] /\ pass'.good = pass.good
    BY <2>1 DEF TruthInv, TypeInv, TypeOK, Passes
  <2>3. \A r \in Runs : pass'.type[r] # "none" => kind[r] # "none"
    BY <2>2, CandidateKnown
  <2>4. QED BY <1>1, <2>1, <2>2, <2>3, TruthQuiet DEF TruthInv, KnownInv, files
<1>4. QED BY <1>2, <1>3

LEMMA TruthScan == ASSUME TruthInv, Scan PROVE KnownInv' /\ JournalTruthful'
<1> DEFINE valid == {r \in folders : logicalStorageRecord(r) /\ local[r] = "intact"}
           good == Newest(valid, Window(pass.mode)) \cup {r \in valid : guard[r] # "none"}
<1>1. UNCHANGED <<files, journals>>
  BY DEF Scan
<1>2. CASE good = {}
  <2>1. blocked
    BY <1>2 DEF Scan
  <2>2. QED BY <1>1, <2>1, BlockedReturns, TruthReturn DEF files
<1>3. CASE good # {}
  <2>1. pc' = "verify" /\ pass' = [pass EXCEPT !.good = good, !.keptLocal = good, !.seen = ident]
    BY <1>3 DEF Scan, Goto
  <2>2. good \subseteq folders
    BY DEF Newest
  <2> HIDE DEF good
  <2>3. pass'.type = pass.type /\ pass'.good = good
    BY <2>1 DEF TruthInv, TypeInv, TypeOK, Passes
  <2>4. QED BY <1>1, <2>1, <2>2, <2>3, TruthQuiet DEF TruthInv, TypeInv, TypeOK, KnownInv, files
<1>4. QED BY <1>2, <1>3

LEMMA TruthRecover == ASSUME TruthInv, NEW r \in Runs, recoverIntents(r) PROVE KnownInv' /\ JournalTruthful'
<1>1. UNCHANGED files /\ pc = "recover" /\ journal[r] = "INTENT" /\ kind[r] # "none"
  BY DEF recoverIntents, Intents, TruthInv, KnownInv
<1>2. ASSUME NEW result \in {"REMOVED", "HELD", "CANCELLED"}, Recovered(r, result),
             local[r] = "none" <=> result = "REMOVED"
      PROVE  KnownInv' /\ JournalTruthful'
  BY <1>1, <1>2, TruthSettled DEF Recovered, memory, files
<1>3. CASE StartDeletion(r, "recover") /\ UNCHANGED journals
  <2>1. pc' = "check" /\ job'.run = r /\ pass'.type = pass.type /\ pass'.good = pass.good
    BY <1>3 DEF StartDeletion, Goto, TruthInv, TypeInv, TypeOK, Passes
  <2>2. QED BY <1>1, <1>3, <2>1, TruthQuiet DEF files, TruthInv, KnownInv
<1>4. CASE Return("refused") /\ UNCHANGED journals
  BY <1>1, <1>4, TruthReturn DEF files, Outcomes
<1>5. QED BY <1>2, <1>3, <1>4 DEF recoverIntents

LEMMA TruthCandidate ==
  ASSUME TruthInv, NEW r \in Runs, DeleteNext(r) \/ HoldNext(r) \/ ReleaseSecond(r)
  PROVE  KnownInv' /\ JournalTruthful'
<1>1. CASE DeleteNext(r)
  <2>1. UNCHANGED <<files, journals>> /\ r \in todo
    BY <1>1 DEF DeleteNext, NextCandidate
  <2>2. pc' = "check" /\ job'.run = r /\ pass'.type = pass.type /\ pass'.good = pass.good
    BY <1>1 DEF DeleteNext, StartDeletion, Goto, TruthInv, TypeInv, TypeOK, Passes
  <2>3. pass.type[r] # "none"
    <3>1. pass.type[r] \in Types
      BY DEF TruthInv, TypeInv, TypeOK, Passes
    <3>2. authorizeCandidate(r)
      BY <1>1 DEF DeleteNext
    <3>3. QED BY <3>1, <3>2 DEF authorizeCandidate, NeedsCounterpart
  <2>4. QED BY <2>1, <2>2, <2>3, TruthQuiet DEF TruthInv, KnownInv, files
<1>2. CASE HoldNext(r)
  BY <1>2, TruthQuiet DEF HoldNext, NextCandidate, TruthInv, KnownInv, files
<1>3. CASE ReleaseSecond(r)
  <2>1. UNCHANGED <<files, journals>> /\ r \in pass.good
    BY <1>3 DEF ReleaseSecond, MayRelease, Second, Newest
  <2>2. /\ pc' = "check" /\ job' = [run |-> r, phase |-> "final", result |-> "none"]
        /\ pass' = [pass EXCEPT !.proofs = @ \cup {r}, !.keptLocal = @ \ {r}, !.type[r] = "complete"]
    BY <1>3 DEF ReleaseSecond, Goto
  <2>3. job'.run = r /\ pass'.good = pass.good /\ pass'.type = [pass.type EXCEPT ![r] = "complete"]
    BY <2>2 DEF TruthInv, TypeInv, TypeOK, Passes
  <2>4. kind[r] # "none"
    BY <2>1 DEF TruthInv, KnownInv
  <2>5. \A q \in Runs : pass'.type[q] # "none" => kind[q] # "none"
    BY <2>3, <2>4 DEF TruthInv, KnownInv, TypeInv, TypeOK, Passes
  <2>6. QED BY <2>1, <2>2, <2>3, <2>4, <2>5, TruthQuiet DEF TruthInv, KnownInv, files
<1>4. QED BY <1>1, <1>2, <1>3

LEMMA TruthDelete ==
  ASSUME TruthInv, CheckLocal \/ WriteIntent \/ unlinkStoragePayload \/ RecordOutcome
  PROVE  KnownInv' /\ JournalTruthful'
<1>1. CASE CheckLocal
  <2>1. UNCHANGED <<files, journals>> /\ pc = "check"
    BY <1>1 DEF CheckLocal
  <2>2. CASE Goto("intent") /\ UNCHANGED memory
    BY <2>1, <2>2, TruthQuiet DEF Goto, memory, files, TruthInv, KnownInv
  <2>3. CASE Return("refused")
    BY <2>1, <2>3, TruthReturn DEF Outcomes, files
  <2>4. QED BY <1>1, <2>2, <2>3 DEF CheckLocal
<1>2. CASE WriteIntent
  <2>1. UNCHANGED files /\ pc = "intent"
    BY <1>2 DEF WriteIntent
  <2>2. CASE Return("refused") /\ UNCHANGED journals
    BY <2>1, <2>2, TruthReturn DEF Outcomes, files
  <2>3. CASE Goto("unlink") /\ journal' = [journal EXCEPT ![job.run] = "INTENT"] /\ UNCHANGED memory
    BY <2>1, <2>3 DEF Goto, memory, files, TruthInv, KnownInv, JournalTruthful, TypeInv, TypeOK
  <2>4. QED BY <1>2, <2>2, <2>3 DEF WriteIntent
<1>3. CASE unlinkStoragePayload
  <2>1. /\ pc = "unlink" /\ pc' = "record" /\ job.run \in Runs
        /\ UNCHANGED <<kind, folders, journals, pass>>
        /\ journal[job.run] = "INTENT"
    BY <1>3 DEF unlinkStoragePayload, Goto, TruthInv, TypeInv, TypeOK, IntentInv, Intents
  <2>2. job'.run = job.run /\ (job'.result = "DELETED" => local' = [local EXCEPT ![job.run] = "none"])
    BY <1>3 DEF unlinkStoragePayload, TruthInv, TypeInv, TypeOK, Jobs
  <2>3. local' = local \/ local' = [local EXCEPT ![job.run] = "none"]
    BY <1>3 DEF unlinkStoragePayload
  <2>4. QED BY <2>1, <2>2, <2>3 DEF TruthInv, KnownInv, JournalTruthful, TypeInv, TypeOK, journals
<1>4. CASE RecordOutcome
  <2>1. /\ pc = "record" /\ UNCHANGED <<kind, local>> /\ journal' = [journal EXCEPT ![job.run] = job.result]
        /\ folders' \subseteq folders /\ pass' = pass
        /\ job.result = "DELETED" => local[job.run] = "none"
    BY <1>4 DEF RecordOutcome, Return, memory, TruthInv, KnownInv
  <2>2. job.run \in Runs /\ job.result \in {"DELETED", "FAILED"} /\ kind[job.run] # "none"
    BY <2>1 DEF TruthInv, TypeInv, TypeOK, Jobs, KnownInv
  <2>3. pc' \in {"idle", "recover", "loop", "final"}
    BY <1>4 DEF RecordOutcome, Goto, Return, TruthInv, TypeInv, TypeOK, Jobs
  <2>4. QED BY <2>1, <2>2, <2>3, TruthSettled
<1>5. QED BY <1>1, <1>2, <1>3, <1>4

LEMMA TruthRest ==
  ASSUME TruthInv, ListingFails \/ NoIntentLeft \/ LoopEnds \/ StorageFault \/ NothingToRelease \/ Finish
  PROVE  KnownInv' /\ JournalTruthful'
<1>1. UNCHANGED <<files, journals>>
  BY DEF ListingFails, NoIntentLeft, LoopEnds, StorageFault, NothingToRelease, Finish
<1>2. CASE ListingFails \/ StorageFault \/ Finish
  <2>1. \E a \in Outcomes : Return(a)
    BY <1>2, BlockedReturns DEF ListingFails, StorageFault, Finish, SecondaryOrRefuse, Outcomes
  <2>2. QED BY <1>1, <2>1, TruthReturn DEF files
<1>3. CASE NoIntentLeft \/ LoopEnds \/ NothingToRelease
  BY <1>1, <1>3, TruthQuiet
  DEF NoIntentLeft, LoopEnds, NothingToRelease, Goto, files, memory, TruthInv, KnownInv
<1>4. QED BY <1>2, <1>3

LEMMA TruthBegin == ASSUME TruthInv, NEW m \in Modes, Begin(m) PROVE KnownInv' /\ JournalTruthful'
<1>1. pass' = NewPass(m, Sufficient, OverLimit(m)) /\ folders' \subseteq folders
      /\ UNCHANGED <<kind, local, journals>> /\ pc' \in {"idle", "scan"}
  BY DEF Begin, Goto
<1>2. pass'.good = {} /\ \A r \in Runs : pass'.type[r] = "none"
  BY <1>1 DEF NewPass
<1>3. QED BY <1>1, <1>2, TruthQuiet

LEMMA TruthWorld ==
  ASSUME TruthInv, NEW r \in Runs, Capture(r) \/ Protect(r) \/ Replace(r) \/ RemoteChanges(r)
  PROVE  KnownInv' /\ JournalTruthful'
<1>1. CASE Capture(r)
  <2>1. PICK c \in Captures : kind' = [kind EXCEPT ![r] = c.kind] /\ local' = [local EXCEPT ![r] = c.local]
    BY <1>1 DEF Capture
  <2>2. c.kind # "none"
    BY StorageAssumption DEF StorageAssumption
  <2>3. kind[r] = "none" /\ journal[r] = "none" /\ pc = "idle"
    BY <1>1 DEF Capture, TruthInv, KnownInv
  <2>4. folders' = folders \cup {r} /\ UNCHANGED <<journals, pc, pass, job>>
    BY <1>1 DEF Capture, memory
  <2>5. QED BY <2>1, <2>2, <2>3, <2>4 DEF TruthInv, TypeInv, TypeOK, KnownInv, JournalTruthful, journals
<1>2. CASE Protect(r) \/ RemoteChanges(r)
  BY <1>2 DEF Protect, Pin, RestoreTest, RemoteChanges, journals, memory, TruthInv, KnownInv, JournalTruthful
<1>3. CASE Replace(r)
  <2>1. /\ local[r] # "none" /\ UNCHANGED <<kind, folders, journals, pc, memory>>
        /\ \E left \in {"damaged", "temp"} : local' = [local EXCEPT ![r] = left]
    BY <1>3 DEF Replace, TruthInv, TypeInv, TypeOK
  <2>2. \A q \in Runs : local'[q] = "none" <=> local[q] = "none"
    BY <2>1 DEF TruthInv, TypeInv, TypeOK
  <2>3. pc \in {"check", "intent", "unlink", "record"} => job.run \in Runs
    BY DEF TruthInv, TypeInv, TypeOK
  <2>4. QED BY <2>1, <2>2, <2>3 DEF journals, memory, TruthInv, KnownInv, JournalTruthful
<1>4. QED BY <1>1, <1>2, <1>3

LEMMA TruthCrash == ASSUME TruthInv, Crash PROVE KnownInv' /\ JournalTruthful'
<1>1. pass' = NewPass("apply", FALSE, FALSE) /\ pc' = "idle" /\ UNCHANGED <<files, journals>>
  BY DEF Crash
<1>2. pass'.good = {} /\ \A r \in Runs : pass'.type[r] = "none"
  BY <1>1 DEF NewPass
<1>3. QED BY <1>1, <1>2, TruthQuiet DEF files

LEMMA TruthStep == TruthInv /\ [Next]_vars => TruthInv'
<1>1. SUFFICES ASSUME TruthInv, [Next]_vars PROVE KnownInv' /\ JournalTruthful'
  BY TypeStep, IntentStep DEF TruthInv
<1>2. CASE Scan \/ VerifyRemote
  BY <1>1, <1>2, TruthScan, TruthVerify
<1>3. ASSUME NEW r \in Runs, recoverIntents(r) \/ DeleteNext(r) \/ HoldNext(r) \/ ReleaseSecond(r)
      PROVE  KnownInv' /\ JournalTruthful'
  BY <1>1, <1>3, TruthRecover, TruthCandidate
<1>4. CASE ListingFails \/ NoIntentLeft \/ LoopEnds \/ StorageFault \/ NothingToRelease \/ Finish
  BY <1>1, <1>4, TruthRest
<1>5. CASE CheckLocal \/ WriteIntent \/ unlinkStoragePayload \/ RecordOutcome
  BY <1>1, <1>5, TruthDelete
<1>6. CASE \E m \in Modes : Begin(m)
  BY <1>1, <1>6, TruthBegin
<1>7. CASE \E r \in Runs : Capture(r) \/ Protect(r) \/ Replace(r) \/ RemoteChanges(r)
  BY <1>1, <1>7, TruthWorld
<1>8. CASE Crash
  BY <1>1, <1>8, TruthCrash
<1>9. CASE UNCHANGED vars
  BY <1>1, <1>9 DEF vars, files, journals, memory, TruthInv, KnownInv, JournalTruthful
<1>10. QED
  BY <1>1, <1>2, <1>3, <1>4, <1>5, <1>6, <1>7, <1>8, <1>9 DEF Next, PassStep

LEMMA TruthInit == Init => TruthInv
<1>1. SUFFICES ASSUME Init PROVE TruthInv
  OBVIOUS
<1>2. pass.good = {} /\ (\A r \in Runs : pass.type[r] = "none") /\ pc = "idle"
  BY <1>1 DEF Init, NewPass
<1>3. PICK h \in Histories :
        /\ kind = [r \in Runs |-> h[r].kind] /\ local = [r \in Runs |-> h[r].local]
        /\ folders = {r \in Runs : h[r].kind # "none"}
  BY <1>1 DEF Init
<1>4. \A r \in Runs : h[r].local # "none" => h[r].kind # "none"
  BY StorageAssumption DEF StorageAssumption
<1>5. journal = [r \in Runs |-> "none"]
  BY <1>1 DEF Init
<1>6. KnownInv /\ JournalTruthful
  BY <1>2, <1>3, <1>4, <1>5 DEF KnownInv, JournalTruthful
<1>7. IntentInv
  BY <1>2, <1>5 DEF IntentInv, Intents
<1>8. TypeInv
  BY <1>1, <1>2, TypeInit DEF TypeInv, TwinKnown
<1>9. QED BY <1>6, <1>7, <1>8 DEF TruthInv

\* What the deletion journal says of a payload is true of the disk, through
\* crashes and I/O errors (deleteCandidate, recoverIntents).
THEOREM JournalAlwaysTruthful == Spec => []JournalTruthful
<1>1. TruthInv => JournalTruthful
  BY DEF TruthInv
<1>2. QED BY <1>1, TruthInit, TruthStep, PTL DEF Spec

-----------------------------------------------------------------------------
\* A capture that proceeds fits.  Within a pass payloads only go, so room found
\* when it started is still there when it answers.

Payloads == {r \in Runs : local[r] # "none"}

RoomInv ==
  /\ pc # "idle" /\ pass.room => Sufficient
  /\ ProceedHasRoom

SpaceInv == TypeInv /\ RoomInv

LEMMA CountNat == IsFiniteSet(Payloads) /\ localPayloadRunCount = Cardinality(Payloads) /\ localPayloadRunCount \in Nat
<1>1. IsFiniteSet(Runs) /\ Payloads \subseteq Runs
  BY StorageAssumption DEF StorageAssumption, Payloads
<1>2. IsFiniteSet(Payloads)
  BY <1>1, FS_Subset
<1>3. QED BY <1>2, FS_CardinalityType DEF localPayloadRunCount, Payloads

LEMMA RoomKept ==
  ASSUME TypeInv, UNCHANGED settings, Payloads' \subseteq Payloads
  PROVE  /\ localPayloadRunCount' <= localPayloadRunCount
         /\ localPayloadRunCount' \in Nat
         /\ Sufficient => Sufficient'
<1>1. localPayloadRunCount' = Cardinality(Payloads')
  BY DEF localPayloadRunCount, Payloads
<1>2. IsFiniteSet(Payloads') /\ Cardinality(Payloads') <= Cardinality(Payloads)
  BY CountNat, FS_Subset
<1>3. Cardinality(Payloads') \in Nat
  BY <1>2, FS_CardinalityType
<1>4. localPayloadRunCount' <= localPayloadRunCount /\ localPayloadRunCount' \in Nat /\ localPayloadRunCount \in Nat
  BY <1>1, <1>2, <1>3, CountNat
<1>5. disk' = disk /\ disk \in Nat /\ Required \in Nat
  BY StorageAssumption DEF StorageAssumption, TypeInv, TypeOK, settings
<1>6. Sufficient <=> Required + Cardinality(Payloads) <= disk
  BY CountNat DEF Sufficient
<1>7. Sufficient' <=> Required + Cardinality(Payloads') <= disk'
  BY <1>1 DEF Sufficient
<1>8. Sufficient => Sufficient'
  BY <1>2, <1>3, <1>5, <1>6, <1>7, CountNat
<1>9. QED BY <1>4, <1>8

\* No step but a capture adds a payload.
LEMMA PayloadsShrink ==
  ASSUME TypeInv, [Next]_vars, \A r \in Runs : ~Capture(r)
  PROVE  Payloads' \subseteq Payloads /\ UNCHANGED settings
<1>1. CASE UNCHANGED vars
  BY <1>1 DEF vars, files, bounds, Payloads
<1>2. CASE PassStep
  <2>1. CASE unlinkStoragePayload
    <3>1. UNCHANGED settings /\ (local' = local \/ local' = [local EXCEPT ![job.run] = "none"])
      BY <2>1 DEF unlinkStoragePayload
    <3>2. QED BY <3>1 DEF Payloads, TypeInv, TypeOK
  <2>2. CASE ~unlinkStoragePayload
    <3>1. UNCHANGED <<local, settings>>
      BY <1>2, <2>2 DEF PassStep, Scan, VerifyRemote, ListingFails, recoverIntents, DeleteNext, HoldNext,
         ReleaseSecond, NoIntentLeft, LoopEnds, NothingToRelease, Finish, CheckLocal, WriteIntent,
         RecordOutcome, StorageFault, files, bounds
    <3>2. QED BY <3>1 DEF Payloads
  <2>3. QED BY <2>1, <2>2
<1>3. CASE (\E m \in Modes : Begin(m)) \/ Crash \/ \E r \in Runs : Protect(r) \/ RemoteChanges(r)
  BY <1>3 DEF Begin, Crash, Protect, Pin, RestoreTest, RemoteChanges, files, Payloads
<1>4. ASSUME NEW r \in Runs, Replace(r) PROVE Payloads' \subseteq Payloads /\ UNCHANGED settings
  <2>1. /\ local[r] # "none" /\ UNCHANGED settings
        /\ \E left \in {"damaged", "temp"} : local' = [local EXCEPT ![r] = left]
    BY <1>4 DEF Replace, TypeInv, TypeOK
  <2>2. QED BY <2>1 DEF Payloads, TypeInv, TypeOK
<1>5. QED BY <1>1, <1>2, <1>3, <1>4 DEF Next

LEMMA CaptureFits == ASSUME SpaceInv, NEW r \in Runs, Capture(r) PROVE RoomInv'
<1>1. PICK c \in Captures : local' = [local EXCEPT ![r] = c.local]
  BY DEF Capture
<1>2. pc' = "idle" /\ outcome' = "none" /\ UNCHANGED settings /\ Sufficient
  BY DEF Capture, bounds, SpaceInv, RoomInv, ProceedHasRoom
<1>3. Payloads' \subseteq Payloads \cup {r}
  BY <1>1 DEF Payloads, SpaceInv, TypeInv, TypeOK
<1>4. IsFiniteSet(Payloads \cup {r}) /\ Cardinality(Payloads \cup {r}) <= Cardinality(Payloads) + 1
  <2>1. IsFiniteSet(Payloads)
    BY CountNat
  <2>2. /\ IsFiniteSet(Payloads \cup {r})
        /\ \/ Cardinality(Payloads \cup {r}) = Cardinality(Payloads)
           \/ Cardinality(Payloads \cup {r}) = Cardinality(Payloads) + 1
    BY <2>1, FS_AddElement
  <2>3. Cardinality(Payloads) \in Nat
    BY <2>1, FS_CardinalityType
  <2>4. QED BY <2>2, <2>3
<1>5. Cardinality(Payloads') <= Cardinality(Payloads \cup {r}) /\ IsFiniteSet(Payloads')
  BY <1>3, <1>4, FS_Subset
<1>6. localPayloadRunCount' = Cardinality(Payloads')
  BY DEF localPayloadRunCount, Payloads
<1>7. /\ Cardinality(Payloads') \in Nat /\ Cardinality(Payloads \cup {r}) \in Nat
      /\ Cardinality(Payloads) \in Nat /\ localPayloadRunCount = Cardinality(Payloads)
  BY <1>4, <1>5, CountNat, FS_CardinalityType
<1>8. disk' = disk /\ disk \in Nat /\ Required \in Nat \ {0}
  BY <1>2, StorageAssumption DEF StorageAssumption, SpaceInv, TypeInv, TypeOK, settings
<1>9. localPayloadRunCount' <= disk'
  BY <1>2, <1>4, <1>5, <1>6, <1>7, <1>8 DEF Sufficient
<1>10. QED BY <1>2, <1>9 DEF RoomInv, ProceedHasRoom

\* Returning with "proceed" is left to blocked, which looks at pass.room, and Finish.
LEMMA AnswerFits ==
  ASSUME SpaceInv, PassStep
  PROVE  /\ pass'.room = pass.room
         /\ outcome' = "proceed" => outcome = "proceed" \/ pass.room \/ Sufficient
         /\ pc # "idle"
<1>1. ASSUME NEW a, Return(a) PROVE pass'.room = pass.room /\ outcome' = a
  BY <1>1 DEF Return, memory
<1>2. ASSUME blocked PROVE pass'.room = pass.room /\ (outcome' = "proceed" => pass.room)
  BY <1>2, <1>1 DEF blocked, SecondaryOrRefuse
<1>3. CASE Scan \/ VerifyRemote \/ ListingFails
  <2>1. CASE blocked
    BY <1>2, <1>3, <2>1 DEF Scan, VerifyRemote, ListingFails
  <2>2. CASE Scan /\ ~blocked
    <3>1. PICK good : pass' = [pass EXCEPT !.good = good, !.keptLocal = good, !.seen = ident]
      BY <2>2 DEF Scan
    <3>2. pc = "scan" /\ outcome' = outcome
      BY <2>2 DEF Scan
    <3>3. pass'.room = pass.room
      BY <3>1 DEF SpaceInv, TypeInv, TypeOK, Passes
    <3>4. QED BY <3>2, <3>3
  <2>3. CASE VerifyRemote /\ ~blocked
    <3>1. \E kept, type : pass' = [pass EXCEPT !.keptRemote = kept, !.proofs = kept, !.type = type]
      BY <2>3 DEF VerifyRemote
    <3>2. pc = "verify" /\ outcome' \in {"none", outcome}
      BY <2>3 DEF VerifyRemote
    <3>3. pass'.room = pass.room
      BY <3>1 DEF SpaceInv, TypeInv, TypeOK, Passes
    <3>4. QED BY <3>2, <3>3
  <2>4. QED BY <1>3, <2>1, <2>2, <2>3 DEF ListingFails
<1>4. ASSUME NEW r \in Runs, recoverIntents(r) \/ DeleteNext(r) \/ HoldNext(r) \/ ReleaseSecond(r)
      PROVE  pass'.room = pass.room /\ outcome' \in {"refused", outcome} /\ pc # "idle"
  <2>1. CASE recoverIntents(r)
    BY <2>1 DEF recoverIntents, Recovered, StartDeletion, Return, memory, SpaceInv, TypeInv, TypeOK, Passes
  <2>2. CASE DeleteNext(r)
    BY <2>2 DEF DeleteNext, NextCandidate, StartDeletion, SpaceInv, TypeInv, TypeOK, Passes
  <2>3. CASE HoldNext(r)
    BY <2>3 DEF HoldNext, NextCandidate
  <2>4. CASE ReleaseSecond(r)
    BY <2>4 DEF ReleaseSecond, SpaceInv, TypeInv, TypeOK, Passes
  <2>5. QED BY <1>4, <2>1, <2>2, <2>3, <2>4
<1>5. CASE NoIntentLeft \/ LoopEnds \/ NothingToRelease
  BY <1>5 DEF NoIntentLeft, LoopEnds, NothingToRelease, memory
<1>6. CASE StorageFault
  BY <1>1, <1>6 DEF StorageFault
<1>7. CASE Finish
  BY <1>1, <1>7 DEF Finish, SecondaryOrRefuse
<1>8. CASE CheckLocal \/ WriteIntent \/ RecordOutcome
  BY <1>1, <1>8 DEF CheckLocal, WriteIntent, RecordOutcome, memory
<1>9. CASE unlinkStoragePayload
  BY <1>9 DEF unlinkStoragePayload
<1>10. QED BY <1>3, <1>4, <1>5, <1>6, <1>7, <1>8, <1>9 DEF PassStep

LEMMA SpaceStep == SpaceInv /\ [Next]_vars => SpaceInv'
<1>1. SUFFICES ASSUME SpaceInv, [Next]_vars, \A r \in Runs : ~Capture(r) PROVE RoomInv'
  BY TypeStep, CaptureFits DEF SpaceInv
<1>2. /\ Sufficient => Sufficient'
      /\ localPayloadRunCount' <= disk'
  <2>1. Payloads' \subseteq Payloads /\ UNCHANGED settings
    BY <1>1, PayloadsShrink DEF SpaceInv
  <2>2. localPayloadRunCount' <= localPayloadRunCount /\ localPayloadRunCount' \in Nat /\ (Sufficient => Sufficient')
    BY <1>1, <2>1, RoomKept DEF SpaceInv
  <2>3. localPayloadRunCount <= disk /\ disk' = disk /\ disk \in Nat /\ localPayloadRunCount \in Nat
    BY <1>1, <2>1, CountNat, StorageAssumption
    DEF StorageAssumption, SpaceInv, TypeInv, TypeOK, RoomInv, ProceedHasRoom, settings
  <2>4. QED BY <2>2, <2>3
<1>3. CASE PassStep
  <2>1. /\ pass'.room = pass.room /\ pc # "idle"
        /\ outcome' = "proceed" => outcome = "proceed" \/ pass.room \/ Sufficient
    BY <1>1, <1>3, AnswerFits
  <2>2. pass.room \/ outcome = "proceed" => Sufficient
    BY <1>1, <2>1 DEF SpaceInv, RoomInv, ProceedHasRoom
  <2>3. QED BY <1>2, <2>1, <2>2 DEF RoomInv, ProceedHasRoom
<1>4. ASSUME NEW m \in Modes, Begin(m) PROVE RoomInv'
  <2>1. pass' = NewPass(m, Sufficient, OverLimit(m)) /\ (outcome' = "proceed" => Sufficient)
    BY <1>4 DEF Begin
  <2>2. pass'.room => Sufficient
    BY <2>1 DEF NewPass
  <2>3. QED BY <1>2, <2>1, <2>2 DEF RoomInv, ProceedHasRoom
<1>5. CASE Crash \/ UNCHANGED vars \/ \E r \in Runs : Protect(r) \/ Replace(r) \/ RemoteChanges(r)
  <2>1. outcome' \in {"none", outcome} /\ (pc' = "idle" \/ UNCHANGED <<pc, pass>>)
    BY <1>5 DEF Crash, vars, Protect, Pin, RestoreTest, Replace, RemoteChanges, memory
  <2>2. outcome = "proceed" \/ (pc # "idle" /\ pass.room) => Sufficient
    BY <1>1 DEF SpaceInv, RoomInv, ProceedHasRoom
  <2>3. QED BY <1>2, <2>1, <2>2 DEF RoomInv, ProceedHasRoom
<1>6. QED BY <1>1, <1>3, <1>4, <1>5 DEF Next

\* A capture is let through only when it fits, so the disk never overflows (ensure).
THEOREM CaptureAlwaysFits == Spec => []ProceedHasRoom
<1>1. Init => SpaceInv
  <2>1. SUFFICES ASSUME Init PROVE SpaceInv
    OBVIOUS
  <2>2. (\A r \in Runs : pass.type[r] = "none") /\ pc = "idle" /\ outcome = "none"
    BY <2>1 DEF Init, NewPass
  <2>3. PICK h \in Histories : local = [r \in Runs |-> h[r].local]
    BY <2>1 DEF Init
  <2>4. disk \in Disks
    BY <2>1 DEF Init
  <2>5. Cardinality({r \in Runs : h[r].local # "none"}) <= disk
    BY <2>3, <2>4, StorageAssumption DEF StorageAssumption
  <2>6. {r \in Runs : local[r] # "none"} = {r \in Runs : h[r].local # "none"}
    BY <2>3
  <2>7. localPayloadRunCount <= disk
    BY <2>5, <2>6 DEF localPayloadRunCount
  <2>8. TypeInv
    BY <2>1, <2>2, TypeInit DEF TypeInv, TwinKnown
  <2>9. QED BY <2>2, <2>7, <2>8 DEF SpaceInv, RoomInv, ProceedHasRoom
<1>2. SpaceInv => ProceedHasRoom
  BY DEF SpaceInv, RoomInv
<1>3. QED BY <1>1, <1>2, SpaceStep, PTL DEF Spec

-----------------------------------------------------------------------------
\* Every payload that a pass removes was redundant.  The invariant is the
\* evidence a pass carries from its checks to the removal.

\* A set of numbers has a least one, and a finite one a greatest.
LEMMA LeastNumber == ASSUME NEW T, T \subseteq Nat, T # {} PROVE \E n \in T : \A m \in T : n <= m
<1>1. PICK n \in T : \A m \in T : ~(<<m, n>> \in OpToRel(<, Nat))
  BY NatLessThanWellFounded, WFMin
<1>2. \A m \in T : ~(m < n)
  BY <1>1 DEF OpToRel
<1>3. QED BY <1>2

LEMMA Greatest ==
  ASSUME NEW S, IsFiniteSet(S), S \subseteq Nat, S # {}
  PROVE  \E m \in S : \A q \in S : q <= m
<1> DEFINE above(m) == {q \in S : q > m}
           counts == {Cardinality(above(m)) : m \in S}
<1>1. \A m \in S : IsFiniteSet(above(m)) /\ Cardinality(above(m)) \in Nat
  BY FS_Subset, FS_CardinalityType
<1>2. counts \subseteq Nat /\ counts # {}
  BY <1>1
<1>3. PICK n \in counts : \A k \in counts : n <= k
  <2> HIDE DEF counts
  <2>1. QED BY <1>2, LeastNumber
<1>4. PICK m \in S : Cardinality(above(m)) = n
  OBVIOUS
<1>5. ASSUME NEW q \in S, q > m PROVE FALSE
  <2>0. \A p \in S : p \in Nat
    OBVIOUS
  <2>1. above(q) \subseteq above(m) /\ q \in above(m) /\ q \notin above(q)
    <3>1. ASSUME NEW p \in S, p > q PROVE p > m
      BY <1>5, <2>0, <3>1
    <3>2. ~(q > q)
      BY <2>0
    <3>3. QED BY <1>5, <3>1, <3>2
  <2>2. Cardinality(above(m)) <= Cardinality(above(q))
    BY <1>3, <1>4
  <2>3. Cardinality(above(q)) <= Cardinality(above(m)) /\ (Cardinality(above(m)) = Cardinality(above(q)) => above(m) = above(q))
    <3> HIDE DEF above
    <3>1. QED BY <1>1, <2>1, FS_Subset
  <2>4. above(m) = above(q)
    <3> HIDE DEF above
    <3>1. Cardinality(above(m)) \in Nat /\ Cardinality(above(q)) \in Nat
      BY <1>1
    <3>2. Cardinality(above(m)) = Cardinality(above(q))
      BY <3>1, <2>2, <2>3
    <3>3. QED BY <3>2, <2>3
  <2>5. QED BY <2>1, <2>4
<1>6. QED BY <1>5

-----------------------------------------------------------------------------
\* The steps of a pass after the local scan, and those after the candidates are drawn up.
Chosen == {"recover", "loop", "check", "intent", "unlink", "record", "emergency", "final"}
Active == Chosen \cup {"verify"}

\* The newest protected point: nothing whole is newer.
Lead(g) ==
  /\ g \in pass.keptLocal
  /\ \A q \in pass.good : q <= g
  /\ \A r \in Runs : WholeLocal(r) => r <= g

\* A protected point is whole while its file is the one inspected, and one leads.
LocalInv ==
  /\ \A r \in Runs : /\ local[r] # "none" => r \in folders
                     /\ pass.seen[r] <= ident[r]
  /\ pc \in Active =>
       /\ pass.keptLocal \subseteq pass.good
       /\ \A p \in pass.good : local[p] # "temp"
       /\ \A p \in pass.keptLocal : ident[p] = pass.seen[p] => WholeLocal(p)
       /\ \E g \in Runs : Lead(g)

\* What was found in S3, and the candidates it allows.
ChoiceInv ==
  pc \in Chosen =>
    /\ pass.mode # "plan"
    /\ Cardinality(pass.keptRemote) >= 2
    /\ \A p \in pass.keptRemote : remote[p] # "logical"
    /\ \A r \in Runs :
         /\ pass.type[r] = "temp" => local[r] \in {"temp", "none"} /\ \E q \in pass.good : r < q
         /\ pass.type[r] # "none" /\ local[r] = "temp" => pass.type[r] = "temp"

Unchanged == \A p \in pass.keptLocal : ident[p] = pass.seen[p]

\* Newer points in S3 and a full window of newer local ones supersede run r.
Superseded(r) ==
  /\ maxLocal > 0
  /\ Cardinality({p \in pass.keptRemote \cap pass.proofs : p > r}) >= 2
  /\ Cardinality({p \in pass.keptLocal : p > r}) >= Limit(pass.mode)

\* What the checks of a deletion established and is still so, unless `late` says otherwise.
JobInv ==
  /\ pc \in {"check", "intent", "unlink"} => pass.type[job.run] # "none"
  /\ pc \in {"intent", "unlink"} =>
       /\ job.run \notin pass.keptLocal
       /\ "local" \notin late => guard[job.run] # "tested" /\ Unchanged
  /\ pc = "unlink" =>
       /\ "remote" \notin late =>
            /\ \A p \in pass.keptRemote : Readable(p)
            /\ NeedsCounterpart(job.run) => Readable(Counterpart(job.run))
       /\ pass.type[job.run] = "expired" => Superseded(job.run)

Evidence == TruthInv /\ LocalInv /\ ChoiceInv /\ JobInv
NewEvidence == LocalInv' /\ ChoiceInv' /\ JobInv'

LEMMA FileTypes ==
  ASSUME Evidence
  PROVE  /\ pass \in Passes /\ job \in Jobs /\ late \subseteq {"local", "remote"}
         /\ kind \in [Runs -> Kinds] /\ local \in [Runs -> Locals] /\ remote \in [Runs -> Remotes]
         /\ guard \in [Runs -> Guards] /\ ident \in [Runs -> Nat]
         /\ pc \in Steps /\ Runs \subseteq Nat
         /\ pc \in {"check", "intent", "unlink", "record"} => job.run \in Runs
BY StorageAssumption DEF StorageAssumption, Evidence, TruthInv, TypeInv, TypeOK

\* A step that ends the pass needs nothing of it any more.
LEMMA EvidenceEnds ==
  ASSUME Evidence, pc' \notin Active, UNCHANGED <<local, ident>>,
         \A r \in Runs : pass'.seen[r] <= ident[r],
         \A r \in Runs : local[r] # "none" => r \in folders'
  PROVE  NewEvidence
BY DEF Evidence, NewEvidence, LocalInv, ChoiceInv, JobInv, Active, Chosen

LEMMA EvidenceReturns ==
  ASSUME Evidence, NEW a \in Outcomes, Return(a), UNCHANGED <<local, ident>>,
         \A r \in Runs : local[r] # "none" => r \in folders'
  PROVE  NewEvidence
<1>1. pc' = "idle" /\ pass' = pass
  BY DEF Return, Goto, memory
<1>2. QED BY <1>1, EvidenceEnds DEF Evidence, LocalInv, Active, Chosen

\* A step that only moves on, away from any deletion.
LEMMA EvidenceMoves ==
  ASSUME Evidence, UNCHANGED <<kind, local, remote, ident, pass>>, pc \in Chosen,
         pc' \in {"recover", "loop", "record", "emergency", "final"},
         \A r \in Runs : local[r] # "none" => r \in folders'
  PROVE  NewEvidence
BY DEF Evidence, NewEvidence, LocalInv, ChoiceInv, JobInv, Active, Chosen, Lead, WholeLocal,
       logicalStorageRecord

\* A deletion starts: only the proofs of the pass grow.
LEMMA EvidenceStarts ==
  ASSUME Evidence, NEW r \in Runs, NEW phase, StartDeletion(r, phase), UNCHANGED files,
         authorizeCandidate(r), pc \in Chosen
  PROVE  NewEvidence
<1>1. /\ pc' = "check" /\ job'.run = r
      /\ pass' = [pass EXCEPT !.proofs = IF NeedsCounterpart(r) THEN @ \cup {Counterpart(r)} ELSE @]
  BY DEF StartDeletion, Goto
<1>2. /\ pass'.mode = pass.mode /\ pass'.good = pass.good /\ pass'.keptLocal = pass.keptLocal
      /\ pass'.keptRemote = pass.keptRemote /\ pass'.type = pass.type /\ pass'.seen = pass.seen
  BY <1>1, FileTypes DEF Passes
<1>3. pass.type[r] # "none"
  <2>1. pass.type[r] \in Types
    BY FileTypes DEF Passes
  <2>2. QED BY <2>1 DEF authorizeCandidate, NeedsCounterpart
<1>4. UNCHANGED <<kind, local, remote, guard, ident, folders>>
  BY DEF files
<1>5. LocalInv'
  BY <1>1, <1>2, <1>4 DEF Evidence, LocalInv, Active, Chosen, Lead, WholeLocal, logicalStorageRecord
<1>6. ChoiceInv'
  BY <1>1, <1>2, <1>4 DEF Evidence, ChoiceInv, Chosen
<1>7. JobInv'
  BY <1>1, <1>2, <1>3 DEF JobInv
<1>8. QED BY <1>5, <1>6, <1>7 DEF NewEvidence

-----------------------------------------------------------------------------
\* The steps of a pass.

\* The newest of the valid points is in the window, so it is protected.
LEMMA EvidenceScan == ASSUME Evidence, Scan PROVE NewEvidence
<1> DEFINE valid == {r \in folders : logicalStorageRecord(r) /\ local[r] = "intact"}
           good == Newest(valid, Window(pass.mode)) \cup {r \in valid : guard[r] # "none"}
<1>1. UNCHANGED <<kind, local, remote, guard, ident, folders, maxLocal>>
  BY DEF Scan, files, bounds, settings
<1>2. CASE good = {}
  <2>1. blocked
    BY <1>2 DEF Scan
  <2>2. QED BY <1>1, <2>1, BlockedReturns, EvidenceReturns DEF Evidence, LocalInv
<1>3. CASE good # {}
  <2>1. pc' = "verify" /\ pass' = [pass EXCEPT !.good = good, !.keptLocal = good, !.seen = ident]
    BY <1>3 DEF Scan, Goto
  <2>2. good \subseteq valid /\ valid \subseteq Runs /\ valid \subseteq folders
    BY DEF Newest, Evidence, TruthInv, TypeInv, TypeOK
  <2>3. IsFiniteSet(valid) /\ valid \subseteq Nat /\ valid # {}
    BY <1>3, <2>2, FS_Subset, StorageAssumption DEF StorageAssumption
  <2>4. PICK g \in valid : \A q \in valid : q <= g
    <3> HIDE DEF valid
    <3>1. QED BY <2>3, Greatest
  <2>5. g \in good
    <3>1. {q \in valid : q > g} = {}
      BY <2>3, <2>4
    <3>2. 0 < Window(pass.mode)
      BY StorageAssumption DEF Window, StorageAssumption, Limit, Evidence, TruthInv, TypeInv, TypeOK
    <3>3. QED BY <3>1, <3>2, FS_EmptySet DEF Newest
  <2>6. \A r \in Runs : WholeLocal(r) => r \in valid
    BY DEF WholeLocal, Evidence, LocalInv
  <2>7. \A r \in valid : WholeLocal(r) /\ local[r] # "temp"
    BY DEF WholeLocal
  <2> HIDE DEF good, valid
  <2>8. pass'.good = good /\ pass'.keptLocal = good /\ pass'.seen = ident
    BY <2>1, FileTypes DEF Passes
  <2>9. Lead(g)'
    BY <1>1, <2>2, <2>4, <2>5, <2>6, <2>8 DEF Lead, WholeLocal, logicalStorageRecord
  <2>10. LocalInv'
    <3>1. \A r \in Runs : pass'.seen[r] <= ident'[r]
      BY <1>1, <2>8, FileTypes
    <3>2. \A r \in Runs : local'[r] # "none" => r \in folders'
      BY <1>1 DEF Evidence, LocalInv
    <3>3. \A p \in good : WholeLocal(p)' /\ local'[p] # "temp"
      BY <1>1, <2>2, <2>7 DEF WholeLocal, logicalStorageRecord
    <3>4. g \in Runs
      BY <2>2
    <3>5. QED BY <2>8, <2>9, <3>1, <3>2, <3>3, <3>4 DEF LocalInv
  <2>11. ChoiceInv' /\ JobInv'
    BY <2>1 DEF ChoiceInv, JobInv, Chosen
  <2>12. QED BY <2>10, <2>11 DEF NewEvidence
<1>4. QED BY <1>2, <1>3

\* A temporary dump is a candidate only under a newer protected point.
LEMMA CandidateTemp ==
  ASSUME NEW r, NEW young, NEW kept
  PROVE  /\ CandidateType(r, young, kept) = "temp" => local[r] = "temp" /\ \E q \in pass.good : r < q
         /\ CandidateType(r, young, kept) # "none" /\ local[r] = "temp" => CandidateType(r, young, kept) = "temp"
BY DEF CandidateType, Newest

LEMMA EvidenceVerify == ASSUME Evidence, VerifyRemote PROVE NewEvidence
<1>1. UNCHANGED <<kind, local, remote, guard, ident, folders>> /\ pc = "verify"
  BY DEF VerifyRemote, files
<1>2. CASE blocked
  BY <1>1, <1>2, BlockedReturns, EvidenceReturns DEF Evidence, LocalInv
<1>3. CASE ~blocked
  <2> DEFINE found(missed) == Newest({r \in Runs \ missed : remote[r] = "complete"}, 2)
             types(young, kept) == [r \in Runs |-> CandidateType(r, young, kept)]
  <2>0. PICK missed \in {{}} \cup {{r} : r \in Runs}, young \in SUBSET {r \in Runs : local[r] = "temp"} :
          IF Cardinality(found(missed)) < 2 THEN blocked
          ELSE /\ pass' = [pass EXCEPT !.keptRemote = found(missed), !.proofs = found(missed),
                                       !.type = types(young, found(missed))]
               /\ IF pass.mode = "plan" THEN Goto("idle") /\ outcome' = "none"
                  ELSE Goto("recover") /\ UNCHANGED outcome
    BY DEF VerifyRemote
  <2> DEFINE kept == found(missed)
  <2>1. /\ pass' = [pass EXCEPT !.keptRemote = kept, !.proofs = kept, !.type = types(young, kept)]
        /\ IF pass.mode = "plan" THEN pc' = "idle" ELSE pc' = "recover"
        /\ ~(Cardinality(kept) < 2)
    BY <1>3, <2>0 DEF Goto
  <2>2. kept \subseteq Runs /\ \A p \in kept : remote[p] = "complete"
    BY DEF Newest
  <2> HIDE DEF found, kept
  <2>3. /\ pass'.type = [r \in Runs |-> CandidateType(r, young, kept)] /\ pass'.keptRemote = kept
        /\ pass'.good = pass.good /\ pass'.keptLocal = pass.keptLocal /\ pass'.seen = pass.seen
        /\ pass'.mode = pass.mode
    BY <2>1, FileTypes DEF Passes
  <2>4. Cardinality(kept) >= 2
    <3>1. Cardinality(kept) \in Nat
      BY <2>2, FS_Subset, FS_CardinalityType, StorageAssumption DEF StorageAssumption
    <3>2. QED BY <3>1, <2>1
  <2>5. LocalInv'
    BY <1>1, <2>1, <2>3 DEF Evidence, LocalInv, Active, Chosen, Lead, WholeLocal, logicalStorageRecord
  <2>6. ChoiceInv'
    <3>1. SUFFICES ASSUME pc' = "recover" PROVE ChoiceInv'
      BY <2>1 DEF ChoiceInv, Chosen
    <3>2. pass'.mode # "plan"
      BY <2>1, <2>3, <3>1
    <3>3. \A p \in pass'.keptRemote : remote'[p] # "logical"
      BY <1>1, <2>2, <2>3
    <3>4. ASSUME NEW r \in Runs
          PROVE  /\ pass'.type[r] = "temp" => local'[r] \in {"temp", "none"} /\ \E q \in pass'.good : r < q
                 /\ pass'.type[r] # "none" /\ local'[r] = "temp" => pass'.type[r] = "temp"
      <4>1. pass'.type[r] = CandidateType(r, young, kept)
        BY <2>3
      <4>2. QED BY <1>1, <2>3, <4>1, CandidateTemp
    <3>5. QED BY <2>3, <2>4, <3>2, <3>3, <3>4 DEF ChoiceInv
  <2>7. JobInv'
    BY <2>1 DEF JobInv
  <2>8. QED BY <2>5, <2>6, <2>7 DEF NewEvidence
<1>4. QED BY <1>2, <1>3

LEMMA EvidenceRecovers == ASSUME Evidence, NEW r \in Runs, recoverIntents(r) PROVE NewEvidence
<1>1. UNCHANGED files /\ pc = "recover" /\ \A q \in Runs : local[q] # "none" => q \in folders'
  BY DEF recoverIntents, files, Evidence, LocalInv
<1>2. ASSUME NEW result, Recovered(r, result) PROVE NewEvidence
  BY <1>1, <1>2, EvidenceMoves DEF Recovered, memory, files, Chosen
<1>3. CASE authorizeCandidate(r) /\ StartDeletion(r, "recover")
  BY <1>1, <1>3, EvidenceStarts DEF Chosen
<1>4. CASE Return("refused")
  BY <1>1, <1>4, EvidenceReturns DEF files, Outcomes
<1>5. QED BY <1>2, <1>3, <1>4 DEF recoverIntents

\* The second newest point is released, never the one that leads.
LEMMA EvidenceReleases == ASSUME Evidence, NEW r \in Runs, ReleaseSecond(r) PROVE NewEvidence
<1>1. /\ pc = "emergency" /\ pc' = "check" /\ job' = [run |-> r, phase |-> "final", result |-> "none"]
      /\ pass' = [pass EXCEPT !.proofs = @ \cup {r}, !.keptLocal = @ \ {r}, !.type[r] = "complete"]
      /\ UNCHANGED <<kind, local, remote, guard, ident, folders>>
      /\ r \in Second
  BY DEF ReleaseSecond, Goto, files, MayRelease
<1>2. /\ pass'.keptLocal = pass.keptLocal \ {r} /\ pass'.type = [pass.type EXCEPT ![r] = "complete"]
      /\ pass'.good = pass.good /\ pass'.keptRemote = pass.keptRemote /\ pass'.seen = pass.seen
      /\ pass'.mode = pass.mode
  BY <1>1, FileTypes DEF Passes
<1>3. r \in pass.good /\ local[r] # "temp"
  BY <1>1 DEF Second, Newest, Evidence, LocalInv, Active, Chosen
<1>4. PICK g \in Runs : Lead(g)
  BY <1>1 DEF Evidence, LocalInv, Active, Chosen
<1>5. g # r
  <2>1. SUFFICES ASSUME g = r PROVE FALSE
    OBVIOUS
  <2>2. {q \in pass.good : q > r} = {}
    BY <1>4, <2>1, FileTypes DEF Lead, Passes
  <2>3. r \in Newest(pass.good, 1)
    BY <1>3, <2>2, FS_EmptySet DEF Newest
  <2>4. QED BY <1>1, <2>3 DEF Second
<1>6. Lead(g)'
  BY <1>1, <1>2, <1>4, <1>5 DEF Lead, WholeLocal, logicalStorageRecord
<1>7. LocalInv'
  BY <1>1, <1>2, <1>4, <1>6 DEF Evidence, LocalInv, Active, Chosen, WholeLocal, logicalStorageRecord
<1>8. ChoiceInv'
  <2>1. \A q \in Runs : pass'.type[q] = IF q = r THEN "complete" ELSE pass.type[q]
    BY <1>2, FileTypes DEF Passes
  <2>2. QED BY <1>1, <1>2, <1>3, <2>1 DEF Evidence, ChoiceInv, Chosen
<1>9. JobInv'
  <2>1. job'.run = r /\ pass'.type[r] = "complete"
    BY <1>1, <1>2, FileTypes DEF Passes
  <2>2. QED BY <1>1, <2>1 DEF JobInv
<1>10. QED BY <1>7, <1>8, <1>9 DEF NewEvidence

LEMMA EvidenceCandidate == ASSUME Evidence, NEW r \in Runs, DeleteNext(r) \/ HoldNext(r) PROVE NewEvidence
<1>1. UNCHANGED files /\ pc = "loop" /\ \A q \in Runs : local[q] # "none" => q \in folders'
  BY DEF DeleteNext, HoldNext, NextCandidate, files, Evidence, LocalInv
<1>2. CASE DeleteNext(r)
  BY <1>1, <1>2, EvidenceStarts DEF DeleteNext, Chosen
<1>3. CASE HoldNext(r)
  BY <1>1, <1>3, EvidenceMoves DEF HoldNext, files, Chosen
<1>4. QED BY <1>2, <1>3

LEMMA EvidenceRest ==
  ASSUME Evidence, ListingFails \/ NoIntentLeft \/ LoopEnds \/ StorageFault \/ NothingToRelease \/ Finish
  PROVE  NewEvidence
<1>1. UNCHANGED files /\ \A q \in Runs : local[q] # "none" => q \in folders'
  BY DEF ListingFails, NoIntentLeft, LoopEnds, StorageFault, NothingToRelease, Finish, files,
         Evidence, LocalInv
<1>2. CASE ListingFails \/ StorageFault \/ Finish
  <2>1. \E a \in Outcomes : Return(a)
    BY <1>2, BlockedReturns DEF ListingFails, StorageFault, Finish, SecondaryOrRefuse, Outcomes
  <2>2. QED BY <1>1, <2>1, EvidenceReturns DEF files
<1>3. CASE NoIntentLeft \/ LoopEnds \/ NothingToRelease
  BY <1>1, <1>3, EvidenceMoves
  DEF NoIntentLeft, LoopEnds, NothingToRelease, Goto, files, memory, Chosen
<1>4. QED BY <1>2, <1>3

-----------------------------------------------------------------------------
\* The steps of one deletion.

LEMMA EvidenceCheck == ASSUME Evidence, CheckLocal PROVE NewEvidence
<1>1. UNCHANGED <<kind, local, remote, guard, ident, folders>> /\ pc = "check"
  BY DEF CheckLocal, files
<1>2. CASE Return("refused")
  BY <1>1, <1>2, EvidenceReturns DEF Outcomes, Evidence, LocalInv
<1>3. CASE ~Return("refused")
  <2>1. /\ pc' = "intent" /\ pass' = pass /\ job' = job
        /\ checkProtected /\ job.run \notin pass.keptLocal /\ guard[job.run] # "tested"
    BY <1>3 DEF CheckLocal, Goto, memory
  <2>2. LocalInv'
    BY <1>1, <2>1 DEF Evidence, LocalInv, Active, Chosen, Lead, WholeLocal, logicalStorageRecord
  <2>3. ChoiceInv'
    BY <1>1, <2>1 DEF Evidence, ChoiceInv, Chosen
  <2>4. JobInv'
    BY <1>1, <2>1 DEF Evidence, JobInv, Unchanged, checkProtected
  <2>5. QED BY <2>2, <2>3, <2>4 DEF NewEvidence
<1>4. QED BY <1>2, <1>3

\* An expired payload that count retention authorizes is superseded.
LEMMA ExpirySupersedes == ASSUME Evidence, NEW r \in Runs, authorizeCountExpiry(r) PROVE Superseded(r)
BY StorageAssumption DEF authorizeCountExpiry, Superseded, StorageAssumption, Evidence, TruthInv, TypeInv, TypeOK

LEMMA EvidenceIntent == ASSUME Evidence, WriteIntent PROVE NewEvidence
<1>1. UNCHANGED <<kind, local, remote, guard, ident, folders, maxLocal>> /\ pc = "intent"
  BY DEF WriteIntent, files, bounds, settings
<1>2. CASE Return("refused")
  BY <1>1, <1>2, EvidenceReturns DEF Outcomes, Evidence, LocalInv
<1>3. CASE ~Return("refused")
  <2>1. /\ pc' = "unlink" /\ pass' = pass /\ job' = job /\ late' = late \ {"remote"}
        /\ RemoteUnchanged
    BY <1>3 DEF WriteIntent, Goto, memory
  <2>2. LocalInv'
    BY <1>1, <2>1 DEF Evidence, LocalInv, Active, Chosen, Lead, WholeLocal, logicalStorageRecord
  <2>3. ChoiceInv'
    BY <1>1, <2>1 DEF Evidence, ChoiceInv, Chosen
  <2>4. pass.type[job.run] = "expired" => Superseded(job.run)'
    <3>1. Superseded(job.run)' <=> Superseded(job.run)
      BY <1>1, <2>1 DEF Superseded, Limit
    <3>2. job.run \in Runs
      BY <1>1, FileTypes
    <3>3. QED BY <2>1, <3>1, <3>2, ExpirySupersedes DEF RemoteUnchanged
  <2>5. /\ \A p \in pass.keptRemote : Readable(p)'
        /\ NeedsCounterpart(job.run)' => Readable(Counterpart(job.run))'
    BY <1>1, <2>1 DEF RemoteUnchanged, Readable, NeedsCounterpart, Counterpart
  <2>6. JobInv'
    BY <1>1, <2>1, <2>4, <2>5 DEF Evidence, JobInv, Unchanged
  <2>7. QED BY <2>2, <2>3, <2>6 DEF NewEvidence
<1>4. QED BY <1>2, <1>3

LEMMA EvidenceUnlink == ASSUME Evidence, unlinkStoragePayload PROVE NewEvidence
<1>1. /\ pc = "unlink" /\ pc' = "record" /\ UNCHANGED <<kind, remote, guard, ident, folders, pass>>
      /\ local' = local \/ local' = [local EXCEPT ![job.run] = "none"]
  BY DEF unlinkStoragePayload, Goto
<1>2. job.run \in Runs /\ job.run \notin pass.keptLocal
  BY <1>1, FileTypes DEF Evidence, JobInv
<1>3. \A r \in Runs : local'[r] = local[r] \/ (r = job.run /\ local'[r] = "none")
  BY <1>1, FileTypes
<1>4. \A r \in Runs : /\ WholeLocal(r)' => WholeLocal(r)
                      /\ WholeLocal(r) /\ r # job.run => WholeLocal(r)'
  BY <1>1, <1>3 DEF WholeLocal, logicalStorageRecord
<1>5. pass.keptLocal \subseteq Runs /\ pass.good \subseteq Runs
  BY FileTypes DEF Passes
<1>6. LocalInv'
  <2>1. PICK g \in Runs : Lead(g)
    BY <1>1 DEF Evidence, LocalInv, Active, Chosen
  <2>2. Lead(g)'
    BY <1>1, <1>4, <2>1 DEF Lead
  <2>3. \A r \in Runs : (local'[r] # "none" => r \in folders') /\ pass'.seen[r] <= ident'[r]
    BY <1>1, <1>3 DEF Evidence, LocalInv
  <2>4. /\ pass'.keptLocal \subseteq pass'.good /\ \A p \in pass'.good : local'[p] # "temp"
        /\ \A p \in pass'.keptLocal : ident'[p] = pass'.seen[p] => WholeLocal(p)'
    BY <1>1, <1>2, <1>3, <1>4, <1>5 DEF Evidence, LocalInv, Active, Chosen
  <2>5. QED BY <2>1, <2>2, <2>3, <2>4 DEF LocalInv
<1>7. ChoiceInv'
  BY <1>1, <1>3 DEF Evidence, ChoiceInv, Chosen
<1>8. JobInv'
  BY <1>1 DEF JobInv
<1>9. QED BY <1>6, <1>7, <1>8 DEF NewEvidence

LEMMA EvidenceRecord == ASSUME Evidence, RecordOutcome PROVE NewEvidence
<1>1. /\ pc = "record" /\ UNCHANGED <<kind, local, remote, guard, ident, pass>>
      /\ folders' = folders \/ (folders' = folders \ {job.run} /\ local[job.run] = "none")
  BY DEF RecordOutcome, Return, memory, pruneStorageRunMetadata
<1>2. \A q \in Runs : local[q] # "none" => q \in folders'
  BY <1>1 DEF Evidence, LocalInv
<1>3. CASE Return("refused")
  BY <1>1, <1>2, <1>3, EvidenceReturns DEF Outcomes
<1>4. CASE ~Return("refused")
  <2>1. pc' = job.phase /\ job.phase \in {"recover", "loop", "final"}
    BY <1>4 DEF RecordOutcome, Goto, Evidence, TruthInv, TypeInv, TypeOK, Jobs
  <2>2. QED BY <1>1, <1>2, <2>1, EvidenceMoves DEF Chosen
<1>5. QED BY <1>3, <1>4

-----------------------------------------------------------------------------
\* The world around a pass, and the next one.

LEMMA EvidenceBegin == ASSUME Evidence, NEW m \in Modes, Begin(m) PROVE NewEvidence
<1>1. /\ pc' \in {"idle", "scan"} /\ pass' = NewPass(m, Sufficient, OverLimit(m))
      /\ UNCHANGED <<local, ident>> /\ \A q \in folders \ folders' : local[q] = "none"
  BY DEF Begin, Goto, pruneStorageRunMetadata
<1>2. \A r \in Runs : pass'.seen[r] <= ident[r]
  BY <1>1, FileTypes DEF NewPass
<1>3. QED BY <1>1, <1>2, EvidenceEnds DEF Evidence, LocalInv, Active, Chosen

LEMMA EvidenceCrash == ASSUME Evidence, Crash PROVE NewEvidence
<1>1. /\ pc' = "idle" /\ pass' = NewPass("apply", FALSE, FALSE) /\ UNCHANGED <<local, ident, folders>>
  BY DEF Crash, files
<1>2. \A r \in Runs : pass'.seen[r] <= ident[r]
  BY <1>1, FileTypes DEF NewPass
<1>3. QED BY <1>1, <1>2, EvidenceEnds DEF Evidence, LocalInv, Active, Chosen

LEMMA EvidenceCapture == ASSUME Evidence, NEW r \in Runs, Capture(r) PROVE NewEvidence
<1>1. PICK c \in Captures : local' = [local EXCEPT ![r] = c.local]
  BY DEF Capture
<1>2. pc' = "idle" /\ folders' = folders \cup {r} /\ UNCHANGED <<ident, pass>>
  BY DEF Capture, memory
<1>3. \A q \in Runs : local'[q] # "none" => q \in folders'
  BY <1>1, <1>2, FileTypes DEF Evidence, LocalInv
<1>4. QED BY <1>2, <1>3 DEF Evidence, LocalInv, NewEvidence, ChoiceInv, JobInv, Active, Chosen

\* A pin or a restore test, and a rewritten payload, show in `late`.
LEMMA EvidenceLocal == ASSUME Evidence, NEW r \in Runs, Protect(r) \/ Replace(r) PROVE NewEvidence
<1>1. /\ UNCHANGED <<kind, remote, folders, pc, pass, job, maxLocal>> /\ late' = late \cup {"local"}
      /\ local' = local \/ local' = [local EXCEPT ![r] = IF @ = "intact" THEN "damaged" ELSE @]
      /\ (ident' = ident /\ local' = local) \/ ident' = [ident EXCEPT ![r] = @ + 1]
      /\ local[r] # "none"
  BY DEF Protect, Pin, RestoreTest, Replace, memory, settings
<1>2. \A q \in Runs : /\ ident[q] <= ident'[q] /\ ident[q] \in Nat /\ ident'[q] \in Nat
                      /\ q # r => local'[q] = local[q] /\ ident'[q] = ident[q]
                      /\ local'[q] = local[q] \/ (local[q] = "intact" /\ local'[q] = "damaged")
                      /\ local'[q] = local[q] \/ ident'[q] = ident[q] + 1
  BY <1>1, FileTypes
<1>3. pass.seen \in [Runs -> Nat] /\ pass.good \subseteq Runs /\ pass.keptLocal \subseteq Runs
  BY FileTypes DEF Passes
<1>4. \A q \in Runs : WholeLocal(q)' => WholeLocal(q)
  BY <1>1, <1>2 DEF WholeLocal, logicalStorageRecord
<1>5. LocalInv'
  <2>1. ASSUME NEW q \in Runs PROVE (local'[q] # "none" => q \in folders') /\ pass'.seen[q] <= ident'[q]
    <3>1. pass.seen[q] <= ident[q] /\ (local[q] # "none" => q \in folders)
      BY DEF Evidence, LocalInv
    <3>2. QED BY <1>1, <1>2, <1>3, <3>1
  <2>2. ASSUME NEW p \in pass.keptLocal, pc \in Active, ident'[p] = pass.seen[p] PROVE WholeLocal(p)'
    <3>1. pass.seen[p] <= ident[p] /\ (ident[p] = pass.seen[p] => WholeLocal(p))
      BY <1>3, <2>2 DEF Evidence, LocalInv
    <3>2. ident[p] = pass.seen[p] /\ local'[p] = local[p]
      BY <1>2, <1>3, <2>2, <3>1
    <3>3. QED BY <1>1, <3>1, <3>2 DEF WholeLocal, logicalStorageRecord
  <2>3. ASSUME pc \in Active PROVE \E g \in Runs : Lead(g)'
    BY <1>1, <1>4, <2>3 DEF Evidence, LocalInv, Lead
  <2>4. pc \in Active => pass'.keptLocal \subseteq pass'.good /\ \A p \in pass'.good : local'[p] # "temp"
    BY <1>1, <1>2, <1>3 DEF Evidence, LocalInv
  <2>5. pc' = pc /\ pass' = pass
    BY <1>1
  <2>6. QED BY <2>1, <2>2, <2>3, <2>4, <2>5 DEF LocalInv
<1>6. ChoiceInv'
  <2>1. \A q \in Runs : (local[q] \in {"temp", "none"} => local'[q] = local[q]) /\ (local'[q] = "temp" => local[q] = "temp")
    BY <1>2
  <2>2. QED BY <1>1, <2>1 DEF Evidence, ChoiceInv
<1>7. JobInv'
  BY <1>1 DEF Evidence, JobInv, Superseded, Limit, Readable, NeedsCounterpart, Counterpart
<1>8. QED BY <1>5, <1>6, <1>7 DEF NewEvidence

LEMMA EvidenceRemote == ASSUME Evidence, NEW r \in Runs, RemoteChanges(r) PROVE NewEvidence
<1>1. /\ UNCHANGED <<kind, local, guard, ident, folders, pc, pass, job, maxLocal>>
      /\ late' = late \cup {"remote"}
      /\ \E left \in {"removed", "rotten"} : remote' = [remote EXCEPT ![r] = left]
  BY DEF RemoteChanges, memory, settings
<1>2. \A q \in Runs : remote'[q] = "logical" => remote[q] = "logical"
  BY <1>1, FileTypes
<1>3. pass.keptRemote \subseteq Runs
  BY FileTypes DEF Passes
<1>4. LocalInv'
  BY <1>1 DEF Evidence, LocalInv, Lead, WholeLocal, logicalStorageRecord
<1>5. ChoiceInv'
  BY <1>1, <1>2, <1>3 DEF Evidence, ChoiceInv
<1>6. JobInv'
  BY <1>1 DEF Evidence, JobInv, Unchanged, Superseded, Limit
<1>7. QED BY <1>4, <1>5, <1>6 DEF NewEvidence

LEMMA EvidenceStays == ASSUME Evidence, UNCHANGED vars PROVE NewEvidence
<1>1. UNCHANGED <<kind, local, remote, guard, ident, folders, pc, pass, job, late, maxLocal>>
  BY DEF vars, files, memory, bounds, settings
<1>2. LocalInv' /\ ChoiceInv'
  BY <1>1 DEF Evidence, LocalInv, ChoiceInv, Lead, WholeLocal, logicalStorageRecord
<1>3. JobInv'
  BY <1>1 DEF Evidence, JobInv, Unchanged, Superseded, Limit, Readable, NeedsCounterpart, Counterpart
<1>4. QED BY <1>2, <1>3 DEF NewEvidence

LEMMA EvidenceStep == Evidence /\ [Next]_vars => Evidence'
<1>1. SUFFICES ASSUME Evidence, [Next]_vars PROVE NewEvidence
  BY TruthStep DEF Evidence, NewEvidence
<1>2. CASE PassStep
  <2>1. ASSUME NEW r \in Runs, recoverIntents(r) \/ DeleteNext(r) \/ HoldNext(r) \/ ReleaseSecond(r)
        PROVE  NewEvidence
    BY <1>1, <2>1, EvidenceRecovers, EvidenceCandidate, EvidenceReleases
  <2>2. CASE Scan \/ VerifyRemote
    BY <1>1, <2>2, EvidenceScan, EvidenceVerify
  <2>3. CASE ListingFails \/ NoIntentLeft \/ LoopEnds \/ StorageFault \/ NothingToRelease \/ Finish
    BY <1>1, <2>3, EvidenceRest
  <2>4. CASE CheckLocal \/ WriteIntent \/ unlinkStoragePayload \/ RecordOutcome
    BY <1>1, <2>4, EvidenceCheck, EvidenceIntent, EvidenceUnlink, EvidenceRecord
  <2>5. QED BY <1>2, <2>1, <2>2, <2>3, <2>4 DEF PassStep
<1>3. ASSUME NEW m \in Modes, Begin(m) PROVE NewEvidence
  BY <1>1, <1>3, EvidenceBegin
<1>4. ASSUME NEW r \in Runs, Capture(r) \/ Protect(r) \/ Replace(r) \/ RemoteChanges(r) PROVE NewEvidence
  BY <1>1, <1>4, EvidenceCapture, EvidenceLocal, EvidenceRemote
<1>5. CASE Crash
  BY <1>1, <1>5, EvidenceCrash
<1>6. CASE UNCHANGED vars
  BY <1>1, <1>6, EvidenceStays
<1>7. QED BY <1>1, <1>2, <1>3, <1>4, <1>5, <1>6 DEF Next

-----------------------------------------------------------------------------
\* What the removal finds.

\* Only the removal of a candidate makes a payload disappear.
LEMMA OnlyUnlinkRemoves ==
  ASSUME Evidence, [Next]_vars, NEW r \in Runs, local[r] # "none", local'[r] = "none"
  PROVE  unlinkStoragePayload /\ r = job.run /\ guard[r] # "pinned"
<1>1. local' # local
  OBVIOUS
<1>2. ASSUME NEW q \in Runs, Capture(q) PROVE FALSE
  <2>1. PICK c \in Captures : local' = [local EXCEPT ![q] = c.local]
    BY <1>2 DEF Capture
  <2>2. local[q] = "none"
    BY <1>2 DEF Capture, Evidence, TruthInv, KnownInv
  <2>3. QED BY <2>1, <2>2, FileTypes
<1>3. ASSUME NEW q \in Runs, Replace(q) PROVE FALSE
  <2>1. local[q] # "none" /\ local' = [local EXCEPT ![q] = IF @ = "intact" THEN "damaged" ELSE @]
    BY <1>3 DEF Replace
  <2>2. QED BY <2>1, FileTypes
<1>4. CASE unlinkStoragePayload
  <2>1. local' = [local EXCEPT ![job.run] = "none"] /\ guard[job.run] # "pinned"
    BY <1>1, <1>4 DEF unlinkStoragePayload
  <2>2. QED BY <1>4, <2>1, FileTypes
<1>5. CASE ~unlinkStoragePayload
  <2>1. CASE PassStep
    BY <1>1, <1>5, <2>1
    DEF PassStep, Scan, VerifyRemote, ListingFails, recoverIntents, DeleteNext, HoldNext, ReleaseSecond,
        NoIntentLeft, LoopEnds, NothingToRelease, Finish, CheckLocal, WriteIntent, RecordOutcome,
        StorageFault, files
  <2>2. CASE (\E m \in Modes : Begin(m)) \/ Crash \/ UNCHANGED vars \/ \E q \in Runs : Protect(q) \/ RemoteChanges(q)
    BY <1>1, <2>2 DEF Begin, Crash, vars, Protect, Pin, RestoreTest, RemoteChanges, files
  <2>3. QED BY <1>2, <1>3, <2>1, <2>2 DEF Next
<1>6. QED BY <1>4, <1>5

LEMMA LimitNat == ASSUME Evidence PROVE Limit(pass.mode) \in Nat
BY StorageAssumption DEF StorageAssumption, Limit, Evidence, TruthInv, TypeInv, TypeOK

\* A larger set of runs has as many members.
LEMMA MoreRuns ==
  ASSUME NEW S, NEW T \in SUBSET Runs, S \subseteq T, NEW n \in Nat, Cardinality(S) >= n
  PROVE  Cardinality(T) >= n
<1>1. IsFiniteSet(T) /\ Cardinality(S) <= Cardinality(T)
  BY FS_Subset, StorageAssumption DEF StorageAssumption
<1>2. Cardinality(S) \in Nat /\ Cardinality(T) \in Nat
  BY <1>1, FS_Subset, FS_CardinalityType
<1>3. QED BY <1>1, <1>2

\* The local half: a complete point is left, newer than what goes if it has to be.
LEMMA LocalLeft ==
  ASSUME Evidence, pc = "unlink", "local" \notin late, local[job.run] # "none"
  PROVE  /\ guard[job.run] # "tested"
         /\ \A p \in pass.keptLocal : WholeLocal(p)
         /\ \E g \in Runs \ {job.run} :
              WholeLocal(g) /\ (WholeLocal(job.run) \/ local[job.run] = "temp" => g > job.run)
<1>1. /\ job.run \in Runs /\ pass.type[job.run] # "none" /\ job.run \notin pass.keptLocal
      /\ guard[job.run] # "tested" /\ Unchanged
  BY FileTypes DEF Evidence, JobInv
<1>2. \A p \in pass.keptLocal : WholeLocal(p)
  BY <1>1 DEF Unchanged, Evidence, LocalInv, Active, Chosen
<1>3. PICK g \in Runs : Lead(g)
  BY DEF Evidence, LocalInv, Active, Chosen
<1>4. g # job.run /\ WholeLocal(g) /\ g \in Nat /\ job.run \in Nat
  BY <1>1, <1>2, <1>3, FileTypes DEF Lead
<1>5. ASSUME WholeLocal(job.run) PROVE g > job.run
  BY <1>1, <1>3, <1>4, <1>5 DEF Lead
<1>6. ASSUME local[job.run] = "temp" PROVE g > job.run
  <2>1. pass.type[job.run] = "temp"
    BY <1>1, <1>6 DEF Evidence, ChoiceInv, Chosen
  <2>2. PICK q \in pass.good : job.run < q
    BY <1>1, <2>1 DEF Evidence, ChoiceInv, Chosen
  <2>3. q \in Nat /\ q <= g
    BY <1>3, FileTypes DEF Lead, Passes
  <2>4. QED BY <1>4, <2>2, <2>3
<1>7. QED BY <1>1, <1>2, <1>4, <1>5, <1>6

\* The remote half: two complete points, and the bytes or what supersedes them.
LEMMA RemoteLeft ==
  ASSUME Evidence, pc = "unlink", "remote" \notin late, local[job.run] # "none"
  PROVE  /\ Cardinality(WholeRemote) >= 2
         /\ \/ local[job.run] = "temp" \/ InS3(job.run)
            \/ /\ maxLocal > 0 /\ Cardinality({p \in WholeRemote : p > job.run}) >= 2
               /\ "local" \notin late =>
                    Cardinality({g \in Runs : g > job.run /\ WholeLocal(g)}) >= Limit(pass.mode)
<1>1. /\ job.run \in Runs /\ pass.type[job.run] # "none"
      /\ \A p \in pass.keptRemote : Readable(p)
      /\ NeedsCounterpart(job.run) => Readable(Counterpart(job.run))
      /\ pass.type[job.run] = "expired" => Superseded(job.run)
  BY FileTypes DEF Evidence, JobInv
<1>2. pass.keptRemote \subseteq WholeRemote
  <2>1. pass.keptRemote \subseteq Runs /\ \A p \in pass.keptRemote : remote[p] # "logical"
    BY FileTypes DEF Evidence, ChoiceInv, Chosen, Passes
  <2>2. QED BY <1>1, <2>1 DEF Readable, WholeRemote
<1>3. Cardinality(WholeRemote) >= 2
  <2>1. Cardinality(pass.keptRemote) >= 2 /\ WholeRemote \in SUBSET Runs
    BY DEF Evidence, ChoiceInv, Chosen, WholeRemote
  <2>2. QED BY <1>2, <2>1, MoreRuns
<1>4. pass.type[job.run] \in Types
  BY <1>1, FileTypes DEF Passes
<1>5. CASE pass.type[job.run] = "temp"
  BY <1>1, <1>3, <1>5 DEF Evidence, ChoiceInv, Chosen
<1>6. CASE pass.type[job.run] = "complete"
  BY <1>1, <1>3, <1>6 DEF NeedsCounterpart, Counterpart, InS3
<1>7. CASE pass.type[job.run] = "duplicate"
  <2>1. Twin[job.run] # None
    BY <1>1, <1>7, StorageAssumption DEF StorageAssumption, Evidence, TruthInv, TypeInv, TwinKnown
  <2>2. QED BY <1>1, <1>3, <1>7, <2>1 DEF NeedsCounterpart, Counterpart, InS3
<1>8. CASE pass.type[job.run] = "expired"
  <2>1. Superseded(job.run)
    BY <1>1, <1>8
  <2>2. Cardinality({p \in WholeRemote : p > job.run}) >= 2
    <3>1. /\ Cardinality({p \in pass.keptRemote \cap pass.proofs : p > job.run}) >= 2
          /\ {p \in WholeRemote : p > job.run} \in SUBSET Runs
      BY <2>1 DEF Superseded, WholeRemote
    <3>2. {p \in pass.keptRemote \cap pass.proofs : p > job.run} \subseteq {p \in WholeRemote : p > job.run}
      BY <1>2
    <3>3. QED BY <3>1, <3>2, MoreRuns
  <2>3. ASSUME "local" \notin late
        PROVE  Cardinality({g \in Runs : g > job.run /\ WholeLocal(g)}) >= Limit(pass.mode)
    <3>1. \A p \in pass.keptLocal : p \in Runs /\ WholeLocal(p)
      BY <2>3, LocalLeft, FileTypes DEF Passes
    <3>2. {p \in pass.keptLocal : p > job.run} \subseteq {g \in Runs : g > job.run /\ WholeLocal(g)}
      BY <3>1
    <3>3. Cardinality({p \in pass.keptLocal : p > job.run}) >= Limit(pass.mode)
      BY <2>1 DEF Superseded
    <3>4. {g \in Runs : g > job.run /\ WholeLocal(g)} \in SUBSET Runs
      OBVIOUS
    <3>5. QED BY <3>2, <3>3, <3>4, LimitNat, MoreRuns
  <2>4. maxLocal > 0
    BY <2>1 DEF Superseded
  <2>5. QED BY <1>3, <2>2, <2>3, <2>4
<1>9. QED BY <1>1, <1>4, <1>5, <1>6, <1>7, <1>8 DEF Types

\* A run whose restore test succeeded was published, or shows it or a pin.
TestShows ==
  \A r \in proved : kind[r] # "none" /\ (remote[r] # "none" \/ guard[r] # "none")

LEMMA TestShowsInit == Init => TestShows
<1>1. SUFFICES ASSUME Init, NEW r \in proved PROVE kind[r] # "none" /\ guard[r] # "none"
  BY DEF TestShows
<1>2. PICK h \in Histories :
        /\ kind = [q \in Runs |-> h[q].kind] /\ guard = [q \in Runs |-> h[q].guard]
        /\ proved = {q \in Runs : h[q].guard = "tested"}
  BY <1>1 DEF Init
<1>3. r \in Runs /\ h[r].guard = "tested" /\ h[r].kind # "none"
  BY <1>1, <1>2, StorageAssumption DEF StorageAssumption
<1>4. QED BY <1>2, <1>3

LEMMA TestShowsStep == Evidence /\ TestShows /\ [Next]_vars => TestShows'
<1>1. SUFFICES ASSUME Evidence, TestShows, [Next]_vars PROVE TestShows'
  OBVIOUS
<1>2. proved \subseteq Runs
  BY <1>1 DEF Evidence, TruthInv, TypeInv, TypeOK
<1>3. CASE UNCHANGED <<kind, remote, guard, proved>>
  BY <1>1, <1>3 DEF TestShows
<1>4. ASSUME NEW r \in Runs, Capture(r) PROVE TestShows'
  <2>1. PICK c \in Captures :
          /\ kind' = [kind EXCEPT ![r] = c.kind]
          /\ remote' = [remote EXCEPT ![r] = c.remote] /\ guard' = [guard EXCEPT ![r] = c.guard]
    BY <1>4 DEF Capture
  <2>2. kind[r] = "none" /\ proved' = proved
    BY <1>4 DEF Capture
  <2>3. r \notin proved
    BY <1>1, <2>2 DEF TestShows
  <2>4. ASSUME NEW q \in proved
        PROVE  kind'[q] = kind[q] /\ remote'[q] = remote[q] /\ guard'[q] = guard[q]
    BY <1>1, <1>2, <2>1, <2>3, <2>4, FileTypes
  <2>5. QED BY <1>1, <2>2, <2>4 DEF TestShows
<1>5. ASSUME NEW r \in Runs, Protect(r) PROVE TestShows'
  <2>1. /\ UNCHANGED <<kind, remote>> /\ proved' \subseteq proved \cup {r}
        /\ r \in proved' => remote[r] # "none" \/ guard'[r] # "none"
        /\ \A q \in Runs : q # r => guard'[q] = guard[q]
    BY <1>1, <1>5, FileTypes DEF Protect, Pin, RestoreTest, TestShows
  <2>2. r \in proved' => kind[r] # "none"
    BY <1>1, <1>5 DEF Protect, Pin, RestoreTest, TestShows
  <2>3. QED BY <1>1, <1>2, <2>1, <2>2 DEF TestShows
<1>6. ASSUME NEW r \in Runs, RemoteChanges(r) PROVE TestShows'
  <2>1. /\ UNCHANGED <<kind, guard, proved>>
        /\ \E left \in {"removed", "rotten"} : remote' = [remote EXCEPT ![r] = left]
    BY <1>6 DEF RemoteChanges
  <2>2. \A q \in Runs : remote[q] # "none" => remote'[q] # "none"
    BY <1>1, <2>1, FileTypes
  <2>3. QED BY <1>1, <1>2, <2>1, <2>2 DEF TestShows
<1>7. CASE (\E m \in Modes : Begin(m)) \/ Crash \/ (\E r \in Runs : Replace(r)) \/ UNCHANGED vars
  BY <1>3, <1>7 DEF Begin, Crash, Replace, vars, files
<1>8. CASE PassStep
  <2>1. UNCHANGED <<kind, remote, guard, proved>>
    BY <1>8 DEF PassStep, Scan, VerifyRemote, ListingFails, recoverIntents, DeleteNext, HoldNext,
       ReleaseSecond, NoIntentLeft, LoopEnds, NothingToRelease, Finish, CheckLocal, WriteIntent,
       unlinkStoragePayload, RecordOutcome, StorageFault, files
  <2>2. QED BY <1>3, <2>1
<1>9. QED BY <1>1, <1>4, <1>5, <1>6, <1>7, <1>8 DEF Next

LEMMA RemovalJustified ==
  ASSUME Evidence, TestShows, [Next]_vars, NEW r \in Runs, local[r] # "none", local'[r] = "none"
  PROVE  Justified(r)
<1>1. pc = "unlink" /\ r = job.run /\ guard[r] # "pinned"
  BY OnlyUnlinkRemoves DEF unlinkStoragePayload
<1>2. pass.mode # "plan"
  BY <1>1 DEF Evidence, ChoiceInv, Chosen
<1>3. guard[r] # "tested" /\ r \in proved => remote[r] # "none"
  BY <1>1, FileTypes DEF TestShows, Guards
<1>4. QED BY <1>1, <1>2, <1>3, LocalLeft, RemoteLeft DEF Justified

LEMMA EvidenceStart == Init => Evidence
<1>1. SUFFICES ASSUME Init PROVE Evidence
  OBVIOUS
<1>2. PICK h \in Histories :
        local = [r \in Runs |-> h[r].local] /\ folders = {r \in Runs : h[r].kind # "none"}
  BY <1>1 DEF Init
<1>3. \A r \in Runs : local[r] # "none" => r \in folders
  BY <1>2, StorageAssumption DEF StorageAssumption
<1>4. pc = "idle" /\ \A r \in Runs : pass.seen[r] = 0 /\ ident[r] = 0
  BY <1>1 DEF Init, NewPass
<1>5. TruthInv
  BY <1>1, TruthInit
<1>6. QED BY <1>3, <1>4, <1>5 DEF Evidence, LocalInv, ChoiceInv, JobInv, Active, Chosen

\* Every payload that a pass removes is redundant (unlinkStoragePayload): it is not
\* pinned, its manifest carries no restore test and can lack one only because the
\* run was published, newer points are left locally and in S3, and its own bytes are
\* in S3 or superseded; only what changed after the last look is excepted.
THEOREM DeletionAlwaysJustified == Spec => DeletionJustified
<1>1. Evidence /\ TestShows /\ [Next]_vars =>
        [\A r \in Runs : local[r] # "none" /\ local'[r] = "none" => Justified(r)]_vars
  BY RemovalJustified
<1>2. QED BY <1>1, EvidenceStart, EvidenceStep, TestShowsInit, TestShowsStep, PTL DEF Spec, DeletionJustified

-----------------------------------------------------------------------------
\* A refusal has a cause.  As long as no accident happens the evidence of a pass
\* stays what it was, every candidate is tried, and an intent that a crash left
\* is authorized again unless its payload has other bytes.

Busy == {"check", "intent", "unlink", "record"}

\* Without accidents no file changes under its name, and a pass starts with no evidence.
Undisturbed ==
  /\ \A r \in Runs : ident[r] = 0 /\ jident[r] = 0 /\ pass.seen[r] = 0
  /\ \A r \in Runs : kind[r] = "none" => remote[r] = "none" /\ local[r] = "none"
  /\ pc = "scan" => pass.good = {}
  /\ pc \in {"scan", "verify"} => pass.keptRemote = {}
  /\ pc # "idle" => outcome = "none"

PointsAbove(r) == {q \in Runs : remote[q] = "complete" /\ q > r}
KeptAbove(r) == {p \in pass.good : p > r}

\* The local points of a pass, and the window of them above every whole run left out.
LocalKept ==
  pc \in Active =>
    /\ \A p \in pass.good : local[p] \in {"intact", "none"} /\ logicalStorageRecord(p)
    /\ \A r \in Runs \ pass.good :
         kind[r] = "complete" /\ local[r] = "intact" =>
           Cardinality(KeptAbove(r)) >= Limit(pass.mode)
    /\ pc \in {"verify", "recover", "loop"} \/ (pc \in Busy /\ job.phase # "final") =>
         pass.keptLocal = pass.good

OverKept ==
  pc \in {"scan", "verify"} \/ (pc = "recover" /\ Intents # {}) =>
    (pass.over => OverLimit(pass.mode))

\* The points of a pass in S3, and the two newest of them above every run.
RemoteKept ==
  pc \in Chosen =>
    /\ pass.keptRemote \subseteq pass.proofs
    /\ \A p \in pass.proofs : Readable(p)
    /\ \A p \in pass.keptRemote : remote[p] = "complete"
    /\ \A r \in Runs : Cardinality(PointsAbove(r)) >= 2 =>
         Cardinality({p \in pass.keptRemote \cap pass.proofs : p > r}) >= 2

\* What the type of a candidate tells of the run.
TypeTells ==
  pc \in Chosen => \A r \in Runs :
    /\ pass.type[r] # "none" => guard[r] = "none" /\ r \notin pass.keptLocal
    /\ pass.type[r] = "complete" => logicalStorageRecord(r) /\ Listed(r)
    /\ pass.type[r] = "expired" => kind[r] = "complete" /\ ~Listed(r) /\ pass.over /\ r \notin pass.good
    /\ pass.type[r] = "duplicate" =>
         /\ kind[r] # "complete" /\ ~(logicalStorageRecord(r) /\ Listed(r))
         /\ Twin[r] \in pass.proofs /\ local[r] \in {"intact", "none"}

\* Whatever may be deleted is still to be tried or is being deleted.
AllTried ==
  pc \in Chosen =>
    /\ \A r \in Runs : Deletable(r) => r \in todo \/ (pc \in Busy /\ r = job.run)
    /\ pc \in {"emergency", "final"} \/ (pc \in Busy /\ job.phase = "final") =>
         Sufficient \/ todo = {}

\* The deletion under way is authorized and fails for other bytes only.
Authorized ==
  /\ pc \in {"check", "intent"} =>
       /\ pass.type[job.run] = "expired" => authorizeCountExpiry(job.run)
       /\ NeedsCounterpart(job.run) => Counterpart(job.run) \in pass.proofs
  /\ pc \in Busy /\ local[job.run] = "damaged" => pass.type[job.run] = "expired"
  /\ pc = "record" =>
       /\ job.result = "DELETED" => local[job.run] = "none"
       /\ job.result = "FAILED" => local[job.run] = "damaged"

\* What an intent that a crash left says of its run.
IntentTells ==
  \A r \in Intents :
    /\ kind[r] # "none"
    /\ local[r] \in {"intact", "damaged"} /\ logicalStorageRecord(r) /\ Listed(r) =>
         local[r] = "intact" /\ Readable(r)
    /\ local[r] \in {"intact", "damaged"} /\ kind[r] = "complete" /\ ~Listed(r) =>
         Cardinality(PointsAbove(r)) >= 2

Clean == /\ Undisturbed /\ LocalKept /\ OverKept /\ RemoteKept /\ TypeTells /\ AllTried
         /\ Authorized /\ IntentTells /\ RefusedForCause

CleanInv == accidents = 0 => Clean
CauseInv == Evidence /\ CleanInv

\* Why a pass may refuse.
Excused ==
  \/ pass.good = {} \/ ~(Cardinality(pass.keptRemote) >= 2)
  \/ ~Sufficient /\ \A r \in Runs : ~Deletable(r)
  \/ \E r \in Runs : Spoiled(r)

\* Steps that leave the files alone, payloads that are removed aside.
Calm == /\ UNCHANGED <<kind, remote, guard, ident, jident, settings>>
        /\ \A r \in Runs : local'[r] = local[r] \/ local'[r] = "none"

LEMMA CalmFacts ==
  ASSUME Evidence, Calm
  PROVE  /\ Sufficient => Sufficient'
         /\ \A p : (Readable(p)' <=> Readable(p)) /\ (logicalStorageRecord(p)' <=> logicalStorageRecord(p))
         /\ \A r : PointsAbove(r)' = PointsAbove(r)
         /\ \A m : Limit(m)' = Limit(m)
<1>1. Payloads' \subseteq Payloads
  BY DEF Calm, Payloads
<1>2. Sufficient => Sufficient'
  BY <1>1, RoomKept DEF Evidence, TruthInv, Calm
<1>3. QED BY <1>2 DEF Calm, Readable, logicalStorageRecord, PointsAbove, Limit, settings

LEMMA CleanReturns ==
  ASSUME Evidence, Clean, NEW a \in Outcomes, Return(a), UNCHANGED <<kind, local, remote, guard, ident, jident>>,
         \A r \in Runs : journal'[r] = "INTENT" => journal[r] = "INTENT",
         a = "refused" => Excused'
  PROVE  Clean'
<1>1. pc' = "idle" /\ pass' = pass /\ outcome' = a
  BY DEF Return, Goto, memory
<1>2. Undisturbed'
  BY <1>1 DEF Clean, Undisturbed
<1>3. LocalKept' /\ OverKept' /\ RemoteKept' /\ TypeTells' /\ AllTried' /\ Authorized'
  BY <1>1 DEF LocalKept, OverKept, RemoteKept, TypeTells, AllTried, Authorized, Active, Chosen, Busy
<1>4. IntentTells'
  BY DEF Listed, Clean, IntentTells, Intents, logicalStorageRecord, Readable, PointsAbove
<1>5. RefusedForCause'
  BY <1>1 DEF RefusedForCause, Excused
<1>6. QED BY <1>2, <1>3, <1>4, <1>5 DEF Clean

\* The steps of a pass that leave the evidence as it is, whatever else they do.
LEMMA EvidenceCalm ==
  ASSUME Evidence, Clean, Calm, pc \in Chosen, pc' \in Chosen, outcome' = outcome,
         pass'.seen = pass.seen, pass'.good = pass.good, pass'.mode = pass.mode,
         pass'.keptRemote = pass.keptRemote, pass.proofs \subseteq pass'.proofs,
         \A p \in pass'.proofs : p \in pass.proofs \/ Readable(p),
         pc' \in {"recover", "loop"} \/ (pc' \in Busy /\ job'.phase # "final") =>
           pass'.keptLocal = pass.good
  PROVE  Undisturbed' /\ LocalKept' /\ RemoteKept' /\ RefusedForCause'
<1>1. /\ pc # "idle" /\ pc' \notin {"idle", "scan", "verify"} /\ pc \in Active /\ pc' \in Active
      /\ outcome = "none"
  BY DEF Chosen, Active, Clean, Undisturbed
<1>2. Undisturbed'
  BY <1>1 DEF Clean, Undisturbed, Calm
<1>3. LocalKept'
  <2>1. ASSUME NEW p \in pass.good PROVE local'[p] \in {"intact", "none"} /\ logicalStorageRecord(p)'
    BY <1>1, <2>1, FileTypes DEF Clean, LocalKept, Calm, logicalStorageRecord, Passes
  <2>2. ASSUME NEW r \in Runs \ pass.good, kind'[r] = "complete", local'[r] = "intact"
        PROVE  Cardinality(KeptAbove(r)') >= Limit(pass.mode)'
    <3>1. kind[r] = "complete" /\ local[r] = "intact"
      BY <2>2 DEF Calm
    <3>2. KeptAbove(r)' = KeptAbove(r)
      BY DEF KeptAbove
    <3>3. Limit(pass.mode)' = Limit(pass.mode)
      BY DEF Limit, Calm, settings
    <3>4. QED BY <1>1, <2>2, <3>1, <3>2, <3>3 DEF Clean, LocalKept
  <2>3. QED BY <1>1, <2>1, <2>2 DEF LocalKept
<1>4. RemoteKept'
  <2>1. pass'.keptRemote \subseteq pass'.proofs /\ \A p \in pass'.keptRemote : remote'[p] = "complete"
    BY DEF Clean, RemoteKept, Calm
  <2>2. \A p \in pass'.proofs : Readable(p)'
    BY CalmFacts DEF Clean, RemoteKept
  <2>3. ASSUME NEW r \in Runs, Cardinality(PointsAbove(r)') >= 2
        PROVE  Cardinality({p \in pass'.keptRemote \cap pass'.proofs : p > r}) >= 2
    <3>1. Cardinality(PointsAbove(r)) >= 2
      BY <2>3, CalmFacts
    <3>2. pass'.keptRemote \cap pass'.proofs = pass.keptRemote \cap pass.proofs
      BY DEF Clean, RemoteKept
    <3>3. QED BY <3>1, <3>2 DEF Clean, RemoteKept
  <2>4. QED BY <2>1, <2>2, <2>3 DEF RemoteKept
<1>5. RefusedForCause'
  BY <1>1 DEF RefusedForCause
<1>6. QED BY <1>2, <1>3, <1>4, <1>5

\* Nor does what the candidates tell change, while their types stay.
LEMMA TypesCalm ==
  ASSUME Evidence, Clean, Calm, pc \in Chosen, pass'.type = pass.type,
         pass'.keptLocal \subseteq pass.keptLocal, pass'.over = pass.over,
         pass'.good = pass.good, pass.proofs \subseteq pass'.proofs
  PROVE  /\ TypeTells' /\ \A r \in Runs : Deletable(r)' => Deletable(r)
         /\ \A r : NeedsCounterpart(r)' = NeedsCounterpart(r) /\ Counterpart(r)' = Counterpart(r)
<1>1. TypeTells'
  BY DEF Listed, Clean, TypeTells, Calm, logicalStorageRecord
<1>2. \A r : NeedsCounterpart(r)' = NeedsCounterpart(r) /\ Counterpart(r)' = Counterpart(r)
  BY DEF NeedsCounterpart, Counterpart
<1>3. \A r \in Runs : Deletable(r)' => Deletable(r)
  BY <1>2 DEF Deletable, Calm, Readable
<1>4. QED BY <1>1, <1>2, <1>3

LEMMA IntentsCalm ==
  ASSUME Evidence, Clean, Calm, \A r \in Runs : journal'[r] = "INTENT" => journal[r] = "INTENT"
  PROVE  IntentTells'
BY CalmFacts DEF Listed, Clean, IntentTells, Intents, Calm

LEMMA JobFacts ==
  ASSUME Evidence, pc \in {"check", "intent", "unlink", "record"}
  PROVE  job.run \in Runs /\ job.phase \in {"recover", "loop", "final"}
BY FileTypes DEF Evidence, TruthInv, TypeInv, TypeOK, Jobs

\* An authorized candidate of the pass is deleted, from the recovery or the loop.
LEMMA CleanStarts ==
  ASSUME Evidence, Clean, NEW r \in Runs, NEW phase \in {"recover", "loop"}, pc = phase,
         authorizeCandidate(r), StartDeletion(r, phase), UNCHANGED <<files, journals, outcome, settings>>
  PROVE  Clean'
<1>1. /\ pc' = "check" /\ job' = [run |-> r, phase |-> phase, result |-> "none"] /\ todo' = todo \ {r}
      /\ pass' = [pass EXCEPT !.proofs = IF NeedsCounterpart(r) THEN @ \cup {Counterpart(r)} ELSE @]
      /\ job'.run = r /\ job'.phase = phase
  BY DEF StartDeletion, Goto
<1>2. /\ pass'.mode = pass.mode /\ pass'.good = pass.good /\ pass'.keptLocal = pass.keptLocal
      /\ pass'.keptRemote = pass.keptRemote /\ pass'.type = pass.type /\ pass'.seen = pass.seen
      /\ pass'.over = pass.over
      /\ pass'.proofs = IF NeedsCounterpart(r) THEN pass.proofs \cup {Counterpart(r)} ELSE pass.proofs
      /\ ~NeedsCounterpart(r) => pass' = pass
  BY <1>1, FileTypes DEF Passes
<1>3. Calm /\ pc \in Chosen /\ pc' \in Chosen
  BY <1>1 DEF Calm, files, journals, Chosen
<1>4. NeedsCounterpart(r) => /\ Counterpart(r) \in pass.proofs \/ Readable(Counterpart(r))
                             /\ local[r] = "intact"
  BY DEF authorizeCandidate, NeedsCounterpart
<1>5. pass.keptLocal = pass.good
  BY DEF Clean, LocalKept, Active, Chosen
<1>6. Undisturbed' /\ LocalKept' /\ RemoteKept' /\ RefusedForCause'
  BY <1>2, <1>3, <1>4, <1>5, EvidenceCalm
<1>7. /\ TypeTells' /\ \A q \in Runs : Deletable(q)' => Deletable(q)
      /\ \A q : NeedsCounterpart(q)' = NeedsCounterpart(q) /\ Counterpart(q)' = Counterpart(q)
  BY <1>2, <1>3, TypesCalm
<1>8. AllTried'
  BY <1>1, <1>3, <1>7 DEF Clean, AllTried, Busy
<1>9. OverKept'
  BY <1>1 DEF OverKept
<1>10. Authorized'
  <2>1. pass.type[r] \in Types
    BY FileTypes DEF Passes
  <2>2. pass.type[r] = "expired" => authorizeCountExpiry(r) /\ pass' = pass
    BY <1>2 DEF authorizeCandidate, NeedsCounterpart
  <2>3. pass.type[r] = "expired" => authorizeCountExpiry(r)'
    BY <1>3, <2>2 DEF authorizeCountExpiry, checkProtected, localPayloadRunCount, Limit, Calm, files,
                      settings
  <2>4. local[r] = "damaged" => pass.type[r] = "expired"
    <3>1. pass.type[r] = "temp" => local[r] \in {"temp", "none"}
      BY <1>3 DEF Evidence, ChoiceInv
    <3>2. QED BY <1>4, <2>1, <3>1 DEF NeedsCounterpart, Types, authorizeCandidate
  <2>5. local' = local
    BY DEF files
  <2>6. NeedsCounterpart(r) => Counterpart(r) \in pass'.proofs
    BY <1>2
  <2>7. QED BY <1>1, <1>2, <1>7, <2>3, <2>4, <2>5, <2>6 DEF Authorized
<1>11. IntentTells'
  BY <1>3, IntentsCalm DEF journals
<1>12. QED BY <1>6, <1>7, <1>8, <1>9, <1>10, <1>11 DEF Clean

\* The steps that leave the pass and the files alone.
LEMMA CleanMoves ==
  ASSUME Evidence, Clean, UNCHANGED <<files, journals, pass, job, outcome, settings>>,
         pc \in Chosen, pc' \in Chosen, pc' \notin {"check", "record", "recover"},
         pc' = "loop" => pc \in {"loop", "recover"},
         pc' = "intent" => pc = "check",
         pc' \in {"emergency", "final"} /\ pc \in {"recover", "loop"} => Sufficient \/ todo = {},
         pc' \in {"emergency", "final"} => pc \notin Busy,
         pc' = "unlink" => FALSE,
         todo' \subseteq todo, \A r \in todo \ todo' : ~Deletable(r)
  PROVE  Clean'
<1>1. Calm
  BY DEF Calm, files, journals
<1>2. pc' \in {"recover", "loop"} \/ (pc' \in Busy /\ job'.phase # "final") => pass'.keptLocal = pass.good
  BY DEF Clean, LocalKept, Active, Chosen, Busy
<1>3. Undisturbed' /\ LocalKept' /\ RemoteKept' /\ RefusedForCause'
  BY <1>1, <1>2, EvidenceCalm
<1>4. /\ TypeTells' /\ \A q \in Runs : Deletable(q)' => Deletable(q)
      /\ \A q : NeedsCounterpart(q)' = NeedsCounterpart(q) /\ Counterpart(q)' = Counterpart(q)
  BY <1>1, TypesCalm
<1>5. AllTried'
  <2>1. ASSUME NEW r \in Runs, Deletable(r)'
        PROVE  r \in todo' \/ (pc' \in Busy /\ r = job'.run)
    BY <1>4, <2>1 DEF Clean, AllTried, Busy, Chosen
  <2>2. ASSUME pc' \in {"emergency", "final"} \/ (pc' \in Busy /\ job'.phase = "final")
        PROVE  Sufficient' \/ todo' = {}
    <3>1. Sufficient \/ todo = {}
      BY <2>2 DEF Clean, AllTried, Busy, Chosen
    <3>2. QED BY <3>1, <1>1, CalmFacts
  <2>3. QED BY <2>1, <2>2 DEF AllTried
<1>6. OverKept'
  BY DEF OverKept, Chosen
<1>7. Authorized'
  <2>1. pc' = "intent" => (authorizeCountExpiry(job.run)' <=> authorizeCountExpiry(job.run))
    BY DEF authorizeCountExpiry, checkProtected, localPayloadRunCount, Limit, files, settings
  <2>2. pc' # "intent" => pc' \notin Busy
    BY DEF Busy
  <2>3. QED BY <1>4, <2>1, <2>2 DEF Clean, Authorized, files, Busy
<1>8. IntentTells'
  BY <1>1, IntentsCalm DEF journals
<1>9. QED BY <1>3, <1>4, <1>5, <1>6, <1>7, <1>8 DEF Clean

\* The n newest of a set hold n members above r if the set does.
LEMMA NewestAbove ==
  ASSUME NEW S \in SUBSET Runs, NEW n \in Nat, NEW r \in Runs,
         Cardinality({q \in S : q > r}) >= n
  PROVE  Cardinality({p \in Newest(S, n) : p > r}) >= n
<1> DEFINE N == Newest(S, n)
           A == {q \in S : q > r}
           B == {p \in N : p > r}
<1>1. N \in SUBSET Runs /\ A \in SUBSET Runs /\ B \in SUBSET Runs /\ Runs \subseteq Nat /\ IsFiniteSet(Runs)
  BY StorageAssumption DEF StorageAssumption, Newest
<1>2. CASE A \subseteq N
  <2>1. A \subseteq B
    BY <1>2
  <2>2. QED BY <1>1, <2>1, MoreRuns
<1>3. CASE ~(A \subseteq N)
  <2>1. A \ N # {} /\ IsFiniteSet(A \ N) /\ A \ N \subseteq Nat
    BY <1>1, <1>3, FS_Subset
  <2>2. PICK m \in A \ N : \A q \in A \ N : q <= m
    BY <2>1, Greatest
  <2> DEFINE C == {q \in S : q > m}
  <2>3. C \in SUBSET Runs /\ IsFiniteSet(C) /\ Cardinality(C) \in Nat
    BY <1>1, FS_Subset, FS_CardinalityType
  <2>4. ~(Cardinality(C) < n)
    BY <2>2 DEF Newest
  <2>5. C \subseteq B
    <3>1. ASSUME NEW q \in C PROVE q \in B
      <4>1. q \in Nat /\ m \in Nat /\ r \in Nat /\ q > m /\ m > r
        BY <1>1, <2>2
      <4>2. q \in A
        BY <4>1
      <4>3. q \in N
        BY <2>2, <4>1, <4>2
      <4>4. QED BY <4>1, <4>3
    <3>2. QED BY <3>1
  <2>6. Cardinality(C) >= n
    BY <2>3, <2>4
  <2>7. QED BY <1>1, <2>5, <2>6, MoreRuns
<1>4. QED BY <1>2, <1>3

LEMMA WindowNat ==
  ASSUME Evidence
  PROVE  /\ Limit(pass.mode) \in Nat /\ Window(pass.mode) \in Nat
         /\ Limit(pass.mode) <= Window(pass.mode)
         /\ OverLimit(pass.mode) => maxLocal >= 3 /\ Limit(pass.mode) >= 2
<1>1. maxLocal \in {0} \cup {n \in Nat : n >= 3}
  BY StorageAssumption DEF StorageAssumption, Evidence, TruthInv, TypeInv, TypeOK
<1>2. QED BY <1>1 DEF Window, Limit, OverLimit

LEMMA CleanScan == ASSUME Evidence, Clean, Scan PROVE Clean'
<1> DEFINE valid == {r \in folders : logicalStorageRecord(r) /\ local[r] = "intact"}
           newest == Newest(valid, Window(pass.mode))
           good == newest \cup {r \in valid : guard[r] # "none"}
<1>1. /\ pc = "scan" /\ UNCHANGED <<files, journals, bounds>>
      /\ IF good = {} THEN blocked
         ELSE /\ pc' = "verify" /\ UNCHANGED <<todo, job, outcome, late>>
              /\ pass' = [pass EXCEPT !.good = good, !.keptLocal = good, !.seen = ident]
  BY DEF Scan, Goto
<1>2. pass.good = {} /\ pass.keptRemote = {} /\ outcome = "none"
  BY <1>1 DEF Clean, Undisturbed
<1>3. CASE good = {}
  <2>1. PICK a \in Outcomes : Return(a)
    BY <1>1, <1>3, BlockedReturns
  <2>2. Excused'
    BY <1>2, <2>1 DEF Excused, Return, memory
  <2>3. QED BY <1>1, <2>1, <2>2, CleanReturns DEF files, journals
<1>4. CASE good # {}
  <2>1. folders \subseteq Runs /\ valid \in SUBSET Runs /\ good \subseteq valid
    BY DEF Newest, Evidence, TruthInv, TypeInv, TypeOK
  <2>2. /\ pc' = "verify" /\ pass'.good = good /\ pass'.keptLocal = good /\ pass'.seen = ident
        /\ pass'.mode = pass.mode /\ pass'.keptRemote = pass.keptRemote /\ pass'.over = pass.over
        /\ outcome' = outcome
    <3> HIDE DEF good
    <3>1. QED BY <1>1, <1>4, FileTypes DEF Passes
  <2> HIDE DEF good
  <2>3. Undisturbed'
    BY <1>1, <1>2, <2>2 DEF Clean, Undisturbed, files, journals
  <2>4. LocalKept'
    <3>1. \A p \in good : local[p] = "intact" /\ logicalStorageRecord(p)
      BY <2>1
    <3>2. ASSUME NEW r \in Runs \ good, kind[r] = "complete", local[r] = "intact"
          PROVE  Cardinality({p \in good : p > r}) >= Limit(pass.mode)
      <4>1. r \in valid /\ r \notin newest
        BY <3>2 DEF good, Evidence, LocalInv, logicalStorageRecord
      <4>2. ~(Cardinality({q \in valid : q > r}) < Window(pass.mode))
        BY <4>1 DEF Newest
      <4>3. Cardinality({q \in valid : q > r}) \in Nat
        <5>1. {q \in valid : q > r} \subseteq Runs
          BY <2>1
        <5>2. QED BY <5>1, FS_Subset, FS_CardinalityType, StorageAssumption DEF StorageAssumption
      <4>4. Cardinality({p \in newest : p > r}) >= Window(pass.mode)
        <5> HIDE DEF valid
        <5>1. Cardinality({q \in valid : q > r}) >= Window(pass.mode)
          BY <4>2, <4>3, WindowNat
        <5>2. QED BY <5>1, <2>1, WindowNat, NewestAbove
      <4>5. {p \in good : p > r} \in SUBSET Runs /\ {p \in newest : p > r} \subseteq {p \in good : p > r}
        BY <2>1 DEF good
      <4>6. Cardinality({p \in good : p > r}) >= Window(pass.mode)
        <5> HIDE DEF newest
        <5>1. QED BY <4>4, <4>5, WindowNat, MoreRuns
      <4>7. Cardinality({p \in good : p > r}) \in Nat
        BY <4>5, FS_Subset, FS_CardinalityType, StorageAssumption DEF StorageAssumption
      <4>8. QED BY <4>6, <4>7, WindowNat
    <3>3. Limit(pass.mode)' = Limit(pass.mode)
      BY <1>1, <2>2 DEF Limit, bounds, settings
    <3>4. \A r : KeptAbove(r)' = {p \in good : p > r}
      BY <2>2 DEF KeptAbove
    <3>5. \A r : logicalStorageRecord(r)' <=> logicalStorageRecord(r)
      BY <1>1 DEF files, logicalStorageRecord
    <3>6. kind' = kind /\ local' = local
      BY <1>1 DEF files
    <3>7. QED BY <2>2, <3>1, <3>2, <3>3, <3>4, <3>5, <3>6 DEF LocalKept
  <2>5. OverKept'
    BY <1>1, <2>2 DEF Clean, OverKept, OverLimit, Limit, localPayloadRunCount, files, bounds, settings
  <2>6. RemoteKept' /\ TypeTells' /\ AllTried' /\ Authorized' /\ RefusedForCause'
    BY <1>2, <2>2 DEF RemoteKept, TypeTells, AllTried, Authorized, RefusedForCause, Chosen, Busy
  <2>7. IntentTells'
    BY <1>1 DEF Listed, Clean, IntentTells, Intents, files, journals, logicalStorageRecord, Readable, PointsAbove
  <2>8. QED BY <2>3, <2>4, <2>5, <2>6, <2>7 DEF Clean
<1>5. QED BY <1>3, <1>4

LEMMA CleanVerify == ASSUME Evidence, Clean, VerifyRemote, UNCHANGED accidents PROVE Clean'
<1>1. PICK missed \in {{}} \cup {{r} : r \in Runs}, young \in SUBSET {r \in Runs : local[r] = "temp"} :
        LET verified == {r \in Runs \ missed : remote[r] = "complete"}
            kept == Newest(verified, 2)
            type == [r \in Runs |-> CandidateType(r, young, kept)]
        IN /\ IF missed = {} THEN NoAccident ELSE Accident("s3")
           /\ IF Cardinality(kept) < 2 THEN blocked
              ELSE /\ pass' = [pass EXCEPT !.keptRemote = kept, !.proofs = kept, !.type = type]
                   /\ todo' = {r \in Runs : type[r] # "none"}
                   /\ IF pass.mode = "plan" THEN Goto("idle") /\ outcome' = "none"
                      ELSE Goto("recover") /\ UNCHANGED outcome
                   /\ UNCHANGED <<job, late>>
  BY DEF VerifyRemote
<1>2. missed = {}
  BY <1>1 DEF Accident, Evidence, TruthInv, TypeInv, TypeOK
<1> DEFINE verified == {r \in Runs : remote[r] = "complete"}
           kept == Newest(verified, 2)
           type == [r \in Runs |-> CandidateType(r, young, kept)]
<1>3. /\ pc = "verify" /\ UNCHANGED <<files, journals, settings>>
      /\ IF Cardinality(kept) < 2 THEN blocked
         ELSE /\ pass' = [pass EXCEPT !.keptRemote = kept, !.proofs = kept, !.type = type]
              /\ todo' = {r \in Runs : type[r] # "none"}
              /\ IF pass.mode = "plan" THEN pc' = "idle" /\ outcome' = "none"
                 ELSE pc' = "recover" /\ UNCHANGED outcome
              /\ UNCHANGED <<job, late>>
  BY <1>1, <1>2 DEF VerifyRemote, Goto
<1>4. pass.keptRemote = {} /\ outcome = "none" /\ pass.keptLocal = pass.good
  BY <1>3 DEF Clean, Undisturbed, LocalKept, Active
<1>5. kept \subseteq verified /\ verified \in SUBSET Runs
  BY DEF Newest
<1>6. CASE Cardinality(kept) < 2
  <2>1. PICK a \in Outcomes : Return(a)
    BY <1>3, <1>6, BlockedReturns
  <2>2. Excused'
    BY <1>4, <2>1, FS_EmptySet DEF Excused, Return, memory
  <2>3. QED BY <1>3, <2>1, <2>2, CleanReturns DEF files, journals
<1>7. CASE ~(Cardinality(kept) < 2)
  <2> HIDE DEF kept, type
  <2>1. /\ pass'.keptRemote = kept /\ pass'.proofs = kept /\ pass'.type = type
        /\ pass'.mode = pass.mode /\ pass'.good = pass.good /\ pass'.keptLocal = pass.keptLocal
        /\ pass'.seen = pass.seen /\ pass'.over = pass.over
    BY <1>3, <1>7, FileTypes DEF Passes
  <2>2. /\ outcome' = "none" /\ pc' \in {"idle", "recover"} /\ todo' = {r \in Runs : type[r] # "none"}
        /\ Calm /\ UNCHANGED <<files, journals, settings, job>>
    BY <1>3, <1>4, <1>7 DEF files, journals, Calm
  <2>3. Undisturbed'
    BY <2>1, <2>2 DEF Clean, Undisturbed, Calm
  <2>4. LocalKept'
    <3>1. \A r : KeptAbove(r)' = KeptAbove(r) /\ Limit(pass.mode)' = Limit(pass.mode)
      BY <2>1, <2>2 DEF KeptAbove, Limit, settings
    <3>2. pc \in Active
      BY <1>3 DEF Active
    <3>3. QED BY <1>4, <2>1, <2>2, <3>1, <3>2 DEF Clean, LocalKept, Active, files, logicalStorageRecord, Busy
  <2>5. OverKept'
    BY <1>3, <2>1, <2>2 DEF Clean, OverKept, OverLimit, Limit, localPayloadRunCount, files, settings
  <2>6. RemoteKept'
    <3>1. \A p \in kept : remote[p] = "complete" /\ Readable(p)
      BY <1>5 DEF Readable
    <3>2. ASSUME NEW r \in Runs, Cardinality(PointsAbove(r)) >= 2
          PROVE  Cardinality({p \in kept \cap kept : p > r}) >= 2
      <4>1. PointsAbove(r) = {q \in verified : q > r} /\ kept \cap kept = kept
        BY DEF PointsAbove
      <4>2. QED BY <1>5, <3>2, <4>1, NewestAbove DEF kept
    <3>3. QED BY <2>1, <2>2, <3>1, <3>2 DEF RemoteKept, files, Readable, PointsAbove
  <2>7. \A r \in Runs : type[r] = CandidateType(r, young, kept)
    BY DEF type
  <2>8. TypeTells'
    <3>1. ASSUME NEW r \in Runs
          PROVE /\ type[r] # "none" => guard[r] = "none" /\ r \notin pass.keptLocal
                /\ type[r] = "complete" => logicalStorageRecord(r) /\ Listed(r)
                /\ type[r] = "expired" => kind[r] = "complete" /\ ~Listed(r) /\ pass.over /\ r \notin pass.good
                /\ type[r] = "duplicate" =>
                     /\ kind[r] # "complete" /\ ~(logicalStorageRecord(r) /\ Listed(r))
                     /\ Twin[r] \in kept /\ local[r] \in {"intact", "none"}
      BY <1>4, <2>7 DEF CandidateType, logicalStorageRecord
    <3>2. QED BY <2>1, <2>2, <3>1 DEF Listed, TypeTells, files, logicalStorageRecord
  <2>9. AllTried'
    BY <2>1, <2>2 DEF AllTried, Deletable, Busy
  <2>10. Authorized' /\ RefusedForCause'
    BY <2>2 DEF Authorized, RefusedForCause, Busy
  <2>11. IntentTells'
    BY <2>2, IntentsCalm DEF journals
  <2>12. QED BY <2>3, <2>4, <2>5, <2>6, <2>8, <2>9, <2>10, <2>11 DEF Clean
<1>8. QED BY <1>6, <1>7

\* An intent that is still a candidate is authorized, but for other bytes.
LEMMA IntentAuthorized ==
  ASSUME Evidence, Clean, pc = "recover", NEW r \in Intents, pass.type[r] # "none",
         local[r] # "none", ~(pass.type[r] = "expired" /\ local[r] = "damaged")
  PROVE  authorizeCandidate(r)
<1>1. r \in Runs /\ pass.type[r] \in Types /\ local[r] \in {"intact", "damaged", "temp"}
  BY FileTypes DEF Intents, Passes, Locals
<1>2. /\ pc \in Chosen /\ pc \in Active /\ r \notin pass.keptLocal /\ guard[r] = "none"
      /\ pass.keptLocal = pass.good
  BY <1>1 DEF Chosen, Active, Clean, TypeTells, LocalKept
<1>3. local[r] = "temp" => pass.type[r] = "temp"
  BY <1>1, <1>2 DEF Evidence, ChoiceInv
<1>4. CASE pass.type[r] = "temp"
  BY <1>4 DEF authorizeCandidate, NeedsCounterpart
<1>5. CASE pass.type[r] = "complete"
  <2>1. local[r] = "intact" /\ Readable(r)
    BY <1>1, <1>2, <1>3, <1>5 DEF Clean, TypeTells, IntentTells
  <2>2. QED BY <1>5, <2>1 DEF authorizeCandidate, NeedsCounterpart, Counterpart
<1>6. CASE pass.type[r] = "duplicate"
  <2>1. local[r] = "intact" /\ Twin[r] \in pass.proofs
    BY <1>1, <1>2, <1>6 DEF Clean, TypeTells
  <2>2. QED BY <1>6, <2>1 DEF authorizeCandidate, NeedsCounterpart, Counterpart
<1>7. CASE pass.type[r] = "expired"
  <2>1. kind[r] = "complete" /\ ~Listed(r) /\ pass.over /\ r \notin pass.good /\ local[r] = "intact"
    BY <1>1, <1>2, <1>3, <1>7 DEF Clean, TypeTells
  <2>2. OverLimit(pass.mode)
    BY <2>1 DEF Clean, OverKept
  <2>3. maxLocal >= 3 /\ Limit(pass.mode) >= 2 /\ localPayloadRunCount > Limit(pass.mode)
    BY <2>2, WindowNat DEF OverLimit
  <2>4. checkProtected
    <3>1. pass.keptLocal # {} /\ Cardinality(pass.keptRemote) >= 2
      BY <1>2 DEF Evidence, LocalInv, ChoiceInv, Lead
    <3>2. \A p \in pass.keptLocal : ident[p] = pass.seen[p]
      BY FileTypes DEF Clean, Undisturbed, Passes
    <3>3. QED BY <3>1, <3>2 DEF checkProtected
  <2>5. Cardinality({p \in pass.keptLocal : p > r}) >= Limit(pass.mode)
    BY <1>1, <1>2, <2>1 DEF Clean, LocalKept, KeptAbove
  <2>6. Cardinality({p \in pass.keptRemote \cap pass.proofs : p > r}) >= 2
    BY <1>1, <1>2, <2>1 DEF Clean, IntentTells, RemoteKept
  <2>7. authorizeCountExpiry(r)
    BY <1>2, <2>1, <2>3, <2>4, <2>5, <2>6 DEF authorizeCountExpiry
  <2>8. QED BY <1>7, <2>7 DEF authorizeCandidate, NeedsCounterpart
<1>8. QED BY <1>1, <1>4, <1>5, <1>6, <1>7 DEF Types

LEMMA CleanRecovered ==
  ASSUME Evidence, Clean, pc = "recover", NEW r \in Runs, NEW result, result # "INTENT",
         journal' = [journal EXCEPT ![r] = result],
         UNCHANGED <<files, jident, pc, memory, outcome, settings>>
  PROVE  Clean'
<1>1. Calm /\ pc \in Chosen /\ pc' \in Chosen /\ pass' = pass /\ todo' = todo /\ job' = job
  BY DEF Calm, files, Chosen, memory
<1>2. \A q \in Runs : journal'[q] = "INTENT" => journal[q] = "INTENT"
  BY DEF Evidence, TruthInv, TypeInv, TypeOK
<1>3. pass.keptLocal = pass.good
  BY DEF Clean, LocalKept, Active, Chosen
<1>4. Undisturbed' /\ LocalKept' /\ RemoteKept' /\ RefusedForCause'
  BY <1>1, <1>3, EvidenceCalm
<1>5. TypeTells' /\ \A q \in Runs : Deletable(q)' => Deletable(q)
  BY <1>1, TypesCalm
<1>6. AllTried'
  BY <1>1, <1>5 DEF Clean, AllTried, Busy
<1>7. OverKept'
  <2>1. Intents' \subseteq Intents
    BY <1>2 DEF Intents
  <2>2. QED BY <1>1, <2>1 DEF Clean, OverKept, OverLimit, Limit, localPayloadRunCount, files, settings
<1>8. Authorized'
  BY DEF Authorized, Busy
<1>9. IntentTells'
  BY <1>1, <1>2, IntentsCalm
<1>10. QED BY <1>4, <1>5, <1>6, <1>7, <1>8, <1>9 DEF Clean

LEMMA CleanRecover ==
  ASSUME Evidence, Clean, NEW r \in Runs, recoverIntents(r), UNCHANGED accidents
  PROVE  Clean'
<1>1. pc = "recover" /\ r \in Intents /\ UNCHANGED <<files, settings>>
  BY DEF recoverIntents
<1>2. ASSUME NEW c, Accident(c) PROVE FALSE
  BY <1>2 DEF Accident, Evidence, TruthInv, TypeInv, TypeOK
<1>3. CASE \E result \in {"REMOVED", "HELD", "CANCELLED"} : Recovered(r, result)
  BY <1>1, <1>3, CleanRecovered DEF Recovered
<1>4. CASE /\ authorizeCandidate(r) /\ StartDeletion(r, "recover")
           /\ UNCHANGED <<journals, outcome, late, accidents>>
  BY <1>1, <1>4, CleanStarts
<1>5. CASE /\ local[r] # "none" /\ Eligible(r) /\ ~authorizeCandidate(r)
           /\ Return("refused") /\ UNCHANGED journals
  <2>1. pass.type[r] = "expired" /\ local[r] = "damaged" /\ journal[r] = "INTENT"
    BY <1>1, <1>5, IntentAuthorized DEF Eligible, Intents
  <2>2. Spoiled(r)'
    BY <1>1, <1>5, <2>1 DEF Spoiled, Return, memory, journals, files
  <2>3. Excused'
    BY <2>2 DEF Excused
  <2>4. "refused" \in Outcomes
    BY DEF Outcomes
  <2>5. QED BY <1>1, <1>5, <2>3, <2>4, CleanReturns DEF files, journals
<1>6. QED BY <1>2, <1>3, <1>4, <1>5 DEF recoverIntents, AsksS3

LEMMA CleanCandidate ==
  ASSUME Evidence, Clean, NEW r \in Runs, DeleteNext(r) \/ HoldNext(r), UNCHANGED accidents
  PROVE  Clean'
<1>1. pc = "loop" /\ r \in todo /\ UNCHANGED <<files, journals, outcome, settings>>
  BY DEF DeleteNext, HoldNext, NextCandidate, bounds
<1>2. CASE DeleteNext(r)
  BY <1>1, <1>2, CleanStarts DEF DeleteNext
<1>3. CASE HoldNext(r)
  <2>1. ~authorizeCandidate(r)
    BY <1>3 DEF HoldNext, Accident, Evidence, TruthInv, TypeInv, TypeOK
  <2>2. ~Deletable(r)
    BY <2>1 DEF Deletable, authorizeCandidate, NeedsCounterpart
  <2>3. todo' = todo \ {r} /\ UNCHANGED <<pc, pass, job>>
    BY <1>3 DEF HoldNext
  <2>4. QED BY <1>1, <2>2, <2>3, CleanMoves DEF Chosen
<1>4. QED BY <1>2, <1>3

LEMMA CleanRest ==
  ASSUME Evidence, Clean, UNCHANGED accidents,
         NoIntentLeft \/ LoopEnds \/ NothingToRelease \/ Finish
  PROVE  Clean'
<1>1. CASE NoIntentLeft
  BY <1>1, CleanMoves DEF NoIntentLeft, Goto, memory, bounds, Chosen
<1>2. CASE LoopEnds
  <2>1. Sufficient \/ todo = {}
    BY <1>2 DEF LoopEnds, Enough, TargetMet
  <2>2. /\ pc = "loop" /\ pc' = "emergency"
        /\ UNCHANGED <<files, journals, pass, todo, job, outcome, settings>>
    BY <1>2 DEF LoopEnds, Goto, memory, bounds
  <2>3. QED BY <2>1, <2>2, CleanMoves DEF Chosen, Busy
<1>3. CASE NothingToRelease
  <2>1. /\ pc = "emergency" /\ pc' = "final"
        /\ UNCHANGED <<files, journals, pass, todo, job, outcome, settings>>
    BY <1>3 DEF NothingToRelease, Goto, memory
  <2>2. QED BY <2>1, CleanMoves DEF Chosen, Busy
<1>4. CASE Finish
  <2>1. pc = "final" /\ UNCHANGED <<files, journals, bounds>>
    BY <1>4 DEF Finish
  <2>2. CASE Sufficient
    BY <1>4, <2>1, <2>2, CleanReturns DEF Finish, Outcomes, files, journals
  <2>3. CASE ~Sufficient
    <3>1. PICK a \in Outcomes : Return(a)
      BY <1>4, <2>3 DEF Finish, SecondaryOrRefuse, Outcomes
    <3>2. \A r \in Runs : ~Deletable(r)
      BY <2>1, <2>3 DEF Clean, AllTried, Chosen, Busy
    <3>3. pass' = pass
      BY <3>1 DEF Return, memory
    <3>4. ~Sufficient' /\ \A r \in Runs : ~Deletable(r)'
      BY <2>1, <2>3, <3>2, <3>3 DEF Sufficient, localPayloadRunCount, files, bounds, settings, Deletable,
         NeedsCounterpart, Counterpart, Readable
    <3>5. Excused'
      BY <3>4 DEF Excused
    <3>6. QED BY <2>1, <3>1, <3>5, CleanReturns DEF files, journals
  <2>4. QED BY <2>2, <2>3
<1>5. QED BY <1>1, <1>2, <1>3, <1>4

\* Nothing stops the checks of a deletion.
LEMMA CleanCheck == ASSUME Evidence, Clean, CheckLocal PROVE Clean'
<1>1. pc = "check" /\ pc \in Chosen /\ UNCHANGED <<files, journals, bounds>>
  BY DEF CheckLocal, Chosen
<1>2. job.run \in Runs /\ pass.type[job.run] # "none"
  BY <1>1, FileTypes DEF Evidence, JobInv
<1>3. job.run \notin pass.keptLocal /\ guard[job.run] = "none"
  BY <1>1, <1>2 DEF Clean, TypeTells
<1>4. checkProtected
  <2>1. pass.keptLocal # {} /\ Cardinality(pass.keptRemote) >= 2
    BY <1>1 DEF Evidence, LocalInv, ChoiceInv, Lead, Active
  <2>2. \A p \in pass.keptLocal : ident[p] = pass.seen[p]
    BY FileTypes DEF Clean, Undisturbed, Passes
  <2>3. QED BY <2>1, <2>2 DEF checkProtected
<1>5. pc' = "intent" /\ UNCHANGED <<pass, todo, job, outcome>>
  BY <1>3, <1>4 DEF CheckLocal, Goto, memory
<1>6. QED BY <1>1, <1>5, CleanMoves DEF Chosen, bounds

LEMMA CleanIntent == ASSUME Evidence, Clean, WriteIntent PROVE Clean'
<1> DEFINE r == job.run
<1>1. pc = "intent" /\ pc \in Chosen /\ pc \in Busy /\ UNCHANGED <<files, bounds>> /\ r \in Runs
  BY FileTypes DEF WriteIntent, Chosen, Busy
<1>2. /\ pass.type[r] = "expired" => authorizeCountExpiry(r)
      /\ NeedsCounterpart(r) => Counterpart(r) \in pass.proofs /\ Readable(Counterpart(r))
      /\ \A p \in pass.keptRemote : Readable(p) /\ remote[p] = "complete"
  BY <1>1 DEF Clean, Authorized, RemoteKept
<1>3. RemoteUnchanged
  BY <1>2 DEF RemoteUnchanged
<1>4. /\ pc' = "unlink" /\ journal' = [journal EXCEPT ![r] = "INTENT"]
      /\ jident' = [jident EXCEPT ![r] = pass.seen[r]]
      /\ UNCHANGED <<pass, todo, job, outcome>>
  BY <1>3 DEF WriteIntent, Goto, memory
<1>5. jident' = jident
  BY <1>1, <1>4 DEF Clean, Undisturbed, Evidence, TruthInv, TypeInv, TypeOK
<1>6. Calm /\ pc' \in Chosen /\ pc' \in Busy
  BY <1>1, <1>4, <1>5 DEF Calm, files, bounds, Chosen, Busy
<1>7. pc' \in {"recover", "loop"} \/ (pc' \in Busy /\ job'.phase # "final") => pass'.keptLocal = pass.good
  BY <1>1, <1>4, <1>6 DEF Clean, LocalKept, Active, Chosen
<1>8. Undisturbed' /\ LocalKept' /\ RemoteKept' /\ RefusedForCause'
  BY <1>1, <1>4, <1>6, <1>7, EvidenceCalm
<1>9. TypeTells' /\ \A q \in Runs : Deletable(q)' => Deletable(q)
  BY <1>1, <1>4, <1>6, TypesCalm
<1>10. AllTried'
  <2>1. Sufficient => Sufficient'
    BY <1>6, CalmFacts
  <2>2. QED BY <1>1, <1>4, <1>6, <1>9, <2>1 DEF Clean, AllTried
<1>11. OverKept' /\ Authorized'
  BY <1>1, <1>4 DEF OverKept, Clean, Authorized, files, Busy
<1>12. IntentTells'
  <2>1. kind[r] # "none" /\ pass.type[r] # "none" /\ pass.type[r] \in Types
    BY <1>1, FileTypes DEF Evidence, TruthInv, KnownInv, JobInv, Passes
  <2>2. ASSUME local[r] \in {"intact", "damaged"}, logicalStorageRecord(r), Listed(r)
        PROVE  local[r] = "intact" /\ Readable(r)
    <3>1. pass.type[r] = "complete"
      BY <1>1, <2>1, <2>2 DEF Types, Clean, TypeTells, Evidence, ChoiceInv
    <3>2. QED BY <1>1, <1>2, <2>2, <3>1 DEF NeedsCounterpart, Counterpart, Clean, Authorized
  <2>3. ASSUME local[r] \in {"intact", "damaged"}, kind[r] = "complete", ~Listed(r)
        PROVE  Cardinality(PointsAbove(r)) >= 2
    <3>1. pass.type[r] = "expired"
      BY <1>1, <2>1, <2>3 DEF Types, Clean, TypeTells, Evidence, ChoiceInv
    <3>2. Cardinality({p \in pass.keptRemote \cap pass.proofs : p > r}) >= 2
      BY <1>2, <3>1 DEF authorizeCountExpiry
    <3>3. {p \in pass.keptRemote \cap pass.proofs : p > r} \subseteq PointsAbove(r)
      BY <1>2, FileTypes DEF PointsAbove, Passes
    <3>4. PointsAbove(r) \in SUBSET Runs
      BY DEF PointsAbove
    <3>5. QED BY <3>2, <3>3, <3>4, MoreRuns
  <2>4. \A q \in Intents' : q = r \/ q \in Intents
    BY <1>4 DEF Intents, Evidence, TruthInv, TypeInv, TypeOK
  <2>5. \A q : PointsAbove(q)' = PointsAbove(q) /\ logicalStorageRecord(q)' = logicalStorageRecord(q)
               /\ Readable(q)' = Readable(q)
    BY <1>1 DEF files, PointsAbove, logicalStorageRecord, Readable
  <2>6. kind' = kind /\ local' = local /\ remote' = remote
    BY <1>1 DEF files
  <2>7. QED BY <2>1, <2>2, <2>3, <2>4, <2>5, <2>6 DEF Listed, Clean, IntentTells
<1>13. QED BY <1>8, <1>9, <1>10, <1>11, <1>12 DEF Clean

LEMMA CleanRelease == ASSUME Evidence, Clean, NEW r \in Runs, ReleaseSecond(r) PROVE Clean'
<1>1. /\ pc = "emergency" /\ pc \in Chosen /\ UNCHANGED <<files, journals, todo, outcome, late, bounds>>
      /\ MayRelease(r) /\ (r \in pass.proofs \/ remote[r] = "complete")
      /\ pc' = "check" /\ job' = [run |-> r, phase |-> "final", result |-> "none"]
      /\ pass' = [pass EXCEPT !.proofs = @ \cup {r}, !.keptLocal = @ \ {r}, !.type[r] = "complete"]
  BY DEF ReleaseSecond, Goto, Chosen
<1>2. /\ pass'.mode = pass.mode /\ pass'.good = pass.good /\ pass'.keptLocal = pass.keptLocal \ {r}
      /\ pass'.keptRemote = pass.keptRemote /\ pass'.type = [pass.type EXCEPT ![r] = "complete"]
      /\ pass'.seen = pass.seen /\ pass'.over = pass.over /\ pass'.proofs = pass.proofs \cup {r}
      /\ job'.run = r /\ job'.phase = "final"
  BY <1>1, FileTypes DEF Passes
<1>3. Calm /\ pc' \in Chosen /\ pc' \in Busy
  BY <1>1 DEF Calm, files, journals, bounds, Chosen, Busy
<1>4. /\ ~Sufficient /\ todo = {} /\ r \in pass.good /\ guard[r] = "none" /\ local[r] = "intact"
      /\ logicalStorageRecord(r) /\ Readable(r)
  <2>1. ~Sufficient /\ r \in pass.good /\ guard[r] = "none" /\ local[r] # "none"
    BY <1>1 DEF MayRelease, Second, Newest
  <2>2. todo = {}
    BY <1>1, <2>1 DEF Clean, AllTried
  <2>3. local[r] = "intact" /\ logicalStorageRecord(r)
    BY <1>1, <2>1 DEF Clean, LocalKept, Active
  <2>4. Readable(r)
    BY <1>1 DEF Clean, RemoteKept, Readable
  <2>5. QED BY <2>1, <2>2, <2>3, <2>4
<1>5. Undisturbed' /\ LocalKept' /\ RemoteKept' /\ RefusedForCause'
  BY <1>1, <1>2, <1>3, <1>4, EvidenceCalm
<1>6. \A q \in Runs : pass'.type[q] = IF q = r THEN "complete" ELSE pass.type[q]
  BY <1>2, FileTypes DEF Passes
<1>7. TypeTells'
  <2>1. Listed(r)
    BY <1>4 DEF Listed, Readable
  <2>2. \A q : logicalStorageRecord(q)' = logicalStorageRecord(q)
    BY <1>3 DEF Calm, logicalStorageRecord
  <2>3. UNCHANGED <<kind, local, remote, guard>>
    BY <1>1 DEF files
  <2>4. QED BY <1>1, <1>2, <1>4, <1>6, <2>1, <2>2, <2>3 DEF Listed, Clean, TypeTells
<1>8. AllTried'
  <2>1. ASSUME NEW q \in Runs, q # r, Deletable(q)' PROVE Deletable(q)
    <3>1. pass'.type[q] = pass.type[q]
      BY <1>6, <2>1
    <3>2. NeedsCounterpart(q)' = NeedsCounterpart(q) /\ Counterpart(q)' = Counterpart(q)
      BY <3>1 DEF NeedsCounterpart, Counterpart
    <3>3. QED BY <1>1, <2>1, <3>1, <3>2 DEF Deletable, files, Readable
  <2>2. \A q \in Runs : ~Deletable(q)
    BY <1>1, <1>4 DEF Clean, AllTried, Busy
  <2>3. QED BY <1>1, <1>2, <1>3, <1>4, <2>1, <2>2 DEF AllTried
<1>9. OverKept'
  BY <1>1 DEF OverKept
<1>10. Authorized'
  <2>1. pass'.type[r] = "complete"
    BY <1>6
  <2>2. Counterpart(r)' = r /\ local'[r] # "damaged"
    BY <1>1, <1>4, <2>1 DEF Counterpart, files
  <2>3. QED BY <1>1, <1>2, <2>1, <2>2 DEF Authorized
<1>11. IntentTells'
  BY <1>1, <1>3, IntentsCalm DEF journals
<1>12. QED BY <1>5, <1>7, <1>8, <1>9, <1>10, <1>11 DEF Clean

\* The removal fails for other bytes only.
LEMMA CleanUnlink == ASSUME Evidence, Clean, unlinkStoragePayload, UNCHANGED accidents PROVE Clean'
<1> DEFINE r == job.run
<1>1. /\ pc = "unlink" /\ pc' = "record" /\ pc \in Chosen /\ pc' \in Chosen /\ pc \in Busy /\ pc' \in Busy
      /\ UNCHANGED <<kind, remote, guard, ident, folders, journals, pass, todo, outcome, late, settings>>
      /\ r \in Runs
  BY FileTypes DEF unlinkStoragePayload, Goto, Chosen, Busy
<1>2. pass.type[r] # "none" /\ guard[r] # "pinned" /\ ident[r] = pass.seen[r]
  BY <1>1 DEF Clean, Undisturbed, TypeTells, Evidence, JobInv
<1>3. \/ local[r] # "damaged" /\ local' = [local EXCEPT ![r] = "none"] /\ job' = [job EXCEPT !.result = "DELETED"]
      \/ local[r] = "damaged" /\ local' = local /\ job' = [job EXCEPT !.result = "FAILED"]
  BY <1>2 DEF unlinkStoragePayload, Accident, Evidence, TruthInv, TypeInv, TypeOK
<1>4. /\ job'.run = r /\ job'.phase = job.phase
      /\ \/ job'.result = "DELETED" /\ local'[r] = "none"
         \/ job'.result = "FAILED" /\ local'[r] = "damaged" /\ local[r] = "damaged"
  BY <1>1, <1>3, FileTypes DEF Jobs
<1>5. Calm
  BY <1>1, <1>3, FileTypes DEF Calm, journals
<1>6. pc' \in {"recover", "loop"} \/ (pc' \in Busy /\ job'.phase # "final") => pass'.keptLocal = pass.good
  BY <1>1, <1>4 DEF Clean, LocalKept, Active
<1>7. Undisturbed' /\ LocalKept' /\ RemoteKept' /\ RefusedForCause'
  BY <1>1, <1>5, <1>6, EvidenceCalm
<1>8. TypeTells' /\ \A q \in Runs : Deletable(q)' => Deletable(q)
  BY <1>1, <1>5, TypesCalm
<1>9. AllTried'
  <2>1. Sufficient => Sufficient'
    BY <1>5, CalmFacts
  <2>2. QED BY <1>1, <1>4, <1>8, <2>1 DEF Clean, AllTried
<1>10. OverKept'
  BY <1>1 DEF OverKept
<1>11. Authorized'
  BY <1>1, <1>4 DEF Clean, Authorized, Busy
<1>12. IntentTells'
  BY <1>1, <1>5, IntentsCalm DEF journals
<1>13. QED BY <1>7, <1>8, <1>9, <1>10, <1>11, <1>12 DEF Clean

LEMMA CleanRecord == ASSUME Evidence, Clean, RecordOutcome, UNCHANGED accidents PROVE Clean'
<1> DEFINE r == job.run
<1>1. /\ pc = "record" /\ pc \in Chosen /\ pc \in Busy /\ r \in Runs
      /\ UNCHANGED <<kind, local, remote, guard, ident, jident, settings>>
      /\ journal' = [journal EXCEPT ![r] = job.result] /\ job.result \in {"DELETED", "FAILED"}
      /\ job.phase \in {"recover", "loop", "final"}
  BY FileTypes, JobFacts DEF RecordOutcome, Chosen, Busy, Evidence, TruthInv, TypeInv, TypeOK, Jobs
<1>2. /\ \A q \in Runs : journal'[q] = "INTENT" => journal[q] = "INTENT" /\ q # r
      /\ journal'[r] = job.result
  BY <1>1 DEF Evidence, TruthInv, TypeInv, TypeOK
<1>3. CASE job.result = "FAILED"
  <2>1. Return("refused") /\ pass' = pass /\ job' = job
    BY <1>3 DEF RecordOutcome, Return, memory
  <2>2. local[r] = "damaged" /\ pass.type[r] = "expired"
    BY <1>1, <1>3 DEF Clean, Authorized
  <2>3. Spoiled(r)'
    BY <1>1, <1>2, <1>3, <2>1, <2>2 DEF Spoiled
  <2>4. Excused' /\ "refused" \in Outcomes
    BY <1>1, <2>1, <2>3 DEF Excused, Outcomes
  <2>5. QED BY <1>1, <1>2, <2>1, <2>4, CleanReturns
<1>4. CASE job.result = "DELETED"
  <2>1. pc' = job.phase /\ UNCHANGED <<pass, todo, job, outcome>>
    BY <1>4 DEF RecordOutcome, Goto, memory, Accident, Evidence, TruthInv, TypeInv, TypeOK
  <2>2. local[r] = "none"
    BY <1>1, <1>4 DEF Clean, Authorized
  <2>3. Calm /\ pc' \in Chosen /\ pc' \notin Busy
    BY <1>1, <2>1 DEF Calm, Chosen, Busy
  <2>4. pc' \in {"recover", "loop"} \/ (pc' \in Busy /\ job'.phase # "final") => pass'.keptLocal = pass.good
    BY <1>1, <2>1, <2>3 DEF Clean, LocalKept, Active
  <2>5. Undisturbed' /\ LocalKept' /\ RemoteKept' /\ RefusedForCause'
    BY <1>1, <2>1, <2>3, <2>4, EvidenceCalm
  <2>6. TypeTells' /\ \A q \in Runs : Deletable(q)' => Deletable(q)
    BY <1>1, <2>1, <2>3, TypesCalm
  <2>7. AllTried'
    <3>1. Sufficient => Sufficient'
      BY <2>3, CalmFacts
    <3>2. ~Deletable(r)
      BY <2>2 DEF Deletable
    <3>3. pc' \in {"emergency", "final"} => job.phase = "final"
      BY <1>1, <2>1
    <3>4. QED BY <1>1, <2>1, <2>3, <2>6, <3>1, <3>2, <3>3 DEF Clean, AllTried
  <2>8. Intents' = {}
    BY <1>1, <1>2 DEF Intents, Evidence, TruthInv, IntentInv
  <2>9. OverKept'
    BY <1>1, <2>1, <2>8 DEF OverKept
  <2>10. Authorized'
    BY <2>3 DEF Authorized, Busy
  <2>11. IntentTells'
    BY <2>8 DEF IntentTells
  <2>12. QED BY <2>5, <2>6, <2>7, <2>9, <2>10, <2>11 DEF Clean
<1>5. QED BY <1>1, <1>3, <1>4

LEMMA CleanBegin == ASSUME Evidence, Clean, NEW m \in Modes, Begin(m) PROVE Clean'
<1>1. /\ UNCHANGED <<kind, local, remote, guard, ident, journals, settings>>
      /\ pass' = NewPass(m, Sufficient, OverLimit(m))
      /\ \/ pc' = "scan" /\ outcome' = "none"
         \/ pc' = "idle" /\ outcome' = "proceed"
  BY DEF Begin, Goto
<1>2. /\ pass'.mode = m /\ pass'.over = OverLimit(m) /\ pass'.good = {} /\ pass'.keptRemote = {}
      /\ \A r \in Runs : pass'.seen[r] = 0
  BY <1>1 DEF NewPass
<1>3. Undisturbed'
  BY <1>1, <1>2 DEF Clean, Undisturbed, journals
<1>4. LocalKept' /\ RemoteKept' /\ TypeTells' /\ AllTried' /\ Authorized' /\ RefusedForCause'
  BY <1>1 DEF LocalKept, RemoteKept, TypeTells, AllTried, Authorized, RefusedForCause, Active, Chosen, Busy
<1>5. OverKept'
  <2>1. OverLimit(m)' = OverLimit(m)
    BY <1>1 DEF OverLimit, Limit, localPayloadRunCount, settings
  <2>2. OverLimit(pass.mode)' = OverLimit(m)'
    BY <1>2 DEF OverLimit, Limit
  <2>3. QED BY <1>2, <2>1, <2>2 DEF OverKept
<1>6. IntentTells'
  BY <1>1 DEF Listed, Clean, IntentTells, Intents, journals, logicalStorageRecord, Readable, PointsAbove
<1>7. QED BY <1>3, <1>4, <1>5, <1>6 DEF Clean

LEMMA CleanCapture == ASSUME Evidence, Clean, NEW r \in Runs, Capture(r) PROVE Clean'
<1>1. /\ kind[r] = "none" /\ pc = "idle" /\ pc' = "idle" /\ outcome' = "none"
      /\ UNCHANGED <<ident, journals, pass, bounds>>
  BY DEF Capture, memory
<1>2. PICK c \in Captures :
        /\ kind' = [kind EXCEPT ![r] = c.kind] /\ local' = [local EXCEPT ![r] = c.local]
        /\ remote' = [remote EXCEPT ![r] = c.remote] /\ guard' = [guard EXCEPT ![r] = c.guard]
  BY DEF Capture
<1>3. c.kind # "none"
  BY StorageAssumption DEF StorageAssumption
<1>4. /\ kind'[r] # "none"
      /\ \A q \in Runs : q # r => kind'[q] = kind[q] /\ local'[q] = local[q] /\ remote'[q] = remote[q]
  BY <1>2, <1>3, FileTypes
<1>5. Undisturbed'
  BY <1>1, <1>4 DEF Clean, Undisturbed, journals
<1>6. /\ LocalKept' /\ OverKept' /\ RemoteKept' /\ TypeTells' /\ AllTried' /\ Authorized'
      /\ RefusedForCause'
  BY <1>1 DEF LocalKept, OverKept, RemoteKept, TypeTells, AllTried, Authorized, RefusedForCause,
     Active, Chosen, Busy
<1>7. IntentTells'
  <2>1. Intents' = Intents /\ \A q \in Intents : q \in Runs /\ q # r
    BY <1>1 DEF Intents, journals, Clean, IntentTells
  <2>2. ASSUME NEW q \in Runs, Cardinality(PointsAbove(q)) >= 2
        PROVE  Cardinality(PointsAbove(q)') >= 2
    <3>1. remote[r] = "none"
      BY <1>1 DEF Clean, Undisturbed
    <3>2. PointsAbove(q) \subseteq PointsAbove(q)' /\ PointsAbove(q)' \in SUBSET Runs
      BY <1>4, <3>1 DEF PointsAbove
    <3>3. QED BY <2>2, <3>2, MoreRuns
  <2>3. \A q \in Runs : q # r => /\ logicalStorageRecord(q)' = logicalStorageRecord(q)
                                 /\ Readable(q)' = Readable(q)
    BY <1>4 DEF logicalStorageRecord, Readable
  <2>4. QED BY <1>4, <2>1, <2>2, <2>3 DEF Listed, Clean, IntentTells
<1>8. QED BY <1>5, <1>6, <1>7 DEF Clean

LEMMA CleanCrash == ASSUME Evidence, Clean, Crash PROVE Clean'
<1>1. /\ pc' = "idle" /\ pass' = NewPass("apply", FALSE, FALSE) /\ outcome' = "none"
      /\ UNCHANGED <<files, journals>>
  BY DEF Crash
<1>2. \A r \in Runs : pass'.seen[r] = 0
  BY <1>1 DEF NewPass
<1>3. Undisturbed'
  BY <1>1, <1>2 DEF Clean, Undisturbed, journals, files
<1>4. /\ LocalKept' /\ OverKept' /\ RemoteKept' /\ TypeTells' /\ AllTried' /\ Authorized'
      /\ RefusedForCause'
  BY <1>1 DEF LocalKept, OverKept, RemoteKept, TypeTells, AllTried, Authorized, RefusedForCause,
     Active, Chosen, Busy
<1>5. IntentTells'
  BY <1>1 DEF Listed, Clean, IntentTells, Intents, journals, files, logicalStorageRecord, Readable, PointsAbove
<1>6. QED BY <1>3, <1>4, <1>5 DEF Clean

LEMMA CleanStays == ASSUME Clean, UNCHANGED vars PROVE Clean'
<1>1. UNCHANGED <<kind, local, remote, guard, ident, folders, journal, jident, pc, pass, todo, job,
                  outcome, accidents, maxLocal, disk>>
  BY DEF vars, files, journals, memory, bounds, settings
<1>2. Undisturbed' /\ LocalKept' /\ OverKept' /\ RemoteKept'
  BY <1>1 DEF Clean, Undisturbed, LocalKept, OverKept, RemoteKept, KeptAbove, PointsAbove, Limit,
     OverLimit, localPayloadRunCount, Intents, logicalStorageRecord, Readable
<1>3. NeedsCounterpart(job.run)' = NeedsCounterpart(job.run) /\ Counterpart(job.run)' = Counterpart(job.run)
  BY <1>1 DEF NeedsCounterpart, Counterpart
<1>4. authorizeCountExpiry(job.run)' = authorizeCountExpiry(job.run)
  BY <1>1 DEF authorizeCountExpiry, checkProtected, localPayloadRunCount, Limit
<1>5. \A r : Deletable(r)' = Deletable(r) /\ Spoiled(r)' = Spoiled(r)
  BY <1>1 DEF Deletable, Spoiled, NeedsCounterpart, Counterpart, Readable
<1>6. Sufficient' = Sufficient
  BY <1>1 DEF Sufficient, localPayloadRunCount
<1>7. TypeTells' /\ AllTried' /\ Authorized'
  BY <1>1, <1>3, <1>4, <1>5, <1>6 DEF Listed, Clean, TypeTells, AllTried, Authorized, logicalStorageRecord
<1>8. IntentTells' /\ RefusedForCause'
  BY <1>1, <1>5, <1>6 DEF Listed, Clean, IntentTells, RefusedForCause, Intents, PointsAbove,
     logicalStorageRecord, Readable
<1>9. QED BY <1>2, <1>7, <1>8 DEF Clean

LEMMA CauseStep == CauseInv /\ [Next]_vars => CauseInv'
<1>1. SUFFICES ASSUME Evidence, CleanInv, [Next]_vars, accidents' = 0 PROVE Clean'
  BY EvidenceStep DEF CauseInv, CleanInv
<1>2. accidents \in Nat /\ \A c : ~Accident(c)
  BY <1>1 DEF Accident, Evidence, TruthInv, TypeInv, TypeOK
<1>3. \A r \in Runs : ~Protect(r) /\ ~Replace(r) /\ ~RemoteChanges(r)
  BY <1>2 DEF Protect, Pin, RestoreTest, Replace, RemoteChanges
<1>4. ~ListingFails /\ ~StorageFault
  BY <1>2 DEF ListingFails, StorageFault
<1>5. UNCHANGED accidents
  BY <1>1, <1>2, <1>3, <1>4 DEF Next, PassStep, Scan, VerifyRemote, recoverIntents, Recovered, DeleteNext,
     HoldNext, ReleaseSecond, NoIntentLeft, LoopEnds, NothingToRelease, Finish, CheckLocal, WriteIntent,
     unlinkStoragePayload, RecordOutcome, Begin, Capture, Crash, NoAccident, bounds, vars
<1>6. Clean
  BY <1>1, <1>5 DEF CleanInv
<1>7. CASE PassStep
  BY <1>1, <1>4, <1>5, <1>6, <1>7, CleanScan, CleanVerify, CleanRecover, CleanCandidate, CleanRelease,
     CleanRest, CleanCheck, CleanIntent, CleanUnlink, CleanRecord DEF PassStep
<1>8. CASE (\E m \in Modes : Begin(m)) \/ (\E r \in Runs : Capture(r)) \/ Crash
  BY <1>1, <1>6, <1>8, CleanBegin, CleanCapture, CleanCrash
<1>9. CASE UNCHANGED vars
  BY <1>6, <1>9, CleanStays
<1>10. QED BY <1>1, <1>3, <1>7, <1>8, <1>9 DEF Next

LEMMA CauseStart == Init => CauseInv
<1>1. SUFFICES ASSUME Init PROVE Evidence /\ Clean
  BY DEF CauseInv, CleanInv
<1>2. PICK h \in Histories :
        /\ kind = [r \in Runs |-> h[r].kind] /\ local = [r \in Runs |-> h[r].local]
        /\ remote = [r \in Runs |-> h[r].remote]
  BY <1>1 DEF Init
<1>3. \A r \in Runs : kind[r] = "none" => remote[r] = "none" /\ local[r] = "none"
  BY <1>2, StorageAssumption DEF StorageAssumption
<1>4. /\ pc = "idle" /\ outcome = "none" /\ \A r \in Runs : ident[r] = 0 /\ jident[r] = 0
      /\ \A r \in Runs : pass.seen[r] = 0 /\ journal[r] = "none"
  BY <1>1 DEF Init, NewPass
<1>5. Evidence
  BY <1>1, EvidenceStart
<1>6. QED BY <1>3, <1>4, <1>5 DEF Clean, Undisturbed, LocalKept, OverKept, RemoteKept, TypeTells,
      AllTried, Authorized, IntentTells, Intents, RefusedForCause, Active, Chosen, Busy

\* Without accidents a refused capture (ensure) does not fit, and then nothing that
\* cleanup could delete is left, or an expired payload has other bytes than its
\* manifest: no candidate is forgotten, no deletion fails by itself, and an intent
\* of a pass that crashed is authorized again.
THEOREM RefusalAlwaysCaused == Spec => []RefusedForCause
<1>1. CauseInv => RefusedForCause
  BY DEF CauseInv, CleanInv, Clean, RefusedForCause
<1>2. QED BY <1>1, CauseStart, CauseStep, PTL DEF Spec
=============================================================================
