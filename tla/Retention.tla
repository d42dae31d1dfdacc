------------------------------- MODULE Retention -------------------------------
(***************************************************************************)
(* Retention at the end of a run (retention.go, cleanup.go): a plan by     *)
(* generations, then the quarantine of its candidates one by one, beside   *)
(* restore tests (restore.go, database.go), operators and accidents.       *)
(***************************************************************************)
EXTENDS Integers, FiniteSets, SequencesExt

CONSTANTS
  MaxRuns,                  \* bound: runs 1..MaxRuns, in the order of their names
  DayOf, WeekOf, MonthOf,   \* the calendar of a run's timestamp
  Policies,                 \* the settings of retention, see policy
  MaxEvents                 \* bound: pins, restore tests and accidents

ASSUME RetentionAssumption == MaxRuns \in Nat /\ MaxEvents \in Nat

RunIds == 1..MaxRuns

VARIABLES
  policy,     \* [min, daily, weekly, monthly, verified]: BACKUP_RETENTION_...
  folder,     \* folder[r]: the folder of run r, where it is and what it holds
  proved,     \* runs whose newest restore test in the history succeeded
  pass,       \* [phase, todo, at] of the pass at the end of the newest run
  audit,      \* runs with a QUARANTINE_INTENT
  hurt,       \* runs damaged since the last plan, read only by the property
  events

retentionVars == <<policy, folder, proved, pass, audit, hurt, events>>

(* held: incomplete, unreadable, or with a physical or binlog dependency.  *)
(* tested: the manifest carries a successful restore test.                 *)
NoFolder == [place |-> "none", capture |-> "held", committed |-> FALSE,
             pinned |-> FALSE, tested |-> FALSE]
PassPhases == {"idle", "plan", "apply", "intent", "move"}

RetentionTypeOK ==
  /\ folder \in [RunIds -> [place : {"none", "local", "quarantine"},
                            capture : {"whole", "damaged", "held"},
                            committed : BOOLEAN, pinned : BOOLEAN, tested : BOOLEAN]]
  /\ policy \in Policies /\ events \in 0..MaxEvents
  /\ proved \subseteq RunIds /\ audit \subseteq RunIds /\ hurt \subseteq RunIds
  /\ pass \in [phase : PassPhases, todo : SUBSET RunIds, at : RunIds \cup {0}]
  /\ pass.phase \in {"intent", "move"} => pass.at # 0
  /\ \A r \in pass.todo : folder[r].place = "local"

RetentionInit ==
  /\ policy \in Policies
  /\ folder = [r \in RunIds |-> NoFolder]
  /\ proved = {} /\ audit = {} /\ hurt = {} /\ events = 0
  /\ pass = [phase |-> "idle", todo |-> {}, at |-> 0]

-----------------------------------------------------------------------------
Local(r) == folder[r].place = "local"
Captured == {r \in RunIds : folder[r].place # "none"}
CurrentRun == Cardinality(Captured)

(* PlanRetention holds everything but unpinned whole captures.             *)
HealthyMut == {r \in RunIds \ {CurrentRun} : Local(r) /\ ~folder[r].pinned}
Healthy == {r \in RunIds \ {CurrentRun} :
              Local(r) /\ ~folder[r].pinned /\ folder[r].capture = "whole"}

(* The newest of a period is kept while fewer than limit periods are.      *)
NewPeriodMut(periods, p, limit) == Cardinality(periods) < limit
NewPeriod(periods, p, limit) == p \notin periods /\ Cardinality(periods) < limit

TestCounts(r, n) == folder[r].tested /\ n < policy.verified

(* One round of the loop over the healthy runs, the newest first.          *)
Consider(acc, r) ==
  LET daily   == NewPeriod(acc.days, DayOf[r], policy.daily)
      weekly  == NewPeriod(acc.weeks, WeekOf[r], policy.weekly)
      monthly == NewPeriod(acc.months, MonthOf[r], policy.monthly)
      tested  == TestCounts(r, acc.tested)
      first   == acc.n < (IF policy.min < 1 THEN 1 ELSE policy.min)
  IN [n      |-> acc.n + 1,
      days   |-> acc.days \cup (IF daily THEN {DayOf[r]} ELSE {}),
      weeks  |-> acc.weeks \cup (IF weekly THEN {WeekOf[r]} ELSE {}),
      months |-> acc.months \cup (IF monthly THEN {MonthOf[r]} ELSE {}),
      tested |-> acc.tested + (IF tested THEN 1 ELSE 0),
      keep   |-> acc.keep \cup (IF daily \/ weekly \/ monthly \/ tested \/ first
                                THEN {r} ELSE {})]

Candidates ==
  Healthy \ FoldLeft(Consider,
                     [n |-> 0, days |-> {}, weeks |-> {}, months |-> {}, tested |-> 0, keep |-> {}],
                     SetToSortSeq(Healthy, >)).keep

-----------------------------------------------------------------------------
EndPass == pass' = [phase |-> "idle", todo |-> {}, at |-> 0]
Stays == UNCHANGED <<policy, proved, events>>

(* A run captures into its folder and reaches cleanupOldBackups; a crashed *)
(* pass before it left its plan behind.                                    *)
Capture ==
  /\ pass.phase = "idle" /\ CurrentRun < MaxRuns
  /\ \E capture \in {"whole", "held"}, committed \in BOOLEAN :
       folder' = [folder EXCEPT ![CurrentRun + 1] =
                    [NoFolder EXCEPT !.place = "local", !.capture = capture,
                                     !.committed = committed]]
  /\ pass' = [pass EXCEPT !.phase = "plan"]
  /\ UNCHANGED <<audit, hurt>> /\ Stays

Remaining(r) == pass.todo \ {r}

PlanRetention ==
  /\ pass.phase = "plan"
  /\ pass' = [phase |-> "apply", todo |-> Candidates, at |-> 0]
  /\ hurt' = {}
  /\ UNCHANGED <<folder, audit>> /\ Stays

(* applyRetentionPlan reads the manifest and every byte of the next        *)
(* candidate again; one that is not whole any more ends the pass.          *)
ReverifyCandidate ==
  /\ pass.phase = "apply"
  /\ IF pass.todo = {} THEN EndPass
     ELSE LET r == Min(pass.todo) IN
          IF folder[r].capture = "whole"
          THEN pass' = [phase |-> "intent", todo |-> Remaining(r), at |-> r]
          ELSE EndPass
  /\ UNCHANGED <<folder, audit, hurt>> /\ Stays

(* A pin is looked for once more; the intent comes before the move.        *)
WriteAudit ==
  /\ pass.phase = "intent"
  /\ \/ /\ folder[pass.at].pinned
        /\ pass' = [pass EXCEPT !.phase = "apply", !.at = 0]
        /\ UNCHANGED audit
     \/ /\ ~folder[pass.at].pinned
        /\ \/ pass' = [pass EXCEPT !.phase = "move"] /\ audit' = audit \cup {pass.at}
           \/ EndPass /\ UNCHANGED audit
  /\ UNCHANGED <<folder, hurt>> /\ Stays

MoveFolder ==
  /\ pass.phase = "move"
  /\ \/ /\ folder' = [folder EXCEPT ![pass.at].place = "quarantine"]
        /\ pass' = [pass EXCEPT !.phase = "apply", !.at = 0]
     \/ EndPass /\ UNCHANGED folder
  /\ UNCHANGED <<audit, hurt>> /\ Stays

CrashPass ==
  /\ pass.phase # "idle"
  /\ EndPass
  /\ UNCHANGED <<folder, audit, hurt>> /\ Stays

-----------------------------------------------------------------------------
(* Beside the pass.                                                        *)
Event ==
  /\ events < MaxEvents /\ events' = events + 1
  /\ UNCHANGED <<policy, pass, audit>>

PinRun(r) ==
  /\ Event /\ Local(r) /\ ~folder[r].pinned
  /\ folder' = [folder EXCEPT ![r].pinned = TRUE]
  /\ UNCHANGED <<proved, hurt>>

(* updateRunRecord rewrites the history, and then the manifest if the      *)
(* folder is there and not committed.                                      *)
RecordTest(r, ok) ==
  /\ proved' = IF ok THEN proved \cup {r} ELSE proved \ {r}
  /\ folder' = IF Local(r) /\ ~folder[r].committed
               THEN [folder EXCEPT ![r].tested = ok] ELSE folder

RestoreTest(r) ==
  /\ Event /\ r \in Captured
  /\ \/ folder[r].capture = "whole" /\ RecordTest(r, TRUE)
     \/ RecordTest(r, FALSE)
  /\ UNCHANGED hurt

DamageRun(r) ==
  /\ Event /\ Local(r) /\ folder[r].capture = "whole"
  /\ folder' = [folder EXCEPT ![r].capture = "damaged"]
  /\ hurt' = hurt \cup {r}
  /\ UNCHANGED proved

RetentionNext ==
  \/ Capture \/ PlanRetention \/ ReverifyCandidate \/ WriteAudit \/ MoveFolder \/ CrashPass
  \/ \E r \in RunIds : PinRun(r) \/ RestoreTest(r) \/ DamageRun(r)

RetentionSpec == RetentionInit /\ [][RetentionNext]_retentionVars

-----------------------------------------------------------------------------
(* "Minimum verified complete captures protected" (README.md:242): when a  *)
(* run is moved away, at least that many newer ones are still in place and *)
(* were whole when the pass looked at them, whatever crashes, damage, pins *)
(* and earlier passes left; only damage after the plan is not noticed.     *)
(* The move is "journaled" (README.md:241) before it happens.              *)
NewerKept(r) == {s \in RunIds \ {CurrentRun} :
                   /\ s > r /\ Local(s)
                   /\ folder[s].capture = "whole" \/ s \in hurt}
CoverageKept ==
  [][\A r \in RunIds : Local(r) /\ folder'[r].place = "quarantine"
                       => r \in audit /\ Cardinality(NewerKept(r)) >= policy.min]_retentionVars

(* The newest whole runs of the newest periods, by definition instead of   *)
(* by the loop.                                                            *)
Newest(n, S) == {x \in S : Cardinality({y \in S : y > x}) < n}
NewestPer(periodOf, n) ==
  LET firsts == {r \in Healthy : ~\E s \in Healthy : s > r /\ periodOf[s] = periodOf[r]}
  IN Newest(n, firsts)

(* "GFS local retention counts" (README.md:243): of the whole runs a plan  *)
(* proposes all but the newest ones, the newest one of each of the newest  *)
(* days, weeks and months that have any, and the newest tested ones; the   *)
(* limits count periods with a whole run, and one run may serve several.   *)
GenerationsKept ==
  [][PlanRetention =>
       pass'.todo = Healthy \ UNION
         {NewestPer(DayOf, policy.daily), NewestPer(WeekOf, policy.weekly),
          NewestPer(MonthOf, policy.monthly), Newest(policy.min, Healthy),
          Newest(policy.verified, {r \in Healthy : folder[r].tested})}]_retentionVars

(* "Number of newest sandbox-restore-verified local runs protected from    *)
(* cleanup" (README.md:244).  The plan reads the manifest, and a committed *)
(* manifest is immutable: the test of a published run reaches only the     *)
(* history, which the plan does not read.                                  *)
AllTestedKept ==
  [][PlanRetention =>
       pass'.todo \cap Newest(policy.verified, Healthy \cap proved) = {}]_retentionVars
=============================================================================
