------------------------------- MODULE TuiRun -------------------------------
(***************************************************************************)
(* The manual backup page of the terminal (internal/tui): the workflow up  *)
(* to the confirmation, the backup that runs in a goroutine of the same    *)
(* process, and the channel that carries its log lines to the page.  Every *)
(* command of Bubble Tea is a goroutine whose message reaches Update in    *)
(* any order; the backup blocks in its logger while the channel is full.   *)
(***************************************************************************)
EXTENDS Integers

CONSTANTS
  Runs,         \* the backups that may be confirmed, 1..N
  LogBuffer,    \* capacity of the channel (256 in the code)
  LogLines,     \* bound: lines a backup writes
  Patient,      \* TRUE: no start is confirmed before the previous run has settled
  None

ASSUME PageAssumption ==
  Runs \subseteq Nat /\ LogBuffer \in Nat \ {0} /\ LogLines \in Nat

Steps == <<"mode", "upload", "scope", "preview", "running", "done">>
StepNames == {Steps[i] : i \in 1..6}
Position(name) == CHOOSE i \in 1..6 : Steps[i] = name
RunConfigs == [force : BOOLEAN, preflight : BOOLEAN]
Outcomes == {"ok", "failed", "busy"}

VARIABLES
  page,     \* backupStep, manualSelected, manualForce, manualPreflight, running, runLogCh
  confirm,  \* the configuration that the open confirmation starts, or None
  run,      \* run[r]: how far backup r is, its configuration, outcome and channel
  readers,  \* readers[r]: goroutines of waitForRunLog on the channel of r
  lines,    \* lines[r]: runLogMsg in flight, read from the channel of r
  closes,   \* closes[r]: runLogsClosedMsg in flight
  locked    \* another process holds the backup lock

pageVars == <<page, confirm, run, readers, lines, closes, locked>>
logVars == <<readers, lines, closes>>

(* confirmed: startBackupMsg in flight; closed: the channel is closed and  *)
(* runFinishedMsg in flight.                                               *)
RunStates == {"new", "confirmed", "started", "working", "closed", "ended"}

PageTypeOK ==
  /\ page \in [step : StepNames, cursor : 0..2, force : BOOLEAN, preflight : BOOLEAN,
               running : BOOLEAN, log : Runs \cup {None}]
  /\ confirm \in RunConfigs \cup {None}
  /\ run \in [Runs -> [state : RunStates, cfg : RunConfigs \cup {None},
                       outcome : Outcomes \cup {None},
                       left : 0..LogLines, held : 0..LogBuffer]]
  /\ readers \in [Runs -> Nat] /\ lines \in [Runs -> Nat] /\ closes \in [Runs -> Nat]
  /\ locked \in BOOLEAN

PageInit ==
  /\ page = [step |-> "mode", cursor |-> 0, force |-> TRUE, preflight |-> FALSE,
             running |-> FALSE, log |-> None]
  /\ confirm = None
  /\ run = [r \in Runs |-> [state |-> "new", cfg |-> None, outcome |-> None,
                            left |-> LogLines, held |-> 0]]
  /\ readers = [r \in Runs |-> 0]
  /\ lines = [r \in Runs |-> 0]
  /\ closes = [r \in Runs |-> 0]
  /\ locked = FALSE

-----------------------------------------------------------------------------
(* Keys of the page: handleKey sends every key to an open confirmation,    *)
(* and handleBackupKey ignores the keys of a running backup.               *)

OnPage == confirm = None /\ ~page.running

maxManualSelectionMut(step) ==
  CASE step \in {"mode", "preview"} -> 3
    [] step = "upload" -> 1
    [] OTHER -> 0

maxManualSelection(step) ==
  CASE step \in {"mode", "preview"} -> 2
    [] step = "upload" -> 1
    [] OTHER -> 0

Go(step) == page' = [page EXCEPT !.step = step, !.cursor = 0]

MoveCursor ==
  /\ OnPage /\ page.step # "scope"
  /\ \E to \in {page.cursor - 1, page.cursor + 1} \cap 0..maxManualSelection(page.step) :
       page' = [page EXCEPT !.cursor = to]
  /\ UNCHANGED <<confirm, run, logVars, locked>>

(* h and left; on the scope step these keys belong to the scope page.      *)
StepBack ==
  /\ OnPage /\ page.step \notin {"mode", "scope"}
  /\ Go(Steps[Position(page.step) - 1])
  /\ UNCHANGED <<confirm, run, logVars, locked>>

(* n, and enter on the first steps; l, right or enter leave the scope page. *)
StepForward ==
  /\ OnPage /\ page.step \in {"mode", "upload", "scope"}
  /\ Go(Steps[Position(page.step) + 1])
  /\ UNCHANGED <<confirm, run, logVars, locked>>

ToggleForce ==
  /\ OnPage /\ page.step = "preview" /\ page.cursor = 0
  /\ page' = [page EXCEPT !.force = ~@]
  /\ UNCHANGED <<confirm, run, logVars, locked>>

TogglePreflight ==
  /\ OnPage /\ page.step = "preview" /\ page.cursor = 1
  /\ page' = [page EXCEPT !.preflight = ~@]
  /\ UNCHANGED <<confirm, run, logVars, locked>>

(* The confirmation captures the configuration of the preview.             *)
AskStart ==
  /\ OnPage /\ page.step = "preview" /\ page.cursor = 2
  /\ confirm' = [force |-> page.force, preflight |-> page.preflight]
  /\ UNCHANGED <<page, run, logVars, locked>>

Restart ==
  /\ OnPage /\ page.step = "done"
  /\ Go("mode")
  /\ UNCHANGED <<confirm, run, logVars, locked>>

(* setScreen, when the operator opens another page and comes back.         *)
VisitOtherPage ==
  /\ confirm = None /\ page.cursor # 0
  /\ page' = [page EXCEPT !.cursor = 0]
  /\ UNCHANGED <<confirm, run, logVars, locked>>

Cancel ==
  /\ confirm # None
  /\ confirm' = None
  /\ UNCHANGED <<page, run, logVars, locked>>

Settled(r) ==
  run[r].state \in {"new", "ended"} /\ readers[r] = 0 /\ lines[r] = 0 /\ closes[r] = 0

(* The command of the confirmation returns startBackupMsg.                 *)
ConfirmStart ==
  /\ confirm # None
  /\ Patient => \A r \in Runs : Settled(r)
  /\ \E r \in Runs :
       /\ run[r].state = "new" /\ \A q \in Runs : q < r => run[q].state # "new"
       /\ run' = [run EXCEPT ![r].state = "confirmed", ![r].cfg = confirm]
  /\ confirm' = None
  /\ UNCHANGED <<page, logVars, locked>>

-----------------------------------------------------------------------------
(* Messages.                                                               *)

StartBackup(r) ==
  /\ run[r].state = "confirmed"
  /\ run' = [run EXCEPT ![r].state = "started"]
  /\ page' = [page EXCEPT !.running = TRUE, !.step = "running", !.log = r]
  /\ readers' = [readers EXCEPT ![r] = @ + 1]
  /\ UNCHANGED <<confirm, lines, closes, locked>>

ShowLineMut(r) ==
  /\ lines[r] > 0
  /\ lines' = [lines EXCEPT ![r] = @ - 1]
  /\ UNCHANGED <<page, confirm, run, readers, closes, locked>>

(* runLogMsg: the next wait is on the channel the page has now.            *)
ShowLine(r) ==
  /\ lines[r] > 0
  /\ lines' = [lines EXCEPT ![r] = @ - 1]
  /\ readers' = IF page.log = None THEN readers ELSE [readers EXCEPT ![page.log] = @ + 1]
  /\ UNCHANGED <<page, confirm, run, closes, locked>>

LogClosed(r) ==
  /\ closes[r] > 0
  /\ closes' = [closes EXCEPT ![r] = @ - 1]
  /\ page' = [page EXCEPT !.log = None]
  /\ UNCHANGED <<confirm, run, readers, lines, locked>>

(* A busy backup returns to the preview with Start backup selected.        *)
RunFinished(r) ==
  /\ run[r].state = "closed"
  /\ run' = [run EXCEPT ![r].state = "ended"]
  /\ page' = IF run[r].outcome = "busy"
             THEN [page EXCEPT !.running = FALSE, !.step = "preview", !.cursor = 2]
             ELSE [page EXCEPT !.running = FALSE, !.step = "done"]
  /\ UNCHANGED <<confirm, logVars, locked>>

-----------------------------------------------------------------------------
(* Goroutines: the backup writes its log, waitForRunLog reads it.          *)

Working == {r \in Runs : run[r].state = "working"}

EnterBackup(r) ==
  /\ run[r].state = "started"
  /\ run' = IF locked \/ Working # {}
            THEN [run EXCEPT ![r].state = "closed", ![r].outcome = "busy"]
            ELSE [run EXCEPT ![r].state = "working"]
  /\ UNCHANGED <<page, confirm, logVars, locked>>

WriteLine(r) ==
  /\ run[r].state = "working" /\ run[r].left > 0 /\ run[r].held < LogBuffer
  /\ run' = [run EXCEPT ![r].left = @ - 1, ![r].held = @ + 1]
  /\ UNCHANGED <<page, confirm, logVars, locked>>

EndBackup(r) ==
  /\ run[r].state = "working" /\ run[r].left = 0
  /\ \E result \in {"ok", "failed"} :
       run' = [run EXCEPT ![r].state = "closed", ![r].outcome = result]
  /\ UNCHANGED <<page, confirm, logVars, locked>>

ReadLine(r) ==
  /\ readers[r] > 0 /\ run[r].held > 0
  /\ run' = [run EXCEPT ![r].held = @ - 1]
  /\ readers' = [readers EXCEPT ![r] = @ - 1]
  /\ lines' = [lines EXCEPT ![r] = @ + 1]
  /\ UNCHANGED <<page, confirm, closes, locked>>

ReadClosed(r) ==
  /\ readers[r] > 0 /\ run[r].held = 0 /\ run[r].state \in {"closed", "ended"}
  /\ readers' = [readers EXCEPT ![r] = @ - 1]
  /\ closes' = [closes EXCEPT ![r] = @ + 1]
  /\ UNCHANGED <<page, confirm, run, lines, locked>>

(* A scheduled run of another process takes or releases the lock.          *)
OtherProcess ==
  /\ Working = {}
  /\ locked' = ~locked
  /\ UNCHANGED <<page, confirm, run, logVars>>

RunSteps(r) ==
  \/ StartBackup(r) \/ ShowLine(r) \/ LogClosed(r) \/ RunFinished(r)
  \/ EnterBackup(r) \/ WriteLine(r) \/ EndBackup(r) \/ ReadLine(r) \/ ReadClosed(r)

PageNext ==
  \/ MoveCursor
  \/ StepBack
  \/ StepForward
  \/ ToggleForce
  \/ TogglePreflight
  \/ AskStart
  \/ Restart
  \/ VisitOtherPage
  \/ Cancel
  \/ ConfirmStart
  \/ OtherProcess
  \/ \E r \in Runs : RunSteps(r)

(* Goroutines are scheduled and Update handles every message.              *)
PageFairness ==
  \A r \in Runs :
    /\ WF_pageVars(StartBackup(r)) /\ WF_pageVars(ShowLine(r))
    /\ WF_pageVars(LogClosed(r)) /\ WF_pageVars(RunFinished(r))
    /\ WF_pageVars(EnterBackup(r)) /\ WF_pageVars(WriteLine(r))
    /\ WF_pageVars(EndBackup(r)) /\ WF_pageVars(ReadLine(r)) /\ WF_pageVars(ReadClosed(r))

PageSpec == PageInit /\ [][PageNext]_pageVars /\ PageFairness

-----------------------------------------------------------------------------
(* A backup that was confirmed ends and the page is told: it never stays   *)
(* blocked in its logger on a channel that nobody reads, whatever keys the *)
(* operator presses meanwhile.                                             *)
RunEnds == \A r \in Runs : run[r].state = "confirmed" ~> run[r].state = "ended"
=============================================================================
