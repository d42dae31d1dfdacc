---------------------------- MODULE ScheduleApply ----------------------------
(***************************************************************************)
(* The transaction that installs the schedule of the configuration as a    *)
(* systemd timer (schedule_apply.go, systemd.go) beside the other writers  *)
(* of .env and of the temporary overrides (config.go, httpapi.go).  Three  *)
(* files take part: .env, the override file and the drop-in of the timer;  *)
(* systemd runs the timer it loaded at its last daemon-reload.             *)
(***************************************************************************)
EXTENDS Integers

CONSTANTS
  Appliers,     \* processes that may apply: the terminal, the API, the command
  Plans,        \* values of the schedule settings that an override replaces
  Rendered,     \* the plans that a timer can express: daily@ and weekly@
  Rests,        \* values of all the other settings
  Absent        \* no file

Configs == [plan : Plans, rest : Rests]

VARIABLES
  env,          \* .env
  over,         \* plan of the override file while it has not expired, or Absent
  dropin,       \* calendars of 90-sdl-schedule.conf, or Absent
  loaded,       \* calendars of the timer that systemd runs
  strange,      \* another drop-in adds a calendar, so no verification succeeds
  active,       \* the timer unit is active
  tx            \* tx[a]: the transaction of applier a

filesVars == <<env, over, dropin, loaded, strange, active>>
applyVars == <<filesVars, tx>>

Calendars == Rendered \cup {Absent}

(* failed: a step of the rollback failed; foreign: a writer outside the    *)
(* transactions wrote .env meanwhile.  Both are history, read only by the  *)
(* properties.                                                             *)
Before == {"idle", "lock"}
Forward == {"read", "write", "save", "reload", "restart", "verify", "audit"}
Undoing == {"undoTimer", "undoEnv", "undoReload", "undoRestart"}
Idle == [phase |-> "idle", cfg |-> Absent, oldTimer |-> Absent, oldEnv |-> Absent,
         active |-> FALSE, failed |-> FALSE, foreign |-> FALSE]

ApplyTypeOK ==
  /\ env \in Configs /\ over \in Plans \cup {Absent}
  /\ dropin \in Calendars /\ loaded \in Calendars
  /\ strange \in BOOLEAN /\ active \in BOOLEAN
  /\ tx \in [Appliers -> [phase : Before \cup Forward \cup Undoing,
                          cfg : Configs \cup {Absent}, oldTimer : Calendars,
                          oldEnv : Configs \cup {Absent}, active : BOOLEAN,
                          failed : BOOLEAN, foreign : BOOLEAN]]

ApplyInit ==
  /\ env \in Configs /\ over = Absent /\ dropin = Absent /\ loaded = Absent
  /\ strange \in BOOLEAN /\ active \in BOOLEAN
  /\ tx = [a \in Appliers |-> Idle]

-----------------------------------------------------------------------------
(* loadConfigWithOverrides: .env with the unexpired override over it.      *)
Effective == IF over = Absent THEN env ELSE [env EXCEPT !.plan = over]

(* calendarConfigDrift of what systemctl show prints.                      *)
Drifted(cfg) == strange \/ loaded # cfg.plan

Held == \E a \in Appliers : tx[a].phase \in Forward \cup Undoing

To(a, phase) == tx' = [tx EXCEPT ![a].phase = phase]
End(a) == tx' = [tx EXCEPT ![a] = Idle]
Spoil(a, phase) == tx' = [tx EXCEPT ![a].phase = phase, ![a].failed = TRUE]

(* RunSystemdAction and the command load the effective configuration and   *)
(* render its timer; a schedule that no calendar expresses is refused.     *)
LoadSettings(a) ==
  /\ tx[a].phase = "idle"
  /\ Effective.plan \in Rendered
  /\ tx' = [tx EXCEPT ![a].phase = "lock", ![a].cfg = Effective]
  /\ UNCHANGED filesVars

(* An invalid calendar, or the schedule lock of another applier.           *)
Refuse(a) ==
  /\ tx[a].phase = "lock"
  /\ End(a)
  /\ UNCHANGED filesVars

TakeScheduleLock(a) ==
  /\ tx[a].phase = "lock" /\ ~Held
  /\ To(a, "read")
  /\ UNCHANGED filesVars

ReadOld(a) ==
  /\ tx[a].phase = "read"
  /\ \/ tx' = [tx EXCEPT ![a].phase = "write", ![a].oldTimer = dropin,
                         ![a].oldEnv = env, ![a].active = active]
     \/ End(a)
  /\ UNCHANGED filesVars

(* A failure of the directory sync after the rename leaves the new drop-in *)
(* and returns without a rollback.                                         *)
WriteDropIn(a) ==
  /\ tx[a].phase = "write"
  /\ \/ dropin' = tx[a].cfg.plan /\ To(a, "save")
     \/ dropin' \in {dropin, tx[a].cfg.plan} /\ End(a)
  /\ UNCHANGED <<env, over, loaded, strange, active>>

SaveSettings(a) ==
  /\ tx[a].phase = "save"
  /\ \/ env' = tx[a].cfg /\ To(a, "reload")
     \/ env' \in {env, tx[a].cfg} /\ To(a, "undoTimer")
  /\ UNCHANGED <<over, dropin, loaded, strange, active>>

Reload(a) ==
  /\ tx[a].phase = "reload"
  /\ \/ loaded' = dropin /\ To(a, IF tx[a].active THEN "restart" ELSE "verify")
     \/ loaded' = loaded /\ To(a, "undoTimer")
  /\ UNCHANGED <<env, over, dropin, strange, active>>

RestartTimer(a) ==
  /\ tx[a].phase = "restart"
  /\ \/ active' = TRUE /\ To(a, "verify")
     \/ active' = FALSE /\ To(a, "undoTimer")
  /\ UNCHANGED <<env, over, dropin, loaded, strange>>

Verify(a) ==
  /\ tx[a].phase = "verify"
  /\ \/ ~Drifted(tx[a].cfg) /\ To(a, "audit")
     \/ To(a, "undoTimer")
  /\ UNCHANGED filesVars

(* The audit is the last write; its error is returned and nothing undone.  *)
Audit(a) ==
  /\ tx[a].phase = "audit"
  /\ End(a)
  /\ UNCHANGED filesVars

-----------------------------------------------------------------------------
(* rollback: each step goes on after the error of another.                 *)

UndoTimer(a) ==
  /\ tx[a].phase = "undoTimer"
  /\ \/ dropin' = tx[a].oldTimer /\ To(a, "undoEnv")
     \/ dropin' = dropin /\ Spoil(a, "undoEnv")
  /\ UNCHANGED <<env, over, loaded, strange, active>>

UndoEnvMut(a) ==
  /\ tx[a].phase = "undoEnv"
  /\ To(a, "undoReload")
  /\ UNCHANGED filesVars

UndoEnv(a) ==
  /\ tx[a].phase = "undoEnv"
  /\ \/ env' = tx[a].oldEnv /\ To(a, "undoReload")
     \/ env' = env /\ Spoil(a, "undoReload")
  /\ UNCHANGED <<over, dropin, loaded, strange, active>>

UndoReload(a) ==
  /\ tx[a].phase = "undoReload"
  /\ \/ loaded' = dropin /\ To(a, "undoRestart")
     \/ loaded' = loaded /\ Spoil(a, "undoRestart")
  /\ UNCHANGED <<env, over, dropin, strange, active>>

UndoRestart(a) ==
  /\ tx[a].phase = "undoRestart"
  /\ active' \in IF tx[a].active THEN BOOLEAN ELSE {active}
  /\ End(a)
  /\ UNCHANGED <<env, over, dropin, loaded, strange>>

(* A crash, or the cancelled context of a request that kills systemctl and *)
(* ends the process: nothing continues a transaction that was cut.         *)
CrashApply(a) ==
  /\ tx[a].phase \in Forward \cup Undoing
  /\ End(a)
  /\ UNCHANGED filesVars

-----------------------------------------------------------------------------
(* The other writers.                                                      *)

(* SaveConfig by the terminal, or by the API after updateConfigFromRequest. *)
SaveOther ==
  /\ \E cfg \in Configs : env' = cfg
  /\ tx' = [a \in Appliers |->
              [tx[a] EXCEPT !.foreign = tx[a].phase \in Forward \cup Undoing]]
  /\ UNCHANGED <<over, dropin, loaded, strange, active>>

SaveTemporaryOverrides ==
  /\ \E p \in Plans : over' = p
  /\ UNCHANGED <<env, dropin, loaded, strange, active, tx>>

(* ClearTemporaryOverrides, or the first reader after the expiry.          *)
ClearTemporaryOverrides ==
  /\ over # Absent
  /\ over' = Absent
  /\ UNCHANGED <<env, dropin, loaded, strange, active, tx>>

(* systemctl start and stop of the timer.                                  *)
SwitchTimer ==
  /\ active' = ~active
  /\ UNCHANGED <<env, over, dropin, loaded, strange, tx>>

ApplySteps(a) ==
  \/ LoadSettings(a) \/ Refuse(a) \/ TakeScheduleLock(a) \/ ReadOld(a)
  \/ WriteDropIn(a) \/ SaveSettings(a) \/ Reload(a) \/ RestartTimer(a)
  \/ Verify(a) \/ Audit(a) \/ UndoTimer(a) \/ UndoEnv(a) \/ UndoReload(a)
  \/ UndoRestart(a) \/ CrashApply(a)

ApplyNext ==
  \/ \E a \in Appliers : ApplySteps(a)
  \/ SaveOther
  \/ SaveTemporaryOverrides
  \/ ClearTemporaryOverrides
  \/ SwitchTimer

ApplySpec == ApplyInit /\ [][ApplyNext]_applyVars

-----------------------------------------------------------------------------
Installed(a) ==
  /\ {dropin, loaded} = {tx[a].cfg.plan} /\ ~strange
  /\ tx[a].foreign \/ env = tx[a].cfg

Restored(a) ==
  /\ {dropin', loaded'} = {tx[a].oldTimer}
  /\ tx[a].foreign \/ env' = tx[a].oldEnv

(* An applied schedule is all or nothing although three parties take part: *)
(* when the transaction gets as far as its audit, the drop-in, the timer   *)
(* that systemd runs and .env hold the same schedule; when it was rolled   *)
(* back and no step of the rollback failed, all three are what they were   *)
(* before.  Only a write of .env by someone else is left out.              *)
ApplyAllOrNothing ==
  [][\A a \in Appliers :
       /\ tx[a].phase = "audit" /\ tx'[a].phase = "idle" => Installed(a)
       /\ tx[a].phase = "undoRestart" /\ tx'[a].phase = "idle"
            => Restored(a) \/ tx[a].failed]_applyVars
=============================================================================
