-------------------------------- MODULE RunLock --------------------------------
(***************************************************************************)
(* The lock shared by scheduled runs, the TUI, the API and the recovery    *)
(* commands: a mutex inside each process, an advisory flock on the lock    *)
(* file, and a PID in that file.  The kernel drops the flock of a process  *)
(* that dies; the PID stays behind and has to be recognised as stale,      *)
(* although the system may meanwhile have given it to another process.     *)
(***************************************************************************)
EXTENDS Naturals

CONSTANTS
  Pids, Threads,
  None,       \* no PID in the file, no owner
  MaxDeaths,  \* bound: process deaths this instance explores
  MaxFaults   \* bound: PIDs reused and I/O errors on the lock file

ASSUME LockAssumption ==
  /\ None \notin Pids /\ None \notin Threads /\ None \notin Pids \X Threads
  /\ MaxDeaths \in Nat /\ MaxFaults \in Nat

Actors == Pids \X Threads
Pid(a) == a[1]

VARIABLES
  proc,     \* proc[p]: no process, one of this tool's, or an unrelated one
  mutex,    \* mutex[p]: the thread that owns backupRunMutex
  flock,    \* the actor whose open file description owns the flock
  content,  \* the PID in the lock file
  pc,
  deaths, faults

vars == <<proc, mutex, flock, content, pc, deaths, faults>>

\* The steps of acquireLock, of its holder and of its release.
Steps == {"idle", "open", "read", "claim", "name", "hold", "unlock", "leave"}

TypeOK ==
  /\ proc \in [Pids -> {"dead", "tool", "other"}]
  /\ mutex \in [Pids -> Threads \cup {None}]
  /\ flock \in Actors \cup {None}
  /\ content \in Pids \cup {None}
  /\ pc \in [Actors -> Steps]
  /\ deaths \in Nat /\ faults \in Nat

Init ==
  /\ proc = [p \in Pids |-> "dead"]
  /\ mutex = [p \in Pids |-> None]
  /\ flock = None
  /\ content \in Pids \cup {None}
  /\ pc = [a \in Actors |-> "idle"]
  /\ deaths = 0 /\ faults = 0

At(a, step) == pc[a] = step
Goto(a, step) == pc' = [pc EXCEPT ![a] = step]
Fault == faults < MaxFaults /\ faults' = faults + 1

-----------------------------------------------------------------------------
\* A runner, TUI or API process starts, with a PID that is not in the file.
Start(p) ==
  /\ proc[p] = "dead" /\ content # p
  /\ proc' = [proc EXCEPT ![p] = "tool"]
  /\ UNCHANGED <<mutex, flock, content, pc, deaths, faults>>

\* The PID in the file goes to a new process, of this tool or of another.
Reuse(p) ==
  /\ proc[p] = "dead" /\ content = p /\ Fault
  /\ \E kind \in {"tool", "other"} : proc' = [proc EXCEPT ![p] = kind]
  /\ UNCHANGED <<mutex, flock, content, pc, deaths>>

\* That process ends some day.
OtherEnds(p) ==
  /\ proc[p] = "other"
  /\ proc' = [proc EXCEPT ![p] = "dead"]
  /\ UNCHANGED <<mutex, flock, content, pc, deaths, faults>>

\* A process of this tool dies, whatever its threads are doing.
Die(p) ==
  /\ proc[p] = "tool" /\ deaths < MaxDeaths
  /\ deaths' = deaths + 1
  /\ proc' = [proc EXCEPT ![p] = "dead"]
  /\ mutex' = [mutex EXCEPT ![p] = None]
  /\ flock' = IF flock # None /\ Pid(flock) = p THEN None ELSE flock
  /\ pc' = [a \in Actors |-> IF Pid(a) = p THEN "idle" ELSE pc[a]]
  /\ UNCHANGED <<content, faults>>

\* Mutant: the file is opened with O_TRUNC.
OpenedTruncated == None

\* Opening the file, created or not, leaves its content alone.
Opened == content

\* RunBackup gives up at once when another thread of its process runs one.
EnterRun(a) ==
  /\ proc[Pid(a)] = "tool" /\ At(a, "idle")
  /\ mutex[Pid(a)] = None
  /\ mutex' = [mutex EXCEPT ![Pid(a)] = a[2]]
  /\ content' = Opened
  /\ Goto(a, "open")
  /\ UNCHANGED <<proc, flock, deaths, faults>>

\* Reconciliation and the storage recovery commands only take the file lock.
EnterDirectly(a) ==
  /\ proc[Pid(a)] = "tool" /\ At(a, "idle")
  /\ content' = Opened
  /\ Goto(a, "open")
  /\ UNCHANGED <<proc, mutex, flock, deaths, faults>>

\* Mutant: LOCK_SH, which any number of readers obtain.
TakeShared(a) ==
  /\ At(a, "open")
  /\ flock' = a /\ Goto(a, "read")
  /\ UNCHANGED <<proc, mutex, content, deaths, faults>>

\* LOCK_EX without waiting: taken, or busy.
TakeFlock(a) ==
  /\ At(a, "open")
  /\ \/ flock = None /\ flock' = a /\ Goto(a, "read")
     \/ flock # None /\ Goto(a, "leave") /\ UNCHANGED flock
  /\ UNCHANGED <<proc, mutex, content, deaths, faults>>

\* Mutant: FindProcess succeeds for every PID.
StaleIfEmpty(p) == p = None

\* isLockStale: no PID, or signal 0 finds no process.
isLockStale(p) == p = None \/ proc[p] = "dead"

\* The content decides: a live owner other than this process means busy.
ReadOwner(a) ==
  /\ At(a, "read")
  /\ IF isLockStale(content) \/ content = Pid(a)
     THEN Goto(a, "claim") /\ UNCHANGED flock
     ELSE Goto(a, "leave") /\ flock' = None
  /\ UNCHANGED <<proc, mutex, content, deaths, faults>>

Truncate(a) ==
  /\ At(a, "claim")
  /\ content' = None /\ Goto(a, "name")
  /\ UNCHANGED <<proc, mutex, flock, deaths, faults>>

\* Mutant: the ID of the thread is written.
WriteThread(a) ==
  /\ At(a, "name")
  /\ content' = a[2] /\ Goto(a, "hold")
  /\ UNCHANGED <<proc, mutex, flock, deaths, faults>>

WriteOwner(a) ==
  /\ At(a, "name")
  /\ content' = Pid(a) /\ Goto(a, "hold")
  /\ UNCHANGED <<proc, mutex, flock, deaths, faults>>

\* Reading, truncating, writing or syncing fails: the file is closed, perhaps
\* with the PID of this process already in it.
ClaimFails(a) ==
  /\ Fault /\ pc[a] \in {"read", "claim", "name"}
  /\ content' \in {content} \cup (IF At(a, "name") THEN {Pid(a)} ELSE {})
  /\ flock' = None /\ Goto(a, "leave")
  /\ UNCHANGED <<proc, mutex, deaths>>

\* Release: empty the file (an error is ignored) while still owning it ...
ClearOwner(a) ==
  /\ At(a, "hold")
  /\ \/ content' = None /\ UNCHANGED faults
     \/ Fault /\ UNCHANGED content
  /\ Goto(a, "unlock")
  /\ UNCHANGED <<proc, mutex, flock, deaths>>

\* Mutant: the descriptor is leaked and stays locked.
LeakFlock(a) ==
  /\ At(a, "unlock")
  /\ Goto(a, "leave")
  /\ UNCHANGED <<proc, mutex, flock, content, deaths, faults>>

\* ... then unlock and close it.
Unlock(a) ==
  /\ At(a, "unlock")
  /\ flock' = None /\ Goto(a, "leave")
  /\ UNCHANGED <<proc, mutex, content, deaths, faults>>

\* RunBackup's deferred Unlock of the mutex, also on the busy paths.
Leave(a) ==
  /\ At(a, "leave")
  /\ mutex' = [mutex EXCEPT ![Pid(a)] = IF @ = a[2] THEN None ELSE @]
  /\ Goto(a, "idle")
  /\ UNCHANGED <<proc, flock, content, deaths, faults>>

\* The steps a thread takes on its own once it has entered.
Acquire(a) ==
  TakeFlock(a) \/ ReadOwner(a) \/ Truncate(a) \/ WriteOwner(a) \/ Leave(a)

Next ==
  \/ \E p \in Pids : Start(p) \/ Reuse(p) \/ OtherEnds(p) \/ Die(p)
  \/ \E a \in Actors : \/ EnterRun(a) \/ EnterDirectly(a) \/ Acquire(a)
                       \/ ClaimFails(a) \/ ClearOwner(a) \/ Unlock(a)

Spec == Init /\ [][Next]_vars

\* The timer starts the runner again and again, a process that is not killed
\* keeps running, and a release once begun is finished.  How long a holder
\* keeps the lock is not assumed.
Fairness ==
  /\ \A p \in Pids : WF_vars(Start(p))
  /\ \A a \in Actors : WF_vars(EnterRun(a)) /\ WF_vars(Acquire(a) \/ Unlock(a))

FairSpec == Spec /\ Fairness
-----------------------------------------------------------------------------
\* Two operations that need the lock never run at the same time, whether they
\* are threads of one process or of two, also after deaths, PID reuse and I/O
\* errors.  README.md: the lock is there "to prevent overlapping runs".
OneHolder ==
  \A a, b \in Actors : At(a, "hold") /\ At(b, "hold") => a = b

\* While the lock is held the file names its holder: no failed attempt, late
\* release or recovery of a stale lock erases it.
HolderNamed == \A a \in Actors : At(a, "hold") => content = Pid(a)

\* "ErrBackupBusy means no new capture started because another run owns the
\* lock" (app.go): unless a PID was reused or the file could not be written,
\* an attempt is turned away only while another actor owns the flock, never
\* because of what a dead process left behind.
BusyIsOwned ==
  [][\A a \in Actors :
       faults' = 0 /\ pc[a] \in {"open", "read"} /\ pc'[a] = "leave"
         => flock \notin {None, a}]_vars

\* However the previous owners died, the lock is obtained again and again,
\* unless a PID was reused or the file could not be written.
LockRegained == [](faults = 0) => []<>(\E a \in Actors : At(a, "hold"))
=============================================================================
