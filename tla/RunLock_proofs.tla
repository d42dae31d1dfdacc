---------------------------- MODULE RunLock_proofs ----------------------------
(***************************************************************************)
(* Mutual exclusion by the backup lock, for any number of processes and    *)
(* threads, any number of deaths, and with PID reuse and I/O errors.       *)
(***************************************************************************)
EXTENDS RunLock, TLAPS

LEMMA InitType == Init => TypeOK
  BY LockAssumption DEF Init, TypeOK, Actors, Steps

LEMMA TypeStep == TypeOK /\ [Next]_vars => TypeOK'
<1> SUFFICES ASSUME TypeOK, [Next]_vars PROVE TypeOK'
  OBVIOUS
<1> USE LockAssumption DEF TypeOK, Steps, Fault
<1>1. ASSUME NEW p \in Pids, Start(p) \/ Reuse(p) \/ OtherEnds(p)
      PROVE  TypeOK'
  BY <1>1 DEF Start, Reuse, OtherEnds
<1>2. ASSUME NEW p \in Pids, Die(p)
      PROVE  TypeOK'
  BY <1>2 DEF Die
<1>3. ASSUME NEW a \in Actors, EnterRun(a) \/ EnterDirectly(a)
      PROVE  TypeOK'
  BY <1>3 DEF EnterRun, EnterDirectly, Opened, Goto, Actors, Pid
<1>4. ASSUME NEW a \in Actors, TakeFlock(a) \/ ReadOwner(a) \/ Unlock(a)
      PROVE  TypeOK'
  BY <1>4 DEF TakeFlock, ReadOwner, Unlock, Goto
<1>5. ASSUME NEW a \in Actors, Truncate(a) \/ WriteOwner(a) \/ ClearOwner(a)
      PROVE  TypeOK'
  BY <1>5 DEF Truncate, WriteOwner, ClearOwner, Goto, Actors, Pid
<1>6. ASSUME NEW a \in Actors, ClaimFails(a)
      PROVE  TypeOK'
  BY <1>6 DEF ClaimFails, Goto, Actors, Pid
<1>7. ASSUME NEW a \in Actors, Leave(a)
      PROVE  TypeOK'
  BY <1>7 DEF Leave, Goto, Actors, Pid
<1>8. CASE UNCHANGED vars
  BY <1>8 DEF vars
<1>9. QED
  BY <1>1, <1>2, <1>3, <1>4, <1>5, <1>6, <1>7, <1>8 DEF Next, Acquire

\* From the flock to the unlock an actor owns the flock, and nobody else
\* touches the content of the file.
Owning == {"read", "claim", "name", "hold", "unlock"}

Ownership ==
  /\ \A a \in Actors : pc[a] \in Owning => flock = a
  /\ HolderNamed

LockInv == TypeOK /\ Ownership

LEMMA OwnershipStep == LockInv /\ [Next]_vars => Ownership'
<1> SUFFICES ASSUME LockInv, [Next]_vars PROVE Ownership'
  OBVIOUS
<1> USE LockAssumption DEF LockInv, TypeOK, Ownership, HolderNamed, At, Owning
<1>1. ASSUME NEW p \in Pids, Start(p) \/ Reuse(p) \/ OtherEnds(p)
      PROVE  Ownership'
  BY <1>1 DEF Start, Reuse, OtherEnds
<1>2. ASSUME NEW p \in Pids, Die(p)
      PROVE  Ownership'
  BY <1>2 DEF Die
<1>3. ASSUME NEW a \in Actors, EnterRun(a) \/ EnterDirectly(a)
      PROVE  Ownership'
  BY <1>3 DEF EnterRun, EnterDirectly, Opened, Goto
<1>4. ASSUME NEW a \in Actors, TakeFlock(a) \/ ReadOwner(a) \/ Unlock(a)
      PROVE  Ownership'
  <2>1. CASE TakeFlock(a)
    <3>1. None \notin Actors
      BY DEF Actors
    <3>2. QED
      BY <2>1, <3>1 DEF TakeFlock, Goto
  <2>2. CASE ReadOwner(a)
    <3>1. ASSUME NEW b \in Actors, pc'[b] \in Owning
          PROVE  pc[b] \in Owning /\ flock' = b
      BY <2>2, <3>1 DEF ReadOwner, Goto
    <3>2. QED
      BY <2>2, <3>1 DEF ReadOwner, Goto
  <2>3. CASE Unlock(a)
    BY <2>3 DEF Unlock, Goto
  <2>4. QED
    BY <1>4, <2>1, <2>2, <2>3
<1>5. ASSUME NEW a \in Actors, Truncate(a) \/ WriteOwner(a) \/ ClearOwner(a)
      PROVE  Ownership'
  BY <1>5 DEF Truncate, WriteOwner, ClearOwner, Goto
<1>6. ASSUME NEW a \in Actors, ClaimFails(a)
      PROVE  Ownership'
  BY <1>6 DEF ClaimFails, Goto
<1>7. ASSUME NEW a \in Actors, Leave(a)
      PROVE  Ownership'
  BY <1>7 DEF Leave, Goto
<1>8. CASE UNCHANGED vars
  BY <1>8 DEF vars
<1>9. QED
  BY <1>1, <1>2, <1>3, <1>4, <1>5, <1>6, <1>7, <1>8 DEF Next, Acquire

LEMMA LockInvariant == Spec => []LockInv
<1>1. Init => LockInv
  BY InitType, LockAssumption
  DEF Init, LockInv, Ownership, HolderNamed, At, Owning, Actors
<1>2. LockInv /\ [Next]_vars => LockInv'
  BY TypeStep, OwnershipStep DEF LockInv
<1>3. QED
  BY <1>1, <1>2, PTL DEF Spec

\* At most one thread of at most one process is between a successful
\* acquireLock and its release, whoever died holding the lock before.
THEOREM MutualExclusion == Spec => []OneHolder
<1>1. LockInv => OneHolder
  BY DEF LockInv, Ownership, Owning, OneHolder, At
<1>2. QED
  BY <1>1, LockInvariant, PTL

\* The lock file names the process that holds the lock, throughout.
THEOREM HolderAlwaysNamed == Spec => []HolderNamed
<1>1. LockInv => HolderNamed
  BY DEF LockInv, Ownership
<1>2. QED
  BY <1>1, LockInvariant, PTL

(* The threads, the mutex, the flock and the file keep their types.        *)
THEOREM TypeCorrect == Spec => []TypeOK
  BY InitType, TypeStep, PTL DEF Spec

\* Without a fault the file names nobody, a process that died, or the holder:
\* a live process is named only while one of its threads holds the lock.
OwnerFound ==
  /\ flock # None => pc[flock] \in Owning
  /\ faults = 0 =>
       /\ \A p \in Pids : proc[p] # "other"
       /\ content # None => \/ proc[content] = "dead"
                            \/ flock # None /\ At(flock, "hold") /\ Pid(flock) = content

OwnerInv == LockInv /\ OwnerFound

LEMMA OwnerStep == OwnerInv /\ [Next]_vars => OwnerInv'
<1> SUFFICES ASSUME OwnerInv, [Next]_vars PROVE OwnerFound'
  BY TypeStep, OwnershipStep DEF OwnerInv, LockInv
<1>0. /\ proc \in [Pids -> {"dead", "tool", "other"}] /\ flock \in Actors \cup {None}
      /\ content \in Pids \cup {None} /\ pc \in [Actors -> Steps] /\ faults \in Nat
      /\ None \notin Pids /\ None \notin Actors
      /\ \A a \in Actors : Pid(a) \in Pids /\ (pc[a] \in Owning => flock = a)
  BY LockAssumption DEF OwnerInv, LockInv, TypeOK, Ownership, Actors, Pid
<1> USE <1>0 DEF OwnerInv, OwnerFound, At, Owning
<1>1. ASSUME NEW p \in Pids, Start(p)
      PROVE  OwnerFound'
  BY <1>1 DEF Start
<1>2. ASSUME NEW p \in Pids, Reuse(p)
      PROVE  OwnerFound'
  BY <1>2 DEF Reuse, Fault
<1>3. ASSUME NEW p \in Pids, OtherEnds(p)
      PROVE  OwnerFound'
  BY <1>3 DEF OtherEnds
<1>4. ASSUME NEW p \in Pids, Die(p)
      PROVE  OwnerFound'
  <2>1. /\ proc' = [proc EXCEPT ![p] = "dead"] /\ UNCHANGED <<content, faults>>
        /\ flock' = IF flock # None /\ Pid(flock) = p THEN None ELSE flock
        /\ \A a \in Actors : pc'[a] = IF Pid(a) = p THEN "idle" ELSE pc[a]
    BY <1>4 DEF Die
  <2>2. flock' # None => flock' = flock /\ Pid(flock) # p /\ pc'[flock] = pc[flock]
    BY <2>1
  <2>3. flock # None /\ flock' = None => Pid(flock) = p
    BY <2>1
  <2>4. content # None => proc'[content] = IF content = p THEN "dead" ELSE proc[content]
    BY <2>1
  <2>5. \A q \in Pids : proc[q] # "other" => proc'[q] # "other"
    BY <2>1
  <2>6. flock' # None => pc'[flock'] \in Owning
    BY <2>2
  <2>7. ASSUME faults' = 0, content' # None
        PROVE  \/ proc'[content'] = "dead"
               \/ flock' # None /\ At(flock, "hold")' /\ Pid(flock)' = content'
    <3>1. faults = 0 /\ content' = content /\ content # None
      BY <2>1, <2>7
    <3>2. CASE proc[content] = "dead" \/ content = p
      BY <2>4, <3>1, <3>2
    <3>3. CASE flock # None /\ pc[flock] = "hold" /\ Pid(flock) = content /\ content # p
      BY <2>2, <2>3, <3>1, <3>3
    <3>4. QED
      BY <3>1, <3>2, <3>3
  <2>8. QED
    BY <2>1, <2>5, <2>6, <2>7
<1>5. ASSUME NEW a \in Actors, EnterRun(a) \/ EnterDirectly(a)
      PROVE  OwnerFound'
  BY <1>5 DEF EnterRun, EnterDirectly, Opened, Goto
<1>6. ASSUME NEW a \in Actors, TakeFlock(a)
      PROVE  OwnerFound'
  BY <1>6 DEF TakeFlock, Goto
<1>7. ASSUME NEW a \in Actors, ReadOwner(a)
      PROVE  OwnerFound'
  BY <1>7 DEF ReadOwner, Goto
<1>8. ASSUME NEW a \in Actors, Truncate(a)
      PROVE  OwnerFound'
  BY <1>8 DEF Truncate, Goto
<1>9. ASSUME NEW a \in Actors, WriteOwner(a)
      PROVE  OwnerFound'
  BY <1>9 DEF WriteOwner, Goto
<1>10. ASSUME NEW a \in Actors, ClaimFails(a)
       PROVE  OwnerFound'
  BY <1>10 DEF ClaimFails, Fault
<1>11. ASSUME NEW a \in Actors, ClearOwner(a)
       PROVE  OwnerFound'
  BY <1>11 DEF ClearOwner, Goto, Fault
<1>12. ASSUME NEW a \in Actors, Unlock(a)
       PROVE  OwnerFound'
  BY <1>12 DEF Unlock, Goto
<1>13. ASSUME NEW a \in Actors, Leave(a)
       PROVE  OwnerFound'
  BY <1>13 DEF Leave, Goto
<1>14. CASE UNCHANGED vars
  BY <1>14 DEF vars
<1>15. QED
  BY <1>1, <1>2, <1>3, <1>4, <1>5, <1>6, <1>7, <1>8, <1>9, <1>10, <1>11, <1>12, <1>13, <1>14
  DEF Next, Acquire

LEMMA TurnedAway ==
  ASSUME OwnerInv, [Next]_vars, NEW a \in Actors,
         faults' = 0, pc[a] \in {"open", "read"}, pc'[a] = "leave"
  PROVE  flock \notin {None, a}
<1> USE DEF OwnerInv, LockInv, TypeOK
<1>1. ASSUME NEW b \in Actors, pc' = [pc EXCEPT ![b] = "leave"]
      PROVE  a = b
  BY <1>1
<1>2. ASSUME NEW b \in Actors, NEW s \in Steps, Goto(b, s), s # "leave"
      PROVE  FALSE
  BY <1>2 DEF Goto
<1>3. ASSUME NEW b \in Actors, TakeFlock(b)
      PROVE  flock \notin {None, a}
  <2>1. flock # None /\ a = b /\ pc[a] = "open"
    BY <1>1, <1>2, <1>3 DEF TakeFlock, Goto, At, Steps
  <2>2. flock # a
    BY <2>1 DEF OwnerFound, Owning
  <2>3. QED
    BY <2>1, <2>2
<1>4. ASSUME NEW b \in Actors, ReadOwner(b)
      PROVE  FALSE
  <2>1. a = b /\ pc[a] = "read" /\ ~isLockStale(content) /\ faults = 0
    BY <1>1, <1>2, <1>4 DEF ReadOwner, Goto, At, Steps
  <2>2. flock = a
    BY <2>1 DEF Ownership, Owning
  <2>3. QED
    BY <2>1, <2>2 DEF OwnerFound, At, isLockStale
<1>5. ASSUME NEW b \in Actors, ClaimFails(b)
      PROVE  FALSE
  BY <1>5 DEF ClaimFails, Fault
<1>6. ASSUME NEW b \in Actors,
             EnterRun(b) \/ EnterDirectly(b) \/ Truncate(b) \/ WriteOwner(b) \/ ClearOwner(b)
      PROVE  FALSE
  BY <1>2, <1>6 DEF EnterRun, EnterDirectly, Truncate, WriteOwner, ClearOwner, Steps
<1>7. ASSUME NEW b \in Actors, Unlock(b) \/ Leave(b)
      PROVE  FALSE
  BY <1>7 DEF Unlock, Leave, Goto, At
<1>8. CASE (\E p \in Pids : Start(p) \/ Reuse(p) \/ OtherEnds(p)) \/ UNCHANGED vars
  BY <1>8 DEF Start, Reuse, OtherEnds, vars
<1>9. ASSUME NEW p \in Pids, Die(p)
      PROVE  FALSE
  BY <1>9 DEF Die
<1>10. QED
  BY <1>3, <1>4, <1>5, <1>6, <1>7, <1>8, <1>9 DEF Next, Acquire

\* An attempt is turned away only while another actor owns the flock, never by
\* what a dead process left in the file (acquireLock, isLockStale), as long as
\* no PID is reused and the file can be written.
THEOREM BusyAlwaysOwned == Spec => BusyIsOwned
<1>1. Init => OwnerFound
  BY LockAssumption DEF Init, OwnerFound
<1>2. OwnerInv /\ [Next]_vars =>
        [\A a \in Actors :
           faults' = 0 /\ pc[a] \in {"open", "read"} /\ pc'[a] = "leave" => flock \notin {None, a}]_vars
  BY TurnedAway
<1>3. QED
  BY <1>1, <1>2, LockInvariant, OwnerStep, PTL DEF Spec, BusyIsOwned, OwnerInv
=============================================================================
