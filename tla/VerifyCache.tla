------------------------------ MODULE VerifyCache ------------------------------
(***************************************************************************)
(* The storage verification cache (storage_verify_cache.go, reliability.go,*)
(* storage_remote.go): verifications of local runs and of S3 objects reuse *)
(* what an earlier one read, as long as stat or HEAD show the same object. *)
(* Several verifications run at once, in one process or in two.            *)
(***************************************************************************)
EXTENDS Integers

CONSTANTS
  LocalFiles, RemoteObjects,  \* artifacts of one run, here and in S3
  Verifiers,                  \* verifications that may run at the same time
  ProcessOf,                  \* the process of a verification; it has the mutex
  TTL,                        \* BACKUP_STORAGE_VERIFY_CACHE_TTL, in ticks
  MaxClock, MaxChanges,       \* bounds: the clock, changes of the artifacts
  Steady,                     \* no local file changes while it is being checked
  NoEntry

Items == LocalFiles \cup RemoteObjects

ASSUME CacheAssumption ==
  /\ LocalFiles \cap RemoteObjects = {}
  /\ MaxClock \in Nat /\ MaxChanges \in Nat /\ Steady \in BOOLEAN
  /\ NoEntry \notin [identity : Nat, at : Nat] \cup Items

VARIABLES
  clock,
  disk,       \* disk[i]: identity (stat or ETag and version) and content now
  changes,
  stored,     \* storage-verify-cache.json
  verifier    \* verifier[v]: phase, items to do, and the cache in its memory

cacheVars == <<clock, disk, changes, stored, verifier>>

Entries == [identity : 0..MaxChanges, at : 0..MaxClock] \cup {NoEntry}
CachePhases == {"idle", "next", "record", "save", "write"}
Resting == [phase |-> "idle", full |-> FALSE, todo |-> {}, item |-> NoEntry, seen |-> 0,
         loaded |-> [i \in Items |-> NoEntry], added |-> [i \in Items |-> NoEntry]]

CacheTypeOK ==
  /\ clock \in 0..MaxClock /\ changes \in 0..MaxChanges
  /\ disk \in [Items -> [identity : 0..MaxChanges, content : {"whole", "damaged", "absent"}]]
  /\ stored \in [Items -> Entries]
  /\ verifier \in [Verifiers -> [phase : CachePhases, full : BOOLEAN, todo : SUBSET Items,
                                 item : Items \cup {NoEntry}, seen : 0..MaxChanges,
                                 loaded : [Items -> Entries], added : [Items -> Entries]]]
  /\ \A v \in Verifiers : verifier[v].phase = "record" => verifier[v].item # NoEntry

CacheInit ==
  /\ clock = 0 /\ changes = 0
  /\ disk \in [Items -> {[identity |-> 0, content |-> c] : c \in {"whole", "damaged"}}]
  /\ stored = [i \in Items |-> NoEntry]
  /\ verifier = [v \in Verifiers |-> Resting]

-----------------------------------------------------------------------------
Fresh(e) == e # NoEntry /\ clock - e.at < TTL

(* storageVerifyCacheMu, held from the load of a save to its write.        *)
MutexFree(v) ==
  \A w \in Verifiers : ProcessOf[w] = ProcessOf[v] => verifier[w].phase # "write"

Update(v, f) == verifier' = [verifier EXCEPT ![v] = f]
ToSave(v) == Update(v, [Resting EXCEPT !.phase = "save", !.added = verifier[v].added])
World == UNCHANGED <<clock, disk, changes>>

(* openStorageVerifyCache.  full is verifyLogicalCapture, which reads      *)
(* every artifact and only records; S3 objects are always looked up.       *)
OpenCache(v) ==
  /\ verifier[v].phase = "idle" /\ MutexFree(v)
  /\ \E items \in {LocalFiles, RemoteObjects}, full \in BOOLEAN :
       /\ items = RemoteObjects => ~full
       /\ Update(v, [Resting EXCEPT !.phase = "next", !.full = full, !.todo = items,
                                 !.loaded = stored])
  /\ World /\ UNCHANGED stored

UnchangedSinceMut(e, i) == Fresh(e)
UnchangedSince(e, i) ==
  /\ Fresh(e)
  /\ disk[i].content # "absent" /\ e.identity = disk[i].identity

(* lookupLocal and lookupRemote: stat or HEAD show what the entry says.    *)
Reuse(v, i) ==
  /\ verifier[v].phase = "next" /\ i \in verifier[v].todo
  /\ ~verifier[v].full /\ UnchangedSince(verifier[v].loaded[i], i)
  /\ Update(v, [verifier[v] EXCEPT !.todo = @ \ {i}])
  /\ World /\ UNCHANGED stored

ReadsWell(i) == disk[i].content = "whole"

(* logicalArtifactCheck or a download, when nothing can be reused or HEAD  *)
(* failed; the first artifact that is not whole, or cannot be read, ends   *)
(* the verification.                                                       *)
ReadItem(v, i) ==
  /\ verifier[v].phase = "next" /\ i \in verifier[v].todo
  /\ \/ verifier[v].full \/ i \in RemoteObjects
     \/ ~UnchangedSince(verifier[v].loaded[i], i)
  /\ \/ /\ ReadsWell(i)
        /\ Update(v, [verifier[v] EXCEPT !.phase = "record", !.item = i,
                                         !.seen = disk[i].identity])
     \/ ToSave(v)
  /\ World /\ UNCHANGED stored

(* The identity that goes with the evidence: recordLocal calls stat after  *)
(* the read, recordRemote takes the header of the answer that it read.     *)
Identity(v, i) == IF i \in LocalFiles THEN disk[i].identity ELSE verifier[v].seen

RecordItem(v) ==
  /\ verifier[v].phase = "record"
  /\ LET i == verifier[v].item
         e == [identity |-> Identity(v, i), at |-> clock]
         done == [verifier[v] EXCEPT !.phase = "next", !.todo = @ \ {i},
                                     !.item = NoEntry, !.seen = 0]
     IN IF i \in LocalFiles /\ disk[i].content = "absent" THEN Update(v, done)
        ELSE Update(v, [done EXCEPT !.loaded[i] = e, !.added[i] = e])
  /\ World /\ UNCHANGED stored

EndVerification(v) ==
  /\ verifier[v].phase = "next" /\ verifier[v].todo = {}
  /\ ToSave(v)
  /\ World /\ UNCHANGED stored

MergedMut(v) == verifier[v].added
(* Under the mutex the file is loaded again and merged with what this      *)
(* verification added.                                                     *)
Merged(v) == [i \in Items |-> IF verifier[v].added[i] # NoEntry THEN verifier[v].added[i]
                              ELSE stored[i]]

LoadForSave(v) ==
  /\ verifier[v].phase = "save"
  /\ IF \A i \in Items : verifier[v].added[i] = NoEntry THEN Update(v, Resting)
     ELSE /\ MutexFree(v)
          /\ Update(v, [verifier[v] EXCEPT !.phase = "write", !.loaded = Merged(v)])
  /\ World /\ UNCHANGED stored

(* Expired entries and those of missing files go; a failed write is only   *)
(* logged.                                                                 *)
Pruned(cache) ==
  [i \in Items |-> IF Fresh(cache[i]) /\ ~(i \in LocalFiles /\ disk[i].content = "absent")
                   THEN cache[i] ELSE NoEntry]

WriteCache(v) ==
  /\ verifier[v].phase = "write"
  /\ stored' \in {Pruned(verifier[v].loaded), stored}
  /\ Update(v, Resting)
  /\ World

-----------------------------------------------------------------------------
(* Another writer, a disk fault or an operator: every change of content    *)
(* changes the identity, and a removed file has none.                      *)
Change(i) ==
  /\ changes < MaxChanges /\ changes' = changes + 1
  /\ Steady /\ i \in LocalFiles =>
       \A v \in Verifiers : verifier[v].phase = "record" => verifier[v].item # i
  /\ \E c \in {"whole", "damaged", "absent"} :
       disk' = [disk EXCEPT ![i] = [identity |-> changes + 1, content |-> c]]
  /\ UNCHANGED <<clock, stored, verifier>>

TimePasses ==
  /\ clock < MaxClock /\ clock' = clock + 1
  /\ UNCHANGED <<disk, changes, stored, verifier>>

VerifierStep(v) ==
  \/ OpenCache(v) \/ RecordItem(v) \/ EndVerification(v) \/ LoadForSave(v) \/ WriteCache(v)
  \/ \E i \in Items : Reuse(v, i) \/ ReadItem(v, i)

CacheNext ==
  \/ \E v \in Verifiers : VerifierStep(v)
  \/ \E i \in Items : Change(i)
  \/ TimePasses

CacheSpec == CacheInit /\ [][CacheNext]_cacheVars

-----------------------------------------------------------------------------
(* "artifacts that were fully verified recently and have not changed       *)
(* since" (storage_verify_cache.go:20): an artifact that is accepted       *)
(* without reading it is whole, whatever was replaced and whichever        *)
(* verifications ran meanwhile.  For local files it needs Steady.          *)
AcceptedIsWhole ==
  [][\A v \in Verifiers, i \in Items : Reuse(v, i) => disk[i].content = "whole"]_cacheVars

(* "concurrent verifications do not discard each other's results"          *)
(* (storage_verify_cache.go:114): a result in the file that has not        *)
(* expired and whose artifact exists is at most replaced by another, also  *)
(* while changes and other verifications go on.  It holds within a process *)
(* unless a verification lasts so long that its own result has expired.    *)
ResultsKept ==
  [][\A i \in Items :
       /\ Fresh(stored[i]) /\ disk[i].content # "absent"
       /\ \A v \in Verifiers : LET e == verifier[v].added[i] IN e = NoEntry \/ Fresh(e)
       => stored'[i] # NoEntry]_cacheVars
=============================================================================
