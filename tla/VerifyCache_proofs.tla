--------------------------- MODULE VerifyCache_proofs ---------------------------
(***************************************************************************)
(* Theorems about the verification cache, for any artifacts, any number of *)
(* verifications in any processes, any TTL and any number of changes.      *)
(***************************************************************************)
EXTENDS VerifyCache, TLAPS

Identities == 0..MaxChanges
Caches == [Items -> Entries]
Records == [phase : CachePhases, full : BOOLEAN, todo : SUBSET Items,
            item : Items \cup {NoEntry}, seen : Identities, loaded : Caches, added : Caches]
Disks == [Items -> [identity : Identities, content : {"whole", "damaged", "absent"}]]

(* Items whose identity cannot change between the read and the entry.      *)
Trusted(i) == Steady \/ i \in RemoteObjects

(* What an entry for i promises: while the identity is the same, i is      *)
(* whole.  Identities are never used again, since none is above changes.   *)
Promise(n, i) == n <= changes /\ (n = disk[i].identity => disk[i].content = "whole")
SoundEntry(e, i) == e = NoEntry \/ Promise(e.identity, i)
SoundCache(c) == \A i \in Items : Trusted(i) => SoundEntry(c[i], i)

SoundVerifier(g) ==
  /\ SoundCache(g.loaded) /\ SoundCache(g.added)
  /\ g.phase = "record" =>
       /\ g.item \in Items /\ Promise(g.seen, g.item)
       /\ Steady /\ g.item \in LocalFiles => g.seen = disk[g.item].identity

CacheInv ==
  /\ CacheTypeOK
  /\ \A i \in Items : disk[i].identity <= changes
  /\ SoundCache(stored)
  /\ \A v \in Verifiers : SoundVerifier(verifier[v])

-----------------------------------------------------------------------------
LEMMA Fields ==
  ASSUME NEW g \in Records
  PROVE  /\ g.phase \in CachePhases /\ g.full \in BOOLEAN /\ g.todo \subseteq Items
         /\ g.item \in Items \cup {NoEntry} /\ g.seen \in Identities
         /\ g.loaded \in Caches /\ g.added \in Caches
BY DEF Records

LEMMA TypeUnfolded ==
  CacheTypeOK <=> /\ clock \in 0..MaxClock /\ changes \in Identities /\ disk \in Disks
                  /\ stored \in Caches /\ verifier \in [Verifiers -> Records]
                  /\ \A v \in Verifiers : verifier[v].phase = "record" => verifier[v].item # NoEntry
BY DEF CacheTypeOK, Identities, Disks, Caches, Records

LEMMA IdleFields ==
  /\ Resting \in Records /\ Resting.phase = "idle"
  /\ \A i \in Items : Resting.loaded[i] = NoEntry /\ Resting.added[i] = NoEntry
<1> Resting \in Records
  BY CacheAssumption DEF Resting, Records, CachePhases, Caches, Entries, Identities
<1> QED
  BY DEF Resting

(* A step of one verification keeps everything when its new record is good.*)
LEMMA RecordStep ==
  ASSUME CacheInv, NEW v \in Verifiers, NEW g \in Records, Update(v, g), World,
         stored' = stored, SoundVerifier(g), g.phase = "record" => g.item # NoEntry
  PROVE  CacheInv'
<1>1. \A w \in Verifiers : verifier'[w] = IF w = v THEN g ELSE verifier[w]
  BY TypeUnfolded DEF Update, CacheInv
<1>2. verifier' \in [Verifiers -> Records]
  BY TypeUnfolded DEF Update, CacheInv
<1>3. clock' = clock /\ disk' = disk /\ changes' = changes
  BY DEF World
<1>4. CacheTypeOK'
  BY <1>1, <1>2, <1>3, TypeUnfolded DEF CacheInv, CacheTypeOK, Records, Caches, Identities
<1>5. \A w \in Verifiers : SoundVerifier(verifier'[w])
  BY <1>1 DEF CacheInv
<1>6. (\A w \in Verifiers : SoundVerifier(verifier[w]))' /\ SoundCache(stored)'
  BY <1>3, <1>5 DEF SoundVerifier, SoundCache, SoundEntry, Promise, CacheInv, Trusted
<1> QED
  BY <1>3, <1>4, <1>6 DEF CacheInv

LEMMA Empty == Resting.loaded \in Caches /\ SoundCache(Resting.loaded) /\ Resting.added = Resting.loaded
<1>1. Resting.loaded = [i \in Items |-> NoEntry] /\ Resting.added = Resting.loaded
  BY DEF Resting
<1> QED
  BY <1>1 DEF Caches, Entries, SoundCache, SoundEntry

LEMMA OpenStep ==
  ASSUME CacheInv, NEW v \in Verifiers, OpenCache(v)
  PROVE  CacheInv'
<1>1. PICK items \in {LocalFiles, RemoteObjects}, full \in BOOLEAN :
        Update(v, [Resting EXCEPT !.phase = "next", !.full = full, !.todo = items,
                               !.loaded = stored])
  BY DEF OpenCache
<1> DEFINE g == [Resting EXCEPT !.phase = "next", !.full = full, !.todo = items, !.loaded = stored]
<1>2. items \subseteq Items /\ stored \in Caches
  BY TypeUnfolded DEF CacheInv, Items
<1>3. g \in Records /\ g.phase = "next" /\ g.loaded = stored /\ g.added = Resting.added
  BY <1>2, IdleFields DEF Records, CachePhases
<1>4. SoundVerifier(g)
  BY <1>3, Empty DEF SoundVerifier, CacheInv
<1>5. Update(v, g)
  BY <1>1
<1> HIDE DEF g
<1> QED
  BY <1>3, <1>4, <1>5, RecordStep DEF OpenCache

LEMMA ReuseStep ==
  ASSUME CacheInv, NEW v \in Verifiers, NEW i \in Items, Reuse(v, i)
  PROVE  CacheInv'
<1> DEFINE old == verifier[v]
           g == [old EXCEPT !.todo = @ \ {i}]
<1>1. old \in Records
  BY TypeUnfolded DEF CacheInv
<1>2. /\ g \in Records /\ g.phase = "next" /\ old.phase = "next"
      /\ g.loaded = old.loaded /\ g.added = old.added
  BY <1>1 DEF Records, Reuse
<1>3. SoundVerifier(g)
  BY <1>2 DEF SoundVerifier, CacheInv
<1>4. Update(v, g)
  BY DEF Reuse
<1> HIDE DEF g
<1> QED
  BY <1>2, <1>3, <1>4, RecordStep DEF Reuse

(* Steps to the end of a verification keep what it added.                  *)
LEMMA SaveRecord ==
  ASSUME CacheInv, NEW v \in Verifiers, ToSave(v), World, stored' = stored
  PROVE  CacheInv'
<1> DEFINE added == verifier[v].added
           g == [Resting EXCEPT !.phase = "save", !.added = added]
<1>2. added \in Caches
  BY TypeUnfolded, Fields DEF CacheInv
<1>3. g \in Records /\ g.phase = "save" /\ g.loaded = Resting.loaded /\ g.added = added
  BY <1>2, IdleFields DEF Records, CachePhases
<1>4. SoundVerifier(g)
  BY <1>3, Empty DEF SoundVerifier, CacheInv
<1>5. Update(v, g)
  BY DEF ToSave
<1> HIDE DEF g
<1> QED
  BY <1>3, <1>4, <1>5, RecordStep

LEMMA ReadStep ==
  ASSUME CacheInv, NEW v \in Verifiers, NEW i \in Items, ReadItem(v, i)
  PROVE  CacheInv'
<1>1. CASE ToSave(v)
  BY <1>1, SaveRecord DEF ReadItem
<1>2. CASE ~ToSave(v)
  <2> DEFINE old == verifier[v]
             g == [old EXCEPT !.phase = "record", !.item = i, !.seen = disk[i].identity]
  <2>1. ReadsWell(i) /\ Update(v, g)
    BY <1>2 DEF ReadItem
  <2>2. old \in Records /\ disk[i].identity \in Identities
    BY TypeUnfolded DEF CacheInv, Disks
  <2>3. /\ g \in Records /\ g.phase = "record" /\ g.item = i /\ g.seen = disk[i].identity
        /\ g.loaded = old.loaded /\ g.added = old.added
    BY <2>2 DEF Records, CachePhases
  <2>4. SoundVerifier(g)
    BY <2>1, <2>3 DEF SoundVerifier, CacheInv, ReadsWell, Promise
  <2>5. i # NoEntry
    BY CacheAssumption
  <2> HIDE DEF g
  <2> QED
    BY <2>1, <2>3, <2>4, <2>5, RecordStep DEF ReadItem
<1> QED
  BY <1>1, <1>2

(* The entry of a trusted artifact names the identity that was read.       *)
LEMMA EntryPromise ==
  ASSUME CacheInv, NEW v \in Verifiers, verifier[v].phase = "record", Trusted(verifier[v].item)
  PROVE  Promise(Identity(v, verifier[v].item), verifier[v].item)
<1>1. verifier[v].item \in Items /\ Promise(verifier[v].seen, verifier[v].item)
  BY DEF CacheInv, SoundVerifier
<1>2. CASE verifier[v].item \in RemoteObjects
  BY <1>1, <1>2, CacheAssumption DEF Identity
<1>3. CASE verifier[v].item \notin RemoteObjects
  <2>1. Steady /\ verifier[v].item \in LocalFiles
    BY <1>1, <1>3 DEF Trusted, Items
  <2>2. verifier[v].seen = disk[verifier[v].item].identity
    BY <2>1 DEF CacheInv, SoundVerifier
  <2> QED
    BY <1>1, <2>1, <2>2 DEF Identity
<1> QED
  BY <1>2, <1>3

LEMMA RecordItemStep ==
  ASSUME CacheInv, NEW v \in Verifiers, RecordItem(v)
  PROVE  CacheInv'
<1> DEFINE old == verifier[v]
           i == old.item
           e == [identity |-> Identity(v, i), at |-> clock]
           done == [old EXCEPT !.phase = "next", !.todo = @ \ {i}, !.item = NoEntry, !.seen = 0]
<1>1. old \in Records /\ old.phase = "record" /\ i \in Items /\ SoundVerifier(old)
  BY TypeUnfolded DEF CacheInv, RecordItem, SoundVerifier
<1>2. /\ done \in Records /\ done.phase = "next"
      /\ done.loaded = old.loaded /\ done.added = old.added
  <2>1. 0 \in Identities /\ "next" \in CachePhases
    BY CacheAssumption DEF CachePhases, Identities
  <2> HIDE DEF old, i
  <2> QED
    BY <1>1, <2>1 DEF Records
<1>3. CASE Update(v, done)
  <2>1. SoundVerifier(done)
    BY <1>1, <1>2 DEF SoundVerifier
  <2> HIDE DEF done
  <2> QED
    BY <1>2, <1>3, <2>1, RecordStep DEF RecordItem
<1>4. CASE Update(v, [done EXCEPT !.loaded[i] = e, !.added[i] = e])
  <2>1. e \in Entries /\ e.identity = Identity(v, i)
    <3>1. Identity(v, i) \in Identities
      BY <1>1, Fields, TypeUnfolded DEF Identity, CacheInv, Disks
    <3> QED
      BY <3>1, TypeUnfolded DEF Entries, Identities, CacheInv
  <2>2. done.loaded \in Caches /\ done.added \in Caches
    BY <1>2, Fields
  <2> HIDE DEF e, done
  <2> DEFINE l == [done.loaded EXCEPT ![i] = e]
             a == [done.added EXCEPT ![i] = e]
             g == [done EXCEPT !.loaded = l, !.added = a]
  <2>3. l \in Caches /\ a \in Caches
    BY <2>1, <2>2 DEF Caches
  <2>4. Trusted(i) => SoundEntry(e, i)
    BY <1>1, <2>1, EntryPromise DEF SoundEntry
  <2>5. SoundCache(l) /\ SoundCache(a)
    BY <1>1, <1>2, <2>2, <2>4 DEF SoundCache, SoundVerifier, Caches
  <2>6. Update(v, g)
    BY <1>4
  <2> HIDE DEF l, a
  <2>7. g \in Records /\ g.phase = "next" /\ g.loaded = l /\ g.added = a
    BY <1>2, <2>3 DEF Records
  <2>8. SoundVerifier(g)
    BY <2>5, <2>7 DEF SoundVerifier
  <2> HIDE DEF g
  <2> QED
    BY <2>6, <2>7, <2>8, RecordStep DEF RecordItem
<1> QED
  BY <1>3, <1>4 DEF RecordItem

LEMMA LoadStep ==
  ASSUME CacheInv, NEW v \in Verifiers, LoadForSave(v)
  PROVE  CacheInv'
<1> DEFINE old == verifier[v]
           g == [old EXCEPT !.phase = "write", !.loaded = Merged(v)]
<1>1. old \in Records /\ old.added \in Caches /\ stored \in Caches
  BY TypeUnfolded, Fields DEF CacheInv
<1>2. CASE Update(v, Resting)
  BY <1>2, IdleFields, Empty, RecordStep DEF LoadForSave, SoundVerifier
<1>3. CASE Update(v, g)
  <2>1. Merged(v) \in Caches
    BY <1>1 DEF Merged, Caches
  <2>2. SoundCache(Merged(v))
    BY DEF Merged, SoundCache, CacheInv, SoundVerifier
  <2>3. /\ g \in Records /\ g.phase = "write" /\ g.loaded = Merged(v)
        /\ g.added = old.added
    BY <1>1, <2>1 DEF Records, CachePhases
  <2>4. SoundVerifier(g)
    BY <2>2, <2>3 DEF SoundVerifier, CacheInv
  <2> HIDE DEF g
  <2> QED
    BY <1>3, <2>3, <2>4, RecordStep DEF LoadForSave
<1> QED
  BY <1>2, <1>3 DEF LoadForSave

LEMMA WriteStep ==
  ASSUME CacheInv, NEW v \in Verifiers, WriteCache(v)
  PROVE  CacheInv'
<1>1. \A w \in Verifiers : verifier'[w] = IF w = v THEN Resting ELSE verifier[w]
  BY TypeUnfolded DEF Update, CacheInv, WriteCache
<1>2. verifier' \in [Verifiers -> Records]
  BY TypeUnfolded, IdleFields DEF Update, CacheInv, WriteCache
<1>3. clock' = clock /\ disk' = disk /\ changes' = changes
  BY DEF World, WriteCache
<1>4. verifier[v].loaded \in Caches /\ SoundCache(verifier[v].loaded)
  BY TypeUnfolded, Fields DEF CacheInv, SoundVerifier
<1>5. Pruned(verifier[v].loaded) \in Caches /\ SoundCache(Pruned(verifier[v].loaded))
  BY <1>4 DEF Pruned, Caches, SoundCache, SoundEntry, Entries
<1>6. stored' \in Caches /\ SoundCache(stored')
  BY <1>5, TypeUnfolded DEF WriteCache, CacheInv
<1>7. CacheTypeOK'
  BY <1>1, <1>2, <1>3, <1>6, IdleFields, TypeUnfolded
  DEF CacheInv, CacheTypeOK, Records, Caches, Identities
<1>8. \A w \in Verifiers : SoundVerifier(verifier'[w])
  BY <1>1, IdleFields, Empty DEF CacheInv, SoundVerifier
<1>9. (\A w \in Verifiers : SoundVerifier(verifier[w]))' /\ SoundCache(stored)'
  BY <1>3, <1>6, <1>8 DEF SoundVerifier, SoundCache, SoundEntry, Promise, Trusted
<1> QED
  BY <1>3, <1>7, <1>9 DEF CacheInv

(* A changed artifact has an identity that no entry names.                 *)
LEMMA ChangeStep ==
  ASSUME CacheInv, NEW j \in Items, Change(j)
  PROVE  CacheInv'
<1>1. /\ changes \in Nat /\ changes' = changes + 1 /\ changes' \in Identities
      /\ UNCHANGED <<clock, stored, verifier>>
  BY TypeUnfolded, CacheAssumption DEF Change, CacheInv, Identities
<1>2. PICK c \in {"whole", "damaged", "absent"} :
        disk' = [disk EXCEPT ![j] = [identity |-> changes + 1, content |-> c]]
  BY DEF Change
<1>3. disk \in Disks /\ disk' \in Disks
  BY <1>1, <1>2, TypeUnfolded DEF CacheInv, Disks
<1>4. \A i \in Items : i # j => disk'[i] = disk[i]
  BY <1>2, <1>3 DEF Disks
<1>5. disk'[j].identity = changes + 1
  BY <1>2, <1>3 DEF Disks
<1>6. CacheTypeOK'
  BY <1>1, <1>3, TypeUnfolded DEF CacheInv, CacheTypeOK, Disks, Identities
<1>7. \A i \in Items : disk'[i].identity <= changes'
  <2> TAKE i \in Items
  <2>1. disk[i].identity \in Nat /\ disk[i].identity <= changes
    BY <1>3, CacheAssumption DEF CacheInv, Disks, Identities
  <2> QED
    BY <1>1, <1>4, <1>5, <2>1
<1>8. ASSUME NEW n \in Identities, NEW i \in Items, Promise(n, i)
      PROVE  Promise(n, i)'
  BY <1>1, <1>4, <1>5, <1>8 DEF Promise, Identities
<1>9. ASSUME NEW e \in Entries, NEW i \in Items, SoundEntry(e, i)
      PROVE  SoundEntry(e, i)'
  BY <1>8, <1>9 DEF SoundEntry, Entries, Identities
<1>10. ASSUME NEW d \in Caches, SoundCache(d)
       PROVE  SoundCache(d)'
  BY <1>9, <1>10 DEF SoundCache, Caches, Trusted
<1>11. SoundCache(stored)'
  BY <1>1, <1>10, TypeUnfolded DEF CacheInv, SoundCache, SoundEntry, Promise
<1>12. ASSUME NEW v \in Verifiers
       PROVE  SoundVerifier(verifier[v])'
  <2> DEFINE g == verifier[v]
  <2>1. /\ g \in Records /\ g.loaded \in Caches /\ g.added \in Caches /\ g.seen \in Identities
        /\ SoundVerifier(g) /\ verifier'[v] = g
    BY <1>1, TypeUnfolded, Fields DEF CacheInv
  <2>2. SoundCache(g.loaded)' /\ SoundCache(g.added)'
    BY <1>1, <1>10, <2>1 DEF SoundVerifier, SoundCache, SoundEntry, Promise
  <2>3. ASSUME g.phase = "record"
        PROVE  /\ g.item \in Items /\ Promise(g.seen, g.item)'
               /\ Steady /\ g.item \in LocalFiles => g.seen = disk'[g.item].identity
    <3>1. g.item \in Items /\ Promise(g.seen, g.item)
      BY <2>1, <2>3 DEF SoundVerifier
    <3>2. Promise(g.seen, g.item)'
      BY <1>1, <1>8, <2>1, <3>1 DEF Promise
    <3>3. Steady /\ g.item \in LocalFiles => g.item # j
      BY <2>3 DEF Change
    <3> QED
      BY <1>4, <2>1, <2>3, <3>1, <3>2, <3>3 DEF SoundVerifier
  <2> QED
    BY <1>1, <2>1, <2>2, <2>3 DEF SoundVerifier, SoundCache, SoundEntry, Promise
<1> QED
  BY <1>6, <1>7, <1>11, <1>12 DEF CacheInv

LEMMA TickStep == ASSUME CacheInv, TimePasses PROVE CacheInv'
<1>1. clock' \in 0..MaxClock /\ UNCHANGED <<disk, changes, stored, verifier>>
  BY TypeUnfolded, CacheAssumption DEF TimePasses, CacheInv
<1> QED
  BY <1>1 DEF CacheInv, CacheTypeOK, SoundVerifier, SoundCache, SoundEntry, Promise, Trusted, Entries

LEMMA CacheStep == CacheInv /\ [CacheNext]_cacheVars => CacheInv'
<1> SUFFICES ASSUME CacheInv, [CacheNext]_cacheVars
             PROVE  CacheInv'
  OBVIOUS
<1>1. ASSUME NEW v \in Verifiers, VerifierStep(v)
      PROVE  CacheInv'
  <2>1. CASE EndVerification(v)
    BY <2>1, SaveRecord DEF EndVerification
  <2> QED
    BY <1>1, <2>1, OpenStep, RecordItemStep, LoadStep, WriteStep, ReuseStep, ReadStep DEF VerifierStep
<1>2. CASE UNCHANGED cacheVars
  BY <1>2 DEF cacheVars, CacheInv, CacheTypeOK, SoundVerifier, SoundCache, SoundEntry, Promise, Trusted, Entries
<1> QED
  BY <1>1, <1>2, ChangeStep, TickStep DEF CacheNext

LEMMA CacheStart == CacheInit => CacheInv
<1> SUFFICES ASSUME CacheInit PROVE CacheInv
  OBVIOUS
<1>1. changes = 0 /\ clock \in 0..MaxClock /\ changes \in Identities /\ 0 \in Identities
  BY CacheAssumption DEF CacheInit, Identities
<1>2. disk \in Disks /\ \A i \in Items : disk[i].identity = 0
  BY <1>1 DEF CacheInit, Disks
<1>3. stored \in Caches /\ SoundCache(stored)
  BY DEF CacheInit, Caches, Entries, SoundCache, SoundEntry
<1>4. verifier \in [Verifiers -> Records] /\ \A v \in Verifiers : verifier[v] = Resting
  BY IdleFields DEF CacheInit
<1>5. CacheTypeOK
  BY <1>1, <1>2, <1>3, <1>4, IdleFields, TypeUnfolded
<1>6. \A v \in Verifiers : SoundVerifier(verifier[v])
  BY <1>4, IdleFields, Empty DEF SoundVerifier
<1> QED
  BY <1>1, <1>2, <1>3, <1>5, <1>6 DEF CacheInv

LEMMA CacheAlways == CacheSpec => []CacheInv
  BY CacheStart, CacheStep, PTL DEF CacheSpec

(* What is reused under the invariant.                                     *)
LEMMA ReusedIsWhole ==
  ASSUME CacheInv, NEW v \in Verifiers, NEW i \in Items, Trusted(i), Reuse(v, i)
  PROVE  disk[i].content = "whole"
<1>1. SoundEntry(verifier[v].loaded[i], i)
  BY DEF CacheInv, SoundVerifier, SoundCache
<1> QED
  BY <1>1 DEF Reuse, UnchangedSince, Fresh, SoundEntry, Promise

-----------------------------------------------------------------------------
(* The cache file, the caches in memory and the clock keep their types.    *)
THEOREM CacheTypeCorrect == CacheSpec => []CacheTypeOK
  BY CacheAlways, PTL DEF CacheInv

(* An artifact that is accepted unread is whole, for any number of         *)
(* artifacts, processes and changes, if no local file changes between its  *)
(* verification and the stat.                                              *)
THEOREM AcceptedAlwaysWhole == ASSUME Steady PROVE CacheSpec => AcceptedIsWhole
<1>1. CacheInv /\ [CacheNext]_cacheVars =>
        [\A v \in Verifiers, i \in Items : Reuse(v, i) => disk[i].content = "whole"]_cacheVars
  BY ReusedIsWhole DEF Trusted
<1> QED
  BY <1>1, CacheAlways, PTL DEF CacheSpec, AcceptedIsWhole

(* For S3 objects that needs no assumption: their identity comes with the  *)
(* bytes.                                                                  *)
THEOREM RemoteAlwaysWhole ==
  CacheSpec => [][\A v \in Verifiers, i \in RemoteObjects :
                    Reuse(v, i) => disk[i].content = "whole"]_cacheVars
<1>1. CacheInv /\ [CacheNext]_cacheVars =>
        [\A v \in Verifiers, i \in RemoteObjects :
           Reuse(v, i) => disk[i].content = "whole"]_cacheVars
  BY ReusedIsWhole DEF Trusted, Items
<1> QED
  BY <1>1, CacheAlways, PTL DEF CacheSpec

-----------------------------------------------------------------------------
(* In one process at most one verification holds the mutex of the file,    *)
(* and what it is about to write is the file merged with its results, for  *)
(* nobody has written the file since it was loaded.                        *)
OneProcess == \A v, w \in Verifiers : ProcessOf[v] = ProcessOf[w]
OneWriter ==
  \A v, w \in Verifiers : verifier[v].phase = "write" /\ verifier[w].phase = "write" => v = w
WritesMerged == \A v \in Verifiers : verifier[v].phase = "write" => verifier[v].loaded = Merged(v)

WriterInv == CacheInv /\ OneWriter /\ WritesMerged

(* A step that takes no mutex and leaves the file alone.                   *)
LEMMA NoWriterStep ==
  ASSUME WriterInv, NEW v \in Verifiers, NEW g \in Records, g.phase # "write", Update(v, g),
         stored' = stored
  PROVE  OneWriter' /\ WritesMerged'
<1>1. \A w \in Verifiers : verifier'[w] = IF w = v THEN g ELSE verifier[w]
  BY TypeUnfolded DEF Update, CacheInv, WriterInv
<1>2. OneWriter'
  BY <1>1 DEF WriterInv, OneWriter
<1>3. ASSUME NEW w \in Verifiers, verifier'[w].phase = "write"
      PROVE  verifier'[w].loaded = Merged(w)'
  BY <1>1, <1>3 DEF WriterInv, WritesMerged, Merged
<1> QED
  BY <1>2, <1>3 DEF WritesMerged

LEMMA WriterLoad ==
  ASSUME OneProcess, WriterInv, NEW v \in Verifiers, LoadForSave(v)
  PROVE  OneWriter' /\ WritesMerged'
<1> DEFINE old == verifier[v]
           g == [old EXCEPT !.phase = "write", !.loaded = Merged(v)]
<1>1. stored' = stored
  BY DEF LoadForSave
<1>2. CASE Update(v, Resting)
  BY <1>1, <1>2, IdleFields, NoWriterStep
<1>3. CASE MutexFree(v) /\ Update(v, g)
  <2>1. old \in Records
    BY TypeUnfolded DEF CacheInv, WriterInv
  <2>2. g.phase = "write" /\ g.loaded = Merged(v) /\ g.added = old.added
    BY <2>1 DEF Records
  <2> HIDE DEF g
  <2>3. \A w \in Verifiers : verifier'[w] = IF w = v THEN g ELSE verifier[w]
    BY <1>3, TypeUnfolded DEF Update, CacheInv, WriterInv
  <2>4. \A w \in Verifiers : verifier[w].phase # "write"
    BY <1>3 DEF MutexFree, OneProcess
  <2>5. \A w \in Verifiers : verifier'[w].phase = "write" => w = v
    BY <2>3, <2>4
  <2>6. Merged(v)' = Merged(v)
    BY <1>1, <2>2, <2>3 DEF Merged
  <2> QED
    BY <2>2, <2>3, <2>5, <2>6 DEF OneWriter, WritesMerged
<1> QED
  BY <1>2, <1>3 DEF LoadForSave

LEMMA WriterWrite ==
  ASSUME WriterInv, NEW v \in Verifiers, WriteCache(v)
  PROVE  OneWriter' /\ WritesMerged'
<1>1. \A w \in Verifiers : verifier'[w] = IF w = v THEN Resting ELSE verifier[w]
  BY TypeUnfolded DEF Update, CacheInv, WriteCache, WriterInv
<1>2. \A w \in Verifiers : verifier'[w].phase # "write"
  BY <1>1, IdleFields DEF WriteCache, WriterInv, OneWriter
<1> QED
  BY <1>2 DEF OneWriter, WritesMerged

LEMMA WriterRecord ==
  ASSUME WriterInv, NEW v \in Verifiers, RecordItem(v)
  PROVE  OneWriter' /\ WritesMerged'
<1> DEFINE g == verifier'[v]
<1>1. verifier' \in [Verifiers -> Records]
  BY RecordItemStep, TypeUnfolded DEF WriterInv, CacheInv, CacheTypeOK, Records, Caches, Identities
<1>2. PICK h : Update(v, h) /\ h.phase = "next"
  <2> DEFINE old == verifier[v]
             i == old.item
             e == [identity |-> Identity(v, i), at |-> clock]
             done == [old EXCEPT !.phase = "next", !.todo = @ \ {i}, !.item = NoEntry, !.seen = 0]
             entered == [done EXCEPT !.loaded[i] = e, !.added[i] = e]
  <2>1. old \in Records
    BY TypeUnfolded DEF WriterInv, CacheInv
  <2>2. done.phase = "next" /\ entered.phase = "next"
    <3> HIDE DEF i, e
    <3> QED
      BY <2>1 DEF Records
  <2>3. Update(v, done) \/ Update(v, entered)
    BY DEF RecordItem
  <2> QED
    BY <2>2, <2>3
<1>3. g = h
  BY <1>2, TypeUnfolded DEF Update, WriterInv, CacheInv
<1> QED
  BY <1>1, <1>2, <1>3, NoWriterStep DEF RecordItem

LEMMA WriterOther ==
  ASSUME WriterInv, NEW v \in Verifiers, VerifierStep(v), ~LoadForSave(v), ~WriteCache(v)
  PROVE  OneWriter' /\ WritesMerged'
<1> DEFINE old == verifier[v]
<1>1. old \in Records /\ old.added \in Caches /\ stored \in Caches /\ CacheInv
  BY TypeUnfolded, Fields DEF CacheInv, WriterInv
<1>2. CASE ToSave(v) /\ stored' = stored
  <2> DEFINE h == [Resting EXCEPT !.phase = "save", !.added = old.added]
  <2>1. h \in Records /\ h.phase = "save"
    BY <1>1, IdleFields DEF Records, CachePhases
  <2>2. Update(v, h)
    BY <1>2 DEF ToSave
  <2> HIDE DEF h
  <2> QED
    BY <1>2, <2>1, <2>2, NoWriterStep
<1>3. CASE OpenCache(v)
  <2>1. PICK items \in {LocalFiles, RemoteObjects}, full \in BOOLEAN :
          Update(v, [Resting EXCEPT !.phase = "next", !.full = full, !.todo = items,
                                 !.loaded = stored])
    BY <1>3 DEF OpenCache
  <2> DEFINE g == [Resting EXCEPT !.phase = "next", !.full = full, !.todo = items,
                                  !.loaded = stored]
  <2>2. g \in Records /\ g.phase = "next"
    BY <1>1, IdleFields DEF Records, CachePhases, Items
  <2>3. Update(v, g) /\ stored' = stored
    BY <1>3, <2>1 DEF OpenCache
  <2> HIDE DEF g
  <2> QED
    BY <2>2, <2>3, NoWriterStep
<1>4. ASSUME NEW i \in Items, Reuse(v, i)
      PROVE  OneWriter' /\ WritesMerged'
  <2> DEFINE g == [old EXCEPT !.todo = @ \ {i}]
  <2>1. g \in Records /\ g.phase # "write" /\ Update(v, g) /\ stored' = stored
    BY <1>1, <1>4 DEF Records, Reuse
  <2> HIDE DEF g
  <2> QED
    BY <2>1, NoWriterStep
<1>5. ASSUME NEW i \in Items, ReadItem(v, i), ~ToSave(v)
      PROVE  OneWriter' /\ WritesMerged'
  <2> DEFINE g == [old EXCEPT !.phase = "record", !.item = i, !.seen = disk[i].identity]
  <2>1. disk[i].identity \in Identities
    BY <1>1, TypeUnfolded DEF CacheInv, Disks
  <2>2. g \in Records /\ g.phase # "write"
    BY <1>1, <2>1 DEF Records, CachePhases
  <2>3. Update(v, g) /\ stored' = stored
    BY <1>5 DEF ReadItem
  <2> HIDE DEF g
  <2> QED
    BY <2>2, <2>3, NoWriterStep
<1>6. CASE RecordItem(v)
  BY <1>1, <1>6, WriterRecord
<1> QED
  BY <1>2, <1>3, <1>4, <1>5, <1>6 DEF VerifierStep, EndVerification, ReadItem

LEMMA WriterStep == OneProcess /\ WriterInv /\ [CacheNext]_cacheVars => WriterInv'
<1> SUFFICES ASSUME OneProcess, WriterInv, [CacheNext]_cacheVars
             PROVE  OneWriter' /\ WritesMerged'
  BY CacheStep DEF WriterInv
<1>1. CASE UNCHANGED <<stored, verifier>>
  BY <1>1 DEF WriterInv, OneWriter, WritesMerged, Merged
<1>2. ASSUME NEW v \in Verifiers, VerifierStep(v)
      PROVE  OneWriter' /\ WritesMerged'
  BY <1>2, WriterLoad, WriterWrite, WriterOther
<1> QED
  BY <1>1, <1>2 DEF CacheNext, Change, TimePasses, cacheVars

LEMMA WriterAlways == OneProcess => (CacheSpec => []WriterInv)
<1>1. CacheInit => WriterInv
  <2> SUFFICES ASSUME CacheInit PROVE WriterInv
    OBVIOUS
  <2>1. \A v \in Verifiers : verifier[v].phase # "write"
    BY IdleFields DEF CacheInit
  <2> QED
    BY <2>1, CacheStart DEF WriterInv, OneWriter, WritesMerged
<1> SUFFICES ASSUME OneProcess PROVE CacheSpec => []WriterInv
  OBVIOUS
<1>2. WriterInv /\ [CacheNext]_cacheVars => WriterInv'
  BY WriterStep
<1> QED
  BY <1>1, <1>2, PTL DEF CacheSpec

(* What one step makes of the results that the file has.                   *)
Kept ==
  \A i \in Items :
    /\ Fresh(stored[i]) /\ disk[i].content # "absent"
    /\ \A v \in Verifiers : LET e == verifier[v].added[i] IN e = NoEntry \/ Fresh(e)
    => stored'[i] # NoEntry

LEMMA WriteKeeps ==
  ASSUME WriterInv, NEW v \in Verifiers, WriteCache(v)
  PROVE  Kept
<1>1. \A i \in Items : verifier[v].loaded[i] = IF verifier[v].added[i] # NoEntry
                                               THEN verifier[v].added[i] ELSE stored[i]
  BY DEF WriterInv, WritesMerged, WriteCache, Merged
<1>2. ASSUME NEW i \in Items, Fresh(stored[i]), disk[i].content # "absent",
             \A w \in Verifiers : LET e == verifier[w].added[i] IN e = NoEntry \/ Fresh(e)
      PROVE  stored'[i] # NoEntry
  <2>1. Fresh(verifier[v].loaded[i])
    BY <1>1, <1>2
  <2>2. CASE stored' = stored
    BY <1>2, <2>2 DEF Fresh
  <2>3. CASE stored' = Pruned(verifier[v].loaded)
    <3>1. stored'[i] = verifier[v].loaded[i]
      BY <1>2, <2>1, <2>3 DEF Pruned
    <3> QED
      BY <2>1, <3>1 DEF Fresh
  <2> QED
    BY <2>2, <2>3 DEF WriteCache
<1> QED
  BY <1>2 DEF Kept

(* Verifications of one process do not discard each other's results, for   *)
(* any number of them: a result that has not expired stays in the file     *)
(* until another one of the same artifact replaces it.  Two processes have *)
(* a mutex each, which is why the assumption is there.                     *)
THEOREM ResultsAlwaysKept == ASSUME OneProcess PROVE CacheSpec => ResultsKept
<1>1. WriterInv /\ [CacheNext]_cacheVars => Kept
  <2> SUFFICES ASSUME WriterInv, [CacheNext]_cacheVars PROVE Kept
    OBVIOUS
  <2>1. CASE stored' = stored
    BY <2>1 DEF Kept, Fresh
  <2>2. ASSUME NEW v \in Verifiers, VerifierStep(v), ~WriteCache(v)
        PROVE  stored' = stored
    BY <2>2 DEF VerifierStep, OpenCache, RecordItem, EndVerification, LoadForSave, Reuse, ReadItem
  <2> QED
    BY <2>1, <2>2, WriteKeeps DEF CacheNext, Change, TimePasses, cacheVars
<1>2. WriterInv /\ [CacheNext]_cacheVars => [Kept]_cacheVars
  BY <1>1
<1> QED
  BY <1>2, WriterAlways, PTL DEF CacheSpec, ResultsKept, Kept
=============================================================================
