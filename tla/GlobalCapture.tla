---------------------------- MODULE GlobalCapture ----------------------------
(***************************************************************************)
(* The logical capture in global mode (global_capture.go, ddl_guard.go):   *)
(* one mysqldump reads all databases in one transaction.  The transaction  *)
(* does not freeze the schemas, so a second session holds LOCK INSTANCE    *)
(* FOR BACKUP; the server drops that lock when the session is lost.        *)
(***************************************************************************)
EXTENDS Integers, Sequences

CONSTANTS
  Databases,        \* the databases of the capture, in the order of the dump
  DumpAttempts,     \* BACKUP_RETRY_COUNT
  Versions,         \* states of a schema; DDL may go back to an earlier one
  Unread

(* An empty list of databases is refused before any lock is taken.         *)
ASSUME GlobAssumption ==
  /\ Len(Databases) \in Nat \ {0} /\ DOMAIN Databases = 1..Len(Databases)
  /\ DumpAttempts \in Nat \ {0}
  /\ Unread \notin Versions

VARIABLES
  guard,        \* the session of the lock: "none", "held" or "lost"
  schema,       \* schema[d]: what information_schema says of d now
  glob,         \* [phase, at, attempt, captured] of captureGlobalLogical
  finger,       \* finger[d]: SchemaFingerprint of the result, taken before
  read,         \* read[d]: the schema that the dump found when it got to d
  verdict       \* verdict[d]: Status of the result

globVars == <<guard, schema, glob, finger, read, verdict>>

GlobPhases == {"start", "inventory", "dump", "check", "compare", "done", "refused"}
Indexes == DOMAIN Databases
DbCount == Len(Databases)
AllOf(v) == [d \in Indexes |-> v]

GlobTypeOK ==
  /\ guard \in {"none", "held", "lost"}
  /\ schema \in [Indexes -> Versions]
  /\ glob \in [phase : GlobPhases, at : 1..DbCount + 1, attempt : 0..DumpAttempts,
               captured : BOOLEAN]
  /\ finger \in [Indexes -> Versions \cup {Unread}]
  /\ read \in [Indexes -> Versions \cup {Unread}]
  /\ verdict \in [Indexes -> {"failed", "success"}]

GlobInit ==
  /\ guard = "none" /\ schema \in [Indexes -> Versions]
  /\ glob = [phase |-> "start", at |-> 1, attempt |-> 0, captured |-> FALSE]
  /\ finger = AllOf(Unread) /\ read = AllOf(Unread) /\ verdict = AllOf("failed")

-----------------------------------------------------------------------------
Phase(p) == glob' = [glob EXCEPT !.phase = p, !.at = 1]

Release == IF guard = "held" THEN "none" ELSE guard

(* An error returns no results at all; the deferred Close unlocks.         *)
RefuseCapture ==
  /\ glob.phase \in {"start", "inventory"}
  /\ Phase("refused") /\ guard' = Release
  /\ UNCHANGED <<schema, finger, read, verdict>>

AcquireGuard ==
  /\ glob.phase = "start"
  /\ guard' = "held" /\ Phase("inventory")
  /\ UNCHANGED <<schema, finger, read, verdict>>

(* Broken views and other engines than InnoDB refuse the capture, and so   *)
(* does any count or inventory that cannot be read.                        *)
TakeFingerprint ==
  /\ glob.phase = "inventory"
  /\ finger' = [finger EXCEPT ![glob.at] = schema[glob.at]]
  /\ IF glob.at = DbCount
     THEN glob' = [glob EXCEPT !.phase = "dump", !.at = 1, !.attempt = 1]
     ELSE glob' = [glob EXCEPT !.at = @ + 1]
  /\ UNCHANGED <<guard, schema, read, verdict>>

ReadDatabase ==
  /\ glob.phase = "dump" /\ glob.at <= DbCount
  /\ read' = [read EXCEPT ![glob.at] = schema[glob.at]]
  /\ glob' = [glob EXCEPT !.at = @ + 1]
  /\ UNCHANGED <<guard, schema, finger, verdict>>

DumpSucceeds ==
  /\ glob.phase = "dump" /\ glob.at = DbCount + 1
  /\ glob' = [glob EXCEPT !.phase = "check", !.at = 1, !.captured = TRUE]
  /\ UNCHANGED <<guard, schema, finger, read, verdict>>

(* dumpWithRetry starts the whole dump again, or gives up.                 *)
DumpFails ==
  /\ glob.phase = "dump"
  /\ \/ /\ glob.attempt < DumpAttempts
        /\ glob' = [glob EXCEPT !.at = 1, !.attempt = @ + 1]
     \/ Phase("check")
  /\ read' = AllOf(Unread)
  /\ UNCHANGED <<guard, schema, finger, verdict>>

GuardAnswersMut == TRUE

(* Check asks the session for its id: a lost one has no answer.            *)
GuardAnswers == guard = "held"

CheckGuard ==
  /\ glob.phase = "check"
  /\ \/ GuardAnswers /\ Phase("compare") /\ guard' = guard
     \/ Phase("refused") /\ guard' = Release
  /\ UNCHANGED <<schema, finger, read, verdict>>

(* Each database takes the status of the one dump, unless its schema is    *)
(* not what it was or cannot be read.                                      *)
Compare ==
  /\ glob.phase = "compare"
  /\ \E status \in {"failed", "success"} :
       /\ status = "success" => glob.captured /\ schema[glob.at] = finger[glob.at]
       /\ verdict' = [verdict EXCEPT ![glob.at] = status]
  /\ IF glob.at = DbCount THEN Phase("done") /\ guard' = Release
     ELSE glob' = [glob EXCEPT !.at = @ + 1] /\ guard' = guard
  /\ UNCHANGED <<schema, finger, read>>

-----------------------------------------------------------------------------
(* The server.                                                             *)

Ddl ==
  /\ guard # "held"
  /\ \E d \in Indexes, v \in Versions : schema' = [schema EXCEPT ![d] = v]
  /\ UNCHANGED <<guard, glob, finger, read, verdict>>

(* The session is killed, times out or loses the network.                  *)
LoseGuard ==
  /\ guard = "held"
  /\ guard' = "lost"
  /\ UNCHANGED <<schema, glob, finger, read, verdict>>

GlobNext ==
  \/ RefuseCapture
  \/ AcquireGuard
  \/ TakeFingerprint
  \/ ReadDatabase
  \/ DumpSucceeds
  \/ DumpFails
  \/ CheckGuard
  \/ Compare
  \/ Ddl
  \/ LoseGuard

GlobSpec == GlobInit /\ [][GlobNext]_globVars

-----------------------------------------------------------------------------
(* A successful database of a global capture was dumped in the schema that *)
(* its fingerprint names, even if the session of the lock was lost while   *)
(* the dump ran and DDL changed the schema and changed it back: the check  *)
(* of the session shows it, the comparison alone would not.                *)
GlobalIsFrozen ==
  \A d \in Indexes : verdict[d] = "success" => read[d] = finger[d]
=============================================================================
