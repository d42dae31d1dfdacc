---------------------------- MODULE RecoveryPoint ----------------------------
(***************************************************************************)
(* What the backup runner promises about one run, seen from outside: the   *)
(* offsite recovery point of a run appears in one atomic step, whole, and  *)
(* is never altered afterwards; and a run is reported as an offsite        *)
(* success only once that point exists.  RunPublish, which models the code *)
(* step by step with its failures and crashes, implements this module.     *)
(***************************************************************************)

CONSTANTS
  Runs,       \* run identifiers
  Databases   \* databases a capture can hold

VARIABLES
  published,  \* published[r]: databases of the recovery point, {} before
  claim       \* claim[r]: what the run history says of r

vars == <<published, claim>>

\* "offsite": success with a verified upload; "local": success without one.
Claims == {"none", "failure", "local", "offsite"}

TypeOK ==
  /\ published \in [Runs -> SUBSET Databases]
  /\ claim \in [Runs -> Claims]

Init ==
  /\ published = [r \in Runs |-> {}]
  /\ claim = [r \in Runs |-> "none"]

\* The recovery point of r becomes visible, with all its databases at once.
Publish(r) ==
  /\ published[r] = {}
  /\ \E dbs \in (SUBSET Databases) \ {{}} :
       published' = [published EXCEPT ![r] = dbs]
  /\ UNCHANGED claim

\* The history reports r.  A success is never withdrawn, and an offsite
\* success is reported only of a published point.
Report(r) ==
  /\ claim[r] \in {"none", "failure"}
  /\ \E c \in Claims \ {"none"} :
       /\ c = "offsite" => published[r] # {}
       /\ claim' = [claim EXCEPT ![r] = c]
  /\ UNCHANGED published

Next == \E r \in Runs : Publish(r) \/ Report(r)

Spec == Init /\ [][Next]_vars
=============================================================================
