------------------------------ MODULE MCOperator ------------------------------
(***************************************************************************)
(* What surrounds a run: the scope, the timer and the slots that an        *)
(* operator sets up before it, and the old runs and the evidence that are  *)
(* kept after it.  The five components share no variable, so part picks    *)
(* the one that moves and the others stay in one of their initial states:  *)
(* the states are the sum of theirs.                                       *)
(***************************************************************************)
EXTENDS TuiScope, ScheduleApply, ScheduleSlots, Retention, VerifyCache

CONSTANT Moving       \* the components that an instance moves

VARIABLE part

keptVars == <<retentionVars, cacheVars>>
operatorVars == <<part, scopeVars, applyVars, slotVars, keptVars>>

MCGranted == <<"crm", "shop">>
MCTablesOf == [d \in {"crm", "shop"} |->
                 IF d = "crm" THEN <<"notes", "users">> ELSE <<"orders", "users">>]
NothingListed == [d \in {"crm", "shop"} |-> {}]
MCEnvScopes == {[dbs |-> {}, tables |-> NothingListed],
                [dbs |-> {"crm"}, tables |-> [NothingListed EXCEPT !["shop"] = {"orders"}]]}
MCQueries == {{"notes", "orders", "users"}, {"users"}, {}}

Plan(k, t, w, e) == [kind |-> k, times |-> t, weekday |-> w, every |-> e]
MCSchedules == {Plan("always", {0}, 0, 1), Plan("disabled", {0}, 0, 1),
                Plan("interval", {0}, 0, 3), Plan("daily", {1}, 0, 1),
                Plan("daily", {0, 2}, 0, 1), Plan("weekly", {3}, 1, 1),
                Plan("weekly", {0}, 2, 1)}

MCDays == <<1, 1, 2, 3>>
MCWeeks == <<1, 2, 2, 3>>
MCMonths == <<1, 1, 2, 2>>

Policy(n, d, w, m, v) == [min |-> n, daily |-> d, weekly |-> w, monthly |-> m, verified |-> v]
MCPolicies == {Policy(1, 0, 0, 0, 1), Policy(2, 0, 0, 0, 0), Policy(1, 2, 1, 0, 0),
               Policy(1, 0, 2, 1, 1)}

MCOneProcess == [v \in Verifiers |-> 1]

OperatorInit ==
  /\ part \in Moving
  /\ ScopeInit /\ ApplyInit /\ SlotInit /\ RetentionInit /\ CacheInit
  /\ part # "scope" => scope.selDbs = {}
  /\ part # "apply" => env = (CHOOSE cfg \in Configs : TRUE) /\ ~strange /\ ~active
  /\ part # "slots" => schedule.kind = "always" /\ last = Never
  /\ part # "retention" => policy = Policy(1, 0, 0, 0, 1)
  /\ part # "cache" => \A i \in Items : disk[i].content = "whole"

OperatorNext ==
  \/ part = "scope" /\ ScopeNext /\ UNCHANGED <<part, applyVars, slotVars, keptVars>>
  \/ part = "apply" /\ ApplyNext /\ UNCHANGED <<part, scopeVars, slotVars, keptVars>>
  \/ part = "slots" /\ SlotNext /\ UNCHANGED <<part, scopeVars, applyVars, keptVars>>
  \/ /\ part = "retention" /\ RetentionNext
     /\ UNCHANGED <<part, scopeVars, applyVars, slotVars, cacheVars>>
  \/ /\ part = "cache" /\ CacheNext
     /\ UNCHANGED <<part, scopeVars, applyVars, slotVars, retentionVars>>

OperatorSpec == OperatorInit /\ [][OperatorNext]_operatorVars

(* The state of the five components has the form that the code's structs  *)
(* and files can have: indexes inside the lists, phases of the code.       *)
OperatorTypeOK ==
  ScopeTypeOK /\ ApplyTypeOK /\ SlotTypeOK /\ RetentionTypeOK /\ CacheTypeOK
=============================================================================
