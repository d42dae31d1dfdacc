------------------------------- MODULE MCRunLock -------------------------------
(* The instance of RunLock that TLC checks: the processes are model values.  *)
EXTENDS RunLock
=============================================================================
