-------------------------- MODULE MCProcessManager --------------------------
(***************************************************************************)
(* Small instances of ProcessManager for TLC.                              *)
(***************************************************************************)
EXTENDS ProcessManager, TLC

\* Pids are interchangeable, and so are the slots for kills in flight.
Symmetry == Permutations(Pid) \cup Permutations(Killer)

Always == [policy |-> "Always", max_retries |-> 0]
OnFailureOnce == [policy |-> "OnFailure", max_retries |-> 1]

JustAlways == {Always}
RetryOnce == {OnFailureOnce}
=============================================================================
