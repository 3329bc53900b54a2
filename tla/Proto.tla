------------------------------- MODULE Proto -------------------------------
(***************************************************************************)
(* The vocabulary of src/src/proto.rs that the process table and its store *)
(* share: handles, process states, restart policies and spawn specs.       *)
(***************************************************************************)
EXTENDS Integers

CONSTANTS
    MaxHandle,   \* bound: how many handles may ever be issued (the code has u64)
    Pid,         \* the pids of the host
    NoPid        \* "no pid"

ASSUME ProtoAssumption == MaxHandle \in Nat /\ NoPid \notin Pid

Handle == 1 .. MaxHandle

(***************************************************************************)
(* ProcState.  Exited(Some(0)) and every other Exited(code) (a non-zero    *)
(* code, or None for a death by signal) are all that should_restart tells  *)
(* apart.                                                                  *)
(***************************************************************************)
Exited == {"ExitedOk", "ExitedFail"}
ProcState == {"Running", "Stale"} \cup Exited

RestartPolicy == {"Never", "OnFailure", "Always"}

(***************************************************************************)
(* The part of a spawn spec that steers the supervisor: command, arguments,*)
(* environment and limits only reach the child.  max_retries = 0 means     *)
(* unlimited.                                                              *)
(***************************************************************************)
SpecType == [policy : RestartPolicy, max_retries : Nat]
============================================================================
