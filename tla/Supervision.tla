---------------------------- MODULE Supervision ----------------------------
(***************************************************************************)
(* What a supervisor promises to its operators about the processes they    *)
(* know by handle: what may be shown for a handle, and when.  Pids, tasks, *)
(* the store and the kernel are out of sight.                              *)
(***************************************************************************)
EXTENDS Naturals

CONSTANTS
    Handle,      \* the handles
    ExitState    \* the ways a process can be shown to have ended

VARIABLES
    shown,       \* handle -> what query shows: "absent", "Running", "Stale" or an exit
    restarts,    \* handle -> the number of relaunches shown
    phase,       \* handle -> where the supervision of its process stands
    wanted,      \* the handles whose restart policy is armed
    draining     \* the supervisor is shutting down

svars == <<shown, restarts, phase, wanted, draining>>

(***************************************************************************)
(* "launching" before the process is shown for the first time, "up" until  *)
(* its end is noticed, "down" until it is decided whether it comes back,   *)
(* "returning" once that is decided, "ended" if it never will.             *)
(***************************************************************************)
Phase == {"none", "launching", "up", "down", "returning", "ended"}

Init ==
    /\ shown = [h \in Handle |-> "absent"]
    /\ restarts = [h \in Handle |-> 0]
    /\ phase = [h \in Handle |-> "none"]
    /\ wanted = {}
    /\ draining = FALSE

Moves(h, from, to) == phase[h] = from /\ phase' = [phase EXCEPT ![h] = to]

\* A handle nobody has in use is issued.
Launch(h) ==
    /\ shown[h] = "absent"
    /\ Moves(h, "none", "launching")
    /\ UNCHANGED <<shown, restarts, wanted, draining>>

Appear(h) ==
    /\ Moves(h, "launching", "up")
    /\ shown' = [shown EXCEPT ![h] = "Running"]
    /\ restarts' = [restarts EXCEPT ![h] = 0]
    /\ wanted' = wanted \cup {h}
    /\ UNCHANGED draining

\* The end of a process is shown, unless its handle was forgotten.
Exit(h) ==
    /\ Moves(h, "up", "down")
    /\ shown' \in {[shown EXCEPT ![h] = IF @ = "absent" THEN @ ELSE e] : e \in ExitState}
    /\ UNCHANGED <<restarts, wanted, draining>>

GiveUp(h) ==
    /\ Moves(h, "down", "ended")
    /\ UNCHANGED <<shown, restarts, wanted, draining>>

\* Only a process whose policy is armed is brought back, and not while the
\* supervisor shuts down.
Resolve(h) ==
    /\ h \in wanted
    /\ ~draining
    /\ Moves(h, "down", "returning")
    /\ UNCHANGED <<shown, restarts, wanted, draining>>

Return(h) ==
    /\ Moves(h, "returning", "up")
    /\ shown' = [shown EXCEPT ![h] = IF @ = "absent" THEN @ ELSE "Running"]
    /\ restarts' = [restarts EXCEPT ![h] = IF shown[h] = "absent" THEN @ ELSE @ + 1]
    /\ UNCHANGED <<wanted, draining>>

ReturnFails(h) ==
    /\ Moves(h, "returning", "ended")
    /\ UNCHANGED <<shown, restarts, wanted, draining>>

\* stop, for the operator: the policy is disarmed.
Disarm(h) ==
    /\ shown[h] # "absent"
    /\ wanted' = wanted \ {h}
    /\ UNCHANGED <<shown, restarts, phase, draining>>

Forget(h) ==
    /\ shown[h] \in ExitState \cup {"Stale"}
    /\ shown' = [shown EXCEPT ![h] = "absent"]
    /\ restarts' = [restarts EXCEPT ![h] = 0]
    /\ wanted' = wanted \ {h}
    /\ UNCHANGED <<phase, draining>>

Drain ==
    /\ draining' = TRUE
    /\ UNCHANGED <<shown, restarts, phase, wanted>>

(***************************************************************************)
(* The supervisor ends and is started again.  Nothing runs any more, and   *)
(* nothing will be brought back.  What is left of an earlier life stays as *)
(* it is; of the others the last change may have been lost.                *)
(***************************************************************************)
Restart ==
    /\ phase' = [h \in Handle |-> "none"]
    /\ wanted' = {}
    /\ draining' = FALSE
    /\ restarts' = [h \in Handle |-> 0]
    /\ shown' \in [Handle -> {"absent", "Stale"} \cup ExitState]
    /\ \A h \in Handle : phase[h] = "none" /\ shown[h] # "absent" => shown'[h] = shown[h]

Next ==
    \/ \E h \in Handle :
          \/ Launch(h) \/ Appear(h) \/ Exit(h) \/ GiveUp(h)
          \/ Resolve(h) \/ Return(h) \/ ReturnFails(h)
          \/ Disarm(h) \/ Forget(h)
    \/ Drain
    \/ Restart

Spec == Init /\ [][Next]_svars
============================================================================
