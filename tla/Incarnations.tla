---------------------------- MODULE Incarnations ----------------------------
(***************************************************************************)
(* One handle and the incarnations of its process, as far as its standard  *)
(* streams are concerned (src/src/process.rs): launch_child makes new      *)
(* streams, the table entry is pointed to them later, and forget may get   *)
(* in between.  ProcessManager has the whole of it; Stdin and Stdout add   *)
(* their half of the streams to these steps.                               *)
(***************************************************************************)
EXTENDS Naturals, Sequences

CONSTANT MaxInc   \* bound: incarnations

ASSUME IncarnationsAssumption == MaxInc \in Nat \ {0}

VARIABLES
    inc,       \* the last incarnation launched, 0 before the first
    live,      \* its process has not exited
    entry,     \* the incarnation whose streams the table entry holds, 0 without entry
    pending    \* launch_child returned, the table was not updated yet

incVars == <<inc, live, entry, pending>>

Inc == 1 .. MaxInc

IncTypeOK ==
    /\ inc \in 0 .. MaxInc /\ live \in BOOLEAN
    /\ entry \in 0 .. inc /\ pending \in BOOLEAN

\* Nothing was spawned yet, or the entry is a tombstone (ProcEntry::stale), whose
\* streams are closed and which is never launched again.
IncInit ==
    /\ inc \in {0, MaxInc} /\ entry = inc
    /\ live = FALSE
    /\ pending = FALSE

\* launch_child, in spawn or for a relaunch.
Launch ==
    /\ inc < MaxInc /\ ~pending
    /\ inc # 0 => entry = inc /\ ~live
    /\ inc' = inc + 1
    /\ live' = TRUE
    /\ pending' = TRUE
    /\ UNCHANGED entry

\* spawn inserts the entry, supervise updates it if it is still there.
TableTakes == inc = 1 \/ entry # 0

UpdateTable ==
    /\ pending
    /\ pending' = FALSE
    /\ entry' = IF TableTakes THEN inc ELSE 0
    /\ UNCHANGED <<inc, live>>

\* forget: refused while the entry is Running.
ForgetEntry ==
    /\ entry # 0 /\ ~(entry = inc /\ live)
    /\ entry' = 0
    /\ UNCHANGED <<inc, live, pending>>

ProcessExit ==
    /\ live
    /\ live' = FALSE
    /\ UNCHANGED <<inc, entry, pending>>
============================================================================
