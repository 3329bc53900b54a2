------------------------------- MODULE Kernel -------------------------------
(***************************************************************************)
(* The process table of the host as mesh-supervisor sees it through fork,  *)
(* waitpid and kill (external to the repository).  A pid is free, belongs  *)
(* to a foreign process, or belongs to a child of the supervisor that is   *)
(* live or a zombie still holding its exit code.  A reaped pid is free     *)
(* again and the host may hand it to anyone.                               *)
(*                                                                         *)
(* Only the leader of each child's process group is represented.           *)
(***************************************************************************)
EXTENDS Proto

CONSTANT
    Host         \* what this host offers: a subset of HostFeature

\* "store": records persist; "cgroups": a delegated cgroup v2 subtree;
\* "reuse": other processes of the host take and give back pids.
HostFeature == {"store", "cgroups", "reuse"}

ASSUME HostAssumption == Host \subseteq HostFeature

VARIABLE
    os           \* pid -> its process: state, owning handle (0: not ours), cgroup leaf (0: none)

Free == [st |-> "free", owner |-> 0, leaf |-> 0]
Foreign == [st |-> "foreign", owner |-> 0, leaf |-> 0]

OsProcess ==
    [st : {"free", "foreign", "live"} \cup Exited,
     owner : 0 .. MaxHandle,
     leaf : 0 .. MaxHandle]

KernelTypeOK == os \in [Pid -> OsProcess]

KernelInit == os = [p \in Pid |-> Free]

FreePids == {p \in Pid : os[p] = Free}

\* fork + exec of a child of handle h that joined the given leaf.
Fork(p, h, leaf) ==
    [os EXCEPT ![p] = [st |-> "live", owner |-> h, leaf |-> leaf]]

\* A SIGKILL to the processes S: a child becomes a zombie for its task to reap;
\* a foreign process is reaped by its own parent.  A zombie does not notice.
Killed(S) ==
    [p \in Pid |->
        IF p \in S /\ os[p].st = "live" THEN [os[p] EXCEPT !.st = "ExitedFail"]
        ELSE IF p \in S /\ os[p].st = "foreign" THEN Free
        ELSE os[p]]

\* Any other signal to pid p: fatal to it, or handled or ignored by it.
Signalled(p) == {os, Killed({p})}

\* Without the parent-death signal, the children outlive the supervisor.
OrphansSurvive == os

\* The supervisor process dies: PR_SET_PDEATHSIG takes its children along, and
\* init reaps them.
Orphaned == [p \in Pid |-> IF os[p] = Foreign THEN Foreign ELSE Free]

----------------------------------------------------------------------------
\* Another process of the host is given a free pid ...
ForeignTake(p) ==
    /\ "reuse" \in Host
    /\ os[p] = Free
    /\ os' = [os EXCEPT ![p] = Foreign]

\* ... and terminates.
ForeignExit(p) ==
    /\ os[p] = Foreign
    /\ os' = [os EXCEPT ![p] = Free]
=============================================================================
