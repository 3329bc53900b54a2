------------------------------ MODULE Cgroups ------------------------------
(***************************************************************************)
(* src/src/cgroup.rs: one cgroup v2 leaf per child under a parent group.   *)
(* Every operation is best effort.                                         *)
(***************************************************************************)
EXTENDS Kernel

CONSTANT
    Faults       \* the operations that may fail: a subset of FaultKind

\* "spawn": fork or exec; "store": a redb transaction; "leaf": creating a leaf
\* or opening its cgroup.procs; "rmdir": removing a cgroup directory.
FaultKind == {"spawn", "store", "leaf", "rmdir"}

ASSUME FaultAssumption == Faults \subseteq FaultKind

VARIABLES
    group,       \* "none": no Cgroups object; "present"; "removed": by shutdown
    leaves       \* the handles whose leaf directory exists

cgroupVars == <<group, leaves>>

CgroupsTypeOK ==
    /\ group \in {"none", "present", "removed"}
    /\ leaves \in SUBSET Handle

\* Cgroups::detect on a clean host, which may turn out not to delegate a subtree.
CgroupsInit ==
    /\ group \in IF "cgroups" \in Host THEN {"present", "none"} ELSE {"none"}
    /\ leaves = {}

HasCgroups == group # "none"

\* The processes inside the leaf of h, which cgroup.kill reaches.
InLeaf(h) == {p \in Pid : os[p].leaf = h /\ os[p].st = "live"}

\* rmdir_retry on the leaves hs: the new set of leaf directories.
Rmdir(hs) ==
    {leaves \ hs} \cup (IF "rmdir" \in Faults THEN {leaves} ELSE {})

----------------------------------------------------------------------------
(***************************************************************************)
(* create_leaf, as the new set of leaf directories and the leaf the        *)
(* child will join (0 when create_leaf returned None or there are no       *)
(* cgroups).  A leftover directory (EEXIST), a removed group and an I/O    *)
(* error all launch the child outside of any leaf; if the directory was    *)
(* made before cgroup.procs could not be opened, it stays.                 *)
(***************************************************************************)
CreateLeaf(h) ==
    LET made == {[dirs |-> leaves \cup {h}, joins |-> h]}
        openFailed == {[dirs |-> leaves \cup {h}, joins |-> 0]}
        notMade == {[dirs |-> leaves, joins |-> 0]}
    IN  IF group # "present" \/ h \in leaves
        THEN notMade
        ELSE made \cup (IF "leaf" \in Faults THEN openFailed \cup notMade ELSE {})

\* Cgroups::kill: SIGKILL to every process in the leaf of h.
CgKill(h) == os' = Killed(InLeaf(h))

\* Cgroups::remove: kill the survivors in the leaf of h and remove it.
CgRemove(h) ==
    /\ os' = Killed(InLeaf(h))
    /\ leaves' \in Rmdir({h})
    /\ UNCHANGED group

\* Cgroups::shutdown: kill and remove every leaf, then the group.
CgShutdown ==
    /\ os' = Killed(UNION {InLeaf(h) : h \in leaves})
    /\ leaves' \in Rmdir(leaves)
    /\ group' = IF leaves' = {} THEN "removed" ELSE "present"

(***************************************************************************)
(* Cgroups::detect at the start of a later supervisor: sweep what the      *)
(* previous run left behind.  If a leftover cannot be removed, or the      *)
(* group cannot be created or given its controllers, this run has no       *)
(* cgroups.                                                                *)
(***************************************************************************)
CgDetect ==
    /\ leaves' \in Rmdir(leaves)
    /\ group' \in IF "cgroups" \in Host /\ leaves' = {} THEN {"present", "none"} ELSE {"none"}
============================================================================
