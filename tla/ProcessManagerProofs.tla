------------------------ MODULE ProcessManagerProofs ------------------------
(***************************************************************************)
(* Proofs about ProcessManager, for any number of handles, pids, requests  *)
(* and restarts and any combination of host features and faults.           *)
(***************************************************************************)
EXTENDS ProcessManager, WellFoundedInduction, TLAPS

\* A non-empty set of numbers up to n has a maximum.
LEMMA MaxExists ==
    ASSUME NEW n \in Nat, NEW S \in SUBSET (0 .. n), S # {}
    PROVE  Max(S) \in S /\ \A y \in S : Max(S) >= y
<1> DEFINE R == OpToRel(<, Nat)
<1>1. IsWellFoundedOn(R, Nat)
  BY NatLessThanWellFounded
<1> HIDE DEF R
<1> DEFINE T == {n - x : x \in S}
<1>2. T \subseteq Nat /\ T # {}
  <2>1. ASSUME NEW x \in S PROVE n - x \in Nat
    <3>1. x \in 0 .. n OBVIOUS
    <3> QED BY <3>1
  <2>2. PICK x \in S : TRUE OBVIOUS
  <2>3. n - x \in T BY <2>2
  <2> QED BY <2>1, <2>3
<1>3. PICK t \in T : \A u \in T : ~(<<u, t>> \in R)
  <2> HIDE DEF T
  <2> QED BY <1>1, <1>2, WFMin
<1>4. PICK x \in S : t = n - x
  BY <1>3
<1>5. \A u \in T : ~(u < t)
  BY <1>2, <1>3 DEF R, OpToRel
<1>6. \A y \in S : x >= y
  <2> SUFFICES ASSUME NEW y \in S PROVE x >= y OBVIOUS
  <2>1. n - y \in T OBVIOUS
  <2>2. ~(n - y < n - x) BY <2>1, <1>4, <1>5
  <2>3. x \in Int /\ y \in Int OBVIOUS
  <2> QED BY <2>2, <2>3
<1> QED BY <1>6 DEF Max

\* The counter Store::load returns is a number that no record's handle exceeds.
LEMMA LoadedNextHandleBounds ==
    ASSUME StoreTypeOK
    PROVE  LoadedNextHandle \in 0 .. MaxHandle /\ \A h \in Keys : h <= LoadedNextHandle
<1> DEFINE S == {next_handle, 0} \cup Keys
<1>1. S \in SUBSET (0 .. MaxHandle) /\ S # {}
  BY ProtoAssumption DEF StoreTypeOK, Keys, Handle
<1>2. MaxHandle \in Nat
  BY ProtoAssumption
<1> HIDE DEF S
<1>3. Max(S) \in S /\ \A y \in S : Max(S) >= y
  BY <1>1, <1>2, MaxExists
<1>4. LoadedNextHandle = Max(S) /\ Keys \subseteq S
  BY DEF LoadedNextHandle, S
<1>5. \A y \in S : y \in Int
  BY <1>1
<1>6. LoadedNextHandle \in 0 .. MaxHandle
  BY <1>1, <1>3, <1>4
<1>7. ASSUME NEW h \in Keys PROVE h <= LoadedNextHandle
  BY <1>3, <1>4, <1>5
<1> QED BY <1>6, <1>7

----------------------------------------------------------------------------
(***************************************************************************)
(* TypeOK alone is not inductive: that the pid written to the table and to *)
(* the store is a real one rests on the owner of a child holding its pid.  *)
(***************************************************************************)
OwnerHoldsPid == \A h \in Handle : job[h].pid # NoPid <=> job[h].pc \in HasChild

TypeInv == TypeOK /\ OwnerHoldsPid

\* What the kernel operators return is a process table again.
LEMMA KilledType ==
    ASSUME KernelTypeOK, NEW S
    PROVE  Killed(S) \in [Pid -> OsProcess]
<1>1. ASSUME NEW p \in Pid
      PROVE  /\ os[p] \in OsProcess
             /\ [os[p] EXCEPT !.st = "ExitedFail"] \in OsProcess
             /\ Free \in OsProcess
  BY ProtoAssumption DEF KernelTypeOK, OsProcess, Exited, Free
<1> QED BY <1>1 DEF Killed

LEMMA ForkType ==
    ASSUME KernelTypeOK, NEW p \in Pid, NEW h \in Handle, NEW leaf \in 0 .. MaxHandle
    PROVE  Fork(p, h, leaf) \in [Pid -> OsProcess]
BY ProtoAssumption DEF KernelTypeOK, OsProcess, Exited, Fork, Handle

LEMMA CreateLeafType ==
    ASSUME CgroupsTypeOK, NEW h \in Handle, NEW l \in CreateLeaf(h)
    PROVE  l.dirs \in SUBSET Handle /\ l.joins \in 0 .. MaxHandle
<1>1. \/ l = [dirs |-> leaves \cup {h}, joins |-> h]
      \/ l = [dirs |-> leaves \cup {h}, joins |-> 0]
      \/ l = [dirs |-> leaves, joins |-> 0]
  BY DEF CreateLeaf
<1>2. h \in 0 .. MaxHandle /\ 0 \in 0 .. MaxHandle
  BY ProtoAssumption DEF Handle
<1>3. leaves \in SUBSET Handle /\ leaves \cup {h} \in SUBSET Handle
  BY DEF CgroupsTypeOK
<1>4. CASE l = [dirs |-> leaves \cup {h}, joins |-> h]
  <2>1. l.dirs = leaves \cup {h} /\ l.joins = h
    BY <1>4
  <2> QED BY <2>1, <1>2, <1>3
<1>5. CASE l = [dirs |-> leaves \cup {h}, joins |-> 0]
  <2>1. l.dirs = leaves \cup {h} /\ l.joins = 0
    BY <1>5
  <2> QED BY <2>1, <1>2, <1>3
<1>6. CASE l = [dirs |-> leaves, joins |-> 0]
  <2>1. l.dirs = leaves /\ l.joins = 0
    BY <1>6
  <2> QED BY <2>1, <1>2, <1>3
<1> QED BY <1>1, <1>4, <1>5, <1>6

LEMMA LaunchChildType ==
    ASSUME KernelTypeOK, CgroupsTypeOK, NEW h \in Handle, NEW p \in Pid, LaunchChild(h, p)
    PROVE  KernelTypeOK' /\ CgroupsTypeOK'
<1>1. PICK l \in CreateLeaf(h) : leaves' = l.dirs /\ os' = Fork(p, h, l.joins)
  BY DEF LaunchChild
<1>2. l.dirs \in SUBSET Handle /\ l.joins \in 0 .. MaxHandle
  BY CreateLeafType
<1>3. os' \in [Pid -> OsProcess]
  BY <1>1, <1>2, ForkType
<1>4. leaves' \in SUBSET Handle
  BY <1>1, <1>2
<1> QED BY <1>3, <1>4 DEF LaunchChild, KernelTypeOK, CgroupsTypeOK

LEMMA LaunchFailsType ==
    ASSUME KernelTypeOK, CgroupsTypeOK, NEW h \in Handle, LaunchFails(h)
    PROVE  KernelTypeOK' /\ CgroupsTypeOK'
<1>1. os' \in [Pid -> OsProcess]
  BY KilledType DEF LaunchFails, KernelTypeOK
<1>2. \A l \in CreateLeaf(h) : l.dirs \in SUBSET Handle
  BY CreateLeafType
<1>3. leaves' \in SUBSET Handle
  BY <1>2 DEF LaunchFails, CgroupsTypeOK
<1> QED BY <1>1, <1>3 DEF LaunchFails, KernelTypeOK, CgroupsTypeOK

LEMMA CgRemoveType ==
    ASSUME KernelTypeOK, CgroupsTypeOK, NEW h \in Handle, CgRemove(h)
    PROVE  KernelTypeOK' /\ CgroupsTypeOK'
BY KilledType DEF CgRemove, Rmdir, KernelTypeOK, CgroupsTypeOK

LEMMA CgShutdownType ==
    ASSUME KernelTypeOK, CgroupsTypeOK, CgShutdown
    PROVE  KernelTypeOK' /\ CgroupsTypeOK'
BY KilledType DEF CgShutdown, Rmdir, KernelTypeOK, CgroupsTypeOK

\* A store call leaves a well-formed store.
LEMMA StoreCallType ==
    ASSUME StoreTypeOK, NEW h \in Handle, NEW pid \in Pid, NEW status \in ProcState,
           \/ BestEffort(Put(h, pid, status))
           \/ BestEffort(SetStatus(h, status))
           \/ BestEffort(Remove(h))
    PROVE  StoreTypeOK'
<1>1. h \in 0 .. MaxHandle
  BY ProtoAssumption DEF Handle
<1>2. CASE UNCHANGED storeVars
  BY <1>2 DEF StoreTypeOK, storeVars
<1>3. CASE Put(h, pid, status)
  BY <1>1, <1>3 DEF StoreTypeOK, Put, Record
<1>4. CASE SetStatus(h, status)
  BY <1>4 DEF StoreTypeOK, SetStatus, Record, NoRecord
<1>5. CASE Remove(h)
  BY <1>5 DEF StoreTypeOK, Remove
<1> QED BY <1>2, <1>3, <1>4, <1>5 DEF BestEffort

----------------------------------------------------------------------------
\* Facts about the constants and sentinels that the provers should not rederive.
LEMMA Sentinels ==
    /\ NoJob \in Job /\ NoJob.pc = "none" /\ NoJob.pid = NoPid
    /\ NoPid \notin Pid
    /\ MaxHandle \in Nat
    /\ Exited \subseteq ProcState
    /\ "Running" \in ProcState
BY ProtoAssumption DEF NoJob, Job, JobPc, Exited, ProcState, SpecType, RestartPolicy

LEMMA TypeInit == Init => TypeInv
<1> SUFFICES ASSUME Init PROVE TypeInv
  OBVIOUS
<1> USE Sentinels
<1>1. StoreTypeOK /\ next \in Nat
  BY DEF Init, StoreInit, StoreTypeOK
<1>2. KernelTypeOK
  BY DEF Init, KernelInit, KernelTypeOK, OsProcess, Free
<1>3. CgroupsTypeOK
  BY DEF Init, CgroupsInit, CgroupsTypeOK
<1>4. job \in [Handle -> Job] /\ OwnerHoldsPid
  BY DEF Init, OwnerHoldsPid, HasChild
<1>5. /\ procs \in [Handle -> Entry \cup {NoEntry}]
      /\ armed \in SUBSET Handle
      /\ killers \in [Killer -> [pc : KillerPc, h : 0 .. MaxHandle, pid : Pid \cup {NoPid}]]
      /\ drain \in [pc : {"idle", "snapped", "grace", "done"}, pids : SUBSET Pid]
      /\ forgetting \in SUBSET Handle
  BY DEF Init, Idle, KillerPc, NoDrain
<1>6. boots \in 0 .. MaxBoots
  BY PMAssumption DEF Init
<1> QED BY <1>1, <1>2, <1>3, <1>4, <1>5, <1>6 DEF TypeInv, TypeOK

\* Every step preserves the types.
LEMMA TypeNext == TypeInv /\ [Next]_vars => TypeInv'
<1> SUFFICES ASSUME TypeInv, [Next]_vars PROVE TypeInv'
  OBVIOUS
<1> USE Sentinels
<1>j. /\ job \in [Handle -> Job] /\ OwnerHoldsPid
      /\ KernelTypeOK /\ CgroupsTypeOK /\ StoreTypeOK
      /\ procs \in [Handle -> Entry \cup {NoEntry}]
      /\ killers \in [Killer -> [pc : KillerPc, h : 0 .. MaxHandle, pid : Pid \cup {NoPid}]]
  BY DEF TypeInv, TypeOK
<1>h. \A h \in Handle : job[h] \in Job /\ (job[h].pc \in HasChild => job[h].pid \in Pid)
  BY <1>j DEF OwnerHoldsPid, Job
<1>1. ASSUME NEW spec \in SpawnSpecs, NEW p \in Pid, SpawnLaunch(spec, p) PROVE TypeInv'
  <2>1. next + 1 \in Handle /\ next' \in Nat
    BY <1>1 DEF SpawnLaunch, Handle, TypeInv, TypeOK
  <2>2. KernelTypeOK' /\ CgroupsTypeOK'
    BY <1>1, <1>j, <2>1, LaunchChildType DEF SpawnLaunch
  <2>3. spec \in SpecType
    BY PMAssumption
  <2>4. [NoJob EXCEPT !.pc = "launched", !.pid = p, !.spec = spec] \in Job
    BY <2>3 DEF NoJob, Job, JobPc, Exited
  <2>5. job' \in [Handle -> Job] /\ OwnerHoldsPid'
    BY <1>1, <1>j, <2>1, <2>4 DEF SpawnLaunch, OwnerHoldsPid, HasChild, NoJob
  <2> QED BY <1>1, <2>1, <2>2, <2>5
       DEF SpawnLaunch, TypeInv, TypeOK, tableVars, callVars, storeVars, StoreTypeOK
<1>2. CASE SpawnFails
  <2>1. next + 1 \in Handle /\ next' \in Nat
    BY <1>2 DEF SpawnFails, Handle, TypeInv, TypeOK
  <2>2. KernelTypeOK' /\ CgroupsTypeOK'
    BY <1>2, <1>j, <2>1, LaunchFailsType DEF SpawnFails
  <2> QED BY <1>2, <2>1, <2>2
       DEF SpawnFails, TypeInv, TypeOK, tableVars, callVars, storeVars, StoreTypeOK, OwnerHoldsPid
<1>3. ASSUME NEW h \in Handle, Insert(h) PROVE TypeInv'
  <2>1. procs' \in [Handle -> Entry \cup {NoEntry}]
    BY <1>3, <1>h, <1>j DEF Insert, Entry, HasChild
  <2>2. job' \in [Handle -> Job] /\ OwnerHoldsPid'
    BY <1>3, <1>j DEF Insert, Job, JobPc, OwnerHoldsPid, HasChild
  <2> QED BY <1>3, <2>1, <2>2
       DEF Insert, TypeInv, TypeOK, callVars, storeVars, cgroupVars, StoreTypeOK, KernelTypeOK, CgroupsTypeOK
<1>4. ASSUME NEW h \in Handle, Persist(h) PROVE TypeInv'
  <2>1. StoreTypeOK'
    BY <1>4, <1>h, <1>j, StoreCallType DEF Persist, HasChild
  <2>2. job' \in [Handle -> Job] /\ OwnerHoldsPid'
    BY <1>4, <1>j DEF Persist, Job, JobPc, OwnerHoldsPid, HasChild
  <2> QED BY <1>4, <2>1, <2>2
       DEF Persist, TypeInv, TypeOK, tableVars, callVars, cgroupVars, KernelTypeOK, CgroupsTypeOK
<1>5. ASSUME NEW h \in Handle, Reap(h) PROVE TypeInv'
  <2>1. job' \in [Handle -> Job] /\ OwnerHoldsPid'
    BY <1>5, <1>j DEF Reap, Job, JobPc, OwnerHoldsPid, HasChild
  <2>2. KernelTypeOK'
    <3>1. Free \in OsProcess
      BY DEF Free, OsProcess
    <3> QED BY <1>5, <1>j, <3>1 DEF Reap, KernelTypeOK
  <2> QED BY <1>5, <2>1, <2>2
       DEF Reap, TypeInv, TypeOK, tableVars, callVars, storeVars, cgroupVars, StoreTypeOK, CgroupsTypeOK
<1>6. ASSUME NEW h \in Handle, RecordExit(h) PROVE TypeInv'
  <2>1. procs' \in [Handle -> Entry \cup {NoEntry}]
    <3>1. h \in Tracked => procs[h] \in Entry
      BY <1>j DEF Tracked
    <3>2. job[h].code \in ProcState
      BY <1>h DEF Job
    <3> QED BY <1>6, <1>j, <3>1, <3>2 DEF RecordExit, ExitRecorded, Entry
  <2>2. job' \in [Handle -> Job] /\ OwnerHoldsPid'
    BY <1>6, <1>j DEF RecordExit, Job, JobPc, OwnerHoldsPid, HasChild
  <2> QED BY <1>6, <2>1, <2>2
       DEF RecordExit, TypeInv, TypeOK, callVars, storeVars, cgroupVars, StoreTypeOK, KernelTypeOK, CgroupsTypeOK
<1>7. ASSUME NEW h \in Handle, PersistExit(h) PROVE TypeInv'
  <2>1. job' \in [Handle -> Job] /\ OwnerHoldsPid'
    BY <1>7, <1>j DEF PersistExit, Job, JobPc, OwnerHoldsPid, HasChild
  <2>2. StoreTypeOK'
    <3>1. job[h].code \in ProcState
      BY <1>h DEF Job
    <3>2. CASE UNCHANGED storeVars
      BY <3>2, <1>j DEF storeVars, StoreTypeOK
    <3>3. CASE SetStatus(h, job[h].code)
      BY <3>1, <3>3, <1>j DEF SetStatus, StoreTypeOK, Record, NoRecord
    <3> QED BY <1>7, <3>2, <3>3 DEF PersistExit, BestEffort
  <2> QED BY <1>7, <2>1, <2>2
       DEF PersistExit, TypeInv, TypeOK, tableVars, callVars, cgroupVars, KernelTypeOK, CgroupsTypeOK
<1>8. ASSUME NEW h \in Handle, Decide(h) PROVE TypeInv'
  <2>1. job' \in [Handle -> Job] /\ OwnerHoldsPid'
    <3>1. job[h].attempt + 1 \in Nat
      BY <1>h DEF Job
    <3> QED BY <1>8, <1>j, <3>1 DEF Decide, Job, JobPc, OwnerHoldsPid, HasChild
  <2>2. KernelTypeOK' /\ CgroupsTypeOK'
    <3>1. CASE CgRemove(h)
      BY <3>1, <1>j, CgRemoveType
    <3>2. CASE UNCHANGED <<os, cgroupVars>>
      BY <3>2, <1>j DEF KernelTypeOK, CgroupsTypeOK, cgroupVars
    <3> QED BY <1>8, <3>1, <3>2 DEF Decide
  <2> QED BY <1>8, <2>1, <2>2
       DEF Decide, TypeInv, TypeOK, tableVars, callVars, storeVars, StoreTypeOK
<1>9. ASSUME NEW h \in Handle, Wake(h) PROVE TypeInv'
  <2>1. job' \in [Handle -> Job] /\ OwnerHoldsPid'
    BY <1>9, <1>j DEF Wake, Job, JobPc, OwnerHoldsPid, HasChild
  <2> QED BY <1>9, <2>1
       DEF Wake, TypeInv, TypeOK, tableVars, callVars, storeVars, cgroupVars, StoreTypeOK, KernelTypeOK, CgroupsTypeOK
<1>10. ASSUME NEW h \in Handle, NEW p \in Pid, Relaunch(h, p) PROVE TypeInv'
  <2>1. job' \in [Handle -> Job] /\ OwnerHoldsPid'
    BY <1>10, <1>j DEF Relaunch, Job, JobPc, OwnerHoldsPid, HasChild
  <2>2. KernelTypeOK' /\ CgroupsTypeOK'
    BY <1>10, <1>j, LaunchChildType DEF Relaunch
  <2> QED BY <1>10, <2>1, <2>2
       DEF Relaunch, TypeInv, TypeOK, tableVars, callVars, storeVars, StoreTypeOK
<1>11. ASSUME NEW h \in Handle, RelaunchFails(h) PROVE TypeInv'
  <2>1. job' \in [Handle -> Job] /\ OwnerHoldsPid'
    BY <1>11, <1>j DEF RelaunchFails, Job, JobPc, OwnerHoldsPid, HasChild
  <2>2. KernelTypeOK' /\ CgroupsTypeOK'
    BY <1>11, <1>j, LaunchFailsType DEF RelaunchFails
  <2> QED BY <1>11, <2>1, <2>2
       DEF RelaunchFails, TypeInv, TypeOK, tableVars, callVars, storeVars, StoreTypeOK
<1>12. ASSUME NEW h \in Handle, Reinsert(h) PROVE TypeInv'
  <2>1. procs' \in [Handle -> Entry \cup {NoEntry}]
    <3>1. h \in Tracked => procs[h].restarts + 1 \in Nat
      BY <1>j DEF Tracked, Entry
    <3> QED BY <1>12, <1>h, <1>j, <3>1 DEF Reinsert, Entry, HasChild
  <2>2. job' \in [Handle -> Job] /\ OwnerHoldsPid'
    BY <1>12, <1>j DEF Reinsert, Job, JobPc, OwnerHoldsPid, HasChild
  <2> QED BY <1>12, <2>1, <2>2
       DEF Reinsert, TypeInv, TypeOK, callVars, storeVars, cgroupVars, StoreTypeOK, KernelTypeOK, CgroupsTypeOK
<1>13. ASSUME NEW p \in Pid, NEW code \in Exited, ChildExit(p, code) PROVE TypeInv'
  <2>1. KernelTypeOK'
    BY <1>13, <1>j DEF ChildExit, KernelTypeOK, OsProcess
  <2> QED BY <1>13, <2>1
       DEF ChildExit, TypeInv, TypeOK, tableVars, callVars, storeVars, cgroupVars, StoreTypeOK, CgroupsTypeOK, OwnerHoldsPid
<1> DEFINE KillersType == killers \in [Killer -> [pc : KillerPc, h : 0 .. MaxHandle, pid : Pid \cup {NoPid}]]
<1>k. \A h \in Handle : procs[h].pid \in Pid \cup {NoPid} /\ h \in 0 .. MaxHandle
  BY <1>j DEF Entry, NoEntry, Handle
<1>14. ASSUME NEW h \in Handle, Stop(h) PROVE TypeInv'
  <2>1. KillersType'
    BY <1>14, <1>j, <1>k DEF Stop, KillerPc
  <2> QED BY <1>14, <2>1
       DEF Stop, TypeInv, TypeOK, storeVars, cgroupVars, StoreTypeOK, KernelTypeOK, CgroupsTypeOK, OwnerHoldsPid
<1>15. ASSUME NEW k \in Killer, Terminate(k) \/ SignalSend(k) PROVE TypeInv'
  <2>1. KillersType'
    BY <1>15, <1>j DEF Terminate, SignalSend, KillerPc, Idle
  <2>2. KernelTypeOK'
    BY <1>15, <1>j, KilledType DEF Terminate, SignalSend, Signalled, KernelTypeOK
  <2> QED BY <1>15, <2>1, <2>2
       DEF Terminate, SignalSend, TypeInv, TypeOK, tableVars, storeVars, cgroupVars, StoreTypeOK, CgroupsTypeOK, OwnerHoldsPid
<1>16. ASSUME NEW k \in Killer, GraceOver(k) PROVE TypeInv'
  <2>1. KillersType'
    BY <1>16, <1>j DEF GraceOver, KillerPc, Idle
  <2> QED BY <1>16, <2>1
       DEF GraceOver, TypeInv, TypeOK, tableVars, storeVars, cgroupVars, StoreTypeOK, KernelTypeOK, CgroupsTypeOK, OwnerHoldsPid
<1>17. ASSUME NEW k \in Killer, Escalate(k) PROVE TypeInv'
  <2>1. KillersType'
    BY <1>17, <1>j DEF Escalate, KillerPc, Idle
  <2>2. KernelTypeOK'
    BY <1>17, <1>j, KilledType DEF Escalate, CgKill, KernelTypeOK
  <2> QED BY <1>17, <2>1, <2>2
       DEF Escalate, TypeInv, TypeOK, tableVars, storeVars, cgroupVars, StoreTypeOK, CgroupsTypeOK, OwnerHoldsPid
<1>18. ASSUME NEW h \in Handle, SignalCheck(h) PROVE TypeInv'
  <2>1. KillersType'
    BY <1>18, <1>j, <1>k DEF SignalCheck, KillerPc
  <2> QED BY <1>18, <2>1
       DEF SignalCheck, TypeInv, TypeOK, tableVars, storeVars, cgroupVars, StoreTypeOK, KernelTypeOK, CgroupsTypeOK, OwnerHoldsPid
<1>19. ASSUME NEW h \in Handle, Forget(h) PROVE TypeInv'
  BY <1>19
     DEF Forget, TypeInv, TypeOK, storeVars, cgroupVars, StoreTypeOK, KernelTypeOK, CgroupsTypeOK, OwnerHoldsPid
<1>20. ASSUME NEW h \in Handle, ForgetStored(h) PROVE TypeInv'
  <2>1. StoreTypeOK'
    BY <1>20, <1>j DEF ForgetStored, BestEffort, Remove, storeVars, StoreTypeOK
  <2> QED BY <1>20, <2>1
       DEF ForgetStored, TypeInv, TypeOK, tableVars, cgroupVars, KernelTypeOK, CgroupsTypeOK, OwnerHoldsPid
<1>21. CASE DrainBegin
  <2>1. \A h \in Handle : Running(h) => procs[h].pid \in Pid
    BY <1>j DEF Running, Entry, NoEntry
  <2>2. drain' \in [pc : {"idle", "snapped", "grace", "done"}, pids : SUBSET Pid]
    BY <1>21, <2>1 DEF DrainBegin
  <2> QED BY <1>21, <2>2
       DEF DrainBegin, TypeInv, TypeOK, tableVars, storeVars, cgroupVars, StoreTypeOK, KernelTypeOK, CgroupsTypeOK, OwnerHoldsPid
<1>22. CASE DrainTerm
  <2>1. drain' \in [pc : {"idle", "snapped", "grace", "done"}, pids : SUBSET Pid]
    BY <1>22 DEF DrainTerm, TypeInv, TypeOK
  <2>2. KernelTypeOK'
    BY <1>22, <1>j, KilledType DEF DrainTerm, KernelTypeOK
  <2> QED BY <1>22, <2>1, <2>2
       DEF DrainTerm, TypeInv, TypeOK, tableVars, storeVars, cgroupVars, StoreTypeOK, CgroupsTypeOK, OwnerHoldsPid
<1>23. CASE DrainForce
  <2>1. drain' \in [pc : {"idle", "snapped", "grace", "done"}, pids : SUBSET Pid]
    BY <1>23 DEF DrainForce, TypeInv, TypeOK
  <2>2. KernelTypeOK' /\ CgroupsTypeOK'
    <3>1. CASE HasCgroups
      BY <1>23, <3>1, <1>j, CgShutdownType DEF DrainForce
    <3>2. CASE ~HasCgroups
      BY <1>23, <3>2, <1>j, KilledType DEF DrainForce, KernelTypeOK, CgroupsTypeOK, cgroupVars
    <3> QED BY <3>1, <3>2
  <2> QED BY <1>23, <2>1, <2>2
       DEF DrainForce, TypeInv, TypeOK, tableVars, storeVars, StoreTypeOK, OwnerHoldsPid
<1>24. CASE Restart
  <2>1. next' \in Nat
    BY <1>24, <1>j, LoadedNextHandleBounds DEF Restart
  <2>2. procs' \in [Handle -> Entry \cup {NoEntry}]
    <3>1. \A h \in Handle : records[h] # NoRecord =>
              records[h].pid \in Pid /\ Reloaded(records[h].status) \in ProcState
      BY <1>j DEF StoreTypeOK, Record, Reloaded, ProcState
    <3> QED BY <1>24, <3>1 DEF Restart, Entry
  <2>3. job' \in [Handle -> Job] /\ OwnerHoldsPid'
    BY <1>24 DEF Restart, OwnerHoldsPid, HasChild
  <2>4. KernelTypeOK'
    BY <1>24 DEF Restart, Orphaned, KernelTypeOK, OsProcess, Free, Foreign
  <2>5. CgroupsTypeOK'
    BY <1>24, <1>j DEF Restart, CgDetect, Rmdir, CgroupsTypeOK
  <2>6. boots' \in 0 .. MaxBoots
    BY <1>24, PMAssumption DEF Restart, TypeInv, TypeOK
  <2>7. /\ KillersType'
        /\ drain' \in [pc : {"idle", "snapped", "grace", "done"}, pids : SUBSET Pid]
        /\ armed' \in SUBSET Handle /\ forgetting' \in SUBSET Handle
    BY <1>24 DEF Restart, Idle, KillerPc, NoDrain
  <2>8. StoreTypeOK'
    BY <1>24, <1>j DEF Restart, storeVars, StoreTypeOK
  <2> QED BY <2>1, <2>2, <2>3, <2>4, <2>5, <2>6, <2>7, <2>8 DEF TypeInv, TypeOK
<1>25. CASE HostStep
  <2>1. KernelTypeOK'
    BY <1>25, <1>j DEF HostStep, ForeignTake, ForeignExit, KernelTypeOK, OsProcess, Free, Foreign
  <2> QED BY <1>25, <2>1
       DEF HostStep, TypeInv, TypeOK, tableVars, callVars, storeVars, cgroupVars, StoreTypeOK, CgroupsTypeOK, OwnerHoldsPid
<1>26. CASE UNCHANGED vars
  BY <1>26 DEF vars, TypeInv, TypeOK, callVars, storeVars, cgroupVars, StoreTypeOK, KernelTypeOK, CgroupsTypeOK, OwnerHoldsPid
<1> QED
  BY <1>1, <1>2, <1>3, <1>4, <1>5, <1>6, <1>7, <1>8, <1>9, <1>10, <1>11, <1>12, <1>13,
     <1>14, <1>15, <1>16, <1>17, <1>18, <1>19, <1>20, <1>21, <1>22, <1>23, <1>24, <1>25, <1>26
  DEF Next, ClientStep, TaskStep, KillerStep

\* The table, the tasks, the store, the kernel and the cgroups keep their types,
\* and the owner of a child holds its pid (ProcessManager as a whole).
THEOREM TypeCorrect == Spec => []TypeOK
<1>1. Spec => []TypeInv
  BY TypeInit, TypeNext, PTL DEF Spec
<1>2. TypeInv => TypeOK
  BY DEF TypeInv
<1> QED BY <1>1, <1>2, PTL

----------------------------------------------------------------------------
(***************************************************************************)
(* A kill changes neither who is a child nor whose child it is.            *)
(***************************************************************************)
LEMMA KilledChildren ==
    ASSUME KernelTypeOK, NEW S, NEW p \in Pid
    PROVE  /\ Killed(S)[p].st \in {"live"} \cup Exited <=> IsChild(p)
           /\ IsChild(p) => Killed(S)[p].owner = os[p].owner
           /\ ~IsChild(p) => Killed(S)[p].owner \in {os[p].owner, 0}
<1>1. os[p] \in OsProcess
  BY DEF KernelTypeOK
<1>2. CASE p \in S /\ os[p].st = "live"
  <2>1. Killed(S)[p] = [os[p] EXCEPT !.st = "ExitedFail"]
    BY <1>2 DEF Killed
  <2>2. Killed(S)[p].st = "ExitedFail" /\ Killed(S)[p].owner = os[p].owner
    BY <1>1, <2>1 DEF OsProcess
  <2> QED BY <1>2, <2>2 DEF IsChild, Exited
<1>3. CASE p \in S /\ os[p].st = "foreign"
  BY <1>3 DEF Killed, Free, IsChild, Exited
<1>4. CASE ~(p \in S /\ os[p].st \in {"live", "foreign"})
  BY <1>4 DEF Killed, IsChild
<1> QED BY <1>2, <1>3, <1>4

\* The steps that change the kernel's table by kills alone.
KillStep == \E S : os' = Killed(S)

\* A kill brings no handle into use.
LEMMA KillStepOwners ==
    ASSUME KernelTypeOK, UNCHANGED os \/ KillStep
    PROVE  \A p \in Pid : /\ IsChild(p)' <=> IsChild(p)
                          /\ IsChild(p) => os'[p].owner = os[p].owner
                          /\ os'[p].owner \in {os[p].owner, 0}
<1>1. CASE UNCHANGED os
  BY <1>1 DEF IsChild
<1>2. CASE KillStep
  <2>1. PICK S : os' = Killed(S)
    BY <1>2 DEF KillStep
  <2> QED BY <2>1, KilledChildren DEF IsChild
<1> QED BY <1>1, <1>2

\* A launch gives one free pid to its handle.
LEMMA LaunchChildOwners ==
    ASSUME KernelTypeOK, NEW h \in Handle, NEW q \in Pid, LaunchChild(h, q)
    PROVE  /\ os[q] = Free
           /\ os'[q].st = "live" /\ os'[q].owner = h
           /\ \A p \in Pid \ {q} : os'[p] = os[p]
BY DEF LaunchChild, FreePids, Fork, KernelTypeOK

----------------------------------------------------------------------------
\* Every step keeps the counter at or above the handles in use.
LEMMA FreshNext == TypeInv /\ FreshHandles /\ [Next]_vars => FreshHandles'
<1> SUFFICES ASSUME TypeInv, FreshHandles, [Next]_vars, NEW g \in Handle, InUse(g)'
             PROVE  g <= next'
  BY DEF FreshHandles
<1> USE Sentinels
<1>t. /\ KernelTypeOK /\ StoreTypeOK /\ next \in Nat
      /\ job \in [Handle -> Job]
      /\ procs \in [Handle -> Entry \cup {NoEntry}]
      /\ killers \in [Killer -> [pc : KillerPc, h : 0 .. MaxHandle, pid : Pid \cup {NoPid}]]
      /\ g \in Nat \ {0}
  BY DEF TypeInv, TypeOK, Handle
<1>u. InUse(g) => g <= next
  BY DEF FreshHandles
<1>1. ASSUME NEW spec \in SpawnSpecs, NEW q \in Pid, SpawnLaunch(spec, q) PROVE g <= next'
  <2>1. next + 1 \in Handle
    BY <1>1, <1>t DEF SpawnLaunch, Handle
  <2>2. \A p \in Pid : os'[p].owner \in {os[p].owner, next + 1}
    BY <1>1, <2>1, <1>t, LaunchChildOwners DEF SpawnLaunch
  <2>3. InUse(g) \/ g = next + 1
    BY <1>1, <2>2, <1>t DEF SpawnLaunch, InUse, Tracked, Keys, tableVars, callVars, storeVars
  <2> QED BY <1>1, <1>u, <1>t, <2>3 DEF SpawnLaunch
<1>2. CASE SpawnFails
  <2>1. next + 1 \in Handle
    BY <1>2, <1>t DEF SpawnFails, Handle
  <2>2. UNCHANGED os \/ KillStep
    BY <1>2, <2>1 DEF SpawnFails, LaunchFails, KillStep
  <2>3. \A p \in Pid : os'[p].owner \in {os[p].owner, 0}
    BY <2>2, <1>t, KillStepOwners
  <2>4. InUse(g)
    BY <1>2, <2>3, <1>t DEF SpawnFails, InUse, Tracked, Keys, tableVars, callVars, storeVars
  <2> QED BY <1>2, <1>u, <1>t, <2>4 DEF SpawnFails
<1>3. ASSUME NEW h \in Handle, Insert(h) \/ RecordExit(h) \/ Wake(h) \/ Reinsert(h)
      PROVE  g <= next'
  <2>1. UNCHANGED <<next, os, records, forgetting, killers>>
    BY <1>3 DEF Insert, RecordExit, Wake, Reinsert, callVars, storeVars
  <2>2. job'[g].pc # "none" => job[g].pc # "none"
    BY <1>3, <1>t DEF Insert, RecordExit, Wake, Reinsert, Job
  <2>3. g \in Tracked' => g \in Tracked \/ job[g].pc # "none"
    BY <1>3, <1>t DEF Insert, RecordExit, ExitRecorded, Wake, Reinsert, Tracked, tableVars
  <2> QED BY <1>u, <2>1, <2>2, <2>3 DEF InUse, Keys
<1>4. ASSUME NEW h \in Handle, Persist(h) \/ PersistExit(h) PROVE g <= next'
  <2>1. UNCHANGED <<next, os, procs, forgetting, killers>>
    BY <1>4 DEF Persist, PersistExit, callVars, tableVars
  <2>2. job'[g].pc # "none" => job[g].pc # "none"
    BY <1>4, <1>t DEF Persist, PersistExit, Job
  <2>3. g \in Keys' => g \in Keys \/ job[g].pc # "none"
    BY <1>4, <1>t DEF Persist, PersistExit, BestEffort, Put, SetStatus, storeVars, Keys, StoreTypeOK
  <2> QED BY <1>u, <2>1, <2>2, <2>3 DEF InUse, Tracked
<1>5. ASSUME NEW h \in Handle, Reap(h) PROVE g <= next'
  <2>1. UNCHANGED <<next, procs, records, forgetting, killers>>
    BY <1>5 DEF Reap, callVars, tableVars, storeVars
  <2>2. job'[g].pc # "none" => job[g].pc # "none"
    BY <1>5, <1>t DEF Reap, Job
  <2>3. \A p \in Pid : os'[p].owner \in {os[p].owner, 0}
    BY <1>5, <1>t DEF Reap, KernelTypeOK, Free
  <2> QED BY <1>u, <1>t, <2>1, <2>2, <2>3 DEF InUse, Tracked, Keys
<1>6. ASSUME NEW h \in Handle, Decide(h) \/ RelaunchFails(h) PROVE g <= next'
  <2>1. UNCHANGED <<next, procs, records, forgetting, killers>>
    BY <1>6 DEF Decide, RelaunchFails, callVars, tableVars, storeVars
  <2>2. job'[g].pc # "none" => job[g].pc # "none"
    BY <1>6, <1>t DEF Decide, RelaunchFails, Job
  <2>3. UNCHANGED os \/ KillStep
    BY <1>6 DEF Decide, CgRemove, RelaunchFails, LaunchFails, KillStep
  <2>4. \A p \in Pid : os'[p].owner \in {os[p].owner, 0}
    BY <2>3, <1>t, KillStepOwners
  <2> QED BY <1>u, <1>t, <2>1, <2>2, <2>4 DEF InUse, Tracked, Keys
<1>7. ASSUME NEW h \in Handle, NEW q \in Pid, Relaunch(h, q) PROVE g <= next'
  <2>1. UNCHANGED <<next, procs, records, forgetting, killers>> /\ job[h].pc # "none"
    BY <1>7 DEF Relaunch, callVars, tableVars, storeVars
  <2>2. job'[g].pc # "none" => job[g].pc # "none"
    BY <1>7, <1>t DEF Relaunch, Job
  <2>3. \A p \in Pid : os'[p].owner \in {os[p].owner, h}
    BY <1>7, <1>t, LaunchChildOwners DEF Relaunch
  <2> QED BY <1>u, <1>t, <2>1, <2>2, <2>3 DEF InUse, Tracked, Keys
<1>8. ASSUME NEW p \in Pid, NEW code \in Exited, ChildExit(p, code) PROVE g <= next'
  <2>1. \A q \in Pid : os'[q].owner = os[q].owner
    BY <1>8, <1>t DEF ChildExit, KernelTypeOK, OsProcess
  <2> QED BY <1>8, <1>u, <2>1 DEF ChildExit, InUse, Tracked, Keys, callVars, tableVars, storeVars
<1>9. ASSUME NEW h \in Handle, Stop(h) \/ SignalCheck(h) PROVE g <= next'
  <2>1. UNCHANGED <<next, procs, records, job, os, forgetting>>
    BY <1>9 DEF Stop, SignalCheck, tableVars, storeVars
  <2>2. h \in Tracked
    BY <1>9 DEF Stop, SignalCheck, Running, Tracked, NoEntry
  <2>3. \A k \in Killer : killers'[k].h \in {killers[k].h, h}
    BY <1>9, <1>t DEF Stop, SignalCheck
  <2> QED BY <1>u, <1>t, <2>1, <2>2, <2>3 DEF InUse, Tracked, Keys
<1>10. ASSUME NEW k \in Killer, Terminate(k) \/ GraceOver(k) \/ Escalate(k) \/ SignalSend(k)
       PROVE  g <= next'
  <2>1. UNCHANGED <<next, procs, records, job, forgetting>>
    BY <1>10 DEF Terminate, GraceOver, Escalate, SignalSend, tableVars, storeVars
  <2>2. \A i \in Killer : killers'[i].h \in {killers[i].h, 0}
    BY <1>10, <1>t DEF Terminate, GraceOver, Escalate, SignalSend, Idle
  <2>3. UNCHANGED os \/ KillStep
    BY <1>10 DEF Terminate, GraceOver, Escalate, SignalSend, Signalled, CgKill, KillStep
  <2>4. \A p \in Pid : os'[p].owner \in {os[p].owner, 0}
    BY <2>3, <1>t, KillStepOwners
  <2> QED BY <1>u, <1>t, <2>1, <2>2, <2>4 DEF InUse, Tracked, Keys
<1>11. ASSUME NEW h \in Handle, Forget(h) PROVE g <= next'
  <2>1. g \in Tracked' => g \in Tracked
    BY <1>11, <1>t DEF Forget, Tracked
  <2> QED BY <1>11, <1>u, <2>1 DEF Forget, InUse, Keys, storeVars
<1>12. ASSUME NEW h \in Handle, ForgetStored(h) PROVE g <= next'
  <2>1. g \in Keys' => g \in Keys
    BY <1>12, <1>t DEF ForgetStored, BestEffort, Remove, storeVars, Keys, StoreTypeOK
  <2> QED BY <1>12, <1>u, <2>1 DEF ForgetStored, InUse, Tracked, tableVars
<1>13. CASE DrainBegin \/ DrainTerm \/ DrainForce
  <2>1. UNCHANGED <<next, procs, records, job, forgetting, killers>>
    BY <1>13 DEF DrainBegin, DrainTerm, DrainForce, tableVars, storeVars
  <2>2. UNCHANGED os \/ KillStep
    BY <1>13 DEF DrainBegin, DrainTerm, DrainForce, CgShutdown, KillStep
  <2>3. \A p \in Pid : os'[p].owner \in {os[p].owner, 0}
    BY <2>2, <1>t, KillStepOwners
  <2> QED BY <1>u, <1>t, <2>1, <2>3 DEF InUse, Tracked, Keys
<1>14. CASE Restart
  <2>1. \A h \in Keys : h <= next'
    BY <1>14, <1>t, LoadedNextHandleBounds DEF Restart
  <2>2. g \in Tracked' \/ g \in Keys' => g \in Keys
    BY <1>14 DEF Restart, Tracked, Keys, storeVars
  <2>3. \A p \in Pid : os'[p].owner = 0
    BY <1>14 DEF Restart, Orphaned, Free, Foreign
  <2>4. job'[g].pc = "none" /\ g \notin forgetting' /\ \A k \in Killer : killers'[k].h = 0
    BY <1>14 DEF Restart, Idle
  <2> QED BY <1>t, <2>1, <2>2, <2>3, <2>4 DEF InUse
<1>15. CASE HostStep
  <2>1. \A p \in Pid : os'[p].owner \in {os[p].owner, 0}
    BY <1>15, <1>t DEF HostStep, ForeignTake, ForeignExit, KernelTypeOK, Free, Foreign
  <2> QED BY <1>15, <1>u, <1>t, <2>1 DEF HostStep, InUse, Tracked, Keys, callVars, tableVars, storeVars
<1>16. CASE UNCHANGED vars
  BY <1>16, <1>u DEF vars, InUse, Tracked, Keys, callVars, storeVars
<1> QED
  BY <1>1, <1>2, <1>3, <1>4, <1>5, <1>6, <1>7, <1>8, <1>9, <1>10, <1>11, <1>12, <1>13, <1>14,
     <1>15, <1>16
  DEF Next, ClientStep, TaskStep, KillerStep

LEMMA FreshInit == Init => FreshHandles
BY DEF Init, FreshHandles, InUse, Tracked, Keys, StoreInit, KernelInit, NoJob, Idle, Free, Handle

\* spawn never issues a handle that is in use anywhere: in the table, on disk
\* (also after restarts that find KEY_NEXT moved back), by a task, a child, or a
\* stop, signal or forget that is still in flight.
THEOREM HandlesAreFresh == Spec => []FreshHandles
<1>1. Spec => [](TypeInv /\ FreshHandles)
  BY TypeInit, TypeNext, FreshInit, FreshNext, PTL DEF Spec
<1> QED BY <1>1, PTL

----------------------------------------------------------------------------
(***************************************************************************)
(* Children and their owners.  Besides EveryChildIsOwned: only a child has *)
(* an owning handle.                                                       *)
(***************************************************************************)
OwnedInv ==
    /\ EveryChildIsOwned
    /\ \A p \in Pid : os[p].owner \in Handle => IsChild(p)

\* The steps that leave the owners where they are and at most kill.
LEMMA OwnedKill ==
    ASSUME TypeInv, OwnedInv, TypeInv',
           UNCHANGED os \/ KillStep,
           \A h \in Handle : job'[h].pid = job[h].pid
    PROVE  OwnedInv'
<1>1. \A p \in Pid : /\ IsChild(p)' <=> IsChild(p)
                     /\ IsChild(p) => os'[p].owner = os[p].owner
                     /\ os'[p].owner \in {os[p].owner, 0}
  BY KillStepOwners DEF TypeInv, TypeOK
<1>2. OwnerHoldsPid' /\ OwnerHoldsPid /\ job \in [Handle -> Job]
  BY DEF TypeInv, TypeOK
<1>3. \A p \in Pid : IsChild(p)' => os'[p].owner \in Handle /\ job'[os'[p].owner].pid = p
  BY <1>1 DEF OwnedInv, EveryChildIsOwned
<1>4. ASSUME NEW h \in Handle, job'[h].pid # NoPid
      PROVE  (IsChild(job[h].pid) /\ os[job[h].pid].owner = h)'
  <2>1. job[h].pid \in Pid
    BY <1>2, <1>4 DEF Job
  <2> QED BY <1>1, <1>4, <2>1 DEF OwnedInv, EveryChildIsOwned, IsChild
<1>5. \A p \in Pid : os'[p].owner \in Handle => IsChild(p)'
  BY <1>1 DEF OwnedInv, Handle
<1> QED BY <1>2, <1>3, <1>4, <1>5 DEF OwnedInv, EveryChildIsOwned, OwnerHoldsPid

\* A launch for a handle without a child, by its owner.
LEMMA OwnedLaunch ==
    ASSUME TypeInv, OwnedInv, TypeInv', NEW h \in Handle, NEW q \in Pid,
           LaunchChild(h, q), job[h].pid = NoPid,
           job'[h].pid = q,
           \A g \in Handle \ {h} : job'[g].pid = job[g].pid
    PROVE  OwnedInv'
<1>1. /\ os[q] = Free
      /\ os'[q].st = "live" /\ os'[q].owner = h
      /\ \A p \in Pid \ {q} : os'[p] = os[p]
  BY LaunchChildOwners DEF TypeInv, TypeOK
<1>2. OwnerHoldsPid' /\ OwnerHoldsPid /\ job \in [Handle -> Job]
  BY DEF TypeInv, TypeOK
<1>3. ~IsChild(q) /\ IsChild(q)'
  BY <1>1 DEF IsChild, Free, Exited
<1>4. ASSUME NEW p \in Pid, IsChild(p)'
      PROVE  os'[p].owner \in Handle /\ job'[os'[p].owner].pid = p
  <2>1. CASE p = q
    BY <1>1, <2>1
  <2>2. CASE p # q
    <3>1. os'[p] = os[p] /\ IsChild(p)
      BY <1>1, <1>4, <2>2 DEF IsChild
    <3>2. os[p].owner \in Handle /\ job[os[p].owner].pid = p
      BY <3>1 DEF OwnedInv, EveryChildIsOwned
    <3>3. os[p].owner # h
      BY <3>2, Sentinels
    <3> QED BY <3>1, <3>2, <3>3
  <2> QED BY <2>1, <2>2
<1>5. ASSUME NEW g \in Handle, job'[g].pid # NoPid
      PROVE  (IsChild(job[g].pid) /\ os[job[g].pid].owner = g)'
  <2>1. CASE g = h
    BY <1>1, <1>3, <2>1
  <2>2. CASE g # h
    <3>1. job'[g].pid = job[g].pid /\ job[g].pid \in Pid
      BY <1>2, <1>5, <2>2 DEF Job
    <3>2. IsChild(job[g].pid) /\ os[job[g].pid].owner = g
      BY <1>5, <3>1 DEF OwnedInv, EveryChildIsOwned
    <3>3. job[g].pid # q
      BY <1>3, <3>2
    <3>4. os'[job[g].pid] = os[job[g].pid]
      BY <1>1, <3>1, <3>3
    <3> QED BY <3>1, <3>2, <3>4 DEF IsChild
  <2> QED BY <2>1, <2>2
<1>6. ASSUME NEW p \in Pid, os'[p].owner \in Handle PROVE IsChild(p)'
  <2>1. CASE p = q
    BY <1>3, <2>1
  <2>2. CASE p # q
    BY <1>1, <1>6, <2>2 DEF OwnedInv, IsChild
  <2> QED BY <2>1, <2>2
<1> QED BY <1>2, <1>4, <1>5, <1>6 DEF OwnedInv, EveryChildIsOwned, OwnerHoldsPid

LEMMA OwnedNext ==
    TypeInv /\ TypeInv' /\ FreshHandles /\ OwnedInv /\ [Next]_vars => OwnedInv'
<1> SUFFICES ASSUME TypeInv, TypeInv', FreshHandles, OwnedInv, [Next]_vars PROVE OwnedInv'
  OBVIOUS
<1> USE Sentinels
<1>t. /\ KernelTypeOK /\ job \in [Handle -> Job] /\ OwnerHoldsPid /\ OwnerHoldsPid'
      /\ next \in Nat
  BY DEF TypeInv, TypeOK
<1>1. ASSUME NEW spec \in SpawnSpecs, NEW q \in Pid, SpawnLaunch(spec, q) PROVE OwnedInv'
  <2>1. next + 1 \in Handle
    BY <1>1, <1>t DEF SpawnLaunch, Handle
  <2>2. ~InUse(next + 1)
    BY <2>1, <1>t DEF FreshHandles
  <2>3. job[next + 1].pid = NoPid
    BY <2>1, <2>2, <1>t DEF InUse, OwnerHoldsPid, HasChild
  <2>4. /\ job'[next + 1].pid = q
        /\ \A g \in Handle \ {next + 1} : job'[g].pid = job[g].pid
    BY <1>1, <2>1, <1>t DEF SpawnLaunch, NoJob
  <2> QED BY <1>1, <2>1, <2>3, <2>4, OwnedLaunch DEF SpawnLaunch
<1>2. ASSUME NEW h \in Handle, NEW q \in Pid, Relaunch(h, q) PROVE OwnedInv'
  <2>1. job[h].pid = NoPid
    BY <1>2, <1>t DEF Relaunch, OwnerHoldsPid, HasChild
  <2>2. job'[h].pid = q /\ \A g \in Handle \ {h} : job'[g].pid = job[g].pid
    BY <1>2, <1>t DEF Relaunch, Job
  <2> QED BY <1>2, <2>1, <2>2, OwnedLaunch DEF Relaunch
<1>3. CASE SpawnFails
  BY <1>3, OwnedKill DEF SpawnFails, LaunchFails, KillStep
<1>4. ASSUME NEW h \in Handle,
             \/ Insert(h) \/ Persist(h) \/ RecordExit(h) \/ PersistExit(h) \/ Wake(h)
             \/ Reinsert(h) \/ ForgetStored(h) \/ Stop(h) \/ SignalCheck(h) \/ Forget(h)
      PROVE  OwnedInv'
  <2>1. UNCHANGED os
    BY <1>4 DEF Insert, Persist, RecordExit, PersistExit, Wake, Reinsert, ForgetStored, Stop,
                SignalCheck, Forget
  <2>2. \A g \in Handle : job'[g].pid = job[g].pid
    BY <1>4, <1>t DEF Insert, Persist, RecordExit, PersistExit, Wake, Reinsert, ForgetStored, Stop,
                SignalCheck, Forget, Job
  <2> QED BY <2>1, <2>2, OwnedKill
<1>5. ASSUME NEW h \in Handle, Decide(h) \/ RelaunchFails(h) PROVE OwnedInv'
  <2>1. UNCHANGED os \/ KillStep
    BY <1>5 DEF Decide, CgRemove, RelaunchFails, LaunchFails, KillStep
  <2>2. \A g \in Handle : job'[g].pid = job[g].pid
    BY <1>5, <1>t DEF Decide, RelaunchFails, Job
  <2> QED BY <2>1, <2>2, OwnedKill
<1>6. ASSUME NEW h \in Handle, Reap(h) PROVE OwnedInv'
  <2>0. PICK q \in Pid : q = job[h].pid
    BY <1>6, <1>t DEF Reap, OwnerHoldsPid, HasChild, Job
  <2>1. q # NoPid /\ os[q].owner = h
    BY <2>0 DEF OwnedInv, EveryChildIsOwned
  <2>2. /\ os' = [os EXCEPT ![q] = Free]
        /\ job'[h].pid = NoPid
        /\ \A g \in Handle \ {h} : job'[g].pid = job[g].pid
    BY <1>6, <2>0, <1>t DEF Reap, Job
  <2>3. os'[q] = Free /\ \A p \in Pid \ {q} : os'[p] = os[p]
    BY <2>1, <2>2, <1>t DEF KernelTypeOK
  <2>4. ~IsChild(q)' /\ os'[q].owner = 0
    BY <2>3 DEF IsChild, Free, Exited
  <2>5. ASSUME NEW p \in Pid, IsChild(p)'
        PROVE  os'[p].owner \in Handle /\ job'[os'[p].owner].pid = p
    <3>1. p # q /\ os'[p] = os[p] /\ IsChild(p)
      BY <2>3, <2>4, <2>5 DEF IsChild
    <3>2. os[p].owner \in Handle /\ job[os[p].owner].pid = p
      BY <3>1 DEF OwnedInv, EveryChildIsOwned
    <3>3. os[p].owner # h
      BY <2>0, <3>1, <3>2
    <3> QED BY <2>2, <3>1, <3>2, <3>3
  <2>6. ASSUME NEW g \in Handle, job'[g].pid # NoPid
        PROVE  (IsChild(job[g].pid) /\ os[job[g].pid].owner = g)'
    <3>1. g # h /\ job'[g].pid = job[g].pid /\ job[g].pid \in Pid
      BY <2>2, <2>6, <1>t DEF Job
    <3>2. IsChild(job[g].pid) /\ os[job[g].pid].owner = g
      BY <2>6, <3>1 DEF OwnedInv, EveryChildIsOwned
    <3>3. os'[job[g].pid] = os[job[g].pid]
      BY <2>1, <2>3, <3>1, <3>2
    <3> QED BY <3>1, <3>2, <3>3 DEF IsChild
  <2>7. ASSUME NEW p \in Pid, os'[p].owner \in Handle PROVE IsChild(p)'
    <3>1. p # q
      BY <2>4, <2>7 DEF Handle
    <3> QED BY <2>3, <2>7, <3>1 DEF OwnedInv, IsChild
  <2> QED BY <1>t, <2>5, <2>6, <2>7 DEF OwnedInv, EveryChildIsOwned, OwnerHoldsPid
<1>7. ASSUME NEW p \in Pid, NEW code \in Exited, ChildExit(p, code) PROVE OwnedInv'
  <2>1. \A q \in Pid : os'[q].owner = os[q].owner /\ (IsChild(q)' <=> IsChild(q))
    <3>1. os[p].st = "live" /\ os' = [os EXCEPT ![p].st = code]
      BY <1>7 DEF ChildExit
    <3> QED BY <3>1, <1>t DEF KernelTypeOK, OsProcess, IsChild
  <2>2. job' = job
    BY <1>7 DEF ChildExit
  <2> QED BY <1>t, <2>1, <2>2 DEF OwnedInv, EveryChildIsOwned, Job
<1>8. ASSUME NEW k \in Killer, Terminate(k) \/ GraceOver(k) \/ Escalate(k) \/ SignalSend(k)
      PROVE  OwnedInv'
  <2>1. job' = job
    BY <1>8 DEF Terminate, GraceOver, Escalate, SignalSend
  <2>2. UNCHANGED os \/ KillStep
    BY <1>8 DEF Terminate, GraceOver, Escalate, SignalSend, Signalled, CgKill, KillStep
  <2> QED BY <2>1, <2>2, OwnedKill
<1>9. CASE DrainBegin \/ DrainTerm \/ DrainForce
  <2>1. job' = job
    BY <1>9 DEF DrainBegin, DrainTerm, DrainForce
  <2>2. UNCHANGED os \/ KillStep
    BY <1>9 DEF DrainBegin, DrainTerm, DrainForce, CgShutdown, KillStep
  <2> QED BY <2>1, <2>2, OwnedKill
<1>10. CASE Restart
  <2>1. \A p \in Pid : ~IsChild(p)' /\ os'[p].owner = 0
    BY <1>10 DEF Restart, Orphaned, Free, Foreign, IsChild, Exited
  <2>2. \A h \in Handle : job'[h].pid = NoPid
    BY <1>10 DEF Restart
  <2> QED BY <1>t, <2>1, <2>2 DEF OwnedInv, EveryChildIsOwned, OwnerHoldsPid, Handle
<1>11. CASE HostStep
  <2>1. job' = job
    BY <1>11 DEF HostStep
  <2>2. \A p \in Pid : /\ os'[p].owner = os[p].owner
                       /\ IsChild(p)' <=> IsChild(p)
    BY <1>11, <1>t DEF HostStep, ForeignTake, ForeignExit, KernelTypeOK, Free, Foreign, IsChild, Exited
  <2> QED BY <1>t, <2>1, <2>2 DEF OwnedInv, EveryChildIsOwned, Job
<1>12. CASE UNCHANGED vars
  BY <1>12, OwnedKill DEF vars
<1> QED
  BY <1>1, <1>2, <1>3, <1>4, <1>5, <1>6, <1>7, <1>8, <1>9, <1>10, <1>11, <1>12
  DEF Next, ClientStep, TaskStep, KillerStep

LEMMA OwnedInit == Init => OwnedInv
BY Sentinels DEF Init, KernelInit, OwnedInv, EveryChildIsOwned, IsChild, Free, HasChild, Exited, Handle

\* No child is lost or left unreaped by an owner that moved on, and no handle
\* has two children, for any interleaving of launches, exits, kills by pid or by
\* cgroup, shutdown and restarts.
THEOREM ChildrenAreOwned == Spec => []EveryChildIsOwned
<1>1. Spec => [](TypeInv /\ FreshHandles /\ OwnedInv)
  BY TypeInit, TypeNext, FreshInit, FreshNext, OwnedInit, OwnedNext, PTL DEF Spec
<1>2. OwnedInv => EveryChildIsOwned
  BY DEF OwnedInv
<1> QED BY <1>1, <1>2, PTL

----------------------------------------------------------------------------
(***************************************************************************)
(* Running entries and their tasks.                                        *)
(***************************************************************************)
LEMMA SupervisedNext ==
    TypeInv /\ FreshHandles /\ RunningIsSupervised /\ [Next]_vars => RunningIsSupervised'
<1> SUFFICES ASSUME TypeInv, FreshHandles, RunningIsSupervised, [Next]_vars,
                    NEW g \in Handle, Running(g)'
             PROVE  Supervised(g)'
  BY DEF RunningIsSupervised
<1> USE Sentinels
<1>t. /\ procs \in [Handle -> Entry \cup {NoEntry}] /\ job \in [Handle -> Job]
      /\ next \in Nat
  BY DEF TypeInv, TypeOK
<1>u. Running(g) => Supervised(g)
  BY DEF RunningIsSupervised
<1>1. ASSUME UNCHANGED procs, job'[g] = job[g] PROVE Supervised(g)'
  BY <1>1, <1>u DEF Running, Supervised
<1>2. ASSUME NEW spec \in SpawnSpecs, NEW p \in Pid, SpawnLaunch(spec, p) PROVE Supervised(g)'
  <2>1. next + 1 \in Handle
    BY <1>2, <1>t DEF SpawnLaunch, Handle
  <2>2. ~InUse(next + 1)
    BY <2>1, <1>t DEF FreshHandles
  <2>3. ~Running(next + 1)
    BY <2>1, <2>2 DEF InUse, Tracked, Running, NoEntry
  <2>4. UNCHANGED procs
    BY <1>2 DEF SpawnLaunch, tableVars
  <2>5. g # next + 1
    BY <2>3, <2>4 DEF Running
  <2>6. job'[g] = job[g]
    BY <1>2, <1>t, <2>5 DEF SpawnLaunch
  <2> QED BY <1>1, <2>4, <2>6
<1>3. CASE SpawnFails
  BY <1>1, <1>3 DEF SpawnFails, tableVars
<1>4. ASSUME NEW h \in Handle,
             \/ Stop(h) \/ SignalCheck(h) \/ ForgetStored(h)
      PROVE  Supervised(g)'
  BY <1>1, <1>4 DEF Stop, SignalCheck, ForgetStored, tableVars
<1>5. ASSUME NEW h \in Handle, TaskStep(h), g # h PROVE Supervised(g)'
  <2>1. job'[g] = job[g]
    BY <1>5, <1>t DEF TaskStep, Insert, Persist, Reap, RecordExit, PersistExit, Decide, Wake,
                      Relaunch, RelaunchFails, Reinsert
  <2>2. procs'[g] = procs[g]
    BY <1>5, <1>t DEF TaskStep, Insert, Persist, Reap, RecordExit, ExitRecorded, PersistExit,
                      Decide, Wake, Relaunch, RelaunchFails, Reinsert, tableVars
  <2> QED BY <1>u, <2>1, <2>2 DEF Running, Supervised
<1>6. CASE TaskStep(g)
  <2>1. CASE Insert(g) \/ Reinsert(g)
    <3>1. procs'[g].pid = job'[g].pid /\ job'[g].pc \in {"inserted", "reinserted"}
      <4>1. CASE Insert(g)
        BY <4>1, <1>t DEF Insert, Job
      <4>2. CASE Reinsert(g)
        <5>1. g \in Tracked
          BY <4>2 DEF Reinsert, Running, Tracked, NoEntry
        <5> QED BY <4>2, <5>1, <1>t DEF Reinsert, Job
      <4> QED BY <2>1, <4>1, <4>2
    <3> QED BY <3>1 DEF Supervised
  <2>2. CASE Persist(g)
    <3>1. UNCHANGED procs /\ job'[g].pid = job[g].pid /\ job'[g].pc = "waiting"
      BY <2>2, <1>t DEF Persist, tableVars, Job
    <3>2. job[g].pc \in {"inserted", "reinserted"}
      BY <2>2 DEF Persist
    <3> QED BY <1>u, <3>1, <3>2 DEF Running, Supervised
  <2>3. CASE Reap(g)
    BY <2>3, <1>t DEF Reap, Job, Supervised
  <2>4. CASE RecordExit(g)
    <3>1. procs'[g].status \in Exited \/ procs'[g] = NoEntry
      BY <2>4, <1>t DEF RecordExit, ExitRecorded, Tracked, Entry, Job
    <3> QED BY <3>1 DEF Running, NoEntry, Exited
  <2>5. CASE PersistExit(g) \/ Decide(g) \/ Wake(g) \/ (\E p \in Pid : Relaunch(g, p)) \/ RelaunchFails(g)
    <3>1. UNCHANGED procs /\ job[g].pc \in {"recorded", "stored", "backoff", "relaunch"}
      BY <2>5 DEF PersistExit, Decide, Wake, Relaunch, RelaunchFails, tableVars
    <3> QED BY <1>u, <3>1 DEF Running, Supervised
  <2> QED BY <1>6, <2>1, <2>2, <2>3, <2>4, <2>5 DEF TaskStep
<1>7. ASSUME NEW h \in Handle, Forget(h) PROVE Supervised(g)'
  <2>1. g # h /\ procs'[g] = procs[g] /\ job'[g] = job[g]
    BY <1>7, <1>t DEF Forget, Running, NoEntry
  <2> QED BY <1>u, <2>1 DEF Running, Supervised
<1>8. ASSUME NEW k \in Killer, KillerStep(k) PROVE Supervised(g)'
  BY <1>1, <1>8 DEF KillerStep, Terminate, GraceOver, Escalate, SignalSend, tableVars
<1>9. CASE DrainBegin \/ DrainTerm \/ DrainForce \/ HostStep
  BY <1>1, <1>9 DEF DrainBegin, DrainTerm, DrainForce, HostStep, tableVars
<1>10. ASSUME NEW p \in Pid, NEW code \in Exited, ChildExit(p, code) PROVE Supervised(g)'
  BY <1>1, <1>10 DEF ChildExit, tableVars
<1>11. CASE Restart
  BY <1>11 DEF Restart, Reloaded, Running, NoEntry
<1>12. CASE UNCHANGED vars
  BY <1>1, <1>12 DEF vars
<1> QED
  BY <1>2, <1>3, <1>4, <1>5, <1>6, <1>7, <1>8, <1>9, <1>10, <1>11, <1>12
  DEF Next, ClientStep

LEMMA SupervisedInit == Init => RunningIsSupervised
BY DEF Init, RunningIsSupervised, Running, NoEntry

\* An entry that says Running always has a task that will take it out of that
\* state: it cannot be left Running, and thereby unforgettable, by an owner that
\* ended first.
THEOREM RunningIsAttended == Spec => []RunningIsSupervised
<1>1. Spec => [](TypeInv /\ FreshHandles /\ RunningIsSupervised)
  BY TypeInit, TypeNext, FreshInit, FreshNext, SupervisedInit, SupervisedNext, PTL DEF Spec
<1> QED BY <1>1, PTL

----------------------------------------------------------------------------
(***************************************************************************)
(* Stops.  While a terminate task is under way, the owner of its handle is *)
(* nowhere near a launch, and holds the terminated child or none.          *)
(***************************************************************************)
Stopping(k) == killers[k].pc \in {"term", "grace", "kill"}

Settled(h, pid) ==
    /\ h \in Handle
    /\ h \notin armed
    /\ job[h].pc \in {"inserted", "waiting", "reaped", "recorded", "stored", "reinserted", "done"}
    /\ job[h].pid \in {NoPid, pid}

StopInv == \A k \in Killer : Stopping(k) => Settled(killers[k].h, killers[k].pid)

\* The owner of a settled handle takes no step that unsettles it.
LEMMA SettledTask ==
    ASSUME TypeInv, NEW h \in Handle, NEW i \in Handle, NEW pid, Settled(h, pid), TaskStep(i)
    PROVE  Settled(h, pid)'
<1> USE Sentinels
<1>t. job \in [Handle -> Job] /\ armed \in SUBSET Handle
  BY DEF TypeInv, TypeOK
<1>1. CASE i # h
  <2>1. job'[h] = job[h]
    BY <1>1, <1>t DEF TaskStep, Insert, Persist, Reap, RecordExit, PersistExit, Decide, Wake,
                      Relaunch, RelaunchFails, Reinsert
  <2>2. h \notin armed'
    BY <1>1 DEF TaskStep, Insert, Persist, Reap, RecordExit, PersistExit, Decide, Wake,
                Relaunch, RelaunchFails, Reinsert, tableVars, Settled
  <2> QED BY <2>1, <2>2 DEF Settled
<1>2. CASE i = h
  <2>1. CASE Persist(h)
    BY <2>1, <1>t DEF Persist, tableVars, Settled, Job
  <2>2. CASE Reap(h)
    BY <2>2, <1>t DEF Reap, tableVars, Settled, Job
  <2>3. CASE RecordExit(h)
    BY <2>3, <1>t DEF RecordExit, Settled, Job
  <2>4. CASE PersistExit(h)
    BY <2>4, <1>t DEF PersistExit, tableVars, Settled, Job
  <2>5. CASE Decide(h)
    <3>1. ~MayRestart(h)
      BY DEF MayRestart, Settled
    <3>2. job' = [job EXCEPT ![h].pc = "done"] /\ UNCHANGED armed
      BY <2>5, <3>1 DEF Decide, tableVars
    <3>3. job'[h].pc = "done" /\ job'[h].pid = job[h].pid
      BY <3>2, <1>t DEF Job
    <3> QED BY <3>2, <3>3 DEF Settled
  <2>6. CASE Insert(h) \/ Wake(h) \/ (\E p \in Pid : Relaunch(h, p)) \/ RelaunchFails(h) \/ Reinsert(h)
    BY <2>6 DEF Insert, Wake, Relaunch, RelaunchFails, Reinsert, Settled
  <2> QED BY <1>2, <2>1, <2>2, <2>3, <2>4, <2>5, <2>6 DEF TaskStep
<1> QED BY <1>1, <1>2

LEMMA StopNext ==
    TypeInv /\ FreshHandles /\ RunningIsSupervised /\ StopInv /\ [Next]_vars => StopInv'
<1> SUFFICES ASSUME TypeInv, FreshHandles, RunningIsSupervised, StopInv, [Next]_vars,
                    NEW k \in Killer, Stopping(k)'
             PROVE  Settled(killers[k].h, killers[k].pid)'
  BY DEF StopInv
<1> USE Sentinels
<1>t. /\ job \in [Handle -> Job] /\ armed \in SUBSET Handle /\ next \in Nat /\ OwnerHoldsPid
      /\ killers \in [Killer -> [pc : KillerPc, h : 0 .. MaxHandle, pid : Pid \cup {NoPid}]]
  BY DEF TypeInv, TypeOK
<1>u. Stopping(k) => Settled(killers[k].h, killers[k].pid)
  BY DEF StopInv
<1>1. ASSUME UNCHANGED job, armed' \subseteq armed,
             killers'[k].h = killers[k].h, killers'[k].pid = killers[k].pid, Stopping(k)
      PROVE  Settled(killers[k].h, killers[k].pid)'
  BY <1>1, <1>u DEF Settled
<1>2. ASSUME NEW spec \in SpawnSpecs, NEW p \in Pid, SpawnLaunch(spec, p)
      PROVE  Settled(killers[k].h, killers[k].pid)'
  <2>1. UNCHANGED <<killers, armed>>
    BY <1>2 DEF SpawnLaunch, callVars, tableVars
  <2>2. Settled(killers[k].h, killers[k].pid)
    BY <1>u, <2>1 DEF Stopping
  <2>3. killers[k].h <= next
    BY <2>2 DEF FreshHandles, InUse, Settled
  <2>4. killers[k].h # next + 1
    BY <2>2, <2>3, <1>t DEF Settled, Handle
  <2>5. job'[killers[k].h] = job[killers[k].h]
    BY <1>2, <2>2, <2>4, <1>t DEF SpawnLaunch, Settled
  <2> QED BY <2>1, <2>2, <2>5 DEF Settled
<1>3. CASE SpawnFails
  BY <1>1, <1>3 DEF SpawnFails, callVars, tableVars, Stopping
<1>4. ASSUME NEW h \in Handle, Stop(h) PROVE Settled(killers[k].h, killers[k].pid)'
  <2>1. armed' = armed \ {h} /\ UNCHANGED <<job, procs>>
    BY <1>4 DEF Stop
  <2>2. CASE killers'[k] = killers[k]
    BY <1>1, <2>1, <2>2 DEF Stopping
  <2>3. CASE killers'[k] # killers[k]
    <3>1. Running(h) /\ killers'[k].h = h /\ killers'[k].pid = procs[h].pid
      BY <1>4, <2>3, <1>t DEF Stop, NeedsTerminate
    <3>2. Supervised(h)
      BY <3>1 DEF RunningIsSupervised
    <3>3. job[h].pid \in {NoPid, procs[h].pid}
      BY <3>2, <1>t DEF Supervised, OwnerHoldsPid, HasChild
    <3>4. job[h].pc \in {"inserted", "waiting", "reinserted", "reaped"}
      BY <3>2 DEF Supervised
    <3> QED BY <2>1, <3>1, <3>3, <3>4 DEF Settled
  <2> QED BY <2>2, <2>3
<1>5. ASSUME NEW h \in Handle, SignalCheck(h) PROVE Settled(killers[k].h, killers[k].pid)'
  <2>1. UNCHANGED <<job, armed>>
    BY <1>5 DEF SignalCheck, tableVars
  <2>2. killers'[k] = killers[k]
    BY <1>5, <1>t DEF SignalCheck, Stopping
  <2> QED BY <1>1, <2>1, <2>2 DEF Stopping
<1>6. ASSUME NEW h \in Handle, Forget(h) \/ ForgetStored(h)
      PROVE  Settled(killers[k].h, killers[k].pid)'
  BY <1>1, <1>6 DEF Forget, ForgetStored, tableVars, Stopping
<1>7. ASSUME NEW h \in Handle, TaskStep(h) PROVE Settled(killers[k].h, killers[k].pid)'
  <2>1. UNCHANGED killers
    BY <1>7 DEF TaskStep, Insert, Persist, Reap, RecordExit, PersistExit, Decide, Wake,
                Relaunch, RelaunchFails, Reinsert, callVars
  <2>2. Settled(killers[k].h, killers[k].pid)
    BY <1>u, <2>1 DEF Stopping
  <2>3. PICK g \in Handle, q \in Pid \cup {NoPid} : g = killers[k].h /\ q = killers[k].pid
    BY <2>2, <1>t DEF Settled
  <2>4. Settled(g, q)
    BY <2>2, <2>3
  <2>5. Settled(g, q)'
    BY <1>7, <2>4, SettledTask
  <2> QED BY <2>1, <2>3, <2>5 DEF Settled
<1>8. ASSUME NEW i \in Killer, KillerStep(i) PROVE Settled(killers[k].h, killers[k].pid)'
  <2>1. UNCHANGED <<job, armed>>
    BY <1>8 DEF KillerStep, Terminate, GraceOver, Escalate, SignalSend, tableVars
  <2>2. /\ killers'[k].h = killers[k].h /\ killers'[k].pid = killers[k].pid
        /\ Stopping(k)
    BY <1>8, <1>t DEF KillerStep, Terminate, GraceOver, Escalate, SignalSend, Idle, Stopping
  <2> QED BY <1>1, <2>1, <2>2
<1>9. CASE DrainBegin \/ DrainTerm \/ DrainForce \/ HostStep
  BY <1>1, <1>9 DEF DrainBegin, DrainTerm, DrainForce, HostStep, tableVars, callVars, Stopping
<1>10. ASSUME NEW p \in Pid, NEW code \in Exited, ChildExit(p, code)
       PROVE  Settled(killers[k].h, killers[k].pid)'
  BY <1>1, <1>10 DEF ChildExit, tableVars, callVars, Stopping
<1>11. CASE Restart
  BY <1>11 DEF Restart, Stopping, Idle
<1>12. CASE UNCHANGED vars
  BY <1>1, <1>12 DEF vars, callVars, Stopping
<1> QED
  BY <1>2, <1>3, <1>4, <1>5, <1>6, <1>7, <1>8, <1>9, <1>10, <1>11, <1>12
  DEF Next, ClientStep

LEMMA StopInit == Init => StopInv
BY DEF Init, StopInv, Stopping, Idle

\* With what is known of children and owners, a settled stop is final.
LEMMA SettledIsFinal == TypeInv /\ OwnedInv /\ StopInv => StopIsFinal
<1> SUFFICES ASSUME TypeInv, OwnedInv, StopInv, NEW k \in Killer, Stopping(k)
             PROVE  /\ killers[k].h \notin armed
                    /\ \A p \in Pid : os[p].owner = killers[k].h => p = killers[k].pid
  BY DEF StopIsFinal, Stopping
<1>1. Settled(killers[k].h, killers[k].pid)
  BY DEF StopInv
<1>2. ASSUME NEW p \in Pid, os[p].owner = killers[k].h PROVE p = killers[k].pid
  <2>1. IsChild(p)
    BY <1>1, <1>2 DEF OwnedInv, Settled
  <2>2. job[killers[k].h].pid = p
    BY <1>2, <2>1 DEF OwnedInv, EveryChildIsOwned
  <2> QED BY <1>1, <2>2, ProtoAssumption DEF Settled
<1> QED BY <1>1, <1>2 DEF Settled

\* A stop that found its process running is final: until its terminate task ends
\* the policy stays disarmed and no other child of the handle comes to be, for
\* any interleaving with exits, relaunches, other stops, forget and shutdown.
THEOREM StopsAreFinal == Spec => []StopIsFinal
<1>1. Spec => [](TypeInv /\ FreshHandles /\ OwnedInv /\ RunningIsSupervised /\ StopInv)
  BY TypeInit, TypeNext, FreshInit, FreshNext, OwnedInit, OwnedNext, SupervisedInit,
     SupervisedNext, StopInit, StopNext, PTL DEF Spec
<1> QED BY <1>1, SettledIsFinal, PTL
=============================================================================
