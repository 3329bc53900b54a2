------------------------- MODULE BookkeepingProofs -------------------------
(***************************************************************************)
(* What the tasks of ProcessManager leave behind: the reason for which a   *)
(* task ended, the record on disk, the leaf directory of a child, and the  *)
(* tombstones of an earlier life of the supervisor.                        *)
(***************************************************************************)
EXTENDS SupervisionProofs

(***************************************************************************)
(* The step of the task of another handle touches nothing of handle g.     *)
(***************************************************************************)
LEMMA OtherTask ==
    ASSUME TypeInv, NEW g \in Handle, NEW h \in Handle, g # h, TaskStep(h)
    PROVE  /\ job'[g] = job[g]
           /\ procs'[g] = procs[g]
           /\ records'[g] = records[g]
           /\ g \in armed' <=> g \in armed
           /\ UNCHANGED drain
<1> USE Sentinels
<1>t. /\ procs \in [Handle -> Entry \cup {NoEntry}] /\ job \in [Handle -> Job]
      /\ StoreTypeOK
  BY DEF TypeInv, TypeOK
<1>1. job'[g] = job[g]
  BY <1>t DEF TaskStep, Insert, Persist, Reap, RecordExit, PersistExit, Decide, Wake,
              Relaunch, RelaunchFails, Reinsert
<1>2. procs'[g] = procs[g] /\ (g \in armed' <=> g \in armed)
  BY <1>t DEF TaskStep, Insert, Persist, Reap, RecordExit, ExitRecorded, PersistExit,
              Decide, Wake, Relaunch, RelaunchFails, Reinsert, tableVars
<1>3. records'[g] = records[g]
  BY <1>t DEF TaskStep, Insert, Persist, Reap, RecordExit, PersistExit,
              Decide, Wake, Relaunch, RelaunchFails, Reinsert, storeVars,
              BestEffort, Put, SetStatus, StoreTypeOK
<1>4. UNCHANGED drain
  BY DEF TaskStep, Insert, Persist, Reap, RecordExit, PersistExit,
         Decide, Wake, Relaunch, RelaunchFails, Reinsert, callVars
<1> QED BY <1>1, <1>2, <1>3, <1>4

(***************************************************************************)
(* A spawn draws a handle that nothing in the table, the tasks or the      *)
(* forgets refers to, and changes no other.                                *)
(***************************************************************************)
LEMMA SpawnDraws ==
    ASSUME TypeInv, FreshHandles, NEW spec \in SpawnSpecs, NEW p \in Pid, SpawnLaunch(spec, p)
    PROVE  /\ next + 1 \in Handle
           /\ ~InUse(next + 1)
           /\ job'[next + 1] = [NoJob EXCEPT !.pc = "launched", !.pid = p, !.spec = spec]
           /\ \A g \in Handle : g # next + 1 => job'[g] = job[g]
           /\ UNCHANGED <<procs, armed, records, drain, forgetting>>
<1>t. job \in [Handle -> Job] /\ next \in Nat
  BY DEF TypeInv, TypeOK
<1>1. next + 1 \in Handle
  BY <1>t, ProtoAssumption DEF SpawnLaunch, Handle
<1>2. ~InUse(next + 1)
  BY <1>1, <1>t DEF FreshHandles
<1>3. /\ job'[next + 1] = [NoJob EXCEPT !.pc = "launched", !.pid = p, !.spec = spec]
      /\ \A g \in Handle : g # next + 1 => job'[g] = job[g]
  BY <1>1, <1>t DEF SpawnLaunch
<1>4. UNCHANGED <<procs, armed, records, drain, forgetting>>
  BY DEF SpawnLaunch, tableVars, callVars, storeVars
<1> QED BY <1>1, <1>2, <1>3, <1>4

----------------------------------------------------------------------------
(***************************************************************************)
(* Why a task ended.  While it has not broken out of its loop, it has not  *)
(* used up its retries; on the way to a relaunch, one was due.             *)
(***************************************************************************)
InBudget(h) == job[h].spec.max_retries # 0 => job[h].attempt <= job[h].spec.max_retries

Returning == {"backoff", "relaunch", "relaunched", "failed"}

Accounted(h) ==
    /\ IF job[h].pc = "done" THEN EndsAsDocumented(h) ELSE InBudget(h)
    /\ job[h].pc \in Returning => RelaunchWasDue(h)

ReasonInv == \A h \in Handle : Accounted(h)

LEMMA ReasonInit == Init => ReasonInv
BY DEF Init, ReasonInv, Accounted, InBudget, Returning, NoJob

LEMMA ReasonNext == TypeInv /\ FreshHandles /\ ReasonInv /\ [Next]_vars => ReasonInv'
<1> SUFFICES ASSUME TypeInv, FreshHandles, ReasonInv, [Next]_vars, NEW g \in Handle
             PROVE  Accounted(g)'
  BY DEF ReasonInv
<1> USE Sentinels
<1>t. job \in [Handle -> Job] /\ job[g] \in Job
  BY DEF TypeInv, TypeOK
<1>a. Accounted(g)
  BY DEF ReasonInv
<1>1. ASSUME job'[g] = job[g], g \in armed' => g \in armed, Shutdown => Shutdown'
      PROVE  Accounted(g)'
  BY <1>1, <1>a DEF Accounted, EndsAsDocumented, InBudget, RelaunchWasDue
<1>2. ASSUME NEW spec \in SpawnSpecs, NEW p \in Pid, SpawnLaunch(spec, p) PROVE Accounted(g)'
  <2>1. CASE g = next + 1
    <3>1. spec \in SpecType
      BY PMAssumption
    <3>2. job'[g].pc = "launched" /\ job'[g].attempt = 0 /\ job'[g].spec = spec
      BY <1>2, <2>1, SpawnDraws DEF NoJob
    <3> QED BY <3>1, <3>2 DEF Accounted, InBudget, Returning, SpecType
  <2>2. CASE g # next + 1
    BY <1>1, <1>2, <2>2, SpawnDraws DEF Shutdown
  <2> QED BY <2>1, <2>2
<1>3. CASE SpawnFails
  BY <1>1, <1>3 DEF SpawnFails, tableVars, callVars, Shutdown
<1>4. ASSUME NEW h \in Handle, Stop(h) \/ SignalCheck(h) \/ Forget(h) \/ ForgetStored(h)
      PROVE  Accounted(g)'
  BY <1>1, <1>4 DEF Stop, SignalCheck, Forget, ForgetStored, tableVars, Shutdown
<1>5. ASSUME NEW h \in Handle, TaskStep(h), g # h PROVE Accounted(g)'
  BY <1>1, <1>5, OtherTask DEF Shutdown
<1>6. CASE TaskStep(g)
  <2>1. CASE \/ Insert(g) \/ Persist(g) \/ Reap(g) \/ RecordExit(g) \/ PersistExit(g)
             \/ Reinsert(g)
    <3>1. /\ job[g].pc # "done" /\ job'[g].pc \notin {"done"} \cup Returning
          /\ job'[g].attempt = job[g].attempt /\ job'[g].spec = job[g].spec
      BY <2>1, <1>t DEF Insert, Persist, Reap, RecordExit, PersistExit, Reinsert, Job, Returning
    <3> QED BY <3>1, <1>a DEF Accounted, InBudget
  <2>2. CASE Decide(g)
    <3>1. UNCHANGED <<armed, drain>> /\ job[g].pc = "stored"
      BY <2>2 DEF Decide, tableVars, callVars
    <3>2. CASE ~MayRestart(g)
      <4>1. job'[g] = [job[g] EXCEPT !.pc = "done"]
        BY <2>2, <3>2, <1>t DEF Decide
      <4>2. job'[g].pc = "done" /\ job'[g].spec = job[g].spec /\ job'[g].code = job[g].code
        BY <4>1, <1>t DEF Job
      <4> QED BY <3>1, <3>2, <4>2 DEF Accounted, EndsAsDocumented, MayRestart, Shutdown, Returning
    <3>3. CASE MayRestart(g)
      <4>1. PICK attempt \in {1, job[g].attempt + 1} :
               job' = [job EXCEPT ![g].attempt = attempt,
                                  ![g].pc = IF CapHit(job[g].spec, attempt)
                                            THEN "done" ELSE "backoff"]
        BY <2>2, <3>3 DEF Decide
      <4>2. /\ job'[g].attempt = attempt /\ job'[g].spec = job[g].spec
            /\ job'[g].code = job[g].code
            /\ job'[g].pc = IF CapHit(job[g].spec, attempt) THEN "done" ELSE "backoff"
        BY <4>1, <1>t DEF Job
      <4>3. job[g].spec.max_retries \in Nat /\ job[g].attempt \in Nat
        BY <1>t DEF Job, SpecType
      <4>4. InBudget(g)
        BY <3>1, <1>a DEF Accounted
      <4>5. CASE CapHit(job[g].spec, attempt)
        <5>1. attempt = job[g].spec.max_retries + 1 /\ job[g].spec.max_retries # 0
          BY <4>3, <4>4, <4>5 DEF CapHit, InBudget
        <5> QED BY <4>2, <4>5, <5>1 DEF Accounted, EndsAsDocumented, Returning
      <4>6. CASE ~CapHit(job[g].spec, attempt)
        <5>1. job[g].spec.max_retries # 0 => attempt <= job[g].spec.max_retries
          BY <4>3, <4>6 DEF CapHit
        <5>2. attempt > 0
          BY <4>3
        <5>3. ShouldRestart(job[g].spec.policy, job[g].code)
          BY <3>3 DEF MayRestart
        <5> QED BY <4>2, <4>6, <5>1, <5>2, <5>3 DEF Accounted, InBudget, RelaunchWasDue
      <4> QED BY <4>5, <4>6
    <3> QED BY <3>2, <3>3
  <2>3. CASE Wake(g)
    <3>1. /\ UNCHANGED <<armed, drain>> /\ job[g].pc = "backoff"
          /\ job'[g] = [job[g] EXCEPT !.pc = IF MayRelaunch(g) THEN "relaunch" ELSE "done"]
      BY <2>3, <1>t DEF Wake, tableVars, callVars
    <3>2. /\ job'[g].pc = IF MayRelaunch(g) THEN "relaunch" ELSE "done"
          /\ job'[g].attempt = job[g].attempt /\ job'[g].spec = job[g].spec
          /\ job'[g].code = job[g].code
      BY <3>1, <1>t DEF Job
    <3>3. InBudget(g) /\ RelaunchWasDue(g)
      BY <3>1, <1>a DEF Accounted, Returning
    <3>4. CASE MayRelaunch(g)
      BY <3>2, <3>3, <3>4 DEF Accounted, InBudget, RelaunchWasDue
    <3>5. CASE ~MayRelaunch(g)
      BY <3>1, <3>2, <3>5 DEF Accounted, EndsAsDocumented, MayRelaunch, Shutdown, Returning
    <3> QED BY <3>4, <3>5
  <2>4. CASE (\E p \in Pid : Relaunch(g, p)) \/ RelaunchFails(g)
    <3>1. /\ job[g].pc = "relaunch" /\ job'[g].pc \in {"relaunched", "failed"}
          /\ job'[g].attempt = job[g].attempt /\ job'[g].spec = job[g].spec
          /\ job'[g].code = job[g].code
      BY <2>4, <1>t DEF Relaunch, RelaunchFails, Job
    <3> QED BY <3>1, <1>a DEF Accounted, InBudget, RelaunchWasDue, Returning
  <2> QED BY <1>6, <2>1, <2>2, <2>3, <2>4 DEF TaskStep
<1>7. ASSUME NEW k \in Killer, KillerStep(k) PROVE Accounted(g)'
  BY <1>1, <1>7 DEF KillerStep, Terminate, GraceOver, Escalate, SignalSend, tableVars, Shutdown
<1>8. CASE DrainBegin \/ DrainTerm \/ DrainForce
  <2>1. UNCHANGED <<armed, job>> /\ Shutdown'
    BY <1>8 DEF DrainBegin, DrainTerm, DrainForce, tableVars, Shutdown, TypeInv, TypeOK
  <2> QED BY <1>1, <2>1
<1>9. ASSUME NEW p \in Pid, NEW code \in Exited, ChildExit(p, code) PROVE Accounted(g)'
  BY <1>1, <1>9 DEF ChildExit, tableVars, callVars, Shutdown
<1>10. CASE Restart
  <2>1. job'[g] = NoJob
    BY <1>10 DEF Restart
  <2> QED BY <2>1 DEF Accounted, InBudget, NoJob, Returning
<1>11. CASE HostStep
  BY <1>1, <1>11 DEF HostStep, tableVars, callVars, Shutdown
<1>12. CASE UNCHANGED vars
  BY <1>1, <1>12 DEF vars, callVars, Shutdown
<1> QED
  BY <1>2, <1>3, <1>4, <1>5, <1>6, <1>7, <1>8, <1>9, <1>10, <1>11, <1>12
  DEF Next, ClientStep

(***************************************************************************)
(* supervise gives up on a process only after a stop, a forget or a        *)
(* shutdown, when the policy does not ask for a restart, when max_retries  *)
(* fast restarts were really made, or when a relaunch failed; and in the   *)
(* last case that relaunch was due: the policy asked for it and the cap    *)
(* was not hit.                                                            *)
(***************************************************************************)
THEOREM NoTaskEndsWithoutReason == Spec => []GivesUpForAReason
<1>1. Spec => [](TypeInv /\ FreshHandles /\ ReasonInv)
  BY TypeInit, TypeNext, FreshInit, FreshNext, ReasonInit, ReasonNext, PTL DEF Spec
<1>2. ReasonInv => GivesUpForAReason
  BY DEF ReasonInv, Accounted, Returning, InBudget, GivesUpForAReason
<1> QED BY <1>1, <1>2, PTL

----------------------------------------------------------------------------
(***************************************************************************)
(* The record on disk, as long as every transaction succeeds.  Before a    *)
(* persist, the entry is the one the task is about to write; before the    *)
(* status of an exit is written, it is the one the task has observed.      *)
(***************************************************************************)
Written(h) ==
    h \in Tracked =>
        IF job[h].pc \in {"inserted", "reinserted"}
        THEN procs[h].pid = job[h].pid /\ procs[h].status = "Running"
        ELSE /\ records[h].pid = procs[h].pid
             /\ procs[h].status = CASE job[h].pc = "none" -> Reloaded(records[h].status)
                                    [] job[h].pc = "recorded" -> job[h].code
                                    [] OTHER -> records[h].status

Durable == "store" \in Host /\ "store" \notin Faults

DiskInv == Durable => \A h \in Handle : Written(h)

LEMMA DiskInit == Init => DiskInv
BY DEF Init, DiskInv, Written, Tracked

LEMMA DiskNext == TypeInv /\ FreshHandles /\ KeptInv /\ DiskInv /\ [Next]_vars => DiskInv'
<1> SUFFICES ASSUME TypeInv, FreshHandles, KeptInv, DiskInv, [Next]_vars, Durable,
                    NEW g \in Handle
             PROVE  Written(g)'
  BY DEF DiskInv, Durable
<1> USE Sentinels
<1>t. /\ procs \in [Handle -> Entry \cup {NoEntry}] /\ job \in [Handle -> Job]
      /\ next \in Nat /\ records \in [Handle -> Record \cup {NoRecord}]
      /\ job[g] \in Job
  BY DEF TypeInv, TypeOK, StoreTypeOK
<1>w. Written(g) /\ Kept(g)
  BY DEF DiskInv, KeptInv
<1>1. ASSUME procs'[g] = procs[g], job'[g] = job[g], records'[g] = records[g]
      PROVE  Written(g)'
  BY <1>1, <1>w DEF Written, Tracked
<1>2. ASSUME NEW spec \in SpawnSpecs, NEW p \in Pid, SpawnLaunch(spec, p) PROVE Written(g)'
  <2>1. CASE g = next + 1
    <3>1. g \notin Tracked'
      BY <1>2, <2>1, SpawnDraws DEF InUse, Tracked
    <3> QED BY <3>1 DEF Written
  <2>2. CASE g # next + 1
    BY <1>1, <1>2, <2>2, SpawnDraws
  <2> QED BY <2>1, <2>2
<1>3. CASE SpawnFails
  BY <1>1, <1>3 DEF SpawnFails, tableVars, storeVars
<1>4. ASSUME NEW h \in Handle, Stop(h) \/ SignalCheck(h) PROVE Written(g)'
  BY <1>1, <1>4 DEF Stop, SignalCheck, tableVars, storeVars
<1>5. ASSUME NEW h \in Handle, TaskStep(h), g # h PROVE Written(g)'
  BY <1>1, <1>5, OtherTask
<1>6. ASSUME TaskStep(g), g \in Tracked' PROVE Written(g)'
  <2>1. CASE Insert(g)
    <3>1. /\ procs'[g] = [pid |-> job[g].pid, status |-> "Running", restarts |-> 0]
          /\ job'[g] = [job[g] EXCEPT !.pc = "inserted"]
      BY <2>1, <1>t DEF Insert
    <3>2. job'[g].pc = "inserted" /\ job'[g].pid = job[g].pid
      BY <3>1, <1>t DEF Job
    <3> QED BY <3>1, <3>2 DEF Written
  <2>2. CASE Persist(g)
    <3>1. /\ procs' = procs /\ job[g].pc \in {"inserted", "reinserted"}
          /\ Put(g, job[g].pid, "Running")
          /\ job'[g] = [job[g] EXCEPT !.pc = "waiting"]
      BY <2>2, <1>t DEF Persist, BestEffort, Durable, tableVars
    <3>2. job'[g].pc = "waiting" /\ records'[g] = [pid |-> job[g].pid, status |-> "Running"]
      BY <3>1, <1>t DEF Put, Job
    <3>3. g \in Tracked
      BY <1>6, <3>1 DEF Tracked
    <3> QED BY <3>1, <3>2, <3>3, <1>w DEF Written
  <2>3. CASE Reap(g) \/ Decide(g) \/ Wake(g) \/ (\E p \in Pid : Relaunch(g, p)) \/ RelaunchFails(g)
    <3>1. /\ UNCHANGED <<procs, records>>
          /\ job[g].pc \notin {"none", "recorded", "inserted", "reinserted"}
          /\ job'[g].pc \notin {"none", "recorded", "inserted", "reinserted"}
      BY <2>3, <1>t DEF Reap, Decide, Wake, Relaunch, RelaunchFails, tableVars, storeVars, Job
    <3>2. g \in Tracked
      BY <1>6, <3>1 DEF Tracked
    <3> QED BY <3>1, <3>2, <1>w DEF Written
  <2>4. CASE RecordExit(g)
    <3>1. /\ procs' = ExitRecorded(g) /\ records' = records /\ job[g].pc = "reaped"
          /\ job'[g] = [job[g] EXCEPT !.pc = "recorded"]
      BY <2>4, <1>t DEF RecordExit, storeVars
    <3>2. job'[g].pc = "recorded" /\ job'[g].code = job[g].code
      BY <3>1, <1>t DEF Job
    <3>3. g \in Tracked
      BY <1>6, <3>1 DEF ExitRecorded, Tracked
    <3>4. procs[g] \in Entry
      BY <3>3, <1>t DEF Tracked
    <3>5. procs'[g].status = job[g].code /\ procs'[g].pid = procs[g].pid
      BY <3>1, <3>3, <3>4, <1>t DEF ExitRecorded, Entry
    <3> QED BY <3>1, <3>2, <3>3, <3>5, <1>w DEF Written
  <2>5. CASE PersistExit(g)
    <3>1. /\ procs' = procs /\ job[g].pc = "recorded" /\ SetStatus(g, job[g].code)
          /\ job'[g] = [job[g] EXCEPT !.pc = "stored"]
      BY <2>5, <1>t DEF PersistExit, BestEffort, Durable, tableVars
    <3>2. job'[g].pc = "stored"
      BY <3>1, <1>t DEF Job
    <3>3. g \in Tracked
      BY <1>6, <3>1 DEF Tracked
    <3>4. procs[g] \in Entry
      BY <3>3, <1>t DEF Tracked
    <3>5. records[g].pid = procs[g].pid /\ procs[g].status = job[g].code
      BY <3>1, <3>3, <1>w DEF Written
    <3>6. records[g] # NoRecord
      BY <3>4, <3>5 DEF Entry, NoRecord
    <3>7. records[g] \in Record
      BY <3>6, <1>t
    <3>8. records'[g] = [records[g] EXCEPT !.status = job[g].code]
      BY <3>1, <3>6, <1>t DEF SetStatus
    <3>9. records'[g].pid = records[g].pid /\ records'[g].status = job[g].code
      BY <3>7, <3>8 DEF Record
    <3> QED BY <3>1, <3>2, <3>5, <3>9 DEF Written
  <2>6. CASE Reinsert(g)
    <3>1. job'[g] = [job[g] EXCEPT !.pc = "reinserted"]
      BY <2>6, <1>t DEF Reinsert
    <3>2. job'[g].pc = "reinserted" /\ job'[g].pid = job[g].pid
      BY <3>1, <1>t DEF Job
    <3>3. g \in Tracked
      BY <1>6, <2>6 DEF Reinsert, Tracked
    <3>4. procs'[g] = [pid |-> job[g].pid, status |-> "Running", restarts |-> procs[g].restarts + 1]
      BY <2>6, <3>3, <1>t DEF Reinsert
    <3> QED BY <3>2, <3>4 DEF Written
  <2> QED BY <1>6, <2>1, <2>2, <2>3, <2>4, <2>5, <2>6 DEF TaskStep
<1>7. ASSUME NEW h \in Handle, Forget(h) PROVE Written(g)'
  <2>1. CASE g = h
    BY <1>7, <2>1, <1>t DEF Forget, Tracked, Written
  <2>2. CASE g # h
    BY <1>1, <1>7, <2>2, <1>t DEF Forget, storeVars
  <2> QED BY <2>1, <2>2
<1>8. ASSUME NEW h \in Handle, ForgetStored(h) PROVE Written(g)'
  <2>1. UNCHANGED <<procs, job>>
    BY <1>8 DEF ForgetStored, tableVars
  <2>2. CASE g = h
    BY <1>8, <2>1, <2>2, <1>w DEF ForgetStored, Kept, Written, Tracked
  <2>3. CASE g # h
    <3>1. records'[g] = records[g]
      BY <1>8, <2>3, <1>t DEF ForgetStored, BestEffort, Remove, storeVars
    <3> QED BY <1>1, <2>1, <3>1
  <2> QED BY <2>2, <2>3
<1>9. ASSUME NEW k \in Killer, KillerStep(k) PROVE Written(g)'
  BY <1>1, <1>9 DEF KillerStep, Terminate, GraceOver, Escalate, SignalSend, tableVars, storeVars
<1>10. CASE DrainBegin \/ DrainTerm \/ DrainForce \/ HostStep
  BY <1>1, <1>10 DEF DrainBegin, DrainTerm, DrainForce, HostStep, tableVars, storeVars
<1>11. ASSUME NEW p \in Pid, NEW code \in Exited, ChildExit(p, code) PROVE Written(g)'
  BY <1>1, <1>11 DEF ChildExit, tableVars, storeVars
<1>12. CASE Restart
  <2>1. job'[g].pc = "none" /\ UNCHANGED records
    BY <1>12 DEF Restart, storeVars, NoJob
  <2>2. g \in Tracked' => /\ procs'[g].pid = records[g].pid
                          /\ procs'[g].status = Reloaded(records[g].status)
    BY <1>12 DEF Restart, Tracked
  <2> QED BY <2>1, <2>2 DEF Written
<1>13. CASE UNCHANGED vars
  BY <1>1, <1>13 DEF vars, storeVars
<1>14. g \notin Tracked' => Written(g)'
  BY DEF Written
<1> QED
  BY <1>2, <1>3, <1>4, <1>5, <1>6, <1>7, <1>8, <1>9, <1>10, <1>11, <1>12, <1>13, <1>14
  DEF Next, ClientStep

(***************************************************************************)
(* A crash at any moment loses nothing of the table (spawn, supervise,     *)
(* forget, with persist and the store calls): while transactions succeed,  *)
(* the record of a tracked process has its pid and its status, except      *)
(* between a table update and the transaction that follows it.             *)
(***************************************************************************)
THEOREM TableIsOnDisk == Spec => []DiskMatchesTable
<1>1. Spec => [](TypeInv /\ FreshHandles /\ KeptInv /\ DiskInv)
  BY TypeInit, TypeNext, FreshInit, FreshNext, KeptInit, KeptNext, DiskInit, DiskNext, PTL DEF Spec
<1>2. DiskInv => DiskMatchesTable
  BY DEF DiskInv, Durable, Written, DiskMatchesTable, Tracked
<1> QED BY <1>1, <1>2, PTL

----------------------------------------------------------------------------
(***************************************************************************)
(* Leaf directories.  Without a Cgroups object there are none, so that a   *)
(* task that has nothing to remove leaves nothing behind.                  *)
(***************************************************************************)
HasLeaf == HasChild \cup {"reaped", "recorded", "stored"}

LeavesInUse ==
    /\ group = "none" => leaves = {}
    /\ \A h \in leaves : job[h].pc \in HasLeaf

LeafInv == "rmdir" \notin Faults => LeavesInUse

\* A launch makes no leaf but that of its handle, and none without a group.
LEMMA CreateLeafBounds ==
    ASSUME NEW h, NEW l \in CreateLeaf(h)
    PROVE  /\ l.dirs \subseteq leaves \cup {h}
           /\ group = "none" => l.dirs = leaves
<1>1. CASE group # "present" \/ h \in leaves
  BY <1>1 DEF CreateLeaf
<1>2. CASE ~(group # "present" \/ h \in leaves)
  <2>1. \/ l = [dirs |-> leaves \cup {h}, joins |-> h]
        \/ l = [dirs |-> leaves \cup {h}, joins |-> 0]
        \/ l = [dirs |-> leaves, joins |-> 0]
    BY <1>2 DEF CreateLeaf
  <2> QED BY <1>2, <2>1
<1> QED BY <1>1, <1>2

LEMMA LeafInit == Init => LeafInv
BY DEF Init, LeafInv, LeavesInUse, CgroupsInit

LEMMA LeafNext == TypeInv /\ LeafInv /\ [Next]_vars => LeafInv'
<1> SUFFICES ASSUME TypeInv, LeafInv, [Next]_vars, "rmdir" \notin Faults
             PROVE  LeavesInUse'
  BY DEF LeafInv
<1> USE Sentinels
<1>t. job \in [Handle -> Job] /\ next \in Nat /\ leaves \in SUBSET Handle
  BY DEF TypeInv, TypeOK, CgroupsTypeOK
<1>l. /\ group = "none" => leaves = {}
      /\ \A g \in leaves : job[g].pc \in HasLeaf
  BY DEF LeafInv, LeavesInUse
<1>1. ASSUME UNCHANGED cgroupVars, \A g \in leaves : job'[g].pc = job[g].pc PROVE LeavesInUse'
  BY <1>1, <1>l DEF cgroupVars, LeavesInUse
<1>2. ASSUME NEW h \in Handle, NEW p \in Pid, LaunchChild(h, p), job'[h].pc \in HasLeaf,
             \A g \in Handle : g # h => job'[g] = job[g]
      PROVE  LeavesInUse'
  <2>1. leaves' \subseteq leaves \cup {h} /\ (group = "none" => leaves' = leaves) /\ group' = group
    BY <1>2, CreateLeafBounds DEF LaunchChild
  <2> QED BY <1>2, <2>1, <1>l, <1>t DEF LeavesInUse
<1>3. ASSUME NEW h \in Handle, LaunchFails(h), \A g \in Handle : g # h => job'[g] = job[g]
      PROVE  LeavesInUse'
  <2>1. group' = group /\ leaves' = IF HasCgroups THEN leaves \ {h} ELSE leaves
    BY <1>3 DEF LaunchFails
  <2> QED BY <1>3, <2>1, <1>l, <1>t DEF HasCgroups, LeavesInUse
<1>4. ASSUME NEW spec \in SpawnSpecs, NEW p \in Pid, SpawnLaunch(spec, p) PROVE LeavesInUse'
  <2>1. next + 1 \in Handle
    BY <1>4, <1>t, ProtoAssumption DEF SpawnLaunch, Handle
  <2>2. job'[next + 1].pc = "launched" /\ \A g \in Handle : g # next + 1 => job'[g] = job[g]
    BY <1>4, <1>t, <2>1 DEF SpawnLaunch, NoJob
  <2>3. LaunchChild(next + 1, p)
    BY <1>4 DEF SpawnLaunch
  <2> QED BY <1>2, <2>1, <2>2, <2>3 DEF HasLeaf, HasChild
<1>5. CASE SpawnFails
  <2>1. next + 1 \in Handle
    BY <1>5, <1>t, ProtoAssumption DEF SpawnFails, Handle
  <2>2. LaunchFails(next + 1) /\ UNCHANGED job
    BY <1>5 DEF SpawnFails
  <2> QED BY <1>3, <2>1, <2>2
<1>6. ASSUME NEW h \in Handle, Stop(h) \/ SignalCheck(h) \/ Forget(h) \/ ForgetStored(h)
      PROVE  LeavesInUse'
  BY <1>1, <1>6 DEF Stop, SignalCheck, Forget, ForgetStored
<1>7. ASSUME NEW h \in Handle, TaskStep(h) PROVE LeavesInUse'
  <2>o. \A g \in Handle : g # h => job'[g] = job[g]
    BY <1>7, OtherTask
  <2>1. CASE \/ Insert(h) \/ Persist(h) \/ Reap(h) \/ RecordExit(h) \/ PersistExit(h)
             \/ Reinsert(h)
    <3>1. UNCHANGED cgroupVars /\ job'[h].pc \in HasLeaf
      BY <2>1, <1>t DEF Insert, Persist, Reap, RecordExit, PersistExit, Reinsert, Job,
                        HasLeaf, HasChild
    <3> QED BY <2>o, <3>1, <1>l, <1>t DEF cgroupVars, LeavesInUse
  <2>2. CASE Decide(h)
    <3>1. CASE HasCgroups
      <4>1. leaves' = leaves \ {h} /\ group' = group
        BY <2>2, <3>1 DEF Decide, CgRemove, Rmdir
      <4> QED BY <2>o, <4>1, <1>l, <1>t DEF LeavesInUse
    <3>2. CASE ~HasCgroups
      <4>1. leaves' = leaves /\ group' = group /\ leaves = {}
        BY <2>2, <3>2, <1>l DEF Decide, HasCgroups, cgroupVars
      <4> QED BY <4>1 DEF LeavesInUse
    <3> QED BY <3>1, <3>2
  <2>3. CASE Wake(h)
    <3>1. UNCHANGED cgroupVars /\ job[h].pc = "backoff"
      BY <2>3 DEF Wake
    <3>2. h \notin leaves
      BY <3>1, <1>l DEF HasLeaf, HasChild
    <3> QED BY <2>o, <3>1, <3>2, <1>l, <1>t DEF cgroupVars, LeavesInUse
  <2>4. ASSUME NEW p \in Pid, Relaunch(h, p) PROVE LeavesInUse'
    <3>1. LaunchChild(h, p) /\ job'[h].pc = "relaunched"
      BY <2>4, <1>t DEF Relaunch, Job
    <3> QED BY <1>2, <2>o, <3>1 DEF HasLeaf, HasChild
  <2>5. CASE RelaunchFails(h)
    <3>1. LaunchFails(h)
      BY <2>5 DEF RelaunchFails
    <3> QED BY <1>3, <2>o, <3>1
  <2> QED BY <1>7, <2>1, <2>2, <2>3, <2>4, <2>5 DEF TaskStep
<1>8. ASSUME NEW k \in Killer, KillerStep(k) PROVE LeavesInUse'
  BY <1>1, <1>8 DEF KillerStep, Terminate, GraceOver, Escalate, SignalSend
<1>9. CASE DrainBegin \/ DrainTerm \/ HostStep
  BY <1>1, <1>9 DEF DrainBegin, DrainTerm, HostStep
<1>10. CASE DrainForce
  <2>1. CASE HasCgroups
    BY <1>10, <2>1 DEF DrainForce, CgShutdown, Rmdir, LeavesInUse
  <2>2. CASE ~HasCgroups
    BY <1>1, <1>10, <2>2 DEF DrainForce
  <2> QED BY <2>1, <2>2
<1>11. ASSUME NEW p \in Pid, NEW code \in Exited, ChildExit(p, code) PROVE LeavesInUse'
  BY <1>1, <1>11 DEF ChildExit
<1>12. CASE Restart
  BY <1>12 DEF Restart, CgDetect, Rmdir, LeavesInUse
<1>13. CASE UNCHANGED vars
  BY <1>1, <1>13 DEF vars
<1> QED
  BY <1>4, <1>5, <1>6, <1>7, <1>8, <1>9, <1>10, <1>11, <1>12, <1>13 DEF Next, ClientStep

(***************************************************************************)
(* Leaf directories do not pile up (launch_child, supervise, Cgroups):     *)
(* unless the kernel refuses to remove one, a leaf exists only from the    *)
(* launch of a child until its exit has been dealt with, whatever fails    *)
(* and whenever the supervisor is shut down or started again.              *)
(***************************************************************************)
THEOREM NoLeafIsLeftBehind == Spec => []LeavesAreCollected
<1>1. Spec => [](TypeInv /\ LeafInv)
  BY TypeInit, TypeNext, LeafInit, LeafNext, PTL DEF Spec
<1>2. LeafInv => LeavesAreCollected
  BY DEF LeafInv, LeavesInUse, HasLeaf, LeavesAreCollected
<1> QED BY <1>1, <1>2, PTL

----------------------------------------------------------------------------
(***************************************************************************)
(* Tombstones.  Nobody works on a handle whose entry is Stale.             *)
(***************************************************************************)
StaleInv == \A h \in Handle : procs[h].status = "Stale" => job[h].pc = "none"

LEMMA StaleInit == Init => StaleInv
BY DEF Init, StaleInv, NoJob

\* What a step may do to the entry and to the task of a handle with a tombstone.
LEMMA StaleStep ==
    ASSUME TypeInv, FreshHandles, KeptInv, StaleInv, [Next]_vars, NEW g \in Handle
    PROVE  /\ procs[g].status = "Stale" => procs'[g].status \in {"Stale", "absent"}
           /\ procs'[g].status = "Stale" => job'[g].pc = "none"
<1> DEFINE Stays == procs[g].status = "Stale" => procs'[g].status \in {"Stale", "absent"}
           Unworked == procs'[g].status = "Stale" => job'[g].pc = "none"
<1> USE Sentinels
<1>t. /\ procs \in [Handle -> Entry \cup {NoEntry}] /\ job \in [Handle -> Job]
      /\ next \in Nat /\ job[g] \in Job
  BY DEF TypeInv, TypeOK
<1>s. procs[g].status = "Stale" => job[g].pc = "none" /\ g \in Tracked
  BY Absent DEF StaleInv
<1>1. ASSUME procs'[g] = procs[g], job'[g] = job[g] PROVE Stays /\ Unworked
  BY <1>1, <1>s
<1>2. ASSUME NEW spec \in SpawnSpecs, NEW p \in Pid, SpawnLaunch(spec, p)
      PROVE  Stays /\ Unworked
  <2>1. CASE g = next + 1
    <3>1. g \notin Tracked
      BY <1>2, <2>1, SpawnDraws DEF InUse
    <3> QED BY <3>1, <1>2, <1>s, SpawnDraws
  <2>2. CASE g # next + 1
    BY <1>1, <1>2, <2>2, SpawnDraws
  <2> QED BY <2>1, <2>2
<1>3. CASE SpawnFails
  BY <1>1, <1>3 DEF SpawnFails, tableVars
<1>4. ASSUME NEW h \in Handle, Stop(h) \/ SignalCheck(h) \/ ForgetStored(h)
      PROVE  Stays /\ Unworked
  BY <1>1, <1>4 DEF Stop, SignalCheck, ForgetStored, tableVars
<1>5. ASSUME NEW h \in Handle, TaskStep(h), g # h PROVE Stays /\ Unworked
  BY <1>1, <1>5, OtherTask
<1>6. CASE TaskStep(g)
  <2>1. job[g].pc # "none"
    BY <1>6 DEF TaskStep, Insert, Persist, Reap, RecordExit, PersistExit, Decide, Wake,
                Relaunch, RelaunchFails, Reinsert
  <2>2. procs[g].status # "Stale"
    BY <2>1, <1>s
  <2>3. CASE Insert(g) \/ Reinsert(g)
    <3>1. procs'[g].status \in {procs[g].status, "Running"}
      BY <2>3, <1>t DEF Insert, Reinsert
    <3> QED BY <2>2, <3>1
  <2>4. CASE RecordExit(g)
    <3>1. procs' = ExitRecorded(g) /\ job[g].code \in Exited
      BY <2>4, <1>t DEF RecordExit, Job
    <3>2. CASE g \in Tracked
      <4>1. procs[g] \in Entry
        BY <3>2, <1>t DEF Tracked
      <4>2. procs'[g].status = job[g].code
        BY <3>1, <3>2, <4>1, <1>t DEF ExitRecorded, Entry
      <4> QED BY <2>2, <3>1, <4>2 DEF Exited
    <3>3. CASE g \notin Tracked
      BY <2>2, <3>1, <3>3 DEF ExitRecorded
    <3> QED BY <3>2, <3>3
  <2>5. CASE ~(Insert(g) \/ Reinsert(g) \/ RecordExit(g))
    <3>1. procs' = procs
      BY <1>6, <2>5 DEF TaskStep, Persist, Reap, PersistExit, Decide, Wake, Relaunch,
                        RelaunchFails, tableVars
    <3> QED BY <2>2, <3>1
  <2> QED BY <2>3, <2>4, <2>5
<1>7. ASSUME NEW h \in Handle, Forget(h) PROVE Stays /\ Unworked
  <2>1. CASE g = h
    BY <1>7, <2>1, <1>t DEF Forget, NoEntry
  <2>2. CASE g # h
    BY <1>1, <1>7, <2>2, <1>t DEF Forget
  <2> QED BY <2>1, <2>2
<1>8. ASSUME NEW k \in Killer, KillerStep(k) PROVE Stays /\ Unworked
  BY <1>1, <1>8 DEF KillerStep, Terminate, GraceOver, Escalate, SignalSend, tableVars
<1>9. CASE DrainBegin \/ DrainTerm \/ DrainForce \/ HostStep
  BY <1>1, <1>9 DEF DrainBegin, DrainTerm, DrainForce, HostStep, tableVars
<1>10. ASSUME NEW p \in Pid, NEW code \in Exited, ChildExit(p, code)
       PROVE  Stays /\ Unworked
  BY <1>1, <1>10 DEF ChildExit, tableVars
<1>11. CASE Restart
  <2>1. job'[g].pc = "none"
    BY <1>11 DEF Restart, NoJob
  <2>2. ASSUME procs[g].status = "Stale" PROVE procs'[g].status = "Stale"
    <3>1. records[g] # NoRecord /\ Reloaded(records[g].status) = "Stale"
      BY <2>2, <1>s DEF KeptInv, Kept
    <3> QED BY <1>11, <3>1 DEF Restart
  <2> QED BY <2>1, <2>2
<1>12. CASE UNCHANGED vars
  BY <1>1, <1>12 DEF vars
<1> QED
  BY <1>2, <1>3, <1>4, <1>5, <1>6, <1>7, <1>8, <1>9, <1>10, <1>11, <1>12
  DEF Next, ClientStep

LEMMA StaleNext == TypeInv /\ FreshHandles /\ KeptInv /\ StaleInv /\ [Next]_vars => StaleInv'
BY StaleStep DEF StaleInv

(***************************************************************************)
(* A process that was Running when its supervisor died is never brought    *)
(* back to life (ProcEntry::stale, reloaded): no task, no request and no   *)
(* later restart of the supervisor turns its Stale entry into another.     *)
(***************************************************************************)
THEOREM NothingRaisesTheDead == Spec => StaleStaysStale
<1>1. Spec => [](TypeInv /\ FreshHandles /\ KeptInv /\ StaleInv)
  BY TypeInit, TypeNext, FreshInit, FreshNext, KeptInit, KeptNext, StaleInit, StaleNext, PTL DEF Spec
<1>2. TypeInv /\ FreshHandles /\ KeptInv /\ StaleInv /\ [Next]_vars =>
         [\A h \in Handle : procs[h].status = "Stale" => procs'[h].status \in {"Stale", "absent"}]_vars
  BY StaleStep
<1> QED BY <1>1, <1>2, PTL DEF Spec, StaleStaysStale
=============================================================================
