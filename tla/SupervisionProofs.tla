------------------------- MODULE SupervisionProofs -------------------------
(***************************************************************************)
(* ProcessManager implements Supervision, for any number of handles, pids, *)
(* restarts and retries, any faults and any configuration of the host.     *)
(***************************************************************************)
EXTENDS ProcessManagerProofs

(***************************************************************************)
(* What the refinement needs to know beyond types and fresh handles: a     *)
(* forgotten handle stays out of the table while its forget is on the way  *)
(* to the store, and an entry that nobody supervises is the tombstone of   *)
(* its record, so that a restart reloads it as it is.                      *)
(***************************************************************************)
Kept(h) ==
    /\ job[h].pc = "launched" => h \notin Tracked /\ h \notin forgetting
    /\ h \in forgetting => h \notin Tracked
    /\ h \in Tracked /\ job[h].pc = "none" =>
          records[h] # NoRecord /\ procs[h].status = Reloaded(records[h].status)

KeptInv == \A h \in Handle : Kept(h)

LEMMA KeptInit == Init => KeptInv
BY DEF Init, KeptInv, Kept, Tracked, NoJob

LEMMA KeptNext == TypeInv /\ FreshHandles /\ KeptInv /\ [Next]_vars => KeptInv'
<1> SUFFICES ASSUME TypeInv, FreshHandles, KeptInv, [Next]_vars, NEW g \in Handle
             PROVE  Kept(g)'
  BY DEF KeptInv
<1> USE Sentinels
<1>t. /\ procs \in [Handle -> Entry \cup {NoEntry}] /\ job \in [Handle -> Job]
      /\ next \in Nat /\ StoreTypeOK
  BY DEF TypeInv, TypeOK
<1>k. Kept(g)
  BY DEF KeptInv
<1>1. ASSUME procs'[g] = procs[g], job'[g] = job[g], records'[g] = records[g],
             g \in forgetting' => g \in forgetting
      PROVE  Kept(g)'
  BY <1>1, <1>k DEF Kept, Tracked
<1>2. ASSUME NEW spec \in SpawnSpecs, NEW p \in Pid, SpawnLaunch(spec, p) PROVE Kept(g)'
  <2>1. next + 1 \in Handle
    BY <1>2, <1>t DEF SpawnLaunch, Handle
  <2>2. ~InUse(next + 1)
    BY <2>1, <1>t DEF FreshHandles
  <2>3. UNCHANGED <<procs, records, forgetting>>
    BY <1>2 DEF SpawnLaunch, tableVars, callVars, storeVars
  <2>4. CASE g = next + 1
    <3>1. g \notin Tracked /\ g \notin forgetting
      BY <2>2, <2>4 DEF InUse
    <3>2. job'[g].pc = "launched"
      BY <1>2, <1>t, <2>1, <2>4 DEF SpawnLaunch, NoJob
    <3> QED BY <2>3, <3>1, <3>2 DEF Kept, Tracked
  <2>5. CASE g # next + 1
    <3>1. job'[g] = job[g]
      BY <1>2, <1>t, <2>5 DEF SpawnLaunch
    <3> QED BY <1>1, <2>3, <3>1
  <2> QED BY <2>4, <2>5
<1>3. CASE SpawnFails
  BY <1>1, <1>3 DEF SpawnFails, tableVars, callVars, storeVars
<1>4. ASSUME NEW h \in Handle, Stop(h) \/ SignalCheck(h) PROVE Kept(g)'
  BY <1>1, <1>4 DEF Stop, SignalCheck, tableVars, storeVars
<1>5. ASSUME NEW h \in Handle, TaskStep(h), g # h PROVE Kept(g)'
  <2>1. job'[g] = job[g]
    BY <1>5, <1>t DEF TaskStep, Insert, Persist, Reap, RecordExit, PersistExit, Decide, Wake,
                      Relaunch, RelaunchFails, Reinsert
  <2>2. procs'[g] = procs[g]
    BY <1>5, <1>t DEF TaskStep, Insert, Persist, Reap, RecordExit, ExitRecorded, PersistExit,
                      Decide, Wake, Relaunch, RelaunchFails, Reinsert, tableVars
  <2>3. records'[g] = records[g]
    BY <1>5, <1>t DEF TaskStep, Insert, Persist, Reap, RecordExit, PersistExit,
                      Decide, Wake, Relaunch, RelaunchFails, Reinsert, storeVars,
                      BestEffort, Put, SetStatus, StoreTypeOK
  <2>4. UNCHANGED forgetting
    BY <1>5 DEF TaskStep, Insert, Persist, Reap, RecordExit, PersistExit,
                Decide, Wake, Relaunch, RelaunchFails, Reinsert, callVars
  <2> QED BY <1>1, <2>1, <2>2, <2>3, <2>4
<1>6. CASE TaskStep(g)
  <2>1. job'[g].pc \notin {"none", "launched"} /\ UNCHANGED forgetting
    BY <1>6, <1>t DEF TaskStep, Insert, Persist, Reap, RecordExit, PersistExit, Decide, Wake,
                      Relaunch, RelaunchFails, Reinsert, callVars, Job
  <2>2. CASE Insert(g)
    <3>1. g \notin forgetting
      BY <2>2, <1>k DEF Insert, Kept
    <3> QED BY <2>1, <3>1 DEF Kept
  <2>3. CASE ~Insert(g)
    <3>1. g \in Tracked' => g \in Tracked
      BY <1>6, <2>3, <1>t DEF TaskStep, Persist, Reap, RecordExit, ExitRecorded, PersistExit,
           Decide, Wake, Relaunch, RelaunchFails, Reinsert, tableVars, Tracked
    <3> QED BY <1>k, <2>1, <3>1 DEF Kept
  <2> QED BY <2>2, <2>3
<1>7. ASSUME NEW h \in Handle, Forget(h) PROVE Kept(g)'
  <2>1. CASE g = h
    <3>1. g \notin Tracked' /\ job'[g] = job[g] /\ g \in Tracked
      BY <1>7, <2>1, <1>t DEF Forget, Tracked
    <3> QED BY <1>k, <3>1 DEF Kept
  <2>2. CASE g # h
    BY <1>1, <1>7, <2>2, <1>t DEF Forget, storeVars
  <2> QED BY <2>1, <2>2
<1>8. ASSUME NEW h \in Handle, ForgetStored(h) PROVE Kept(g)'
  <2>1. UNCHANGED <<procs, job>> /\ (g \in forgetting' => g \in forgetting)
    BY <1>8 DEF ForgetStored, tableVars
  <2>2. CASE g = h
    <3>1. g \notin Tracked
      BY <1>8, <2>2, <1>k DEF ForgetStored, Kept
    <3>2. g \notin forgetting'
      BY <1>8, <2>2 DEF ForgetStored
    <3> QED BY <2>1, <3>1, <3>2 DEF Kept, Tracked
  <2>3. CASE g # h
    <3>1. records'[g] = records[g]
      BY <1>8, <2>3, <1>t DEF ForgetStored, BestEffort, Remove, storeVars, StoreTypeOK
    <3> QED BY <1>1, <2>1, <3>1
  <2> QED BY <2>2, <2>3
<1>9. ASSUME NEW k \in Killer, KillerStep(k) PROVE Kept(g)'
  BY <1>1, <1>9 DEF KillerStep, Terminate, GraceOver, Escalate, SignalSend, tableVars, storeVars
<1>10. CASE DrainBegin \/ DrainTerm \/ DrainForce \/ HostStep
  BY <1>1, <1>10 DEF DrainBegin, DrainTerm, DrainForce, HostStep, tableVars, callVars, storeVars
<1>11. ASSUME NEW p \in Pid, NEW code \in Exited, ChildExit(p, code) PROVE Kept(g)'
  BY <1>1, <1>11 DEF ChildExit, tableVars, callVars, storeVars
<1>12. CASE Restart
  <2>1. g \notin forgetting' /\ job'[g].pc = "none" /\ UNCHANGED records
    BY <1>12 DEF Restart, storeVars
  <2>2. g \in Tracked' => records[g] # NoRecord /\ procs'[g].status = Reloaded(records[g].status)
    BY <1>12 DEF Restart, Tracked
  <2> QED BY <2>1, <2>2 DEF Kept
<1>13. CASE UNCHANGED vars
  BY <1>1, <1>13 DEF vars, callVars, storeVars
<1> QED
  BY <1>2, <1>3, <1>4, <1>5, <1>6, <1>7, <1>8, <1>9, <1>10, <1>11, <1>12, <1>13
  DEF Next, ClientStep

----------------------------------------------------------------------------
(***************************************************************************)
(* Every step of ProcessManager is one of Supervision, or shows nothing.   *)
(***************************************************************************)

\* An entry shows "absent" exactly when there is none.
LEMMA Absent ==
    ASSUME TypeInv, NEW h \in Handle
    PROVE  /\ h \in Tracked <=> procs[h].status # "absent"
           /\ procs[h].status \in ProcState \cup {"absent"}
           /\ h \notin Tracked => procs[h] = NoEntry
BY DEF TypeInv, TypeOK, Tracked, NoEntry, Entry, ProcState, Exited

\* A step that changes neither the table nor the phase of any handle.
LEMMA Unseen ==
    ASSUME procs' = procs, armed' = armed, Shutdown' = Shutdown,
           \A h \in Handle : PhaseOf(job[h].pc)' = PhaseOf(job[h].pc)
    PROVE  UNCHANGED Operators!svars
BY DEF Operators!svars

\* A step of the task of h that changes its phase.
LEMMA Moved ==
    ASSUME TypeInv, NEW h \in Handle,
           \A g \in Handle : g # h => job'[g].pc = job[g].pc,
           NEW from, NEW to, PhaseOf(job[h].pc) = from, PhaseOf(job[h].pc)' = to
    PROVE  Operators!Moves(h, from, to)
BY DEF Operators!Moves

LEMMA InitRefines == Init => Operators!Init
BY DEF Init, Operators!Init, NoEntry, NoJob, PhaseOf, Shutdown, NoDrain

LEMMA NextRefines ==
    TypeInv /\ FreshHandles /\ KeptInv /\ [Next]_vars => [Operators!Next]_(Operators!svars)
<1> SUFFICES ASSUME TypeInv, FreshHandles, KeptInv, [Next]_vars
             PROVE  Operators!Next \/ UNCHANGED Operators!svars
  OBVIOUS
<1> USE Sentinels
<1>t. /\ procs \in [Handle -> Entry \cup {NoEntry}] /\ job \in [Handle -> Job]
      /\ next \in Nat /\ armed \in SUBSET Handle
  BY DEF TypeInv, TypeOK
<1>1. ASSUME UNCHANGED <<procs, armed, drain>>,
             \A h \in Handle : PhaseOf(job[h].pc)' = PhaseOf(job[h].pc)
      PROVE  UNCHANGED Operators!svars
  BY <1>1, Unseen DEF Shutdown
<1>2. ASSUME NEW spec \in SpawnSpecs, NEW p \in Pid, SpawnLaunch(spec, p) PROVE Operators!Next
  <2>1. next + 1 \in Handle
    BY <1>2, <1>t DEF SpawnLaunch, Handle
  <2>2. ~InUse(next + 1)
    BY <2>1, <1>t DEF FreshHandles
  <2>3. UNCHANGED <<procs, armed, drain>>
    BY <1>2 DEF SpawnLaunch, tableVars, callVars
  <2>4. job[next + 1].pc = "none" /\ procs[next + 1].status = "absent"
    BY <2>1, <2>2, Absent DEF InUse
  <2>5. job'[next + 1].pc = "launched" /\ \A g \in Handle : g # next + 1 => job'[g].pc = job[g].pc
    BY <1>2, <1>t, <2>1 DEF SpawnLaunch, NoJob
  <2>6. Operators!Moves(next + 1, "none", "launching")
    BY <2>1, <2>4, <2>5, Moved DEF PhaseOf
  <2>7. Operators!Launch(next + 1)
    BY <2>1, <2>3, <2>4, <2>6 DEF Operators!Launch, Shutdown
  <2> QED BY <2>1, <2>7 DEF Operators!Next
<1>3. CASE SpawnFails
  BY <1>1, <1>3 DEF SpawnFails, tableVars, callVars
<1>4. ASSUME NEW h \in Handle, Stop(h) PROVE Operators!Next
  <2>1. procs[h].status # "absent"
    BY <1>4, Absent DEF Stop
  <2>2. UNCHANGED <<procs, job, drain>> /\ armed' = armed \ {h}
    BY <1>4 DEF Stop
  <2>3. Operators!Disarm(h)
    BY <2>1, <2>2 DEF Operators!Disarm, Shutdown
  <2> QED BY <2>3 DEF Operators!Next
<1>5. ASSUME NEW h \in Handle, SignalCheck(h) \/ ForgetStored(h) PROVE UNCHANGED Operators!svars
  BY <1>1, <1>5 DEF SignalCheck, ForgetStored, tableVars
<1>6. ASSUME NEW h \in Handle, TaskStep(h) PROVE Operators!Next \/ UNCHANGED Operators!svars
  <2>o. \A g \in Handle : g # h => job'[g].pc = job[g].pc
    BY <1>6, <1>t DEF TaskStep, Insert, Persist, Reap, RecordExit, PersistExit, Decide, Wake,
                      Relaunch, RelaunchFails, Reinsert
  <2>1. CASE Insert(h)
    <3>1. Operators!Moves(h, "launching", "up")
      BY <2>1, <2>o, <1>t, Moved DEF Insert, PhaseOf, Job
    <3>2. /\ procs' = [procs EXCEPT ![h] = [pid |-> job[h].pid, status |-> "Running", restarts |-> 0]]
          /\ armed' = armed \cup {h} /\ UNCHANGED drain
      BY <2>1 DEF Insert, callVars
    <3>3. Operators!Appear(h)
      BY <3>1, <3>2, <1>t DEF Operators!Appear, Shutdown
    <3> QED BY <3>3 DEF Operators!Next
  <2>2. CASE Persist(h) \/ Reap(h) \/ PersistExit(h) \/ \E p \in Pid : Relaunch(h, p)
    <3>1. UNCHANGED <<procs, armed, drain>>
      BY <2>2 DEF Persist, Reap, PersistExit, Relaunch, tableVars, callVars
    <3>2. PhaseOf(job[h].pc)' = PhaseOf(job[h].pc)
      BY <2>2, <1>t DEF Persist, Reap, PersistExit, Relaunch, PhaseOf, Job
    <3> QED BY <1>1, <2>o, <3>1, <3>2
  <2>3. CASE RecordExit(h)
    <3>1. Operators!Moves(h, "up", "down")
      BY <2>3, <2>o, <1>t, Moved DEF RecordExit, PhaseOf, Job
    <3>2. UNCHANGED <<armed, drain>> /\ procs' = ExitRecorded(h) /\ job[h].code \in Exited
      BY <2>3, <1>t DEF RecordExit, callVars, Job
    <3>3. h \in Tracked <=> procs[h].status # "absent"
      BY Absent
    <3>4. [g \in Handle |-> procs'[g].status] =
             [[g \in Handle |-> procs[g].status] EXCEPT
                 ![h] = IF @ = "absent" THEN @ ELSE job[h].code]
      <4>1. \A g \in Handle : procs'[g].status =
               IF g = h /\ procs[h].status # "absent" THEN job[h].code ELSE procs[g].status
        <5>1. CASE h \in Tracked
          <6>1. procs[h] \in Entry
            BY <5>1, <1>t DEF Tracked
          <6> QED BY <3>2, <3>3, <5>1, <6>1, <1>t DEF ExitRecorded, Entry
        <5>2. CASE h \notin Tracked
          BY <3>2, <3>3, <5>2 DEF ExitRecorded
        <5> QED BY <5>1, <5>2
      <4> QED BY <4>1
    <3>5. [g \in Handle |-> procs'[g].restarts] = [g \in Handle |-> procs[g].restarts]
      BY <3>2, <1>t DEF ExitRecorded, Entry, NoEntry
    <3>6. Operators!Exit(h)
      BY <3>1, <3>2, <3>4, <3>5 DEF Operators!Exit, Shutdown
    <3> QED BY <3>6 DEF Operators!Next
  <2>4. CASE Decide(h)
    <3>1. UNCHANGED <<procs, armed, drain>> /\ job[h].pc = "stored"
      BY <2>4 DEF Decide, tableVars, callVars
    <3>2. job'[h].pc \in {"done", "backoff"}
      BY <2>4, <1>t DEF Decide, Job
    <3>3. CASE job'[h].pc = "done"
      <4>1. Operators!Moves(h, "down", "ended")
        BY <2>o, <3>1, <3>3, Moved DEF PhaseOf
      <4>2. Operators!GiveUp(h)
        BY <3>1, <4>1 DEF Operators!GiveUp, Shutdown
      <4> QED BY <4>2 DEF Operators!Next
    <3>4. CASE job'[h].pc = "backoff"
      <4>1. PhaseOf(job[h].pc)' = PhaseOf(job[h].pc)
        BY <3>1, <3>4 DEF PhaseOf
      <4> QED BY <1>1, <2>o, <3>1, <4>1
    <3> QED BY <3>2, <3>3, <3>4
  <2>5. CASE Wake(h)
    <3>1. UNCHANGED <<procs, armed, drain>> /\ job[h].pc = "backoff"
      BY <2>5 DEF Wake, tableVars, callVars
    <3>2. CASE MayRelaunch(h)
      <4>1. job'[h].pc = "relaunch"
        BY <2>5, <3>2, <1>t DEF Wake, Job
      <4>2. Operators!Moves(h, "down", "returning")
        BY <2>o, <3>1, <4>1, Moved DEF PhaseOf
      <4>3. Operators!Resolve(h)
        BY <3>1, <3>2, <4>2 DEF Operators!Resolve, MayRelaunch, Shutdown
      <4> QED BY <4>3 DEF Operators!Next
    <3>3. CASE ~MayRelaunch(h)
      <4>1. job'[h].pc = "done"
        BY <2>5, <3>3, <1>t DEF Wake, Job
      <4>2. Operators!Moves(h, "down", "ended")
        BY <2>o, <3>1, <4>1, Moved DEF PhaseOf
      <4>3. Operators!GiveUp(h)
        BY <3>1, <4>2 DEF Operators!GiveUp, Shutdown
      <4> QED BY <4>3 DEF Operators!Next
    <3> QED BY <3>2, <3>3
  <2>6. CASE RelaunchFails(h)
    <3>1. UNCHANGED <<procs, armed, drain>> /\ job[h].pc = "relaunch" /\ job'[h].pc = "failed"
      BY <2>6, <1>t DEF RelaunchFails, tableVars, callVars, Job
    <3>2. Operators!Moves(h, "returning", "ended")
      BY <2>o, <3>1, Moved DEF PhaseOf
    <3>3. Operators!ReturnFails(h)
      BY <3>1, <3>2 DEF Operators!ReturnFails, Shutdown
    <3> QED BY <3>3 DEF Operators!Next
  <2>7. CASE Reinsert(h)
    <3>1. UNCHANGED <<armed, drain>> /\ job[h].pc = "relaunched" /\ job'[h].pc = "reinserted"
      BY <2>7, <1>t DEF Reinsert, callVars, Job
    <3>2. Operators!Moves(h, "returning", "up")
      BY <2>o, <3>1, Moved DEF PhaseOf
    <3>3. h \in Tracked <=> procs[h].status # "absent"
      BY Absent
    <3>4. [g \in Handle |-> procs'[g].status] =
             [[g \in Handle |-> procs[g].status] EXCEPT
                 ![h] = IF @ = "absent" THEN @ ELSE "Running"]
      <4>1. \A g \in Handle : procs'[g].status =
               IF g = h /\ procs[h].status # "absent" THEN "Running" ELSE procs[g].status
        BY <2>7, <3>3, <1>t DEF Reinsert
      <4> QED BY <4>1
    <3>5. [g \in Handle |-> procs'[g].restarts] =
             [[g \in Handle |-> procs[g].restarts] EXCEPT
                 ![h] = IF procs[h].status = "absent" THEN @ ELSE @ + 1]
      <4>1. \A g \in Handle : procs'[g].restarts =
               IF g = h /\ procs[h].status # "absent" THEN procs[g].restarts + 1
               ELSE procs[g].restarts
        BY <2>7, <3>3, <1>t DEF Reinsert
      <4> QED BY <4>1
    <3>6. Operators!Return(h)
      BY <3>1, <3>2, <3>4, <3>5 DEF Operators!Return, Shutdown
    <3> QED BY <3>6 DEF Operators!Next
  <2> QED BY <1>6, <2>1, <2>2, <2>3, <2>4, <2>5, <2>6, <2>7 DEF TaskStep
<1>7. ASSUME NEW h \in Handle, Forget(h) PROVE Operators!Next
  <2>1. procs[h].status \in Exited \cup {"Stale"}
    BY <1>7, Absent DEF Forget, Running, ProcState
  <2>2. /\ procs' = [procs EXCEPT ![h] = NoEntry] /\ armed' = armed \ {h}
        /\ UNCHANGED <<job, drain>>
    BY <1>7 DEF Forget
  <2>3. Operators!Forget(h)
    BY <2>1, <2>2, <1>t DEF Operators!Forget, Shutdown, NoEntry
  <2> QED BY <2>3 DEF Operators!Next
<1>8. ASSUME NEW k \in Killer, KillerStep(k) PROVE UNCHANGED Operators!svars
  BY <1>1, <1>8 DEF KillerStep, Terminate, GraceOver, Escalate, SignalSend, tableVars
<1>9. CASE DrainBegin \/ DrainTerm \/ DrainForce
  <2>1. UNCHANGED <<procs, armed, job>> /\ Shutdown'
    BY <1>9 DEF DrainBegin, DrainTerm, DrainForce, tableVars, Shutdown, TypeInv, TypeOK
  <2>2. Operators!Drain
    BY <2>1 DEF Operators!Drain
  <2> QED BY <2>2 DEF Operators!Next
<1>10. CASE HostStep
  BY <1>1, <1>10 DEF HostStep, tableVars, callVars
<1>11. ASSUME NEW p \in Pid, NEW code \in Exited, ChildExit(p, code) PROVE UNCHANGED Operators!svars
  BY <1>1, <1>11 DEF ChildExit, tableVars, callVars
<1>12. CASE Restart
  <2>1. /\ armed' = {} /\ ~Shutdown'
        /\ \A h \in Handle : job'[h].pc = "none"
    BY <1>12 DEF Restart, Shutdown, NoDrain
  <2>2. ASSUME NEW h \in Handle
        PROVE  /\ procs'[h].restarts = 0
               /\ procs'[h].status \in {"absent", "Stale"} \cup Exited
    <3>1. records[h] # NoRecord => records[h].status \in ProcState
      BY DEF TypeInv, TypeOK, StoreTypeOK, Record
    <3> QED BY <1>12, <3>1 DEF Restart, NoEntry, Reloaded, ProcState
  <2>3. ASSUME NEW h \in Handle, PhaseOf(job[h].pc) = "none", procs[h].status # "absent"
        PROVE  procs'[h].status = procs[h].status
    <3>1. job[h].pc \in JobPc
      BY <1>t DEF Job
    <3>2. job[h].pc = "none"
      BY <2>3, <3>1 DEF PhaseOf, JobPc
    <3>3. h \in Tracked
      BY <2>3, Absent
    <3>4. records[h] # NoRecord /\ procs[h].status = Reloaded(records[h].status)
      BY <3>2, <3>3 DEF KeptInv, Kept
    <3> QED BY <1>12, <3>4 DEF Restart
  <2>4. [h \in Handle |-> PhaseOf(job[h].pc)]' = [h \in Handle |-> "none"]
    BY <2>1 DEF PhaseOf
  <2>5. [h \in Handle |-> procs[h].restarts]' = [h \in Handle |-> 0]
    BY <2>2
  <2>6. [h \in Handle |-> procs[h].status]' \in [Handle -> {"absent", "Stale"} \cup Exited]
    BY <2>2
  <2>7. Operators!Restart
    BY <2>1, <2>3, <2>4, <2>5, <2>6 DEF Operators!Restart
  <2> QED BY <2>7 DEF Operators!Next
<1>13. CASE UNCHANGED vars
  BY <1>1, <1>13 DEF vars, callVars
<1> QED
  BY <1>2, <1>3, <1>4, <1>5, <1>6, <1>7, <1>8, <1>9, <1>10, <1>11, <1>12, <1>13
  DEF Next, ClientStep

(***************************************************************************)
(* What operators see of the process table is what Supervision promises    *)
(* (process.rs, all of it): in particular, only an armed handle is brought *)
(* back, only an ended one is forgotten, and what is left of an earlier    *)
(* life of the supervisor never changes.                                   *)
(***************************************************************************)
THEOREM Refinement == Spec => ImplementsSupervision
<1>1. Spec => [](TypeInv /\ FreshHandles /\ KeptInv)
  BY TypeInit, TypeNext, FreshInit, FreshNext, KeptInit, KeptNext, PTL DEF Spec
<1>2. Init => Operators!Init
  BY InitRefines
<1>3. TypeInv /\ FreshHandles /\ KeptInv /\ [Next]_vars => [Operators!Next]_(Operators!svars)
  BY NextRefines
<1> QED
  BY <1>1, <1>2, <1>3, PTL DEF Spec, ImplementsSupervision, Operators!Spec
============================================================================
