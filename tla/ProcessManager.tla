--------------------------- MODULE ProcessManager ---------------------------
(***************************************************************************)
(* src/src/process.rs: the process table of one supervisor, the tasks that *)
(* work on it and the store, kernel and cgroups underneath.                *)
(*                                                                         *)
(* The runtime is multi-threaded, so requests (spawn, stop, signal,        *)
(* forget), the supervise task of every handle, the terminate tasks and    *)
(* kill_all interleave wherever the table lock is not held.  One action is *)
(* one such region: a critical section, a store transaction or a system    *)
(* call, with the thread-local code up to the next one.                    *)
(***************************************************************************)
EXTENDS Store, Cgroups

CONSTANTS
    SpawnSpecs,   \* the specs clients ask for
    Requests,     \* what else the operators do: a subset of RequestKind
    Killer,       \* bound: slots for terminate and signal calls in flight
    MaxRestarts,  \* bound: relaunches after which an armed child is left alone
    MaxBoots      \* bound: how many times the supervisor is started again

RequestKind == {"stop", "signal", "forget", "shutdown"}

ASSUME PMAssumption ==
    /\ Requests \subseteq RequestKind
    /\ SpawnSpecs \subseteq SpecType
    /\ MaxRestarts \in Nat
    /\ MaxBoots \in Nat

VARIABLES
    procs,        \* Inner.procs: handle -> ProcEntry, or NoEntry
    armed,        \* the tracked handles whose ProcEntry has armed = true
    next,         \* Inner.next
    job,          \* handle -> the spawn call, then the supervise task, that owns its child
    killers,      \* slot -> a terminate task or signal call in flight
    drain,        \* kill_all: its progress and the pids it collected
    forgetting,   \* handles whose forget left the table but not yet the store
    boots         \* how many times the supervisor was started again

tableVars == <<procs, armed>>
callVars == <<killers, drain, forgetting>>
vars == <<procs, armed, next, job, callVars, storeVars, os, cgroupVars, boots>>

NoEntry == [pid |-> NoPid, status |-> "absent", restarts |-> 0]
Entry == [pid : Pid, status : ProcState, restarts : Nat]
Tracked == {h \in Handle : procs[h] # NoEntry}
Running(h) == procs[h].status = "Running"

(***************************************************************************)
(* Where the owner of a child stands.  "launched", "inserted": in spawn,   *)
(* before the table insert and before persist.  The rest is supervise:     *)
(* "waiting" in child.wait, "reaped" before the exit is put in the table,  *)
(* "recorded" before it is put in the store, "stored" before the restart   *)
(* decision, "backoff" asleep, "relaunch" past the second check,           *)
(* "relaunched" before the table update, "reinserted" before persist,      *)
(* "done" after a break, "failed" after a failed relaunch.                 *)
(***************************************************************************)
JobPc == {"none", "launched", "inserted", "waiting", "reaped", "recorded",
          "stored", "backoff", "relaunch", "relaunched", "reinserted",
          "done", "failed"}
NoJob == [pc |-> "none", pid |-> NoPid, code |-> "ExitedOk", attempt |-> 0,
          spec |-> [policy |-> "Never", max_retries |-> 0]]
Job == [pc : JobPc, pid : Pid \cup {NoPid}, code : Exited, attempt : Nat, spec : SpecType]

\* terminate before its SIGTERM ("term"), asleep ("grace"), past its check
\* ("kill"); signal past its check ("signal").
KillerPc == {"idle", "term", "grace", "kill", "signal"}
Idle == [pc |-> "idle", h |-> 0, pid |-> NoPid]

NoDrain == [pc |-> "idle", pids |-> {}]
Shutdown == drain.pc # "idle"

TypeOK ==
    /\ procs \in [Handle -> Entry \cup {NoEntry}]
    /\ armed \in SUBSET Handle
    /\ next \in Nat
    /\ job \in [Handle -> Job]
    /\ killers \in [Killer -> [pc : KillerPc, h : 0 .. MaxHandle, pid : Pid \cup {NoPid}]]
    /\ drain \in [pc : {"idle", "snapped", "grace", "done"}, pids : SUBSET Pid]
    /\ forgetting \in SUBSET Handle
    /\ boots \in 0 .. MaxBoots
    /\ StoreTypeOK
    /\ KernelTypeOK
    /\ CgroupsTypeOK

\* ProcessManager::new without a store, with_store on an empty one.
Init ==
    /\ procs = [h \in Handle |-> NoEntry]
    /\ armed = {}
    /\ StoreInit
    /\ next = IF "store" \in Host THEN next_handle ELSE 1
    /\ job = [h \in Handle |-> NoJob]
    /\ killers = [k \in Killer |-> Idle]
    /\ drain = NoDrain
    /\ forgetting = {}
    /\ boots = 0
    /\ KernelInit
    /\ CgroupsInit

----------------------------------------------------------------------------
\* A store call is skipped without a store, and its error is only logged.
BestEffort(transaction) ==
    \/ "store" \in Host /\ transaction
    \/ ("store" \notin Host \/ "store" \in Faults) /\ UNCHANGED storeVars

\* launch_child for h as process p: the leaf, then the child, which joins it.
LaunchChild(h, p) ==
    /\ p \in FreePids
    /\ \E l \in CreateLeaf(h) :
          /\ leaves' = l.dirs
          /\ os' = Fork(p, h, l.joins)
    /\ UNCHANGED group

\* fork, pre_exec or exec fails; so does the join of a leaf that
\* Cgroups::shutdown removed in the meantime.
LaunchMayFail == "spawn" \in Faults \/ FreePids = {} \/ group = "removed"

\* A faulty error path that leaves the leaf behind.
LaunchFailsLeaky(h) ==
    /\ LaunchMayFail
    /\ leaves' \in {l.dirs : l \in CreateLeaf(h)}
    /\ UNCHANGED <<os, group>>

\* launch_child returns Err, having removed the leaf again.
LaunchFails(h) ==
    /\ LaunchMayFail
    /\ os' = IF HasCgroups THEN Killed(InLeaf(h)) ELSE os
    /\ leaves' \in IF ~HasCgroups THEN {leaves}
                   ELSE {leaves \ {h}} \cup
                        (IF "rmdir" \in Faults THEN {l.dirs : l \in CreateLeaf(h)} ELSE {})
    /\ UNCHANGED group

\* The handlers that were accepted are still served during kill_all; then the
\* router closes the endpoint and the supervisor exits.
Serving == drain.pc # "done"

\* spawn: the handle is drawn first, whatever becomes of the launch.
SpawnLaunch(spec, p) ==
    /\ Serving
    /\ next < MaxHandle
    /\ next' = next + 1
    /\ LaunchChild(next + 1, p)
    /\ job' = [job EXCEPT ![next + 1] =
                 [NoJob EXCEPT !.pc = "launched", !.pid = p, !.spec = spec]]
    /\ UNCHANGED <<tableVars, callVars, storeVars, boots>>

SpawnFails ==
    /\ Serving
    /\ next < MaxHandle
    /\ next' = next + 1
    /\ LaunchFails(next + 1)
    /\ UNCHANGED <<tableVars, job, callVars, storeVars, boots>>

\* spawn: the table insert.
Insert(h) ==
    /\ job[h].pc = "launched"
    /\ procs' = [procs EXCEPT ![h] =
                   [pid |-> job[h].pid, status |-> "Running", restarts |-> 0]]
    /\ armed' = armed \cup {h}
    /\ job' = [job EXCEPT ![h].pc = "inserted"]
    /\ UNCHANGED <<next, callVars, storeVars, os, cgroupVars, boots>>

\* A faulty loop that ends after a relaunch instead of waiting for the child.
PersistAndEnd(h) ==
    /\ job[h].pc \in {"inserted", "reinserted"}
    /\ BestEffort(Put(h, job[h].pid, "Running"))
    /\ job' = [job EXCEPT ![h].pc = IF @ = "inserted" THEN "waiting" ELSE "done"]
    /\ UNCHANGED <<tableVars, next, callVars, os, cgroupVars, boots>>

\* persist, in spawn and after a relaunch.
Persist(h) ==
    /\ job[h].pc \in {"inserted", "reinserted"}
    /\ BestEffort(Put(h, job[h].pid, "Running"))
    /\ job' = [job EXCEPT ![h].pc = "waiting"]
    /\ UNCHANGED <<tableVars, next, callVars, os, cgroupVars, boots>>

----------------------------------------------------------------------------
\* The bound on relaunches: an armed child meets its end only so many times.
MayMeetItsEnd(h) == h \in armed => procs[h].restarts < MaxRestarts

\* A child exits by itself.
ChildExit(p, code) ==
    /\ os[p].st = "live"
    /\ MayMeetItsEnd(os[p].owner)
    /\ os' = [os EXCEPT ![p].st = code]
    /\ UNCHANGED <<tableVars, next, job, callVars, storeVars, cgroupVars, boots>>

\* supervise: child.wait returns, and the pid is free again.
Reap(h) ==
    /\ job[h].pc = "waiting"
    /\ os[job[h].pid].st \in Exited
    /\ job' = [job EXCEPT ![h].pc = "reaped", ![h].code = os[job[h].pid].st,
                          ![h].pid = NoPid]
    /\ os' = [os EXCEPT ![job[h].pid] = Free]
    /\ UNCHANGED <<tableVars, next, callVars, storeVars, cgroupVars, boots>>

\* Faulty table updates: the exit is lost, or recorded for a forgotten handle.
ExitLost(h) == procs
ExitOfForgotten(h) == [procs EXCEPT ![h].status = job[h].code]

\* The table with the exit of the child of h, if h is still tracked.
ExitRecorded(h) ==
    IF h \in Tracked THEN [procs EXCEPT ![h].status = job[h].code] ELSE procs

\* supervise: the exit is put in the table ...
RecordExit(h) ==
    /\ job[h].pc = "reaped"
    /\ procs' = ExitRecorded(h)
    /\ job' = [job EXCEPT ![h].pc = "recorded"]
    /\ UNCHANGED <<armed, next, callVars, storeVars, os, cgroupVars, boots>>

\* ... and in the store.
PersistExit(h) ==
    /\ job[h].pc = "recorded"
    /\ BestEffort(SetStatus(h, job[h].code))
    /\ job' = [job EXCEPT ![h].pc = "stored"]
    /\ UNCHANGED <<tableVars, next, callVars, os, cgroupVars, boots>>

\* should_restart.
ShouldRestart(policy, code) ==
    \/ policy = "Always"
    \/ policy = "OnFailure" /\ code # "ExitedOk"

\* The check after an exit.
MayRestart(h) ==
    h \in armed /\ ~Shutdown /\ ShouldRestart(job[h].spec.policy, job[h].code)

\* A faulty check that has forgotten the stop.
RelaunchUnlessShutdown(h) == ~Shutdown

\* The check after the backoff.
MayRelaunch(h) == h \in armed /\ ~Shutdown

\* An off-by-one in the cap.
CapHitEarly(spec, attempt) == spec.max_retries # 0 /\ attempt >= spec.max_retries

CapHit(spec, attempt) == spec.max_retries # 0 /\ attempt > spec.max_retries

\* supervise: the leaf goes, then the task ends or sleeps.  The number of
\* consecutive fast restarts starts over when the child was up long enough.
Decide(h) ==
    /\ job[h].pc = "stored"
    /\ \/ /\ ~MayRestart(h)
          /\ job' = [job EXCEPT ![h].pc = "done"]
       \/ /\ MayRestart(h)
          /\ \E attempt \in {1, job[h].attempt + 1} :
                job' = [job EXCEPT ![h].attempt = attempt,
                                   ![h].pc = IF CapHit(job[h].spec, attempt)
                                             THEN "done" ELSE "backoff"]
    /\ IF HasCgroups THEN CgRemove(h) ELSE UNCHANGED <<os, cgroupVars>>
    /\ UNCHANGED <<tableVars, next, callVars, storeVars, boots>>

\* A faulty wake-up that sleeps again instead of ending the task.
WakeOrSleepOn(h) ==
    /\ job[h].pc = "backoff"
    /\ MayRelaunch(h)
    /\ job' = [job EXCEPT ![h].pc = "relaunch"]
    /\ UNCHANGED <<tableVars, next, callVars, storeVars, os, cgroupVars, boots>>

\* supervise: the sleep is over.
Wake(h) ==
    /\ job[h].pc = "backoff"
    /\ job' = [job EXCEPT ![h].pc = IF MayRelaunch(h) THEN "relaunch" ELSE "done"]
    /\ UNCHANGED <<tableVars, next, callVars, storeVars, os, cgroupVars, boots>>

Relaunch(h, p) ==
    /\ job[h].pc = "relaunch"
    /\ LaunchChild(h, p)
    /\ job' = [job EXCEPT ![h].pc = "relaunched", ![h].pid = p]
    /\ UNCHANGED <<tableVars, next, callVars, storeVars, boots>>

RelaunchFails(h) ==
    /\ job[h].pc = "relaunch"
    /\ LaunchFails(h)
    /\ job' = [job EXCEPT ![h].pc = "failed"]
    /\ UNCHANGED <<tableVars, next, callVars, storeVars, boots>>

\* supervise: the entry, if there still is one, takes the new child.
Reinsert(h) ==
    /\ job[h].pc = "relaunched"
    /\ IF h \in Tracked
       THEN procs' = [procs EXCEPT ![h] =
                        [pid |-> job[h].pid, status |-> "Running", restarts |-> @.restarts + 1]]
       ELSE UNCHANGED procs
    /\ job' = [job EXCEPT ![h].pc = "reinserted"]
    /\ UNCHANGED <<armed, next, callVars, storeVars, os, cgroupVars, boots>>

----------------------------------------------------------------------------
\* A faulty stop that does not look at the status.
WhateverItsStatus(h) == TRUE

\* Whether stop has a child to terminate.
NeedsTerminate(h) == Running(h)

\* stop: disarm under the lock, and hand a running child to a terminate task.
Stop(h) ==
    /\ Serving /\ "stop" \in Requests
    /\ h \in Tracked
    /\ armed' = armed \ {h}
    /\ \/ NeedsTerminate(h) /\ \E k \in Killer :
            /\ killers[k] = Idle
            /\ killers' = [killers EXCEPT ![k] =
                             [pc |-> "term", h |-> h, pid |-> procs[h].pid]]
       \/ ~NeedsTerminate(h) /\ UNCHANGED killers
    /\ UNCHANGED <<procs, next, job, drain, forgetting, storeVars, os, cgroupVars, boots>>

\* terminate: SIGTERM to the bare pid.
Terminate(k) ==
    /\ killers[k].pc = "term"
    /\ os' \in Signalled(killers[k].pid)
    /\ killers' = [killers EXCEPT ![k].pc = "grace"]
    /\ UNCHANGED <<tableVars, next, job, drain, forgetting, storeVars, cgroupVars, boots>>

\* The check the wrong way round.
HasExited(h) == procs[h].status \in Exited

\* Whether terminate has to escalate.
StillAlive(h) == Running(h)

\* terminate: the deadline passed; is the entry still Running?
GraceOver(k) ==
    /\ killers[k].pc = "grace"
    /\ killers' = [killers EXCEPT ![k] = IF StillAlive(killers[k].h)
                                         THEN [@ EXCEPT !.pc = "kill"] ELSE Idle]
    /\ UNCHANGED <<tableVars, next, job, drain, forgetting, storeVars, os, cgroupVars, boots>>

\* terminate: cgroup.kill, or SIGKILL to the process group.
Escalate(k) ==
    /\ killers[k].pc = "kill"
    /\ IF HasCgroups THEN CgKill(killers[k].h) ELSE os' = Killed({killers[k].pid})
    /\ killers' = [killers EXCEPT ![k] = Idle]
    /\ UNCHANGED <<tableVars, next, job, drain, forgetting, storeVars, cgroupVars, boots>>

\* signal: the check and the pid, under the lock ...
SignalCheck(h) ==
    /\ Serving /\ "signal" \in Requests
    /\ Running(h)
    /\ MayMeetItsEnd(h)
    /\ \E k \in Killer :
          /\ killers[k] = Idle
          /\ killers' = [killers EXCEPT ![k] =
                           [pc |-> "signal", h |-> h, pid |-> procs[h].pid]]
    /\ UNCHANGED <<tableVars, next, job, drain, forgetting, storeVars, os, cgroupVars, boots>>

\* ... and the kill, after it.
SignalSend(k) ==
    /\ killers[k].pc = "signal"
    /\ os' \in Signalled(killers[k].pid)
    /\ killers' = [killers EXCEPT ![k] = Idle]
    /\ UNCHANGED <<tableVars, next, job, drain, forgetting, storeVars, cgroupVars, boots>>

\* forget: the table ...
Forget(h) ==
    /\ Serving /\ "forget" \in Requests
    /\ h \in Tracked /\ ~Running(h)
    /\ procs' = [procs EXCEPT ![h] = NoEntry]
    /\ armed' = armed \ {h}
    /\ forgetting' = forgetting \cup {h}
    /\ UNCHANGED <<next, job, killers, drain, storeVars, os, cgroupVars, boots>>

\* ... and the store.
ForgetStored(h) ==
    /\ h \in forgetting
    /\ BestEffort(Remove(h))
    /\ forgetting' = forgetting \ {h}
    /\ UNCHANGED <<tableVars, next, job, killers, drain, os, cgroupVars, boots>>

----------------------------------------------------------------------------
\* kill_all: the shutdown flag, and the pids of the running entries.  Between
\* the two only Decide and Wake can see the flag, and they leave the table alone,
\* so one step is enough.
DrainBegin ==
    /\ "shutdown" \in Requests
    /\ drain = NoDrain
    /\ drain' = [pc |-> "snapped", pids |-> {procs[h].pid : h \in {g \in Handle : Running(g)}}]
    /\ UNCHANGED <<tableVars, next, job, killers, forgetting, storeVars, os, cgroupVars, boots>>

\* kill_all: SIGTERM to each, fatal to some.
DrainTerm ==
    /\ drain.pc = "snapped"
    /\ \E S \in SUBSET drain.pids : os' = Killed(S)
    /\ drain' = [drain EXCEPT !.pc = "grace"]
    /\ UNCHANGED <<tableVars, next, job, killers, forgetting, storeVars, cgroupVars, boots>>

\* A faulty kill_all that returns at the deadline.
DrainReturns ==
    /\ drain.pc = "grace"
    /\ drain' = [drain EXCEPT !.pc = "done"]
    /\ UNCHANGED <<tableVars, next, job, killers, forgetting, storeVars, os, cgroupVars, boots>>

\* kill_all: all are gone or the deadline passed; force the survivors.
DrainForce ==
    /\ drain.pc = "grace"
    /\ IF HasCgroups THEN CgShutdown
       ELSE os' = Killed(drain.pids) /\ UNCHANGED cgroupVars
    /\ drain' = [drain EXCEPT !.pc = "done"]
    /\ UNCHANGED <<tableVars, next, job, killers, forgetting, storeVars, boots>>

\* A faulty reload that takes the record at its word.
ReloadedAsIs(status) == status

\* reloaded: a child that was Running died with the old supervisor.
Reloaded(status) == IF status = "Running" THEN "Stale" ELSE status

\* The supervisor exits or crashes, whatever it is doing, and is started again:
\* with_store on what the store holds.  Handles and tombstones survive, every
\* task is gone.
Restart ==
    /\ "store" \in Host
    /\ boots < MaxBoots
    /\ boots' = boots + 1
    /\ procs' = [h \in Handle |->
                   IF records[h] = NoRecord THEN NoEntry
                   ELSE [pid |-> records[h].pid, status |-> Reloaded(records[h].status),
                         restarts |-> 0]]
    /\ next' = LoadedNextHandle
    /\ armed' = {}
    /\ job' = [h \in Handle |-> NoJob]
    /\ killers' = [k \in Killer |-> Idle]
    /\ drain' = NoDrain
    /\ forgetting' = {}
    /\ os' = Orphaned
    /\ CgDetect
    /\ UNCHANGED storeVars

\* The rest of the host goes about its business.
HostStep ==
    /\ \E p \in Pid : ForeignTake(p) \/ ForeignExit(p)
    /\ UNCHANGED <<tableVars, next, job, callVars, storeVars, cgroupVars, boots>>

\* The steps of the owner of the child of h.
TaskStep(h) ==
    \/ Insert(h) \/ Persist(h)
    \/ Reap(h) \/ RecordExit(h) \/ PersistExit(h) \/ Decide(h) \/ Wake(h)
    \/ (\E p \in Pid : Relaunch(h, p)) \/ RelaunchFails(h) \/ Reinsert(h)

KillerStep(k) == Terminate(k) \/ GraceOver(k) \/ Escalate(k) \/ SignalSend(k)

ClientStep ==
    \/ \E spec \in SpawnSpecs, p \in Pid : SpawnLaunch(spec, p)
    \/ SpawnFails
    \/ \E h \in Handle : Stop(h) \/ SignalCheck(h) \/ Forget(h)

Next ==
    \/ ClientStep
    \/ \E h \in Handle : TaskStep(h) \/ ForgetStored(h)
    \/ \E k \in Killer : KillerStep(k)
    \/ DrainBegin \/ DrainTerm \/ DrainForce
    \/ \E p \in Pid, code \in Exited : ChildExit(p, code)
    \/ Restart
    \/ HostStep

Spec == Init /\ [][Next]_vars

(***************************************************************************)
(* Every task the runtime has accepted gets to run, its sleeps end, and    *)
(* wait returns for a dead child.  Nothing is assumed of clients, of       *)
(* children, of faults or of the host.                                     *)
(***************************************************************************)
Fairness ==
    /\ \A h \in Handle : WF_vars(TaskStep(h)) /\ WF_vars(ForgetStored(h))
    /\ \A k \in Killer : WF_vars(KillerStep(k))
    /\ WF_vars(DrainTerm)
    /\ WF_vars(DrainForce)

FairSpec == Spec /\ Fairness

----------------------------------------------------------------------------
\* Safety.

HasChild == {"launched", "inserted", "waiting", "relaunched", "reinserted"}
IsChild(p) == os[p].st \in {"live"} \cup Exited

(***************************************************************************)
(* The counter is never behind a handle in use (spawn, store.rs load): not *)
(* behind an entry, a record on disk, a task, a child, a stop or signal in *)
(* flight, nor a forget that still has to reach the store.  Otherwise a    *)
(* spawn, in this life of the supervisor or a later one, would reissue it. *)
(***************************************************************************)
InUse(h) ==
    \/ h \in Tracked
    \/ h \in Keys
    \/ job[h].pc # "none"
    \/ h \in forgetting
    \/ \E p \in Pid : os[p].owner = h
    \/ \E k \in Killer : killers[k].h = h

FreshHandles == \A h \in Handle : InUse(h) => h <= next

(***************************************************************************)
(* No child is lost and no handle has two (spawn, supervise): a child that *)
(* is live or a zombie is the one its handle's owner waits for, will wait  *)
(* for, or is about to put in the table; and an owner's child is a child   *)
(* of its handle.                                                          *)
(***************************************************************************)
EveryChildIsOwned ==
    /\ \A p \in Pid : IsChild(p) =>
          /\ os[p].owner \in Handle
          /\ job[os[p].owner].pid = p
    /\ \A h \in Handle :
          /\ job[h].pid # NoPid <=> job[h].pc \in HasChild
          /\ job[h].pid # NoPid => IsChild(job[h].pid) /\ os[job[h].pid].owner = h

(***************************************************************************)
(* An entry that says Running has an owner that will take it out of that   *)
(* state when its child dies (supervise): it cannot be Running for ever,   *)
(* unforgettable, because the task ended first.  Until the exit is reaped, *)
(* the entry's pid is the pid of the owner's child.                        *)
(***************************************************************************)
Supervised(h) ==
    \/ job[h].pc \in {"inserted", "waiting", "reinserted"} /\ job[h].pid = procs[h].pid
    \/ job[h].pc = "reaped"

RunningIsSupervised == \A h \in Handle : Running(h) => Supervised(h)

(***************************************************************************)
(* A stop that found its process running is final (stop, terminate): until *)
(* the terminate task ends, the policy stays disarmed and the only child   *)
(* the handle may have is the one that was running.  A SIGKILL by handle   *)
(* (cgroup.kill) can then not hit a later incarnation.                     *)
(***************************************************************************)
StopIsFinal ==
    \A k \in Killer : killers[k].pc \in {"term", "grace", "kill"} =>
        /\ killers[k].h \notin armed
        /\ \A p \in Pid : os[p].owner = killers[k].h => p = killers[k].pid

(***************************************************************************)
(* supervise breaks out of its loop only when the process was stopped or   *)
(* forgotten, the supervisor shuts down, the policy does not ask for a     *)
(* restart, or max_retries consecutive fast restarts were really made.     *)
(* It goes to sleep for a relaunch, and gives up because that relaunch     *)
(* failed, only if the policy asked for one and the cap was not hit.       *)
(***************************************************************************)
EndsAsDocumented(h) ==
    \/ h \notin armed
    \/ Shutdown
    \/ ~ShouldRestart(job[h].spec.policy, job[h].code)
    \/ job[h].spec.max_retries # 0 /\ job[h].attempt = job[h].spec.max_retries + 1

RelaunchWasDue(h) ==
    /\ ShouldRestart(job[h].spec.policy, job[h].code)
    /\ job[h].attempt > 0
    /\ job[h].spec.max_retries # 0 => job[h].attempt <= job[h].spec.max_retries

GivesUpForAReason ==
    \A h \in Handle :
        /\ job[h].pc = "done" => EndsAsDocumented(h)
        /\ job[h].pc \in {"backoff", "relaunch", "relaunched", "failed"} => RelaunchWasDue(h)

(***************************************************************************)
(* While no store transaction fails, what a restart would reload for a     *)
(* tracked process is what the table shows, except for the moment between  *)
(* a table update and its transaction (spawn, supervise, persist): same    *)
(* pid, same status, or a tombstone of it.                                 *)
(***************************************************************************)
DiskMatchesTable ==
    "store" \notin Faults /\ "store" \in Host =>
        \A h \in Tracked : job[h].pc \notin {"inserted", "recorded", "reinserted"} =>
            /\ records[h].pid = procs[h].pid
            /\ IF job[h].pc = "none"
               THEN procs[h].status = Reloaded(records[h].status)
               ELSE procs[h].status = records[h].status

\* Leaves do not pile up (launch_child, supervise): unless the kernel refuses to
\* remove a directory, a leaf exists only from the launch of a child until the
\* exit of that child has been dealt with, whichever launches fail in between.
LeavesAreCollected ==
    "rmdir" \notin Faults =>
        \A h \in leaves : job[h].pc \in HasChild \cup {"reaped", "recorded", "stored"}

\* A stale process is never resurrected (README, process.rs ProcEntry::stale):
\* its entry stays Stale, across any number of restarts of the supervisor,
\* until it is forgotten.
StaleStaysStale ==
    [][\A h \in Handle : procs[h].status = "Stale" => procs'[h].status \in {"Stale", "absent"}]_vars

(***************************************************************************)
(* The process table implements Supervision: what operators see of it is   *)
(* what that module promises, with all the tasks, transactions and system  *)
(* calls in between.  "reaped" is still up, because the table still says   *)
(* Running; a stop is in time until the check after the backoff.           *)
(***************************************************************************)
PhaseOf(pc) ==
    CASE pc = "none" -> "none"
      [] pc = "launched" -> "launching"
      [] pc \in {"inserted", "waiting", "reaped", "reinserted"} -> "up"
      [] pc \in {"recorded", "stored", "backoff"} -> "down"
      [] pc \in {"relaunch", "relaunched"} -> "returning"
      [] pc \in {"done", "failed"} -> "ended"

Operators == INSTANCE Supervision WITH
    ExitState <- Exited,
    shown <- [h \in Handle |-> procs[h].status],
    restarts <- [h \in Handle |-> procs[h].restarts],
    phase <- [h \in Handle |-> PhaseOf(job[h].pc)],
    wanted <- armed,
    draining <- Shutdown

ImplementsSupervision == Operators!Spec

----------------------------------------------------------------------------
\* Liveness, under FairSpec.

\* A stop that found its process running gets it out of the table's Running
\* state, SIGTERM ignored or not (terminate).
StopKills ==
    \A k \in Killer, h \in Handle :
        (killers[k].pc = "term" /\ killers[k].h = h) ~> ~Running(h)

\* Every dead child is reaped (supervise: child.wait).
ZombiesAreReaped == \A p \in Pid : os[p].st \in Exited ~> os[p].st \notin Exited

\* After every exit, the task ends or there is a new child that is tracked and
\* persisted (supervise); or the supervisor was restarted.
ExitIsAnswered ==
    \A h \in Handle : job[h].pc = "reaped" ~> job[h].pc \in {"waiting", "done", "failed", "none"}

\* kill_all gets every process that was running when it began out of the
\* table's Running state.
DrainKills ==
    \A h \in Handle : (drain.pc = "snapped" /\ Running(h) /\ procs[h].pid \in drain.pids)
                         ~> ~Running(h)

----------------------------------------------------------------------------
\* What the documentation says and the code does not do (see README.md).

\* "Stop a process and disarm its restart policy (so this intentional stop,
\* unlike a crash, isn't relaunched)": a disarmed entry is not relaunched.
DisarmedIsNotRelaunched ==
    [][\A h \in Tracked : h \notin armed => procs'[h].restarts <= procs[h].restarts]_vars
=============================================================================
