----------------------------- MODULE Telemetry -----------------------------
(***************************************************************************)
(* src/src/telemetry.rs: supervisors broadcast ticks on a gossip topic, a  *)
(* watcher prints them.  Gossip may lose, delay, duplicate and reorder a   *)
(* tick; its signature is verified, so `from` is who it says.              *)
(*                                                                         *)
(* Each run of a supervisor has one process of interest.  Its handle is    *)
(* not in use elsewhere (ProcessManager: FreshHandles), but an earlier run *)
(* may have issued it to a process that was forgotten since.               *)
(***************************************************************************)
EXTENDS Integers, Sequences, FiniteSetsExt

CONSTANTS
    Node,          \* the supervisors' endpoint ids
    Handle,        \* the handles a supervisor gives to its process
    MaxTickAge,    \* TelemetryConfig::max_tick_age
    MaxSkew,       \* how far a supervisor's wall clock may be ahead
    MaxRuns,       \* bound: how many times a supervisor runs
    MaxSeq,        \* bound: ticks numbered per run
    MaxTicks,      \* bound: ticks broadcast
    MaxCpu,        \* bound: CPU time a process uses per run
    MaxTime        \* bound: the watcher's wall clock stops here

ASSUME TelemetryAssumption ==
    {MaxTickAge, MaxSkew, MaxRuns, MaxSeq, MaxTicks, MaxCpu, MaxTime} \subseteq Nat /\ MaxRuns # 0

VARIABLES
    now,           \* the watcher's wall clock
    pub,           \* node -> its publish_loop and the process it samples
    used,          \* node -> run -> CPU time used so far, over all relaunches
    net,           \* the ticks broadcast so far; each may arrive at any time, or never
    latest_seq,    \* watch_loop: node -> last accepted seq (0: none)
    prev,          \* watch_loop: node -> handle -> last sample, or NoSample
    printed,       \* the lines printed, in order
    shown          \* history: node -> run -> CPU time behind the lines printed

vars == <<now, pub, used, net, latest_seq, prev, printed, shown>>

Run == 1 .. MaxRuns

\* The process: "untracked" (the snapshot is empty), "running" with a cgroup
\* counter, or "exited" (no usage is sampled).
Publisher == [run : Run, handle : Handle, seq : 0 .. MaxSeq,
              proc : {"untracked", "running", "exited"}, cpu : 0 .. MaxCpu]

NoUsage == -1
NoSample == [cpu |-> NoUsage, ts |-> 0]
Time == 0 .. MaxTime + MaxSkew
Sample == [cpu : {NoUsage} \cup 0 .. MaxCpu, ts : Time]

\* A tick with the usage of the process; the run is not sent, but is known here.
TickType == [from : Node, run : Run, handle : Handle, seq : 1 .. MaxSeq, ts : Time,
             cpu : {NoUsage} \cup 0 .. MaxCpu]

\* A printed line: cpu is the CPU time behind its percentage, NoUsage for "-".
Line == [from : Node, run : Run, handle : Handle, seq : 1 .. MaxSeq,
         cpu : {NoUsage} \cup 0 .. MaxCpu]

TypeOK ==
    /\ now \in 0 .. MaxTime
    /\ pub \in [Node -> Publisher]
    /\ used \in [Node -> [Run -> 0 .. MaxCpu]]
    /\ net \in SUBSET TickType
    /\ latest_seq \in [Node -> 0 .. MaxSeq]
    /\ prev \in [Node -> [Handle -> Sample]]
    /\ printed \in Seq(Line)
    /\ shown \in [Node -> [Run -> Nat]]

NewRun(run, h) == [run |-> run, handle |-> h, seq |-> 0, proc |-> "untracked", cpu |-> 0]

Init ==
    /\ now = 0
    /\ pub \in [Node -> {NewRun(1, h) : h \in Handle}]
    /\ used = [n \in Node |-> [r \in Run |-> 0]]
    /\ net = {}
    /\ latest_seq = [n \in Node |-> 0]
    /\ prev = [n \in Node |-> [h \in Handle |-> NoSample]]
    /\ printed = <<>>
    /\ shown = [n \in Node |-> [r \in Run |-> 0]]

----------------------------------------------------------------------------
\* Time passes.
Elapse ==
    /\ now < MaxTime
    /\ now' = now + 1
    /\ UNCHANGED <<pub, used, net, latest_seq, prev, printed, shown>>

\* The process is launched, or relaunched in a new leaf whose counter is zero ...
Launch(n) ==
    /\ pub[n].proc # "running"
    /\ pub' = [pub EXCEPT ![n].proc = "running", ![n].cpu = 0]
    /\ UNCHANGED <<now, used, net, latest_seq, prev, printed, shown>>

\* ... uses CPU time ...
Work(n) ==
    /\ pub[n].proc = "running"
    /\ used[n][pub[n].run] < MaxCpu
    /\ used' = [used EXCEPT ![n][pub[n].run] = @ + 1]
    /\ pub' = [pub EXCEPT ![n].cpu = @ + 1]
    /\ UNCHANGED <<now, net, latest_seq, prev, printed, shown>>

\* ... and exits.
Exit(n) ==
    /\ pub[n].proc = "running"
    /\ pub' = [pub EXCEPT ![n].proc = "exited"]
    /\ UNCHANGED <<now, used, net, latest_seq, prev, printed, shown>>

\* The supervisor restarts, with the same id: publish_loop counts from 0 again.
Restart(n) ==
    /\ pub[n].run < MaxRuns
    /\ \E h \in Handle : pub' = [pub EXCEPT ![n] = NewRun(pub[n].run + 1, h)]
    /\ UNCHANGED <<now, used, net, latest_seq, prev, printed, shown>>

\* The usage a snapshot finds in the leaf of the process, if it is running.
Usage(n) == IF pub[n].proc = "running" THEN pub[n].cpu ELSE NoUsage

\* publish_loop: an interval passed and the snapshot is not empty.  The wall
\* clock may be ahead of the watcher's, and set back between two ticks.  A tick
\* that cannot be broadcast has used up its number all the same.
Publish(n) ==
    /\ pub[n].proc # "untracked"
    /\ pub[n].seq < MaxSeq
    /\ pub' = [pub EXCEPT ![n].seq = @ + 1]
    /\ \/ UNCHANGED net
       \/ /\ Cardinality(net) < MaxTicks
          /\ \E skew \in 0 .. MaxSkew :
                net' = net \cup {[from |-> n, run |-> pub[n].run, handle |-> pub[n].handle,
                                  seq |-> pub[n].seq + 1, ts |-> now + skew, cpu |-> Usage(n)]}
    /\ UNCHANGED <<now, used, latest_seq, prev, printed, shown>>

----------------------------------------------------------------------------
\* fresh.
Fresh(ts) == ts - now <= MaxTickAge /\ now - ts <= MaxTickAge

\* A faulty replay check that lets the same number in again.
ReplayedOlder(t) == t.seq < latest_seq[t.from]

\* The replay check of accept_tick.
Replayed(t) == t.seq <= latest_seq[t.from]

\* A faulty diff against the first sample, not the last.
SampleKept(t) ==
    IF t.cpu = NoUsage \/ prev[t.from][t.handle] # NoSample THEN prev
    ELSE [prev EXCEPT ![t.from][t.handle] = [cpu |-> t.cpu, ts |-> t.ts]]

\* prev.insert, when the tick carries usage.  The key is (publisher, handle): the
\* sample replaced may be one of another run's process.
Sampled(t) ==
    IF t.cpu = NoUsage THEN prev
    ELSE [prev EXCEPT ![t.from][t.handle] = [cpu |-> t.cpu, ts |-> t.ts]]

\* A faulty difference that wraps around when the counter started over.
CpuWraps(t) ==
    LET p == prev[t.from][t.handle] IN
    IF t.cpu = NoUsage \/ p = NoSample \/ t.ts <= p.ts THEN NoUsage
    ELSE (t.cpu - p.cpu) % 2 ^ 16

\* The CPU time a line shows: the difference to the last sample, zero if the
\* counter started over, and nothing without usage, without an earlier sample or
\* without a positive time between the two.
CpuShown(t) ==
    LET p == prev[t.from][t.handle] IN
    IF t.cpu = NoUsage \/ p = NoSample \/ t.ts <= p.ts THEN NoUsage
    ELSE Max({t.cpu - p.cpu, 0})

\* watch_loop: a tick arrives, is accepted and printed.  Any other tick is
\* dropped without a trace.
Receive(t) ==
    /\ Fresh(t.ts)
    /\ ~Replayed(t)
    /\ latest_seq' = [latest_seq EXCEPT ![t.from] = t.seq]
    /\ prev' = Sampled(t)
    /\ printed' = Append(printed, [from |-> t.from, run |-> t.run, handle |-> t.handle,
                                   seq |-> t.seq, cpu |-> CpuShown(t)])
    /\ shown' = [shown EXCEPT ![t.from][t.run] = @ + Max({CpuShown(t), 0})]
    /\ UNCHANGED <<now, pub, used, net>>

Next ==
    \/ Elapse
    \/ \E n \in Node : \/ Launch(n) \/ Work(n) \/ Exit(n)
                       \/ Restart(n) \/ Publish(n)
    \/ \E t \in net : Receive(t)

Spec == Init /\ [][Next]_vars

----------------------------------------------------------------------------
(***************************************************************************)
(* However gossip duplicates and reorders (accept_tick, watch_loop): what  *)
(* a watcher prints of one run of a supervisor is in the order in which it *)
(* was published, and nothing is printed twice.                            *)
(***************************************************************************)
PrintedInOrder ==
    \A i, j \in DOMAIN printed :
        i < j /\ printed[i].from = printed[j].from /\ printed[i].run = printed[j].run
            => printed[i].seq < printed[j].seq

\* No line of another run's process under the same handle comes between two lines
\* of run r of supervisor n.
Uninterrupted(n, r) ==
    \A i, j, k \in 1 .. Len(printed) :
        /\ i < j /\ j < k
        /\ printed[i].from = n /\ printed[i].run = r
        /\ printed[k].from = n /\ printed[k].run = r
        /\ printed[j].from = n /\ printed[j].handle = printed[i].handle
        => printed[j].run = r

(***************************************************************************)
(* The CPU time the printed percentages of a process add up to is time it  *)
(* really used (watch_loop): losing ticks, counters that start over with a *)
(* relaunch, clocks that are set and the sample an earlier process left    *)
(* under the same handle make it less, never more.  Only a late tick of a  *)
(* run that is over, accepted between two of the new run, can make it more *)
(* if the new run has issued the handle again.                             *)
(***************************************************************************)
NoCpuIsInvented ==
    \A n \in Node, r \in Run : Uninterrupted(n, r) => shown[n][r] <= used[n][r]
============================================================================
