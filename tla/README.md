# A TLA+ development for mesh-supervisor

mesh-supervisor runs one *supervisor* per node. It owns the child processes of
the node and answers control requests of remote *clients*; *watchers* follow its
telemetry. This directory holds TLA+ models of the parts that carry its logic,
the TLC configurations that check them on small instances, and proofs that TLAPS
checks for every instance.

## 1. Inventory

| Part | State | Operations | Talks to |
|---|---|---|---|
| Process table and tasks (`process.rs`) | `procs` (pid, status, stdin, stdout, restarts, armed), `next`, `shutdown`; one `supervise` task per handle that owns the child, one stdout pump per child; `terminate` tasks | `spawn`, `stop`, `signal`, `forget`, `kill_all`, `with_store`; `supervise`, `terminate`; `pipe_stdin`, `subscribe`; `list`, `query`, `snapshot` | store, cgroups, kernel |
| Store (`store.rs`) | `RECORDS`, `KEY_NEXT`, the secret key | `open`, `load`, `put`, `remove`, `set_status`, `secret_key`; each one redb transaction | disk |
| Cgroups (`cgroup.rs`) | a group directory and one leaf per child | `detect`, `create_leaf`, `kill`, `remove`, `shutdown`, `usage` | kernel |
| Sandbox (`sandbox.rs`) | none (runs in the child before `exec`) | parent-death signal, rlimits, join of the leaf, namespaces | kernel |
| Rate limiter (`ratelimit.rs`) | a token bucket per peer | `allow`, `evict_lru`, `evict_stale` | called by `accept` |
| Control server (`supervisor.rs`) | the authorization sets, fixed at start-up; a handler per connection | `accept`, `dispatch`, `authorize`, `subscribe` | process table, rate limiter, clients |
| Client (`client.rs`) | a connection and its stream | `with_retry`, `connect_bi`, `request`, `subscribe`, `stdin_stream` | control server |
| Wire format (`proto.rs`) | none | `write_msg`, `read_msg`, `is_read_only` | both ends |
| Telemetry (`telemetry.rs`) | publisher: `seq`; watcher: `latest_seq`, `prev` | `publish_loop`, `accept_tick`, `watch_loop` | process table (`snapshot`), gossip |
| CLI, configuration, endpoint, wiring | none | `run_supervise` and the client commands | all |

What is hard about it. The runtime is multi-threaded and the table lock is held
only for short critical sections, never across a system call, a store
transaction, a sleep or `wait`. Requests, `supervise`, `terminate` and `kill_all`
therefore interleave in many places, and pids, statuses and the `armed` flag are
used after the lock under which they were read is gone. The supervisor may crash
between any two steps and reloads what the store holds. Every store and cgroup
operation is best effort, so any of them may fail while the rest goes on. Client
and server are separated by connections that are lost at any point, each end has
its own timeouts, and streams outlive the table entries they were opened from. The
list of these hazards, each at its line, is under `hazards` in `PROJECT.json`.

What makes each part correct:

* process table: no child is lost, doubled or left a zombie; a Running entry has
  a task that will take it out of that state; a stop is final; a handle in use is
  never issued again; the restart policy is followed; stop and shutdown get rid of a
  child that ignores SIGTERM;
* store: what a restart reloads is what the table showed;
* cgroups: leaves do not pile up, and a kill by handle hits only the right child;
* rate limiter: the map is bounded, and tokens come only from time;
* control plane: a request is executed at most once and only for a peer that may
  ask for it, the user is told the truth about it, and neither end is left waiting;
* streams: a process has one author and its output goes to its subscribers in
  order, nothing is lost unnoticed, streams end, and a process never waits for
  its audience;
* telemetry: a watcher neither repeats nor reorders, and shows no CPU time that
  was not used.

## 2. Modules

| Module | Models |
|---|---|
| `Proto` | handles, process states, restart policies, spawn specs |
| `Store` | the redb store: `Put`, `Remove`, `SetStatus`, `LoadedNextHandle` |
| `Kernel` | the host's process table (external): pids that are free, foreign, live or zombie; SIGKILL and other signals; the parent-death signal; pid reuse |
| `Cgroups` | leaf directories: `CreateLeaf`, `CgKill`, `CgRemove`, `CgShutdown`, `CgDetect`, with their failures |
| `ProcessManager` | the process table and all its tasks, on top of the four above |
| `MCProcessManager` | constants for TLC |
| `ProcessManagerProofs` | TLAPS proofs about `ProcessManager` |
| `Supervision` | the abstract specification: a handle as an operator sees it |
| `SupervisionProofs` | TLAPS proof that `ProcessManager` implements `Supervision` |
| `BookkeepingProofs` | TLAPS proofs about what the tasks of `ProcessManager` leave behind: reasons, records, leaves, tombstones |
| `Incarnations` | one handle and the launches behind it, the common part of the next two |
| `Stdin` | `stdin_stream`, its end in `accept`, `pipe_stdin`, the lock and the pipe |
| `Stdout` | the pump, the broadcast channel, `subscribe` and its relay |
| `StdinProofs`, `StdoutProofs` | TLAPS proofs about these two |
| `Control`, `MCControl` | `client.rs`, `accept`, `authorize`, `dispatch` and the frames between them; what the commands report |
| `ControlProofs` | TLAPS proofs about `Control` |
| `RateLimiter`, `MCRateLimiter` | `ratelimit.rs` |
| `RateLimiterProofs` | TLAPS proofs about `RateLimiter` |
| `Telemetry` | `telemetry.rs` |
| `TelemetryProofs` | TLAPS proofs about `Telemetry` |

Definitions that end a comment with "faulty" or describe a mistake (`PutOnce`,
`ExitLost`, `CapHitEarly`, ...) are not part of any specification: they are the
plausible bugs each property is tried against (`mutants` in `PROJECT.json`).

### ProcessManager

One action is one region between two points where another thread can get in: a
critical section of the table lock, a store transaction or a system call, with
the thread-local code up to the next such point. A handle has one owner at a
time, first the `spawn` call and then its `supervise` task; `job[h]` is where the
owner stands, together with its local variables:

```
spawn:      launched --Insert--> inserted --Persist--> waiting
supervise:  waiting --Reap--> reaped --RecordExit--> recorded --PersistExit--> stored
            stored --Decide--> done | backoff --Wake--> done | relaunch
            relaunch --Relaunch--> relaunched --Reinsert--> reinserted --Persist--> waiting
            relaunch --RelaunchFails--> failed
```

`killers` are the `terminate` tasks (`Terminate`, `GraceOver`, `Escalate`) and
`signal` calls (`SignalSend`) in flight; `drain` is `kill_all` (`DrainBegin`,
`DrainTerm`, `DrainForce`); `forgetting` holds the handles between the two halves
of `forget`. `Restart` is the end of the supervisor at any point, by shutdown or
by a crash, and `with_store` of its successor: tasks are gone, children died with
their parent, records are reloaded, and `Cgroups::detect` sweeps.

Abstractions:

* Only the exit code's being zero matters (`should_restart`); a death by signal
  is a failure.
* Durations are left out: a sleep may end at any time, and whether a child was up
  for `STABLE_RESET` is a free choice in `Decide`. Every bound on time in the
  code is thereby included.
* A signal other than SIGKILL is fatal or ignored, by free choice (`Signalled`).
* Of a process group only its leader is represented.
* Arguments, environment, limits and namespaces do not steer the supervisor and
  are not represented. The streams of a child are in `Stdin` and `Stdout`.
* `list`, `query` and `snapshot` only read.

`Decide` and `Wake` read `armed` and then the shutdown flag. Reading both at once
is sound: if the flag is seen set, the outcome does not depend on `armed`; if it
is not, it was not set at the earlier read either.

### Supervision

`Supervision` has five variables: what `query` shows for a handle, the relaunches
shown, the phase of its supervision (none, launching, up, down, returning, ended),
the handles whose policy is armed, and whether the supervisor shuts down. It says
what may never be seen: a handle that appears twice, Running again without a
relaunch that was decided while the policy was armed and no shutdown was under
way, an exit of something that was not up, a tombstone that changes, a count that
moves other than by relaunches. A relaunch that was decided (`returning`) goes
through even if a stop comes in between: this is how weak the code's promise is,
and the run `stop_relaunch` shows the stronger one violated. `Restart` may lose the
last change of a handle, because table and store are updated one after the other.

The refinement mapping (`Operators` in `ProcessManager`) reads status and restarts
from the table, `armed` and the shutdown flag as they are, and the phase from the
program counter of the owner (`PhaseOf`). `ImplementsSupervision` is checked in
`pm_races` and `pm_handles` and proved in `SupervisionProofs`.

### Incarnations, Stdin and Stdout

A handle keeps its identity over relaunches, its streams do not: `launch_child`
makes new ones, the table entry is pointed to them in a later critical section,
and a forget may come between or before. `Incarnations` has these steps for one
handle; streams of different handles share nothing. The exit of a process and the
recording of it are one step there (`ProcessExit`), since nothing happens to the
streams between the two.

`Stdin` has both ends of a `stdin` call. The client copies its input as far as flow
control lets it (`Send`, `FinishInput`), then waits for the response with a timeout
(`TakeReply`, `ReplyTimesOut`); the handler clones the lock of the entry (`Lookup`),
waits for it in order of arrival (`Lock`), copies (`Copy`) and ends for one of three
reasons (`CopyEof`, `CopyBroken`, `CopyLost`), each of which closes the child's
stdin, answers (`Reply`) and lingers (`Closed`). A connection may be lost at any
point, with what has not arrived by then (`Disconnect`). An entry that lets go of
its stdin closes it unless a writer holds a clone (`Released`). A process that exits
closes its end of the pipe, unless a descendant has inherited it, which then reads on
or does not (`Exit`).

`Stdout` has the write end of the pipe (which a descendant may hold after the exit),
the pump, the channel with its last `STDOUT_CAP` chunks, and the relay with its
three outcomes: chunk, lag, closed. Chunks are numbered, so that order, repetition
and loss are visible. The read error of the pump is not represented: a pipe's read
end does not fail.

### Control

A call makes up to `Attempts` connections. Until a stream is open any error leads to
the next attempt (`ConnectFails`), after that none does (`Broken`, `GiveUp`). Each
connection has its own handler, which goes on whether or not the client still
wants it: it waits for the stream, asks the limiter, reads the request within its
timeout, authorizes, executes, answers, and stays until the connection is closed.
Two kinds of request carry a stream on top of this. A `StdinStream` call copies its
input after the request (`CopyInput`) and reads the response only then, and its handler
copies in `pipe_stdin` before it has an answer (`PipeStdin`); a `Subscribe` call copies
the output after the `Ack` (`CopyOutput`), which its handler relays before it waits for
the close (`Relay`). How long these phases last is up to the user and to the process, so
they end at any time or never; what they carry is in `Stdin` and `Stdout`.
The limiter's verdict and the table's answer are free choices here; `RateLimiter`
and `ProcessManager` are where they are made. Of the table only the number of
records is kept, on which it depends whether the answer to `List` fits in a frame.
`Report` is what the eight client commands tell their user.

### RateLimiter

`allow` reads the clock (`Begin`), decides in one critical section (`Decide`) and
evicts in a second one (`Evict`). Tokens are whole numbers and time advances in
ticks; the code's floating point refill is linear, so nothing the properties
tell apart is lost. The map's iteration order, which breaks ties of
`min_by_key`, is a free choice.

`life` is a history variable: when the bucket was created, how many calls it has
allowed, and by how much later calls have set `last_used` back. A call reads the
clock before it waits for the lock, so two calls of one peer may apply their times
in the other order, and then the time between them is refilled twice.
`GrantsAreEarned` says that this, one burst per life of a bucket and the refill are
all a peer can get. "Tokens refilled per second" (`config.rs:102`) is thus exceeded
only by overlapping calls, and by exactly that time.

### Telemetry

Ticks that were broadcast are in a set from which any may be received at any
time, again and again, or never. A supervisor's clock may be ahead of the
watcher's by a varying amount. The counter of the sampled process starts over
with a relaunch, because the leaf does. Each run of a supervisor has one process, under
any handle: `FreshHandles` keeps a new run from issuing a handle that is in use, not one
that was forgotten, so the handle may be that of the earlier run's process. The watcher
keeps one sample per supervisor and handle, whichever run it came from.

Two variables are not in the code. `used` is the CPU time the process of each run
has really used, over all its launches, and `shown` the CPU time behind the lines
the watcher has printed of it; `NoCpuIsInvented` compares the two. It has a condition,
`Uninterrupted`: that no line of another run under the same handle comes between two of
the run. Without it the property does not hold. A late tick of the earlier run, with a
higher number, is accepted after the first ticks of the new one and replaces their
sample; if its counter is the lower of the two, the next difference shows time that was
shown before.

## 3. Runs

| Run | Instance | Shows |
|---|---|---|
| `pm_races` | 1 handle, 2 pids, 2 killers, on-failure with one retry, store, cgroups or none, pid reuse, failing launches and leaves, 1 restart | `TypeOK`, `EveryChildIsOwned`, `RunningIsSupervised`, `StopIsFinal`, `GivesUpForAReason`, `DiskMatchesTable`, `LeavesAreCollected`, `ImplementsSupervision` |
| `pm_handles` | 2 handles, 2 restarts, relaunches, forget | `FreshHandles`, `StaleStaysStale`, `ImplementsSupervision` |
| `pm_live` | 1 process, cgroups or none, fair | `StopKills`, `ZombiesAreReaped`, `ExitIsAnswered` |
| `pm_drain` | 2 processes, cgroups or none, relaunches, fair | `DrainKills` |
| `stdin` | 2 incarnations, 2 calls of two chunks, window and pipe of one, fair | `TypeOK`, `OneAuthor`, `AckMeansDelivered`, `EofIsHonest`, `LockIsNotLeaked` |
| `stdout` | 2 incarnations of three chunks, 1 subscriber, 1 slot, fair | `TypeOK`, `MissedIsReported`, `EndedIsComplete`, `StreamEnds`, `OutputIsDrained` |
| `control` | 1 call of 8 kinds, 2 peers, 3 authorization policies, 3 attempts, 1 crash, fair | `TypeOK`, `AtMostOnce`, `ReportIsTruthful`, `OnlyControlChangesTheTable`, `EveryCallEnds` |
| `ratelimit` | 3 peers, 3 calls, 1 bucket | `TypeOK`, `ExcessIsBeingEvicted`, `GrantsAreEarned` |
| `telemetry` | 1 supervisor, 2 runs under one handle, 4 ticks, relaunches | `TypeOK`, `PrintedInOrder`, `NoCpuIsInvented` |

Bounds. One handle is enough for the races on one process, because the tasks of
different handles share only the counter, the pids and `kill_all`'s list;
`pm_handles` and `pm_drain` have two processes for those (`MaxHandle` is 3 in `pm_drain`
and 2 in `pm_live`, because without a store the first handle is 2). In `pm_drain` one of
them can be in `kill_all`'s list while the other is being spawned or relaunched. Two
pids let a pid be reused while a stale copy of it is still held. `MaxRestarts` is 2 where the retry cap or a
second relaunch matters. `Killer` slots bound the stops and signals in flight:
two let a stop and a signal, or two stops, overlap. `MayMeetItsEnd` is the bound
on relaunches: an armed child that has been relaunched `MaxRestarts` times lives
on until it is stopped or shut down. Two restarts are what it takes to reload a
tombstone and to run into a counter that moved back.

For the streams, two incarnations are what a relaunch under an open stream takes,
and a window, a pipe and a channel of one slot make every limit bite with two or
three chunks; in `stdin` two chunks do not fit into window and pipe while nobody
reads. Subscribers do not affect each other except through `HasReceiver`, so one is
enough; two writers compete for the lock. In `control` the handlers of three
attempts of one call already run side by side; calls of different clients meet
only in the table, which `ProcessManager` covers, and in the limiter. Three attempts
are a first, a middle and a last one; one crash may hit each of them. In `telemetry`
the clock makes one step, which two ticks need to show a difference, and it takes four
ticks for a late one of the first run to come between lines of the second that both show
one: there `NoCpuIsInvented` without its condition is violated. Every tick stays fresh in
this time; a stale tick is dropped, which to the watcher is a lost one, and any tick may be
lost. Clocks that are ahead, several supervisors and runs with different handles are
covered by the proofs of section 4, which are for every value of these constants, and so
are the safety properties of `stdin` for inputs of any other length.

Failing store transactions and directories that cannot be removed are in no run's
`Faults`: `DiskMatchesTable` and `LeavesAreCollected` are promises without them,
and what must hold in spite of them is proved for every set of faults (section 4).
Their proofs need only that: `TableIsOnDisk` allows every fault but failing
transactions, `NoLeafIsLeftBehind` every fault but directories that stay.

Deadlock is not checked for the process table, telemetry, the streams and the
control plane: with handles, boots, ticks and calls used up there is nothing left to
do, and after `kill_all` the supervisor really stops. It is checked for the rate limiter.

Fairness (`FairSpec`) is weak fairness for every task step, terminate step and
stage of `kill_all`: the runtime runs the tasks it has accepted, sleeps end, and
`wait` returns once the child is dead. Nothing is assumed about clients, about
children (which need not exit), about faults or about the host. Symmetry is used
for safety only.

In `Control`, `ClientStep` and `HandlerStep` are fair: both runtimes run their tasks
and timeouts end. In `Stdout` the pump and the relay are, which takes for granted
that a client reads what it is sent. In `Stdin` the handler is, and the end of a client
that waits for the response within its timeout (`ReplyStep`). No input need go on or end,
no process need read: `pipe_stdin` has no timeout, so a call can hold the lock for as long
as its client is silent or its process does not read. `LockIsNotLeaked` says that this is
the only way: a call that waits for the lock gets it, or the one that has it waits for
input (`AwaitsInput`) or for room in the pipe (`AwaitsRoom`). `CooperativeSpec` adds clients that go
on and processes that read; it is used by `stdin_deadlock` alone, to show that the call
hangs even then. In `Control` the phases that carry a stream (`ClientStream`,
`HandlerStream`) are not fair, and `EveryCallEnds` asks that a call ends or is in such a
phase. Losing connections, exiting and closing are never fair.

### What the code does not do as documented

Each of these runs checks one statement of a document or comment and ends in a
counterexample. `findings` in `PROJECT.json` quotes the lines.

| Run | Statement | What happens |
|---|---|---|
| `stop_relaunch` | a stopped process is not relaunched | a stop between the check after the backoff and the table update is lost |
| `stop_without_leaf` | SIGKILL if it is still up | with cgroups, a child launched without its leaf is never killed |
| `stdin_deadlock` | the final response is read before `stdin_stream` returns | the supervisor answers early and waits for the client to close, the client waits for flow control |

The last row needs only a call that is rejected (no such handle, stdin closed or used
up) with more input than the flow-control window: the wait is outside of the
client's read timeout, and ends only when the connection is lost.

Others are visible in the models and have no run:

* `process.rs:308` says that `supervise` relaunches "until the process is stopped, the
  retry cap is hit, or the supervisor shuts down", but a relaunch that fails, for however
  transient a reason, ends it too (`RelaunchFails`, `process.rs:385-389`). `GivesUpForAReason`
  therefore has two parts: a task that is done ended as documented, and a task that ended
  in a failed relaunch was due to make it;
* `process.rs:459` says that the escalation of a stop "can't land on a reused pid", but
  without cgroups the child can be reaped after the check in `terminate` and another child
  have its pid, and with it the id of its group, when the SIGKILL is sent (`Escalate`, with
  `reuse` in `Host`);
* without a store the first handle is 2, not 1 (`Init`), and `max_buckets` is exceeded
  by the calls between their two critical sections (`ExcessIsBeingEvicted` is the
  bound that holds);
* a forget in the window of `stop_relaunch` drops entry and record, and the relaunch
  writes the record again (`Reinsert`, `Persist`);
* a launch that passed its check before `kill_all` took its list is not in the list, and
  only the parent-death signal gets that child (`DrainBegin`);
* a restarted supervisor counts its ticks from 1 again, as `telemetry.rs:41` says, so a
  watcher drops the new run's ticks until they outnumber the old ones (`Replayed`);
* `supervisor.rs:1` says "one request → one response per stream", but an answer to
  `List` above `MAX_FRAME` is not sent and the client sees a lost connection (`Replied`);
* `proto.rs:147` says that with `Timeout` the supervisor closed the connection; it
  writes the error and waits for the client to close (`Reply`);
* `process.rs:265` speaks of a pump without subscribers, but the entry itself holds a
  receiver, so that branch is taken only after a forget or a relaunch (`HasReceiver`);
* the loss of the client's connection closes the child's stdin as the end of the input
  does, so the child cannot tell them apart (`CopyLost`; `process.rs:537` names only the
  broken pipe);
* a subscription ends with the output and not with the process, which a descendant
  may outlive and which the process may close before it exits (`PumpEof`);
* the client commands other than `subscribe` return success after a refusal, and
  `run_stdin` after any error; `Report` is what they print.

`StopIsFinal` is the other side of `stop_relaunch`: a stop that found its process
*Running* does prevent every relaunch.

## 4. Proofs

### ProcessManagerProofs

For any number of handles, pids, killers and
restarts, any set of specs and requests and any combination of host features and
faults, from the named assumptions on the constants only (`ProtoAssumption`,
`HostAssumption`, `FaultAssumption`, `PMAssumption`), these are proved:

* `TypeCorrect`: `TypeOK`. Its invariant `TypeInv` adds that an owner holds a pid
  exactly in the stages in which it has a child (`OwnerHoldsPid`); without it the
  pid that `Insert` and `Persist` store could not be shown to be a pid.
* `HandlesAreFresh`: `FreshHandles`. It is inductive together with `TypeInv`. The
  interesting step is `Restart`, where the new counter comes from the store alone:
  every handle that survives has a record, and `LoadedNextHandle` is not behind
  any record (`LoadedNextHandleBounds`), whatever `Put` did to `KEY_NEXT`.
* `ChildrenAreOwned`: `EveryChildIsOwned`. Its invariant `OwnedInv` adds that only
  children have an owner, and it needs `FreshHandles`: a spawn under a handle in
  use would leave two children to one owner.
* `RunningIsAttended`: `RunningIsSupervised`, inductive together with `TypeInv` and
  `FreshHandles`. It is what excludes an entry that says Running for ever.
* `StopsAreFinal`: `StopIsFinal`. Its invariant `StopInv` says where the owner of
  the handle can be while a terminate task is under way: on its way to the
  decision, and there, disarmed, it can only end (`SettledTask`). That it starts
  there is `RunningIsSupervised` at the moment of the stop, and that no other
  process belongs to the handle is `OwnedInv`.

The layout is the usual one: one lemma says that the initial states satisfy the
invariant, one that every step preserves it, with a step of the proof per action,
and the theorem combines them. Lemmas about `CreateLeaf`, `LaunchChild`,
`Killed`, `CgRemove`, `CgShutdown`, `BestEffort` and `LoadedNextHandle` say once
what those operators return. That the maximum in `LoadedNextHandle` exists is
proved from the well-foundedness of the natural numbers (`MaxExists`).

### SupervisionProofs

`Refinement`, `Spec => ImplementsSupervision`, from the same assumptions. The initial
states map to the initial state (`InitRefines`), and every step to a step or a stutter
(`NextRefines`, one step of the proof per action). Two of them need more than
`TypeInv` and `FreshHandles`. `Launch` asks that nothing is shown for the handle, and
`Restart` that a tombstone is shown unchanged, although the table is rebuilt from the
store. `KeptInv` supplies this: an entry without an owner has a record that reloads to
the very status it shows, a handle that is being spawned or forgotten is not in
the table. It is inductive together with `TypeInv` and `FreshHandles` (`KeptNext`), for
every set of faults: a tombstone changes only by a forget, which removes the entry
first.

### RateLimiterProofs

For any number of peers and calls, any burst, rate, cap and expiry (zero included),
from `RateLimiterAssumption`:

* `TypeCorrect`: `TypeOK`, inductive by itself, with what a refill returns
  (`RefilledBounds`) and what the two critical sections do (`DecideStep`, `EvictStep`)
  as lemmas.
* `MapIsBounded`: `ExcessIsBeingEvicted`, inductive with `TypeOK`. A call that inserts
  a bucket beyond the cap adds itself to the calls that evict; one that leaves them has
  just removed a bucket or found none too many. It rests on the cardinality theorems
  for finite sets.
* `OnlyEarnedGrants`: `GrantsAreEarned`, inductive with `TypeOK`. The two cases of
  `Decide` are a call in order, where the refill pays for what is added, and one that
  comes late, where `last_used` goes back by exactly what `rewound` gains.

### BookkeepingProofs

On top of the invariants above, from the same assumptions:

* `NoTaskEndsWithoutReason`: `GivesUpForAReason`. The property speaks of a task that
  has ended, when the comparison that ended it is over: it ended as documented
  (`EndsAsDocumented`), or in a relaunch that failed, and a task that is on its way to a
  relaunch, in one or past one that failed was asked for it by policy, exit and count
  (`RelaunchWasDue`). That the failed relaunch is an end at all is
  the first entry of the list that closes section 3. Its invariant `ReasonInv` adds what the comparison relies on:
  a task that has not ended has made at most `max_retries` attempts (`Accounted`).
* `TableIsOnDisk`: `DiskMatchesTable`. Its invariant `DiskInv` says what is owed to the
  disk at each place an owner can be (`Written`): between a table update and its
  transaction the entry and the local variables that the transaction will write
  agree, everywhere else the record and the entry do. That an entry without an owner
  has its record is `KeptInv`. The property has no exception for the time between the
  death of a process and the recording of its exit, since the table still shows it
  Running then, as the record does.
* `NoLeafIsLeftBehind`: `LeavesAreCollected`. Its invariant `LeafInv` adds that without
  a `Cgroups` object there are no leaves, so that a task that finds none to remove its
  leaf with leaves nothing behind.
* `NothingRaisesTheDead`: the action property `StaleStaysStale`. `StaleInv` says that a
  Stale entry has no owner, so that no task step can touch it, and
  `KeptInv` that its record reloads to Stale, so that no restart does.

### ControlProofs

For any number of calls, peers, attempts, records and crashes, any requests and any
authorization sets, from `ControlAssumption`:

* `TypeCorrect`: `TypeOK`, which includes that `with_retry` never goes past its last
  attempt. That a `max_retries` of zero still means one attempt is `AttemptsBounds`.
* `ExecutedAtMostOnce`: `AtMostOnce`, and `ReportsAreTruthful`: `ReportIsTruthful`. Both
  follow from `CallInv`: the attempts after the present one have no connection, on
  those before it no request was ever sent, so their handlers have executed nothing
  (`Quiet`), the answer a handler has on the wire is the one its execution justifies, of
  which there is none while `pipe_stdin` goes on (`Honest`), what is on the wire stays, and
  the response the client holds is the one that was on the wire.
  `AtMostOnce` alone is not inductive: what excludes a second execution is that a retry
  happens only before the request is written.
* `OnlyControlWrites`: the action property `OnlyControlChangesTheTable`, from
  `TypeOK` and the fact that a handler executes only what `authorize` let through.

### StdoutProofs

For any number of incarnations, subscribers, chunks and slots, from
`IncarnationsAssumption` and `StdoutAssumption`: `TypeCorrect` (`TypeOK`),
`NothingIsMissedSilently` (`MissedIsReported`) and `EndedStreamsAreComplete`
(`EndedIsComplete`). The invariant has a part per incarnation (`OutInv`: a pump that has
ended has read everything, and nobody can write any more) and one per subscription.
Its core is `Attached`: the channel from the receiver's position on is the output from
the last chunk the subscriber knows of, received or reported, without a gap. A chunk
moves the position and this number by one, a lag both by the number of slots skipped.
It is the pump that could break it, by sending to a channel without receivers, where
nothing is kept: a streaming subscription is itself a receiver.

### StdinProofs

For any number of incarnations and writers, any length of input, window and pipe, from
`IncarnationsAssumption` and `StdinAssumption`: `TypeCorrect` (`TypeOK`, the bounds of
pipe and window included), `ProcessHasOneAuthor` (`OneAuthor`), `AcknowledgedIsDelivered`
(`AckMeansDelivered`) and `EofIsNoLie` (`EofIsHonest`). The invariant relates the two
sides: a call that is copying is at the head of the line of an open stdin and has fed it
exactly what it has read (`Holds`); the author of what was fed has the lock until stdin
is closed (`AuthorOK`). So whoever gets the lock of a stdin that is still open finds it
unfed, and what is closed is never fed again (`Done`). `Bystander` says once that what
the head of the line does leaves the calls of the other writers as they were.

### TelemetryProofs

For any number of supervisors, runs and ticks, any clocks and any arrival, from
`TelemetryAssumption`: `TypeCorrect` (`TypeOK`), `LinesAreInOrder` (`PrintedInOrder`) and
`ShownCpuWasUsed` (`NoCpuIsInvented`). The first two need that what was printed has
increasing numbers, none above the last accepted (`Watched`). The third needs what a
process had used when each tick was published, which no variable holds: the invariant
says that there is a function with these values (`\E f \in HistType`), which a tick that
is published extends and no other step changes. Between two ticks of a run a process
has used at least what its counter has gained (`Between`). What the watcher has shown of a
run was used by the time of a tick it has accepted (`FromTick`), and this tick is the
last sample under its handle unless a line of another run has followed (`Followed`), in
which case one more line of the run makes it interrupted. The first line of a run may
be a difference to a sample of another process: it is no more than the counter, which is
no more than was used.

### What stays with TLC

Every invariant and the two safety action properties of the runs are proved, and so is
the refinement. What remains is everything under fairness (`StopKills`,
`ZombiesAreReaped`, `ExitIsAnswered`, `DrainKills`, `LockIsNotLeaked`, `StreamEnds`,
`OutputIsDrained`, `EveryCallEnds`), since the prover handles neither `ENABLED` nor
fairness.

## 5. Not modelled, and the plan

Not modelled, and why:

* the definitions of flags and subcommands (`cli.rs`), copying flags over defaults
  (`config.rs`), the endpoint and relay setup (`endpoint.rs`), `main.rs`, `lib.rs`, printing
  and completions: wiring without state of its own;
* durations and backoff delays: a wait may end at any time in the models, which
  includes every value;
* a start-up that fails half way (for example when joining the gossip topic fails after
  the router is up, `run_supervise` returns without `kill_all`): to the models it is a
  crash, which `Restart` covers;
* cryptography: identities and signatures are taken at their word;
* namespaces, rlimits and the hidden store directory of the sandbox, which act on the
  child alone; the secret key in the store, which is written once;
* the postcard encoding of requests and responses, and requests that do not decode;
* the installer and CI.

What is left of the plan: abstract specifications of a stdin call and of a
subscription, as their clients see them, with `Stdin` and `Stdout` shown to implement
them; the fairness-free halves of the liveness properties (what a process that waits
is waiting for), which can be proved as invariants.
