------------------------------- MODULE Stdout -------------------------------
(***************************************************************************)
(* The standard output of a handle: the pump that launch_child starts, the *)
(* broadcast channel (tokio's, modelled from its use), subscribe, and the  *)
(* relay to the client in src/src/supervisor.rs.                           *)
(*                                                                         *)
(* A chunk is what one read of the pump returns; the chunks of an          *)
(* incarnation are numbered.                                               *)
(***************************************************************************)
EXTENDS Incarnations

CONSTANTS
    Sub,         \* subscriptions
    STDOUT_CAP,  \* slots of the channel
    MaxOutput    \* bound: chunks an incarnation writes

ASSUME StdoutAssumption == STDOUT_CAP \in Nat \ {0} /\ MaxOutput \in Nat

VARIABLES
    out,         \* incarnation -> its pipe, pump and channel
    subs         \* subscription -> its receiver and its stream

vars == <<incVars, out, subs>>

(***************************************************************************)
(* held: the process, or a descendant, has the write end of the pipe;      *)
(* wrote: chunks written to it; pumped: chunks read from it; open: the     *)
(* pump has its Sender; sent: what it broadcast, of which the channel      *)
(* keeps the last STDOUT_CAP.                                              *)
(***************************************************************************)
NoOut == [held |-> FALSE, wrote |-> 0, pumped |-> 0, open |-> FALSE, sent |-> <<>>]
NewOut == [NoOut EXCEPT !.held = TRUE, !.open = TRUE]

(***************************************************************************)
(* from: the chunks pumped before the subscription; pos: the receiver's    *)
(* position in the channel; got: what was sent to the client; lagged: what *)
(* RecvError::Lagged said it missed.                                       *)
(***************************************************************************)
NoSub == [pc |-> "idle", inc |-> 0, from |-> 0, pos |-> 0, got |-> <<>>, lagged |-> 0]

SubPc == {"idle", "streaming", "finished", "refused", "broken"}
Chunk == 1 .. MaxOutput

TypeOK ==
    /\ IncTypeOK
    /\ out \in [Inc -> [held : BOOLEAN, wrote : 0 .. MaxOutput, pumped : 0 .. MaxOutput,
                        open : BOOLEAN, sent : Seq(Chunk)]]
    /\ subs \in [Sub -> [pc : SubPc, inc : 0 .. MaxInc, from : 0 .. MaxOutput, pos : Nat,
                         got : Seq(Chunk), lagged : Nat]]
    /\ \A i \in Inc : out[i].pumped <= out[i].wrote
    /\ \A s \in Sub : subs[s].inc # 0 => subs[s].pos <= Len(out[subs[s].inc].sent)

Init ==
    /\ IncInit
    /\ out = [i \in Inc |-> NoOut]
    /\ subs = [s \in Sub |-> NoSub]

----------------------------------------------------------------------------
\* The process.

LaunchChild ==
    /\ Launch
    /\ out' = [out EXCEPT ![inc + 1] = NewOut]
    /\ UNCHANGED subs

\* The table is updated, or the entry forgotten: a receiver comes or goes.
Track ==
    /\ UpdateTable \/ ForgetEntry
    /\ UNCHANGED <<out, subs>>

\* The process exits.  A descendant may keep its stdout open.
Exit ==
    /\ ProcessExit
    /\ \E held \in {FALSE, out[inc].held} : out' = [out EXCEPT ![inc].held = held]
    /\ UNCHANGED subs

\* The process closes its stdout, or its last descendant does.
CloseStdout(i) ==
    /\ out[i].held
    /\ out' = [out EXCEPT ![i].held = FALSE]
    /\ UNCHANGED <<incVars, subs>>

Write(i) ==
    /\ out[i].held /\ out[i].wrote < MaxOutput
    /\ out' = [out EXCEPT ![i].wrote = @ + 1]
    /\ UNCHANGED <<incVars, subs>>

----------------------------------------------------------------------------
\* The pump.

Streaming(i) == {s \in Sub : subs[s].pc = "streaming" /\ subs[s].inc = i}

\* receiver_count # 0: the entry, or the result of launch_child, has a receiver.
HasReceiver(i) == entry = i \/ (pending /\ inc = i) \/ Streaming(i) # {}

\* A faulty pump that reads only for subscribers, and one that takes every read
\* for a full buffer.
PumpForAudience(i) ==
    /\ out[i].open /\ out[i].pumped < out[i].wrote /\ Streaming(i) # {}
    /\ out' = [out EXCEPT ![i].pumped = @ + 1, ![i].sent = Append(@, out[i].pumped + 1)]
    /\ UNCHANGED <<incVars, subs>>
PumpFullBuffers(i) ==
    /\ out[i].open /\ out[i].pumped < out[i].wrote
    /\ out' = [out EXCEPT ![i].pumped = @ + 2, ![i].sent = Append(@, out[i].pumped + 1)]
    /\ UNCHANGED <<incVars, subs>>

\* One read, which is broadcast unless there is nobody to receive it.
Pump(i) ==
    /\ out[i].open /\ out[i].pumped < out[i].wrote
    /\ out' = [out EXCEPT ![i].pumped = @ + 1,
                          ![i].sent = IF HasReceiver(i) THEN Append(@, out[i].pumped + 1)
                                      ELSE @]
    /\ UNCHANGED <<incVars, subs>>

\* A faulty pump that ends with its process instead of its output, and one whose
\* Sender lives as long as the entry.
AtExit(i) == ~(inc = i /\ live)
AtForget(i) == out[i].pumped = out[i].wrote /\ ~out[i].held /\ entry # i

\* read_buf returns 0: everything was read and nobody has the write end.
AtEof(i) == out[i].pumped = out[i].wrote /\ ~out[i].held

\* The pump ends and drops the only Sender.
PumpEof(i) ==
    /\ out[i].open /\ AtEof(i)
    /\ out' = [out EXCEPT ![i].open = FALSE]
    /\ UNCHANGED <<incVars, subs>>

----------------------------------------------------------------------------
\* Subscriptions.

\* ProcessManager::subscribe: a receiver at the tail of the entry's channel.
Subscribe(s) ==
    /\ subs[s].pc = "idle"
    /\ subs' = [subs EXCEPT ![s] =
                  IF entry = 0 THEN [NoSub EXCEPT !.pc = "refused"]
                  ELSE [NoSub EXCEPT !.pc = "streaming", !.inc = entry,
                                     !.from = out[entry].pumped,
                                     !.pos = Len(out[entry].sent)]]
    /\ UNCHANGED <<incVars, out>>

Channel(s) == out[subs[s].inc].sent

\* The chunks between the receiver's position and the oldest slot.
Missed(s) ==
    IF Len(Channel(s)) > subs[s].pos + STDOUT_CAP
    THEN Len(Channel(s)) - STDOUT_CAP - subs[s].pos ELSE 0

\* A faulty relay that ignores what a lagging receiver lost.
SilentLag(s) == [subs[s] EXCEPT !.pos = @ + Missed(s)]

\* RecvError::Lagged: the receiver goes to the oldest slot, and the loss is logged.
Lag(s) == [subs[s] EXCEPT !.pos = @ + Missed(s), !.lagged = @ + Missed(s)]

\* The loop of Supervisor::subscribe: the next chunk, or a lag.
Relay(s) ==
    /\ subs[s].pc = "streaming"
    /\ subs[s].pos < Len(Channel(s))
    /\ subs' = [subs EXCEPT ![s] =
                  IF Missed(s) > 0 THEN Lag(s)
                  ELSE [subs[s] EXCEPT !.pos = @ + 1,
                                       !.got = Append(@, Channel(s)[subs[s].pos + 1])]]
    /\ UNCHANGED <<incVars, out>>

\* RecvError::Closed: the receiver has everything and the Sender is gone.
Finish(s) ==
    /\ subs[s].pc = "streaming"
    /\ subs[s].pos = Len(Channel(s)) /\ ~out[subs[s].inc].open
    /\ subs' = [subs EXCEPT ![s].pc = "finished"]
    /\ UNCHANGED <<incVars, out>>

\* The client is gone: write_all fails, with the next chunk and not before.
Broken(s) ==
    /\ subs[s].pc = "streaming"
    /\ subs[s].pos < Len(Channel(s)) /\ Missed(s) = 0
    /\ subs' = [subs EXCEPT ![s].pc = "broken"]
    /\ UNCHANGED <<incVars, out>>

----------------------------------------------------------------------------
PumpStep(i) == Pump(i) \/ PumpEof(i)
RelayStep(s) == Relay(s) \/ Finish(s)

Next ==
    \/ LaunchChild \/ Track \/ Exit
    \/ \E i \in Inc : CloseStdout(i) \/ Write(i) \/ PumpStep(i)
    \/ \E s \in Sub : Subscribe(s) \/ RelayStep(s) \/ Broken(s)

Spec == Init /\ [][Next]_vars

\* The runtime runs pumps and handlers, and clients read what they are sent.
Fairness ==
    /\ \A i \in Inc : WF_vars(PumpStep(i))
    /\ \A s \in Sub : WF_vars(RelayStep(s))

FairSpec == Spec /\ Fairness

----------------------------------------------------------------------------
(***************************************************************************)
(* Nothing is missed silently (the pump, Supervisor::subscribe): a client  *)
(* is sent chunks of one incarnation, in order, none twice, and of those   *)
(* before its last one it misses at most what was reported as lagged.  The *)
(* report is a line in the log of the supervisor; the client is not told.  *)
(***************************************************************************)
MissedIsReported ==
    \A s \in Sub : subs[s].inc # 0 =>
        LET got == subs[s].got
        IN  /\ \A k \in 1 .. Len(got) :
                  got[k] > IF k = 1 THEN subs[s].from ELSE got[k - 1]
            /\ got # <<>> => got[Len(got)] <= subs[s].from + Len(got) + subs[s].lagged

(***************************************************************************)
(* A stream that ends is complete (the pump, Supervisor::subscribe): every *)
(* chunk written since the subscription, also those that were still in the *)
(* pipe when the process died, was sent or reported as lagged, and nobody  *)
(* can write any more.  A relaunch or a forget does not cut it short.      *)
(***************************************************************************)
EndedIsComplete ==
    \A s \in Sub : subs[s].pc = "finished" =>
        LET o == out[subs[s].inc]
        IN  ~o.held /\ subs[s].from + Len(subs[s].got) + subs[s].lagged = o.wrote

\* The stream of a subscriber ends after the output has ended (launch_child: "the
\* channel closes when stdout hits EOF"), whatever became of the handle.
StreamEnds ==
    \A s \in Sub, i \in Inc :
        (s \in Streaming(i) /\ ~out[i].held) ~> s \notin Streaming(i)

\* The process never waits for its audience (the pump: "so the child never
\* blocks"): everything it writes is read, subscribers or not.
OutputIsDrained ==
    \A i \in Inc : out[i].pumped < out[i].wrote ~> out[i].pumped = out[i].wrote
=============================================================================
