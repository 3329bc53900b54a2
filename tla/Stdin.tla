------------------------------- MODULE Stdin -------------------------------
(***************************************************************************)
(* The standard input of a handle, end to end: stdin_stream of             *)
(* src/src/client.rs, the QUIC stream with its flow control, accept of     *)
(* supervisor.rs, pipe_stdin of process.rs with the lock around the        *)
(* child's stdin, and the pipe.                                            *)
(*                                                                         *)
(* A chunk is what one read returns; the chunks of a writer are numbered.  *)
(***************************************************************************)
EXTENDS Incarnations

CONSTANTS
    Writer,      \* stdin calls
    Window,      \* chunks a QUIC stream takes until its reader reads
    PipeCap,     \* chunks the pipe takes until the child reads
    Lengths      \* bound: the chunks a writer may have

ASSUME StdinAssumption == Window \in Nat \ {0} /\ PipeCap \in Nat \ {0} /\ Lengths \subseteq Nat

VARIABLES
    stdin,       \* incarnation -> its pipe and the lock around it
    calls        \* writer -> both ends of its call

vars == <<incVars, stdin, calls>>

(***************************************************************************)
(* open: the Option<ChildStdin> is Some; reads: somebody has the read      *)
(* end; line: the writer that holds the lock, then those that wait; fed:   *)
(* what was written to the pipe; eaten: how much of it the child has read. *)
(***************************************************************************)
NoStdin == [open |-> FALSE, reads |-> FALSE, line |-> <<>>, fed |-> <<>>, eaten |-> 0]
NewStdin == [NoStdin EXCEPT !.open = TRUE, !.reads = TRUE]

(***************************************************************************)
(* cpc, len: the client and the length of its input; sent, fin: chunks     *)
(* that arrived at the supervisor, and the end of the stream; read: chunks *)
(* the handler read; hpc, inc: the handler and the incarnation whose lock  *)
(* it cloned; reply: the response on the wire.                             *)
(***************************************************************************)
NoCall == [cpc |-> "idle", len |-> 0, sent |-> 0, fin |-> FALSE, read |-> 0,
           hpc |-> "idle", inc |-> 0, reply |-> "none"]

ClientPc == {"idle", "sending", "waiting", "ok", "rejected", "failed"}
HandlerPc == {"idle", "lookup", "lock", "copy", "Ack", "Error", "linger", "ended"}

TypeOK ==
    /\ IncTypeOK
    /\ stdin \in [Inc -> [open : BOOLEAN, reads : BOOLEAN, line : Seq(Writer),
                          fed : Seq(Writer \X Nat), eaten : Nat]]
    /\ calls \in [Writer -> [cpc : ClientPc, len : Nat, sent : Nat, fin : BOOLEAN,
                             read : Nat, hpc : HandlerPc, inc : 0 .. MaxInc,
                             reply : {"none", "Ack", "Error"}]]
    /\ \A i \in Inc : Len(stdin[i].fed) \in stdin[i].eaten .. stdin[i].eaten + PipeCap
    /\ \A w \in Writer :
          /\ calls[w].inc <= inc
          /\ calls[w].read <= calls[w].sent /\ calls[w].sent <= calls[w].len

Init ==
    /\ IncInit
    /\ stdin = [i \in Inc |-> NoStdin]
    /\ calls = [w \in Writer |-> NoCall]

----------------------------------------------------------------------------
\* The process.

LaunchChild ==
    /\ Launch
    /\ stdin' = [stdin EXCEPT ![inc + 1] = NewStdin]
    /\ UNCHANGED calls

\* The table lets go of the stdin of i, which closes unless a writer has a clone.
Released(i) == [stdin EXCEPT ![i].open = @ /\ stdin[i].line # <<>>]

Enter ==
    /\ UpdateTable
    /\ stdin' = CASE ~TableTakes -> Released(inc)
                  [] TableTakes /\ entry # 0 -> Released(entry)
                  [] OTHER -> stdin
    /\ UNCHANGED calls

Forget ==
    /\ ForgetEntry
    /\ stdin' = Released(entry)
    /\ UNCHANGED calls

\* The read end closes with the process, unless a descendant inherited it.
Exit ==
    /\ ProcessExit
    /\ \E kept \in BOOLEAN : stdin' = [stdin EXCEPT ![inc].reads = kept /\ @]
    /\ UNCHANGED calls

CloseStdin(i) ==
    /\ stdin[i].reads
    /\ stdin' = [stdin EXCEPT ![i].reads = FALSE]
    /\ UNCHANGED <<incVars, calls>>

Eat(i) ==
    /\ stdin[i].reads /\ stdin[i].eaten < Len(stdin[i].fed)
    /\ stdin' = [stdin EXCEPT ![i].eaten = @ + 1]
    /\ UNCHANGED <<incVars, calls>>

----------------------------------------------------------------------------
\* The client, stdin_stream.

Connected(w) == calls[w].cpc \in {"sending", "waiting"}

\* The request was sent, read and authorized.
Begin(w, len) ==
    /\ calls[w].cpc = "idle"
    /\ calls' = [calls EXCEPT ![w] =
                   [NoCall EXCEPT !.cpc = "sending", !.len = len, !.hpc = "lookup"]]
    /\ UNCHANGED <<incVars, stdin>>

\* copy: the next chunk, as far as flow control lets it.
Send(w) ==
    /\ calls[w].cpc = "sending"
    /\ calls[w].sent < calls[w].len /\ calls[w].sent < calls[w].read + Window
    /\ calls' = [calls EXCEPT ![w].sent = @ + 1]
    /\ UNCHANGED <<incVars, stdin>>

\* The end of the input: send.finish.
FinishInput(w) ==
    /\ calls[w].cpc = "sending"
    /\ calls[w].sent = calls[w].len
    /\ calls' = [calls EXCEPT ![w].fin = TRUE, ![w].cpc = "waiting"]
    /\ UNCHANGED <<incVars, stdin>>

\* The connection ends, and what has not arrived by then never does.
Disconnect(w, cpc) ==
    /\ \E sent \in calls[w].read .. calls[w].sent, fin \in BOOLEAN :
          /\ fin => calls[w].fin /\ sent = calls[w].sent
          /\ calls' = [calls EXCEPT ![w].cpc = cpc, ![w].sent = sent, ![w].fin = fin]
    /\ UNCHANGED <<incVars, stdin>>

\* read_response; the connection is closed or dropped.
TakeReply(w) ==
    /\ calls[w].cpc = "waiting" /\ calls[w].reply # "none"
    /\ Disconnect(w, IF calls[w].reply = "Ack" THEN "ok" ELSE "rejected")

\* The read timeout, which covers only the wait for the response.
ReplyTimesOut(w) ==
    /\ calls[w].cpc = "waiting"
    /\ Disconnect(w, "failed")

\* The connection is lost, or the client dies.
Lose(w) ==
    /\ calls[w].cpc = "sending"
    /\ Disconnect(w, "failed")

----------------------------------------------------------------------------
\* The handler, pipe_stdin.

Pipe(w) == stdin[calls[w].inc]

\* The lock of the entry is cloned under the table lock, then waited for.
Lookup(w) ==
    /\ calls[w].hpc = "lookup"
    /\ IF entry = 0
       THEN calls' = [calls EXCEPT ![w].hpc = "Error"] /\ UNCHANGED stdin
       ELSE /\ calls' = [calls EXCEPT ![w].hpc = "lock", ![w].inc = entry]
            /\ stdin' = [stdin EXCEPT ![entry].line = Append(@, w)]
    /\ UNCHANGED incVars

\* The lock is granted in order of arrival; a stdin that is gone is an error.
Lock(w) ==
    /\ calls[w].hpc = "lock" /\ Head(Pipe(w).line) = w
    /\ IF Pipe(w).open
       THEN calls' = [calls EXCEPT ![w].hpc = "copy"] /\ UNCHANGED stdin
       ELSE /\ calls' = [calls EXCEPT ![w].hpc = "Error"]
            /\ stdin' = [stdin EXCEPT ![calls[w].inc].line = Tail(@)]
    /\ UNCHANGED incVars

\* A faulty copy that does not wait for room.
CopyNoRoom(w) ==
    /\ calls[w].hpc = "copy"
    /\ calls[w].read < calls[w].sent /\ Pipe(w).reads
    /\ calls' = [calls EXCEPT ![w].read = @ + 1]
    /\ stdin' = [stdin EXCEPT ![calls[w].inc].fed = Append(@, <<w, calls[w].read + 1>>)]
    /\ UNCHANGED incVars

\* copy: a chunk goes into the pipe as soon as there is room for it.
Copy(w) ==
    /\ calls[w].hpc = "copy"
    /\ calls[w].read < calls[w].sent
    /\ Pipe(w).reads /\ Len(Pipe(w).fed) < Pipe(w).eaten + PipeCap
    /\ calls' = [calls EXCEPT ![w].read = @ + 1]
    /\ stdin' = [stdin EXCEPT ![calls[w].inc].fed = Append(@, <<w, calls[w].read + 1>>)]
    /\ UNCHANGED incVars

\* A faulty end that keeps stdin for the next writer after an error.
KeepOnError(w, answer) ==
    /\ calls' = [calls EXCEPT ![w].hpc = answer]
    /\ stdin' = [stdin EXCEPT ![calls[w].inc] =
                   [Pipe(w) EXCEPT !.open = (answer = "Error"), !.line = Tail(@)]]
    /\ UNCHANGED incVars

\* A faulty end that does not release the lock.
KeepLock(w, answer) ==
    /\ calls' = [calls EXCEPT ![w].hpc = answer]
    /\ stdin' = [stdin EXCEPT ![calls[w].inc].open = FALSE]
    /\ UNCHANGED incVars

\* copy returned: whatever its result, stdin is closed and the lock released.
EndCopy(w, answer) ==
    /\ calls' = [calls EXCEPT ![w].hpc = answer]
    /\ stdin' = [stdin EXCEPT ![calls[w].inc] =
                   [Pipe(w) EXCEPT !.open = FALSE, !.line = Tail(@)]]
    /\ UNCHANGED incVars

\* A faulty test that takes whatever has arrived for the whole.
Drained(w) == calls[w].read = calls[w].sent

\* The end of the client's input was read.
InputEnded(w) == calls[w].fin /\ calls[w].read = calls[w].sent

CopyEof(w) ==
    /\ calls[w].hpc = "copy" /\ InputEnded(w)
    /\ EndCopy(w, "Ack")

\* A faulty end that reports a closed pipe as success.
CopyBrokenAcks(w) ==
    /\ calls[w].hpc = "copy"
    /\ calls[w].read < calls[w].sent /\ ~Pipe(w).reads
    /\ EndCopy(w, "Ack")

\* A write fails because the child has closed its read end.
CopyBroken(w) ==
    /\ calls[w].hpc = "copy"
    /\ calls[w].read < calls[w].sent /\ ~Pipe(w).reads
    /\ EndCopy(w, "Error")

\* A read fails because the connection was lost before the end of the input.
CopyLost(w) ==
    /\ calls[w].hpc = "copy" /\ ~Connected(w)
    /\ calls[w].read = calls[w].sent /\ ~calls[w].fin
    /\ EndCopy(w, "Error")

\* accept: the response, unless the connection is gone.
Reply(w) ==
    /\ calls[w].hpc \in {"Ack", "Error"}
    /\ calls' = [calls EXCEPT ![w] =
                   IF Connected(w) THEN [@ EXCEPT !.hpc = "linger", !.reply = calls[w].hpc]
                   ELSE [@ EXCEPT !.hpc = "ended"]]
    /\ UNCHANGED <<incVars, stdin>>

\* accept: conn.closed.
Closed(w) ==
    /\ calls[w].hpc = "linger" /\ ~Connected(w)
    /\ calls' = [calls EXCEPT ![w].hpc = "ended"]
    /\ UNCHANGED <<incVars, stdin>>

----------------------------------------------------------------------------
\* The client goes on with its input, as far as there is some ...
InputStep(w) == Send(w) \/ FinishInput(w)

\* ... and waits for the response.
ReplyStep(w) == TakeReply(w) \/ ReplyTimesOut(w)

HandlerStep(w) ==
    \/ Lookup(w) \/ Lock(w) \/ Copy(w) \/ CopyEof(w) \/ CopyBroken(w) \/ CopyLost(w)
    \/ Reply(w) \/ Closed(w)

Next ==
    \/ LaunchChild \/ Enter \/ Forget \/ Exit
    \/ \E i \in Inc : CloseStdin(i) \/ Eat(i)
    \/ \E w \in Writer :
          \/ \E len \in Lengths : Begin(w, len)
          \/ InputStep(w) \/ ReplyStep(w) \/ Lose(w) \/ HandlerStep(w)

Spec == Init /\ [][Next]_vars

\* The runtime runs the handlers, and the wait for the response has a timeout.
\* Nothing makes a process read its stdin or the input of a client go on.
Fairness == \A w \in Writer : WF_vars(HandlerStep(w)) /\ WF_vars(ReplyStep(w))

FairSpec == Spec /\ Fairness

\* The best case: all input ends, and what keeps a stdin open reads it.
Cooperation ==
    /\ \A i \in Inc : WF_vars(Eat(i))
    /\ \A w \in Writer : WF_vars(InputStep(w))

CooperativeSpec == FairSpec /\ Cooperation

----------------------------------------------------------------------------
(***************************************************************************)
(* A process has one author (pipe_stdin): what it reads from its stdin is  *)
(* the beginning of the input of one client, in order and without gaps,    *)
(* whoever else waits for the lock, loses its connection or gives up.      *)
(***************************************************************************)
OneAuthor ==
    \A i \in Inc : \A k \in 1 .. Len(stdin[i].fed) :
        stdin[i].fed[k] = <<stdin[i].fed[1][1], k>>

\* Nobody but w wrote to the incarnation it found, and it wrote its whole input.
Delivered(w) ==
    /\ Len(Pipe(w).fed) = calls[w].len
    /\ calls[w].len > 0 => Pipe(w).fed[1][1] = w

(***************************************************************************)
(* An Ack means it arrived (pipe_stdin, stdin_stream): a call that         *)
(* succeeds has put its whole input into the stdin of one incarnation and  *)
(* has closed it, relaunches and other writers notwithstanding.            *)
(***************************************************************************)
AckMeansDelivered ==
    \A w \in Writer : calls[w].cpc = "ok" => Delivered(w) /\ ~Pipe(w).open

(***************************************************************************)
(* End of file is not a lie while its author is there (pipe_stdin): if a   *)
(* process that still reads its stdin is told that it ended after it was   *)
(* given some, then the whole input was delivered or the client was lost   *)
(* on the way.                                                             *)
(***************************************************************************)
EofIsHonest ==
    \A i \in Inc, w \in Writer :
        calls[w].inc = i /\ stdin[i].reads /\ ~stdin[i].open
            /\ stdin[i].fed # <<>> /\ stdin[i].fed[1][1] = w
        => Delivered(w) \/ ~Connected(w)

\* What the writer v, which holds the lock, can wait for: more input of a client
\* that is still connected, or room in a pipe that somebody can still read.
AwaitsInput(v) == calls[v].read = calls[v].sent /\ ~calls[v].fin /\ Connected(v)
AwaitsRoom(v) ==
    /\ calls[v].read < calls[v].sent
    /\ Pipe(v).reads /\ Len(Pipe(v).fed) = Pipe(v).eaten + PipeCap

(***************************************************************************)
(* The lock does not leak (pipe_stdin): whoever waits for it gets it, or   *)
(* finds its holder, again and again, in the middle of a copy that waits   *)
(* for its client or for its process.  It has no timeout, so that can be   *)
(* for ever; but a lost client, a closed read end, a stdin that is gone, a *)
(* relaunch or a forget keep nobody waiting.                               *)
(***************************************************************************)
LockIsNotLeaked ==
    \A w \in Writer :
        calls[w].hpc = "lock" ~>
            \/ calls[w].hpc # "lock"
            \/ LET v == Head(Pipe(w).line)
               IN  calls[v].hpc = "copy" /\ (AwaitsInput(v) \/ AwaitsRoom(v))

----------------------------------------------------------------------------
\* "The supervisor's final `Ack` or `Error` response is read before returning"
\* (client.rs): a stdin call comes to an end, at least when its input ends and its
\* process reads.
CallReturns == \A w \in Writer : Connected(w) ~> ~Connected(w)
============================================================================
