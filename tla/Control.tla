------------------------------ MODULE Control ------------------------------
(***************************************************************************)
(* The control plane: request and with_retry of src/src/client.rs at one   *)
(* end of a connection, accept, authorize and dispatch of supervisor.rs at *)
(* the other, and the frames of proto.rs between them.  Connections are    *)
(* lost at any time and the supervisor may crash.                          *)
(*                                                                         *)
(* The rate limiter is RateLimiter, here any verdict; of the process table *)
(* only the number of records is kept, which makes the answer to List too  *)
(* long one day.  StdinStream and Subscribe carry a stream, before the      *)
(* answer and after it, which lasts as long as the user, the process and   *)
(* its other users like; what it carries is in Stdin and Stdout.           *)
(***************************************************************************)
EXTENDS Integers, FiniteSetsExt

CONSTANTS
    Call,        \* client calls
    Peer,        \* the endpoint ids they come from
    Request,     \* what they ask for: a subset of RequestKind
    Posture,     \* what the command line of the supervisor may say of authorization
    MaxRetries,  \* ClientConfig::max_retries, which may be 0
    MaxFrame,    \* records that fit in a List response
    MaxRecords,  \* bound: records in the table
    MaxCrashes   \* bound: crashes of the supervisor

RequestKind ==
    {"Spawn", "Signal", "Stop", "StdinStream", "Query", "Subscribe", "Forget", "List"}
AuthzType == [open : BOOLEAN, control : SUBSET Peer, read : SUBSET Peer]

ASSUME ControlAssumption ==
    /\ Request \subseteq RequestKind /\ Posture \subseteq AuthzType
    /\ MaxRetries \in Nat /\ MaxFrame \in Nat /\ MaxRecords \in Nat /\ MaxCrashes \in Nat

\* with_retry: at least one attempt, whatever the command line says.
Attempts == Max({MaxRetries, 1})
Attempt == 1 .. Attempts

VARIABLES
    client,      \* call -> the client
    conn,        \* call -> attempt -> the connection, its stream and its handler
    authz,       \* Supervisor::authz
    records,     \* records in the process table
    crashes      \* crashes so far

vars == <<client, conn, authz, records, crashes>>

(***************************************************************************)
(* pc: "dial" before an attempt, "writing" with an open stream, "copy"     *)
(* while stdin_stream copies its input, "sent" once all is written,        *)
(* "streaming" while subscribe copies the output, "done" with a response,  *)
(* "failed" without.                                                       *)
(***************************************************************************)
NoClient == [pc |-> "idle", req |-> "List", peer |-> "none", attempt |-> 1,
             response |-> "none"]
ClientPc == {"idle", "dial", "writing", "copy", "sent", "streaming", "done", "failed"}

(***************************************************************************)
(* up: the connection; frame: what arrived of the request, "eof" with all  *)
(* the input behind it; handler: where accept stands, "stream" in          *)
(* pipe_stdin and "relay" in the loop of subscribe; answer: what it will   *)
(* write; wire: what it wrote; ran: the execution of the request began.    *)
(***************************************************************************)
NoConn == [up |-> FALSE, frame |-> "none", handler |-> "none", answer |-> "none",
           wire |-> "none", ran |-> FALSE]
Frame == {"none", "part", "whole", "eof"}
HandlerPc == {"none", "accept", "read", "stream", "reply", "relay", "linger", "ended"}

\* The errors accept gives without executing anything, and what dispatch gives.
Rejection == {"RateLimited", "Timeout", "BadRequest", "Denied"}
Outcome == {"Success", "Failure", "List", "TooLong"}
Response == Rejection \cup Outcome

TypeOK ==
    /\ client \in [Call -> [pc : ClientPc, req : RequestKind, peer : Peer \cup {"none"},
                            attempt : Attempt, response : Response \cup {"none"}]]
    /\ conn \in [Call -> [Attempt -> [up : BOOLEAN, frame : Frame, handler : HandlerPc,
                                      answer : Response \cup {"none"},
                                      wire : Response \cup {"none"}, ran : BOOLEAN]]]
    /\ authz \in AuthzType
    /\ records \in 0 .. MaxRecords
    /\ crashes \in 0 .. MaxCrashes

\* authz_from_matches: without a choice there is no supervisor.
Configured(posture) == posture.open \/ posture.control # {} \/ posture.read # {}

Init ==
    /\ client = [c \in Call |-> NoClient]
    /\ conn = [c \in Call |-> [a \in Attempt |-> NoConn]]
    /\ authz \in {posture \in Posture : Configured(posture)}
    /\ records \in 0 .. MaxRecords
    /\ crashes = 0

----------------------------------------------------------------------------
\* The client.

\* The stream the client is on.
Stream(c) == conn[c][client[c].attempt]

Begin(c, req, peer) ==
    /\ client[c].pc = "idle"
    /\ client' = [client EXCEPT ![c] =
                    [NoClient EXCEPT !.pc = "dial", !.req = req, !.peer = peer]]
    /\ UNCHANGED <<conn, authz, records, crashes>>

\* connect_bi: the connection is there, and the supervisor runs accept for it.
Connect(c) ==
    /\ client[c].pc = "dial"
    /\ client' = [client EXCEPT ![c].pc = "writing"]
    /\ conn' = [conn EXCEPT ![c][client[c].attempt] =
                  [NoConn EXCEPT !.up = TRUE, !.handler = "accept"]]
    /\ UNCHANGED <<authz, records, crashes>>

\* A faulty with_retry that starts over after its last attempt, and one that
\* makes one attempt too many.
RetryForever(c) == [client[c] EXCEPT !.pc = "dial", !.attempt = (@ % Attempts) + 1]
RetryOnceMore(c) ==
    IF client[c].attempt > Attempts THEN [client[c] EXCEPT !.pc = "failed"]
    ELSE [client[c] EXCEPT !.pc = "dial", !.attempt = @ + 1]

\* with_retry: another attempt after a pause, or the error of the last one.
NextAttempt(c) ==
    IF client[c].attempt = Attempts THEN [client[c] EXCEPT !.pc = "failed"]
    ELSE [client[c] EXCEPT !.pc = "dial", !.attempt = @ + 1]

\* connect_bi fails, before there is a connection or when open_bi loses it.
ConnectFails(c) ==
    /\ client[c].pc = "dial"
    /\ client' = [client EXCEPT ![c] = NextAttempt(c)]
    /\ \/ UNCHANGED conn
       \/ conn' = [conn EXCEPT ![c][client[c].attempt] =
                     [NoConn EXCEPT !.handler = "accept"]]
    /\ UNCHANGED <<authz, records, crashes>>

\* write_msg: the frame arrives in parts, the first with the stream itself.
WriteFrame(c) ==
    /\ client[c].pc = "writing" /\ Stream(c).up
    /\ LET whole == Stream(c).frame = "part"
       IN  /\ conn' = [conn EXCEPT ![c][client[c].attempt].frame =
                          IF whole THEN "whole" ELSE "part"]
           /\ client' = [client EXCEPT ![c].pc =
                            IF ~whole THEN @
                            ELSE IF client[c].req = "StdinStream" THEN "copy" ELSE "sent"]
    /\ UNCHANGED <<authz, records, crashes>>

\* A faulty request that treats a lost connection as another failed attempt.
RetryAfterSend(c) == NextAttempt(c)

\* After the stream is open an error is final.
GiveUp(c) == [client[c] EXCEPT !.pc = "failed"]

\* write_msg or read_response fails: the connection is gone.
Broken(c) ==
    /\ client[c].pc \in {"writing", "sent"} /\ ~Stream(c).up
    /\ client' = [client EXCEPT ![c] = GiveUp(c)]
    /\ UNCHANGED <<conn, authz, records, crashes>>

\* stdin_stream copies its input, outside any timeout: until the input ends and
\* the stream is finished, or until it cannot be read or written any more.
CopyInput(c) ==
    /\ client[c].pc = "copy"
    /\ \/ /\ Stream(c).up
          /\ client' = [client EXCEPT ![c].pc = "sent"]
          /\ conn' = [conn EXCEPT ![c][client[c].attempt].frame = "eof"]
       \/ /\ client' = [client EXCEPT ![c] = GiveUp(c)]
          /\ conn' = [conn EXCEPT ![c][client[c].attempt].up = FALSE]
    /\ UNCHANGED <<authz, records, crashes>>

\* The Ack of a subscription, after which its output comes.
Acknowledged(c, response) == client[c].req = "Subscribe" /\ response = "Success"

\* read_response: the response, with which a subscription begins and any other
\* call ends; or its timeout.  A call that ends closes the connection.
ReadResponse(c) ==
    /\ client[c].pc = "sent" /\ Stream(c).up
    /\ \/ /\ Stream(c).wire # "none"
          /\ LET on == Acknowledged(c, Stream(c).wire)
             IN  /\ client' = [client EXCEPT ![c].pc = IF on THEN "streaming" ELSE "done",
                                             ![c].response = Stream(c).wire]
                 /\ conn' = [conn EXCEPT ![c][client[c].attempt].up = on]
       \/ /\ client' = [client EXCEPT ![c] = GiveUp(c)]
          /\ conn' = [conn EXCEPT ![c][client[c].attempt].up = FALSE]
    /\ UNCHANGED <<authz, records, crashes>>

\* subscribe copies the output, outside any timeout: to its end, once the handler
\* has finished the stream, or until it cannot be read or written any more.
CopyOutput(c) ==
    /\ client[c].pc = "streaming"
    /\ \/ /\ Stream(c).up /\ Stream(c).handler = "linger"
          /\ client' = [client EXCEPT ![c].pc = "done"]
       \/ client' = [client EXCEPT ![c] = GiveUp(c)]
    /\ conn' = [conn EXCEPT ![c][client[c].attempt].up = FALSE]
    /\ UNCHANGED <<authz, records, crashes>>

\* What run_spawn, run_list, run_query, run_signal, run_stop, run_stdin,
\* run_subscribe and run_forget tell the user.
Report(c) ==
    CASE client[c].pc = "failed" -> "error"
      [] client[c].pc = "done" ->
            IF client[c].response \in {"Success", "List"} THEN "success" ELSE "refused"
      [] OTHER -> "none"

\* The connection is lost, or the client dies.
Lose(c, a) ==
    /\ conn[c][a].up
    /\ conn' = [conn EXCEPT ![c][a].up = FALSE]
    /\ UNCHANGED <<client, authz, records, crashes>>

----------------------------------------------------------------------------
\* The handler of one connection: accept.

Handler(c, a, from, to) ==
    /\ conn[c][a].handler = from
    /\ conn' = [conn EXCEPT ![c][a] = to]
    /\ UNCHANGED <<client, authz, crashes>>

Answering(k, answer) == [k EXCEPT !.handler = "reply", !.answer = answer]
Ended(k) == [k EXCEPT !.handler = "ended", !.frame = "none"]

\* accept_bi returns once something has arrived on the stream; then comes the
\* limiter's verdict, before anything is read.
AcceptBi(c, a) ==
    /\ conn[c][a].frame # "none"
    /\ \/ Handler(c, a, "accept", [conn[c][a] EXCEPT !.handler = "read"])
       \/ Handler(c, a, "accept", Answering(conn[c][a], "RateLimited"))
    /\ UNCHANGED records

AcceptFails(c, a) ==
    /\ ~conn[c][a].up
    /\ Handler(c, a, "accept", Ended(conn[c][a]))
    /\ UNCHANGED records

\* A faulty is_read_only: forget does not touch a process.
ReadOnlyForget(req) == req \in {"List", "Query", "Subscribe", "Forget"}

\* is_read_only.
ReadOnly(req) == req \in {"List", "Query", "Subscribe"}

\* authorize.
Authorized(peer, req) ==
    authz.open \/ peer \in authz.control \/ (ReadOnly(req) /\ peer \in authz.read)

\* dispatch: what the request does to the number of records, and its answer.
Effects(req) ==
    CASE req = "Spawn" -> {<<"Failure", 0>>} \cup
                          (IF records < MaxRecords THEN {<<"Success", 1>>} ELSE {})
      [] req = "Forget" -> {<<"Failure", 0>>} \cup
                           (IF records > 0 THEN {<<"Success", -1>>} ELSE {})
      [] req = "List" -> {<<IF records > MaxFrame THEN "TooLong" ELSE "List", 0>>}
      [] OTHER -> {<<"Success", 0>>, <<"Failure", 0>>}

\* read_msg and authorize; then, for StdinStream, pipe_stdin begins, and for the
\* others dispatch, or subscribe up to its answer, follows without an await.
ReadRequest(c, a) ==
    /\ conn[c][a].frame \in {"whole", "eof"}
    /\ \/ /\ Authorized(client[c].peer, client[c].req)
          /\ client[c].req = "StdinStream"
          /\ Handler(c, a, "read", [conn[c][a] EXCEPT !.handler = "stream", !.ran = TRUE])
          /\ UNCHANGED records
       \/ /\ Authorized(client[c].peer, client[c].req)
          /\ client[c].req # "StdinStream"
          /\ \E e \in Effects(client[c].req) :
                /\ Handler(c, a, "read", [Answering(conn[c][a], e[1]) EXCEPT !.ran = TRUE])
                /\ records' = records + e[2]
       \/ /\ ~Authorized(client[c].peer, client[c].req)
          /\ Handler(c, a, "read", Answering(conn[c][a], "Denied"))
          /\ UNCHANGED records

\* pipe_stdin returns, after any time: with success once the input has ended, with
\* an error before or after.
PipeStdin(c, a) ==
    /\ \/ /\ conn[c][a].frame = "eof"
          /\ Handler(c, a, "stream", Answering(conn[c][a], "Success"))
       \/ Handler(c, a, "stream", Answering(conn[c][a], "Failure"))
    /\ UNCHANGED records

\* request_timeout: what the client wrote is late; or it will never come.
ReadFails(c, a) ==
    /\ Handler(c, a, "read",
               Answering(conn[c][a], IF conn[c][a].up THEN "Timeout" ELSE "BadRequest"))
    /\ UNCHANGED records

\* A faulty reply that turns an answer it cannot frame into a rejection.
RepliedBadRequest(c, k) ==
    IF k.up THEN [k EXCEPT !.handler = IF Acknowledged(c, k.answer) THEN "relay" ELSE "linger",
                           !.wire = IF k.answer = "TooLong" THEN "BadRequest" ELSE k.answer]
    ELSE Ended(k)

\* write_msg: refused above MAX_FRAME and on a lost connection, where accept
\* returns the error and the connection is dropped.  Behind the Ack of a
\* subscription comes its output.
Replied(c, k) ==
    IF k.up /\ k.answer # "TooLong"
    THEN [k EXCEPT !.handler = IF Acknowledged(c, k.answer) THEN "relay" ELSE "linger",
                   !.wire = k.answer]
    ELSE [Ended(k) EXCEPT !.up = FALSE]

Reply(c, a) ==
    /\ Handler(c, a, "reply", Replied(c, conn[c][a]))
    /\ UNCHANGED records

\* The loop of subscribe ends, after any time: with the output, or with the first
\* chunk it cannot write on a lost connection.
Relay(c, a) ==
    /\ \/ Handler(c, a, "relay", [conn[c][a] EXCEPT !.handler = "linger"])
       \/ /\ ~conn[c][a].up
          /\ Handler(c, a, "relay", Ended(conn[c][a]))
    /\ UNCHANGED records

\* conn.closed.
Closed(c, a) ==
    /\ ~conn[c][a].up
    /\ Handler(c, a, "linger", Ended(conn[c][a]))
    /\ UNCHANGED records

\* The supervisor crashes: its handlers and connections are gone.
Crash ==
    /\ crashes < MaxCrashes
    /\ crashes' = crashes + 1
    /\ conn' = [c \in Call |-> [a \in Attempt |->
                  IF conn[c][a].handler = "none" THEN NoConn
                  ELSE [Ended(conn[c][a]) EXCEPT !.up = FALSE]]]
    /\ UNCHANGED <<client, authz, records>>

----------------------------------------------------------------------------
ClientStep(c) ==
    Connect(c) \/ ConnectFails(c) \/ WriteFrame(c) \/ Broken(c) \/ ReadResponse(c)

HandlerStep(c, a) ==
    \/ AcceptBi(c, a) \/ AcceptFails(c, a)
    \/ ReadRequest(c, a) \/ ReadFails(c, a)
    \/ Reply(c, a) \/ Closed(c, a)

\* The ends of the streams, which nobody but their users can bring about.
ClientStream(c) == CopyInput(c) \/ CopyOutput(c)
HandlerStream(c, a) == PipeStdin(c, a) \/ Relay(c, a)

Next ==
    \/ \E c \in Call :
          \/ \E req \in Request, peer \in Peer : Begin(c, req, peer)
          \/ ClientStep(c) \/ ClientStream(c)
          \/ \E a \in Attempt :
                HandlerStep(c, a) \/ HandlerStream(c, a) \/ Lose(c, a)
    \/ Crash

Spec == Init /\ [][Next]_vars

\* The runtimes at both ends run their tasks, and timeouts end.  A stream need not:
\* an input may never end, a process may neither read nor exit.
Fairness ==
    \A c \in Call :
        /\ WF_vars(ClientStep(c))
        /\ \A a \in Attempt : WF_vars(HandlerStep(c, a))

FairSpec == Spec /\ Fairness

----------------------------------------------------------------------------
(***************************************************************************)
(* However many connections with_retry made, however they were lost and    *)
(* whether the caller learnt of it or not, a request is executed at most   *)
(* once: "once a stream is open the request is sent exactly once"          *)
(* (client.rs:71-72).                                                      *)
(***************************************************************************)
AtMostOnce ==
    \A c \in Call : \A a, b \in Attempt : conn[c][a].ran /\ conn[c][b].ran => a = b

(***************************************************************************)
(* A user can trust what the command says: "spawned", "stopped" and the    *)
(* like mean that the request was executed and succeeded; after a refusal  *)
(* by accept (rate limit, timeout, bad request, denied) nothing was        *)
(* executed on any connection of the call, so that repeating it is safe.   *)
(* Only after an error it may or may not have been.                        *)
(***************************************************************************)
ReportIsTruthful ==
    \A c \in Call :
        /\ Report(c) = "success" =>
              Stream(c).ran /\ Stream(c).answer \in {"Success", "List"}
        /\ Report(c) = "refused" /\ client[c].response \in Rejection =>
              \A a \in Attempt : ~conn[c][a].ran

(***************************************************************************)
(* The number of processes in the table changes only with the request of a *)
(* peer that has control rights: is_read_only and authorize let nobody     *)
(* else reach a request that adds a process or forgets one.  (Signals,     *)
(* stops and input, which leave that number alone, are not watched.)       *)
(***************************************************************************)
OnlyControlChangesTheTable ==
    [][records' # records =>
          \E c \in Call, a \in Attempt :
              /\ authz.open \/ client[c].peer \in authz.control
              /\ ~conn[c][a].ran /\ conn'[c][a].ran]_vars

\* A call carries a stream: the client copies, or a handler reads or relays.
Streaming(c) ==
    \/ client[c].pc \in {"copy", "streaming"}
    \/ \E a \in Attempt : conn[c][a].handler \in {"stream", "relay"}

(***************************************************************************)
(* Every call ends, with a response or an error, unless it carries a       *)
(* stream, and leaves no handler behind at the supervisor: the one that    *)
(* lingers in conn.closed() is released by the client's close, or by the   *)
(* loss of the connection.  So does a StdinStream or Subscribe whose       *)
(* stream is over; nothing is said of how long the stream lasts.           *)
(***************************************************************************)
EveryCallEnds ==
    \A c \in Call : client[c].pc # "idle" ~>
        \/ Streaming(c)
        \/ /\ client[c].pc \in {"done", "failed"}
           /\ \A a \in Attempt : conn[c][a].handler \in {"none", "ended"}
============================================================================
