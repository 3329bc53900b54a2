--------------------------- MODULE ControlProofs ---------------------------
(***************************************************************************)
(* The control plane, for any number of calls, peers, retries, records and *)
(* crashes, any requests and any authorization.                            *)
(***************************************************************************)
EXTENDS Control, TLAPS

\* with_retry makes max_retries attempts, but at least one.
LEMMA AttemptsBounds == Attempts \in Nat /\ Attempts >= 1
<1>1. MaxRetries \in Nat
  BY ControlAssumption
<1>2. PICK m \in {MaxRetries, 1} : \A y \in {MaxRetries, 1} : m >= y
  <2>1. CASE MaxRetries >= 1
    BY <1>1, <2>1
  <2>2. CASE ~(MaxRetries >= 1)
    BY <1>1, <2>2
  <2> QED BY <2>1, <2>2
<1>3. Max({MaxRetries, 1}) \in {MaxRetries, 1}
      /\ \A y \in {MaxRetries, 1} : Max({MaxRetries, 1}) >= y
  BY <1>2 DEF Max
<1> QED BY <1>1, <1>3 DEF Attempts

ClientType == [pc : ClientPc, req : RequestKind, peer : Peer \cup {"none"},
               attempt : Attempt, response : Response \cup {"none"}]
ConnType == [up : BOOLEAN, frame : Frame,
             handler : HandlerPc, answer : Response \cup {"none"},
             wire : Response \cup {"none"}, ran : BOOLEAN]

LEMMA IdleTypes == NoClient \in ClientType /\ NoConn \in ConnType
<1>1. 1 \in Attempt
  BY AttemptsBounds DEF Attempt
<1> QED
  BY <1>1 DEF NoClient, NoConn, ClientType, ConnType, ClientPc, RequestKind, Frame, HandlerPc

\* What dispatch may answer and do to the number of records.
LEMMA EffectsType ==
    ASSUME records \in 0 .. MaxRecords, NEW req \in RequestKind, NEW e \in Effects(req)
    PROVE  /\ e[1] \in Outcome
           /\ records + e[2] \in 0 .. MaxRecords
           /\ e[2] # 0 => req \in {"Spawn", "Forget"}
<1>m. MaxRecords \in Nat
  BY ControlAssumption
<1>1. CASE req = "Spawn"
  <2>1. e \in {<<"Failure", 0>>} \/ (records < MaxRecords /\ e = <<"Success", 1>>)
    BY <1>1 DEF Effects
  <2> QED BY <1>1, <1>m, <2>1 DEF Outcome
<1>2. CASE req = "Forget"
  <2>1. e \in {<<"Failure", 0>>} \/ (records > 0 /\ e = <<"Success", -1>>)
    BY <1>2 DEF Effects
  <2> QED BY <1>2, <1>m, <2>1 DEF Outcome
<1>3. CASE req = "List"
  <2>1. e \in {<<"TooLong", 0>>, <<"List", 0>>}
    BY <1>3 DEF Effects
  <2> QED BY <1>3, <1>m, <2>1 DEF Outcome
<1>4. CASE req \notin {"Spawn", "Forget", "List"}
  <2>1. e \in {<<"Success", 0>>, <<"Failure", 0>>}
    BY <1>4 DEF Effects
  <2> QED BY <1>4, <1>m, <2>1 DEF Outcome
<1> QED BY <1>1, <1>2, <1>3, <1>4

----------------------------------------------------------------------------
(***************************************************************************)
(* One connection, whoever is at its ends.  Honest: an outcome is the      *)
(* answer of what was executed, pipe_stdin has none before it returns, and *)
(* the wire carries the answer or nothing.                                 *)
(* Quiet: an attempt that with_retry has given up on can execute nothing   *)
(* any more.                                                               *)
(***************************************************************************)
Honest(k) ==
    /\ k.handler \in {"none", "accept", "read"} => ~k.ran /\ k.answer = "none"
    /\ k.handler = "stream" => k.ran
    /\ k.handler \in {"none", "accept", "read", "stream", "reply"} => k.wire = "none"
    /\ k.answer \in (IF k.ran THEN Outcome ELSE Rejection) \cup {"none"}
    /\ k.wire \in {"none", k.answer}

Quiet(k) ==
    /\ ~k.up /\ ~k.ran /\ k.frame = "none"
    /\ k.handler \in {"none", "accept", "ended"}

\* What a step of the handler may do to its connection.
Handles(k, to) ==
    /\ to \in ConnType
    /\ k.handler # "none"
    /\ Honest(k) => Honest(to)
    /\ Quiet(k) => Quiet(to)
    /\ Honest(k) /\ k.wire # "none" => to.wire = k.wire

\* A connection that is lost, or closed by the client.
LEMMA LostIsQuieter ==
    ASSUME NEW k \in ConnType
    PROVE  LET lost == [k EXCEPT !.up = FALSE]
           IN  /\ lost \in ConnType
               /\ ~lost.up /\ lost.wire = k.wire
               /\ Honest(k) => Honest(lost)
               /\ Quiet(k) => Quiet(lost)
<1> DEFINE lost == [k EXCEPT !.up = FALSE]
<1>1. lost \in ConnType
  BY DEF ConnType
<1>2. /\ lost.up = FALSE /\ lost.frame = k.frame /\ lost.handler = k.handler
      /\ lost.answer = k.answer /\ lost.wire = k.wire /\ lost.ran = k.ran
  BY DEF ConnType
<1> HIDE DEF lost
<1>3. /\ Honest(k) => Honest(lost)
      /\ Quiet(k) => Quiet(lost)
  BY <1>2 DEF Honest, Quiet
<1> QED BY <1>1, <1>2, <1>3 DEF lost

LEMMA EndedHandles ==
    ASSUME NEW k \in ConnType, k.handler # "none"
    PROVE  Handles(k, Ended(k)) /\ Handles(k, [Ended(k) EXCEPT !.up = FALSE])
<1> DEFINE e == Ended(k)
           d == [Ended(k) EXCEPT !.up = FALSE]
<1>1. e \in ConnType /\ d \in ConnType
  BY DEF ConnType, Frame, HandlerPc, Ended
<1>2. /\ e.handler = "ended" /\ e.frame = "none" /\ e.up = k.up
      /\ e.ran = k.ran /\ e.answer = k.answer /\ e.wire = k.wire
  BY DEF ConnType, Ended
<1>3. /\ d.handler = "ended" /\ d.frame = "none" /\ d.up = FALSE
      /\ d.ran = k.ran /\ d.answer = k.answer /\ d.wire = k.wire
  BY DEF ConnType, Ended
<1> HIDE DEF e, d
<1>4. Handles(k, e) /\ Handles(k, d)
  BY <1>1, <1>2, <1>3 DEF Handles, Honest, Quiet
<1> QED BY <1>4 DEF e, d

LEMMA AnsweringHandles ==
    ASSUME NEW k \in ConnType, NEW answer \in Rejection,
           k.handler = "read" \/ (k.handler = "accept" /\ k.frame # "none")
    PROVE  Handles(k, Answering(k, answer))
<1> DEFINE t == Answering(k, answer)
<1>1. t \in ConnType
  BY DEF ConnType, HandlerPc, Answering, Response
<1>2. /\ t.handler = "reply" /\ t.answer = answer /\ t.up = k.up /\ t.frame = k.frame
      /\ t.ran = k.ran /\ t.wire = k.wire
  BY DEF ConnType, Answering
<1> HIDE DEF t
<1>3. Handles(k, t)
  BY <1>1, <1>2 DEF Handles, Honest, Quiet, Rejection, Outcome
<1> QED BY <1>3 DEF t

Handled(c, a) ==
    /\ \E to : Handles(conn[c][a], to) /\ conn' = [conn EXCEPT ![c][a] = to]
    /\ UNCHANGED <<client, authz, crashes>>
    /\ records' \in 0 .. MaxRecords

LEMMA HandlerEffect ==
    ASSUME TypeOK, NEW c \in Call, NEW a \in Attempt,
           HandlerStep(c, a) \/ HandlerStream(c, a)
    PROVE  Handled(c, a)
<1> DEFINE k == conn[c][a]
<1>k. k \in ConnType /\ client[c].req \in RequestKind /\ records \in 0 .. MaxRecords
  BY DEF TypeOK, ConnType
<1> HIDE DEF k
<1>1. ASSUME NEW from, NEW to, Handler(c, a, from, to), Handles(k, to),
             records' \in 0 .. MaxRecords
      PROVE  Handled(c, a)
  BY <1>1 DEF Handler, Handled, k
<1>2. CASE AcceptBi(c, a)
  <2>0. k.frame # "none" /\ k.handler = "accept" /\ UNCHANGED records
    BY <1>2 DEF AcceptBi, Handler, k
  <2>1. CASE Handler(c, a, "accept", [k EXCEPT !.handler = "read"])
    <3> DEFINE t == [k EXCEPT !.handler = "read"]
    <3>1. t \in ConnType
      BY <1>k DEF ConnType, HandlerPc
    <3>2. /\ t.handler = "read" /\ t.answer = k.answer /\ t.up = k.up /\ t.frame = k.frame
          /\ t.ran = k.ran /\ t.wire = k.wire
      BY <1>k DEF ConnType
    <3> HIDE DEF t
    <3>3. Handles(k, t)
      BY <2>0, <3>1, <3>2 DEF Handles, Honest, Quiet
    <3>4. Handler(c, a, "accept", t)
      BY <2>1 DEF t
    <3> QED BY <1>1, <1>k, <2>0, <3>3, <3>4
  <2>2. CASE Handler(c, a, "accept", Answering(k, "RateLimited"))
    <3>1. Handles(k, Answering(k, "RateLimited"))
      BY <1>k, <2>0, AnsweringHandles DEF Rejection
    <3> QED BY <1>1, <1>k, <2>0, <2>2, <3>1
  <2> QED BY <1>2, <2>1, <2>2 DEF AcceptBi, k
<1>3. CASE AcceptFails(c, a) \/ Closed(c, a)
  <2>1. /\ Handler(c, a, "accept", Ended(k)) \/ Handler(c, a, "linger", Ended(k))
        /\ UNCHANGED records
    BY <1>3 DEF AcceptFails, Closed, k
  <2>2. k.handler # "none"
    BY <2>1 DEF Handler, k
  <2>3. Handles(k, Ended(k))
    BY <1>k, <2>2, EndedHandles
  <2> QED BY <1>1, <1>k, <2>1, <2>3
<1>4. CASE ReadRequest(c, a)
  <2>0. k.handler = "read" /\ k.frame # "none"
    BY <1>4 DEF ReadRequest, Handler, k
  <2>3. CASE Authorized(client[c].peer, client[c].req) /\ client[c].req = "StdinStream"
    <3> DEFINE t == [k EXCEPT !.handler = "stream", !.ran = TRUE]
    <3>1. Handler(c, a, "read", t) /\ UNCHANGED records
      BY <1>4, <2>3 DEF ReadRequest, k
    <3>2. t \in ConnType
      BY <1>k DEF ConnType, HandlerPc
    <3>3. /\ t.handler = "stream" /\ t.answer = k.answer /\ t.up = k.up /\ t.frame = k.frame
          /\ t.ran = TRUE /\ t.wire = k.wire
      BY <1>k DEF ConnType
    <3> HIDE DEF t
    <3>4. Handles(k, t)
      BY <2>0, <3>2, <3>3 DEF Handles, Honest, Quiet
    <3> QED BY <1>1, <1>k, <3>1, <3>4
  <2>1. CASE Authorized(client[c].peer, client[c].req) /\ client[c].req # "StdinStream"
    <3>1. PICK e \in Effects(client[c].req) :
             /\ Handler(c, a, "read", [Answering(k, e[1]) EXCEPT !.ran = TRUE])
             /\ records' = records + e[2]
      BY <1>4, <2>1 DEF ReadRequest, k
    <3>2. e[1] \in Outcome /\ records' \in 0 .. MaxRecords
      BY <1>k, <3>1, EffectsType
    <3> DEFINE answer == e[1]
               t == [Answering(k, answer) EXCEPT !.ran = TRUE]
    <3> HIDE DEF answer
    <3>3. answer \in Outcome
      BY <3>2 DEF answer
    <3>4. t \in ConnType
      BY <1>k, <3>3 DEF ConnType, HandlerPc, Answering, Response
    <3>5. /\ t.handler = "reply" /\ t.answer = answer /\ t.up = k.up /\ t.frame = k.frame
          /\ t.ran = TRUE /\ t.wire = k.wire
      BY <1>k DEF ConnType, Answering
    <3> HIDE DEF t
    <3>6. Handles(k, t)
      BY <2>0, <3>3, <3>4, <3>5 DEF Handles, Honest, Quiet
    <3>7. Handler(c, a, "read", t)
      BY <3>1 DEF t, answer
    <3> QED BY <1>1, <3>2, <3>6, <3>7
  <2>2. CASE ~Authorized(client[c].peer, client[c].req)
    <3>1. Handler(c, a, "read", Answering(k, "Denied")) /\ UNCHANGED records
      BY <1>4, <2>2 DEF ReadRequest, k
    <3>2. Handles(k, Answering(k, "Denied"))
      BY <1>k, <2>0, AnsweringHandles DEF Rejection
    <3> QED BY <1>1, <1>k, <3>1, <3>2
  <2> QED BY <2>1, <2>2, <2>3
<1>5. CASE ReadFails(c, a)
  <2> DEFINE answer == IF k.up THEN "Timeout" ELSE "BadRequest"
  <2>1. Handler(c, a, "read", Answering(k, answer)) /\ UNCHANGED records
    BY <1>5 DEF ReadFails, k
  <2>2. k.handler = "read"
    BY <2>1 DEF Handler, k
  <2>3. answer \in Rejection
    BY DEF Rejection
  <2> HIDE DEF answer
  <2>4. Handles(k, Answering(k, answer))
    BY <1>k, <2>2, <2>3, AnsweringHandles
  <2> QED BY <1>1, <1>k, <2>1, <2>4
<1>6. CASE Reply(c, a)
  <2>1. Handler(c, a, "reply", Replied(c, k)) /\ UNCHANGED records
    BY <1>6 DEF Reply, k
  <2>2. k.handler = "reply"
    BY <2>1 DEF Handler, k
  <2>3. CASE k.up /\ k.answer # "TooLong"
    <3>0. PICK h \in {"relay", "linger"} :
             Replied(c, k) = [k EXCEPT !.handler = h, !.wire = k.answer]
      BY <2>3 DEF Replied
    <3> DEFINE t == [k EXCEPT !.handler = h, !.wire = k.answer]
    <3>1. t \in ConnType
      BY <1>k DEF ConnType, HandlerPc
    <3>2. /\ t.handler = h /\ t.answer = k.answer /\ t.up = k.up /\ t.frame = k.frame
          /\ t.ran = k.ran /\ t.wire = k.answer
      BY <1>k DEF ConnType
    <3>3. Replied(c, k) = t
      BY <3>0
    <3> HIDE DEF t
    <3>4. Handles(k, t)
      BY <2>2, <2>3, <3>1, <3>2 DEF Handles, Honest, Quiet
    <3> QED BY <1>1, <1>k, <2>1, <3>3, <3>4
  <2>4. CASE ~(k.up /\ k.answer # "TooLong")
    <3>1. Replied(c, k) = [Ended(k) EXCEPT !.up = FALSE]
      BY <2>4 DEF Replied
    <3>2. Handles(k, Replied(c, k))
      BY <1>k, <2>2, <3>1, EndedHandles
    <3> QED BY <1>1, <1>k, <2>1, <3>2
  <2> QED BY <2>3, <2>4
<1>7. CASE PipeStdin(c, a)
  <2>1. PICK answer \in {"Success", "Failure"} : Handler(c, a, "stream", Answering(k, answer))
    BY <1>7 DEF PipeStdin, k
  <2>2. k.handler = "stream" /\ UNCHANGED records
    BY <1>7, <2>1 DEF PipeStdin, Handler, k
  <2> DEFINE t == Answering(k, answer)
  <2>3. t \in ConnType
    BY <1>k DEF ConnType, HandlerPc, Answering, Response, Outcome
  <2>4. /\ t.handler = "reply" /\ t.answer = answer /\ t.up = k.up /\ t.frame = k.frame
        /\ t.ran = k.ran /\ t.wire = k.wire
    BY <1>k DEF ConnType, Answering
  <2>5. Handler(c, a, "stream", t)
    BY <2>1
  <2> HIDE DEF t
  <2>6. Handles(k, t)
    BY <2>2, <2>3, <2>4 DEF Handles, Honest, Quiet, Outcome
  <2> QED BY <1>1, <1>k, <2>2, <2>5, <2>6
<1>8. CASE Relay(c, a)
  <2>1. k.handler = "relay" /\ UNCHANGED records
    BY <1>8 DEF Relay, Handler, k
  <2> DEFINE t == [k EXCEPT !.handler = "linger"]
  <2>2. t \in ConnType
    BY <1>k DEF ConnType, HandlerPc
  <2>3. /\ t.handler = "linger" /\ t.answer = k.answer /\ t.up = k.up /\ t.frame = k.frame
        /\ t.ran = k.ran /\ t.wire = k.wire
    BY <1>k DEF ConnType
  <2>4. Handler(c, a, "relay", t) \/ Handler(c, a, "relay", Ended(k))
    BY <1>8 DEF Relay, k
  <2> HIDE DEF t
  <2>5. Handles(k, t)
    BY <2>1, <2>2, <2>3 DEF Handles, Honest, Quiet
  <2>6. Handles(k, Ended(k))
    BY <1>k, <2>1, EndedHandles
  <2> QED BY <1>1, <1>k, <2>1, <2>4, <2>5, <2>6
<1> QED BY <1>2, <1>3, <1>4, <1>5, <1>6, <1>7, <1>8 DEF HandlerStep, HandlerStream

----------------------------------------------------------------------------
(***************************************************************************)
(* Types.                                                                  *)
(***************************************************************************)
LEMMA TypeInit == Init => TypeOK
<1> SUFFICES ASSUME Init PROVE TypeOK
  OBVIOUS
<1>1. client \in [Call -> ClientType] /\ conn \in [Call -> [Attempt -> ConnType]]
  BY IdleTypes DEF Init
<1>2. authz \in AuthzType /\ records \in 0 .. MaxRecords /\ crashes \in 0 .. MaxCrashes
  BY ControlAssumption DEF Init
<1> QED BY <1>1, <1>2 DEF TypeOK, ClientType, ConnType

\* The client after another attempt or after giving up.
LEMMA NextAttemptType ==
    ASSUME NEW c \in Call, client[c] \in ClientType
    PROVE  /\ GiveUp(c) \in ClientType
           /\ NextAttempt(c) \in ClientType
           /\ NextAttempt(c).pc \in {"dial", "failed"}
           /\ NextAttempt(c).pc = "failed" => NextAttempt(c).attempt = client[c].attempt
           /\ NextAttempt(c).pc = "dial" => NextAttempt(c).attempt = client[c].attempt + 1
<1>1. GiveUp(c) \in ClientType
  BY DEF GiveUp, ClientType, ClientPc
<1>2. CASE client[c].attempt = Attempts
  <2>1. NextAttempt(c) = [client[c] EXCEPT !.pc = "failed"]
    BY <1>2 DEF NextAttempt
  <2> QED BY <1>1, <2>1 DEF ClientType, ClientPc
<1>3. CASE client[c].attempt # Attempts
  <2>1. NextAttempt(c) = [client[c] EXCEPT !.pc = "dial", !.attempt = @ + 1]
    BY <1>3 DEF NextAttempt
  <2>2. client[c].attempt + 1 \in Attempt
    BY <1>3, AttemptsBounds DEF ClientType, Attempt
  <2> QED BY <1>1, <2>1, <2>2 DEF ClientType, ClientPc
<1> QED BY <1>2, <1>3

LEMMA TypeNext == TypeOK /\ [Next]_vars => TypeOK'
<1> SUFFICES ASSUME TypeOK, [Next]_vars PROVE TypeOK'
  OBVIOUS
<1>t. /\ client \in [Call -> ClientType] /\ conn \in [Call -> [Attempt -> ConnType]]
      /\ authz \in AuthzType /\ records \in 0 .. MaxRecords /\ crashes \in 0 .. MaxCrashes
  BY DEF TypeOK, ClientType, ConnType
<1>a. \A c \in Call : client[c].attempt \in Attempt
  BY <1>t DEF ClientType
<1>1. ASSUME client' \in [Call -> ClientType], conn' \in [Call -> [Attempt -> ConnType]],
             UNCHANGED <<authz, records, crashes>>
      PROVE  TypeOK'
  BY <1>1, <1>t DEF TypeOK, ClientType, ConnType
<1>2. ASSUME NEW c \in Call, NEW req \in Request, NEW peer \in Peer, Begin(c, req, peer)
      PROVE  TypeOK'
  <2>1. [NoClient EXCEPT !.pc = "dial", !.req = req, !.peer = peer] \in ClientType
    BY IdleTypes, ControlAssumption DEF ClientType, ClientPc
  <2> QED BY <1>1, <1>2, <1>t, <2>1 DEF Begin
<1>3. ASSUME NEW c \in Call, ClientStep(c) \/ ClientStream(c) PROVE TypeOK'
  <2>c. client[c] \in ClientType /\ Stream(c) \in ConnType
    BY <1>t, <1>a DEF Stream
  <2>1. CASE Connect(c)
    <3>1. [NoConn EXCEPT !.up = TRUE, !.handler = "accept"] \in ConnType
      BY IdleTypes DEF ConnType, HandlerPc
    <3>2. [client[c] EXCEPT !.pc = "writing"] \in ClientType
      BY <2>c DEF ClientType, ClientPc
    <3>3. client' \in [Call -> ClientType]
      BY <2>1, <1>t, <3>2 DEF Connect
    <3>4. conn' \in [Call -> [Attempt -> ConnType]]
      BY <2>1, <1>t, <1>a, <3>1 DEF Connect
    <3> QED BY <1>1, <2>1, <3>3, <3>4 DEF Connect
  <2>2. CASE ConnectFails(c)
    <3>1. [NoConn EXCEPT !.handler = "accept"] \in ConnType
      BY IdleTypes DEF ConnType, HandlerPc
    <3>2. client' \in [Call -> ClientType]
      BY <2>2, <1>t, <2>c, NextAttemptType DEF ConnectFails
    <3> DEFINE lost == [NoConn EXCEPT !.handler = "accept"]
    <3>4. UNCHANGED conn \/ conn' = [conn EXCEPT ![c][client[c].attempt] = lost]
      BY <2>2 DEF ConnectFails
    <3> HIDE DEF lost
    <3>5. lost \in ConnType
      BY <3>1 DEF lost
    <3>3. conn' \in [Call -> [Attempt -> ConnType]]
      <4>1. CASE UNCHANGED conn
        BY <1>t, <4>1
      <4>2. CASE conn' = [conn EXCEPT ![c][client[c].attempt] = lost]
        BY <1>t, <1>a, <3>5, <4>2
      <4> QED BY <3>4, <4>1, <4>2
    <3> QED BY <1>1, <2>2, <3>2, <3>3 DEF ConnectFails
  <2>3. CASE WriteFrame(c)
    <3>1. \A f \in {"part", "whole"} : [Stream(c) EXCEPT !.frame = f] \in ConnType
      BY <2>c DEF ConnType, Frame
    <3>2. PICK f \in {"part", "whole"} : conn' = [conn EXCEPT ![c][client[c].attempt].frame = f]
      BY <2>3 DEF WriteFrame
    <3>5. conn' \in [Call -> [Attempt -> ConnType]]
      BY <1>t, <1>a, <3>1, <3>2 DEF Stream
    <3>3. \A pc \in {"copy", "sent", client[c].pc} : [client[c] EXCEPT !.pc = pc] \in ClientType
      BY <2>c DEF ClientType, ClientPc
    <3>4. client' \in [Call -> ClientType]
      BY <2>3, <1>t, <3>3 DEF WriteFrame
    <3> QED BY <1>1, <2>3, <3>4, <3>5 DEF WriteFrame
  <2>4. CASE Broken(c)
    BY <1>1, <2>4, <1>t, <2>c, NextAttemptType DEF Broken
  <2>u. \A on \in BOOLEAN : [Stream(c) EXCEPT !.up = on] \in ConnType
    BY <2>c DEF ConnType
  <2>5. CASE ReadResponse(c)
    <3>1. PICK on \in BOOLEAN : conn' = [conn EXCEPT ![c][client[c].attempt].up = on]
      BY <2>5 DEF ReadResponse, Acknowledged
    <3>2. conn' \in [Call -> [Attempt -> ConnType]]
      BY <1>t, <1>a, <2>u, <3>1 DEF Stream
    <3>3. \A pc \in {"streaming", "done"} :
             [client[c] EXCEPT !.pc = pc, !.response = Stream(c).wire] \in ClientType
      BY <2>c DEF ClientType, ConnType, ClientPc
    <3>4. client' \in [Call -> ClientType]
      BY <2>5, <1>t, <2>c, <3>3, NextAttemptType DEF ReadResponse
    <3> QED BY <1>1, <2>5, <3>2, <3>4 DEF ReadResponse
  <2>6. CASE CopyInput(c)
    <3>1. [client[c] EXCEPT !.pc = "sent"] \in ClientType
      BY <2>c DEF ClientType, ClientPc
    <3>2. client' \in [Call -> ClientType]
      BY <2>6, <1>t, <2>c, <3>1, NextAttemptType DEF CopyInput
    <3>3. [Stream(c) EXCEPT !.frame = "eof"] \in ConnType
      BY <2>c DEF ConnType, Frame
    <3>4. conn' \in [Call -> [Attempt -> ConnType]]
      <4>1. CASE conn' = [conn EXCEPT ![c][client[c].attempt].frame = "eof"]
        BY <1>t, <1>a, <3>3, <4>1 DEF Stream
      <4>2. CASE conn' = [conn EXCEPT ![c][client[c].attempt].up = FALSE]
        BY <1>t, <1>a, <2>u, <4>2 DEF Stream
      <4> QED BY <2>6, <4>1, <4>2 DEF CopyInput
    <3> QED BY <1>1, <2>6, <3>2, <3>4 DEF CopyInput
  <2>7. CASE CopyOutput(c)
    <3>1. [client[c] EXCEPT !.pc = "done"] \in ClientType
      BY <2>c DEF ClientType, ClientPc
    <3>2. client' \in [Call -> ClientType]
      BY <2>7, <1>t, <2>c, <3>1, NextAttemptType DEF CopyOutput
    <3>3. conn' \in [Call -> [Attempt -> ConnType]]
      BY <2>7, <1>t, <1>a, <2>u DEF CopyOutput, Stream
    <3> QED BY <1>1, <2>7, <3>2, <3>3 DEF CopyOutput
  <2> QED BY <1>3, <2>1, <2>2, <2>3, <2>4, <2>5, <2>6, <2>7 DEF ClientStep, ClientStream
<1>4. ASSUME NEW c \in Call, NEW a \in Attempt,
             HandlerStep(c, a) \/ HandlerStream(c, a)
      PROVE  TypeOK'
  <2>1. Handled(c, a)
    BY <1>4, HandlerEffect
  <2>2. conn' \in [Call -> [Attempt -> ConnType]]
    BY <2>1, <1>t DEF Handled, Handles
  <2> QED BY <2>1, <2>2, <1>t DEF Handled, TypeOK, ClientType, ConnType
<1>5. ASSUME NEW c \in Call, NEW a \in Attempt, Lose(c, a) PROVE TypeOK'
  <2> DEFINE lost == [conn[c][a] EXCEPT !.up = FALSE]
  <2>1. lost \in ConnType
    BY <1>t, LostIsQuieter
  <2>2. conn' = [conn EXCEPT ![c][a] = lost]
    BY <1>5 DEF Lose
  <2> HIDE DEF lost
  <2>3. conn' \in [Call -> [Attempt -> ConnType]]
    BY <1>t, <2>1, <2>2
  <2> QED BY <1>1, <1>5, <1>t, <2>3 DEF Lose
<1>6. CASE Crash
  <2>1. ASSUME NEW k \in ConnType PROVE [Ended(k) EXCEPT !.up = FALSE] \in ConnType
    BY DEF ConnType, Frame, HandlerPc, Ended
  <2>2. conn' \in [Call -> [Attempt -> ConnType]]
    <3>1. ASSUME NEW c \in Call, NEW a \in Attempt
          PROVE  (IF conn[c][a].handler = "none" THEN NoConn
                  ELSE [Ended(conn[c][a]) EXCEPT !.up = FALSE]) \in ConnType
      BY <1>t, <2>1, IdleTypes
    <3> QED BY <1>6, <3>1 DEF Crash
  <2>3. crashes' \in 0 .. MaxCrashes
    BY <1>6, <1>t, ControlAssumption DEF Crash
  <2> QED BY <1>6, <1>t, <2>2, <2>3 DEF Crash, TypeOK, ClientType, ConnType
<1>7. CASE UNCHANGED vars
  BY <1>1, <1>7, <1>t DEF vars
<1> QED BY <1>2, <1>3, <1>4, <1>5, <1>6, <1>7 DEF Next

(***************************************************************************)
(* The state of clients, connections and handlers stays within its type:   *)
(* in particular with_retry never runs past its last attempt, also with    *)
(* max_retries = 0, and the number of records never leaves its range.      *)
(***************************************************************************)
THEOREM TypeCorrect == Spec => []TypeOK
<1>1. Init => TypeOK
  BY TypeInit
<1>2. TypeOK /\ [Next]_vars => TypeOK'
  BY TypeNext
<1> QED BY <1>1, <1>2, PTL DEF Spec

----------------------------------------------------------------------------
(***************************************************************************)
(* A call and its attempts.  The attempts before the current one are       *)
(* quiet, those after it have not been made, and neither has the current   *)
(* one until connect_bi; a response is what is on the current stream.      *)
(***************************************************************************)
CallInv(c) ==
    /\ \A a \in Attempt : Honest(conn[c][a])
    /\ \A a \in Attempt : a < client[c].attempt => Quiet(conn[c][a])
    /\ \A a \in Attempt : a > client[c].attempt => conn[c][a] = NoConn
    /\ client[c].pc \in {"idle", "dial"} => Stream(c) = NoConn
    /\ client[c].pc = "idle" => client[c].attempt = 1
    /\ client[c].pc \in {"streaming", "done"} =>
          client[c].response = Stream(c).wire /\ client[c].response # "none"

Inv == \A c \in Call : CallInv(c)

LEMMA InvInit == Init => Inv
<1> SUFFICES ASSUME Init, NEW c \in Call PROVE CallInv(c)
  BY DEF Inv
<1>1. client[c] = NoClient /\ \A a \in Attempt : conn[c][a] = NoConn
  BY DEF Init
<1>2. client[c].attempt = 1 /\ client[c].pc = "idle" /\ 1 \in Attempt
  BY <1>1, AttemptsBounds DEF NoClient, Attempt
<1>3. Honest(NoConn)
  BY DEF Honest, NoConn
<1> QED BY <1>1, <1>2, <1>3 DEF CallInv, Stream, Attempt

\* A step of the supervisor or the network on one connection of a call.
LEMMA ConnectionStep ==
    ASSUME TypeOK, NEW c \in Call, CallInv(c), NEW a \in Attempt, NEW to,
           client'[c] = client[c],
           \A b \in Attempt : conn'[c][b] = IF b = a THEN to ELSE conn[c][b],
           conn[c][a] # NoConn,
           Honest(conn[c][a]) => Honest(to),
           Quiet(conn[c][a]) => Quiet(to),
           Honest(conn[c][a]) /\ conn[c][a].wire # "none" => to.wire = conn[c][a].wire
    PROVE  CallInv(c)'
<1>1. client[c].attempt \in Attempt
  BY DEF TypeOK
<1>2. Stream(c)' = IF client[c].attempt = a THEN to ELSE Stream(c)
  BY <1>1 DEF Stream
<1>3. \A b \in Attempt : Honest(conn[c][b])' /\ (b < client'[c].attempt => Quiet(conn[c][b])')
  BY DEF CallInv, Honest, Quiet
<1>4. \A b \in Attempt : b > client'[c].attempt => conn'[c][b] = NoConn
  BY DEF CallInv
<1>5. client'[c].pc \in {"idle", "dial"} => Stream(c)' = NoConn
  BY <1>2 DEF CallInv, Stream
<1>6. client'[c].pc = "idle" => client'[c].attempt = 1
  BY DEF CallInv
<1>7. client'[c].pc \in {"streaming", "done"} =>
          client'[c].response = Stream(c)'.wire /\ client'[c].response # "none"
  BY <1>2 DEF CallInv, Stream
<1> QED BY <1>3, <1>4, <1>5, <1>6, <1>7 DEF CallInv

\* A step of the client, which is on one connection at most.
LEMMA ClientKeeps ==
    ASSUME TypeOK, TypeOK', NEW c \in Call, CallInv(c), ClientStep(c) \/ ClientStream(c)
    PROVE  CallInv(c)'
<1> DEFINE n == client[c].attempt
<1>t. /\ client \in [Call -> ClientType] /\ conn \in [Call -> [Attempt -> ConnType]]
      /\ client[c] \in ClientType /\ n \in Attempt /\ n \in Nat /\ Stream(c) \in ConnType
      /\ Attempt \subseteq Nat
  <2>1. client \in [Call -> ClientType] /\ conn \in [Call -> [Attempt -> ConnType]]
    BY DEF TypeOK, ClientType, ConnType
  <2>2. client[c] \in ClientType /\ n \in Attempt /\ Attempt \subseteq Nat
    BY <2>1 DEF ClientType, Attempt
  <2> QED BY <2>1, <2>2 DEF Stream
<1>c. /\ \A b \in Attempt : Honest(conn[c][b])
      /\ \A b \in Attempt : b < n => Quiet(conn[c][b])
      /\ \A b \in Attempt : b > n => conn[c][b] = NoConn
      /\ client[c].pc \in {"idle", "dial"} => Stream(c) = NoConn
  BY DEF CallInv
<1> HIDE DEF n
<1>1. CASE Connect(c)
  <2> DEFINE k == [NoConn EXCEPT !.up = TRUE, !.handler = "accept"]
  <2>1. \A b \in Attempt : conn'[c][b] = IF b = n THEN k ELSE conn[c][b]
    BY <1>1, <1>t DEF Connect, n
  <2>2. client'[c].pc = "writing" /\ client'[c].attempt = n
    BY <1>1, <1>t DEF Connect, ClientType, n
  <2>3. Honest(k)
    BY DEF NoConn, Honest
  <2> HIDE DEF k
  <2>4. \A b \in Attempt : b # n => conn'[c][b] = conn[c][b]
    BY <2>1
  <2>5. \A b \in Attempt : (b < n \/ b > n) => b # n
    BY <1>t
  <2>6. \A b \in Attempt : Honest(conn'[c][b])
    BY <1>c, <2>1, <2>3
  <2> QED BY <1>c, <2>2, <2>4, <2>5, <2>6 DEF CallInv
<1>2. CASE ConnectFails(c)
  <2> DEFINE k == [NoConn EXCEPT !.handler = "accept"]
  <2>1. client[c].pc = "dial" /\ client'[c] = NextAttempt(c)
    BY <1>2, <1>t DEF ConnectFails
  <2>2. conn[c][n] = NoConn
    BY <1>c, <2>1 DEF Stream, n
  <2>3. Honest(k) /\ Quiet(k) /\ Honest(NoConn) /\ Quiet(NoConn)
    BY DEF NoConn, Honest, Quiet
  <2>4. UNCHANGED conn \/ conn' = [conn EXCEPT ![c][n] = k]
    BY <1>2 DEF ConnectFails, n
  <2> HIDE DEF k
  <2>5. \A b \in Attempt : b # n => conn'[c][b] = conn[c][b]
    BY <1>t, <2>4
  <2>6. Honest(conn'[c][n]) /\ Quiet(conn'[c][n])
    BY <1>t, <2>2, <2>3, <2>4
  <2>7. CASE client'[c].pc = "failed"
    <3>1. client'[c].attempt = n
      BY <1>t, <2>1, <2>7, NextAttemptType DEF n
    <3> QED BY <1>t, <1>c, <2>5, <2>6, <2>7, <3>1 DEF CallInv
  <2>8. CASE client'[c].pc = "dial"
    <3>1. client'[c].attempt = n + 1
      BY <1>t, <2>1, <2>8, NextAttemptType DEF n
    <3>2. n + 1 \in Attempt
      BY <3>1 DEF TypeOK
    <3>3. Stream(c)' = NoConn
      BY <1>t, <1>c, <2>5, <3>1, <3>2 DEF Stream
    <3>4. \A b \in Attempt : b < n + 1 => b < n \/ b = n
      BY <1>t
    <3>5. \A b \in Attempt : b > n + 1 => b > n /\ b # n
      BY <1>t
    <3>6. \A b \in Attempt : Honest(conn'[c][b]) /\ (b < n + 1 => Quiet(conn'[c][b]))
      <4> SUFFICES ASSUME NEW b \in Attempt
                   PROVE  Honest(conn'[c][b]) /\ (b < n + 1 => Quiet(conn'[c][b]))
        OBVIOUS
      <4>1. CASE b = n
        BY <2>6, <4>1
      <4>2. CASE b # n
        BY <1>c, <2>5, <3>4, <4>2
      <4> QED BY <4>1, <4>2
    <3> QED BY <1>c, <2>5, <2>8, <3>1, <3>3, <3>5, <3>6 DEF CallInv
  <2> QED BY <1>t, <2>1, <2>7, <2>8, NextAttemptType
<1>3. CASE WriteFrame(c)
  <2>1. PICK f \in {"part", "whole"} : conn' = [conn EXCEPT ![c][n].frame = f]
    BY <1>3 DEF WriteFrame, n
  <2>2. client'[c].pc \in {"writing", "copy", "sent"} /\ client'[c].attempt = n
    BY <1>3, <1>t DEF WriteFrame, ClientType, n
  <2> DEFINE k == [conn[c][n] EXCEPT !.frame = f]
  <2>3. \A b \in Attempt : conn'[c][b] = IF b = n THEN k ELSE conn[c][b]
    BY <1>t, <2>1
  <2>4. /\ k.handler = conn[c][n].handler /\ k.ran = conn[c][n].ran
        /\ k.answer = conn[c][n].answer /\ k.wire = conn[c][n].wire
    BY <1>t DEF ConnType, Stream, n
  <2> HIDE DEF k
  <2>5. Honest(k)
    BY <1>t, <1>c, <2>4 DEF Honest
  <2> QED BY <1>t, <1>c, <2>2, <2>3, <2>5 DEF CallInv
<1>4. CASE Broken(c)
  <2>1. conn' = conn /\ client'[c] = GiveUp(c)
    BY <1>4, <1>t DEF Broken
  <2>2. client'[c].pc = "failed" /\ client'[c].attempt = n
    BY <1>t, <2>1 DEF GiveUp, ClientType, n
  <2> QED BY <1>c, <2>1, <2>2 DEF CallInv
<1>u. ASSUME NEW on \in BOOLEAN
      PROVE  LET k == [conn[c][n] EXCEPT !.up = on]
             IN  Honest(k) /\ k.wire = Stream(c).wire
  <2> DEFINE k == [conn[c][n] EXCEPT !.up = on]
  <2>1. /\ k.handler = conn[c][n].handler /\ k.ran = conn[c][n].ran
        /\ k.answer = conn[c][n].answer /\ k.wire = conn[c][n].wire
    BY <1>t DEF ConnType, Stream, n
  <2> HIDE DEF k
  <2>2. Honest(k) /\ k.wire = Stream(c).wire
    BY <1>t, <1>c, <2>1 DEF Honest, Stream, n
  <2> QED BY <2>2 DEF k
<1>5. CASE ReadResponse(c)
  <2>0. PICK on \in BOOLEAN : conn' = [conn EXCEPT ![c][n].up = on]
    BY <1>5 DEF ReadResponse, Acknowledged, n
  <2> DEFINE k == [conn[c][n] EXCEPT !.up = on]
  <2>1. \A b \in Attempt : conn'[c][b] = IF b = n THEN k ELSE conn[c][b]
    BY <1>t, <2>0
  <2>2. Honest(k) /\ k.wire = Stream(c).wire
    BY <1>u
  <2> HIDE DEF k
  <2>3. client'[c].attempt = n
    BY <1>5, <1>t DEF ReadResponse, GiveUp, ClientType, n
  <2>4. Stream(c)' = k
    BY <1>t, <2>1, <2>3 DEF Stream
  <2>5. \/ /\ client'[c].pc \in {"streaming", "done"}
           /\ client'[c].response = Stream(c).wire /\ Stream(c).wire # "none"
        \/ client'[c].pc = "failed"
    BY <1>5, <1>t DEF ReadResponse, GiveUp, ClientType
  <2> QED BY <1>t, <1>c, <2>1, <2>2, <2>3, <2>4, <2>5 DEF CallInv
<1>6. CASE CopyInput(c)
  <2>1. client'[c].pc \in {"sent", "failed"} /\ client'[c].attempt = n
    BY <1>6, <1>t DEF CopyInput, GiveUp, ClientType, n
  <2>2. \A b \in Attempt : b # n => conn'[c][b] = conn[c][b]
    BY <1>6, <1>t DEF CopyInput, n
  <2>3. Honest(conn'[c][n])
    <3> DEFINE k == [conn[c][n] EXCEPT !.frame = "eof"]
    <3>1. /\ k.handler = conn[c][n].handler /\ k.ran = conn[c][n].ran
          /\ k.answer = conn[c][n].answer /\ k.wire = conn[c][n].wire
      BY <1>t DEF ConnType, Stream, n
    <3>2. conn'[c][n] = k \/ conn'[c][n] = [conn[c][n] EXCEPT !.up = FALSE]
      BY <1>6, <1>t DEF CopyInput, n
    <3> HIDE DEF k
    <3>3. Honest(k)
      BY <1>t, <1>c, <3>1 DEF Honest
    <3> QED BY <1>u, <3>2, <3>3
  <2>4. \A b \in Attempt : (b < n \/ b > n) => b # n
    BY <1>t
  <2>5. \A b \in Attempt : Honest(conn'[c][b])
    BY <1>c, <2>2, <2>3
  <2> QED BY <1>c, <2>1, <2>2, <2>4, <2>5 DEF CallInv
<1>7. CASE CopyOutput(c)
  <2> DEFINE k == [conn[c][n] EXCEPT !.up = FALSE]
  <2>1. \A b \in Attempt : conn'[c][b] = IF b = n THEN k ELSE conn[c][b]
    BY <1>7, <1>t DEF CopyOutput, n
  <2>2. Honest(k) /\ k.wire = Stream(c).wire
    BY <1>u
  <2> HIDE DEF k
  <2>3. client'[c].attempt = n /\ client'[c].pc \in {"done", "failed"}
        /\ client'[c].response = client[c].response
    BY <1>7, <1>t DEF CopyOutput, GiveUp, ClientType, n
  <2>4. Stream(c)' = k
    BY <1>t, <2>1, <2>3 DEF Stream
  <2>5. client[c].response = Stream(c).wire /\ client[c].response # "none"
    BY <1>7 DEF CopyOutput, CallInv
  <2> QED BY <1>t, <1>c, <2>1, <2>2, <2>3, <2>4, <2>5 DEF CallInv
<1> QED BY <1>1, <1>2, <1>3, <1>4, <1>5, <1>6, <1>7 DEF ClientStep, ClientStream

LEMMA InvNext == TypeOK /\ Inv /\ [Next]_vars => Inv'
<1> SUFFICES ASSUME TypeOK, Inv, [Next]_vars, NEW c \in Call PROVE CallInv(c)'
  BY DEF Inv
<1>t. /\ client \in [Call -> ClientType] /\ conn \in [Call -> [Attempt -> ConnType]]
      /\ client[c].attempt \in Attempt
  BY DEF TypeOK, ClientType, ConnType
<1>p. TypeOK'
  BY TypeNext
<1>c. CallInv(c)
  BY DEF Inv
<1>1. ASSUME client'[c] = client[c], conn'[c] = conn[c] PROVE CallInv(c)'
  BY <1>1, <1>c DEF CallInv, Stream
<1>2. ASSUME NEW d \in Call, NEW req \in Request, NEW peer \in Peer, Begin(d, req, peer)
      PROVE  CallInv(c)'
  <2>1. CASE d = c
    <3>1. client[c].pc = "idle" /\ UNCHANGED conn
      BY <1>2, <2>1 DEF Begin
    <3>2. client'[c].pc = "dial" /\ client'[c].attempt = 1
      BY <1>2, <1>t, <2>1 DEF Begin, NoClient
    <3> QED BY <3>1, <3>2, <1>c DEF CallInv, Stream
  <2>2. CASE d # c
    BY <1>1, <1>2, <1>t, <2>2 DEF Begin
  <2> QED BY <2>1, <2>2
<1>3. ASSUME NEW d \in Call, ClientStep(d) \/ ClientStream(d) PROVE CallInv(c)'
  <2>1. CASE d = c
    BY <1>3, <1>p, <1>c, <2>1, ClientKeeps
  <2>2. CASE d # c
    <3>1. client'[c] = client[c]
      BY <1>3, <1>t, <2>2 DEF ClientStep, Connect, ConnectFails, WriteFrame, Broken, ReadResponse,
                              ClientStream, CopyInput, CopyOutput
    <3>2. conn'[c] = conn[c]
      BY <1>3, <1>t, <2>2 DEF ClientStep, Connect, ConnectFails, WriteFrame, Broken, ReadResponse,
                              ClientStream, CopyInput, CopyOutput
    <3> QED BY <1>1, <3>1, <3>2
  <2> QED BY <2>1, <2>2
<1>4. ASSUME NEW d \in Call, NEW a \in Attempt, HandlerStep(d, a) \/ HandlerStream(d, a)
      PROVE  CallInv(c)'
  <2>1. Handled(d, a)
    BY <1>4, HandlerEffect
  <2>2. PICK to : Handles(conn[d][a], to) /\ conn' = [conn EXCEPT ![d][a] = to]
    BY <2>1 DEF Handled
  <2>3. UNCHANGED client
    BY <2>1 DEF Handled
  <2>4. CASE d = c
    <3>1. \A b \in Attempt : conn'[c][b] = IF b = a THEN to ELSE conn[c][b]
      BY <1>t, <2>2, <2>4
    <3>2. conn[c][a] # NoConn
      BY <2>2, <2>4 DEF Handles, NoConn
    <3> QED BY <1>c, <2>2, <2>3, <2>4, <3>1, <3>2, ConnectionStep DEF Handles
  <2>5. CASE d # c
    BY <1>1, <1>t, <2>2, <2>3, <2>5
  <2> QED BY <2>4, <2>5
<1>5. ASSUME NEW d \in Call, NEW a \in Attempt, Lose(d, a) PROVE CallInv(c)'
  <2>1. UNCHANGED client /\ conn[d][a].up
    BY <1>5 DEF Lose
  <2>2. CASE d = c
    <3> DEFINE lost == [conn[c][a] EXCEPT !.up = FALSE]
    <3>1. \A b \in Attempt : conn'[c][b] = IF b = a THEN lost ELSE conn[c][b]
      BY <1>5, <1>t, <2>2 DEF Lose
    <3>2. /\ Honest(conn[c][a]) => Honest(lost)
          /\ Quiet(conn[c][a]) => Quiet(lost)
          /\ lost.wire = conn[c][a].wire
      BY <1>t, LostIsQuieter
    <3> HIDE DEF lost
    <3>3. conn[c][a] # NoConn
      BY <2>1, <2>2 DEF NoConn
    <3> QED BY <1>c, <2>1, <2>2, <3>1, <3>2, <3>3, ConnectionStep
  <2>3. CASE d # c
    BY <1>1, <1>5, <1>t, <2>3 DEF Lose
  <2> QED BY <2>2, <2>3
<1>6. CASE Crash
  <2> DEFINE after(k) == IF k.handler = "none" THEN NoConn ELSE [Ended(k) EXCEPT !.up = FALSE]
  <2>1. UNCHANGED client /\ \A b \in Attempt : conn'[c][b] = after(conn[c][b])
    BY <1>6 DEF Crash
  <2>2. after(NoConn) = NoConn /\ Honest(NoConn) /\ Quiet(NoConn)
    BY DEF NoConn, Honest, Quiet
  <2>3. ASSUME NEW b \in Attempt
        PROVE  /\ Honest(conn[c][b]) => Honest(after(conn[c][b]))
               /\ Quiet(conn[c][b]) => Quiet(after(conn[c][b]))
               /\ after(conn[c][b]).wire = conn[c][b].wire \/ conn[c][b].handler = "none"
    <3>1. conn[c][b] \in ConnType
      BY <1>t
    <3>2. CASE conn[c][b].handler = "none"
      BY <2>2, <3>2 DEF NoConn
    <3>3. CASE conn[c][b].handler # "none"
      <4>1. Handles(conn[c][b], [Ended(conn[c][b]) EXCEPT !.up = FALSE])
        BY <3>1, <3>3, EndedHandles
      <4>2. [Ended(conn[c][b]) EXCEPT !.up = FALSE].wire = conn[c][b].wire
        BY <3>1 DEF Ended, ConnType
      <4> QED BY <3>3, <4>1, <4>2 DEF Handles
    <3> QED BY <3>2, <3>3
  <2> HIDE DEF after
  <2>4. Stream(c)' = after(Stream(c))
    BY <1>t, <2>1 DEF Stream
  <2>5. \A b \in Attempt : Honest(conn'[c][b]) /\ (b < client[c].attempt => Quiet(conn'[c][b]))
    BY <1>c, <2>1, <2>3 DEF CallInv
  <2>6. \A b \in Attempt : b > client[c].attempt => conn'[c][b] = NoConn
    BY <1>c, <2>1, <2>2 DEF CallInv
  <2>7. client[c].pc \in {"idle", "dial"} => Stream(c)' = NoConn
    BY <1>c, <2>2, <2>4 DEF CallInv
  <2>8. ASSUME client[c].pc \in {"streaming", "done"}
        PROVE  client[c].response = Stream(c)'.wire
    <3>1. Stream(c).wire # "none" /\ client[c].response = Stream(c).wire /\ Honest(Stream(c))
      BY <1>c, <1>t, <2>8 DEF CallInv, Stream
    <3>2. Stream(c).handler # "none"
      BY <3>1 DEF Honest
    <3> QED BY <1>t, <2>3, <2>4, <3>1, <3>2 DEF Stream
  <2> QED BY <1>c, <2>1, <2>5, <2>6, <2>7, <2>8 DEF CallInv
<1>7. CASE UNCHANGED vars
  BY <1>1, <1>7 DEF vars
<1> QED BY <1>2, <1>3, <1>4, <1>5, <1>6, <1>7 DEF Next

LEMMA InvHolds == Spec => [](TypeOK /\ Inv)
BY TypeInit, TypeNext, InvInit, InvNext, PTL DEF Spec

\* Only the stream of the current attempt can have executed anything.
LEMMA OnlyTheCurrent ==
    ASSUME TypeOK, Inv, NEW c \in Call, NEW a \in Attempt, conn[c][a].ran
    PROVE  a = client[c].attempt
<1>1. CallInv(c) /\ client[c].attempt \in Nat /\ a \in Nat
  BY DEF Inv, TypeOK, Attempt
<1>2. ~(a < client[c].attempt)
  BY <1>1 DEF CallInv, Quiet
<1>3. ~(a > client[c].attempt)
  BY <1>1 DEF CallInv, NoConn
<1> QED BY <1>1, <1>2, <1>3

(***************************************************************************)
(* A request is executed at most once (with_retry, request, accept),       *)
(* however often the client has tried, whatever became of the connections  *)
(* and whenever the supervisor crashed.                                    *)
(***************************************************************************)
THEOREM ExecutedAtMostOnce == Spec => []AtMostOnce
<1>1. TypeOK /\ Inv => AtMostOnce
  BY OnlyTheCurrent DEF AtMostOnce
<1> QED BY <1>1, InvHolds, PTL

(***************************************************************************)
(* The user is told the truth (read_response, accept, the run_ commands):  *)
(* a success was executed and succeeded, and after a refusal by accept     *)
(* nothing has been executed on any connection of the call.                *)
(***************************************************************************)
THEOREM ReportsAreTruthful == Spec => []ReportIsTruthful
<1>1. ASSUME TypeOK, Inv PROVE ReportIsTruthful
  <2> SUFFICES ASSUME NEW c \in Call
               PROVE  /\ Report(c) = "success" =>
                            Stream(c).ran /\ Stream(c).answer \in {"Success", "List"}
                      /\ Report(c) = "refused" /\ client[c].response \in Rejection =>
                            \A a \in Attempt : ~conn[c][a].ran
    BY DEF ReportIsTruthful
  <2>1. CallInv(c) /\ client[c].attempt \in Attempt
    BY <1>1 DEF Inv, TypeOK
  <2>2. Honest(Stream(c))
    BY <2>1 DEF CallInv, Stream
  <2>3. Report(c) \in {"success", "refused"} => client[c].pc = "done"
    BY DEF Report
  <2>4. client[c].pc = "done" => client[c].response = Stream(c).answer
    BY <2>1, <2>2 DEF CallInv, Honest
  <2>5. ASSUME Report(c) = "success"
        PROVE  Stream(c).ran /\ Stream(c).answer \in {"Success", "List"}
    <3>1. client[c].response \in {"Success", "List"}
      BY <2>3, <2>5 DEF Report
    <3> QED BY <2>2, <2>3, <2>4, <2>5, <3>1 DEF Honest, Rejection
  <2>6. ASSUME Report(c) = "refused", client[c].response \in Rejection
        PROVE  \A a \in Attempt : ~conn[c][a].ran
    <3>1. ~Stream(c).ran
      BY <2>2, <2>3, <2>4, <2>6 DEF Honest, Rejection, Outcome
    <3> QED BY <1>1, <3>1, OnlyTheCurrent DEF Stream
  <2> QED BY <2>5, <2>6
<1> QED BY <1>1, InvHolds, PTL

(***************************************************************************)
(* Who may add a process to the table or forget one (authorize, dispatch): *)
(* a step that does executes the request of a peer that is in control, or  *)
(* of anyone if the supervisor is open; read rights are never enough.      *)
(***************************************************************************)
THEOREM OnlyControlWrites == Spec => OnlyControlChangesTheTable
<1> DEFINE Written == records' # records =>
              \E c \in Call, a \in Attempt :
                  /\ authz.open \/ client[c].peer \in authz.control
                  /\ ~conn[c][a].ran /\ conn'[c][a].ran
<1>1. ASSUME TypeOK, Inv, Next PROVE Written
  <2>t. conn \in [Call -> [Attempt -> ConnType]] /\ records \in 0 .. MaxRecords
    BY <1>1 DEF TypeOK, ConnType
  <2>1. ASSUME NEW c \in Call, NEW a \in Attempt, ReadRequest(c, a) PROVE Written
    <3>1. CASE Authorized(client[c].peer, client[c].req) /\ client[c].req # "StdinStream"
      <4>1. PICK e \in Effects(client[c].req) :
               /\ Handler(c, a, "read", [Answering(conn[c][a], e[1]) EXCEPT !.ran = TRUE])
               /\ records' = records + e[2]
        BY <2>1, <3>1 DEF ReadRequest
      <4>2. client[c].req \in RequestKind /\ conn[c][a] \in ConnType
        BY <1>1, <2>t DEF TypeOK
      <4>3. e[2] # 0 => client[c].req \in {"Spawn", "Forget"}
        BY <2>t, <4>2, EffectsType
      <4>4. ~conn[c][a].ran
        BY <1>1, <4>1 DEF Inv, CallInv, Honest, Handler
      <4> DEFINE answer == e[1]
      <4>5. conn' = [conn EXCEPT ![c][a] = [Answering(conn[c][a], answer) EXCEPT !.ran = TRUE]]
        BY <4>1 DEF Handler
      <4> HIDE DEF answer
      <4>6. conn'[c][a].ran
        BY <2>t, <4>2, <4>5 DEF Answering, ConnType
      <4>7. records' # records => authz.open \/ client[c].peer \in authz.control
        BY <2>t, <3>1, <4>1, <4>3 DEF Authorized, ReadOnly
      <4> QED BY <4>4, <4>6, <4>7
    <3>2. CASE ~Authorized(client[c].peer, client[c].req) \/ client[c].req = "StdinStream"
      BY <2>1, <3>2 DEF ReadRequest
    <3> QED BY <3>1, <3>2
  <2>2. ASSUME NEW c \in Call, NEW a \in Attempt,
               HandlerStep(c, a) \/ HandlerStream(c, a), ~ReadRequest(c, a)
        PROVE  UNCHANGED records
    BY <2>2 DEF HandlerStep, AcceptBi, AcceptFails, ReadFails, Reply, Closed,
                HandlerStream, PipeStdin, Relay
  <2>3. ASSUME NEW c \in Call, NEW req \in Request, NEW peer \in Peer, Begin(c, req, peer)
        PROVE  UNCHANGED records
    BY <2>3 DEF Begin
  <2>4. ASSUME NEW c \in Call, ClientStep(c) \/ ClientStream(c) PROVE UNCHANGED records
    BY <2>4 DEF ClientStep, Connect, ConnectFails, WriteFrame, Broken, ReadResponse,
                ClientStream, CopyInput, CopyOutput
  <2>5. ASSUME NEW c \in Call, NEW a \in Attempt, Lose(c, a) PROVE UNCHANGED records
    BY <2>5 DEF Lose
  <2>6. CASE Crash
    BY <2>6 DEF Crash
  <2> HIDE DEF Written
  <2>7. UNCHANGED records => Written
    BY DEF Written
  <2> QED BY <1>1, <2>1, <2>2, <2>3, <2>4, <2>5, <2>6, <2>7 DEF Next
<1>2. TypeOK /\ Inv /\ [Next]_vars => [Written]_vars
  BY <1>1
<1> QED BY <1>2, InvHolds, PTL DEF Spec, OnlyControlChangesTheTable
============================================================================
