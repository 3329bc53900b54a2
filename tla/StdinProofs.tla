---------------------------- MODULE StdinProofs ----------------------------
(***************************************************************************)
(* The input of a handle, for any number of incarnations and writers, any  *)
(* length of their input, any window and any capacity of the pipe.         *)
(***************************************************************************)
EXTENDS Stdin, SequenceTheorems, TLAPS

PipeType == [open : BOOLEAN, reads : BOOLEAN, line : Seq(Writer),
             fed : Seq(Writer \X Nat), eaten : Nat]
CallType == [cpc : ClientPc, len : Nat, sent : Nat, fin : BOOLEAN, read : Nat,
             hpc : HandlerPc, inc : 0 .. MaxInc, reply : {"none", "Ack", "Error"}]

(***************************************************************************)
(* A pipe p holds what its one author wrote and the child has not read.    *)
(***************************************************************************)
Author(p) == p.fed[1][1]

PipeOK(p) ==
    /\ p.eaten <= Len(p.fed) /\ Len(p.fed) <= p.eaten + PipeCap
    /\ \A k \in 1 .. Len(p.fed) : p.fed[k] = <<Author(p), k>>

(***************************************************************************)
(* The call c of the author of the stdin p of incarnation i: it found this *)
(* incarnation, had the lock and has it still unless stdin is closed.      *)
(***************************************************************************)
AuthorOK(i, p, c) ==
    p.fed # <<>> =>
        /\ c.inc = i
        /\ c.hpc \notin {"idle", "lookup", "lock"}
        /\ p.open => c.hpc = "copy"

(***************************************************************************)
(* Progress(c): the two ends of a call.  Queued, Holds: the call c of w in *)
(* the line of the stdin p that it found, and at its head with the lock.   *)
(* Done: its whole input is there, and nobody can add to it.               *)
(***************************************************************************)
Progress(c) ==
    /\ c.read <= c.sent /\ c.sent <= c.len
    /\ c.cpc = "idle" => c.hpc = "idle"
    /\ c.cpc = "sending" => ~c.fin
    /\ c.fin => c.sent = c.len
    /\ c.hpc \in {"idle", "lookup", "lock"} => c.read = 0
    /\ c.hpc \in {"idle", "lookup"} => c.inc = 0

Queued(w, p) == \E k \in 1 .. Len(p.line) : p.line[k] = w

Holds(w, c, p) ==
    /\ p.open /\ p.line[1] = w
    /\ Len(p.fed) = c.read
    /\ p.fed # <<>> => Author(p) = w

Whole(w, c, p) == Len(p.fed) = c.len /\ (c.len > 0 => Author(p) = w)

Done(w, c, p) == c.inc # 0 /\ ~p.open /\ Whole(w, c, p)

CallOK(w, c, p) ==
    /\ Progress(c)
    /\ c.hpc \in {"lock", "copy"} => c.inc # 0 /\ Queued(w, p)
    /\ c.hpc = "copy" => Holds(w, c, p)
    /\ c.hpc = "Ack" \/ c.reply = "Ack" \/ c.cpc = "ok" => Done(w, c, p)
    /\ c.inc # 0 /\ p.reads /\ ~p.open /\ p.fed # <<>> /\ Author(p) = w
           => Whole(w, c, p) \/ c.cpc \notin {"sending", "waiting"}

Typed ==
    /\ IncTypeOK
    /\ stdin \in [Inc -> PipeType]
    /\ calls \in [Writer -> CallType]

Inv ==
    /\ Typed
    /\ \A i \in Inc : PipeOK(stdin[i]) /\ AuthorOK(i, stdin[i], calls[Author(stdin[i])])
    /\ \A w \in Writer : calls[w].inc <= inc /\ CallOK(w, calls[w], Pipe(w))

----------------------------------------------------------------------------
\* The steps of the handle keep their types, and incarnations only increase.
LEMMA IncStep ==
    ASSUME IncTypeOK,
           Launch \/ UpdateTable \/ ForgetEntry \/ ProcessExit \/ UNCHANGED incVars
    PROVE  IncTypeOK' /\ inc <= inc'
<1>t. inc \in 0 .. MaxInc /\ entry \in 0 .. inc /\ MaxInc \in Nat
  BY IncarnationsAssumption DEF IncTypeOK
<1>1. inc' \in 0 .. MaxInc /\ entry' \in 0 .. inc' /\ inc <= inc'
  <2>1. UpdateTable => entry' \in {0, inc}
    BY DEF UpdateTable
  <2> QED BY <1>t, <2>1 DEF Launch, UpdateTable, ForgetEntry, ProcessExit, incVars
<1>2. live' \in BOOLEAN
  BY DEF IncTypeOK, Launch, UpdateTable, ForgetEntry, ProcessExit, incVars
<1>3. pending' \in BOOLEAN
  BY DEF IncTypeOK, Launch, UpdateTable, ForgetEntry, ProcessExit, incVars
<1> QED BY <1>1, <1>2, <1>3 DEF IncTypeOK

\* What the types say of a pipe and of a call.
LEMMA PipeFacts ==
    ASSUME NEW p \in PipeType
    PROVE  /\ p.line \in Seq(Writer) /\ Len(p.line) \in Nat
           /\ p.fed \in Seq(Writer \X Nat) /\ Len(p.fed) \in Nat /\ p.eaten \in Nat
           /\ p.open \in BOOLEAN /\ p.reads \in BOOLEAN
           /\ p.fed # <<>> => Author(p) \in Writer /\ Len(p.fed) > 0
<1>1. /\ p.line \in Seq(Writer) /\ p.fed \in Seq(Writer \X Nat) /\ p.eaten \in Nat
      /\ p.open \in BOOLEAN /\ p.reads \in BOOLEAN
  BY DEF PipeType
<1>2. Len(p.line) \in Nat /\ Len(p.fed) \in Nat
  BY <1>1, LenProperties
<1>3. ASSUME p.fed # <<>> PROVE Author(p) \in Writer /\ Len(p.fed) > 0
  <2>1. Len(p.fed) > 0
    BY <1>1, <1>2, <1>3, EmptySeq
  <2>2. 1 \in 1 .. Len(p.fed)
    BY <1>2, <2>1
  <2>3. p.fed[1] \in Writer \X Nat
    BY <1>1, <2>2, ElementOfSeq
  <2> QED BY <2>1, <2>3 DEF Author
<1> QED BY <1>1, <1>2, <1>3

LEMMA CallFacts ==
    ASSUME NEW c \in CallType
    PROVE  /\ c.len \in Nat /\ c.sent \in Nat /\ c.read \in Nat /\ c.inc \in Nat
           /\ c.inc # 0 => c.inc \in Inc
<1>1. c.len \in Nat /\ c.sent \in Nat /\ c.read \in Nat /\ c.inc \in 0 .. MaxInc
  BY DEF CallType
<1> QED BY <1>1, IncarnationsAssumption DEF Inc

\* New pipes and calls are well typed.
LEMMA Fresh ==
    /\ NoStdin \in PipeType /\ NewStdin \in PipeType /\ NoCall \in CallType
    /\ <<>> \in Seq(Writer \X Nat) /\ Len(<<>>) = 0
<1>1. /\ <<>> \in Seq(Writer \X Nat) /\ <<>> \in Seq(Writer) /\ Len(<<>>) = 0
  BY EmptySeq
<1>2. ASSUME NEW e \in Seq(Writer), NEW f \in Seq(Writer \X Nat)
      PROVE  [open |-> FALSE, reads |-> FALSE, line |-> e, fed |-> f, eaten |-> 0] \in PipeType
  BY DEF PipeType
<1>3. NoStdin \in PipeType
  BY <1>1, <1>2, Zenon DEF NoStdin
<1>4. NewStdin \in PipeType
  BY <1>3 DEF NewStdin, PipeType
<1>5. NoCall \in CallType
  BY IncarnationsAssumption DEF NoCall, CallType, ClientPc, HandlerPc
<1> QED BY <1>1, <1>3, <1>4, <1>5

----------------------------------------------------------------------------
\* A call that found no incarnation depends on none.
LEMMA NoPipe ==
    ASSUME NEW w, NEW c, NEW p, NEW q, c.inc = 0, CallOK(w, c, p)
    PROVE  CallOK(w, c, q)
<1>1. Progress(c) /\ c.hpc \notin {"lock", "copy"}
  BY DEF CallOK
<1>2. ~(c.hpc = "Ack" \/ c.reply = "Ack" \/ c.cpc = "ok")
  BY DEF CallOK, Done
<1> QED BY <1>1, <1>2 DEF CallOK

\* The child reads or closes its end, or the table lets go of a pipe nobody holds.
LEMMA StillOK ==
    ASSUME NEW w, NEW c \in CallType, NEW p \in PipeType, NEW q \in PipeType,
           CallOK(w, c, p), q.line = p.line, q.fed = p.fed, q.reads => p.reads,
           q.open => p.open, p.open /\ ~q.open => q.line = <<>>,
           p.fed # <<>> /\ Author(p) = w /\ p.open => c.hpc = "copy"
    PROVE  CallOK(w, c, q)
<1>a. Author(q) = Author(p)
  BY DEF Author
<1>q. Queued(w, p) => Queued(w, q) /\ q.line # <<>>
  <2>1. Len(<<>>) = 0
    BY Fresh
  <2> QED BY <2>1 DEF Queued
<1>1. c.hpc = "copy" => Holds(w, c, q)
  BY <1>a, <1>q DEF CallOK, Holds
<1>2. c.hpc = "Ack" \/ c.reply = "Ack" \/ c.cpc = "ok" => Done(w, c, q)
  BY <1>a DEF CallOK, Done, Whole
<1>3. c.inc # 0 /\ q.reads /\ ~q.open /\ q.fed # <<>> /\ Author(q) = w
           => Whole(w, c, q) \/ c.cpc \notin {"sending", "waiting"}
  <2>1. Whole(w, c, p) => Whole(w, c, q)
    BY <1>a DEF Whole
  <2> QED BY <1>a, <1>q, <2>1 DEF CallOK
<1> QED BY <1>q, <1>1, <1>2, <1>3 DEF CallOK

(***************************************************************************)
(* The writer w at the head of the line writes, closes or leaves: the call *)
(* c of another writer u is not touched.                                   *)
(***************************************************************************)
LEMMA Bystander ==
    ASSUME NEW w, NEW u, u # w, NEW c \in CallType, NEW p \in PipeType, NEW q \in PipeType,
           CallOK(u, c, p), p.line # <<>>, p.line[1] = w, q.line \in {p.line, Tail(p.line)},
           q.reads => p.reads, ~p.open => ~q.open /\ q.fed = p.fed,
           p.open /\ ~q.open => q.fed = p.fed /\ (p.fed # <<>> => Author(p) = w)
    PROVE  CallOK(u, c, q)
<1>1. c.hpc # "copy"
  BY DEF CallOK, Holds
<1>2. Queued(u, p) => Queued(u, q)
  <2> SUFFICES ASSUME Queued(u, p), q.line = Tail(p.line) PROVE Queued(u, q)
    BY DEF Queued
  <2>1. PICK k \in 1 .. Len(p.line) : p.line[k] = u
    BY DEF Queued
  <2>2. p.line \in Seq(Writer) /\ Len(p.line) \in Nat
    BY PipeFacts
  <2>3. Len(Tail(p.line)) = Len(p.line) - 1
        /\ \A j \in 1 .. Len(Tail(p.line)) : Tail(p.line)[j] = p.line[j + 1]
    BY <2>2, HeadTailProperties
  <2>4. k # 1
    BY <2>1
  <2>5. k - 1 \in 1 .. Len(Tail(p.line)) /\ (k - 1) + 1 = k
    BY <2>1, <2>2, <2>3, <2>4
  <2>6. Tail(p.line)[k - 1] = u
    BY <2>1, <2>3, <2>5
  <2> QED BY <2>5, <2>6 DEF Queued
<1>3. ~p.open => q.fed = p.fed /\ Author(q) = Author(p) /\ ~q.open
  BY DEF Author
<1>4. c.hpc = "Ack" \/ c.reply = "Ack" \/ c.cpc = "ok" => Done(u, c, q)
  BY <1>3 DEF CallOK, Done, Whole
<1>5. c.inc # 0 /\ q.reads /\ ~q.open /\ q.fed # <<>> /\ Author(q) = u
           => Whole(u, c, q) \/ c.cpc \notin {"sending", "waiting"}
  <2>1. CASE p.open
    <3>1. q.open \/ q.fed = <<>> \/ Author(q) = w
      BY <2>1 DEF Author
    <3> QED BY <3>1
  <2>2. CASE ~p.open
    BY <1>3, <2>2 DEF CallOK, Whole
  <2> QED BY <2>1, <2>2
<1> QED BY <1>1, <1>2, <1>4, <1>5 DEF CallOK

----------------------------------------------------------------------------
\* A step of the process, the child or the table, on the stdin of incarnation i.
LEMMA PipeNext ==
    ASSUME Inv, IncTypeOK', inc <= inc', UNCHANGED calls, NEW i \in Inc, NEW p \in PipeType,
           stdin' = [stdin EXCEPT ![i] = p], PipeOK(p),
           \/ i > inc /\ p.fed = <<>>
           \/ /\ p.line = stdin[i].line /\ p.fed = stdin[i].fed
              /\ p.reads => stdin[i].reads
              /\ p.open => stdin[i].open
              /\ stdin[i].open /\ ~p.open => p.line = <<>>
    PROVE  Inv'
<1>t. /\ stdin \in [Inc -> PipeType] /\ calls \in [Writer -> CallType]
      /\ inc \in Nat /\ inc' \in Nat
  BY DEF Inv, Typed, IncTypeOK
<1>1. Typed'
  BY <1>t DEF Typed
<1>2. stdin'[i] = p /\ \A j \in Inc \ {i} : stdin'[j] = stdin[j]
  BY <1>t
<1>3. ASSUME NEW j \in Inc
      PROVE  PipeOK(stdin[j])' /\ AuthorOK(j, stdin[j], calls[Author(stdin[j])])'
  <2>0. PipeOK(stdin[j]) /\ AuthorOK(j, stdin[j], calls[Author(stdin[j])])
    BY DEF Inv
  <2>1. CASE j # i
    BY <1>2, <2>0, <2>1 DEF PipeOK, AuthorOK, Author
  <2>2. CASE j = i
    <3>1. PipeOK(stdin'[j])
      BY <1>2, <2>2
    <3>2. AuthorOK(j, stdin'[j], calls[Author(stdin'[j])])
      BY <1>2, <2>0, <2>2 DEF AuthorOK, Author
    <3> QED BY <3>1, <3>2 DEF PipeOK, AuthorOK, Author
  <2> QED BY <2>1, <2>2
<1>4. ASSUME NEW w \in Writer PROVE (calls[w].inc <= inc /\ CallOK(w, calls[w], Pipe(w)))'
  <2> DEFINE c == calls[w]
  <2>0. c \in CallType /\ c.inc <= inc /\ CallOK(w, c, stdin[c.inc]) /\ c.inc \in Nat
        /\ (c.inc # 0 => c.inc \in Inc)
    BY <1>t, CallFacts DEF Inv, Pipe
  <2>1. CallOK(w, c, stdin'[c.inc])
    <3>1. CASE c.inc = 0
      BY <2>0, <3>1, NoPipe
    <3>2. CASE c.inc # 0 /\ c.inc # i
      BY <1>2, <2>0, <3>2
    <3>3. CASE c.inc = i
      <4>1. ~(i > inc)
        BY <1>t, <2>0, <3>3
      <4>2. stdin[i].fed # <<>> /\ Author(stdin[i]) = w /\ stdin[i].open => c.hpc = "copy"
        BY DEF Inv, AuthorOK
      <4>3. stdin[i] \in PipeType /\ CallOK(w, c, stdin[i])
        BY <1>t, <2>0, <3>3
      <4> HIDE DEF c
      <4>4. CallOK(w, c, p)
        BY <2>0, <4>1, <4>2, <4>3, StillOK
      <4> QED BY <1>2, <3>3, <4>4
    <3> QED BY <3>1, <3>2, <3>3
  <2>2. c.inc <= inc'
    BY <1>t, <2>0
  <2>3. calls'[w] = c /\ Pipe(w)' = stdin'[c.inc]
    BY DEF Pipe
  <2> QED BY <2>1, <2>2, <2>3 DEF CallOK, Progress, Queued, Holds, Done, Whole, Author
<1> QED BY <1>1, <1>3, <1>4 DEF Inv

\* A step that changes the handle only, or nothing.
LEMMA HandleNext ==
    ASSUME Inv, UNCHANGED <<stdin, calls>>, IncTypeOK', inc <= inc'
    PROVE  Inv'
<1>1. 1 \in Inc /\ stdin \in [Inc -> PipeType]
  BY IncarnationsAssumption DEF Inc, Inv, Typed
<1>2. stdin[1] \in PipeType /\ PipeOK(stdin[1]) /\ stdin' = [stdin EXCEPT ![1] = stdin[1]]
  BY <1>1 DEF Inv
<1> QED BY <1>1, <1>2, PipeNext

(***************************************************************************)
(* A step of the call of w at the stdin of incarnation i, which it finds   *)
(* or has found.                                                           *)
(***************************************************************************)
LEMMA HandlerNext ==
    ASSUME Inv, UNCHANGED incVars, NEW w \in Writer, NEW c \in CallType,
           calls' = [calls EXCEPT ![w] = c], NEW i \in Inc, NEW p \in PipeType,
           stdin' = [stdin EXCEPT ![i] = p], c.inc = i, calls[w].inc \in {0, i}, i <= inc,
           CallOK(w, c, p), PipeOK(p),
           p.fed # <<>> => IF Author(p) = w THEN AuthorOK(i, p, c)
                           ELSE AuthorOK(i, p, calls[Author(p)]),
           \A u \in Writer \ {w} : calls[u].inc = i => CallOK(u, calls[u], p)
    PROVE  Inv'
<1>t. stdin \in [Inc -> PipeType] /\ calls \in [Writer -> CallType]
  BY DEF Inv, Typed
<1>u. inc' = inc
  BY DEF incVars
<1>1. Typed'
  BY <1>t DEF Inv, Typed, IncTypeOK, incVars
<1>2. stdin'[i] = p /\ \A j \in Inc \ {i} : stdin'[j] = stdin[j]
  BY <1>t
<1>3. calls'[w] = c /\ \A u \in Writer \ {w} : calls'[u] = calls[u]
  BY <1>t
<1>4. ASSUME NEW j \in Inc
      PROVE  PipeOK(stdin'[j]) /\ AuthorOK(j, stdin'[j], calls'[Author(stdin'[j])])
  <2>0. stdin[j] \in PipeType /\ PipeOK(stdin[j])
        /\ AuthorOK(j, stdin[j], calls[Author(stdin[j])])
    BY <1>t DEF Inv
  <2>1. CASE j = i
    <3>1. p.fed # <<>> => Author(p) \in Writer
      BY PipeFacts
    <3>2. AuthorOK(i, p, calls'[Author(p)])
      BY <1>3, <3>1 DEF AuthorOK
    <3> QED BY <1>2, <2>1, <3>2
  <2>2. CASE j # i
    <3>1. stdin[j].fed # <<>> => Author(stdin[j]) \in Writer
      BY <2>0, PipeFacts
    <3>2. stdin[j].fed # <<>> => calls[Author(stdin[j])].inc = j
      BY <2>0 DEF AuthorOK
    <3>3. j # 0
      BY IncarnationsAssumption DEF Inc
    <3>4. stdin[j].fed # <<>> => Author(stdin[j]) # w
      BY <2>2, <3>2, <3>3
    <3>5. AuthorOK(j, stdin[j], calls'[Author(stdin[j])])
      BY <1>3, <2>0, <3>1, <3>4 DEF AuthorOK
    <3> QED BY <1>2, <2>0, <2>2, <3>5
  <2> QED BY <2>1, <2>2
<1>5. ASSUME NEW u \in Writer
      PROVE  calls'[u].inc <= inc /\ CallOK(u, calls'[u], stdin'[calls'[u].inc])
  <2>1. CASE u = w
    BY <1>2, <1>3, <2>1
  <2>2. CASE u # w
    <3>0. /\ calls'[u] = calls[u] /\ calls[u] \in CallType /\ calls[u].inc <= inc
          /\ CallOK(u, calls[u], stdin[calls[u].inc]) /\ (calls[u].inc # 0 => calls[u].inc \in Inc)
      BY <1>t, <1>3, <2>2, CallFacts DEF Inv, Pipe
    <3>1. CASE calls[u].inc = 0
      BY <3>0, <3>1, NoPipe
    <3>2. CASE calls[u].inc = i
      BY <1>2, <2>2, <3>0, <3>2
    <3>3. CASE calls[u].inc # 0 /\ calls[u].inc # i
      BY <1>2, <3>0, <3>3
    <3> QED BY <3>1, <3>2, <3>3
  <2> QED BY <2>1, <2>2
<1>6. \A j \in Inc : PipeOK(stdin[j])' /\ AuthorOK(j, stdin[j], calls[Author(stdin[j])])'
  BY <1>4 DEF PipeOK, AuthorOK, Author
<1>7. \A u \in Writer : (calls[u].inc <= inc /\ CallOK(u, calls[u], Pipe(u)))'
  <2> SUFFICES ASSUME NEW u \in Writer
               PROVE  (calls[u].inc <= inc /\ CallOK(u, calls[u], Pipe(u)))'
    OBVIOUS
  <2>1. calls'[u].inc <= inc' /\ CallOK(u, calls'[u], Pipe(u)')
    BY <1>u, <1>5 DEF Pipe
  <2> QED BY <2>1 DEF CallOK, Progress, Queued, Holds, Done, Whole, Author
<1> QED BY <1>1, <1>6, <1>7 DEF Inv

(***************************************************************************)
(* A step of the call of w away from the pipes.                            *)
(***************************************************************************)
LEMMA CallNext ==
    ASSUME Inv, UNCHANGED <<incVars, stdin>>, NEW w \in Writer, NEW c \in CallType,
           calls' = [calls EXCEPT ![w] = c], c.inc = calls[w].inc, CallOK(w, c, Pipe(w)),
           calls[w].hpc \notin {"idle", "lookup", "lock"}
               => c.hpc \notin {"idle", "lookup", "lock"},
           calls[w].hpc = "copy" => c.hpc = "copy"
    PROVE  Inv'
<1>t. stdin \in [Inc -> PipeType] /\ calls \in [Writer -> CallType]
  BY DEF Inv, Typed
<1>u. inc' = inc /\ stdin' = stdin
  BY DEF incVars
<1>1. Typed'
  BY <1>t DEF Inv, Typed, IncTypeOK, incVars
<1>2. calls'[w] = c /\ \A u \in Writer \ {w} : calls'[u] = calls[u]
  BY <1>t
<1>3. ASSUME NEW j \in Inc
      PROVE  PipeOK(stdin[j]) /\ AuthorOK(j, stdin[j], calls'[Author(stdin[j])])
  <2>0. stdin[j] \in PipeType /\ PipeOK(stdin[j])
        /\ AuthorOK(j, stdin[j], calls[Author(stdin[j])])
    BY <1>t DEF Inv
  <2>1. stdin[j].fed # <<>> => Author(stdin[j]) \in Writer
    BY <2>0, PipeFacts
  <2>2. AuthorOK(j, stdin[j], calls'[Author(stdin[j])])
    BY <1>2, <2>0, <2>1 DEF AuthorOK
  <2> QED BY <2>0, <2>2
<1>4. ASSUME NEW u \in Writer
      PROVE  calls'[u].inc <= inc /\ CallOK(u, calls'[u], stdin[calls'[u].inc])
  BY <1>2 DEF Inv, Pipe
<1>5. \A j \in Inc : PipeOK(stdin[j])' /\ AuthorOK(j, stdin[j], calls[Author(stdin[j])])'
  <2> SUFFICES ASSUME NEW j \in Inc
               PROVE  (PipeOK(stdin[j]) /\ AuthorOK(j, stdin[j], calls[Author(stdin[j])]))'
    OBVIOUS
  <2>1. PipeOK(stdin'[j]) /\ AuthorOK(j, stdin'[j], calls'[Author(stdin'[j])])
    BY <1>u, <1>3
  <2> QED BY <2>1 DEF PipeOK, AuthorOK, Author
<1>6. \A u \in Writer : (calls[u].inc <= inc /\ CallOK(u, calls[u], Pipe(u)))'
  <2> SUFFICES ASSUME NEW u \in Writer
               PROVE  (calls[u].inc <= inc /\ CallOK(u, calls[u], Pipe(u)))'
    OBVIOUS
  <2>1. calls'[u].inc <= inc' /\ CallOK(u, calls'[u], Pipe(u)')
    BY <1>u, <1>4 DEF Pipe
  <2> QED BY <2>1 DEF CallOK, Progress, Queued, Holds, Done, Whole, Author
<1> QED BY <1>1, <1>5, <1>6 DEF Inv

----------------------------------------------------------------------------
\* A pipe is closed at one end, and otherwise stays as it is.
LEMMA CloseNext ==
    ASSUME Inv, IncTypeOK', inc <= inc', UNCHANGED calls, NEW i \in Inc,
           NEW open \in BOOLEAN, NEW reads \in BOOLEAN,
           open => stdin[i].open, reads => stdin[i].reads,
           stdin[i].open /\ ~open => stdin[i].line = <<>>,
           stdin' = [stdin EXCEPT ![i] = [stdin[i] EXCEPT !.open = open, !.reads = reads]]
    PROVE  Inv'
<1> DEFINE p == [stdin[i] EXCEPT !.open = open, !.reads = reads]
<1>1. stdin[i] \in PipeType /\ PipeOK(stdin[i])
  BY DEF Inv, Typed
<1>2. p \in PipeType
  BY <1>1 DEF PipeType
<1>3. /\ p.open = open /\ p.reads = reads /\ p.line = stdin[i].line /\ p.fed = stdin[i].fed
      /\ p.eaten = stdin[i].eaten
  BY <1>1 DEF PipeType
<1>4. stdin' = [stdin EXCEPT ![i] = p]
  OBVIOUS
<1> HIDE DEF p
<1>5. PipeOK(p)
  BY <1>1, <1>3 DEF PipeOK, Author
<1> QED BY <1>2, <1>3, <1>4, <1>5, PipeNext

\* The table lets go of the stdin of i.
LEMMA ReleasedNext ==
    ASSUME Inv, IncTypeOK', inc <= inc', UNCHANGED calls, NEW i \in Inc, stdin' = Released(i)
    PROVE  Inv'
<1> DEFINE open == stdin[i].open /\ stdin[i].line # <<>>
           reads == stdin[i].reads
<1>1. stdin[i] \in PipeType /\ stdin \in [Inc -> PipeType]
  BY DEF Inv, Typed
<1>2. open \in BOOLEAN /\ reads \in BOOLEAN
  BY <1>1, PipeFacts
<1>3. [stdin[i] EXCEPT !.open = open, !.reads = reads] = [stdin[i] EXCEPT !.open = open]
  BY <1>1 DEF PipeType
<1>4. stdin' = [stdin EXCEPT ![i] = [stdin[i] EXCEPT !.open = open]]
  BY DEF Released
<1>5. stdin' = [stdin EXCEPT ![i] = [stdin[i] EXCEPT !.open = open, !.reads = reads]]
  BY <1>3, <1>4
<1>6. (open => stdin[i].open) /\ (reads => stdin[i].reads)
      /\ (stdin[i].open /\ ~open => stdin[i].line = <<>>)
  OBVIOUS
<1> HIDE DEF open, reads
<1> QED BY <1>2, <1>5, <1>6, CloseNext

\* The process, the child and the table, one step per action.
LEMMA ProcessNext ==
    ASSUME Inv, LaunchChild \/ Enter \/ Forget \/ Exit \/ \E i \in Inc : CloseStdin(i) \/ Eat(i)
    PROVE  Inv'
<1>t. /\ stdin \in [Inc -> PipeType] /\ IncTypeOK /\ inc \in 0 .. MaxInc /\ entry \in 0 .. inc
      /\ MaxInc \in Nat /\ Inc = 1 .. MaxInc
  BY IncarnationsAssumption DEF Inv, Typed, IncTypeOK, Inc
<1>u. UNCHANGED incVars => IncTypeOK' /\ inc <= inc'
  BY <1>t, IncStep
<1>1. CASE LaunchChild
  <2>1. IncTypeOK' /\ inc <= inc'
    BY <1>1, <1>t, IncStep DEF LaunchChild
  <2>2. inc + 1 \in Inc /\ inc + 1 > inc
    BY <1>1, <1>t DEF LaunchChild, Launch
  <2>3. NewStdin \in PipeType /\ Len(<<>>) = 0
    BY Fresh
  <2>4. NewStdin.fed = <<>> /\ NewStdin.eaten = 0
    BY DEF NewStdin, NoStdin
  <2>5. PipeOK(NewStdin)
    <3>1. Len(NewStdin.fed) = 0
      BY <2>3, <2>4
    <3> QED BY <2>4, <3>1, StdinAssumption DEF PipeOK
  <2> QED BY <1>1, <2>1, <2>2, <2>3, <2>4, <2>5, PipeNext DEF LaunchChild
<1>2. CASE Enter
  <2>1. IncTypeOK' /\ inc <= inc'
    BY <1>2, <1>t, IncStep DEF Enter
  <2>2. ASSUME NEW i \in 0 .. MaxInc, stdin' = Released(i) PROVE Inv'
    <3>1. CASE i = 0
      <4>1. Released(0) = stdin
        BY <1>t DEF Released
      <4> QED BY <1>2, <2>1, <2>2, <3>1, <4>1, HandleNext DEF Enter
    <3>2. CASE i # 0
      <4>1. i \in Inc
        BY <1>t, <3>2
      <4> QED BY <1>2, <2>1, <2>2, <4>1, ReleasedNext DEF Enter
    <3> QED BY <3>1, <3>2
  <2>3. CASE ~TableTakes
    <3>1. stdin' = Released(inc)
      BY <1>2, <2>3 DEF Enter
    <3> QED BY <1>t, <2>2, <3>1
  <2>4. CASE TableTakes /\ entry # 0
    <3>1. stdin' = Released(entry)
      BY <1>2, <2>4 DEF Enter
    <3>2. entry \in 0 .. MaxInc
      BY <1>t
    <3> QED BY <2>2, <3>1, <3>2
  <2>5. CASE TableTakes /\ entry = 0
    <3>1. stdin' = stdin
      BY <1>2, <2>5 DEF Enter
    <3> QED BY <1>2, <2>1, <3>1, HandleNext DEF Enter
  <2> QED BY <2>3, <2>4, <2>5
<1>3. CASE Forget
  <2>1. IncTypeOK' /\ inc <= inc'
    BY <1>3, <1>t, IncStep DEF Forget
  <2>2. entry \in Inc
    BY <1>3, <1>t DEF Forget, ForgetEntry
  <2> QED BY <1>3, <2>1, <2>2, ReleasedNext DEF Forget
<1>4. ASSUME NEW i \in Inc, UNCHANGED calls, IncTypeOK', inc <= inc',
             stdin' = [stdin EXCEPT ![i].reads = FALSE]
      PROVE  Inv'
  <2>1. stdin[i] \in PipeType /\ stdin[i].open \in BOOLEAN
    BY <1>t, PipeFacts
  <2>2. [stdin[i] EXCEPT !.open = stdin[i].open, !.reads = FALSE]
            = [stdin[i] EXCEPT !.reads = FALSE]
    BY <2>1 DEF PipeType
  <2>3. stdin' = [stdin EXCEPT ![i] = [stdin[i] EXCEPT !.open = stdin[i].open, !.reads = FALSE]]
    BY <1>4, <2>2
  <2> QED BY <1>4, <2>1, <2>3, CloseNext
<1>5. CASE Exit
  <2>1. IncTypeOK' /\ inc <= inc'
    BY <1>5, <1>t, IncStep DEF Exit
  <2>2. CASE inc = 0
    <3>1. stdin' = stdin
      BY <1>t, <1>5, <2>2 DEF Exit
    <3> QED BY <1>5, <2>1, <3>1, HandleNext DEF Exit
  <2>3. CASE inc # 0
    <3>1. inc \in Inc
      BY <1>t, <2>3
    <3>2. PICK kept \in BOOLEAN : stdin' = [stdin EXCEPT ![inc].reads = kept /\ @]
      BY <1>5 DEF Exit
    <3>3. CASE kept
      <4>1. stdin[inc] \in PipeType /\ stdin[inc].reads \in BOOLEAN
        BY <1>t, <3>1, PipeFacts
      <4>2. (kept /\ stdin[inc].reads) = stdin[inc].reads
        BY <3>3, <4>1
      <4>3. stdin' = [stdin EXCEPT ![inc].reads = stdin[inc].reads]
        BY <3>2, <4>2
      <4>4. stdin' = stdin
        BY <1>t, <3>1, <4>1, <4>3 DEF PipeType
      <4> QED BY <1>5, <2>1, <4>4, HandleNext DEF Exit
    <3>4. CASE ~kept
      <4>1. stdin' = [stdin EXCEPT ![inc].reads = FALSE]
        BY <3>2, <3>4
      <4> QED BY <1>4, <1>5, <2>1, <3>1, <4>1 DEF Exit
    <3> QED BY <3>3, <3>4
  <2> QED BY <2>2, <2>3
<1>6. ASSUME NEW i \in Inc, CloseStdin(i) PROVE Inv'
  BY <1>4, <1>6, <1>u DEF CloseStdin
<1>7. ASSUME NEW i \in Inc, Eat(i) PROVE Inv'
  <2> DEFINE p == [stdin[i] EXCEPT !.eaten = stdin[i].eaten + 1]
  <2>1. /\ stdin[i] \in PipeType /\ PipeOK(stdin[i]) /\ stdin[i].eaten < Len(stdin[i].fed)
        /\ stdin[i].eaten \in Nat /\ Len(stdin[i].fed) \in Nat
    <3>1. stdin[i] \in PipeType /\ PipeOK(stdin[i])
      BY <1>t DEF Inv
    <3>2. stdin[i].eaten \in Nat /\ Len(stdin[i].fed) \in Nat
      BY <3>1, PipeFacts
    <3>3. stdin[i].eaten < Len(stdin[i].fed)
      BY <1>7 DEF Eat
    <3> QED BY <3>1, <3>2, <3>3
  <2>2. p \in PipeType
    <3>1. stdin[i] \in PipeType /\ stdin[i].eaten + 1 \in Nat
      BY <2>1
    <3> QED BY <3>1 DEF PipeType
  <2>3. /\ p.open = stdin[i].open /\ p.reads = stdin[i].reads /\ p.line = stdin[i].line
        /\ p.fed = stdin[i].fed /\ p.eaten = stdin[i].eaten + 1
    BY <2>1 DEF PipeType
  <2>4. stdin' = [stdin EXCEPT ![i] = p]
    BY <1>7 DEF Eat
  <2> HIDE DEF p
  <2>5. p.eaten <= Len(p.fed) /\ Len(p.fed) <= p.eaten + PipeCap
    <3>1. Len(stdin[i].fed) <= stdin[i].eaten + PipeCap
      BY <2>1 DEF PipeOK
    <3> QED BY <2>1, <2>3, <3>1, StdinAssumption
  <2>6. PipeOK(p)
    BY <2>1, <2>3, <2>5 DEF PipeOK, Author
  <2> QED BY <1>7, <1>u, <2>2, <2>3, <2>4, <2>6, PipeNext DEF Eat
<1> QED BY <1>1, <1>2, <1>3, <1>5, <1>6, <1>7

----------------------------------------------------------------------------
(***************************************************************************)
(* The client's end of a call: cpc, sent and fin change.                   *)
(***************************************************************************)
LEMMA ClientEnd ==
    ASSUME NEW w, NEW c \in CallType, NEW d \in CallType, NEW p, CallOK(w, c, p),
           d.len = c.len, d.read = c.read, d.hpc = c.hpc, d.inc = c.inc, d.reply = c.reply,
           c.cpc # "idle", d.cpc # "idle",
           d.read <= d.sent, d.sent <= d.len, d.fin => d.sent = d.len,
           d.cpc = "sending" => c.cpc = "sending" /\ ~d.fin,
           d.cpc = "waiting" => c.cpc \in {"sending", "waiting"},
           d.cpc = "ok" => c.reply = "Ack"
    PROVE  CallOK(w, d, p)
<1>1. Progress(d)
  BY DEF CallOK, Progress
<1>2. Holds(w, c, p) => Holds(w, d, p)
  BY DEF Holds
<1>3. Whole(w, c, p) => Whole(w, d, p)
  BY DEF Whole
<1>4. Done(w, c, p) => Done(w, d, p)
  BY <1>3 DEF Done
<1> QED BY <1>1, <1>2, <1>3, <1>4 DEF CallOK

LEMMA ClientNext ==
    ASSUME Inv, NEW w \in Writer,
           InputStep(w) \/ ReplyStep(w) \/ Lose(w) \/ \E len \in Lengths : Begin(w, len)
    PROVE  Inv'
<1> DEFINE c == calls[w]
<1>t. /\ c \in CallType /\ CallOK(w, c, Pipe(w)) /\ Progress(c)
      /\ c.len \in Nat /\ c.sent \in Nat /\ c.read \in Nat
  <2>1. c \in CallType /\ CallOK(w, c, Pipe(w))
    BY DEF Inv, Typed
  <2> QED BY <2>1, CallFacts DEF CallOK
<1>p. c.read <= c.sent /\ c.sent <= c.len
  BY <1>t DEF Progress
<1>1. CASE Send(w)
  <2> DEFINE d == [c EXCEPT !.sent = c.sent + 1]
  <2>1. UNCHANGED <<incVars, stdin>> /\ calls' = [calls EXCEPT ![w] = d]
        /\ c.cpc = "sending" /\ c.sent < c.len
    BY <1>1 DEF Send
  <2>f. ~c.fin
    BY <1>t, <2>1 DEF Progress
  <2> HIDE DEF c
  <2>2. d \in CallType
    BY <1>t DEF CallType
  <2>3. /\ d.cpc = c.cpc /\ d.len = c.len /\ d.sent = c.sent + 1 /\ d.fin = c.fin
        /\ d.read = c.read /\ d.hpc = c.hpc /\ d.inc = c.inc /\ d.reply = c.reply
    BY <1>t DEF CallType
  <2> HIDE DEF d
  <2>4. d.read <= d.sent /\ d.sent <= d.len
    BY <1>t, <1>p, <2>1, <2>3
  <2>5. CallOK(w, d, Pipe(w))
    BY <1>t, <2>1, <2>2, <2>3, <2>4, <2>f, ClientEnd
  <2> QED BY <2>1, <2>2, <2>3, <2>5, CallNext DEF c
<1>2. CASE FinishInput(w)
  <2> DEFINE d == [c EXCEPT !.fin = TRUE, !.cpc = "waiting"]
  <2>1. UNCHANGED <<incVars, stdin>> /\ calls' = [calls EXCEPT ![w] = d]
        /\ c.cpc = "sending" /\ c.sent = c.len
    BY <1>2 DEF FinishInput
  <2> HIDE DEF c
  <2>2. d \in CallType
    BY <1>t DEF CallType, ClientPc
  <2>3. /\ d.cpc = "waiting" /\ d.len = c.len /\ d.sent = c.sent
        /\ d.read = c.read /\ d.hpc = c.hpc /\ d.inc = c.inc /\ d.reply = c.reply
    BY <1>t DEF CallType
  <2> HIDE DEF d
  <2>5. CallOK(w, d, Pipe(w))
    BY <1>t, <1>p, <2>1, <2>2, <2>3, ClientEnd
  <2> QED BY <2>1, <2>2, <2>3, <2>5, CallNext DEF c
<1>3. ASSUME NEW cpc \in {"ok", "rejected", "failed"}, Disconnect(w, cpc), c.cpc # "idle",
             cpc = "ok" => c.reply = "Ack"
      PROVE  Inv'
  <2>0. PICK sent \in c.read .. c.sent, fin \in BOOLEAN :
          /\ fin => c.fin /\ sent = c.sent
          /\ calls' = [calls EXCEPT ![w].cpc = cpc, ![w].sent = sent, ![w].fin = fin]
    BY <1>3 DEF Disconnect
  <2> DEFINE d == [c EXCEPT !.cpc = cpc, !.sent = sent, !.fin = fin]
  <2>1. UNCHANGED <<incVars, stdin>> /\ calls' = [calls EXCEPT ![w] = d]
    BY <1>3, <2>0 DEF Disconnect
  <2>f. fin => sent = c.len
    BY <1>t, <2>0 DEF Progress
  <2>s. sent \in Nat /\ c.read <= sent /\ sent <= c.len
    BY <1>t, <1>p, <2>0
  <2>c. c.cpc # "idle" /\ (cpc = "ok" => c.reply = "Ack")
    BY <1>3
  <2> HIDE DEF c
  <2>2. d \in CallType
    BY <1>t, <2>s DEF CallType, ClientPc
  <2>3. /\ d.cpc = cpc /\ d.len = c.len /\ d.sent = sent /\ d.fin = fin
        /\ d.read = c.read /\ d.hpc = c.hpc /\ d.inc = c.inc /\ d.reply = c.reply
    BY <1>t DEF CallType
  <2> HIDE DEF d
  <2>5. CallOK(w, d, Pipe(w))
    BY <1>t, <2>c, <2>f, <2>s, <2>2, <2>3, ClientEnd
  <2> QED BY <2>1, <2>2, <2>3, <2>5, CallNext DEF c
<1>4. CASE TakeReply(w)
  BY <1>3, <1>4 DEF TakeReply
<1>5. CASE ReplyTimesOut(w)
  BY <1>3, <1>5 DEF ReplyTimesOut
<1>6. CASE Lose(w)
  BY <1>3, <1>6 DEF Lose
<1>7. ASSUME NEW len \in Lengths, Begin(w, len) PROVE Inv'
  <2> DEFINE d == [NoCall EXCEPT !.cpc = "sending", !.len = len, !.hpc = "lookup"]
  <2>1. UNCHANGED <<incVars, stdin>> /\ calls' = [calls EXCEPT ![w] = d] /\ c.cpc = "idle"
    BY <1>7 DEF Begin
  <2>2. d \in CallType
    <3>1. len \in Nat /\ NoCall \in CallType
      BY StdinAssumption, Fresh
    <3> QED BY <3>1 DEF CallType, ClientPc, HandlerPc
  <2>3. /\ d.cpc = "sending" /\ d.len = len /\ d.sent = 0 /\ ~d.fin
        /\ d.read = 0 /\ d.hpc = "lookup" /\ d.inc = 0 /\ d.reply = "none"
    BY DEF NoCall
  <2>4. c.hpc = "idle" /\ c.inc = 0
    BY <1>t, <2>1 DEF Progress
  <2> HIDE DEF c, d
  <2>5. Progress(d)
    <3>1. len \in Nat
      BY StdinAssumption
    <3> QED BY <2>3, <3>1 DEF Progress
  <2>6. CallOK(w, d, Pipe(w))
    BY <2>3, <2>5 DEF CallOK
  <2> QED BY <2>1, <2>2, <2>3, <2>4, <2>6, CallNext DEF c
<1> QED BY <1>1, <1>2, <1>4, <1>5, <1>6, <1>7 DEF InputStep, ReplyStep

----------------------------------------------------------------------------
\* The handler answers, or ends with the connection.
LEMMA AnswerNext ==
    ASSUME Inv, NEW w \in Writer, Reply(w) \/ Closed(w)
    PROVE  Inv'
<1> DEFINE c == calls[w]
<1>t. c \in CallType /\ CallOK(w, c, Pipe(w)) /\ c.hpc \in {"Ack", "Error", "linger"}
  BY DEF Inv, Typed, Reply, Closed
<1>1. ASSUME NEW hpc \in {"linger", "ended"}, NEW reply \in {"none", "Ack", "Error"},
             reply = "Ack" => c.hpc = "Ack" \/ c.reply = "Ack",
             calls' = [calls EXCEPT ![w] = [c EXCEPT !.hpc = hpc, !.reply = reply]],
             UNCHANGED <<incVars, stdin>>
      PROVE  Inv'
  <2> DEFINE d == [c EXCEPT !.hpc = hpc, !.reply = reply]
  <2>0. (reply = "Ack" => c.hpc = "Ack" \/ c.reply = "Ack")
        /\ calls' = [calls EXCEPT ![w] = d] /\ UNCHANGED <<incVars, stdin>>
    BY <1>1
  <2> HIDE DEF c
  <2>1. d \in CallType
    BY <1>t DEF CallType, HandlerPc
  <2>2. /\ d.cpc = c.cpc /\ d.len = c.len /\ d.sent = c.sent /\ d.fin = c.fin
        /\ d.read = c.read /\ d.hpc = hpc /\ d.inc = c.inc /\ d.reply = reply
    BY <1>t DEF CallType
  <2> HIDE DEF d
  <2>3. Progress(d)
    BY <1>t, <2>2 DEF CallOK, Progress
  <2>4. (Whole(w, c, Pipe(w)) => Whole(w, d, Pipe(w)))
        /\ (Done(w, c, Pipe(w)) => Done(w, d, Pipe(w)))
    BY <2>2 DEF Whole, Done
  <2>5. CallOK(w, d, Pipe(w))
    BY <1>t, <2>0, <2>2, <2>3, <2>4 DEF CallOK
  <2> QED BY <1>t, <2>0, <2>1, <2>2, <2>5, CallNext DEF c
<1>2. ASSUME NEW d, d = [c EXCEPT !.hpc = "ended"]
      PROVE  d = [c EXCEPT !.hpc = "ended", !.reply = c.reply]
  BY <1>t, <1>2 DEF CallType
<1>3. c.reply \in {"none", "Ack", "Error"}
  BY <1>t DEF CallType
<1>4. CASE Closed(w)
  <2>1. calls' = [calls EXCEPT ![w] = [c EXCEPT !.hpc = "ended"]] /\ UNCHANGED <<incVars, stdin>>
    BY <1>4 DEF Closed
  <2> QED BY <1>1, <1>2, <1>3, <2>1
<1>5. CASE Reply(w) /\ ~Connected(w)
  <2>1. calls' = [calls EXCEPT ![w] = [c EXCEPT !.hpc = "ended"]] /\ UNCHANGED <<incVars, stdin>>
    BY <1>5 DEF Reply
  <2> QED BY <1>1, <1>2, <1>3, <2>1
<1>6. CASE Reply(w) /\ Connected(w)
  <2>1. calls' = [calls EXCEPT ![w] = [c EXCEPT !.hpc = "linger", !.reply = c.hpc]]
        /\ UNCHANGED <<incVars, stdin>> /\ c.hpc \in {"Ack", "Error"}
    BY <1>6 DEF Reply
  <2> QED BY <1>1, <2>1
<1> QED BY <1>4, <1>5, <1>6

----------------------------------------------------------------------------
\* The handler finds the entry and waits for the lock, or finds none.
LEMMA LookupNext ==
    ASSUME Inv, NEW w \in Writer, Lookup(w)
    PROVE  Inv'
<1> DEFINE c == calls[w]
<1>t. /\ c \in CallType /\ CallOK(w, c, Pipe(w)) /\ c.hpc = "lookup"
      /\ UNCHANGED incVars /\ stdin \in [Inc -> PipeType]
  BY DEF Inv, Typed, Lookup
<1>p. Progress(c) /\ c.inc = 0 /\ c.read = 0 /\ c.reply # "Ack" /\ c.cpc # "ok"
  BY <1>t DEF CallOK, Done, Progress
<1>1. CASE entry = 0
  <2> DEFINE d == [c EXCEPT !.hpc = "Error"]
  <2>1. calls' = [calls EXCEPT ![w] = d] /\ UNCHANGED stdin
    BY <1>1 DEF Lookup
  <2> HIDE DEF c
  <2>2. d \in CallType
    BY <1>t DEF CallType, HandlerPc
  <2>3. /\ d.cpc = c.cpc /\ d.len = c.len /\ d.sent = c.sent /\ d.fin = c.fin
        /\ d.read = c.read /\ d.hpc = "Error" /\ d.inc = c.inc /\ d.reply = c.reply
    BY <1>t DEF CallType
  <2> HIDE DEF d
  <2>4. Progress(d)
    BY <1>t, <1>p, <2>3 DEF Progress
  <2>5. CallOK(w, d, Pipe(w))
    BY <1>p, <2>3, <2>4 DEF CallOK
  <2> QED BY <1>t, <2>1, <2>2, <2>3, <2>5, CallNext DEF c
<1>2. CASE entry # 0
  <2> DEFINE p == stdin[entry]
             q == [p EXCEPT !.line = Append(p.line, w)]
             d == [c EXCEPT !.hpc = "lock", !.inc = entry]
  <2>1. calls' = [calls EXCEPT ![w] = d] /\ stdin' = [stdin EXCEPT ![entry] = q]
    BY <1>2 DEF Lookup
  <2>2. entry \in Inc /\ entry <= inc /\ entry \in 0 .. MaxInc
    BY <1>2, IncarnationsAssumption DEF Inv, Typed, IncTypeOK, Inc
  <2>3. p \in PipeType /\ PipeOK(p) /\ AuthorOK(entry, p, calls[Author(p)])
    BY <1>t, <2>2 DEF Inv
  <2>4. p.line \in Seq(Writer) /\ Len(p.line) \in Nat
    BY <2>3, PipeFacts
  <2> HIDE DEF p, c
  <2>5. /\ Append(p.line, w) \in Seq(Writer) /\ Len(Append(p.line, w)) = Len(p.line) + 1
        /\ \A k \in 1 .. Len(p.line) : Append(p.line, w)[k] = p.line[k]
        /\ Append(p.line, w)[Len(p.line) + 1] = w
    BY <2>4, AppendProperties
  <2>6. q \in PipeType
    BY <2>3, <2>5 DEF PipeType
  <2>7. /\ q.open = p.open /\ q.reads = p.reads /\ q.line = Append(p.line, w)
        /\ q.fed = p.fed /\ q.eaten = p.eaten
    BY <2>3 DEF PipeType
  <2>8. d \in CallType
    BY <1>t, <2>2 DEF CallType, HandlerPc
  <2>9. /\ d.cpc = c.cpc /\ d.len = c.len /\ d.sent = c.sent /\ d.fin = c.fin
        /\ d.read = c.read /\ d.hpc = "lock" /\ d.inc = entry /\ d.reply = c.reply
    BY <1>t DEF CallType
  <2> HIDE DEF q, d
  <2>a. Author(q) = Author(p) /\ PipeOK(q)
    BY <2>3, <2>7 DEF Author, PipeOK
  <2>b. p.fed # <<>> => Author(p) # w
    BY <1>p, <2>2, <2>3, IncarnationsAssumption DEF AuthorOK, Inc, c
  <2>c. CallOK(w, d, q)
    <3>1. Len(q.line) \in 1 .. Len(q.line) /\ q.line[Len(q.line)] = w
      BY <2>4, <2>5, <2>7
    <3>2. Queued(w, q)
      BY <3>1 DEF Queued
    <3>3. Progress(d)
      <4>1. c.cpc # "idle"
        BY <1>t, <1>p DEF Progress
      <4> QED BY <1>p, <2>9, <4>1 DEF Progress
    <3> QED BY <1>p, <1>2, <2>7, <2>9, <2>a, <2>b, <3>2, <3>3 DEF CallOK
  <2>d. ASSUME NEW u \in Writer, u # w, calls[u].inc = entry
        PROVE  CallOK(u, calls[u], q)
    <3>1. CallOK(u, calls[u], p)
      BY <2>d DEF Inv, Pipe, p
    <3>2. Queued(u, p) => Queued(u, q) /\ q.line[1] = p.line[1]
      <4> SUFFICES ASSUME NEW k \in 1 .. Len(p.line), p.line[k] = u
                   PROVE  Queued(u, q) /\ q.line[1] = p.line[1]
        BY DEF Queued
      <4>1. k \in 1 .. Len(q.line) /\ 1 \in 1 .. Len(p.line)
        BY <2>4, <2>5, <2>7
      <4>2. q.line[k] = u /\ q.line[1] = p.line[1]
        BY <2>5, <2>7, <4>1
      <4> QED BY <4>1, <4>2 DEF Queued
    <3>3. Holds(u, calls[u], p) /\ Queued(u, p) => Holds(u, calls[u], q)
      BY <2>7, <2>a, <3>2 DEF Holds
    <3>4. (Whole(u, calls[u], p) => Whole(u, calls[u], q))
          /\ (Done(u, calls[u], p) => Done(u, calls[u], q))
      BY <2>7, <2>a DEF Whole, Done
    <3> QED BY <2>7, <2>a, <3>1, <3>2, <3>3, <3>4 DEF CallOK
  <2>e. p.fed # <<>> => AuthorOK(entry, q, calls[Author(q)])
    BY <2>3, <2>7, <2>a DEF AuthorOK
  <2> QED BY <1>t, <1>p, <2>1, <2>2, <2>6, <2>7, <2>8, <2>9, <2>a, <2>b, <2>c, <2>d, <2>e,
             HandlerNext DEF c
<1> QED BY <1>1, <1>2

\* What is known when w is served: it is in the line of the incarnation it found.
LEMMA Served ==
    ASSUME Inv, NEW w \in Writer, calls[w].hpc \in {"lock", "copy"}
    PROVE  /\ calls[w].inc \in Inc /\ calls[w].inc <= inc /\ stdin \in [Inc -> PipeType]
           /\ calls[w] \in CallType /\ Pipe(w) \in PipeType /\ CallOK(w, calls[w], Pipe(w))
           /\ PipeOK(Pipe(w)) /\ AuthorOK(calls[w].inc, Pipe(w), calls[Author(Pipe(w))])
           /\ Pipe(w).line \in Seq(Writer) /\ Pipe(w).line # <<>>
           /\ Head(Pipe(w).line) = Pipe(w).line[1] /\ Tail(Pipe(w).line) \in Seq(Writer)
           /\ \A u \in Writer : calls[u].inc = calls[w].inc => CallOK(u, calls[u], Pipe(w))
<1>1. /\ calls[w] \in CallType /\ calls[w].inc <= inc /\ CallOK(w, calls[w], Pipe(w))
      /\ stdin \in [Inc -> PipeType]
  BY DEF Inv, Typed
<1>2. calls[w].inc \in Inc /\ Queued(w, Pipe(w))
  BY <1>1, CallFacts DEF CallOK
<1>3. /\ Pipe(w) \in PipeType /\ PipeOK(Pipe(w))
      /\ AuthorOK(calls[w].inc, Pipe(w), calls[Author(Pipe(w))])
  BY <1>1, <1>2 DEF Inv, Pipe
<1>4. Pipe(w).line \in Seq(Writer)
  BY <1>3, PipeFacts
<1>5. Pipe(w).line # <<>>
  <2>1. Len(<<>>) = 0
    BY Fresh
  <2> QED BY <1>2, <2>1 DEF Queued
<1>6. Head(Pipe(w).line) = Pipe(w).line[1] /\ Tail(Pipe(w).line) \in Seq(Writer)
  BY <1>4, <1>5, HeadTailProperties
<1>7. \A u \in Writer : calls[u].inc = calls[w].inc => CallOK(u, calls[u], Pipe(w))
  BY DEF Inv, Pipe
<1> QED BY <1>1, <1>2, <1>3, <1>4, <1>5, <1>6, <1>7

\* The lock is granted: nobody has written to a stdin that is still open.
LEMMA LockNext ==
    ASSUME Inv, NEW w \in Writer, Lock(w)
    PROVE  Inv'
<1> DEFINE c == calls[w]
           p == Pipe(w)
           i == c.inc
<1>l. c.hpc = "lock" /\ Head(p.line) = w /\ UNCHANGED incVars
  BY DEF Lock
<1>t. /\ i \in Inc /\ i <= inc /\ stdin \in [Inc -> PipeType] /\ p = stdin[i]
      /\ c \in CallType /\ p \in PipeType /\ CallOK(w, c, p)
      /\ PipeOK(p) /\ AuthorOK(i, p, calls[Author(p)])
      /\ p.line # <<>> /\ p.line[1] = w /\ Tail(p.line) \in Seq(Writer)
  BY <1>l, Served DEF Pipe
<1>u. \A u \in Writer : calls[u].inc = i => CallOK(u, calls[u], p)
  BY <1>l, Served
<1>p. /\ Progress(c) /\ c.read = 0 /\ c.cpc # "idle" /\ i # 0 /\ Queued(w, p)
      /\ (c.reply = "Ack" \/ c.cpc = "ok" => Done(w, c, p))
      /\ (p.fed # <<>> => Author(p) # w)
  BY <1>l, <1>t DEF CallOK, Progress, AuthorOK
<1>1. CASE p.open
  <2> DEFINE d == [c EXCEPT !.hpc = "copy"]
  <2>1. calls' = [calls EXCEPT ![w] = d] /\ stdin' = stdin
    BY <1>1 DEF Lock
  <2>2. stdin' = [stdin EXCEPT ![i] = p]
    BY <1>t, <2>1
  <2>3. p.fed = <<>> /\ Len(p.fed) = 0
    <3>1. ASSUME p.fed # <<>> PROVE FALSE
      <4> DEFINE a == Author(p)
      <4>1. calls[a].inc = i /\ calls[a].hpc = "copy" /\ a # w /\ a \in Writer
        BY <1>1, <1>t, <1>p, <3>1, PipeFacts DEF AuthorOK
      <4>2. CallOK(a, calls[a], p)
        BY <1>u, <4>1
      <4>3. p.line[1] = a
        BY <4>1, <4>2 DEF CallOK, Holds
      <4> QED BY <1>t, <4>1, <4>3
    <3> QED BY <3>1, Fresh
  <2> HIDE DEF p, i, c
  <2>4. d \in CallType
    BY <1>t DEF CallType, HandlerPc
  <2>5. /\ d.cpc = c.cpc /\ d.len = c.len /\ d.sent = c.sent /\ d.fin = c.fin
        /\ d.read = c.read /\ d.hpc = "copy" /\ d.inc = c.inc /\ d.reply = c.reply
    BY <1>t DEF CallType
  <2> HIDE DEF d
  <2>6. CallOK(w, d, p)
    <3>1. Progress(d)
      BY <1>p, <2>5 DEF Progress
    <3>2. Holds(w, d, p)
      BY <1>1, <1>t, <1>p, <2>3, <2>5 DEF Holds
    <3>3. ~Done(w, c, p)
      BY <1>1 DEF Done
    <3> QED BY <1>1, <1>p, <2>5, <3>1, <3>2, <3>3 DEF CallOK, i
  <2> QED BY <1>l, <1>t, <1>u, <2>1, <2>2, <2>3, <2>4, <2>5, <2>6, HandlerNext DEF i, c
<1>2. CASE ~p.open
  <2> DEFINE d == [c EXCEPT !.hpc = "Error"]
             q == [p EXCEPT !.line = Tail(p.line)]
  <2>1. calls' = [calls EXCEPT ![w] = d] /\ stdin' = [stdin EXCEPT ![i] = q]
    BY <1>2 DEF Lock, Pipe
  <2> HIDE DEF p, i, c
  <2>2. d \in CallType
    BY <1>t DEF CallType, HandlerPc
  <2>3. /\ d.cpc = c.cpc /\ d.len = c.len /\ d.sent = c.sent /\ d.fin = c.fin
        /\ d.read = c.read /\ d.hpc = "Error" /\ d.inc = c.inc /\ d.reply = c.reply
    BY <1>t DEF CallType
  <2>4. q \in PipeType
    BY <1>t DEF PipeType
  <2>5. /\ q.open = p.open /\ q.reads = p.reads /\ q.line = Tail(p.line)
        /\ q.fed = p.fed /\ q.eaten = p.eaten
    BY <1>t DEF PipeType
  <2> HIDE DEF d, q
  <2>6. PipeOK(q) /\ Author(q) = Author(p) /\ (q.fed # <<>> => AuthorOK(i, q, calls[Author(q)]))
    BY <1>t, <2>5 DEF PipeOK, Author, AuthorOK
  <2>7. CallOK(w, d, q)
    <3>1. Progress(d)
      BY <1>p, <2>3 DEF Progress
    <3>2. Done(w, c, p) => Done(w, d, q)
      BY <2>3, <2>5, <2>6 DEF Done, Whole
    <3> QED BY <1>p, <2>3, <2>5, <2>6, <3>1, <3>2 DEF CallOK
  <2>8. ASSUME NEW u \in Writer, u # w, calls[u].inc = i PROVE CallOK(u, calls[u], q)
    <3>1. CallOK(u, calls[u], p) /\ calls[u] \in CallType
      BY <1>u, <2>8 DEF Inv, Typed
    <3> QED BY <1>t, <1>2, <2>4, <2>5, <2>8, <3>1, Bystander
  <2> QED BY <1>l, <1>t, <1>p, <2>1, <2>2, <2>3, <2>4, <2>5, <2>6, <2>7, <2>8, HandlerNext
          DEF i, c
<1> QED BY <1>1, <1>2

\* A chunk goes into the pipe.
LEMMA CopyNext ==
    ASSUME Inv, NEW w \in Writer, Copy(w)
    PROVE  Inv'
<1> DEFINE c == calls[w]
           p == Pipe(w)
           i == c.inc
           x == <<w, c.read + 1>>
           d == [c EXCEPT !.read = c.read + 1]
           q == [p EXCEPT !.fed = Append(p.fed, x)]
<1>l. /\ c.hpc = "copy" /\ UNCHANGED incVars
      /\ c.read < c.sent /\ Len(p.fed) < p.eaten + PipeCap
      /\ calls' = [calls EXCEPT ![w] = d] /\ stdin' = [stdin EXCEPT ![i] = q]
  BY DEF Copy, Pipe
<1>t. /\ i \in Inc /\ i <= inc /\ stdin \in [Inc -> PipeType] /\ p = stdin[i]
      /\ c \in CallType /\ p \in PipeType /\ CallOK(w, c, p)
      /\ PipeOK(p) /\ p.line # <<>>
  BY <1>l, Served DEF Pipe
<1>u. \A u \in Writer : calls[u].inc = i => CallOK(u, calls[u], p)
  BY <1>l, Served
<1>n. c.read \in Nat /\ c.sent \in Nat /\ c.len \in Nat /\ Len(p.fed) \in Nat /\ p.eaten \in Nat
  BY <1>t, CallFacts, PipeFacts
<1>h. /\ Holds(w, c, p) /\ Progress(c) /\ Queued(w, p) /\ p.line[1] = w /\ p.open
      /\ Len(p.fed) = c.read /\ (p.fed # <<>> => Author(p) = w)
  BY <1>l, <1>t DEF CallOK, Holds
<1>r. c.reply # "Ack" /\ c.cpc # "ok"
  BY <1>t, <1>h DEF CallOK, Done
<1> HIDE DEF c, p, i
<1>x. x \in Writer \X Nat /\ c.read + 1 \in Nat /\ x[1] = w
  BY <1>n
<1>1. /\ Append(p.fed, x) \in Seq(Writer \X Nat) /\ Len(Append(p.fed, x)) = Len(p.fed) + 1
      /\ \A k \in 1 .. Len(p.fed) : Append(p.fed, x)[k] = p.fed[k]
      /\ Append(p.fed, x)[Len(p.fed) + 1] = x
  <2>1. p.fed \in Seq(Writer \X Nat)
    BY <1>t, PipeFacts
  <2> HIDE DEF x
  <2> QED BY <1>x, <2>1, AppendProperties
<1>2. d \in CallType
  BY <1>t, <1>x DEF CallType
<1>3. /\ d.cpc = c.cpc /\ d.len = c.len /\ d.sent = c.sent /\ d.fin = c.fin
      /\ d.read = c.read + 1 /\ d.hpc = "copy" /\ d.inc = c.inc /\ d.reply = c.reply
  BY <1>l, <1>t DEF CallType
<1> HIDE DEF d
<1>4. q \in PipeType
  <2> HIDE DEF x
  <2> QED BY <1>t, <1>1 DEF PipeType
<1>5. /\ q.open = p.open /\ q.reads = p.reads /\ q.line = p.line
      /\ q.fed = Append(p.fed, x) /\ q.eaten = p.eaten
  BY <1>t DEF PipeType
<1> HIDE DEF q
<1>6. /\ Len(q.fed) = Len(p.fed) + 1
      /\ \A k \in 1 .. Len(p.fed) : q.fed[k] = p.fed[k]
      /\ q.fed[Len(p.fed) + 1] = x
  BY <1>1, <1>5
<1>y. q.fed[Len(p.fed) + 1] = x
  BY <1>6
<1>7. Author(q) = w /\ q.fed # <<>>
  <2>1. q.fed # <<>>
    <3>1. Len(q.fed) # 0
      BY <1>n, <1>6
    <3> QED BY <3>1, Fresh
  <2>2. CASE p.fed = <<>>
    <3>1. Len(p.fed) + 1 = 1
      BY <2>2, Fresh
    <3>2. q.fed[1] = x
      BY <1>y, <3>1
    <3> QED BY <1>x, <2>1, <3>2 DEF Author
  <2>3. CASE p.fed # <<>>
    <3>1. 1 \in 1 .. Len(p.fed)
      BY <1>n, <1>t, <2>3, PipeFacts
    <3> QED BY <1>h, <1>6, <2>1, <2>3, <3>1 DEF Author
  <2> QED BY <2>2, <2>3
<1>8. PipeOK(q)
  <2>1. q.eaten <= Len(q.fed) /\ Len(q.fed) <= q.eaten + PipeCap
    <3>1. p.eaten <= Len(p.fed) /\ Len(q.fed) = Len(p.fed) + 1 /\ q.eaten = p.eaten
      BY <1>t, <1>5, <1>6 DEF PipeOK
    <3> QED BY <1>l, <1>n, <3>1, StdinAssumption
  <2>2. ASSUME NEW k \in 1 .. Len(q.fed) PROVE q.fed[k] = <<w, k>>
    <3>1. CASE k \in 1 .. Len(p.fed)
      <4>1. p.fed # <<>>
        <5>1. Len(p.fed) # 0
          BY <1>n, <3>1
        <5> QED BY <5>1, Fresh
      <4>2. q.fed[k] = p.fed[k] /\ p.fed[k] = <<Author(p), k>>
        BY <1>t, <1>6, <3>1 DEF PipeOK
      <4> QED BY <1>h, <4>1, <4>2
    <3>2. CASE k = Len(p.fed) + 1
      <4>1. k = c.read + 1
        BY <1>h, <3>2
      <4> QED BY <1>y, <3>2, <4>1
    <3> QED BY <1>n, <1>6, <3>1, <3>2
  <2> QED BY <1>7, <2>1, <2>2 DEF PipeOK
<1>9. CallOK(w, d, q)
  <2>1. Progress(d)
    <3>1. d.read <= d.sent /\ d.sent <= d.len
      <4>1. c.sent <= c.len
        BY <1>h DEF Progress
      <4> QED BY <1>l, <1>n, <1>3, <4>1
    <3> QED BY <1>l, <1>h, <1>3, <3>1 DEF Progress
  <2>2. Queued(w, q)
    BY <1>h, <1>5 DEF Queued
  <2>3. Holds(w, d, q)
    <3>1. Len(q.fed) = d.read
      BY <1>h, <1>3, <1>6
    <3> QED BY <1>h, <1>5, <1>7, <3>1 DEF Holds
  <2>4. i # 0
    BY <1>t, IncarnationsAssumption DEF Inc
  <2> QED BY <1>h, <1>r, <1>3, <1>5, <2>1, <2>2, <2>3, <2>4 DEF CallOK, i
<1>a. AuthorOK(i, q, d)
  BY <1>3 DEF AuthorOK, i
<1>b. ASSUME NEW u \in Writer, u # w, calls[u].inc = i PROVE CallOK(u, calls[u], q)
  <2>1. CallOK(u, calls[u], p) /\ calls[u] \in CallType
    BY <1>u, <1>b DEF Inv, Typed
  <2> QED BY <1>t, <1>h, <1>4, <1>5, <1>b, <2>1, Bystander
<1> QED BY <1>l, <1>t, <1>2, <1>3, <1>4, <1>7, <1>8, <1>9, <1>a, <1>b, HandlerNext DEF i, c

\* The copy ends, whatever its result: stdin is closed and the lock released.
LEMMA EndNext ==
    ASSUME Inv, NEW w \in Writer, CopyEof(w) \/ CopyBroken(w) \/ CopyLost(w)
    PROVE  Inv'
<1>1. PICK answer \in {"Ack", "Error"} :
        /\ calls[w].hpc = "copy" /\ EndCopy(w, answer)
        /\ answer = "Ack" => calls[w].fin /\ calls[w].read = calls[w].sent
        /\ answer = "Error" => ~Pipe(w).reads \/ calls[w].cpc \notin {"sending", "waiting"}
  <2>1. CASE CopyEof(w)
    BY <2>1 DEF CopyEof, InputEnded
  <2>2. CASE CopyBroken(w)
    BY <2>2 DEF CopyBroken
  <2>3. CASE CopyLost(w)
    BY <2>3 DEF CopyLost, Connected
  <2> QED BY <2>1, <2>2, <2>3
<1> DEFINE c == calls[w]
           p == Pipe(w)
           i == c.inc
           d == [c EXCEPT !.hpc = answer]
           q == [p EXCEPT !.open = FALSE, !.line = Tail(p.line)]
<1>l. /\ c.hpc = "copy" /\ UNCHANGED incVars
      /\ calls' = [calls EXCEPT ![w] = d] /\ stdin' = [stdin EXCEPT ![i] = q]
  BY <1>1 DEF EndCopy, Pipe
<1>e. /\ answer = "Ack" => c.fin /\ c.read = c.sent
      /\ answer = "Error" => ~p.reads \/ c.cpc \notin {"sending", "waiting"}
  BY <1>1
<1>t. /\ i \in Inc /\ i <= inc /\ stdin \in [Inc -> PipeType] /\ p = stdin[i]
      /\ c \in CallType /\ p \in PipeType /\ CallOK(w, c, p)
      /\ PipeOK(p) /\ p.line # <<>> /\ Tail(p.line) \in Seq(Writer)
  BY <1>l, Served DEF Pipe
<1>u. \A u \in Writer : calls[u].inc = i => CallOK(u, calls[u], p)
  BY <1>l, Served
<1>h. /\ Progress(c) /\ p.line[1] = w /\ p.open /\ Len(p.fed) = c.read
      /\ (p.fed # <<>> => Author(p) = w)
  BY <1>l, <1>t DEF CallOK, Holds
<1>r. c.reply # "Ack" /\ c.cpc # "ok"
  BY <1>t, <1>h DEF CallOK, Done
<1> HIDE DEF c, p, i
<1>2. d \in CallType
  BY <1>t DEF CallType, HandlerPc
<1>3. /\ d.cpc = c.cpc /\ d.len = c.len /\ d.sent = c.sent /\ d.fin = c.fin
      /\ d.read = c.read /\ d.hpc = answer /\ d.inc = c.inc /\ d.reply = c.reply
  BY <1>t DEF CallType
<1>4. q \in PipeType
  BY <1>t DEF PipeType
<1>5. /\ q.open = FALSE /\ q.reads = p.reads /\ q.line = Tail(p.line)
      /\ q.fed = p.fed /\ q.eaten = p.eaten
  BY <1>t DEF PipeType
<1> HIDE DEF d, q
<1>6. Author(q) = Author(p) /\ PipeOK(q)
  BY <1>t, <1>5 DEF Author, PipeOK
<1>7. i # 0
  BY <1>t, IncarnationsAssumption DEF Inc
<1>8. answer = "Ack" => Whole(w, d, q)
  <2> SUFFICES ASSUME answer = "Ack" PROVE Whole(w, d, q)
    OBVIOUS
  <2>1. Len(q.fed) = d.len
    BY <1>e, <1>h, <1>3, <1>5 DEF Progress
  <2>2. d.len > 0 => Author(q) = w
    <3>1. p.fed = <<>> => d.len = 0
      BY <1>5, <2>1, Fresh
    <3> QED BY <1>h, <1>6, <3>1
  <2> QED BY <2>1, <2>2 DEF Whole
<1>9. CallOK(w, d, q)
  <2>1. Progress(d)
    BY <1>l, <1>h, <1>3 DEF Progress
  <2>2. answer = "Ack" => Done(w, d, q)
    BY <1>3, <1>5, <1>7, <1>8 DEF Done, i
  <2> QED BY <1>e, <1>r, <1>3, <1>5, <1>8, <2>1, <2>2 DEF CallOK
<1>a. q.fed # <<>> => Author(q) = w /\ AuthorOK(i, q, d)
  BY <1>h, <1>3, <1>5, <1>6 DEF AuthorOK, i
<1>b. ASSUME NEW u \in Writer, u # w, calls[u].inc = i PROVE CallOK(u, calls[u], q)
  <2>1. CallOK(u, calls[u], p) /\ calls[u] \in CallType
    BY <1>u, <1>b DEF Inv, Typed
  <2> QED BY <1>t, <1>h, <1>4, <1>5, <1>b, <2>1, Bystander
<1> QED BY <1>l, <1>t, <1>2, <1>3, <1>4, <1>6, <1>9, <1>a, <1>b, HandlerNext DEF i, c

----------------------------------------------------------------------------
LEMMA InvInit == Init => Inv
<1> SUFFICES ASSUME Init PROVE Inv
  OBVIOUS
<1>1. IncTypeOK /\ inc \in Nat
  <2>1. inc \in {0, MaxInc} /\ entry = inc /\ MaxInc \in Nat
    BY IncarnationsAssumption DEF Init, IncInit
  <2>2. inc \in 0 .. MaxInc /\ entry \in 0 .. inc
    BY <2>1
  <2>3. inc \in Nat
    BY <2>1
  <2>4. live \in BOOLEAN /\ pending \in BOOLEAN
    BY DEF Init, IncInit
  <2> QED BY <2>2, <2>3, <2>4 DEF IncTypeOK
<1>2. Typed
  BY <1>1, Fresh DEF Init, Typed
<1>3. ASSUME NEW i \in Inc
      PROVE  PipeOK(stdin[i]) /\ AuthorOK(i, stdin[i], calls[Author(stdin[i])])
  <2>1. stdin[i].fed = <<>> /\ stdin[i].eaten = 0 /\ Len(<<>>) = 0
    BY Fresh DEF Init, NoStdin
  <2>2. Len(stdin[i].fed) = 0
    BY <2>1
  <2>3. PipeOK(stdin[i])
    BY <2>1, <2>2, StdinAssumption DEF PipeOK
  <2> QED BY <2>1, <2>3 DEF AuthorOK
<1>4. ASSUME NEW w \in Writer PROVE calls[w].inc <= inc /\ CallOK(w, calls[w], Pipe(w))
  <2> DEFINE c == calls[w]
  <2>1. /\ c.cpc = "idle" /\ c.len = 0 /\ c.sent = 0 /\ ~c.fin /\ c.read = 0
        /\ c.hpc = "idle" /\ c.inc = 0 /\ c.reply = "none"
    BY DEF Init, NoCall
  <2> HIDE DEF c
  <2>2. Progress(c)
    BY <2>1 DEF Progress
  <2>3. CallOK(w, c, Pipe(w)) /\ c.inc <= inc
    BY <1>1, <2>1, <2>2 DEF CallOK
  <2> QED BY <2>3 DEF c
<1> QED BY <1>2, <1>3, <1>4 DEF Inv

LEMMA InvNext == Inv /\ [Next]_vars => Inv'
<1> SUFFICES ASSUME Inv, [Next]_vars PROVE Inv'
  OBVIOUS
<1>1. CASE UNCHANGED vars
  <2>1. UNCHANGED incVars /\ UNCHANGED <<stdin, calls>> /\ IncTypeOK
    BY <1>1 DEF vars, Inv, Typed
  <2>2. IncTypeOK' /\ inc <= inc'
    BY <2>1, IncStep
  <2> QED BY <2>1, <2>2, HandleNext
<1>2. CASE LaunchChild \/ Enter \/ Forget \/ Exit \/ \E i \in Inc : CloseStdin(i) \/ Eat(i)
  BY <1>2, ProcessNext
<1>3. ASSUME NEW w \in Writer,
             InputStep(w) \/ ReplyStep(w) \/ Lose(w) \/ \E len \in Lengths : Begin(w, len)
      PROVE  Inv'
  BY <1>3, ClientNext
<1>4. ASSUME NEW w \in Writer, HandlerStep(w) PROVE Inv'
  BY <1>4, LookupNext, LockNext, CopyNext, EndNext, AnswerNext DEF HandlerStep
<1> QED BY <1>1, <1>2, <1>3, <1>4 DEF Next

(***************************************************************************)
(* Inv holds throughout: only the holder of the lock that pipe_stdin took  *)
(* writes to an incarnation, and it leaves the line only by closing stdin. *)
(***************************************************************************)
THEOREM Invariance == Spec => []Inv
<1> QED BY InvInit, InvNext, PTL DEF Spec

(***************************************************************************)
(* The state is well typed: the pipe never holds more than its capacity    *)
(* (the copy of pipe_stdin waits for room), and nothing is read before it  *)
(* was sent.                                                               *)
(***************************************************************************)
THEOREM TypeCorrect == Spec => []TypeOK
<1>1. ASSUME Inv PROVE TypeOK
  <2>1. IncTypeOK /\ stdin \in [Inc -> PipeType] /\ calls \in [Writer -> CallType]
    BY <1>1 DEF Inv, Typed
  <2>2. ASSUME NEW i \in Inc
        PROVE  Len(stdin[i].fed) \in stdin[i].eaten .. stdin[i].eaten + PipeCap
    <3>1. Len(stdin[i].fed) \in Nat /\ stdin[i].eaten \in Nat
      BY <2>1, PipeFacts
    <3>2. stdin[i].eaten <= Len(stdin[i].fed) /\ Len(stdin[i].fed) <= stdin[i].eaten + PipeCap
      BY <1>1 DEF Inv, PipeOK
    <3> QED BY <3>1, <3>2, StdinAssumption
  <2>3. ASSUME NEW w \in Writer
        PROVE  /\ calls[w].inc <= inc
               /\ calls[w].read <= calls[w].sent /\ calls[w].sent <= calls[w].len
    BY <1>1 DEF Inv, CallOK, Progress
  <2> QED BY <2>1, <2>2, <2>3 DEF TypeOK, PipeType, CallType
<1> QED BY <1>1, Invariance, PTL

(***************************************************************************)
(* pipe_stdin takes the ChildStdin out under the lock and never puts it    *)
(* back: whoever gets the lock of a stdin that is still open is the first, *)
(* so a process reads the input of one client, for any number of them.     *)
(***************************************************************************)
THEOREM ProcessHasOneAuthor == Spec => []OneAuthor
<1>1. Inv => OneAuthor
  BY DEF Inv, PipeOK, Author, OneAuthor
<1> QED BY <1>1, Invariance, PTL

(***************************************************************************)
(* A stdin call that succeeds (stdin_stream) put its whole input into one  *)
(* incarnation and closed it: pipe_stdin acknowledges at the end of the    *)
(* input only, and what is closed is never written to again.               *)
(***************************************************************************)
THEOREM AcknowledgedIsDelivered == Spec => []AckMeansDelivered
<1>1. Inv => AckMeansDelivered
  BY DEF Inv, CallOK, Done, Whole, Author, AckMeansDelivered, Delivered
<1> QED BY <1>1, Invariance, PTL

(***************************************************************************)
(* A process that still reads is told of the end of an input it was given  *)
(* part of only if it was given the whole, or the client is gone.          *)
(***************************************************************************)
THEOREM EofIsNoLie == Spec => []EofIsHonest
<1>1. ASSUME Inv, NEW i \in Inc, NEW w \in Writer,
             calls[w].inc = i, stdin[i].reads, ~stdin[i].open,
             stdin[i].fed # <<>>, stdin[i].fed[1][1] = w
      PROVE  Delivered(w) \/ ~Connected(w)
  <2>1. CallOK(w, calls[w], Pipe(w)) /\ Pipe(w) = stdin[i] /\ calls[w].inc # 0
    BY <1>1, IncarnationsAssumption DEF Inv, Pipe, Inc
  <2>2. Whole(w, calls[w], Pipe(w)) \/ calls[w].cpc \notin {"sending", "waiting"}
    BY <1>1, <2>1 DEF CallOK, Author
  <2> QED BY <2>2 DEF Whole, Author, Delivered, Connected
<1>2. Inv => EofIsHonest
  BY <1>1 DEF EofIsHonest
<1> QED BY <1>2, Invariance, PTL
=============================================================================
