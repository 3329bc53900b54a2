---------------------------- MODULE StdoutProofs ----------------------------
(***************************************************************************)
(* The output of a handle, for any number of incarnations, subscriptions,  *)
(* chunks and slots of the channel.                                        *)
(***************************************************************************)
EXTENDS Stdout, SequenceTheorems, TLAPS

OutType == [held : BOOLEAN, wrote : 0 .. MaxOutput, pumped : 0 .. MaxOutput,
            open : BOOLEAN, sent : Seq(Chunk)]
SubType == [pc : SubPc, inc : 0 .. MaxInc, from : 0 .. MaxOutput, pos : Nat,
            got : Seq(Chunk), lagged : Nat]

(***************************************************************************)
(* One incarnation.  The pipe holds what the pump has not read; a pump     *)
(* that has ended has read everything, and nobody can write any more.      *)
(***************************************************************************)
OutInv(i) ==
    /\ out[i].pumped <= out[i].wrote
    /\ ~out[i].open => out[i].pumped = out[i].wrote /\ ~out[i].held

(***************************************************************************)
(* One subscription.  sofar: the number of the last chunk it knows of,     *)
(* because it was pumped before, received or reported as lagged.  While it *)
(* is streaming, what follows in the channel follows in the output.        *)
(***************************************************************************)
Sofar(s) == subs[s].from + Len(subs[s].got) + subs[s].lagged

InOrder(s) ==
    LET got == subs[s].got
    IN  /\ \A k \in 1 .. Len(got) : got[k] > IF k = 1 THEN subs[s].from ELSE got[k - 1]
        /\ got # <<>> => got[Len(got)] <= Sofar(s)

Attached(s) ==
    LET o == out[subs[s].inc]
    IN  /\ \A k \in subs[s].pos + 1 .. Len(o.sent) : o.sent[k] = Sofar(s) + (k - subs[s].pos)
        /\ o.pumped = Sofar(s) + (Len(o.sent) - subs[s].pos)

Complete(s) ==
    LET o == out[subs[s].inc] IN ~o.held /\ ~o.open /\ Sofar(s) = o.wrote

SubInv(s) ==
    /\ subs[s].inc <= inc
    /\ subs[s].pc \in {"streaming", "finished"} => subs[s].inc # 0
    /\ subs[s].inc # 0 => subs[s].pos <= Len(out[subs[s].inc].sent)
    /\ InOrder(s)
    /\ subs[s].pc = "streaming" => Attached(s)
    /\ subs[s].pc = "finished" => Complete(s)

Typed ==
    /\ IncTypeOK
    /\ out \in [Inc -> OutType]
    /\ subs \in [Sub -> SubType]

Inv ==
    /\ Typed
    /\ \A i \in Inc : OutInv(i)
    /\ \A s \in Sub : SubInv(s)

----------------------------------------------------------------------------
\* The steps of the handle keep their types, and incarnations only increase.
LEMMA IncStep ==
    ASSUME IncTypeOK,
           Launch \/ UpdateTable \/ ForgetEntry \/ ProcessExit \/ UNCHANGED incVars
    PROVE  IncTypeOK' /\ inc <= inc'
<1>t. inc \in 0 .. MaxInc /\ entry \in 0 .. inc /\ MaxInc \in Nat
  BY IncarnationsAssumption DEF IncTypeOK
<1>1. inc' \in 0 .. MaxInc /\ entry' \in 0 .. inc' /\ inc <= inc'
  <2>1. UpdateTable => entry' \in {0, inc}
    BY DEF UpdateTable
  <2> QED BY <1>t, <2>1 DEF Launch, UpdateTable, ForgetEntry, ProcessExit, incVars
<1>2. live' \in BOOLEAN
  BY DEF IncTypeOK, Launch, UpdateTable, ForgetEntry, ProcessExit, incVars
<1>3. pending' \in BOOLEAN
  BY DEF IncTypeOK, Launch, UpdateTable, ForgetEntry, ProcessExit, incVars
<1> QED BY <1>1, <1>2, <1>3 DEF IncTypeOK

\* Distances on a channel: from y back to z, of which x chunks were known before.
LEMMA OneFurther ==
    \A x \in Nat, y \in Nat, z \in Nat : (x + (y - z)) + 1 = x + ((y + 1) - z)
OBVIOUS

LEMMA Shifted ==
    \A x \in Nat, y \in Nat, z \in Nat, m \in Nat : x + (y - z) = (x + m) + (y - (z + m))
OBVIOUS

LEMMA NextFits == \A x \in Nat, y \in Nat : x <= y => x <= y + 1
OBVIOUS

\* New incarnations and subscriptions are well typed.
LEMMA Fresh ==
    /\ NoOut \in OutType /\ [NoOut EXCEPT !.held = TRUE, !.open = TRUE] \in OutType
    /\ NoSub \in SubType
    /\ <<>> \in Seq(Chunk) /\ Len(<<>>) = 0
<1>1. <<>> \in Seq(Chunk) /\ Len(<<>>) = 0 /\ MaxInc \in Nat /\ MaxOutput \in Nat
  BY EmptySeq, IncarnationsAssumption, StdoutAssumption
<1>2. ASSUME NEW e \in Seq(Chunk), NEW held \in BOOLEAN, NEW open \in BOOLEAN
      PROVE  /\ [held |-> held, wrote |-> 0, pumped |-> 0, open |-> open, sent |-> e] \in OutType
             /\ [pc |-> "idle", inc |-> 0, from |-> 0, pos |-> 0, got |-> e, lagged |-> 0]
                    \in SubType
  BY <1>1 DEF OutType, SubType, SubPc
<1>3. NoOut \in OutType /\ NoSub \in SubType
  BY <1>1, <1>2, Zenon DEF NoOut, NoSub
<1>4. [NoOut EXCEPT !.held = TRUE, !.open = TRUE] \in OutType
  BY <1>3 DEF OutType
<1> QED BY <1>1, <1>3, <1>4

(***************************************************************************)
(* What happens to an incarnation does not disturb a subscription: its     *)
(* channel is left alone or grows by the next chunk, and once its output   *)
(* has ended it stays as it is.                                            *)
(***************************************************************************)
LEMMA Undisturbed ==
    ASSUME Typed, NEW s \in Sub, SubInv(s), subs'[s] = subs[s], inc \in Nat, inc' \in Nat,
           inc <= inc',
           NEW o \in OutType, NEW p \in OutType,
           subs[s].inc # 0 => out[subs[s].inc] = o /\ out'[subs[s].inc] = p,
           \/ p.sent = o.sent
           \/ p.sent = Append(o.sent, o.pumped + 1) /\ p.pumped = o.pumped + 1,
           subs[s].pc = "streaming" =>
               \/ p.sent = o.sent /\ p.pumped = o.pumped
               \/ p.sent = Append(o.sent, o.pumped + 1) /\ p.pumped = o.pumped + 1,
           ~o.held /\ ~o.open => ~p.held /\ ~p.open /\ p.wrote = o.wrote
    PROVE  SubInv(s)'
<1>t. /\ subs[s].inc \in Nat /\ subs[s].pos \in Nat /\ subs[s].got \in Seq(Chunk)
      /\ subs[s].lagged \in Nat /\ subs[s].from \in Nat /\ Len(subs[s].got) \in Nat
  <2>1. subs[s] \in SubType
    BY DEF Typed
  <2> QED BY <2>1 DEF SubType
<1>o. /\ o.sent \in Seq(Chunk) /\ Len(o.sent) \in Nat /\ o.pumped \in Nat
      /\ p.sent \in Seq(Chunk) /\ Len(p.sent) \in Nat
  BY DEF OutType
<1>n. Sofar(s) \in Nat
  <2>1. \A x \in Nat, y \in Nat, z \in Nat : x + y + z \in Nat
    OBVIOUS
  <2> QED BY <1>t, <2>1 DEF Sofar
<1>e. Sofar(s)' = Sofar(s)
  BY DEF Sofar
<1>1. Sofar(s)' = Sofar(s) /\ Sofar(s) \in Nat /\ InOrder(s)' = InOrder(s)
  BY <1>n, <1>e DEF InOrder
<1>2. CASE p.sent = o.sent
  <2>1. Len(Append(o.sent, o.pumped + 1)) = Len(o.sent) + 1
    BY <1>o
  <2>2. subs[s].pc = "streaming" => p.pumped = o.pumped
    BY <1>o, <1>2, <2>1
  <2>3. subs[s].pc = "streaming" => Attached(s)'
    BY <1>1, <1>2, <2>2 DEF SubInv, Attached
  <2>4. subs[s].pc = "finished" => Complete(s)'
    BY <1>1 DEF SubInv, Complete
  <2> QED BY <1>t, <1>1, <1>2, <2>3, <2>4 DEF SubInv
<1>3. CASE p.sent = Append(o.sent, o.pumped + 1) /\ p.pumped = o.pumped + 1
  <2>1. /\ Len(p.sent) = Len(o.sent) + 1
        /\ \A k \in 1 .. Len(o.sent) : p.sent[k] = o.sent[k]
        /\ p.sent[Len(o.sent) + 1] = o.pumped + 1
    BY <1>o, <1>3
  <2>2. subs[s].inc # 0 => subs[s].pos <= Len(p.sent)
    <3>1. subs[s].inc # 0 => subs[s].pos <= Len(o.sent)
      BY DEF SubInv
    <3> QED BY <1>t, <1>o, <2>1, <3>1, NextFits, Zenon
  <2>3. ASSUME subs[s].pc = "streaming" PROVE Attached(s)'
    <3>1. subs[s].inc # 0 /\ subs[s].pos <= Len(o.sent)
      BY <2>3 DEF SubInv
    <3>4. /\ \A k \in subs[s].pos + 1 .. Len(o.sent) : o.sent[k] = Sofar(s) + (k - subs[s].pos)
          /\ o.pumped = Sofar(s) + (Len(o.sent) - subs[s].pos)
      BY <2>3, <3>1 DEF SubInv, Attached
    <3>2. p.pumped = Sofar(s) + (Len(p.sent) - subs[s].pos)
      <4>1. (Sofar(s) + (Len(o.sent) - subs[s].pos)) + 1
              = Sofar(s) + ((Len(o.sent) + 1) - subs[s].pos)
        BY <1>t, <1>o, <1>n, OneFurther, SMTT(30)
      <4>2. p.pumped = (Sofar(s) + (Len(o.sent) - subs[s].pos)) + 1
        BY <1>3, <3>4, Zenon
      <4> QED BY <2>1, <4>1, <4>2, Zenon
    <3>3. ASSUME NEW k \in subs[s].pos + 1 .. Len(p.sent)
          PROVE  p.sent[k] = Sofar(s) + (k - subs[s].pos)
      <4>1. CASE k <= Len(o.sent)
        <5>1. k \in 1 .. Len(o.sent) /\ k \in subs[s].pos + 1 .. Len(o.sent)
          BY <1>t, <1>o, <4>1
        <5> QED BY <2>1, <3>4, <5>1
      <4>2. CASE k = Len(o.sent) + 1
        <5>1. p.sent[k] = o.pumped + 1
          BY <2>1, <4>2
        <5>2. o.pumped + 1 = Sofar(s) + (k - subs[s].pos)
          <6>1. o.pumped = Sofar(s) + (Len(o.sent) - subs[s].pos)
            BY <3>4
          <6>2. Len(o.sent) \in Nat /\ subs[s].pos \in Nat
            BY <1>t, <1>o
          <6>3. (Sofar(s) + (Len(o.sent) - subs[s].pos)) + 1
                  = Sofar(s) + ((Len(o.sent) + 1) - subs[s].pos)
            BY <1>n, <6>2, OneFurther, Zenon
          <6> QED BY <4>2, <6>1, <6>3, Zenon
        <5> QED BY <5>1, <5>2
      <4> QED BY <1>t, <1>o, <2>1, <4>1, <4>2
    <3> QED BY <1>1, <3>1, <3>2, <3>3 DEF Attached
  <2> QED BY <1>t, <1>1, <2>2, <2>3 DEF SubInv, Complete
<1> QED BY <1>2, <1>3

(***************************************************************************)
(* A step of the process or its pump, on incarnation i.                    *)
(***************************************************************************)
OutStep(i, p) ==
    /\ p \in OutType
    /\ p.pumped <= p.wrote
    /\ ~p.open => p.pumped = p.wrote /\ ~p.held
    /\ out' = [out EXCEPT ![i] = p]
    /\ UNCHANGED subs

LEMMA OutNext ==
    ASSUME Inv, IncTypeOK', inc <= inc', NEW i \in Inc, NEW p, OutStep(i, p),
           \/ i > inc
           \/ /\ \/ p.sent = out[i].sent /\ p.pumped = out[i].pumped
                 \/ /\ p.pumped = out[i].pumped + 1
                    /\ p.sent = IF HasReceiver(i) THEN Append(out[i].sent, out[i].pumped + 1)
                                ELSE out[i].sent
              /\ ~out[i].held /\ ~out[i].open => ~p.held /\ ~p.open /\ p.wrote = out[i].wrote
    PROVE  Inv'
<1>t. /\ out \in [Inc -> OutType] /\ subs \in [Sub -> SubType]
      /\ inc \in Nat /\ inc' \in Nat
  BY DEF Inv, Typed, IncTypeOK
<1>1. Typed'
  BY <1>t DEF OutStep, Typed
<1>2. \A j \in Inc : OutInv(j)'
  <2>1. ASSUME NEW j \in Inc PROVE OutInv(j)'
    <3>1. CASE j = i
      BY <1>t, <3>1 DEF OutStep, OutInv
    <3>2. CASE j # i
      BY <1>t, <3>2 DEF OutStep, OutInv, Inv
    <3> QED BY <3>1, <3>2
  <2> QED BY <2>1
<1>3. ASSUME NEW s \in Sub PROVE SubInv(s)'
  <2>s. /\ subs[s].inc \in 0 .. MaxInc /\ subs[s].inc \in Nat /\ SubInv(s) /\ subs[s].inc <= inc
        /\ Typed /\ subs' = subs
    BY <1>t DEF SubType, Inv, SubInv, OutStep
  <2>1. CASE subs[s].inc # i /\ subs[s].inc # 0
    <3>1. subs[s].inc \in Inc
      BY <2>s, <2>1, IncarnationsAssumption DEF Inc
    <3>2. out[subs[s].inc] \in OutType /\ out'[subs[s].inc] = out[subs[s].inc]
      BY <1>t, <2>1, <3>1 DEF OutStep
    <3> QED BY <1>t, <2>s, <3>2, Undisturbed
  <2>2. CASE subs[s].inc = 0
    <3>1. out[i] \in OutType
      BY <1>t
    <3> QED BY <1>t, <2>s, <2>2, <3>1, Undisturbed
  <2>3. CASE subs[s].inc = i
    <3>1. out[i] \in OutType /\ out'[i] = p /\ p \in OutType
      BY <1>t DEF OutStep
    <3>2. subs[s].pc = "streaming" => HasReceiver(i)
      BY <2>3 DEF HasReceiver, Streaming
    <3>3. ~(i > inc)
      BY <1>t, <2>s, <2>3
    <3> QED BY <1>t, <2>s, <2>3, <3>1, <3>2, <3>3, Undisturbed
  <2> QED BY <2>1, <2>2, <2>3
<1> QED BY <1>1, <1>2, <1>3 DEF Inv

\* A step that changes the handle only.
LEMMA HandleNext ==
    ASSUME Inv, UNCHANGED <<out, subs>>, IncTypeOK', inc <= inc'
    PROVE  Inv'
<1>1. 1 \in Inc /\ out \in [Inc -> OutType]
  BY IncarnationsAssumption DEF Inc, Inv, Typed
<1>2. OutStep(1, out[1])
  BY <1>1 DEF Inv, OutInv, OutStep
<1> QED BY <1>1, <1>2, OutNext

\* The process and its pump, one step per action.
LEMMA ProcessNext ==
    ASSUME Inv, LaunchChild \/ Exit \/ \E i \in Inc : CloseStdout(i) \/ Write(i) \/ PumpStep(i)
    PROVE  Inv'
<1>t. /\ out \in [Inc -> OutType] /\ IncTypeOK /\ inc \in 0 .. MaxInc
      /\ MaxInc \in Nat /\ MaxOutput \in Nat /\ Inc = 1 .. MaxInc
  BY IncarnationsAssumption, StdoutAssumption DEF Inv, Typed, IncTypeOK, Inc
<1>1. CASE LaunchChild
  <2>1. IncTypeOK' /\ inc <= inc'
    BY <1>1, <1>t, IncStep DEF LaunchChild
  <2>2. inc + 1 \in Inc /\ inc + 1 > inc
    BY <1>1, <1>t DEF LaunchChild, Launch
  <2>3. NewOut \in OutType
    BY <1>t, Fresh DEF NewOut
  <2>4. NewOut.pumped = 0 /\ NewOut.wrote = 0 /\ NewOut.open
    BY DEF NewOut, NoOut
  <2>5. OutStep(inc + 1, NewOut)
    BY <1>1, <2>3, <2>4 DEF LaunchChild, OutStep
  <2> QED BY <2>1, <2>2, <2>5, OutNext
<1>2. ASSUME NEW i \in Inc, NEW held \in BOOLEAN, held => out[i].held,
             out' = [out EXCEPT ![i].held = held], UNCHANGED subs, IncTypeOK', inc <= inc'
      PROVE  Inv'
  <2> DEFINE p == [out[i] EXCEPT !.held = held]
  <2>1. out[i] \in OutType /\ OutInv(i)
    BY <1>t DEF Inv
  <2>2. p \in OutType
    BY <2>1 DEF OutType
  <2>3. /\ p.held = held /\ p.open = out[i].open /\ p.wrote = out[i].wrote
        /\ p.pumped = out[i].pumped /\ p.sent = out[i].sent
    BY <2>1 DEF OutType
  <2>4. out' = [out EXCEPT ![i] = p]
    BY <1>2
  <2> HIDE DEF p
  <2>5. OutStep(i, p)
    BY <1>2, <2>1, <2>2, <2>3, <2>4 DEF OutStep, OutInv
  <2> QED BY <1>2, <2>3, <2>5, OutNext
<1>3. CASE Exit
  <2>1. PICK held \in {FALSE, out[inc].held} : out' = [out EXCEPT ![inc].held = held]
    BY <1>3 DEF Exit
  <2>2. IncTypeOK' /\ inc <= inc'
    BY <1>3, <1>t, IncStep DEF Exit
  <2>3. CASE inc = 0
    <3>1. out' = out
      BY <1>t, <2>1, <2>3
    <3> QED BY <1>3, <2>2, <3>1, HandleNext DEF Exit
  <2>4. CASE inc # 0
    <3>1. inc \in Inc
      BY <1>t, <2>4
    <3>2. held \in BOOLEAN /\ (held => out[inc].held)
      BY <1>t, <2>1, <3>1 DEF OutType
    <3> QED BY <1>2, <1>3, <2>1, <2>2, <3>1, <3>2 DEF Exit
  <2> QED BY <2>3, <2>4
<1>u. UNCHANGED incVars => IncTypeOK' /\ inc <= inc'
  BY <1>t, IncStep
<1>4. ASSUME NEW i \in Inc, CloseStdout(i) PROVE Inv'
  BY <1>2, <1>4, <1>u DEF CloseStdout
<1>5. ASSUME NEW i \in Inc, Write(i) PROVE Inv'
  <2> DEFINE p == [out[i] EXCEPT !.wrote = out[i].wrote + 1]
  <2>1. out[i] \in OutType /\ OutInv(i) /\ out[i].held /\ out[i].wrote < MaxOutput
    BY <1>5, <1>t DEF Inv, Write
  <2>2. p \in OutType
    <3>1. out[i].wrote \in 0 .. MaxOutput /\ MaxOutput \in Nat
      BY <2>1, StdoutAssumption DEF OutType
    <3>2. ASSUME NEW x \in 0 .. MaxOutput, x < MaxOutput, MaxOutput \in Nat
          PROVE  x + 1 \in 0 .. MaxOutput
      BY <3>2
    <3> QED BY <2>1, <3>1, <3>2 DEF OutType
  <2>3. /\ p.held = out[i].held /\ p.open = out[i].open /\ p.wrote = out[i].wrote + 1
        /\ p.pumped = out[i].pumped /\ p.sent = out[i].sent
    BY <2>1 DEF OutType
  <2>4. out' = [out EXCEPT ![i] = p] /\ UNCHANGED subs
    BY <1>5 DEF Write
  <2>5. out[i].wrote \in Nat /\ out[i].pumped \in Nat
    BY <1>t, <2>1 DEF OutType
  <2> HIDE DEF p
  <2>6. OutStep(i, p)
    BY <2>1, <2>2, <2>3, <2>4, <2>5 DEF OutStep, OutInv
  <2> QED BY <1>5, <1>u, <2>1, <2>3, <2>6, OutNext DEF Write
<1>6. ASSUME NEW i \in Inc, Pump(i) PROVE Inv'
  <2> DEFINE sent == IF HasReceiver(i) THEN Append(out[i].sent, out[i].pumped + 1)
                     ELSE out[i].sent
             p == [out[i] EXCEPT !.pumped = out[i].pumped + 1, !.sent = sent]
  <2>1. out[i] \in OutType /\ OutInv(i) /\ out[i].open /\ out[i].pumped < out[i].wrote
    BY <1>6, <1>t DEF Inv, Pump
  <2>2. /\ out[i].wrote \in 0 .. MaxOutput /\ out[i].pumped \in 0 .. MaxOutput
        /\ out[i].sent \in Seq(Chunk)
    BY <2>1 DEF OutType
  <2>3. out[i].pumped + 1 \in Chunk /\ out[i].pumped + 1 \in 0 .. MaxOutput
    BY <1>t, <2>1, <2>2 DEF Chunk
  <2>4. sent \in Seq(Chunk)
    BY <2>2, <2>3, AppendProperties
  <2>5. out' = [out EXCEPT ![i] = p] /\ UNCHANGED subs
    BY <1>6 DEF Pump
  <2> HIDE DEF sent
  <2>6. p \in OutType
    BY <2>1, <2>3, <2>4 DEF OutType
  <2>7. /\ p.held = out[i].held /\ p.open = out[i].open /\ p.wrote = out[i].wrote
        /\ p.pumped = out[i].pumped + 1 /\ p.sent = sent
    BY <2>1 DEF OutType
  <2> HIDE DEF p
  <2>8. p.pumped <= p.wrote
    BY <2>1, <2>2, <2>7
  <2>9. OutStep(i, p)
    BY <2>1, <2>5, <2>6, <2>7, <2>8 DEF OutStep
  <2> QED BY <1>6, <1>u, <2>1, <2>7, <2>9, OutNext DEF Pump, sent
<1>7. ASSUME NEW i \in Inc, PumpEof(i) PROVE Inv'
  <2> DEFINE p == [out[i] EXCEPT !.open = FALSE]
  <2>1. out[i] \in OutType /\ OutInv(i) /\ AtEof(i)
    BY <1>7, <1>t DEF Inv, PumpEof
  <2>2. p \in OutType
    BY <2>1 DEF OutType
  <2>3. /\ p.held = out[i].held /\ p.open = FALSE /\ p.wrote = out[i].wrote
        /\ p.pumped = out[i].pumped /\ p.sent = out[i].sent
    BY <2>1 DEF OutType
  <2>4. out' = [out EXCEPT ![i] = p] /\ UNCHANGED subs
    BY <1>7 DEF PumpEof
  <2> HIDE DEF p
  <2>5. OutStep(i, p)
    BY <2>1, <2>2, <2>3, <2>4 DEF OutStep, OutInv, AtEof
  <2> QED BY <1>7, <1>u, <2>3, <2>5, OutNext DEF PumpEof
<1> QED BY <1>1, <1>3, <1>4, <1>5, <1>6, <1>7 DEF PumpStep

----------------------------------------------------------------------------
\* A step of one subscription changes no other.
LEMMA SubNext ==
    ASSUME Inv, NEW s \in Sub, NEW r \in SubType, subs' = [subs EXCEPT ![s] = r],
           UNCHANGED <<incVars, out>>, SubInv(s)'
    PROVE  Inv'
<1>t. subs \in [Sub -> SubType]
  BY DEF Inv, Typed
<1>1. Typed'
  BY <1>t DEF Inv, Typed, IncTypeOK, incVars
<1>2. \A i \in Inc : OutInv(i)'
  BY DEF Inv, OutInv
<1>3. ASSUME NEW q \in Sub, q # s PROVE SubInv(q)'
  <2>1. subs'[q] = subs[q] /\ SubInv(q)
    BY <1>t, <1>3 DEF Inv
  <2> QED BY <2>1 DEF SubInv, InOrder, Attached, Complete, Sofar, incVars
<1> QED BY <1>1, <1>2, <1>3 DEF Inv

LEMMA SubscribeNext ==
    ASSUME Inv, NEW s \in Sub, Subscribe(s)
    PROVE  Inv'
<1>t. /\ out \in [Inc -> OutType] /\ subs \in [Sub -> SubType]
      /\ inc \in 0 .. MaxInc /\ entry \in 0 .. inc /\ MaxInc \in Nat /\ MaxOutput \in Nat
  BY IncarnationsAssumption, StdoutAssumption DEF Inv, Typed, IncTypeOK
<1>e. <<>> \in Seq(Chunk) /\ Len(<<>>) = 0
  BY EmptySeq
<1>u. UNCHANGED <<incVars, out>> /\ inc' = inc
  BY DEF Subscribe, incVars
<1>1. CASE entry = 0
  <2> DEFINE r == [NoSub EXCEPT !.pc = "refused"]
  <2>1. subs' = [subs EXCEPT ![s] = r]
    BY <1>1 DEF Subscribe
  <2>2. r \in SubType
    BY Fresh DEF SubType, SubPc
  <2>3. r.inc = 0 /\ r.pc = "refused" /\ r.got = <<>>
    BY DEF NoSub
  <2> HIDE DEF r
  <2>4. subs'[s] = r
    BY <1>t, <2>1
  <2>5. SubInv(s)'
    BY <1>t, <1>e, <1>u, <2>3, <2>4 DEF SubInv, InOrder
  <2> QED BY <1>u, <2>1, <2>2, <2>5, SubNext
<1>2. CASE entry # 0
  <2> DEFINE o == out[entry]
             r == [NoSub EXCEPT !.pc = "streaming", !.inc = entry,
                                !.from = o.pumped, !.pos = Len(o.sent)]
  <2>o. entry \in Inc /\ o \in OutType
    BY <1>t, <1>2 DEF Inc
  <2>p. o.pumped \in 0 .. MaxOutput /\ o.sent \in Seq(Chunk) /\ Len(o.sent) \in Nat
    BY <2>o DEF OutType
  <2>1. subs' = [subs EXCEPT ![s] = r]
    BY <1>2 DEF Subscribe
  <2> HIDE DEF o
  <2>2. r \in SubType
    <3>1. entry \in 0 .. MaxInc /\ o.pumped \in 0 .. MaxOutput /\ Len(o.sent) \in Nat
      BY <1>t, <2>p
    <3>2. NoSub \in SubType
      BY Fresh
    <3> QED BY <3>1, <3>2 DEF SubType, SubPc
  <2>3. /\ r.inc = entry /\ r.pc = "streaming" /\ r.got = <<>> /\ r.lagged = 0
        /\ r.from = o.pumped /\ r.pos = Len(o.sent)
    BY DEF NoSub
  <2> HIDE DEF r
  <2>4. subs'[s] = r /\ out'[entry] = o
    BY <1>t, <1>u, <2>1 DEF o
  <2>5. Sofar(s)' = o.pumped
    BY <1>e, <2>p, <2>3, <2>4 DEF Sofar
  <2>6. Attached(s)'
    BY <2>p, <2>3, <2>4, <2>5 DEF Attached
  <2>7. InOrder(s)'
    BY <1>e, <2>3, <2>4 DEF InOrder
  <2>8. SubInv(s)'
    BY <1>t, <1>u, <1>2, <2>p, <2>3, <2>4, <2>6, <2>7 DEF SubInv
  <2> QED BY <1>u, <2>1, <2>2, <2>8, SubNext
<1> QED BY <1>1, <1>2

\* The relay: the next chunk, or what was missed.
LEMMA RelayNext ==
    ASSUME Inv, NEW s \in Sub, Relay(s)
    PROVE  Inv'
<1> DEFINE q == subs[s]
           o == out[q.inc]
<1>t. /\ subs \in [Sub -> SubType] /\ q \in SubType /\ SubInv(s) /\ q.pc = "streaming"
  BY DEF Inv, Typed, Relay
<1>q. /\ q.inc \in Nat /\ q.inc \in 0 .. MaxInc /\ q.inc # 0 /\ q.from \in Nat /\ q.pos \in Nat
      /\ q.lagged \in Nat /\ q.got \in Seq(Chunk) /\ Len(q.got) \in Nat
  BY <1>t, IncarnationsAssumption, StdoutAssumption DEF SubType, SubInv
<1>o. o \in OutType /\ o.sent \in Seq(Chunk) /\ Len(o.sent) \in Nat
  <2>1. q.inc \in Inc /\ out \in [Inc -> OutType]
    BY <1>q, IncarnationsAssumption DEF Inv, Typed, Inc
  <2>2. o \in OutType
    BY <2>1
  <2> QED BY <2>2 DEF OutType
<1>u. UNCHANGED <<incVars, out>> /\ inc' = inc
  BY DEF Relay, incVars
<1>n. /\ q.from \in Nat /\ Len(q.got) \in Nat /\ q.lagged \in Nat /\ q.pos \in Nat
      /\ Len(o.sent) \in Nat
  BY <1>q, <1>o
<1>e. Sofar(s) = q.from + Len(q.got) + q.lagged
  BY DEF Sofar
<1>s. Sofar(s) = q.from + Len(q.got) + q.lagged /\ Sofar(s) \in Nat
  <2> HIDE DEF q, o
  <2>1. q.from + Len(q.got) + q.lagged \in Nat
    BY <1>n
  <2> QED BY <1>e, <2>1
<1>a. /\ \A k \in q.pos + 1 .. Len(o.sent) : o.sent[k] = Sofar(s) + (k - q.pos)
      /\ o.pumped = Sofar(s) + (Len(o.sent) - q.pos)
      /\ q.pos < Len(o.sent) /\ q.inc <= inc
  BY <1>t DEF SubInv, Attached, Relay, Channel
<1>i. /\ \A k \in 1 .. Len(q.got) : q.got[k] > IF k = 1 THEN q.from ELSE q.got[k - 1]
      /\ q.got # <<>> => q.got[Len(q.got)] <= Sofar(s)
  BY <1>t DEF SubInv, InOrder
<1>m. /\ Missed(s) \in Nat
      /\ Missed(s) > 0 => q.pos + Missed(s) <= Len(o.sent)
  <2>1. Missed(s) = IF Len(o.sent) > q.pos + STDOUT_CAP
                    THEN Len(o.sent) - STDOUT_CAP - q.pos ELSE 0
    BY DEF Missed, Channel
  <2> HIDE DEF q, o
  <2> QED BY <1>n, <2>1, StdoutAssumption
<1>r. subs' = [subs EXCEPT ![s] =
                 IF Missed(s) > 0 THEN Lag(s)
                 ELSE [q EXCEPT !.pos = q.pos + 1,
                                !.got = Append(q.got, o.sent[q.pos + 1])]]
  BY DEF Relay, Channel
<1> HIDE DEF q, o
<1>1. CASE Missed(s) > 0
  <2> DEFINE m == Missed(s)
             r == [q EXCEPT !.pos = q.pos + m, !.lagged = q.lagged + m]
  <2>1. subs' = [subs EXCEPT ![s] = r]
    BY <1>r, <1>1 DEF Lag, q
  <2> HIDE DEF m
  <2>m. m \in Nat /\ q.pos + m <= Len(o.sent) /\ q.pos + m \in Nat /\ q.lagged + m \in Nat
    BY <1>m, <1>q, <1>1 DEF m
  <2>2. r \in SubType
    BY <1>t, <2>m DEF SubType
  <2>3. /\ r.pc = "streaming" /\ r.inc = q.inc /\ r.from = q.from /\ r.pos = q.pos + m
        /\ r.got = q.got /\ r.lagged = q.lagged + m
    BY <1>t DEF SubType
  <2> HIDE DEF r
  <2>4. subs'[s] = r /\ out'[q.inc] = o
    BY <1>t, <1>u, <2>1 DEF o
  <2>5. Sofar(s)' = Sofar(s) + m
    <3>1. Sofar(s)' = q.from + Len(q.got) + (q.lagged + m)
      BY <2>3, <2>4 DEF Sofar
    <3> QED BY <1>n, <1>e, <2>m, <3>1
  <2>6. InOrder(s)'
    <3>1. q.got # <<>> => q.got[Len(q.got)] <= Sofar(s) + m
      <4> SUFFICES ASSUME q.got # <<>> PROVE q.got[Len(q.got)] <= Sofar(s) + m
        OBVIOUS
      <4>1. q.got[Len(q.got)] \in Chunk
        BY <1>q, ElementOfSeq, EmptySeq
      <4>2. q.got[Len(q.got)] \in Nat
        BY <4>1, StdoutAssumption DEF Chunk
      <4> QED BY <1>i, <1>s, <2>m, <4>2
    <3> QED BY <1>i, <2>3, <2>4, <2>5, <3>1 DEF InOrder
  <2>7. Attached(s)'
    <3>1. o.pumped = (Sofar(s) + m) + (Len(o.sent) - (q.pos + m))
      <4>1. o.pumped = Sofar(s) + (Len(o.sent) - q.pos) /\ Sofar(s) \in Nat
        BY <1>a, <1>s
      <4>2. Len(o.sent) \in Nat /\ q.pos \in Nat /\ m \in Nat
        BY <1>n, <2>m
      <4>3. Sofar(s) + (Len(o.sent) - q.pos) = (Sofar(s) + m) + (Len(o.sent) - (q.pos + m))
        BY <4>1, <4>2, Shifted, SMTT(30)
      <4> QED BY <4>1, <4>3
    <3>2. ASSUME NEW k \in (q.pos + m) + 1 .. Len(o.sent)
          PROVE  o.sent[k] = (Sofar(s) + m) + (k - (q.pos + m))
      <4>1. k \in q.pos + 1 .. Len(o.sent) /\ k \in Int
        BY <1>q, <1>o, <2>m
      <4>2. o.sent[k] = Sofar(s) + (k - q.pos)
        BY <1>a, <4>1
      <4> QED BY <1>s, <1>q, <2>m, <4>1, <4>2
    <3> QED BY <2>3, <2>4, <2>5, <3>1, <3>2 DEF Attached
  <2>8. SubInv(s)'
    BY <1>u, <1>q, <1>a, <2>m, <2>3, <2>4, <2>6, <2>7 DEF SubInv
  <2> QED BY <1>u, <2>1, <2>2, <2>8, SubNext
<1>2. CASE ~(Missed(s) > 0)
  <2> DEFINE c == o.sent[q.pos + 1]
             got == Append(q.got, c)
             r == [q EXCEPT !.pos = q.pos + 1, !.got = got]
  <2>1. subs' = [subs EXCEPT ![s] = r]
    BY <1>r, <1>2
  <2>c. q.pos + 1 \in 1 .. Len(o.sent) /\ q.pos + 1 \in q.pos + 1 .. Len(o.sent)
    BY <1>q, <1>o, <1>a
  <2>d. c \in Chunk /\ c = Sofar(s) + 1
    <3>1. c \in Chunk
      BY <1>o, <2>c, ElementOfSeq
    <3>2. c = Sofar(s) + ((q.pos + 1) - q.pos)
      BY <1>a, <2>c
    <3> QED BY <1>s, <1>q, <3>1, <3>2
  <2> HIDE DEF c
  <2>g. /\ got \in Seq(Chunk) /\ Len(got) = Len(q.got) + 1 /\ got # <<>>
        /\ \A k \in 1 .. Len(q.got) : got[k] = q.got[k]
        /\ got[Len(q.got) + 1] = c
    BY <1>q, <2>d, AppendProperties
  <2> HIDE DEF got
  <2>2. r \in SubType
    <3>1. q.pos + 1 \in Nat /\ got \in Seq(Chunk)
      BY <1>n, <2>g
    <3> QED BY <1>t, <3>1 DEF SubType
  <2>3. /\ r.pc = "streaming" /\ r.inc = q.inc /\ r.from = q.from /\ r.pos = q.pos + 1
        /\ r.got = got /\ r.lagged = q.lagged
    BY <1>t DEF SubType
  <2> HIDE DEF r
  <2>4. subs'[s] = r /\ out'[q.inc] = o
    BY <1>t, <1>u, <2>1 DEF o
  <2>5. Sofar(s)' = Sofar(s) + 1
    <3>1. Sofar(s)' = q.from + Len(got) + q.lagged
      BY <2>3, <2>4 DEF Sofar
    <3>2. Len(got) = Len(q.got) + 1
      BY <2>g
    <3> QED BY <1>n, <1>e, <3>1, <3>2
  <2>6. InOrder(s)'
    <3>1. ASSUME NEW k \in 1 .. Len(got)
          PROVE  got[k] > IF k = 1 THEN q.from ELSE got[k - 1]
      <4>1. CASE k \in 1 .. Len(q.got)
        <5>1. CASE k = 1
          BY <1>i, <2>g, <4>1, <5>1
        <5>2. CASE k # 1
          <6>1. k - 1 \in 1 .. Len(q.got)
            BY <1>q, <4>1, <5>2
          <6> QED BY <1>i, <2>g, <4>1, <5>2, <6>1
        <5> QED BY <5>1, <5>2
      <4>2. CASE k = Len(q.got) + 1
        <5>1. got[k] = Sofar(s) + 1
          BY <2>d, <2>g, <4>2
        <5>2. CASE k = 1
          <6>1. Sofar(s) + 1 > q.from
            BY <1>q, <1>s
          <6> QED BY <5>1, <5>2, <6>1
        <5>3. CASE k # 1
          <6>1. k - 1 = Len(q.got) /\ Len(q.got) \in 1 .. Len(q.got)
            BY <1>q, <4>2, <5>3
          <6>2. q.got # <<>>
            BY <6>1, EmptySeq
          <6>3. q.got[Len(q.got)] \in Nat /\ q.got[Len(q.got)] <= Sofar(s)
            <7>1. q.got[Len(q.got)] \in Chunk
              BY <1>q, <6>1, ElementOfSeq
            <7> QED BY <1>i, <6>2, <7>1, StdoutAssumption DEF Chunk
          <6>4. got[k - 1] = q.got[Len(q.got)]
            BY <2>g, <6>1
          <6>5. Sofar(s) + 1 > q.got[Len(q.got)]
            BY <1>s, <6>3
          <6> QED BY <5>1, <5>3, <6>4, <6>5
        <5> QED BY <5>2, <5>3
      <4> QED BY <1>q, <2>g, <4>1, <4>2
    <3>2. got[Len(got)] <= Sofar(s) + 1
      BY <1>s, <2>d, <2>g
    <3> QED BY <2>3, <2>4, <2>5, <3>1, <3>2 DEF InOrder
  <2>7. Attached(s)'
    <3>1. o.pumped = (Sofar(s) + 1) + (Len(o.sent) - (q.pos + 1))
      <4>1. o.pumped = Sofar(s) + (Len(o.sent) - q.pos) /\ Sofar(s) \in Nat
        BY <1>a, <1>s
      <4>2. Len(o.sent) \in Nat /\ q.pos \in Nat /\ 1 \in Nat
        BY <1>n
      <4>3. Sofar(s) + (Len(o.sent) - q.pos) = (Sofar(s) + 1) + (Len(o.sent) - (q.pos + 1))
        BY <4>1, <4>2, Shifted, SMTT(30)
      <4> QED BY <4>1, <4>3
    <3>2. ASSUME NEW k \in (q.pos + 1) + 1 .. Len(o.sent)
          PROVE  o.sent[k] = (Sofar(s) + 1) + (k - (q.pos + 1))
      <4>1. k \in q.pos + 1 .. Len(o.sent) /\ k \in Int
        BY <1>q, <1>o
      <4>2. o.sent[k] = Sofar(s) + (k - q.pos)
        BY <1>a, <4>1
      <4> QED BY <1>s, <1>q, <4>1, <4>2
    <3> QED BY <2>3, <2>4, <2>5, <3>1, <3>2 DEF Attached
  <2>8. SubInv(s)'
    BY <1>u, <1>q, <1>o, <1>a, <2>3, <2>4, <2>6, <2>7 DEF SubInv
  <2> QED BY <1>u, <2>1, <2>2, <2>8, SubNext
<1> QED BY <1>1, <1>2


\* The end of a stream: the pump has read everything there will ever be.
LEMMA FinishNext ==
    ASSUME Inv, NEW s \in Sub, Finish(s)
    PROVE  Inv'
<1> DEFINE r == [subs[s] EXCEPT !.pc = "finished"]
<1>t. /\ subs \in [Sub -> SubType] /\ subs[s] \in SubType /\ SubInv(s)
      /\ subs[s].pc = "streaming"
  BY DEF Inv, Typed, Finish
<1>u. UNCHANGED <<incVars, out>> /\ inc' = inc /\ subs' = [subs EXCEPT ![s] = r]
  BY DEF Finish, incVars
<1>1. r \in SubType
  BY <1>t DEF SubType, SubPc
<1>2. /\ r.pc = "finished" /\ r.inc = subs[s].inc /\ r.from = subs[s].from
      /\ r.pos = subs[s].pos /\ r.got = subs[s].got /\ r.lagged = subs[s].lagged
  BY <1>t DEF SubType
<1> HIDE DEF r
<1>3. subs'[s] = r
  BY <1>t, <1>u
<1>4. Sofar(s)' = Sofar(s) /\ InOrder(s)'
  BY <1>t, <1>2, <1>3 DEF Sofar, SubInv, InOrder
<1> DEFINE o == out[subs[s].inc]
<1>5. subs[s].inc \in Inc /\ o \in OutType /\ OutInv(subs[s].inc)
  <2>1. subs[s].inc \in 0 .. MaxInc /\ subs[s].inc # 0
    BY <1>t DEF SubType, SubInv
  <2>2. subs[s].inc \in Inc
    BY <2>1, IncarnationsAssumption DEF Inc
  <2> QED BY <2>2 DEF Inv, Typed
<1>6. ~o.open /\ o.pumped = o.wrote /\ ~o.held
  BY <1>5 DEF Finish, OutInv
<1>7. Sofar(s) = o.wrote
  <2>1. subs[s].pos = Len(o.sent) /\ o.pumped = Sofar(s) + (Len(o.sent) - subs[s].pos)
    BY <1>t DEF Finish, Channel, SubInv, Attached
  <2>2. subs[s].pos \in Nat /\ Sofar(s) \in Nat
    <3>1. subs[s].from \in Nat /\ Len(subs[s].got) \in Nat /\ subs[s].lagged \in Nat
      BY <1>t, StdoutAssumption DEF SubType
    <3> QED BY <1>t, <3>1 DEF SubType, Sofar
  <2>3. Sofar(s) + (Len(o.sent) - subs[s].pos) = Sofar(s)
    <3>1. \A a \in Nat, b \in Nat : a + (b - b) = a
      OBVIOUS
    <3> QED BY <2>1, <2>2, <3>1, Zenon
  <2> QED BY <1>6, <2>1, <2>3
<1>8. Complete(s)'
  BY <1>u, <1>2, <1>3, <1>4, <1>6, <1>7 DEF Complete
<1>9. SubInv(s)'
  BY <1>t, <1>u, <1>2, <1>3, <1>4, <1>8 DEF SubInv
<1> QED BY <1>u, <1>1, <1>9, SubNext

\* A client that is gone.
LEMMA BrokenNext ==
    ASSUME Inv, NEW s \in Sub, Broken(s)
    PROVE  Inv'
<1> DEFINE r == [subs[s] EXCEPT !.pc = "broken"]
<1>t. subs \in [Sub -> SubType] /\ subs[s] \in SubType /\ SubInv(s)
  BY DEF Inv, Typed
<1>u. UNCHANGED <<incVars, out>> /\ inc' = inc /\ subs' = [subs EXCEPT ![s] = r]
  BY DEF Broken, incVars
<1>1. r \in SubType
  BY <1>t DEF SubType, SubPc
<1>2. /\ r.pc = "broken" /\ r.inc = subs[s].inc /\ r.from = subs[s].from
      /\ r.pos = subs[s].pos /\ r.got = subs[s].got /\ r.lagged = subs[s].lagged
  BY <1>t DEF SubType
<1> HIDE DEF r
<1>3. subs'[s] = r
  BY <1>t, <1>u
<1>4. Sofar(s)' = Sofar(s) /\ InOrder(s)'
  BY <1>t, <1>2, <1>3 DEF Sofar, SubInv, InOrder
<1>5. SubInv(s)'
  BY <1>t, <1>u, <1>2, <1>3, <1>4 DEF SubInv
<1> QED BY <1>u, <1>1, <1>5, SubNext

----------------------------------------------------------------------------
LEMMA InvInit == Init => Inv
<1> SUFFICES ASSUME Init PROVE Inv
  OBVIOUS
<1>1. IncTypeOK /\ inc \in Nat
  <2>1. inc \in {0, MaxInc} /\ entry = inc /\ MaxInc \in Nat
    BY IncarnationsAssumption DEF Init, IncInit
  <2>2. inc \in 0 .. MaxInc /\ entry \in 0 .. inc
    BY <2>1
  <2>3. inc \in Nat
    BY <2>1
  <2>4. live \in BOOLEAN /\ pending \in BOOLEAN
    BY DEF Init, IncInit
  <2> QED BY <2>2, <2>3, <2>4 DEF IncTypeOK
<1>2. Typed
  BY <1>1, Fresh DEF Init, Typed
<1>3. \A i \in Inc : OutInv(i)
  BY DEF Init, OutInv, NoOut
<1>4. ASSUME NEW s \in Sub PROVE SubInv(s)
  <2>1. subs[s] = NoSub /\ 0 <= inc
    BY <1>1 DEF Init
  <2>2. NoSub.pc = "idle" /\ NoSub.inc = 0 /\ NoSub.got = <<>>
    BY DEF NoSub
  <2>3. Len(<<>>) = 0
    BY Fresh
  <2> QED BY <2>1, <2>2, <2>3 DEF SubInv, InOrder
<1> QED BY <1>2, <1>3, <1>4 DEF Inv

LEMMA InvNext == Inv /\ [Next]_vars => Inv'
<1> SUFFICES ASSUME Inv, [Next]_vars PROVE Inv'
  OBVIOUS
<1>t. IncTypeOK
  BY DEF Inv, Typed
<1>1. CASE Track
  <2>1. IncTypeOK' /\ inc <= inc'
    BY <1>t, <1>1, IncStep DEF Track
  <2> QED BY <1>1, <2>1, HandleNext DEF Track
<1>2. CASE UNCHANGED vars
  <2>1. UNCHANGED incVars /\ UNCHANGED <<out, subs>>
    BY <1>2 DEF vars
  <2>2. IncTypeOK' /\ inc <= inc'
    BY <1>t, <2>1, IncStep
  <2> QED BY <2>1, <2>2, HandleNext
<1>3. CASE \E s \in Sub : Subscribe(s) \/ RelayStep(s) \/ Broken(s)
  BY <1>3, SubscribeNext, RelayNext, FinishNext, BrokenNext DEF RelayStep
<1>4. CASE LaunchChild \/ Exit \/ \E i \in Inc : CloseStdout(i) \/ Write(i) \/ PumpStep(i)
  BY <1>4, ProcessNext
<1> QED BY <1>1, <1>2, <1>3, <1>4 DEF Next

(***************************************************************************)
(* Inv holds throughout: subscribe takes the position of its receiver and  *)
(* the relay advances it only with what it forwards or skips as Lagged.    *)
(***************************************************************************)
THEOREM Invariance == Spec => []Inv
<1> QED BY InvInit, InvNext, PTL DEF Spec

(***************************************************************************)
(* The state is well typed: a chunk is read once it was written, and a     *)
(* receiver is never ahead of its channel (the pump, tokio's broadcast).   *)
(***************************************************************************)
THEOREM TypeCorrect == Spec => []TypeOK
<1>1. Inv => TypeOK
  BY DEF Inv, Typed, OutInv, SubInv, TypeOK, OutType, SubType
<1> QED BY <1>1, Invariance, PTL

(***************************************************************************)
(* Supervisor::subscribe loses nothing silently, for every capacity of the *)
(* channel, every relaunch and any number of subscribers: what a client    *)
(* misses of its incarnation's output is what Lagged reported.             *)
(***************************************************************************)
THEOREM NothingIsMissedSilently == Spec => []MissedIsReported
<1>1. Inv => MissedIsReported
  BY DEF Inv, SubInv, InOrder, Sofar, MissedIsReported
<1> QED BY <1>1, Invariance, PTL

(***************************************************************************)
(* A stream that RecvError::Closed ended is complete: the pump drops the   *)
(* Sender at the end of the output only, and not when the process dies, is *)
(* relaunched or forgotten.                                                *)
(***************************************************************************)
THEOREM EndedStreamsAreComplete == Spec => []EndedIsComplete
<1>1. Inv => EndedIsComplete
  BY DEF Inv, SubInv, Complete, Sofar, EndedIsComplete
<1> QED BY <1>1, Invariance, PTL
=============================================================================
