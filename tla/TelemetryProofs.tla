-------------------------- MODULE TelemetryProofs --------------------------
(***************************************************************************)
(* Telemetry, for any number of supervisors, runs and ticks, any clocks    *)
(* and any order of arrival.                                               *)
(***************************************************************************)
EXTENDS Telemetry, SequenceTheorems, TLAPS

(***************************************************************************)
(* The ticks of a run are numbered as they are published, they are about   *)
(* one handle, and the counter of a leaf is part of what the process has   *)
(* used.                                                                   *)
(***************************************************************************)
Numbered ==
    /\ \A n \in Node : pub[n].cpu <= used[n][pub[n].run]
    /\ \A t \in net : /\ t.run <= pub[t.from].run
                      /\ t.run = pub[t.from].run =>
                             t.seq <= pub[t.from].seq /\ t.handle = pub[t.from].handle
    /\ \A t, u \in net : t.from = u.from /\ t.run = u.run => t.handle = u.handle

(***************************************************************************)
(* What is printed of a supervisor has increasing numbers, none above the  *)
(* last accepted; and only usage is kept as a sample.                      *)
(***************************************************************************)
Watched ==
    /\ \A n \in Node, h \in Handle : prev[n][h] # NoSample => prev[n][h].cpu # NoUsage
    /\ \A k \in 1 .. Len(printed) : printed[k].seq <= latest_seq[printed[k].from]
    /\ \A j, k \in 1 .. Len(printed) :
          j < k /\ printed[j].from = printed[k].from => printed[j].seq < printed[k].seq

(***************************************************************************)
(* f remembers what the process had used when a tick was published.  No    *)
(* variable does, so the invariant says that there is such an f.           *)
(***************************************************************************)
HistType == [Node -> [Run -> [1 .. MaxSeq -> 0 .. MaxCpu]]]

UsedAt(f, t) == f[t.from][t.run][t.seq]

\* A counter is part of what was used.  Since tick t, a process has used at least
\* what its counter has gained.
Behind(f, t) ==
    /\ t.cpu <= UsedAt(f, t)
    /\ UsedAt(f, t) <= used[t.from][t.run]
    /\ t.run = pub[t.from].run /\ pub[t.from].proc = "running" /\ t.cpu # NoUsage
           => pub[t.from].cpu + UsedAt(f, t) <= used[t.from][t.run] + t.cpu

\* The same between two ticks of a run.
Between(f, t, u) ==
    t.from = u.from /\ t.run = u.run /\ t.seq < u.seq =>
        /\ UsedAt(f, t) <= UsedAt(f, u)
        /\ t.cpu # NoUsage /\ u.cpu # NoUsage
               => u.cpu + UsedAt(f, t) <= UsedAt(f, u) + t.cpu

\* Line i is about run r of supervisor n and its handle h.
LineOf(i, n, r, h) == printed[i].from = n /\ printed[i].run = r /\ printed[i].handle = h

\* A line about r was followed by one about another run with the same handle: one
\* more about r, and r is interrupted.
Followed(n, r, h) ==
    \E i, j \in 1 .. Len(printed) :
        /\ i < j /\ LineOf(i, n, r, h)
        /\ printed[j].from = n /\ printed[j].handle = h /\ printed[j].run # r

\* What was shown of r was used by the time of its accepted tick t, and t is the
\* last sample unless a line of another run has followed.
FromTick(f, n, r, t) ==
    /\ t.from = n /\ t.run = r /\ t.seq <= latest_seq[n] /\ t.cpu # NoUsage
    /\ shown[n][r] <= UsedAt(f, t)
    /\ \E i \in 1 .. Len(printed) : LineOf(i, n, r, t.handle)
    /\ prev[n][t.handle] = [cpu |-> t.cpu, ts |-> t.ts] \/ Followed(n, r, t.handle)

Accounted(f, n, r) ==
    Uninterrupted(n, r) => shown[n][r] = 0 \/ \E t \in net : FromTick(f, n, r, t)

History(f) ==
    /\ \A t \in net : Behind(f, t)
    /\ \A t, u \in net : Between(f, t, u)
    /\ \A n \in Node, r \in Run : Accounted(f, n, r)

IndInv(f) == TypeOK /\ Numbered /\ Watched /\ History(f)

Inv == \E f \in HistType : IndInv(f)

----------------------------------------------------------------------------
\* What the types say.
LEMMA Bounds ==
    /\ MaxRuns \in Nat /\ MaxRuns # 0 /\ MaxSeq \in Nat /\ MaxCpu \in Nat /\ MaxTime \in Nat
    /\ MaxSkew \in Nat
  BY TelemetryAssumption

LEMMA TickFacts ==
    ASSUME NEW t \in TickType
    PROVE  /\ t.from \in Node /\ t.run \in Run /\ t.run \in Nat /\ t.handle \in Handle
           /\ t.seq \in 1 .. MaxSeq /\ t.seq \in Nat /\ t.ts \in Time /\ t.cpu \in Int
           /\ t.cpu # NoUsage => t.cpu \in 0 .. MaxCpu /\ t.cpu \in Nat
<1>1. /\ t.from \in Node /\ t.run \in Run /\ t.seq \in 1 .. MaxSeq /\ t.ts \in Time
      /\ t.handle \in Handle /\ t.cpu \in {NoUsage} \cup 0 .. MaxCpu
  BY DEF TickType
<1>2. t.run \in Nat /\ t.seq \in Nat
  BY <1>1, Bounds DEF Run
<1>3. t.cpu \in Int /\ (t.cpu # NoUsage => t.cpu \in 0 .. MaxCpu /\ t.cpu \in Nat)
  BY <1>1, Bounds DEF NoUsage
<1> QED BY <1>1, <1>2, <1>3

LEMMA UsedAtFacts ==
    ASSUME NEW f \in HistType, NEW t \in TickType
    PROVE  UsedAt(f, t) \in 0 .. MaxCpu /\ UsedAt(f, t) \in Nat
<1>1. UsedAt(f, t) \in 0 .. MaxCpu
  BY TickFacts DEF HistType, UsedAt
<1> QED BY <1>1, Bounds

LEMMA PubFacts ==
    ASSUME NEW p \in Publisher
    PROVE  /\ p.run \in Run /\ p.run \in Nat /\ p.seq \in 0 .. MaxSeq /\ p.seq \in Nat
           /\ p.handle \in Handle
           /\ p.cpu \in 0 .. MaxCpu /\ p.cpu \in Nat
           /\ p.proc \in {"untracked", "running", "exited"}
<1>1. /\ p.run \in Run /\ p.handle \in Handle /\ p.seq \in 0 .. MaxSeq /\ p.cpu \in 0 .. MaxCpu
      /\ p.proc \in {"untracked", "running", "exited"}
  BY DEF Publisher
<1>2. p.run \in Nat /\ p.seq \in Nat /\ p.cpu \in Nat
  BY <1>1, Bounds DEF Run
<1> QED BY <1>1, <1>2

\* The greater of two, which saturates a difference at zero.
LEMMA MaxFacts ==
    ASSUME NEW x \in Int
    PROVE  /\ Max({x, 0}) \in Nat
           /\ x >= 0 => Max({x, 0}) = x
           /\ x <= 0 => Max({x, 0}) = 0
<1>1. \E m \in {x, 0} : \A y \in {x, 0} : m >= y
  <2>1. CASE x >= 0
    <3>1. \A y \in {x, 0} : x >= y
      BY <2>1
    <3> QED BY <3>1
  <2>2. CASE ~(x >= 0)
    <3>1. \A y \in {x, 0} : 0 >= y
      BY <2>2
    <3> QED BY <3>1
  <2> QED BY <2>1, <2>2
<1>2. Max({x, 0}) \in {x, 0} /\ \A y \in {x, 0} : Max({x, 0}) >= y
  BY <1>1, Zenon DEF Max
<1> DEFINE m == Max({x, 0})
<1>3. (m = x \/ m = 0) /\ m >= x /\ m >= 0
  BY <1>2, Zenon
<1> HIDE DEF m
<1>4. m \in Nat /\ (x >= 0 => m = x) /\ (x <= 0 => m = 0)
  BY <1>3
<1> QED BY <1>4 DEF m

----------------------------------------------------------------------------
(***************************************************************************)
(* A step of supervisor n that publishes nothing.                          *)
(***************************************************************************)
LEMMA NodeNext ==
    ASSUME NEW f \in HistType, IndInv(f), NEW n \in Node,
           NEW p \in Publisher, NEW v \in [Run -> 0 .. MaxCpu],
           pub' = [pub EXCEPT ![n] = p], used' = [used EXCEPT ![n] = v],
           UNCHANGED <<now, net, latest_seq, prev, printed, shown>>,
           p.cpu <= v[p.run],
           \A t \in net : t.from = n =>
               /\ t.run <= p.run
               /\ t.run = p.run => t.seq <= p.seq /\ t.handle = p.handle
               /\ UsedAt(f, t) <= v[t.run]
               /\ t.run = p.run /\ p.proc = "running" /\ t.cpu # NoUsage
                      => p.cpu + UsedAt(f, t) <= v[t.run] + t.cpu
    PROVE  IndInv(f)'
<1>t. pub \in [Node -> Publisher] /\ used \in [Node -> [Run -> 0 .. MaxCpu]]
  BY DEF IndInv, TypeOK
<1>1. TypeOK'
  BY <1>t DEF IndInv, TypeOK
<1>2. /\ pub'[n] = p /\ used'[n] = v
      /\ \A m \in Node \ {n} : pub'[m] = pub[m] /\ used'[m] = used[m]
  BY <1>t
<1>f. \A t \in net : t.from \in Node
  BY TickFacts DEF IndInv, TypeOK
<1>3. Numbered'
  <2>1. \A m \in Node : pub'[m].cpu <= used'[m][pub'[m].run]
    BY <1>2 DEF IndInv, Numbered
  <2>2. \A t \in net : /\ t.run <= pub'[t.from].run
                       /\ t.run = pub'[t.from].run =>
                              t.seq <= pub'[t.from].seq /\ t.handle = pub'[t.from].handle
    BY <1>2, <1>f DEF IndInv, Numbered
  <2> QED BY <2>1, <2>2 DEF IndInv, Numbered
<1>4. Watched'
  BY DEF IndInv, Watched
<1>5. \A t \in net : Behind(f, t)'
  <2>1. ASSUME NEW t \in net PROVE Behind(f, t)'
    <3>1. CASE t.from = n
      BY <1>2, <3>1 DEF IndInv, History, Behind, UsedAt
    <3>2. CASE t.from # n
      <4>1. Behind(f, t) /\ pub'[t.from] = pub[t.from] /\ used'[t.from] = used[t.from]
        BY <1>2, <1>f, <3>2 DEF IndInv, History
      <4> QED BY <4>1 DEF Behind, UsedAt
    <3> QED BY <3>1, <3>2
  <2> QED BY <2>1
<1>6. \A t, u \in net : Between(f, t, u)'
  BY DEF IndInv, History, Between, UsedAt
<1>7. \A m \in Node, r \in Run : Accounted(f, m, r)'
  <2> SUFFICES ASSUME NEW m \in Node, NEW r \in Run PROVE Accounted(f, m, r)'
    OBVIOUS
  <2>1. Uninterrupted(m, r)' = Uninterrupted(m, r)
    BY DEF Uninterrupted
  <2>2. ASSUME NEW t \in net, FromTick(f, m, r, t) PROVE FromTick(f, m, r, t)'
    <3>1. Followed(m, r, t.handle) => Followed(m, r, t.handle)'
      BY DEF Followed, LineOf
    <3> QED BY <2>2, <3>1 DEF FromTick, LineOf, UsedAt
  <2>3. Accounted(f, m, r)
    BY DEF IndInv, History
  <2> QED BY <2>1, <2>2, <2>3 DEF Accounted
<1>8. History(f)'
  BY <1>5, <1>6, <1>7 DEF History
<1> QED BY <1>1, <1>3, <1>4, <1>8 DEF IndInv

\* Time passes, or nothing happens.
LEMMA ClockNext ==
    ASSUME NEW f \in HistType, IndInv(f),
           Elapse \/ UNCHANGED vars
    PROVE  IndInv(f)'
<1>1. UNCHANGED <<pub, used, net, latest_seq, prev, printed, shown>> /\ now' \in 0 .. MaxTime
  <2>1. now \in 0 .. MaxTime
    BY DEF IndInv, TypeOK
  <2> QED BY <2>1, Bounds DEF Elapse, vars
<1>2. TypeOK'
  BY <1>1 DEF IndInv, TypeOK
<1>3. Numbered' /\ Watched'
  BY <1>1 DEF IndInv, Numbered, Watched
<1>4. History(f)'
  BY <1>1 DEF IndInv, History, Behind, Between, Accounted, Uninterrupted, FromTick,
              Followed, LineOf, UsedAt
<1> QED BY <1>2, <1>3, <1>4 DEF IndInv

\* The process and the supervisor, one step per action.
LEMMA ProcessNext ==
    ASSUME NEW f \in HistType, IndInv(f), NEW n \in Node,
           Launch(n) \/ Work(n) \/ Exit(n) \/ Restart(n)
    PROVE  IndInv(f)'
<1> DEFINE p == pub[n]
           v == used[n]
<1>t. /\ p \in Publisher /\ v \in [Run -> 0 .. MaxCpu] /\ used = [used EXCEPT ![n] = v]
      /\ p.cpu <= v[p.run] /\ net \in SUBSET TickType
  BY DEF IndInv, TypeOK, Numbered
<1>p. /\ p.run \in Run /\ p.run \in Nat /\ p.seq \in Nat /\ p.cpu \in Nat
      /\ v[p.run] \in 0 .. MaxCpu /\ v[p.run] \in Nat
  BY <1>t, PubFacts, Bounds
<1>n. ASSUME NEW t \in net, t.from = n
      PROVE  /\ t.run \in Run /\ t.run \in Nat /\ t.seq \in Nat
             /\ UsedAt(f, t) \in Nat /\ v[t.run] \in Nat
             /\ t.cpu # NoUsage => t.cpu \in Nat
             /\ t.run <= p.run
             /\ t.run = p.run => t.seq <= p.seq /\ t.handle = p.handle
             /\ UsedAt(f, t) <= v[t.run]
             /\ t.run = p.run /\ p.proc = "running" /\ t.cpu # NoUsage
                    => p.cpu + UsedAt(f, t) <= v[t.run] + t.cpu
  <2>1. t \in TickType
    BY <1>t
  <2>2. /\ t.run \in Run /\ t.run \in Nat /\ t.seq \in Nat
        /\ UsedAt(f, t) \in Nat /\ (t.cpu # NoUsage => t.cpu \in Nat)
    BY <2>1, TickFacts, UsedAtFacts
  <2>3. v[t.run] \in Nat
    BY <1>t, <2>2, Bounds
  <2>4. t.run <= p.run /\ (t.run = p.run => t.seq <= p.seq /\ t.handle = p.handle)
    BY <1>n DEF IndInv, Numbered
  <2>5. Behind(f, t)
    BY DEF IndInv, History
  <2> QED BY <1>n, <2>2, <2>3, <2>4, <2>5 DEF Behind
<1>1. CASE Launch(n)
  <2> DEFINE q == [p EXCEPT !.proc = "running", !.cpu = 0]
  <2>1. /\ pub' = [pub EXCEPT ![n] = q]
        /\ UNCHANGED <<now, used, net, latest_seq, prev, printed, shown>>
    BY <1>1 DEF Launch
  <2> HIDE DEF p, v
  <2>2. q \in Publisher
    <3>1. p \in Publisher /\ 0 \in 0 .. MaxCpu
      BY <1>t, Bounds
    <3> QED BY <3>1 DEF Publisher
  <2>3. q.run = p.run /\ q.handle = p.handle /\ q.seq = p.seq /\ q.cpu = 0
    BY <1>t DEF Publisher
  <2> HIDE DEF q
  <2>4. ASSUME NEW t \in net, t.from = n, t.cpu # NoUsage
        PROVE  q.cpu + UsedAt(f, t) <= v[t.run] + t.cpu
    <3>1. UsedAt(f, t) \in Nat /\ v[t.run] \in Nat /\ t.cpu \in Nat /\ UsedAt(f, t) <= v[t.run]
      BY <1>n, <2>4
    <3> QED BY <2>3, <3>1
  <2>5. q.cpu <= v[q.run]
    BY <1>p, <2>3
  <2>x. \A t \in net : t.from = n =>
          /\ t.run <= q.run
          /\ t.run = q.run => t.seq <= q.seq /\ t.handle = q.handle
          /\ UsedAt(f, t) <= v[t.run]
          /\ t.run = q.run /\ q.proc = "running" /\ t.cpu # NoUsage
                 => q.cpu + UsedAt(f, t) <= v[t.run] + t.cpu
    BY <1>n, <2>3, <2>4
  <2>y. /\ v \in [Run -> 0 .. MaxCpu] /\ used' = [used EXCEPT ![n] = v]
        /\ UNCHANGED <<now, net, latest_seq, prev, printed, shown>>
    BY <1>t, <2>1
  <2> QED BY <2>1, <2>2, <2>5, <2>x, <2>y, NodeNext, ZenonT(60)
<1>2. CASE Work(n)
  <2> DEFINE q == [p EXCEPT !.cpu = p.cpu + 1]
             x == [v EXCEPT ![p.run] = v[p.run] + 1]
  <2>1. /\ pub' = [pub EXCEPT ![n] = q] /\ used' = [used EXCEPT ![n] = x]
        /\ v[p.run] < MaxCpu /\ p.proc = "running"
        /\ UNCHANGED <<now, net, latest_seq, prev, printed, shown>>
    BY <1>2 DEF Work
  <2> HIDE DEF p, v
  <2>2. v[p.run] + 1 \in 0 .. MaxCpu /\ p.cpu + 1 \in 0 .. MaxCpu /\ p.cpu + 1 <= v[p.run] + 1
    <3>1. p.cpu <= v[p.run]
      BY <1>t
    <3> QED BY <1>p, <2>1, <3>1, Bounds
  <2>3. q \in Publisher
    BY <1>t, <2>2 DEF Publisher
  <2>4. /\ q.run = p.run /\ q.handle = p.handle /\ q.seq = p.seq
        /\ q.cpu = p.cpu + 1 /\ q.proc = p.proc
    BY <1>t DEF Publisher
  <2>5. x \in [Run -> 0 .. MaxCpu] /\ x[p.run] = v[p.run] + 1
        /\ \A r \in Run \ {p.run} : x[r] = v[r]
    BY <1>t, <1>p, <2>2
  <2> HIDE DEF q, x
  <2>6. ASSUME NEW t \in net, t.from = n
        PROVE  /\ UsedAt(f, t) <= x[t.run]
               /\ t.run = q.run /\ q.proc = "running" /\ t.cpu # NoUsage
                      => q.cpu + UsedAt(f, t) <= x[t.run] + t.cpu
    <3>1. /\ UsedAt(f, t) \in Nat /\ v[t.run] \in Nat /\ UsedAt(f, t) <= v[t.run]
          /\ t.run \in Run
      BY <1>n, <2>6
    <3>2. CASE t.run = p.run
      <4>1. UsedAt(f, t) <= x[t.run]
        BY <2>5, <3>1, <3>2
      <4>2. ASSUME t.cpu # NoUsage PROVE q.cpu + UsedAt(f, t) <= x[t.run] + t.cpu
        <5>1. t.cpu \in Nat /\ p.cpu + UsedAt(f, t) <= v[t.run] + t.cpu
          BY <1>n, <2>1, <2>6, <3>2, <4>2
        <5>2. x[t.run] = v[t.run] + 1
          BY <2>5, <3>2
        <5> QED BY <1>p, <2>4, <3>1, <5>1, <5>2
      <4> QED BY <4>1, <4>2
    <3>3. CASE t.run # p.run
      BY <2>4, <2>5, <3>1, <3>3
    <3> QED BY <3>2, <3>3
  <2>7. q.cpu <= x[q.run]
    BY <2>2, <2>4, <2>5
  <2>x. \A t \in net : t.from = n =>
          /\ t.run <= q.run
          /\ t.run = q.run => t.seq <= q.seq /\ t.handle = q.handle
          /\ UsedAt(f, t) <= x[t.run]
          /\ t.run = q.run /\ q.proc = "running" /\ t.cpu # NoUsage
                 => q.cpu + UsedAt(f, t) <= x[t.run] + t.cpu
    BY <1>n, <2>4, <2>6
  <2> QED BY <2>1, <2>3, <2>5, <2>7, <2>x, NodeNext, ZenonT(60)
<1>3. CASE Exit(n)
  <2> DEFINE q == [p EXCEPT !.proc = "exited"]
  <2>1. /\ pub' = [pub EXCEPT ![n] = q]
        /\ UNCHANGED <<now, used, net, latest_seq, prev, printed, shown>>
    BY <1>3 DEF Exit
  <2> HIDE DEF p, v
  <2>2. q \in Publisher
    BY <1>t DEF Publisher
  <2>3. /\ q.run = p.run /\ q.handle = p.handle /\ q.seq = p.seq
        /\ q.cpu = p.cpu /\ q.proc = "exited"
    BY <1>t DEF Publisher
  <2> HIDE DEF q
  <2>x. \A t \in net : t.from = n =>
          /\ t.run <= q.run
          /\ t.run = q.run => t.seq <= q.seq /\ t.handle = q.handle
          /\ UsedAt(f, t) <= v[t.run]
          /\ t.run = q.run /\ q.proc = "running" /\ t.cpu # NoUsage
                 => q.cpu + UsedAt(f, t) <= v[t.run] + t.cpu
    BY <1>n, <2>3
  <2>y. /\ v \in [Run -> 0 .. MaxCpu] /\ used' = [used EXCEPT ![n] = v]
        /\ UNCHANGED <<now, net, latest_seq, prev, printed, shown>>
    BY <1>t, <2>1
  <2>z. q.cpu <= v[q.run]
    BY <1>t, <2>3
  <2> QED BY <2>1, <2>2, <2>x, <2>y, <2>z, NodeNext, ZenonT(60)
<1>4. CASE Restart(n)
  <2>0. PICK h \in Handle : pub' = [pub EXCEPT ![n] = NewRun(p.run + 1, h)]
    BY <1>4 DEF Restart
  <2> DEFINE q == NewRun(p.run + 1, h)
  <2>1. /\ pub' = [pub EXCEPT ![n] = q] /\ p.run < MaxRuns
        /\ UNCHANGED <<now, used, net, latest_seq, prev, printed, shown>>
    BY <1>4, <2>0 DEF Restart
  <2> HIDE DEF p, v
  <2>r. p.run + 1 \in Run
    BY <1>p, <2>1, Bounds DEF Run
  <2>2. q \in Publisher
    BY <2>r, Bounds DEF Publisher, NewRun
  <2>3. q.run = p.run + 1 /\ q.cpu = 0
    BY DEF NewRun
  <2> HIDE DEF q
  <2>4. ASSUME NEW t \in net, t.from = n PROVE t.run <= q.run /\ t.run # q.run
    <3>1. t.run \in Nat /\ t.run <= p.run
      BY <1>n, <2>4
    <3> QED BY <1>p, <2>3, <3>1
  <2>5. q.cpu <= v[q.run]
    <3>1. v[q.run] \in Nat
      BY <1>t, <2>r, <2>3, Bounds
    <3> QED BY <2>3, <3>1
  <2>x. \A t \in net : t.from = n =>
          /\ t.run <= q.run
          /\ t.run = q.run => t.seq <= q.seq /\ t.handle = q.handle
          /\ UsedAt(f, t) <= v[t.run]
          /\ t.run = q.run /\ q.proc = "running" /\ t.cpu # NoUsage
                 => q.cpu + UsedAt(f, t) <= v[t.run] + t.cpu
    BY <1>n, <2>4
  <2>y. /\ v \in [Run -> 0 .. MaxCpu] /\ used' = [used EXCEPT ![n] = v]
        /\ UNCHANGED <<now, net, latest_seq, prev, printed, shown>>
    BY <1>t, <2>1
  <2> QED BY <2>1, <2>2, <2>5, <2>x, <2>y, NodeNext, ZenonT(60)
<1> QED BY <1>1, <1>2, <1>3, <1>4

\* publish_loop: a tick that is not broadcast only uses up its number ...
LEMMA UnsentNext ==
    ASSUME NEW f \in HistType, IndInv(f), NEW n \in Node, Publish(n), UNCHANGED net
    PROVE  IndInv(f)'
<1> DEFINE p == pub[n]
           v == used[n]
           q == [p EXCEPT !.seq = p.seq + 1]
<1>1. /\ pub' = [pub EXCEPT ![n] = q] /\ p.seq < MaxSeq
      /\ UNCHANGED <<now, used, net, latest_seq, prev, printed, shown>>
  BY DEF Publish
<1>t. /\ p \in Publisher /\ v \in [Run -> 0 .. MaxCpu] /\ used' = [used EXCEPT ![n] = v]
      /\ p.cpu <= v[p.run]
  BY <1>1 DEF IndInv, TypeOK, Numbered
<1>n. ASSUME NEW t \in net, t.from = n
      PROVE  /\ t.seq \in Nat /\ t.run <= p.run
             /\ t.run = p.run => t.seq <= p.seq /\ t.handle = p.handle
             /\ UsedAt(f, t) <= v[t.run]
             /\ t.run = p.run /\ p.proc = "running" /\ t.cpu # NoUsage
                    => p.cpu + UsedAt(f, t) <= v[t.run] + t.cpu
  <2>1. t.seq \in Nat
    BY TickFacts DEF IndInv, TypeOK
  <2> QED BY <1>n, <2>1 DEF IndInv, Numbered, History, Behind
<1> HIDE DEF p, v
<1>2. p.seq \in Nat /\ p.seq + 1 \in 0 .. MaxSeq
  BY <1>1, <1>t, PubFacts, Bounds
<1>3. q \in Publisher
  BY <1>t, <1>2 DEF Publisher
<1>4. /\ q.run = p.run /\ q.handle = p.handle /\ q.seq = p.seq + 1
      /\ q.cpu = p.cpu /\ q.proc = p.proc
  BY <1>t DEF Publisher
<1> HIDE DEF q
<1>5. ASSUME NEW t \in net, t.from = n, t.run = q.run PROVE t.seq <= q.seq
  <2>1. t.seq \in Nat /\ t.seq <= p.seq
    BY <1>n, <1>4, <1>5
  <2> QED BY <1>2, <1>4, <2>1
<1>x. \A t \in net : t.from = n =>
          /\ t.run <= q.run
          /\ t.run = q.run => t.seq <= q.seq /\ t.handle = q.handle
          /\ UsedAt(f, t) <= v[t.run]
          /\ t.run = q.run /\ q.proc = "running" /\ t.cpu # NoUsage
                 => q.cpu + UsedAt(f, t) <= v[t.run] + t.cpu
  BY <1>n, <1>4, <1>5
<1>z. q.cpu <= v[q.run]
  BY <1>t, <1>4
<1>y. v \in [Run -> 0 .. MaxCpu] /\ used' = [used EXCEPT ![n] = v]
  BY <1>t
<1> QED BY <1>1, <1>3, <1>x, <1>y, <1>z, NodeNext, ZenonT(60)

\* ... and one that is has the highest number of its run.
LEMMA PublishNext ==
    ASSUME NEW f \in HistType, IndInv(f), NEW n \in Node, Publish(n)
    PROVE  Inv'
<1> SUFFICES ASSUME ~UNCHANGED net PROVE Inv'
  BY UnsentNext DEF Inv
<1>0. PICK skew \in 0 .. MaxSkew :
        net' = net \cup {[from |-> n, run |-> pub[n].run, handle |-> pub[n].handle,
                          seq |-> pub[n].seq + 1, ts |-> now + skew, cpu |-> Usage(n)]}
  BY DEF Publish
<1> DEFINE p == pub[n]
           s == p.seq + 1
           q == [p EXCEPT !.seq = s]
           x == [from |-> n, run |-> p.run, handle |-> p.handle, seq |-> s, ts |-> now + skew,
                 cpu |-> Usage(n)]
           total == used[n][p.run]
           h == [f[n][p.run] EXCEPT ![s] = total]
           k == [f[n] EXCEPT ![p.run] = h]
<1>1. /\ net' = net \cup {x} /\ pub' = [pub EXCEPT ![n] = q]
      /\ UNCHANGED <<now, used, latest_seq, prev, printed, shown>>
      /\ p.seq < MaxSeq
  BY <1>0 DEF Publish
<1>t. /\ pub \in [Node -> Publisher] /\ p \in Publisher /\ net \in SUBSET TickType
      /\ used \in [Node -> [Run -> 0 .. MaxCpu]] /\ now \in 0 .. MaxTime
  BY DEF IndInv, TypeOK
<1>p. /\ p.run \in Run /\ p.handle \in Handle /\ p.seq \in Nat
      /\ p.cpu \in 0 .. MaxCpu /\ p.cpu \in Nat
  BY <1>t, PubFacts
<1>2. s \in 1 .. MaxSeq /\ s \in 0 .. MaxSeq /\ s \in Nat
  BY <1>1, <1>p, Bounds
<1>u. total \in 0 .. MaxCpu /\ total \in Nat
  BY <1>t, <1>p, Bounds
<1>e. /\ Usage(n) \in {NoUsage} \cup 0 .. MaxCpu
      /\ Usage(n) # NoUsage => p.proc = "running" /\ Usage(n) = p.cpu
      /\ p.proc = "running" => Usage(n) = p.cpu
  BY <1>p DEF Usage
<1> HIDE DEF p, s, total
<1>q. q \in Publisher
  BY <1>t, <1>2 DEF Publisher
<1>r. /\ q.run = p.run /\ q.handle = p.handle /\ q.seq = s
      /\ q.cpu = p.cpu /\ q.proc = p.proc
  BY <1>t DEF Publisher
<1>x. x \in TickType
  <2>1. now + skew \in Time
    BY <1>0, <1>t, Bounds DEF Time
  <2> QED BY <1>p, <1>2, <1>e, <2>1 DEF TickType
<1>y. x.from = n /\ x.run = p.run /\ x.handle = p.handle /\ x.seq = s /\ x.cpu = Usage(n)
  OBVIOUS
<1> HIDE DEF q, x
<1>o. ASSUME NEW t \in net
      PROVE  /\ t \in TickType /\ t.from \in Node /\ t.run \in Run /\ t.seq \in 1 .. MaxSeq
             /\ t.seq \in Nat /\ t.run <= pub[t.from].run
             /\ t.run = pub[t.from].run =>
                    t.seq <= pub[t.from].seq /\ t.handle = pub[t.from].handle
             /\ t.from = n /\ t.run = p.run => t.seq < s /\ t.handle = p.handle
  <2>1. /\ t \in TickType /\ t.from \in Node /\ t.run \in Run /\ t.seq \in 1 .. MaxSeq
        /\ t.seq \in Nat
    BY <1>t, TickFacts
  <2>2. /\ t.run <= pub[t.from].run
        /\ t.run = pub[t.from].run =>
               t.seq <= pub[t.from].seq /\ t.handle = pub[t.from].handle
    BY DEF IndInv, Numbered
  <2>3. ASSUME t.from = n, t.run = p.run PROVE t.seq < s /\ t.handle = p.handle
    <3>1. t.seq <= p.seq /\ t.handle = p.handle
      BY <2>2, <2>3 DEF p
    <3> QED BY <1>p, <2>1, <3>1 DEF s
  <2> QED BY <2>1, <2>2, <2>3
\* What the process has used by now is remembered for this tick.
<1>f. f[n] \in [Run -> [1 .. MaxSeq -> 0 .. MaxCpu]]
      /\ f[n][p.run] \in [1 .. MaxSeq -> 0 .. MaxCpu]
  BY <1>p DEF HistType
<1>h. /\ h \in [1 .. MaxSeq -> 0 .. MaxCpu] /\ h[s] = total
      /\ \A j \in 1 .. MaxSeq : j # s => h[j] = f[n][p.run][j]
  BY <1>f, <1>2, <1>u
<1> HIDE DEF h
<1>k. /\ k \in [Run -> [1 .. MaxSeq -> 0 .. MaxCpu]] /\ k[p.run] = h
      /\ \A j \in Run : j # p.run => k[j] = f[n][j]
  BY <1>f, <1>p, <1>h
<1> HIDE DEF k
<1>g. PICK g \in HistType : g[n] = k /\ \A m \in Node : m # n => g[m] = f[m]
  <2> DEFINE e == [f EXCEPT ![n] = k]
  <2>1. e \in HistType /\ e[n] = k /\ \A m \in Node : m # n => e[m] = f[m]
    BY <1>k DEF HistType
  <2> HIDE DEF e
  <2> QED BY <2>1
<1>3. UsedAt(g, x) = total
  BY <1>y, <1>g, <1>k, <1>h DEF UsedAt
<1>4. ASSUME NEW t \in net PROVE UsedAt(g, t) = UsedAt(f, t)
  <2>1. t.from = n /\ t.run = p.run => t.seq # s
    BY <1>2, <1>o
  <2>2. CASE t.from # n
    BY <1>o, <1>g, <2>2 DEF UsedAt
  <2>3. CASE t.from = n /\ t.run # p.run
    BY <1>o, <1>g, <1>k, <2>3 DEF UsedAt
  <2>4. CASE t.from = n /\ t.run = p.run
    BY <1>o, <1>g, <1>k, <1>h, <2>1, <2>4 DEF UsedAt
  <2> QED BY <2>2, <2>3, <2>4
\* The parts of the invariant.
<1>5. TypeOK'
  <2>1. net' \in SUBSET TickType /\ pub' \in [Node -> Publisher]
    BY <1>1, <1>t, <1>x, <1>q
  <2> QED BY <1>1, <2>1 DEF IndInv, TypeOK
<1>6. /\ pub'[n] = q /\ \A m \in Node : m # n => pub'[m] = pub[m]
  BY <1>1, <1>t
<1>7. Numbered'
  <2>3. ASSUME NEW m \in Node PROVE pub'[m].cpu <= used'[m][pub'[m].run]
    <3>0. pub[m].cpu <= used[m][pub[m].run]
      BY DEF IndInv, Numbered
    <3>1. CASE m = n
      <4>1. q.cpu <= used[n][q.run]
        BY <1>r, <3>0, <3>1 DEF p
      <4> QED BY <1>1, <1>6, <3>1, <4>1
    <3>2. CASE m # n
      BY <1>1, <1>6, <3>0, <3>2
    <3> QED BY <3>1, <3>2
  <2>4. ASSUME NEW t \in net'
        PROVE  /\ t.run <= pub'[t.from].run
               /\ t.run = pub'[t.from].run =>
                      t.seq <= pub'[t.from].seq /\ t.handle = pub'[t.from].handle
    <3>1. CASE t \in net /\ t.from # n
      BY <1>6, <1>o, <3>1
    <3>2. CASE t \in net /\ t.from = n
      <4>1. t.run <= p.run /\ (t.run = p.run => t.seq < s /\ t.handle = p.handle) /\ t.seq \in Nat
        BY <1>o, <3>2 DEF p
      <4> QED BY <1>2, <1>6, <1>r, <3>2, <4>1
    <3>3. CASE t = x
      <4>1. q.run \in Nat
        BY <1>q, PubFacts
      <4> QED BY <1>2, <1>6, <1>r, <1>y, <3>3, <4>1
    <3> QED BY <1>1, <3>1, <3>2, <3>3
  <2>5. ASSUME NEW t \in net', NEW u \in net', t.from = u.from, t.run = u.run
        PROVE  t.handle = u.handle
    <3>1. CASE t \in net /\ u \in net
      BY <2>5, <3>1 DEF IndInv, Numbered
    <3>2. CASE t = x \/ u = x
      <4>1. t.from = n /\ u.from = n /\ t.run = p.run /\ u.run = p.run
        BY <1>y, <2>5, <3>2
      <4>2. ASSUME NEW w \in net', w.from = n, w.run = p.run PROVE w.handle = p.handle
        BY <1>1, <1>o, <1>y, <4>2
      <4> QED BY <4>1, <4>2
    <3> QED BY <1>1, <3>1, <3>2
  <2> QED BY <2>3, <2>4, <2>5 DEF Numbered
<1>8. Watched'
  BY <1>1 DEF IndInv, Watched
<1>9. ASSUME NEW t \in net' PROVE Behind(g, t)'
  <2>1. CASE t \in net
    <3>1. Behind(f, t)
      BY <2>1 DEF IndInv, History
    <3>2. /\ pub'[t.from].run = pub[t.from].run /\ pub'[t.from].proc = pub[t.from].proc
          /\ pub'[t.from].cpu = pub[t.from].cpu
      BY <1>6, <1>o, <1>r, <2>1 DEF p
    <3>3. UsedAt(g, t)' = UsedAt(f, t) /\ used' = used
      BY <1>1, <1>4, <2>1 DEF UsedAt
    <3> QED BY <3>1, <3>2, <3>3 DEF Behind
  <2>2. CASE t = x
    <3>1. UsedAt(g, t)' = total /\ used'[t.from][t.run] = total
      BY <1>1, <1>3, <1>y, <2>2 DEF UsedAt, total
    <3>2. pub'[t.from].cpu = p.cpu /\ (pub'[t.from].proc = "running" => t.cpu = p.cpu)
      BY <1>6, <1>r, <1>e, <1>y, <2>2
    <3>3. p.cpu + total <= total + p.cpu /\ total <= total
      BY <1>p, <1>u
    <3>4. p.cpu <= total
      BY DEF IndInv, Numbered, p, total
    <3>5. t.cpu <= total
      <4>1. t.cpu = NoUsage \/ t.cpu = p.cpu
        BY <1>e, <1>y, <2>2
      <4> QED BY <1>u, <3>4, <4>1 DEF NoUsage
    <3> QED BY <3>1, <3>2, <3>3, <3>5 DEF Behind
  <2> QED BY <1>1, <2>1, <2>2
<1>10. ASSUME NEW t \in net', NEW u \in net' PROVE Between(g, t, u)
  <2>1. CASE t \in net /\ u \in net
    <3>1. Between(f, t, u)
      BY <2>1 DEF IndInv, History
    <3> QED BY <1>4, <2>1, <3>1 DEF Between
  <2>2. CASE t \in net /\ u = x
    <3> SUFFICES ASSUME t.from = n, t.run = p.run PROVE Between(g, t, u)
      BY <1>y, <2>2 DEF Between
    <3>1. Behind(f, t)
      BY <2>2 DEF IndInv, History
    <3>2. UsedAt(f, t) <= total
      BY <3>1 DEF Behind, total
    <3>3. ASSUME t.cpu # NoUsage, u.cpu # NoUsage
          PROVE  u.cpu + UsedAt(f, t) <= total + t.cpu
      <4>1. p.proc = "running" /\ u.cpu = p.cpu
        BY <1>e, <1>y, <2>2, <3>3
      <4> QED BY <3>1, <3>3, <4>1 DEF Behind, total, p
    <3>4. UsedAt(g, u) = total /\ UsedAt(g, t) = UsedAt(f, t)
      BY <1>3, <1>4, <2>2
    <3> QED BY <3>2, <3>3, <3>4 DEF Between
  <2>3. CASE t = x
    <3>1. u.from = n /\ u.run = p.run => ~(s < u.seq)
      <4>1. CASE u \in net
        BY <1>2, <1>o, <4>1
      <4>2. CASE u = x
        BY <1>2, <1>y, <4>2
      <4> QED BY <1>1, <4>1, <4>2
    <3> QED BY <1>y, <2>3, <3>1 DEF Between
  <2> QED BY <1>1, <2>1, <2>2, <2>3
<1>11. ASSUME NEW m \in Node, NEW r \in Run PROVE Accounted(g, m, r)'
  <2>1. Accounted(f, m, r)
    BY DEF IndInv, History
  <2>2. ASSUME NEW t \in net, FromTick(f, m, r, t) PROVE FromTick(g, m, r, t)' /\ t \in net'
    <3>1. UsedAt(g, t) = UsedAt(f, t)
      BY <1>4
    <3> QED BY <1>1, <2>2, <3>1 DEF FromTick, Followed, LineOf, UsedAt
  <2> QED BY <1>1, <2>1, <2>2 DEF Accounted, Uninterrupted
<1>12. History(g)'
  <2>1. \A t, u \in net' : Between(g, t, u)'
    BY <1>10 DEF Between, UsedAt
  <2> QED BY <1>9, <1>11, <2>1 DEF History
<1>13. IndInv(g)'
  BY <1>5, <1>7, <1>8, <1>12 DEF IndInv
<1> QED BY <1>g, <1>13 DEF Inv

\* watch_loop: the accepted tick is later than the one behind the last sample.
LEMMA ReceiveNext ==
    ASSUME NEW f \in HistType, IndInv(f), NEW t \in net, Receive(t)
    PROVE  IndInv(f)'
<1> DEFINE n == t.from
           r == t.run
           p == prev[n][t.handle]
           c == CpuShown(t)
           line == [from |-> n, run |-> r, handle |-> t.handle, seq |-> t.seq, cpu |-> c]
           mark == [cpu |-> t.cpu, ts |-> t.ts]
<1>t. /\ latest_seq \in [Node -> 0 .. MaxSeq] /\ prev \in [Node -> [Handle -> Sample]]
      /\ printed \in Seq(Line) /\ shown \in [Node -> [Run -> Nat]]
      /\ t \in TickType
  BY DEF IndInv, TypeOK
<1>1. /\ latest_seq' = [latest_seq EXCEPT ![n] = t.seq] /\ prev' = Sampled(t)
      /\ printed' = Append(printed, line)
      /\ shown' = [shown EXCEPT ![n][r] = shown[n][r] + Max({c, 0})]
      /\ UNCHANGED <<now, pub, used, net>> /\ ~(t.seq <= latest_seq[n])
  BY DEF Receive, Replayed
<1>2. /\ n \in Node /\ r \in Run /\ t.handle \in Handle
      /\ t.seq \in 1 .. MaxSeq /\ t.seq \in Nat /\ t.ts \in Time
      /\ t.cpu \in Int /\ (t.cpu # NoUsage => t.cpu \in 0 .. MaxCpu /\ t.cpu \in Nat)
  BY <1>t, TickFacts
<1>l. latest_seq[n] \in Nat /\ latest_seq[n] < t.seq
  <2>1. latest_seq[n] \in Nat
    BY <1>t, <1>2, Bounds
  <2> QED BY <1>1, <1>2, <2>1
<1>s. shown[n][r] \in Nat
  BY <1>t, <1>2
<1>3. UsedAt(f, t) \in Nat
  BY <1>t, UsedAtFacts
<1>4. c = IF t.cpu = NoUsage \/ p = NoSample \/ t.ts <= p.ts THEN NoUsage
          ELSE Max({t.cpu - p.cpu, 0})
  BY DEF CpuShown
\* The line shows no more than the counter.
<1>5. /\ c = NoUsage \/ c \in 0 .. MaxCpu
      /\ Max({c, 0}) \in Nat
      /\ t.cpu = NoUsage => Max({c, 0}) = 0
      /\ t.cpu # NoUsage => Max({c, 0}) <= t.cpu
  <2>0. Max({NoUsage, 0}) = 0 /\ 0 \in Nat
    BY MaxFacts DEF NoUsage
  <2>1. CASE c = NoUsage
    <3>1. Max({c, 0}) = 0
      BY <2>0, <2>1
    <3> QED BY <1>2, <2>0, <2>1, <3>1
  <2>2. CASE t.cpu # NoUsage /\ p # NoSample /\ c = Max({t.cpu - p.cpu, 0})
    <3> DEFINE d == t.cpu - p.cpu
               m == Max({d, 0})
    <3>1. t.cpu \in Nat /\ t.cpu \in 0 .. MaxCpu
      BY <1>2, <2>2
    <3>2. p.cpu \in Nat
      <4>1. p \in Sample
        BY <1>t, <1>2
      <4>2. p.cpu # NoUsage
        BY <1>2, <2>2 DEF IndInv, Watched
      <4> QED BY <4>1, <4>2, Bounds DEF Sample
    <3>3. d \in Int
      <4> HIDE DEF p
      <4> QED BY <3>1, <3>2
    <3>4. m \in Nat /\ (d >= 0 => m = d) /\ (d <= 0 => m = 0)
      <4> HIDE DEF d
      <4> QED BY <3>3, MaxFacts
    <3> HIDE DEF m, p
    <3>5. m \in 0 .. MaxCpu /\ m <= t.cpu
      BY <3>1, <3>2, <3>4, Bounds
    <3>6. Max({m, 0}) = m
      BY <3>4, MaxFacts
    <3>7. c = m
      BY <2>2 DEF m, p
    <3> HIDE DEF c
    <3> QED BY <2>2, <3>4, <3>5, <3>6, <3>7
  <2> QED BY <1>4, <2>1, <2>2
\* If the last sample is that of tick u of the same run, what is shown was used.
<1>6. ASSUME NEW u \in net, t.cpu # NoUsage, FromTick(f, n, r, u), p = [cpu |-> u.cpu, ts |-> u.ts]
      PROVE  shown[n][r] + Max({c, 0}) <= UsedAt(f, t)
  <2>1. u \in TickType /\ u.seq \in Nat /\ UsedAt(f, u) \in Nat
        /\ (u.cpu # NoUsage => u.cpu \in Nat)
    BY TickFacts, UsedAtFacts DEF IndInv, TypeOK
  <2>2. /\ u.from = n /\ u.run = r /\ u.seq <= latest_seq[n] /\ u.cpu # NoUsage
        /\ shown[n][r] <= UsedAt(f, u)
    BY <1>6 DEF FromTick
  <2>3. u.seq < t.seq
    BY <1>2, <1>l, <2>1, <2>2
  <2>4. Between(f, u, t)
    BY DEF IndInv, History
  <2>5. UsedAt(f, u) <= UsedAt(f, t) /\ t.cpu + UsedAt(f, u) <= UsedAt(f, t) + u.cpu
    BY <1>6, <2>2, <2>3, <2>4 DEF Between
  <2>6. u.cpu \in Nat /\ t.cpu \in Nat /\ p.cpu = u.cpu
    BY <1>2, <1>6, <2>1, <2>2
  <2> HIDE DEF c, p, n, r
  <2>7. CASE c = NoUsage
    <3>1. Max({c, 0}) = 0
      BY <2>7, MaxFacts DEF NoUsage
    <3>2. shown[n][r] + 0 <= UsedAt(f, t)
      BY <1>s, <1>3, <2>1, <2>2, <2>5
    <3> QED BY <3>1, <3>2
  <2>8. CASE c = Max({t.cpu - u.cpu, 0})
    <3> DEFINE d == t.cpu - u.cpu
               m == Max({d, 0})
    <3>1. d \in Int
      BY <2>6
    <3>2. m \in Nat /\ (d >= 0 => m = d) /\ (d <= 0 => m = 0)
      <4> HIDE DEF d
      <4> QED BY <3>1, MaxFacts
    <3> HIDE DEF m
    <3>3. shown[n][r] + m <= UsedAt(f, t)
      BY <1>s, <1>3, <2>1, <2>2, <2>5, <2>6, <3>2
    <3>4. Max({m, 0}) = m
      BY <3>2, MaxFacts
    <3>5. c = m
      BY <2>8 DEF m
    <3> QED BY <3>3, <3>4, <3>5
  <2> QED BY <1>4, <2>6, <2>7, <2>8
<1> HIDE DEF c
<1>v. mark \in Sample
  <2>1. t.cpu \in {NoUsage} \cup 0 .. MaxCpu
    BY <1>2
  <2> QED BY <1>2, <2>1 DEF Sample
<1>w. line \in Line
  <2>1. c \in {NoUsage} \cup 0 .. MaxCpu
    BY <1>5
  <2> QED BY <1>2, <2>1 DEF Line
<1>y. line.from = n /\ line.run = r /\ line.handle = t.handle /\ line.seq = t.seq
  OBVIOUS
<1> HIDE DEF line
<1>k. PICK k \in Nat : k = Len(printed)
  BY <1>t, LenProperties
<1>a. k \in Nat /\ Len(printed') = k + 1 /\ printed'[k + 1] = line
      /\ \A i \in 1 .. k : printed'[i] = printed[i]
  BY <1>1, <1>t, <1>w, <1>k, AppendProperties
\* The parts of the invariant.
<1>8. TypeOK'
  <2>1. latest_seq' \in [Node -> 0 .. MaxSeq]
    <3>1. t.seq \in 0 .. MaxSeq
      BY <1>2, Bounds
    <3> QED BY <1>1, <1>t, <3>1
  <2>2. prev' \in [Node -> [Handle -> Sample]]
    <3>1. CASE t.cpu = NoUsage
      BY <1>1, <1>t, <3>1 DEF Sampled
    <3>2. CASE t.cpu # NoUsage
      BY <1>1, <1>t, <1>v, <1>2, <3>2 DEF Sampled
    <3> QED BY <3>1, <3>2
  <2>4. printed' \in Seq(Line)
    BY <1>1, <1>t, <1>w, AppendProperties
  <2>5. shown' \in [Node -> [Run -> Nat]]
    <3>1. shown[n][r] + Max({c, 0}) \in Nat
      BY <1>s, <1>5
    <3> QED BY <1>1, <1>t, <1>2, <3>1
  <2> QED BY <1>1, <2>1, <2>2, <2>4, <2>5 DEF IndInv, TypeOK
<1>9. Numbered'
  BY <1>1 DEF IndInv, Numbered
<1>10. latest_seq'[n] = t.seq /\ \A m \in Node : m # n => latest_seq'[m] = latest_seq[m]
  BY <1>1, <1>2, <1>t
<1>11. Watched'
  <2>1. \A m \in Node, h \in Handle : prev'[m][h] # NoSample => prev'[m][h].cpu # NoUsage
    <3>1. CASE t.cpu = NoUsage
      BY <1>1, <3>1 DEF Sampled, IndInv, Watched
    <3>2. CASE t.cpu # NoUsage
      <4>1. ASSUME NEW m \in Node, NEW h \in Handle
            PROVE  prev'[m][h] = prev[m][h] \/ prev'[m][h] = mark
        BY <1>1, <1>2, <1>t, <3>2 DEF Sampled
      <4>2. mark.cpu # NoUsage
        BY <3>2
      <4> HIDE DEF mark
      <4> QED BY <4>1, <4>2 DEF IndInv, Watched
    <3> QED BY <3>1, <3>2
  <2>2. ASSUME NEW i \in 1 .. k
        PROVE  /\ printed[i].from \in Node /\ printed[i].seq \in Nat
               /\ latest_seq[printed[i].from] \in Nat
               /\ printed[i].seq <= latest_seq[printed[i].from]
    <3>1. printed[i] \in Line
      BY <1>t, <1>k, ElementOfSeq
    <3>2. printed[i].from \in Node /\ printed[i].seq \in 1 .. MaxSeq
      BY <3>1 DEF Line
    <3>3. printed[i].seq \in Nat /\ latest_seq[printed[i].from] \in Nat
      BY <1>t, <3>2, Bounds
    <3>4. printed[i].seq <= latest_seq[printed[i].from]
      BY <1>k DEF IndInv, Watched
    <3> QED BY <3>2, <3>3, <3>4
  <2>3. ASSUME NEW i \in 1 .. k, printed[i].from = n PROVE printed[i].seq < t.seq
    <3>1. printed[i].seq \in Nat /\ printed[i].seq <= latest_seq[n]
      BY <2>2, <2>3
    <3> QED BY <1>2, <1>l, <3>1
  <2>4. ASSUME NEW i \in 1 .. Len(printed')
        PROVE  printed'[i].seq <= latest_seq'[printed'[i].from]
    <3>1. CASE i \in 1 .. k /\ printed[i].from # n
      BY <1>10, <1>a, <2>2, <3>1
    <3>2. CASE i \in 1 .. k /\ printed[i].from = n
      <4>1. printed[i].seq <= t.seq
        BY <1>2, <2>2, <2>3, <3>2
      <4> QED BY <1>10, <1>a, <3>2, <4>1
    <3>3. CASE i = k + 1
      <4>1. t.seq <= t.seq
        BY <1>2
      <4> QED BY <1>10, <1>y, <1>a, <3>3, <4>1
    <3> QED BY <1>a, <3>1, <3>2, <3>3
  <2>5. ASSUME NEW i \in 1 .. Len(printed'), NEW j \in 1 .. Len(printed'),
               i < j, printed'[i].from = printed'[j].from
        PROVE  printed'[i].seq < printed'[j].seq
    <3>0. i \in 1 .. k
      BY <1>a, <2>5
    <3>1. CASE j \in 1 .. k
      BY <1>a, <1>k, <2>5, <3>0, <3>1 DEF IndInv, Watched
    <3>2. CASE j = k + 1
      BY <1>y, <1>a, <2>3, <2>5, <3>0, <3>2
    <3> QED BY <1>a, <3>1, <3>2
  <2> QED BY <2>1, <2>4, <2>5 DEF Watched
\* What was said of the lines is still so.
<1>z. ASSUME NEW m \in Node, NEW x \in Run, NEW h \in Handle
      PROVE  /\ Uninterrupted(m, x)' => Uninterrupted(m, x)
             /\ Followed(m, x, h) => Followed(m, x, h)'
             /\ (\E i \in 1 .. k : LineOf(i, m, x, h)) =>
                    \E i \in 1 .. Len(printed') : LineOf(i, m, x, h)'
  <2>1. \A i \in 1 .. k : i \in 1 .. Len(printed') /\ printed'[i] = printed[i]
    BY <1>a
  <2>2. ASSUME Uninterrupted(m, x)' PROVE Uninterrupted(m, x)
    BY <1>k, <2>1, <2>2 DEF Uninterrupted
  <2>3. ASSUME Followed(m, x, h) PROVE Followed(m, x, h)'
    BY <1>k, <2>1, <2>3 DEF Followed, LineOf
  <2>4. ASSUME NEW i \in 1 .. k, LineOf(i, m, x, h)
        PROVE  i \in 1 .. Len(printed') /\ LineOf(i, m, x, h)'
    BY <2>1, <2>4 DEF LineOf
  <2> QED BY <2>2, <2>3, <2>4
\* The new line is about its own run, and follows those of any other.
<1>b. LineOf(k + 1, n, r, t.handle)' /\ k + 1 \in 1 .. Len(printed')
  BY <1>a, <1>y DEF LineOf
<1>d. ASSUME NEW x \in Run, x # r, \E i \in 1 .. k : LineOf(i, n, x, t.handle)
      PROVE  Followed(n, x, t.handle)'
  <2>1. PICK i \in 1 .. k : LineOf(i, n, x, t.handle)
    BY <1>d
  <2>2. i \in 1 .. Len(printed') /\ i < k + 1 /\ LineOf(i, n, x, t.handle)'
    BY <1>a, <2>1 DEF LineOf
  <2>3. printed'[k + 1].from = n /\ printed'[k + 1].handle = t.handle /\ printed'[k + 1].run # x
    BY <1>a, <1>y, <1>d
  <2> QED BY <1>b, <2>2, <2>3 DEF Followed
<1>e. ASSUME NEW h \in Handle, Followed(n, r, h) PROVE ~Uninterrupted(n, r)'
  <2>1. PICK i \in 1 .. k, j \in 1 .. k :
           /\ i < j /\ LineOf(i, n, r, h)
           /\ printed[j].from = n /\ printed[j].handle = h /\ printed[j].run # r
    BY <1>e, <1>k DEF Followed
  <2>2. /\ i \in 1 .. Len(printed') /\ j \in 1 .. Len(printed') /\ j < k + 1
        /\ printed'[i] = printed[i] /\ printed'[j] = printed[j]
    BY <1>a, <2>1
  <2> HIDE DEF n, r
  <2> QED BY <1>a, <1>b, <2>1, <2>2 DEF Uninterrupted, LineOf
<1>h. ASSUME NEW m \in Node, NEW h \in Handle, t.cpu = NoUsage \/ m # n \/ h # t.handle
      PROVE  prev'[m][h] = prev[m][h]
  BY <1>1, <1>2, <1>t, <1>h DEF Sampled
<1>i. t.cpu # NoUsage => prev'[n][t.handle] = mark
  BY <1>1, <1>2, <1>t DEF Sampled
<1>j. /\ shown'[n][r] = shown[n][r] + Max({c, 0})
      /\ \A m \in Node, x \in Run : m # n \/ x # r => shown'[m][x] = shown[m][x]
  BY <1>1, <1>2, <1>t
<1>m. ASSUME NEW u \in net
      PROVE  /\ u.handle \in Handle /\ u.from \in Node /\ UsedAt(f, u)' = UsedAt(f, u)
             /\ u.seq <= latest_seq[u.from] => u.seq <= latest_seq'[u.from]
  <2>1. u \in TickType /\ u.seq \in Nat /\ u.from \in Node /\ u.handle \in Handle
    BY TickFacts DEF IndInv, TypeOK
  <2>2. latest_seq[u.from] \in Nat
    BY <1>t, <2>1, Bounds
  <2>3. ASSUME u.seq <= latest_seq[u.from] PROVE u.seq <= latest_seq'[u.from]
    <3>1. CASE u.from = n
      <4>1. u.seq <= t.seq
        BY <1>2, <1>l, <2>1, <2>3, <3>1
      <4> QED BY <1>10, <3>1, <4>1
    <3>2. CASE u.from # n
      BY <1>10, <2>1, <2>3, <3>2
    <3> QED BY <3>1, <3>2
  <2> QED BY <2>1, <2>3 DEF UsedAt
\* The new tick accounts for its run ...
<1>7. ASSUME t.cpu # NoUsage, shown'[n][r] <= UsedAt(f, t) PROVE FromTick(f, n, r, t)'
  <2>1. t.seq <= latest_seq'[n]
    BY <1>2, <1>10
  <2>2. \E i \in 1 .. Len(printed') : LineOf(i, n, r, t.handle)'
    BY <1>b
  <2>3. prev'[n][t.handle] = [cpu |-> t.cpu, ts |-> t.ts]
    BY <1>i, <1>7
  <2> QED BY <1>7, <2>1, <2>2, <2>3 DEF FromTick, UsedAt
\* ... and an old tick still does for its own, if nothing more was shown.
<1>8a. ASSUME NEW m \in Node, NEW x \in Run, NEW u \in net, FromTick(f, m, x, u),
             shown'[m][x] = shown[m][x],
             \/ prev'[m][u.handle] = prev[m][u.handle]
             \/ Followed(m, x, u.handle)'
      PROVE  FromTick(f, m, x, u)'
  <2>1. /\ u.from = m /\ u.run = x /\ u.seq <= latest_seq[m] /\ u.cpu # NoUsage
        /\ shown[m][x] <= UsedAt(f, u) /\ \E i \in 1 .. k : LineOf(i, m, x, u.handle)
        /\ prev[m][u.handle] = [cpu |-> u.cpu, ts |-> u.ts] \/ Followed(m, x, u.handle)
    BY <1>8a, <1>k DEF FromTick
  <2>2. u.handle \in Handle /\ u.seq <= latest_seq'[m]
    BY <1>m, <2>1
  <2>3. prev'[m][u.handle] = [cpu |-> u.cpu, ts |-> u.ts] \/ Followed(m, x, u.handle)'
    BY <1>8a, <1>z, <2>1, <2>2
  <2>4. \E i \in 1 .. Len(printed') : LineOf(i, m, x, u.handle)'
    BY <1>z, <2>1, <2>2
  <2>5. shown'[m][x] <= UsedAt(f, u)
    BY <1>8a, <2>1
  <2> QED BY <2>1, <2>2, <2>3, <2>4, <2>5 DEF FromTick, UsedAt
<1>12. ASSUME NEW m \in Node, NEW x \in Run PROVE Accounted(f, m, x)'
  <2> SUFFICES ASSUME Uninterrupted(m, x)'
               PROVE  shown'[m][x] = 0 \/ \E u \in net' : FromTick(f, m, x, u)'
    BY DEF Accounted
  <2>0. shown[m][x] = 0 \/ \E u \in net : FromTick(f, m, x, u)
    <3>1. Uninterrupted(m, x)
      <4>1. t.handle \in Handle
        BY <1>2
      <4> QED BY <1>z, <4>1
    <3> QED BY <3>1 DEF IndInv, History, Accounted
  <2>n. net' = net
    BY <1>1
  <2>1. CASE m # n \/ x # r
    <3>1. shown'[m][x] = shown[m][x]
      BY <1>j, <2>1
    <3>2. ASSUME NEW u \in net, FromTick(f, m, x, u) PROVE FromTick(f, m, x, u)'
      <4>1. u.handle \in Handle /\ \E i \in 1 .. k : LineOf(i, m, x, u.handle)
        BY <1>k, <1>m, <3>2 DEF FromTick
      <4>2. CASE m = n /\ u.handle = t.handle
        <5>1. Followed(m, x, u.handle)'
          BY <1>d, <2>1, <4>1, <4>2
        <5> QED BY <1>8a, <3>1, <3>2, <5>1
      <4>3. CASE m # n \/ u.handle # t.handle
        <5>1. prev'[m][u.handle] = prev[m][u.handle]
          BY <1>h, <4>1, <4>3
        <5> QED BY <1>8a, <3>1, <3>2, <5>1
      <4> QED BY <4>2, <4>3
    <3> QED BY <2>0, <2>n, <3>1, <3>2
  <2>2. CASE m = n /\ x = r /\ t.cpu = NoUsage
    <3>1. shown'[n][r] = shown[n][r]
      <4>1. shown'[n][r] = shown[n][r] + 0
        BY <1>5, <1>j, <2>2
      <4> QED BY <1>s, <4>1
    <3>2. ASSUME NEW u \in net, FromTick(f, n, r, u) PROVE FromTick(f, n, r, u)'
      <4>1. prev'[n][u.handle] = prev[n][u.handle]
        BY <1>2, <1>h, <1>m, <2>2
      <4> QED BY <1>2, <1>8a, <3>1, <3>2, <4>1
    <3> QED BY <2>0, <2>2, <2>n, <3>1, <3>2
  <2>3. CASE m = n /\ x = r /\ t.cpu # NoUsage
    <3>1. CASE shown[n][r] = 0
      <4>1. t.cpu <= UsedAt(f, t)
        BY DEF IndInv, History, Behind
      <4>2. shown'[n][r] = 0 + Max({c, 0}) /\ Max({c, 0}) \in Nat /\ Max({c, 0}) <= t.cpu
        BY <1>5, <1>j, <2>3, <3>1
      <4>3. t.cpu \in Nat
        BY <1>2, <2>3
      <4> DEFINE mm == Max({c, 0})
      <4> HIDE DEF mm
      <4>4. mm \in Nat /\ mm <= t.cpu /\ shown'[n][r] = 0 + mm
        BY <4>2 DEF mm
      <4>5. shown'[n][r] <= UsedAt(f, t)
        BY <1>3, <4>1, <4>3, <4>4
      <4> QED BY <1>7, <2>3, <2>n, <4>5
    <3>2. ASSUME NEW u \in net, FromTick(f, n, r, u) PROVE FromTick(f, n, r, t)'
      <4>1. u.handle \in Handle /\ u.from = n /\ u.run = r
        BY <1>m, <3>2 DEF FromTick
      <4>2. u.handle = t.handle
        BY <4>1 DEF IndInv, Numbered
      <4>3. ~Followed(n, r, u.handle)
        BY <1>e, <2>3, <4>1
      <4>4. p = [cpu |-> u.cpu, ts |-> u.ts]
        BY <3>2, <4>2, <4>3 DEF FromTick
      <4>5. shown'[n][r] <= UsedAt(f, t)
        BY <1>6, <1>j, <2>3, <3>2, <4>4
      <4> QED BY <1>7, <2>3, <4>5
    <3> QED BY <2>0, <2>3, <2>n, <3>1, <3>2
  <2> QED BY <2>1, <2>2, <2>3
<1>13. History(f)'
  <2>1. (\A u \in net : Behind(f, u))' /\ (\A u, w \in net : Between(f, u, w))'
    BY <1>1 DEF IndInv, History, Behind, Between, UsedAt
  <2> QED BY <1>12, <2>1 DEF History
<1> QED BY <1>8, <1>9, <1>11, <1>13 DEF IndInv

----------------------------------------------------------------------------
LEMMA InvInit == Init => Inv
<1> SUFFICES ASSUME Init PROVE Inv
  OBVIOUS
<1> DEFINE f == [n \in Node |-> [r \in Run |-> [s \in 1 .. MaxSeq |-> 0]]]
<1>1. f \in HistType
  BY Bounds DEF HistType
<1> HIDE DEF f
<1>2. 1 \in Run /\ 0 \in 0 .. MaxCpu /\ 0 \in 0 .. MaxSeq /\ 0 \in 0 .. MaxTime /\ 0 \in Time
  BY Bounds DEF Run, Time
<1>3. pub \in [Node -> Publisher]
  <2>1. \A h \in Handle : NewRun(1, h) \in Publisher
    BY <1>2 DEF NewRun, Publisher
  <2> QED BY <2>1 DEF Init
<1>4. TypeOK
  <2>1. NoSample \in Sample
    BY <1>2 DEF NoSample, Sample
  <2>2. prev \in [Node -> [Handle -> Sample]]
    BY <2>1 DEF Init
  <2>3. /\ now \in 0 .. MaxTime /\ used \in [Node -> [Run -> 0 .. MaxCpu]]
        /\ net \in SUBSET TickType /\ latest_seq \in [Node -> 0 .. MaxSeq]
        /\ shown \in [Node -> [Run -> Nat]]
    BY <1>2 DEF Init
  <2>4. printed \in Seq(Line)
    BY EmptySeq DEF Init
  <2> QED BY <1>3, <2>2, <2>3, <2>4 DEF TypeOK
<1>5. Numbered
  <2>1. ASSUME NEW n \in Node PROVE pub[n].cpu <= used[n][pub[n].run]
    <3>1. pub[n].run = 1 /\ pub[n].cpu = 0
      BY DEF Init, NewRun
    <3>2. used[n][1] = 0
      BY <1>2 DEF Init
    <3> QED BY <3>1, <3>2
  <2> QED BY <2>1 DEF Init, Numbered
<1>6. Watched
  <2>1. Len(printed) = 0
    BY EmptySeq DEF Init
  <2>2. \A i \in 1 .. Len(printed) : FALSE
    BY <2>1
  <2>3. \A n \in Node, h \in Handle : prev[n][h] = NoSample
    BY DEF Init
  <2> QED BY <2>2, <2>3 DEF Watched
<1>7. History(f)
  BY DEF Init, History, Accounted
<1> QED BY <1>1, <1>4, <1>5, <1>6, <1>7 DEF Inv, IndInv

LEMMA InvNext == Inv /\ [Next]_vars => Inv'
<1> SUFFICES ASSUME NEW f \in HistType, IndInv(f), [Next]_vars PROVE Inv'
  BY DEF Inv
<1>1. ASSUME IndInv(f)' PROVE Inv'
  BY <1>1 DEF Inv
<1>2. CASE Elapse \/ UNCHANGED vars
  BY <1>1, <1>2, ClockNext
<1>3. ASSUME NEW n \in Node, Launch(n) \/ Work(n) \/ Exit(n) \/ Restart(n) PROVE Inv'
  BY <1>1, <1>3, ProcessNext
<1>4. ASSUME NEW n \in Node, Publish(n) PROVE Inv'
  BY <1>4, PublishNext
<1>5. ASSUME NEW t \in net, Receive(t) PROVE Inv'
  BY <1>1, <1>5, ReceiveNext
<1> QED BY <1>2, <1>3, <1>4, <1>5 DEF Next

(***************************************************************************)
(* Inv holds throughout: publish_loop numbers the ticks of a run as it     *)
(* samples, and watch_loop keeps the newest sample it has accepted.        *)
(***************************************************************************)
THEOREM Invariance == Spec => []Inv
<1> QED BY InvInit, InvNext, PTL DEF Spec

(***************************************************************************)
(* The state is well typed: the difference that usage computes is zero or  *)
(* a CPU time, whatever the counters of two samples (watch_loop).          *)
(***************************************************************************)
THEOREM TypeCorrect == Spec => []TypeOK
<1>1. Inv => TypeOK
  BY DEF Inv, IndInv
<1> QED BY <1>1, Invariance, PTL

(***************************************************************************)
(* accept_tick lets no number in twice and none after a later one, so what *)
(* watch_loop prints of a run is in the order of publication, whatever the *)
(* gossip does.                                                            *)
(***************************************************************************)
THEOREM LinesAreInOrder == Spec => []PrintedInOrder
<1>1. ASSUME Inv PROVE PrintedInOrder
  <2>1. DOMAIN printed = 1 .. Len(printed)
    BY <1>1, LenProperties DEF Inv, IndInv, TypeOK
  <2> QED BY <1>1, <2>1 DEF Inv, IndInv, Watched, PrintedInOrder
<1> QED BY <1>1, Invariance, PTL

(***************************************************************************)
(* The CPU time watch_loop shows was used: it subtracts the samples of two *)
(* ticks of a run in the order of their publication, between which the     *)
(* process has used at least what its counter has gained, also across a    *)
(* relaunch; or, once, its first counter and a sample that another run's   *)
(* process left under the same handle.  Whoever prints the line of another *)
(* run in between loses this: the theorem is about runs without one.       *)
(***************************************************************************)
THEOREM ShownCpuWasUsed == Spec => []NoCpuIsInvented
<1>1. ASSUME NEW f \in HistType, IndInv(f), NEW n \in Node, NEW r \in Run, Uninterrupted(n, r)
      PROVE  shown[n][r] <= used[n][r]
  <2>0. Accounted(f, n, r) /\ shown[n][r] \in Nat /\ used[n][r] \in Nat
    BY <1>1, Bounds DEF IndInv, History, TypeOK
  <2>1. CASE shown[n][r] = 0
    BY <2>0, <2>1
  <2>2. ASSUME NEW t \in net, FromTick(f, n, r, t) PROVE shown[n][r] <= used[n][r]
    <3>1. UsedAt(f, t) \in Nat
      BY <1>1, UsedAtFacts DEF IndInv, TypeOK
    <3>2. UsedAt(f, t) <= used[n][r] /\ shown[n][r] <= UsedAt(f, t)
      BY <1>1, <2>2 DEF IndInv, History, Behind, FromTick
    <3> QED BY <2>0, <3>1, <3>2
  <2> QED BY <1>1, <2>0, <2>1, <2>2 DEF Accounted
<1>2. Inv => NoCpuIsInvented
  BY <1>1 DEF Inv, NoCpuIsInvented
<1> QED BY <1>2, Invariance, PTL
=============================================================================
