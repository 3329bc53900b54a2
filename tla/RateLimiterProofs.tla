------------------------- MODULE RateLimiterProofs -------------------------
(***************************************************************************)
(* What RateLimiter is shown to do for any number of peers, of overlapping *)
(* calls and of buckets, any burst, rate and expiry.                       *)
(***************************************************************************)
EXTENDS RateLimiter, FiniteSetTheorems, TLAPS

\* The smaller of two integers.
LEMMA MinOfTwo ==
    ASSUME NEW a \in Int, NEW b \in Int
    PROVE  Min({a, b}) = IF a <= b THEN a ELSE b
<1>1. PICK x \in {a, b} : \A y \in {a, b} : x <= y
  OBVIOUS
<1>2. \A z \in {a, b} : (\A y \in {a, b} : z <= y) => z = x
  BY <1>1
<1> QED
  BY <1>1, <1>2 DEF Min

\* Time since never runs backwards.
LEMMA SinceType ==
    ASSUME NEW now \in Nat, NEW earlier \in Nat
    PROVE  Since(now, earlier) \in Nat
BY DEF Since

LEMMA ProductType ==
    ASSUME NEW a \in Nat, NEW b \in Nat
    PROVE  a * b \in Nat
OBVIOUS

LEMMA Distributes ==
    ASSUME NEW a \in Int, NEW b \in Int, NEW c \in Int
    PROVE  a * (b + c) = a * b + a * c
OBVIOUS

LEMMA BucketType ==
    ASSUME TypeOK, NEW p \in Held
    PROVE  /\ p \in Peer /\ buckets[p] \in Bucket
           /\ buckets[p].tokens \in 0 .. Burst /\ buckets[p].last_used \in 0 .. MaxTime
BY DEF TypeOK, Held, Bucket

\* A refill neither exceeds the burst nor what the time adds.
LEMMA RefilledBounds ==
    ASSUME TypeOK, NEW peer \in Peer, NEW now \in 0 .. MaxTime
    PROVE  /\ Refilled(peer, now) \in 0 .. Burst
           /\ peer \in Held => Refilled(peer, now) <=
                 buckets[peer].tokens + Since(now, buckets[peer].last_used) * Refill
           /\ peer \notin Held => Refilled(peer, now) = Burst
<1> USE RateLimiterAssumption
<1>1. CASE peer \notin Held
  BY <1>1 DEF Refilled
<1>2. CASE peer \in Held
  <2>1. buckets[peer].tokens \in 0 .. Burst /\ buckets[peer].last_used \in Nat
    BY <1>2, BucketType
  <2> DEFINE d == Since(now, buckets[peer].last_used)
  <2>2. d \in Nat
    BY <2>1, SinceType DEF Since
  <2> HIDE DEF d
  <2>3. d * Refill \in Nat
    BY <2>2, ProductType
  <2>4. Refilled(peer, now) = Min({buckets[peer].tokens + d * Refill, Burst})
    BY <1>2 DEF Refilled, d
  <2>5. Min({buckets[peer].tokens + d * Refill, Burst}) =
           IF buckets[peer].tokens + d * Refill <= Burst
           THEN buckets[peer].tokens + d * Refill ELSE Burst
    BY <2>1, <2>3, MinOfTwo
  <2>6. Refilled(peer, now) \in 0 .. Burst
    BY <2>1, <2>3, <2>4, <2>5
  <2>7. Refilled(peer, now) <= buckets[peer].tokens + d * Refill
    BY <2>1, <2>3, <2>4, <2>5
  <2> QED
    BY <1>2, <2>6, <2>7 DEF d
<1> QED
  BY <1>1, <1>2

----------------------------------------------------------------------------
\* The first critical section, with its LETs named.
LEMMA DecideStep ==
    ASSUME TypeOK, NEW c \in Call, Decide(c)
    PROVE  \E peer \in Peer, now \in 0 .. MaxTime, taken \in {0, 1} :
              /\ calls[c] \in CallType /\ calls[c].peer = peer /\ calls[c].now = now
              /\ taken <= Refilled(peer, now)
              /\ buckets' = [buckets EXCEPT ![peer] =
                               [tokens |-> Refilled(peer, now) - taken, last_used |-> now]]
              /\ life' = [life EXCEPT ![peer] =
                   IF peer \in Held
                   THEN [since |-> life[peer].since,
                         granted |-> life[peer].granted + taken,
                         rewound |-> life[peer].rewound + Since(buckets[peer].last_used, now)]
                   ELSE [since |-> now, granted |-> taken, rewound |-> 0]]
              /\ calls' = [calls EXCEPT ![c] =
                             IF OverCap(Cardinality(Held \cup {peer}))
                             THEN [calls[c] EXCEPT !.pc = "evict"] ELSE NoCall]
              /\ UNCHANGED clock
<1>1. calls[c] \in CallType
  BY DEF Decide, TypeOK, NoCall
<1>2. PICK peer \in Peer, now \in 0 .. MaxTime : calls[c].peer = peer /\ calls[c].now = now
  BY <1>1 DEF CallType
<1>3. Refilled(peer, now) \in Nat
  BY RefilledBounds, RateLimiterAssumption
<1>4. PICK taken \in {0, 1} : taken = IF Refilled(peer, now) >= 1 THEN 1 ELSE 0
  OBVIOUS
<1>5. taken <= Refilled(peer, now)
  BY <1>3, <1>4
<1> DEFINE new == IF peer \in Held
                  THEN [since |-> life[peer].since,
                        granted |-> life[peer].granted + taken,
                        rewound |-> life[peer].rewound + Since(buckets[peer].last_used, now)]
                  ELSE [since |-> now, granted |-> taken, rewound |-> 0]
<1>6. buckets' = [buckets EXCEPT ![peer] =
                    [tokens |-> Refilled(peer, now) - taken, last_used |-> now]]
  BY <1>2, <1>4 DEF Decide
<1>7. life' = [life EXCEPT ![peer] = new]
  <2>1. CASE peer \in Held
    BY <1>2, <1>4, <2>1 DEF Decide
  <2>2. CASE peer \notin Held
    BY <1>2, <1>4, <2>2 DEF Decide, NoLife
  <2> QED
    BY <2>1, <2>2
<1>8. calls' = [calls EXCEPT ![c] =
                  IF OverCap(Cardinality(Held \cup {peer}))
                  THEN [calls[c] EXCEPT !.pc = "evict"] ELSE NoCall]
  BY <1>2 DEF Decide
<1>9. UNCHANGED clock
  BY DEF Decide
<1> QED
  BY <1>1, <1>2, <1>5, <1>6, <1>7, <1>8, <1>9

\* The second critical section: the least recently used bucket goes, if there
\* are too many, and the expired ones.
LEMMA EvictStep ==
    ASSUME NEW c \in Call, Evict(c)
    PROVE  \E gone \in SUBSET Peer :
              /\ gone \subseteq Held
              /\ OverCap(Cardinality(Held)) => \E p \in Oldest : p \in gone
              /\ buckets' = [p \in Peer |-> IF p \in gone THEN NoBucket ELSE buckets[p]]
              /\ life' = [p \in Peer |-> IF p \in gone THEN NoLife ELSE life[p]]
<1>1. PICK lru \in IF OverCap(Cardinality(Held)) THEN {{p} : p \in Oldest} ELSE {{}} :
          LET gone == lru \cup Stale(Held \ lru, calls[c].now)
          IN  /\ buckets' = [p \in Peer |-> IF p \in gone THEN NoBucket ELSE buckets[p]]
              /\ life' = [p \in Peer |-> IF p \in gone THEN NoLife ELSE life[p]]
  BY DEF Evict
<1>2. lru \subseteq Held /\ Held \subseteq Peer
  BY DEF Oldest, Held
<1>3. lru \cup Stale(Held \ lru, calls[c].now) \subseteq Held
  BY <1>2 DEF Stale
<1>4. OverCap(Cardinality(Held)) => \E p \in Oldest : p \in lru
  OBVIOUS
<1> QED
  BY <1>1, <1>2, <1>3, <1>4

----------------------------------------------------------------------------
(***************************************************************************)
(* TypeOK by itself is inductive.                                          *)
(***************************************************************************)
LEMMA TypeInit == Init => TypeOK
<1> USE RateLimiterAssumption
<1> HAVE Init
<1>1. NoLife \in [since : 0 .. MaxTime, granted : Nat, rewound : Nat]
  BY DEF NoLife
<1>2. NoBucket \in Bucket \cup {NoBucket} /\ NoCall \in CallType \cup {NoCall}
  OBVIOUS
<1> QED
  BY <1>1, <1>2 DEF Init, TypeOK

LEMMA TypeNext == TypeOK /\ [Next]_vars => TypeOK'
<1> USE RateLimiterAssumption
<1> SUFFICES ASSUME TypeOK, [Next]_vars PROVE TypeOK'
  OBVIOUS
<1> DEFINE Life == [since : 0 .. MaxTime, granted : Nat, rewound : Nat]
<1>1. CASE Tick
  BY <1>1 DEF Tick, TypeOK
<1>2. ASSUME NEW c \in Call, NEW peer \in Peer, Begin(c, peer) PROVE TypeOK'
  <2>1. [pc |-> "decide", peer |-> peer, now |-> clock] \in CallType
    BY DEF TypeOK, CallType
  <2> QED
    BY <1>2, <2>1 DEF Begin, TypeOK
<1>3. ASSUME NEW c \in Call, Decide(c) PROVE TypeOK'
  <2>1. PICK peer \in Peer, now \in 0 .. MaxTime, taken \in {0, 1} :
              /\ calls[c] \in CallType /\ calls[c].peer = peer /\ calls[c].now = now
              /\ taken <= Refilled(peer, now)
              /\ buckets' = [buckets EXCEPT ![peer] =
                               [tokens |-> Refilled(peer, now) - taken, last_used |-> now]]
              /\ life' = [life EXCEPT ![peer] =
                   IF peer \in Held
                   THEN [since |-> life[peer].since,
                         granted |-> life[peer].granted + taken,
                         rewound |-> life[peer].rewound + Since(buckets[peer].last_used, now)]
                   ELSE [since |-> now, granted |-> taken, rewound |-> 0]]
              /\ calls' = [calls EXCEPT ![c] =
                             IF OverCap(Cardinality(Held \cup {peer}))
                             THEN [calls[c] EXCEPT !.pc = "evict"] ELSE NoCall]
              /\ UNCHANGED clock
    BY <1>3, DecideStep
  <2>2. Refilled(peer, now) \in 0 .. Burst
    BY RefilledBounds
  <2>3. [tokens |-> Refilled(peer, now) - taken, last_used |-> now] \in Bucket
    BY <2>1, <2>2 DEF Bucket
  <2>4. buckets' \in [Peer -> Bucket \cup {NoBucket}]
    BY <2>1, <2>3 DEF TypeOK
  <2>5. [calls[c] EXCEPT !.pc = "evict"] \in CallType
    BY <2>1 DEF CallType
  <2>6. calls' \in [Call -> CallType \cup {NoCall}]
    BY <2>1, <2>5 DEF TypeOK
  <2>7. life' \in [Peer -> Life]
    <3>1. CASE peer \in Held
      <4>1. Since(buckets[peer].last_used, now) \in Nat
        BY <3>1, BucketType DEF Since
      <4>2. life[peer] \in Life
        BY DEF TypeOK
      <4> QED
        BY <2>1, <3>1, <4>1, <4>2 DEF TypeOK
    <3>2. CASE peer \notin Held
      BY <2>1, <3>2 DEF TypeOK
    <3> QED
      BY <3>1, <3>2
  <2> QED
    BY <2>1, <2>4, <2>6, <2>7 DEF TypeOK
<1>4. ASSUME NEW c \in Call, Evict(c) PROVE TypeOK'
  <2>1. PICK gone \in SUBSET Peer :
           /\ buckets' = [p \in Peer |-> IF p \in gone THEN NoBucket ELSE buckets[p]]
           /\ life' = [p \in Peer |-> IF p \in gone THEN NoLife ELSE life[p]]
    BY <1>4, EvictStep
  <2>2. NoLife \in Life
    BY DEF NoLife
  <2>3. calls' = [calls EXCEPT ![c] = NoCall] /\ UNCHANGED clock
    BY <1>4 DEF Evict
  <2> QED
    BY <2>1, <2>2, <2>3 DEF TypeOK
<1>5. CASE UNCHANGED vars
  BY <1>5 DEF vars, TypeOK
<1> QED
  BY <1>1, <1>2, <1>3, <1>4, <1>5 DEF Next

(***************************************************************************)
(* The state of RateLimiter is well typed (ratelimit.rs allow): no bucket  *)
(* has more than the burst or less than nothing.                           *)
(***************************************************************************)
THEOREM TypeCorrect == Spec => []TypeOK
<1>1. Init => TypeOK
  BY TypeInit
<1>2. TypeOK /\ [Next]_vars => TypeOK'
  BY TypeNext
<1> QED
  BY <1>1, <1>2, PTL DEF Spec

----------------------------------------------------------------------------
(***************************************************************************)
(* The bound on the map.                                                   *)
(***************************************************************************)
LEMMA Finite ==
    ASSUME NEW S \in SUBSET Peer, NEW T \in SUBSET Call
    PROVE  /\ IsFiniteSet(S) /\ Cardinality(S) \in Nat
           /\ IsFiniteSet(T) /\ Cardinality(T) \in Nat
BY RateLimiterAssumption, FS_Subset, FS_CardinalityType

LEMMA ExcessNext ==
    TypeOK /\ ExcessIsBeingEvicted /\ [Next]_vars => ExcessIsBeingEvicted'
<1> USE RateLimiterAssumption
<1> SUFFICES ASSUME TypeOK, ExcessIsBeingEvicted, [Next]_vars
             PROVE  ExcessIsBeingEvicted'
  OBVIOUS
<1>a. /\ IsFiniteSet(Held) /\ Cardinality(Held) \in Nat
      /\ IsFiniteSet(Evicting) /\ Cardinality(Evicting) \in Nat
  BY Finite DEF Held, Evicting
<1>b. Cardinality(Held) <= MaxBuckets + Cardinality(Evicting)
  BY DEF ExcessIsBeingEvicted
<1>1. CASE Tick
  BY <1>1 DEF Tick, ExcessIsBeingEvicted, Held, Evicting
<1>2. ASSUME NEW c \in Call, NEW peer \in Peer, Begin(c, peer) PROVE ExcessIsBeingEvicted'
  <2>1. Held' = Held
    BY <1>2 DEF Begin, Held
  <2>2. Evicting' = Evicting
    BY <1>2 DEF Begin, Evicting, TypeOK, NoCall
  <2> QED
    BY <2>1, <2>2, <1>b DEF ExcessIsBeingEvicted
<1>3. ASSUME NEW c \in Call, Decide(c) PROVE ExcessIsBeingEvicted'
  <2>1. PICK peer \in Peer, now \in 0 .. MaxTime, taken \in {0, 1} :
              /\ calls[c] \in CallType /\ calls[c].peer = peer /\ calls[c].now = now
              /\ taken <= Refilled(peer, now)
              /\ buckets' = [buckets EXCEPT ![peer] =
                               [tokens |-> Refilled(peer, now) - taken, last_used |-> now]]
              /\ life' = [life EXCEPT ![peer] =
                   IF peer \in Held
                   THEN [since |-> life[peer].since,
                         granted |-> life[peer].granted + taken,
                         rewound |-> life[peer].rewound + Since(buckets[peer].last_used, now)]
                   ELSE [since |-> now, granted |-> taken, rewound |-> 0]]
              /\ calls' = [calls EXCEPT ![c] =
                             IF OverCap(Cardinality(Held \cup {peer}))
                             THEN [calls[c] EXCEPT !.pc = "evict"] ELSE NoCall]
              /\ UNCHANGED clock
    BY <1>3, DecideStep
  <2>2. Refilled(peer, now) - taken # -1
    BY <2>1, RefilledBounds
  <2>3. Held' = Held \cup {peer}
    BY <2>1, <2>2 DEF TypeOK, Held, NoBucket
  <2>4. c \notin Evicting
    BY <1>3 DEF Evicting, Decide
  <2>5. CASE OverCap(Cardinality(Held \cup {peer}))
    <3>1. Evicting' = Evicting \cup {c}
      BY <2>1, <2>5 DEF TypeOK, Evicting, CallType
    <3>2. Cardinality(Evicting') = Cardinality(Evicting) + 1
      BY <1>a, <2>4, <3>1, FS_AddElement
    <3>3. Cardinality(Held \cup {peer}) <= Cardinality(Held) + 1
      <4>1. Cardinality(Held \cup {peer}) =
               IF peer \in Held THEN Cardinality(Held) ELSE Cardinality(Held) + 1
        BY <1>a, FS_AddElement
      <4> QED
        BY <1>a, <4>1
    <3>4. Cardinality(Held \cup {peer}) \in Nat
      BY <1>a, FS_AddElement, FS_CardinalityType
    <3> QED
      BY <1>a, <1>b, <2>3, <3>2, <3>3, <3>4 DEF ExcessIsBeingEvicted
  <2>6. CASE ~OverCap(Cardinality(Held \cup {peer}))
    <3>1. Evicting' = Evicting
      BY <1>3, <2>1, <2>6 DEF TypeOK, Evicting, NoCall, Decide
    <3>2. Cardinality(Held') <= MaxBuckets /\ Cardinality(Held') \in Nat
      BY <1>a, <2>3, <2>6, FS_AddElement, FS_CardinalityType DEF OverCap
    <3> QED
      BY <1>a, <3>1, <3>2 DEF ExcessIsBeingEvicted
  <2> QED
    BY <2>5, <2>6
<1>4. ASSUME NEW c \in Call, Evict(c) PROVE ExcessIsBeingEvicted'
  <2>1. PICK gone \in SUBSET Peer :
              /\ gone \subseteq Held
              /\ OverCap(Cardinality(Held)) => \E p \in Oldest : p \in gone
              /\ buckets' = [p \in Peer |-> IF p \in gone THEN NoBucket ELSE buckets[p]]
              /\ life' = [p \in Peer |-> IF p \in gone THEN NoLife ELSE life[p]]
    BY <1>4, EvictStep
  <2>2. Held' = Held \ gone
    BY <2>1 DEF Held
  <2>3. Evicting' = Evicting \ {c} /\ c \in Evicting
    BY <1>4 DEF Evict, Evicting, TypeOK, NoCall
  <2>4. Cardinality(Evicting') = Cardinality(Evicting) - 1
    BY <1>a, <2>3, FS_RemoveElement
  <2>5. Cardinality(Evicting') \in Nat
    BY <1>a, <2>3, FS_RemoveElement, FS_CardinalityType
  <2>6. CASE OverCap(Cardinality(Held))
    <3>1. PICK p \in Held : p \in gone
      BY <2>1, <2>6
    <3>2. Held' \subseteq Held \ {p}
      BY <2>2, <3>1
    <3>3. IsFiniteSet(Held \ {p}) /\ Cardinality(Held \ {p}) = Cardinality(Held) - 1
      BY <1>a, <3>1, FS_RemoveElement
    <3>4. Cardinality(Held') <= Cardinality(Held) - 1 /\ Cardinality(Held') \in Nat
      BY <3>2, <3>3, FS_Subset, FS_CardinalityType
    <3> QED
      BY <1>a, <1>b, <2>4, <3>4 DEF ExcessIsBeingEvicted
  <2>7. CASE ~OverCap(Cardinality(Held))
    <3>1. Cardinality(Held') <= Cardinality(Held) /\ Cardinality(Held') \in Nat
      BY <1>a, <2>2, FS_Subset, FS_CardinalityType
    <3> QED
      BY <1>a, <2>5, <2>7, <3>1 DEF ExcessIsBeingEvicted, OverCap
  <2> QED
    BY <2>6, <2>7
<1>5. CASE UNCHANGED vars
  BY <1>5 DEF vars, ExcessIsBeingEvicted, Held, Evicting
<1> QED
  BY <1>1, <1>2, <1>3, <1>4, <1>5 DEF Next

LEMMA ExcessInit == Init => ExcessIsBeingEvicted
<1> HAVE Init
<1>1. Held = {} /\ Evicting = {}
  BY DEF Init, Held, Evicting, NoCall
<1> QED
  BY <1>1, FS_EmptySet, RateLimiterAssumption DEF ExcessIsBeingEvicted

(***************************************************************************)
(* The map never exceeds max_buckets by more than the calls on their way   *)
(* to evict (allow, evict_lru), however many calls overlap.                *)
(***************************************************************************)
THEOREM MapIsBounded == Spec => []ExcessIsBeingEvicted
<1>1. Init => ExcessIsBeingEvicted
  BY ExcessInit
<1>2. TypeOK /\ ExcessIsBeingEvicted /\ [Next]_vars => ExcessIsBeingEvicted'
  BY ExcessNext
<1> QED
  BY <1>1, <1>2, TypeCorrect, PTL DEF Spec

----------------------------------------------------------------------------
(***************************************************************************)
(* The account of a bucket.                                                *)
(***************************************************************************)
LEMMA EarnedNext ==
    TypeOK /\ GrantsAreEarned /\ [Next]_vars => GrantsAreEarned'
<1> USE RateLimiterAssumption
<1> SUFFICES ASSUME TypeOK, GrantsAreEarned, [Next]_vars
             PROVE  GrantsAreEarned'
  OBVIOUS
<1>1. CASE Tick
  BY <1>1 DEF Tick, GrantsAreEarned, Held
<1>2. ASSUME NEW c \in Call, NEW peer \in Peer, Begin(c, peer) PROVE GrantsAreEarned'
  BY <1>2 DEF Begin, GrantsAreEarned, Held
<1>3. ASSUME NEW c \in Call, Decide(c) PROVE GrantsAreEarned'
  <2>1. PICK peer \in Peer, now \in 0 .. MaxTime, taken \in {0, 1} :
              /\ calls[c] \in CallType /\ calls[c].peer = peer /\ calls[c].now = now
              /\ taken <= Refilled(peer, now)
              /\ buckets' = [buckets EXCEPT ![peer] =
                               [tokens |-> Refilled(peer, now) - taken, last_used |-> now]]
              /\ life' = [life EXCEPT ![peer] =
                   IF peer \in Held
                   THEN [since |-> life[peer].since,
                         granted |-> life[peer].granted + taken,
                         rewound |-> life[peer].rewound + Since(buckets[peer].last_used, now)]
                   ELSE [since |-> now, granted |-> taken, rewound |-> 0]]
              /\ calls' = [calls EXCEPT ![c] =
                             IF OverCap(Cardinality(Held \cup {peer}))
                             THEN [calls[c] EXCEPT !.pc = "evict"] ELSE NoCall]
              /\ UNCHANGED clock
    BY <1>3, DecideStep
  <2>2. ASSUME NEW p \in Held', p # peer
        PROVE  (life[p].granted + buckets[p].tokens
                 <= Burst + Refill * (buckets[p].last_used - life[p].since + life[p].rewound))'
    <3>1. p \in Peer /\ buckets'[p] = buckets[p] /\ life'[p] = life[p]
      BY <2>1, <2>2 DEF Held, TypeOK
    <3>2. p \in Held
      BY <2>2, <3>1 DEF Held
    <3> QED
      BY <3>1, <3>2 DEF GrantsAreEarned
  <2>3. /\ buckets'[peer].tokens = Refilled(peer, now) - taken
        /\ buckets'[peer].last_used = now
    BY <2>1 DEF TypeOK
  <2>4. CASE peer \in Held
    <3> DEFINE b == buckets[peer]
               l == life[peer]
    <3>1. b.tokens \in Nat /\ b.last_used \in Nat /\ now \in Nat
      BY <2>4, BucketType
    <3>2. l.since \in Nat /\ l.granted \in Nat /\ l.rewound \in Nat
      BY DEF TypeOK
    <3>3. /\ life'[peer].since = l.since
          /\ life'[peer].granted = l.granted + taken
          /\ life'[peer].rewound = l.rewound + Since(b.last_used, now)
      BY <2>1, <2>4 DEF TypeOK
    <3>4. l.granted + b.tokens <= Burst + Refill * (b.last_used - l.since + l.rewound)
      BY <2>4 DEF GrantsAreEarned
    <3>5. Refilled(peer, now) \in Nat /\ Refilled(peer, now) <= b.tokens + Since(now, b.last_used) * Refill
      BY <2>4, RefilledBounds
    <3>6. /\ Since(now, b.last_used) \in Nat /\ Since(b.last_used, now) \in Nat
          /\ now + Since(b.last_used, now) = b.last_used + Since(now, b.last_used)
      BY <3>1 DEF Since
    <3> DEFINE old == b.last_used - l.since + l.rewound
               new == now - l.since + (l.rewound + Since(b.last_used, now))
               d == Since(now, b.last_used)
               r == Refilled(peer, now)
    <3>7. new = old + d /\ old \in Int /\ d \in Int
      BY <3>1, <3>2, <3>6
    <3>8. Refill * new = Refill * old + d * Refill
      <4> HIDE DEF old, new, d
      <4>1. Refill * (old + d) = Refill * old + Refill * d
        BY <3>7, Distributes
      <4>2. Refill * d = d * Refill
        BY <3>7
      <4> QED
        BY <3>7, <4>1, <4>2
    <3>9. (l.granted + taken) + (r - taken) <= Burst + Refill * new
      <4>1. PICK o \in Int : o = Refill * old
        BY <3>7
      <4>2. PICK e \in Int : e = d * Refill
        BY <3>7
      <4>3. r \in Nat /\ r <= b.tokens + e
        BY <3>5, <4>2
      <4>4. l.granted + b.tokens <= Burst + o
        BY <3>4, <4>1
      <4>5. Refill * new = o + e
        BY <3>8, <4>1, <4>2
      <4> HIDE DEF old, new, d, r, l, b
      <4>6. l.granted \in Nat /\ b.tokens \in Nat
        BY <3>1, <3>2
      <4>7. (l.granted + taken) + (r - taken) <= Burst + (o + e)
        BY <4>3, <4>4, <4>6
      <4> QED
        BY <4>5, <4>7
    <3>10. (life[peer].granted + buckets[peer].tokens
             <= Burst + Refill * (buckets[peer].last_used - life[peer].since + life[peer].rewound))'
      BY <2>3, <3>3, <3>9
    <3> QED
      BY <2>2, <3>10 DEF GrantsAreEarned
  <2>5. CASE peer \notin Held
    <3>1. /\ life'[peer].since = now /\ life'[peer].granted = taken
          /\ life'[peer].rewound = 0
      BY <2>1, <2>5 DEF TypeOK
    <3>2. Refilled(peer, now) = Burst
      BY <2>5, RefilledBounds
    <3>3. taken + (Burst - taken) <= Burst + Refill * (now - now + 0)
      OBVIOUS
    <3>4. (life[peer].granted + buckets[peer].tokens
             <= Burst + Refill * (buckets[peer].last_used - life[peer].since + life[peer].rewound))'
      BY <2>3, <3>1, <3>2, <3>3
    <3> QED
      BY <2>2, <3>4 DEF GrantsAreEarned
  <2> QED
    BY <2>4, <2>5
<1>4. ASSUME NEW c \in Call, Evict(c) PROVE GrantsAreEarned'
  <2>1. PICK gone \in SUBSET Peer :
           /\ buckets' = [p \in Peer |-> IF p \in gone THEN NoBucket ELSE buckets[p]]
           /\ life' = [p \in Peer |-> IF p \in gone THEN NoLife ELSE life[p]]
    BY <1>4, EvictStep
  <2>2. ASSUME NEW p \in Held'
        PROVE  p \in Held /\ buckets'[p] = buckets[p] /\ life'[p] = life[p]
    BY <2>1 DEF Held
  <2> QED
    BY <2>2 DEF GrantsAreEarned
<1>5. CASE UNCHANGED vars
  BY <1>5 DEF vars, GrantsAreEarned, Held
<1> QED
  BY <1>1, <1>2, <1>3, <1>4, <1>5 DEF Next

(***************************************************************************)
(* No bucket allows more than its burst and what its time earned (allow),  *)
(* the time that overlapping calls set back included.                      *)
(***************************************************************************)
THEOREM OnlyEarnedGrants == Spec => []GrantsAreEarned
<1>1. Init => GrantsAreEarned
  BY DEF Init, GrantsAreEarned, Held
<1>2. TypeOK /\ GrantsAreEarned /\ [Next]_vars => GrantsAreEarned'
  BY EarnedNext
<1> QED
  BY <1>1, <1>2, TypeCorrect, PTL DEF Spec
============================================================================
