---------------------------- MODULE RateLimiter ----------------------------
(***************************************************************************)
(* src/src/ratelimit.rs: one token bucket per peer, in a map that requests *)
(* on different threads share.  allow reads the clock, decides in one      *)
(* critical section and evicts in a second one.                            *)
(*                                                                         *)
(* Time is counted in ticks and tokens are whole: Refill is what one tick  *)
(* adds to a bucket.                                                       *)
(***************************************************************************)
EXTENDS Integers, FiniteSetsExt

CONSTANTS
    Peer,          \* endpoint ids
    Call,          \* calls of allow that may be in flight
    Burst,         \* RateLimiterConfig::burst
    Refill,        \* RateLimiterConfig::refill
    MaxBuckets,    \* RateLimiterConfig::max_buckets
    EvictionTtl,   \* RateLimiterConfig::eviction_ttl
    MaxTime        \* bound: the clock stops here

ASSUME RateLimiterAssumption ==
    /\ Burst \in Nat /\ Refill \in Nat /\ MaxBuckets \in Nat
    /\ EvictionTtl \in Nat /\ MaxTime \in Nat
    /\ IsFiniteSet(Peer) /\ IsFiniteSet(Call)

VARIABLES
    clock,         \* the monotonic clock
    buckets,       \* peer -> its bucket, or NoBucket
    calls,         \* call -> where allow stands, for which peer, its `now`
    life           \* history: peer -> what its bucket has seen since it was created

vars == <<clock, buckets, calls, life>>

NoBucket == [tokens |-> -1, last_used |-> 0]
Bucket == [tokens : 0 .. Burst, last_used : 0 .. MaxTime]
Held == {p \in Peer : buckets[p] # NoBucket}

\* "decide" before the first critical section, "evict" before the second.
NoCall == [pc |-> "idle"]
CallType == [pc : {"decide", "evict"}, peer : Peer, now : 0 .. MaxTime]

\* since: the `now` that created the bucket; granted: the calls it allowed;
\* rewound: by how much later calls have set last_used back.
NoLife == [since |-> 0, granted |-> 0, rewound |-> 0]

TypeOK ==
    /\ clock \in 0 .. MaxTime
    /\ buckets \in [Peer -> Bucket \cup {NoBucket}]
    /\ calls \in [Call -> CallType \cup {NoCall}]
    /\ life \in [Peer -> [since : 0 .. MaxTime, granted : Nat, rewound : Nat]]

Init ==
    /\ clock = 0
    /\ buckets = [p \in Peer |-> NoBucket]
    /\ calls = [c \in Call |-> NoCall]
    /\ life = [p \in Peer |-> NoLife]

Tick ==
    /\ clock < MaxTime
    /\ clock' = clock + 1
    /\ UNCHANGED <<buckets, calls, life>>

\* allow: `now` is read before the lock is taken.
Begin(c, peer) ==
    /\ calls[c] = NoCall
    /\ calls' = [calls EXCEPT ![c] = [pc |-> "decide", peer |-> peer, now |-> clock]]
    /\ UNCHANGED <<clock, buckets, life>>

----------------------------------------------------------------------------
\* Instant::duration_since is zero for an earlier instant.
Since(now, earlier) == IF now >= earlier THEN now - earlier ELSE 0

\* A faulty refill that forgets the cap.
RefilledUncapped(peer, now) ==
    IF peer \notin Held THEN Burst
    ELSE buckets[peer].tokens + Since(now, buckets[peer].last_used) * Refill

\* A faulty refill up to the time at which the lock is held, while last_used is
\* still set to the time at which the call began.
RefilledToTheClock(peer, now) ==
    IF peer \notin Held THEN Burst
    ELSE Min({buckets[peer].tokens + Since(clock, buckets[peer].last_used) * Refill, Burst})

\* The bucket of the peer at time now, created full if there is none.
Refilled(peer, now) ==
    IF peer \notin Held THEN Burst
    ELSE Min({buckets[peer].tokens + Since(now, buckets[peer].last_used) * Refill, Burst})

\* The eviction test at the wrong bound.
OverCapLate(n) == n > MaxBuckets + 1

OverCap(n) == n > MaxBuckets

\* allow: the first critical section.
Decide(c) ==
    /\ calls[c].pc = "decide"
    /\ LET peer == calls[c].peer
           now == calls[c].now
           tokens == Refilled(peer, now)
           taken == IF tokens >= 1 THEN 1 ELSE 0
           old == IF peer \in Held THEN life[peer] ELSE [NoLife EXCEPT !.since = now]
       IN  /\ buckets' = [buckets EXCEPT ![peer] =
                            [tokens |-> tokens - taken, last_used |-> now]]
           /\ life' = [life EXCEPT ![peer] =
                         [since |-> old.since,
                          granted |-> old.granted + taken,
                          rewound |-> old.rewound
                              + IF peer \in Held THEN Since(buckets[peer].last_used, now)
                                ELSE 0]]
           /\ calls' = [calls EXCEPT ![c] =
                          IF OverCap(Cardinality(Held \cup {peer}))
                          THEN [@ EXCEPT !.pc = "evict"] ELSE NoCall]
    /\ UNCHANGED clock

\* evict_lru: one of the buckets that were used least recently (the map's
\* iteration order breaks ties) goes.
Oldest == {p \in Held : \A q \in Held : buckets[p].last_used <= buckets[q].last_used}

\* evict_stale: the buckets last used before the cutoff.
Stale(ps, now) == {p \in ps : buckets[p].last_used < now - EvictionTtl}

\* allow: the second critical section.
Evict(c) ==
    /\ calls[c].pc = "evict"
    /\ \E lru \in IF OverCap(Cardinality(Held)) THEN {{p} : p \in Oldest} ELSE {{}} :
          LET gone == lru \cup Stale(Held \ lru, calls[c].now)
          IN  /\ buckets' = [p \in Peer |-> IF p \in gone THEN NoBucket ELSE buckets[p]]
              /\ life' = [p \in Peer |-> IF p \in gone THEN NoLife ELSE life[p]]
    /\ calls' = [calls EXCEPT ![c] = NoCall]
    /\ UNCHANGED clock

Next ==
    \/ Tick
    \/ \E c \in Call : Decide(c) \/ Evict(c) \/ \E peer \in Peer : Begin(c, peer)

Spec == Init /\ [][Next]_vars

----------------------------------------------------------------------------
Evicting == {c \in Call : calls[c].pc = "evict"}

(***************************************************************************)
(* The map is bounded (allow, evict_lru): it exceeds max_buckets by at     *)
(* most the number of calls that are on their way to evict, however the    *)
(* two critical sections of concurrent calls interleave.  (It is not the   *)
(* absolute bound that config.rs calls it.)                                *)
(***************************************************************************)
ExcessIsBeingEvicted == Cardinality(Held) <= MaxBuckets + Cardinality(Evicting)

(***************************************************************************)
(* Grants are earned (allow): a bucket allows no more calls than one burst *)
(* and what Refill adds in the time that it lived, to which the time comes *)
(* by which overlapping calls have set last_used back (each of them reads  *)
(* the clock before it waits for the lock).  An eviction is therefore      *)
(* worth one burst, and a race the time between two calls.                 *)
(***************************************************************************)
GrantsAreEarned ==
    \A p \in Held :
        life[p].granted + buckets[p].tokens
            <= Burst + Refill * (buckets[p].last_used - life[p].since + life[p].rewound)
============================================================================
