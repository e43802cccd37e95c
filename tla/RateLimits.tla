------------------------------ MODULE RateLimits ------------------------------
(***************************************************************************)
(* What one caller may spend: the token bucket of one (address, route      *)
(* class) of hub-core/src/rate-limit.ts, consulted by handleRequest, and   *)
(* the sliding window of one (peer, agent) of checkFederatedRateLimit.     *)
(*                                                                         *)
(* Both read the wall clock, which may step back.  Time is in ticks, a     *)
(* token refills in TicksPerToken of them, and tokens are counted in the   *)
(* same unit, so that the continuous refill is exact.  `moved` is how far  *)
(* the clock has moved forward since the last mark: a mark may be set at   *)
(* any moment, so what holds since the mark holds of every interval.       *)
(***************************************************************************)
EXTENDS Integers

CONSTANTS
    TicksPerToken,  \* 60_000 / perMinute
    Capacity,       \* burstCapacity, in ticks of refill
    IdleTTL,        \* idle buckets are evicted after more than this
    PeerLimit,      \* federated calls ...
    PeerWindow,     \* ... per this many ticks
    ClockSteps,     \* how far the clock may be moved at once
    MaxClock,       \* bound of the instance: the clock's range
    MaxMoved        \* bound of the instance: the length of an interval

ASSUME RefillAssumption == TicksPerToken \in Nat \ {0} /\ Capacity \in Nat
\* 5 minutes against the one minute that fills the default bucket.
ASSUME EvictionAssumption == IdleTTL \in Nat /\ IdleTTL >= Capacity
ASSUME PeerWindowAssumption == PeerLimit \in Nat \ {0} /\ PeerWindow \in Nat \ {0}
ASSUME ClockAssumption == ClockSteps \subseteq Nat /\ MaxClock \in Nat /\ MaxMoved \in Nat

VARIABLES
    clock,     \* Date.now()
    entry,     \* the map's entry for the caller: "none" or "bucket"
    tokens,    \* its tokens, in ticks of refill
    last,      \* its lastRefillMs
    spent,     \* ticks' worth of tokens handed out since the mark
    moved,     \* how far the clock moved forward since the mark
    stamps,    \* federatedRateLimits: the times of the calls in the window, by slot
    peerCalls  \* federated calls let through since the mark

rateVars == <<clock, entry, tokens, last, spent, moved, stamps, peerCalls>>
bucket == <<entry, tokens, last, spent>>

\* The window has room for so many calls; where there is none, there is no stamp.
Slots == 1 .. PeerLimit
NoStamp == -1

RateTypeOK ==
    /\ clock \in Nat /\ entry \in {"none", "bucket"}
    /\ tokens \in 0 .. Capacity /\ last \in Nat
    /\ spent \in Nat /\ moved \in Nat
    /\ stamps \in [Slots -> Nat \cup {NoStamp}] /\ peerCalls \in Nat

RateInit ==
    /\ clock = 0 /\ entry = "none" /\ tokens = 0 /\ last = 0
    /\ spent = 0 /\ moved = 0
    /\ stamps = [n \in Slots |-> NoStamp] /\ peerCalls = 0

-----------------------------------------------------------------------------

AtMost(bound, n) == IF n < bound THEN n ELSE bound

\* (Wrong on purpose: what an idle bucket gained is not capped by the burst.)
RefilledUncapped == IF clock > last THEN tokens + (clock - last) ELSE tokens

\* What the bucket holds once it is refilled to now; a clock that stepped back
\* refills nothing.
Refilled ==
    IF clock > last THEN AtMost(Capacity, tokens + (clock - last)) ELSE tokens

\* consume: a bucket seen for the first time is full.
Available == IF entry = "bucket" THEN Refilled ELSE Capacity
RefillTime == IF entry = "bucket" /\ clock <= last THEN last ELSE clock

ConsumeAllowed ==
    /\ Available >= TicksPerToken
    /\ entry' = "bucket"
    /\ tokens' = Available - TicksPerToken
    /\ last' = RefillTime
    /\ spent' = spent + TicksPerToken
    /\ UNCHANGED <<clock, moved, stamps, peerCalls>>

\* 429: the refill is kept all the same.
ConsumeRefused ==
    /\ Available < TicksPerToken
    /\ entry' = "bucket"
    /\ tokens' = Available
    /\ last' = RefillTime
    /\ UNCHANGED <<clock, spent, moved, stamps, peerCalls>>

\* (Wrong on purpose: evicts whatever was not used in the last tick.)
EvictIdleAtOnce ==
    /\ entry = "bucket"
    /\ last < clock
    /\ entry' = "none"
    /\ UNCHANGED <<clock, tokens, last, spent, moved, stamps, peerCalls>>

\* evictIdle, from its interval timer.
EvictIdle ==
    /\ entry = "bucket"
    /\ last < clock - IdleTTL
    /\ entry' = "none"
    /\ UNCHANGED <<clock, tokens, last, spent, moved, stamps, peerCalls>>

-----------------------------------------------------------------------------

\* (Wrong on purpose: calls are forgotten a tick early.)
FreshEarly(n) == stamps[n] # NoStamp /\ stamps[n] > clock - PeerWindow + 1

\* A call still in the window: strictly younger than it is long.
Fresh(n) == stamps[n] # NoStamp /\ stamps[n] > clock - PeerWindow

\* checkFederatedRateLimit: the window is trimmed on every call, and a call
\* that is let through is stamped.
PeerCallAllowed ==
    /\ \E n \in Slots :
        /\ ~Fresh(n)
        /\ stamps' = [m \in Slots |-> IF m = n THEN clock
                                      ELSE IF Fresh(m) THEN stamps[m] ELSE NoStamp]
    /\ peerCalls' = peerCalls + 1
    /\ UNCHANGED <<clock, bucket, moved>>

PeerCallRefused ==
    /\ \A n \in Slots : Fresh(n)
    /\ UNCHANGED <<clock, bucket, moved, stamps, peerCalls>>

-----------------------------------------------------------------------------

\* Time passes, or the clock is set forward.
Advance(k) ==
    /\ clock + k <= MaxClock /\ moved + k <= MaxMoved
    /\ clock' = clock + k
    /\ moved' = moved + k
    /\ UNCHANGED <<bucket, stamps, peerCalls>>

\* The clock is set back.
StepBack(k) ==
    /\ k <= clock
    /\ clock' = clock - k
    /\ UNCHANGED <<bucket, moved, stamps, peerCalls>>

\* A new interval is looked at.
Mark ==
    /\ spent' = 0 /\ moved' = 0 /\ peerCalls' = 0
    /\ UNCHANGED <<clock, entry, tokens, last, stamps>>

\* A new process starts with empty maps; no interval reaches over it.
RateRestart ==
    /\ entry' = "none" /\ stamps' = [n \in Slots |-> NoStamp]
    /\ spent' = 0 /\ moved' = 0 /\ peerCalls' = 0
    /\ UNCHANGED <<clock, tokens, last>>

RateNext ==
    \/ ConsumeAllowed \/ ConsumeRefused \/ EvictIdle
    \/ PeerCallAllowed \/ PeerCallRefused
    \/ \E k \in ClockSteps : Advance(k) \/ StepBack(k)
    \/ Mark \/ RateRestart

RateSpec == RateInit /\ [][RateNext]_rateVars

-----------------------------------------------------------------------------
(***************************************************************************)
(* Properties.                                                             *)
(***************************************************************************)

\* rate-limit.ts promises a burst and a rate.  In every interval, whatever the
\* clock does and however often the bucket is evicted and made anew, a caller
\* gets no more than one burst and what the interval's time refills.
WithinRate == spent <= Capacity + moved

\* Why: what is spent and what could be spent at once stay within it together;
\* while there is no bucket, the full one to come is accounted for.
RateIInv == RateTypeOK /\ spent + Available <= Capacity + moved

\* handleFederationCall: 10 calls a minute of one peer and agent, counted in
\* any interval shorter than the window, wherever it starts and whichever calls
\* were let through before it, even when the clock is set back in between.
WithinWindow == moved < PeerWindow => peerCalls <= PeerLimit
=============================================================================
