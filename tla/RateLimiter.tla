----------------------------- MODULE RateLimiter -----------------------------
(***************************************************************************)
(* The rate limiter (src/ids/rate_limit.rs): per source a token bucket for *)
(* packets and, in windows of fixed length, a byte and a connection count. *)
(* inspect holds the entry of its source in the DashMap from the first     *)
(* line to the last, so it is one step whichever worker runs it.           *)
(*                                                                         *)
(* Three histories say what was let through since a given time:            *)
(* tokens taken, and the bytes and SYNs of packets without a signal.       *)
(***************************************************************************)
EXTENDS Clock

CONSTANTS
    RateSources,   \* source addresses
    PktRate,       \* tokens per tick
    Capacity,      \* of the bucket
    BytesRate,     \* bytes per window
    ConnRate,      \* connections per window
    RateWindow,    \* window_secs
    RateIdle,      \* age at which the sweeper drops a bucket
    PacketSizes,
    MaxInspected   \* bound: packets looked at

\* The constructor's numbers (500 per second, 1000, 1 s) and the 120 seconds
\* of the sweeper satisfy these.
ASSUME RateAssumption ==
    /\ {PktRate, BytesRate, ConnRate, MaxInspected} \subseteq Nat
    /\ {Capacity, RateWindow, RateIdle} \subseteq Nat \ {0}
    /\ PacketSizes \subseteq Nat
    /\ RateWindow <= RateIdle
    /\ Capacity <= PktRate * RateIdle

VARIABLES
    buckets,      \* map of the sources with a bucket
    granted,      \* granted[src][s]: tokens taken since s
    quietBytes,   \* quietBytes[src][s]: bytes without a signal since s
    quietSyns,    \* quietSyns[src][s]: connections without a signal since s
    inspected

rateState == <<buckets, granted, quietBytes, quietSyns, inspected>>
rateVars == <<now, rateState>>

Bucket == [tokens: 0..Capacity, last_refill: Times, window_start: Times,
           bytes: Nat, connections: Nat]

RateTypeOK ==
    /\ now \in Times
    /\ DOMAIN buckets \subseteq RateSources
    /\ \A src \in DOMAIN buckets : buckets[src] \in Bucket
    /\ granted \in [RateSources -> [Times -> Nat]]
    /\ quietBytes \in [RateSources -> [Times -> Nat]]
    /\ quietSyns \in [RateSources -> [Times -> Nat]]
    /\ inspected \in Nat

RateInit ==
    /\ now = 0
    /\ buckets = NoKeys
    /\ granted = [src \in RateSources |-> [s \in Times |-> 0]]
    /\ quietBytes = granted
    /\ quietSyns = granted
    /\ inspected = 0
-----------------------------------------------------------------------------
NewBucket == [tokens |-> Capacity, last_refill |-> now, window_start |-> now,
              bytes |-> 0, connections |-> 0]

Entry(src) == IF src \in DOMAIN buckets THEN buckets[src] ELSE NewBucket

\* Mutant: the window is over as soon as time has passed.
WindowOverEarly(b) == now > b.window_start
WindowOver(b) == now - b.window_start >= RateWindow

\* The window counters start anew once the window is over.
Windowed(b) ==
    IF WindowOver(b)
    THEN [b EXCEPT !.bytes = 0, !.connections = 0, !.window_start = now]
    ELSE b

Counted(b, size, syn) ==
    [b EXCEPT !.bytes = @ + size, !.connections = @ + (IF syn THEN 1 ELSE 0)]

\* Mutant: no cap on the refill.
RefilledUncapped(b) == b.tokens + (now - b.last_refill) * PktRate
\* The tokens after the refill for the time since the last one.
Refilled(b) ==
    LET full == b.tokens + (now - b.last_refill) * PktRate
    IN  IF full <= Capacity THEN full ELSE Capacity

WithinRate(b) == Refilled(b) >= 1

Consume(b) ==
    [b EXCEPT !.tokens = Refilled(b) - (IF WithinRate(b) THEN 1 ELSE 0),
              !.last_refill = now]

RateSignal(b, syn) ==
    IF ~WithinRate(b) THEN "packets"
    ELSE IF b.bytes > BytesRate THEN "bytes"
    ELSE IF syn /\ b.connections > ConnRate THEN "connections"
    ELSE "none"

\* Adds n to what a history says of every interval that ends now.
Since(history, src, n) ==
    [history EXCEPT ![src] = [s \in Times |-> @[s] + (IF s <= now THEN n ELSE 0)]]

RateInspect(src, size, syn) ==
    LET b == Counted(Windowed(Entry(src)), size, syn)
        quiet == RateSignal(b, syn) = "none"
    IN  /\ inspected < MaxInspected
        /\ inspected' = inspected + 1
        /\ buckets' = Put(buckets, src, Consume(b))
        /\ granted' = Since(granted, src, IF WithinRate(b) THEN 1 ELSE 0)
        /\ quietBytes' = Since(quietBytes, src, IF quiet THEN size ELSE 0)
        /\ quietSyns' = Since(quietSyns, src, IF quiet /\ syn THEN 1 ELSE 0)
        /\ UNCHANGED now

\* Mutant: a bucket goes as soon as its window is over.
RateStaleByWindow(b) == WindowOver(b)
RateStale(b) == now - b.last_refill >= RateIdle

\* The sweeper's retain, at the entry of one source.
RateSweep(src) ==
    /\ buckets' = IF src \in DOMAIN buckets /\ RateStale(buckets[src])
                  THEN Without(buckets, {src}) ELSE buckets
    /\ UNCHANGED <<now, granted, quietBytes, quietSyns, inspected>>

RateTick == Tick /\ UNCHANGED rateState

RateNext ==
    \/ \E src \in RateSources, size \in PacketSizes, syn \in BOOLEAN :
          RateInspect(src, size, syn)
    \/ \E src \in RateSources : RateSweep(src)
    \/ RateTick

RateSpec == RateInit /\ [][RateNext]_rateVars
-----------------------------------------------------------------------------
(***************************************************************************)
(* The verdict on the packet rate (rate_limit.rs:37-49, 97) is exact: the  *)
(* next packet of a source is within its rate if and only if no interval   *)
(* up to now has used up the capacity and the rate.  Neither the cap on a  *)
(* refill nor a bucket that the sweeper dropped and inspect made anew      *)
(* (lines 83, 133) gives tokens away or loses any.                         *)
(***************************************************************************)
RateIsExact ==
    \A src \in RateSources :
        WithinRate(Entry(src)) <=>
            \A s \in 0..now : granted[src][s] < Capacity + PktRate * (now - s)

(***************************************************************************)
(* The windows of fixed length (rate_limit.rs:86-90) let at most twice the *)
(* limit through unnoticed in any interval as long as a window, wherever   *)
(* it begins and whatever the sweeper drops.                               *)
(***************************************************************************)
BurstIsBounded ==
    \A src \in RateSources : \A s \in Times :
        s <= now /\ now - s < RateWindow =>
            /\ quietBytes[src][s] <= 2 * BytesRate
            /\ quietSyns[src][s] <= 2 * ConnRate
=============================================================================
