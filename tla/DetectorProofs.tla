--------------------------- MODULE DetectorProofs ---------------------------
(***************************************************************************)
(* Proofs about the three detectors that keep state on a clock: the rate   *)
(* limiter, the SYN flood detector, the port scan detector.  Each          *)
(* invariant compares what the detector keeps with the history of what it  *)
(* was shown: resets, expiry and the sweeper lose nothing that a verdict   *)
(* depends on.                                                             *)
(***************************************************************************)
EXTENDS Detectors, FiniteSetTheorems, TLAPS

\* The times of the clock are natural numbers.
LEMMA TimesAreNat == Times \subseteq Nat /\ 0 \in Times
  BY ClockAssumption DEF Times

-----------------------------------------------------------------------------
(* The token bucket, as numbers: k tokens at time l, and a history G that  *)
(* says for every s how many tokens were taken since s.                    *)

\* Nothing was taken after l, no interval that ends at l was overdrawn by
\* what is left, and one of them is just used up.
Taken(k, l, G) ==
    /\ \A s \in Times : s > l => G[s] = 0
    /\ \A s \in Times : s <= l => k + G[s] <= Capacity + PktRate * (l - s)
    /\ \E s \in Times : s <= l /\ k + G[s] = Capacity + PktRate * (l - s)

\* No interval that ends at t needs the capacity of the bucket.
Free(G, t) ==
    /\ \A s \in Times : s > t => G[s] = 0
    /\ \A s \in Times : s <= t => G[s] <= PktRate * (t - s)

\* What RateAssumption says of the limits.
LEMMA RateConstants ==
    /\ PktRate \in Nat /\ Capacity \in Nat /\ Capacity >= 1
    /\ RateIdle \in Nat /\ RateWindow \in Nat /\ RateWindow >= 1 /\ RateWindow <= RateIdle
    /\ BytesRate \in Nat /\ ConnRate \in Nat /\ MaxInspected \in Nat
    /\ PktRate * RateIdle \in Nat /\ Capacity <= PktRate * RateIdle
  BY RateAssumption

\* PktRate times a duration, and the sum of two.
LEMMA RateTimes ==
    ASSUME NEW a \in Nat, NEW b \in Nat, NEW c \in Nat, a <= b, b <= c
    PROVE  /\ PktRate * (b - a) \in Nat /\ PktRate * (c - b) \in Nat
           /\ (c - b) * PktRate = PktRate * (c - b)
           /\ PktRate * (c - a) = PktRate * (c - b) + PktRate * (b - a)
  <1> DEFINE x == c - b
             y == b - a
             R == PktRate
  <1>1. x \in Nat /\ y \in Nat /\ c - a = x + y /\ R \in Nat
    BY RateConstants
  <1> HIDE DEF x, y, R
  <1>2. R * (x + y) = R * x + R * y /\ R * x \in Nat /\ R * y \in Nat /\ x * R = R * x
    BY <1>1
  <1> QED BY <1>1, <1>2 DEF x, y, R

\* What the bucket gains in an interval is a natural number.
LEMMA RateTime ==
    ASSUME NEW a \in Nat, NEW b \in Nat, a <= b
    PROVE  PktRate * (b - a) \in Nat
  BY RateTimes

\* A bucket gains at least as much in a longer interval.
LEMMA RateGrows ==
    ASSUME NEW d \in Nat, d >= RateIdle
    PROVE  PktRate * d >= PktRate * RateIdle
  <1> DEFINE e == d - RateIdle
             R == PktRate
             i == RateIdle
  <1>1. e \in Nat /\ d = i + e /\ R \in Nat /\ i \in Nat
    BY RateConstants
  <1> HIDE DEF e, R, i
  <1>2. R * (i + e) = R * i + R * e /\ R * e \in Nat /\ R * i \in Nat
    BY <1>1
  <1>3. R * (i + e) >= R * i
    BY <1>1, <1>2
  <1> QED BY <1>1, <1>3 DEF R, i

\* The tokens of a bucket that is refilled at t.
Full(k, l, t) == k + (t - l) * PktRate
Level(k, l, t) == IF Full(k, l, t) <= Capacity THEN Full(k, l, t) ELSE Capacity

\* refill keeps Taken: both what comes in and the cap agree with the history.
LEMMA RefillKeepsTaken ==
    ASSUME NEW k \in 0 .. Capacity, NEW l \in Times, NEW t \in Times, l <= t,
           NEW G \in [Times -> Nat], Taken(k, l, G)
    PROVE  Level(k, l, t) \in 0 .. Capacity /\ Taken(Level(k, l, t), t, G)
  <1> DEFINE d == PktRate * (t - l)
             m == Level(k, l, t)
             C == Capacity
  <1>1. l \in Nat /\ t \in Nat /\ \A s \in Times : s \in Nat
    BY TimesAreNat
  <1>2. d \in Nat /\ Full(k, l, t) = k + d /\ C \in Nat /\ k \in Nat /\ k <= C
    BY <1>1, RateTimes, RateConstants DEF Full
  <1>3. m = IF k + d <= C THEN k + d ELSE C
    BY <1>2 DEF Level
  <1>4. m \in 0 .. C /\ m <= k + d
    <2> HIDE DEF m, d, C
    <2> QED BY <1>2, <1>3
  <1>5. ASSUME NEW s \in Times, s > t PROVE G[s] = 0
    BY <1>1, <1>5 DEF Taken
  <1>6. ASSUME NEW s \in Times, s <= t PROVE m + G[s] <= C + PktRate * (t - s)
    <2>1. CASE s <= l
      <3> DEFINE e == PktRate * (l - s)
      <3>1. e \in Nat /\ PktRate * (t - s) = d + e
        BY <1>1, <2>1, RateTimes
      <3>2. k + G[s] <= C + e /\ G[s] \in Nat
        BY <2>1 DEF Taken
      <3> HIDE DEF m, d, e, C
      <3>3. m + G[s] <= C + (d + e)
        BY <1>2, <1>4, <3>1, <3>2
      <3> QED BY <3>1, <3>3
    <2>2. CASE s > l
      <3> DEFINE e == PktRate * (t - s)
      <3>1. e \in Nat
        BY <1>1, <1>6, RateTime
      <3>2. G[s] = 0
        BY <2>2 DEF Taken
      <3> HIDE DEF m, e, C
      <3>3. m + G[s] <= C + e
        BY <1>2, <1>4, <3>1, <3>2
      <3> QED BY <3>3 DEF e
    <2> QED BY <1>1, <2>1, <2>2
  <1>7. \E s \in Times : s <= t /\ m + G[s] = C + PktRate * (t - s)
    <2>1. CASE k + d <= C
      <3>1. PICK s \in Times : s <= l /\ k + G[s] = C + PktRate * (l - s)
        BY DEF Taken
      <3> DEFINE e == PktRate * (l - s)
      <3>2. e \in Nat /\ PktRate * (t - s) = d + e /\ s <= t /\ G[s] \in Nat
        <4>1. s \in Nat /\ s <= l /\ s <= t /\ G[s] \in Nat
          BY <1>1, <3>1
        <4>2. e \in Nat /\ PktRate * (t - s) = d + e
          BY <1>1, <4>1, RateTimes
        <4> QED BY <4>1, <4>2
      <3>3. m = k + d
        BY <1>3, <2>1
      <3>4. k + G[s] = C + e
        BY <3>1
      <3> HIDE DEF m, d, e, C
      <3>5. m + G[s] = C + (d + e)
        BY <1>2, <3>2, <3>3, <3>4
      <3> QED BY <3>2, <3>5
    <2>2. CASE k + d > C
      <3>1. l # t
        <4>1. l = t => d = 0
          BY <1>1, RateConstants
        <4> HIDE DEF d, C
        <4> QED BY <1>2, <2>2, <4>1
      <3>2. G[t] = 0
        BY <1>1, <3>1 DEF Taken
      <3>3. m = C
        <4> HIDE DEF m, d, C
        <4> QED BY <1>2, <1>3, <2>2
      <3>4. PktRate * (t - t) = 0
        BY <1>1, RateConstants
      <3>5. m + G[t] = C + PktRate * (t - t)
        <4> HIDE DEF m, C
        <4> QED BY <1>2, <3>2, <3>3, <3>4
      <3> QED BY <1>1, <3>5
    <2> HIDE DEF d, C
    <2> QED BY <1>2, <2>1, <2>2
  <1> HIDE DEF m
  <1> QED BY <1>4, <1>5, <1>6, <1>7 DEF Taken, m

\* A history with n more in every interval that ends at t.
Later(G, t, n) == [s \in Times |-> G[s] + (IF s <= t THEN n ELSE 0)]

\* What taking n tokens at time t does to the history.
LEMMA LaterType ==
    ASSUME NEW G \in [Times -> Nat], NEW t \in Times, NEW n \in Nat
    PROVE  /\ Later(G, t, n) \in [Times -> Nat]
           /\ \A s \in Times : s <= t => Later(G, t, n)[s] = G[s] + n
           /\ \A s \in Times : s > t => Later(G, t, n)[s] = G[s]
  BY TimesAreNat DEF Later

\* Taking a token if there is one, and none otherwise, keeps Taken.
LEMMA ConsumeKeepsTaken ==
    ASSUME NEW k \in 0 .. Capacity, NEW t \in Times, NEW G \in [Times -> Nat], Taken(k, t, G),
           NEW n \in {0, 1}, n = 1 <=> k >= 1
    PROVE  k - n \in 0 .. Capacity /\ Taken(k - n, t, Later(G, t, n))
  <1> DEFINE H == Later(G, t, n)
  <1>1. /\ \A s \in Times : s <= t => H[s] = G[s] + n
        /\ \A s \in Times : s > t => H[s] = G[s]
        /\ \A s \in Times : G[s] \in Nat
    BY LaterType
  <1> HIDE DEF H
  <1>2. k - n \in 0 .. Capacity /\ k \in Nat
    BY RateConstants
  <1>3. \A s \in Times : s > t => H[s] = 0
    BY <1>1 DEF Taken
  <1>4. \A s \in Times : s <= t => (k - n) + H[s] = k + G[s]
    BY <1>1, <1>2
  <1>5. \A s \in Times : s <= t => (k - n) + H[s] <= Capacity + PktRate * (t - s)
    BY <1>4, Zenon DEF Taken
  <1>6. \E s \in Times : s <= t /\ (k - n) + H[s] = Capacity + PktRate * (t - s)
    BY <1>4, Zenon DEF Taken
  <1> QED BY <1>2, <1>3, <1>5, <1>6, Zenon DEF Taken, H

\* A new bucket is full: right for a source whose past no longer counts.
LEMMA FreeIsTaken ==
    ASSUME NEW t \in Times, NEW G \in [Times -> Nat], Free(G, t)
    PROVE  Taken(Capacity, t, G)
  <1>1. t \in Nat /\ Capacity \in Nat /\ PktRate * (t - t) = 0
    BY TimesAreNat, RateConstants
  <1>2. G[t] = 0
    BY <1>1 DEF Free
  <1>3. ASSUME NEW s \in Times, s <= t PROVE Capacity + G[s] <= Capacity + PktRate * (t - s)
    <2> DEFINE e == PktRate * (t - s)
    <2>1. e \in Nat /\ G[s] \in Nat
      BY <1>1, <1>3, RateTime, TimesAreNat
    <2>2. G[s] <= e
      BY <1>3 DEF Free
    <2> HIDE DEF e
    <2>3. Capacity + G[s] <= Capacity + e
      BY <1>1, <2>1, <2>2
    <2> QED BY <2>3 DEF e
  <1>4. Capacity + G[t] = Capacity + PktRate * (t - t) /\ t <= t
    BY <1>1, <1>2
  <1>5. \A s \in Times : s > t => G[s] = 0
    BY DEF Free
  <1> QED BY <1>3, <1>4, <1>5, Zenon DEF Taken

\* A bucket that the sweeper may drop is full again.
LEMMA StaleIsFree ==
    ASSUME NEW k \in 0 .. Capacity, NEW l \in Times, NEW t \in Times, l <= t,
           t - l >= RateIdle, NEW G \in [Times -> Nat], Taken(k, l, G)
    PROVE  Free(G, t)
  <1>1. l \in Nat /\ t \in Nat /\ (\A s \in Times : s \in Nat) /\ Capacity \in Nat /\ k \in Nat
    BY TimesAreNat, RateConstants
  <1> DEFINE d == PktRate * (t - l)
  <1>2. d \in Nat /\ d >= Capacity
    <2> DEFINE i == PktRate * RateIdle
    <2>1. t - l \in Nat
      BY <1>1
    <2>2. d >= i /\ i \in Nat /\ Capacity <= i /\ d \in Nat
      BY <1>1, <2>1, RateGrows, RateConstants, RateTimes
    <2> HIDE DEF d, i
    <2> QED BY <1>1, <2>2
  <1>3. ASSUME NEW s \in Times, s <= t PROVE G[s] <= PktRate * (t - s)
    <2>1. CASE s <= l
      <3> DEFINE e == PktRate * (l - s)
      <3>1. e \in Nat /\ PktRate * (t - s) = d + e
        BY <1>1, <2>1, RateTimes
      <3>2. k + G[s] <= Capacity + e /\ G[s] \in Nat
        BY <2>1 DEF Taken
      <3> HIDE DEF d, e
      <3>3. G[s] <= d + e
        BY <1>1, <1>2, <3>1, <3>2
      <3> QED BY <3>1, <3>3
    <2>2. CASE s > l
      <3>1. G[s] = 0
        BY <2>2 DEF Taken
      <3>2. PktRate * (t - s) \in Nat
        BY <1>1, <1>3, RateTime
      <3> DEFINE e == PktRate * (t - s)
      <3> HIDE DEF e
      <3>3. e \in Nat => G[s] <= e
        BY <3>1
      <3> QED BY <3>2, <3>3 DEF e
    <2> QED BY <1>1, <2>1, <2>2
  <1>4. ASSUME NEW s \in Times, s > t PROVE G[s] = 0
    BY <1>1, <1>4 DEF Taken
  <1> QED BY <1>3, <1>4 DEF Free

\* A token is there if and only if no interval is used up.
LEMMA TakenIsExact ==
    ASSUME NEW k \in 0 .. Capacity, NEW t \in Times, NEW G \in [Times -> Nat], Taken(k, t, G)
    PROVE  k >= 1 <=> \A s \in 0 .. t : G[s] < Capacity + PktRate * (t - s)
  <1>1. /\ t \in Nat /\ Capacity \in Nat /\ k \in Nat
        /\ \A s \in 0 .. t : s \in Times /\ s <= t /\ s \in Nat
        /\ \A s \in Times : s <= t => s \in 0 .. t
    BY ClockAssumption, RateConstants DEF Times
  <1>2. ASSUME k >= 1, NEW s \in 0 .. t
        PROVE  G[s] < Capacity + PktRate * (t - s)
    <2> DEFINE e == PktRate * (t - s)
    <2>1. e \in Nat
      BY <1>1, RateTime
    <2>2. G[s] \in Nat /\ k + G[s] <= Capacity + e
      BY <1>1 DEF Taken
    <2> HIDE DEF e
    <2>3. G[s] < Capacity + e
      BY <1>1, <1>2, <2>1, <2>2
    <2> QED BY <2>3 DEF e
  <1>3. ASSUME \A s \in 0 .. t : G[s] < Capacity + PktRate * (t - s)
        PROVE  k >= 1
    <2>1. PICK s \in Times : s <= t /\ k + G[s] = Capacity + PktRate * (t - s)
      BY DEF Taken
    <2> DEFINE e == PktRate * (t - s)
    <2>2. e \in Nat
      BY <1>1, <2>1, RateTime
    <2>3. G[s] \in Nat /\ k + G[s] = Capacity + e /\ G[s] < Capacity + e
      BY <1>1, <1>3, <2>1
    <2> HIDE DEF e
    <2> QED BY <1>1, <2>2, <2>3
  <1> QED BY <1>2, <1>3

-----------------------------------------------------------------------------
(* A window, as numbers: it began at ws and has counted B; Q says for every *)
(* s how much passed without a signal since s; l is the last inspection.    *)

Window(Q, B, lim, ws, l) ==
    /\ \A s \in Times : s > l => Q[s] = 0
    /\ \A s \in Times : s >= ws => Q[s] <= lim /\ Q[s] <= B
    /\ \A s \in Times : s <= ws /\ ws - s < RateWindow => Q[s] <= Q[ws] + lim

Unseen(Q, t) == \A s \in Times : t - s < RateWindow => Q[s] = 0

\* A window that begins with a bucket, for a source not seen lately.
LEMMA UnseenIsWindow ==
    ASSUME NEW Q \in [Times -> Nat], NEW lim \in Nat, NEW t \in Times, Unseen(Q, t)
    PROVE  Window(Q, 0, lim, t, t)
  <1>1. \A s \in Times : s \in Nat /\ Q[s] \in Nat
    BY TimesAreNat
  <1>2. \A s \in Times : s >= t => t - s < RateWindow
    BY <1>1, RateConstants
  <1>3. \A s \in Times : s >= t => Q[s] = 0
    BY <1>2 DEF Unseen
  <1>4. \A s \in Times : t - s < RateWindow => Q[s] = 0
    BY DEF Unseen
  <1>5. Q[t] = 0
    BY <1>1, <1>3
  <1> QED BY <1>1, <1>3, <1>4, <1>5 DEF Window

\* Time that passes without a packet keeps the window.
LEMMA WindowLater ==
    ASSUME NEW Q \in [Times -> Nat], NEW B \in Nat, NEW lim \in Nat, NEW ws \in Times,
           NEW l \in Times, NEW t \in Times, l <= t, Window(Q, B, lim, ws, l)
    PROVE  Window(Q, B, lim, ws, t)
  <1>1. \A s \in Times : s \in Nat
    BY TimesAreNat
  <1>2. \A s \in Times : s > t => Q[s] = 0
    BY <1>1 DEF Window
  <1> QED BY <1>2, Zenon DEF Window

\* A window that has run out is followed by one that starts from zero.
LEMMA WindowRestarts ==
    ASSUME NEW Q \in [Times -> Nat], NEW B \in Nat, NEW lim \in Nat, NEW ws \in Times,
           NEW l \in Times, NEW t \in Times, Window(Q, B, lim, ws, l),
           ws <= l, l <= t, l - ws < RateWindow, t - ws >= RateWindow
    PROVE  Window(Q, 0, lim, t, t)
  <1>1. ws \in Nat /\ l \in Nat /\ t \in Nat /\ RateWindow \in Nat
        /\ \A s \in Times : s \in Nat /\ Q[s] \in Nat
    BY TimesAreNat, RateConstants
  <1>2. \A s \in Times : s >= t => s > l
    BY <1>1
  <1>3. \A s \in Times : s >= t => Q[s] = 0
    BY <1>2 DEF Window
  <1>4. ASSUME NEW s \in Times, t - s < RateWindow PROVE Q[s] <= lim
    <2>1. s >= ws
      BY <1>1, <1>4
    <2> QED BY <2>1 DEF Window
  <1>5. Q[t] = 0
    BY <1>1, <1>3
  <1>6. \A s \in Times : s <= t /\ t - s < RateWindow => Q[s] <= Q[t] + lim
    BY <1>1, <1>4, <1>5
  <1>7. \A s \in Times : s > t => s >= t
    BY <1>1
  <1> QED BY <1>1, <1>3, <1>6, <1>7 DEF Window

\* c is counted, and n of it passed without a signal.
LEMMA WindowCounts ==
    ASSUME NEW Q \in [Times -> Nat], NEW B \in Nat, NEW lim \in Nat, NEW ws \in Times,
           NEW t \in Times, Window(Q, B, lim, ws, t), ws <= t,
           NEW c \in Nat, NEW n \in Nat, n = 0 \/ (n = c /\ B + c <= lim)
    PROVE  Window(Later(Q, t, n), B + c, lim, ws, t)
  <1> DEFINE H == Later(Q, t, n)
  <1>1. /\ \A s \in Times : s <= t => H[s] = Q[s] + n
        /\ \A s \in Times : s > t => H[s] = Q[s]
        /\ \A s \in Times : Q[s] \in Nat /\ s \in Nat
        /\ ws \in Nat /\ t \in Nat
    <2>1. \A s \in Times : Q[s] \in Nat /\ s \in Nat
      BY TimesAreNat
    <2>2. /\ \A s \in Times : s <= t => H[s] = Q[s] + n
          /\ \A s \in Times : s > t => H[s] = Q[s]
      BY LaterType
    <2> QED BY <2>1, <2>2, Zenon
  <1> HIDE DEF H
  <1>2. \A s \in Times : s > t => H[s] = 0
    BY <1>1 DEF Window
  <1>3. ASSUME NEW s \in Times, s >= ws PROVE H[s] <= lim /\ H[s] <= B + c
    <2>1. Q[s] <= lim /\ Q[s] <= B
      BY <1>3 DEF Window
    <2>2. H[s] = Q[s] + n \/ H[s] = Q[s]
      BY <1>1
    <2> QED BY <1>1, <2>1, <2>2
  <1>4. ASSUME NEW s \in Times, s <= ws, ws - s < RateWindow PROVE H[s] <= H[ws] + lim
    <2>1. Q[s] <= Q[ws] + lim
      BY <1>4 DEF Window
    <2>2. H[s] = Q[s] + n /\ H[ws] = Q[ws] + n
      BY <1>1, <1>4
    <2> QED BY <1>1, <2>1, <2>2
  <1> QED BY <1>2, <1>3, <1>4 DEF Window, H

\* A bucket old enough to be swept has nothing left in its window.
LEMMA StaleIsUnseen ==
    ASSUME NEW Q \in [Times -> Nat], NEW B \in Nat, NEW lim \in Nat, NEW ws \in Times,
           NEW l \in Times, NEW t \in Times, Window(Q, B, lim, ws, l), t - l >= RateIdle
    PROVE  Unseen(Q, t)
  <1>1. \A s \in Times : t - s < RateWindow => s > l
    BY TimesAreNat, RateConstants
  <1> QED BY <1>1 DEF Window, Unseen

\* Two windows touch any interval of that length, so twice the limit bounds it.
LEMMA WindowBounds ==
    ASSUME NEW Q \in [Times -> Nat], NEW B \in Nat, NEW lim \in Nat, NEW ws \in Times,
           NEW l \in Times, NEW t \in Times, Window(Q, B, lim, ws, l), ws <= t,
           NEW s \in Times, t - s < RateWindow
    PROVE  Q[s] <= 2 * lim
  <1>1. ws \in Nat /\ t \in Nat /\ s \in Nat /\ Q[s] \in Nat /\ Q[ws] \in Nat
        /\ RateWindow \in Nat
    BY TimesAreNat, RateConstants
  <1>2. Q[ws] <= lim
    BY <1>1 DEF Window
  <1>3. CASE s >= ws
    <2>1. Q[s] <= lim
      BY <1>3 DEF Window
    <2> QED BY <1>1, <2>1
  <1>4. CASE s < ws
    <2>1. s <= ws /\ ws - s < RateWindow
      BY <1>1, <1>4
    <2>2. Q[s] <= Q[ws] + lim
      BY <2>1 DEF Window
    <2> QED BY <1>1, <1>2, <2>2
  <1> QED BY <1>1, <1>3, <1>4

-----------------------------------------------------------------------------
(* The rate limiter keeps what these say of every source. *)

\* What holds of the bucket b of a source with these histories at time t.
Sound(b, G, Qb, Qs, t) ==
    /\ b \in Bucket
    /\ b.window_start <= b.last_refill /\ b.last_refill <= t
    /\ b.last_refill - b.window_start < RateWindow
    /\ Taken(b.tokens, b.last_refill, G)
    /\ Window(Qb, b.bytes, BytesRate, b.window_start, b.last_refill)
    /\ Window(Qs, b.connections, ConnRate, b.window_start, b.last_refill)

\* What holds of a source without a bucket.
Absent(G, Qb, Qs, t) == Free(G, t) /\ Unseen(Qb, t) /\ Unseen(Qs, t)

SourceInv(src) ==
    IF src \in DOMAIN buckets
    THEN Sound(buckets[src], granted[src], quietBytes[src], quietSyns[src], now)
    ELSE Absent(granted[src], quietBytes[src], quietSyns[src], now)

RateInv == RateTypeOK /\ \A src \in RateSources : SourceInv(src)

\* The fields of a bucket.
LEMMA BucketFields ==
    ASSUME NEW b \in Bucket
    PROVE  /\ b.tokens \in 0 .. Capacity /\ b.last_refill \in Times
           /\ b.window_start \in Times /\ b.bytes \in Nat /\ b.connections \in Nat
  BY DEF Bucket

\* The types of the histories of one source.
LEMMA HistoryTypes ==
    ASSUME RateTypeOK, NEW src \in RateSources
    PROVE  /\ granted[src] \in [Times -> Nat] /\ quietBytes[src] \in [Times -> Nat]
           /\ quietSyns[src] \in [Times -> Nat] /\ now \in Times
  BY DEF RateTypeOK

\* The entry that inspect works on, new or not.
LEMMA EntrySound ==
    ASSUME RateInv, NEW src \in RateSources
    PROVE  Sound(Entry(src), granted[src], quietBytes[src], quietSyns[src], now)
  <1>1. CASE src \in DOMAIN buckets
    BY <1>1 DEF RateInv, SourceInv, Entry
  <1>2. CASE src \notin DOMAIN buckets
    <2>1. Absent(granted[src], quietBytes[src], quietSyns[src], now)
      BY <1>2 DEF RateInv, SourceInv
    <2>2. /\ granted[src] \in [Times -> Nat] /\ quietBytes[src] \in [Times -> Nat]
          /\ quietSyns[src] \in [Times -> Nat] /\ now \in Times
      BY HistoryTypes DEF RateInv
    <2>3. /\ Taken(Capacity, now, granted[src])
          /\ Window(quietBytes[src], 0, BytesRate, now, now)
          /\ Window(quietSyns[src], 0, ConnRate, now, now)
      BY <2>1, <2>2, FreeIsTaken, UnseenIsWindow, RateConstants DEF Absent
    <2>4. /\ NewBucket \in Bucket
          /\ NewBucket.tokens = Capacity /\ NewBucket.last_refill = now
          /\ NewBucket.window_start = now
          /\ NewBucket.bytes = 0 /\ NewBucket.connections = 0
      BY <2>2, RateConstants DEF NewBucket, Bucket
    <2>5. now <= now /\ now - now < RateWindow
      BY <2>2, RateConstants, TimesAreNat
    <2>6. Entry(src) = NewBucket
      BY <1>2 DEF Entry
    <2> QED BY <2>3, <2>4, <2>5, <2>6, Zenon DEF Sound
  <1> QED BY <1>1, <1>2

\* The windows of the entry after the check for their end.
LEMMA WindowedSound ==
    ASSUME NEW b, NEW G \in [Times -> Nat], NEW Qb \in [Times -> Nat], NEW Qs \in [Times -> Nat],
           now \in Times, Sound(b, G, Qb, Qs, now)
    PROVE  LET c == Windowed(b) IN
           /\ c \in Bucket /\ c.tokens = b.tokens /\ c.last_refill = b.last_refill
           /\ c.window_start <= now /\ now - c.window_start < RateWindow
           /\ Window(Qb, c.bytes, BytesRate, c.window_start, now)
           /\ Window(Qs, c.connections, ConnRate, c.window_start, now)
  <1>1. /\ b \in Bucket /\ b.tokens \in 0 .. Capacity /\ b.last_refill \in Times
        /\ b.window_start \in Times /\ b.bytes \in Nat /\ b.connections \in Nat
    BY BucketFields DEF Sound
  <1>2. /\ b.window_start <= b.last_refill /\ b.last_refill <= now
        /\ b.last_refill - b.window_start < RateWindow
        /\ Window(Qb, b.bytes, BytesRate, b.window_start, b.last_refill)
        /\ Window(Qs, b.connections, ConnRate, b.window_start, b.last_refill)
    BY DEF Sound
  <1>3. BytesRate \in Nat /\ ConnRate \in Nat /\ RateWindow \in Nat /\ RateWindow >= 1
    BY RateConstants
  <1>4. now \in Nat /\ b.window_start \in Nat /\ b.last_refill \in Nat
    BY <1>1, TimesAreNat
  <1>5. CASE WindowOver(b)
    <2>1. now - b.window_start >= RateWindow
      BY <1>5 DEF WindowOver
    <2>2. Window(Qb, 0, BytesRate, now, now) /\ Window(Qs, 0, ConnRate, now, now)
      BY <1>1, <1>2, <1>3, <2>1, WindowRestarts
    <2> DEFINE c == [b EXCEPT !.bytes = 0, !.connections = 0, !.window_start = now]
    <2>3. Windowed(b) = c
      BY <1>5 DEF Windowed
    <2>4. /\ c \in Bucket /\ c.tokens = b.tokens /\ c.last_refill = b.last_refill
          /\ c.window_start = now /\ c.bytes = 0 /\ c.connections = 0
      BY <1>1 DEF Bucket
    <2>5. now <= now /\ now - now < RateWindow
      BY <1>3, <1>4
    <2> HIDE DEF c
    <2> QED BY <2>2, <2>3, <2>4, <2>5, Zenon
  <1>6. CASE ~WindowOver(b)
    <2>1. Windowed(b) = b
      BY <1>6 DEF Windowed
    <2>2. now - b.window_start < RateWindow /\ b.window_start <= now
      BY <1>2, <1>3, <1>4, <1>6 DEF WindowOver
    <2>3. /\ Window(Qb, b.bytes, BytesRate, b.window_start, now)
          /\ Window(Qs, b.connections, ConnRate, b.window_start, now)
      BY <1>1, <1>2, <1>3, WindowLater
    <2> QED BY <1>1, <2>1, <2>2, <2>3, Zenon
  <1> QED BY <1>5, <1>6

\* What RateInspect makes of an entry and of the histories of its source.
LEMMA InspectSound ==
    ASSUME RateInv, NEW src \in RateSources, NEW size \in PacketSizes, NEW syn \in BOOLEAN
    PROVE  LET b == Counted(Windowed(Entry(src)), size, syn)
               quiet == RateSignal(b, syn) = "none"
               g == IF WithinRate(b) THEN 1 ELSE 0
               qb == IF quiet THEN size ELSE 0
               qs == IF quiet /\ syn THEN 1 ELSE 0
           IN  /\ {g, qb, qs} \subseteq Nat
               /\ Sound(Consume(b), Later(granted[src], now, g),
                        Later(quietBytes[src], now, qb), Later(quietSyns[src], now, qs), now)
  <1> DEFINE e == Entry(src)
             c == Windowed(e)
             syns == IF syn THEN 1 ELSE 0
             b == Counted(c, size, syn)
             quiet == RateSignal(b, syn) = "none"
             g == IF WithinRate(b) THEN 1 ELSE 0
             qb == IF quiet THEN size ELSE 0
             qs == IF quiet /\ syn THEN 1 ELSE 0
             G == granted[src]
             Qb == quietBytes[src]
             Qs == quietSyns[src]
             f == Consume(b)
  <1>1. G \in [Times -> Nat] /\ Qb \in [Times -> Nat] /\ Qs \in [Times -> Nat] /\ now \in Times
    BY HistoryTypes DEF RateInv
  <1>2. Sound(e, G, Qb, Qs, now)
    BY EntrySound
  <1> HIDE DEF e, G, Qb, Qs
  <1>3. /\ c \in Bucket /\ c.tokens = e.tokens /\ c.last_refill = e.last_refill
        /\ c.window_start <= now /\ now - c.window_start < RateWindow
        /\ Window(Qb, c.bytes, BytesRate, c.window_start, now)
        /\ Window(Qs, c.connections, ConnRate, c.window_start, now)
    BY <1>1, <1>2, WindowedSound
  <1> HIDE DEF c
  <1>4. /\ c.window_start \in Times /\ c.bytes \in Nat /\ c.connections \in Nat
        /\ e.tokens \in 0 .. Capacity /\ e.last_refill \in Times /\ e.last_refill <= now
        /\ Taken(e.tokens, e.last_refill, G)
    BY <1>2, <1>3, BucketFields DEF Sound
  <1>5. size \in Nat /\ syns \in Nat
    BY RateAssumption
  <1>6. /\ b \in Bucket /\ b.tokens = e.tokens /\ b.last_refill = e.last_refill
        /\ b.window_start = c.window_start
        /\ b.bytes = c.bytes + size /\ b.connections = c.connections + syns
    <2> DEFINE x == c.bytes + size
               y == c.connections + syns
    <2>1. x \in Nat /\ y \in Nat
      BY <1>4, <1>5
    <2>2. b = [c EXCEPT !.bytes = x, !.connections = y]
      BY Zenon DEF Counted
    <2> HIDE DEF b, x, y
    <2>3. /\ b \in Bucket /\ b.tokens = c.tokens /\ b.last_refill = c.last_refill
          /\ b.window_start = c.window_start /\ b.bytes = x /\ b.connections = y
      BY <1>3, <2>1, <2>2 DEF Bucket
    <2> QED BY <1>3, <2>3 DEF x, y
  <1> HIDE DEF b, syns
  <1>7. Refilled(b) = Level(e.tokens, e.last_refill, now)
    BY <1>6 DEF Refilled, Level, Full
  <1> DEFINE r == Refilled(b)
  <1>8. r \in 0 .. Capacity /\ Taken(r, now, G)
    BY <1>1, <1>4, <1>7, RefillKeepsTaken
  <1>9. g \in {0, 1} /\ (g = 1 <=> r >= 1)
    BY DEF WithinRate
  <1>10. f.tokens = r - g /\ f.last_refill = now /\ f.window_start = b.window_start
         /\ f.bytes = b.bytes /\ f.connections = b.connections
    BY <1>6 DEF Consume, Bucket, WithinRate
  <1> HIDE DEF r, g
  <1>11. r - g \in 0 .. Capacity /\ Taken(r - g, now, Later(G, now, g))
    BY <1>1, <1>8, <1>9, ConsumeKeepsTaken
  <1>12. f \in Bucket
    <2>1. f = [b EXCEPT !.tokens = r - g, !.last_refill = now]
      BY Zenon DEF Consume, r, g, WithinRate
    <2> HIDE DEF f
    <2> QED BY <1>1, <1>6, <1>11, <2>1 DEF Bucket
  <1>13. quiet => b.bytes <= BytesRate /\ (syn => b.connections <= ConnRate)
    <2>1. b.bytes \in Nat /\ b.connections \in Nat /\ BytesRate \in Nat /\ ConnRate \in Nat
      BY <1>6, BucketFields, RateConstants
    <2>2. ASSUME quiet PROVE ~(b.bytes > BytesRate) /\ ~(syn /\ b.connections > ConnRate)
      BY <2>2 DEF RateSignal
    <2> HIDE DEF quiet
    <2> QED BY <2>1, <2>2
  <1>14. /\ qb \in Nat /\ (qb = 0 \/ (qb = size /\ c.bytes + size <= BytesRate))
         /\ qs \in Nat /\ (qs = 0 \/ (qs = syns /\ c.connections + syns <= ConnRate))
    <2> HIDE DEF quiet
    <2> QED BY <1>5, <1>6, <1>13 DEF syns
  <1> HIDE DEF qb, qs
  <1>15. /\ Window(Later(Qb, now, qb), c.bytes + size, BytesRate, c.window_start, now)
         /\ Window(Later(Qs, now, qs), c.connections + syns, ConnRate, c.window_start, now)
    BY <1>1, <1>3, <1>4, <1>5, <1>14, WindowCounts, RateConstants
  <1>16. now <= now
    BY <1>1, TimesAreNat
  <1> HIDE DEF f
  <1>17. Sound(f, Later(G, now, g), Later(Qb, now, qb), Later(Qs, now, qs), now)
    BY <1>3, <1>6, <1>10, <1>11, <1>12, <1>15, <1>16, Zenon DEF Sound
  <1>18. {g, qb, qs} \subseteq Nat
    BY <1>9, <1>14
  <1> QED BY <1>17, <1>18 DEF f, b, c, e, G, Qb, Qs, g, qb, qs, quiet

\* RateInv holds when the detector is new.
LEMMA RateStart == RateInit => RateInv
  <1> SUFFICES ASSUME RateInit PROVE RateInv
    OBVIOUS
  <1> DEFINE Zero == [s \in Times |-> 0]
  <1>1. /\ now = 0 /\ now \in Times
        /\ granted = [src \in RateSources |-> Zero]
        /\ quietBytes = granted /\ quietSyns = granted
        /\ DOMAIN buckets = {} /\ inspected = 0
    BY TimesAreNat DEF RateInit, NoKeys
  <1>2. Zero \in [Times -> Nat] /\ \A s \in Times : Zero[s] = 0
    OBVIOUS
  <1> HIDE DEF Zero
  <1>3. RateTypeOK
    BY <1>1, <1>2 DEF RateTypeOK
  <1>4. Free(Zero, 0) /\ Unseen(Zero, 0)
    <2>1. ASSUME NEW s \in Times, s <= 0 PROVE Zero[s] <= PktRate * (0 - s)
      <3>1. s = 0
        BY <2>1, TimesAreNat
      <3>2. PktRate * (0 - 0) = 0
        BY RateConstants
      <3> QED BY <1>2, <3>1, <3>2
    <2> QED BY <1>2, <2>1 DEF Free, Unseen
  <1>5. \A src \in RateSources :
           granted[src] = Zero /\ quietBytes[src] = Zero /\ quietSyns[src] = Zero
    BY <1>1
  <1> QED BY <1>1, <1>3, <1>4, <1>5, Zenon DEF RateInv, SourceInv, Absent

\* inspect keeps RateInv, for its own source and for the others.
LEMMA RateInspectKeeps ==
    ASSUME RateInv, NEW src \in RateSources, NEW size \in PacketSizes, NEW syn \in BOOLEAN,
           RateInspect(src, size, syn)
    PROVE  RateInv'
  <1> DEFINE b == Counted(Windowed(Entry(src)), size, syn)
             quiet == RateSignal(b, syn) = "none"
             g == IF WithinRate(b) THEN 1 ELSE 0
             qb == IF quiet THEN size ELSE 0
             qs == IF quiet /\ syn THEN 1 ELSE 0
             f == Consume(b)
  <1>1. /\ inspected' = inspected + 1 /\ buckets' = Put(buckets, src, f)
        /\ granted' = Since(granted, src, g) /\ quietBytes' = Since(quietBytes, src, qb)
        /\ quietSyns' = Since(quietSyns, src, qs) /\ now' = now
    BY Zenon DEF RateInspect
  <1>2. /\ {g, qb, qs} \subseteq Nat
        /\ Sound(f, Later(granted[src], now, g), Later(quietBytes[src], now, qb),
                 Later(quietSyns[src], now, qs), now)
    BY InspectSound
  <1> HIDE DEF f, g, qb, qs
  <1>3. RateTypeOK /\ now \in Times
    BY DEF RateInv, RateTypeOK
  <1>4. ASSUME NEW h \in [RateSources -> [Times -> Nat]], NEW n \in Nat
        PROVE  /\ Since(h, src, n) \in [RateSources -> [Times -> Nat]]
               /\ Since(h, src, n)[src] = Later(h[src], now, n)
               /\ \A o \in RateSources : o # src => Since(h, src, n)[o] = h[o]
    <2>1. Since(h, src, n) = [h EXCEPT ![src] = Later(h[src], now, n)]
      BY Zenon DEF Since, Later
    <2>2. Later(h[src], now, n) \in [Times -> Nat]
      BY <1>3, LaterType
    <2> QED BY <2>1, <2>2
  <1>5. /\ granted' \in [RateSources -> [Times -> Nat]]
        /\ quietBytes' \in [RateSources -> [Times -> Nat]]
        /\ quietSyns' \in [RateSources -> [Times -> Nat]]
        /\ granted'[src] = Later(granted[src], now, g)
        /\ quietBytes'[src] = Later(quietBytes[src], now, qb)
        /\ quietSyns'[src] = Later(quietSyns[src], now, qs)
        /\ \A o \in RateSources : o # src =>
              /\ granted'[o] = granted[o] /\ quietBytes'[o] = quietBytes[o]
              /\ quietSyns'[o] = quietSyns[o]
    <2>1. g \in Nat /\ qb \in Nat /\ qs \in Nat
      BY <1>2
    <2>2. /\ granted \in [RateSources -> [Times -> Nat]]
          /\ quietBytes \in [RateSources -> [Times -> Nat]]
          /\ quietSyns \in [RateSources -> [Times -> Nat]]
      BY <1>3 DEF RateTypeOK
    <2> QED BY <1>1, <1>4, <2>1, <2>2, Zenon
  <1>6. /\ DOMAIN buckets' = DOMAIN buckets \cup {src} /\ buckets'[src] = f
        /\ \A o \in DOMAIN buckets : o # src => buckets'[o] = buckets[o]
    BY <1>1 DEF Put
  <1>7. RateTypeOK'
    <2>1. f \in Bucket
      BY <1>2 DEF Sound
    <2>2. DOMAIN buckets' \subseteq RateSources
      BY <1>3, <1>6 DEF RateTypeOK
    <2>3. \A o \in DOMAIN buckets' : buckets'[o] \in Bucket
      BY <1>3, <1>6, <2>1, Zenon DEF RateTypeOK
    <2>4. now' \in Times /\ inspected' \in Nat
      BY <1>1, <1>3 DEF RateTypeOK
    <2> QED BY <1>5, <2>2, <2>3, <2>4, Zenon DEF RateTypeOK
  <1>8. SourceInv(src)'
    BY <1>1, <1>2, <1>5, <1>6, Zenon DEF SourceInv
  <1>9. ASSUME NEW o \in RateSources, o # src PROVE SourceInv(o)'
    <2>1. SourceInv(o)
      BY DEF RateInv
    <2>2. o \in DOMAIN buckets' <=> o \in DOMAIN buckets
      BY <1>6, <1>9
    <2> QED BY <1>1, <1>5, <1>6, <1>9, <2>1, <2>2, Zenon DEF SourceInv
  <1> QED BY <1>7, <1>8, <1>9, Zenon DEF RateInv

\* The sweeper keeps it: what it drops is as good as absent.
LEMMA RateSweepKeeps ==
    ASSUME RateInv, NEW src \in RateSources, RateSweep(src)
    PROVE  RateInv'
  <1>1. UNCHANGED <<now, granted, quietBytes, quietSyns, inspected>>
    BY DEF RateSweep
  <1>2. CASE src \in DOMAIN buckets /\ RateStale(buckets[src])
    <2>1. buckets' = Without(buckets, {src})
      BY <1>2 DEF RateSweep
    <2>2. /\ DOMAIN buckets' = DOMAIN buckets \ {src}
          /\ \A o \in DOMAIN buckets' : buckets'[o] = buckets[o]
      BY <2>1 DEF Without
    <2>3. RateTypeOK'
      BY <1>1, <2>2 DEF RateInv, RateTypeOK
    <2>4. SourceInv(src)'
      <3> DEFINE b == buckets[src]
      <3>1. Sound(b, granted[src], quietBytes[src], quietSyns[src], now)
        BY <1>2 DEF RateInv, SourceInv
      <3>2. /\ granted[src] \in [Times -> Nat] /\ quietBytes[src] \in [Times -> Nat]
            /\ quietSyns[src] \in [Times -> Nat] /\ now \in Times
        BY HistoryTypes DEF RateInv
      <3>3. /\ b.tokens \in 0 .. Capacity /\ b.last_refill \in Times
            /\ b.window_start \in Times /\ b.bytes \in Nat /\ b.connections \in Nat
        BY <3>1, BucketFields DEF Sound
      <3>4. now - b.last_refill >= RateIdle /\ b.last_refill <= now
        BY <1>2, <3>1 DEF RateStale, Sound
      <3> HIDE DEF b
      <3>5. Free(granted[src], now)
        BY <3>1, <3>2, <3>3, <3>4, StaleIsFree DEF Sound
      <3>6. Unseen(quietBytes[src], now) /\ Unseen(quietSyns[src], now)
        BY <3>1, <3>2, <3>3, <3>4, StaleIsUnseen, RateConstants DEF Sound
      <3>7. src \notin DOMAIN buckets'
        BY <2>2
      <3> QED BY <1>1, <3>5, <3>6, <3>7, Zenon DEF SourceInv, Absent
    <2>5. ASSUME NEW o \in RateSources, o # src PROVE SourceInv(o)'
      <3>1. SourceInv(o) /\ (o \in DOMAIN buckets' <=> o \in DOMAIN buckets)
        BY <2>2, <2>5 DEF RateInv
      <3> QED BY <1>1, <2>2, <3>1, Zenon DEF SourceInv
    <2> QED BY <2>3, <2>4, <2>5, Zenon DEF RateInv
  <1>3. CASE ~(src \in DOMAIN buckets /\ RateStale(buckets[src]))
    <2>1. buckets' = buckets
      BY <1>3 DEF RateSweep
    <2> QED BY <1>1, <2>1 DEF RateInv, RateTypeOK, SourceInv
  <1> QED BY <1>2, <1>3

\* Time passes for a bucket, and for none.
LEMMA SoundLater ==
    ASSUME NEW b, NEW G, NEW Qb, NEW Qs, NEW t \in Nat, NEW u \in Nat, t <= u,
           Sound(b, G, Qb, Qs, t)
    PROVE  Sound(b, G, Qb, Qs, u)
  <1>1. b.last_refill \in Nat /\ b.last_refill <= t
    BY BucketFields, TimesAreNat DEF Sound
  <1>2. b.last_refill <= u
    BY <1>1
  <1> QED BY <1>2, Zenon DEF Sound

\* A source without a bucket stays one whose past does not count.
LEMMA AbsentLater ==
    ASSUME NEW G \in [Times -> Nat], NEW Qb \in [Times -> Nat], NEW Qs \in [Times -> Nat],
           NEW t \in Nat, NEW u \in Nat, t <= u, Absent(G, Qb, Qs, t)
    PROVE  Absent(G, Qb, Qs, u)
  <1>1. \A s \in Times : s \in Nat
    BY TimesAreNat
  <1>2. ASSUME NEW s \in Times, u - s < RateWindow PROVE t - s < RateWindow
    BY <1>1, <1>2, RateConstants
  <1>3. Unseen(Qb, u) /\ Unseen(Qs, u)
    BY <1>2 DEF Absent, Unseen
  <1>4. ASSUME NEW s \in Times, s > u PROVE G[s] = 0
    BY <1>1, <1>4 DEF Absent, Free
  <1>5. ASSUME NEW s \in Times, s <= u PROVE G[s] <= PktRate * (u - s)
    <2>1. s \in Nat /\ G[s] \in Nat
      BY <1>1
    <2>2. CASE s <= t
      <3> DEFINE x == PktRate * (u - t)
                 y == PktRate * (t - s)
      <3>1. x \in Nat /\ y \in Nat /\ PktRate * (u - s) = x + y
        BY <2>1, <2>2, RateTimes
      <3>2. G[s] <= y
        BY <2>2 DEF Absent, Free
      <3> HIDE DEF x, y
      <3>3. G[s] <= x + y
        BY <2>1, <3>1, <3>2
      <3> QED BY <3>1, <3>3
    <2>3. CASE s > t
      <3> DEFINE x == PktRate * (u - s)
      <3>1. G[s] = 0
        BY <2>3 DEF Absent, Free
      <3>2. x \in Nat
        BY <1>5, <2>1, RateTime
      <3> HIDE DEF x
      <3>3. G[s] <= x
        BY <3>1, <3>2
      <3> QED BY <3>3 DEF x
    <2> QED BY <2>1, <2>2, <2>3
  <1> QED BY <1>3, <1>4, <1>5 DEF Absent, Free

\* Every step of the rate limiter keeps RateInv.
LEMMA RateInvStep == RateInv /\ [RateNext]_rateVars => RateInv'
  <1> SUFFICES ASSUME RateInv, [RateNext]_rateVars PROVE RateInv'
    OBVIOUS
  <1>1. ASSUME NEW src \in RateSources, NEW size \in PacketSizes, NEW syn \in BOOLEAN,
               RateInspect(src, size, syn)
        PROVE  RateInv'
    BY <1>1, RateInspectKeeps
  <1>2. ASSUME NEW src \in RateSources, RateSweep(src)
        PROVE  RateInv'
    BY <1>2, RateSweepKeeps
  <1>3. CASE RateTick
    <2>1. now' = now + 1 /\ now < MaxTime /\ UNCHANGED rateState
      BY <1>3 DEF RateTick, Tick
    <2>2. UNCHANGED <<buckets, granted, quietBytes, quietSyns, inspected>>
      BY <2>1 DEF rateState
    <2>3. now \in Nat /\ now' \in Nat /\ now <= now' /\ now' \in Times
      BY <2>1, ClockAssumption DEF RateInv, RateTypeOK, Times
    <2>4. RateTypeOK'
      BY <2>2, <2>3 DEF RateInv, RateTypeOK
    <2>5. ASSUME NEW src \in RateSources PROVE SourceInv(src)'
      <3>1. /\ granted[src] \in [Times -> Nat] /\ quietBytes[src] \in [Times -> Nat]
            /\ quietSyns[src] \in [Times -> Nat]
        BY HistoryTypes DEF RateInv
      <3>2. CASE src \in DOMAIN buckets
        <4>1. Sound(buckets[src], granted[src], quietBytes[src], quietSyns[src], now)
          BY <3>2 DEF RateInv, SourceInv
        <4>2. Sound(buckets[src], granted[src], quietBytes[src], quietSyns[src], now')
          BY <2>3, <4>1, SoundLater
        <4> QED BY <2>2, <3>2, <4>2, Zenon DEF SourceInv
      <3>3. CASE src \notin DOMAIN buckets
        <4>1. Absent(granted[src], quietBytes[src], quietSyns[src], now)
          BY <3>3 DEF RateInv, SourceInv
        <4>2. Absent(granted[src], quietBytes[src], quietSyns[src], now')
          BY <2>3, <3>1, <4>1, AbsentLater
        <4> QED BY <2>2, <3>3, <4>2, Zenon DEF SourceInv
      <3> QED BY <3>2, <3>3
    <2> QED BY <2>4, <2>5, Zenon DEF RateInv
  <1>4. CASE UNCHANGED rateVars
    BY <1>4 DEF rateVars, rateState, RateInv, RateTypeOK, SourceInv
  <1> QED BY <1>1, <1>2, <1>3, <1>4 DEF RateNext

\* RateInv holds in every state of the rate limiter.
LEMMA RateInvariant == RateSpec => []RateInv
  BY RateStart, RateInvStep, PTL DEF RateSpec

\* A bucket never holds more tokens than its capacity, however its refills,
\* the sweeper and the packets alternate (rate_limit.rs:37-49, 133).
THEOREM RateTypeCorrect == RateSpec => []RateTypeOK
  BY RateInvariant, PTL DEF RateInv

\* The verdict on the packet rate is exact for any rate, capacity and number
\* of sources, as long as an idle bucket is kept until it is full again.
THEOREM PacketRateIsExact == RateSpec => []RateIsExact
  <1>1. RateInv => RateIsExact
    <2> SUFFICES ASSUME RateInv, NEW src \in RateSources
                 PROVE  WithinRate(Entry(src)) <=>
                          \A s \in 0..now : granted[src][s] < Capacity + PktRate * (now - s)
      BY DEF RateIsExact
    <2> DEFINE e == Entry(src)
    <2>1. Sound(e, granted[src], quietBytes[src], quietSyns[src], now)
      BY EntrySound
    <2> HIDE DEF e
    <2>2. /\ e.tokens \in 0 .. Capacity /\ e.last_refill \in Times /\ e.last_refill <= now
          /\ granted[src] \in [Times -> Nat] /\ now \in Times
          /\ Taken(e.tokens, e.last_refill, granted[src])
      BY <2>1, BucketFields, HistoryTypes DEF Sound, RateInv
    <2>3. Refilled(e) = Level(e.tokens, e.last_refill, now)
      BY DEF Refilled, Level, Full
    <2>4. Refilled(e) \in 0 .. Capacity /\ Taken(Refilled(e), now, granted[src])
      BY <2>2, <2>3, RefillKeepsTaken
    <2>5. Refilled(e) >= 1 <=>
             \A s \in 0..now : granted[src][s] < Capacity + PktRate * (now - s)
      BY <2>2, <2>4, TakenIsExact
    <2> QED BY <2>5 DEF WithinRate, e
  <1> QED BY <1>1, RateInvariant, PTL

\* The fixed windows let at most twice the limit of bytes or connections
\* through unnoticed in any interval as long as a window, for any limits.
THEOREM QuietBurstIsBounded == RateSpec => []BurstIsBounded
  <1>1. RateInv => BurstIsBounded
    <2> SUFFICES ASSUME RateInv, NEW src \in RateSources, NEW s \in Times,
                        s <= now, now - s < RateWindow
                 PROVE  /\ quietBytes[src][s] <= 2 * BytesRate
                        /\ quietSyns[src][s] <= 2 * ConnRate
      BY DEF BurstIsBounded
    <2> DEFINE e == Entry(src)
    <2>1. Sound(e, granted[src], quietBytes[src], quietSyns[src], now)
      BY EntrySound
    <2> HIDE DEF e
    <2>2. /\ e.window_start \in Times /\ e.last_refill \in Times
          /\ e.bytes \in Nat /\ e.connections \in Nat
          /\ e.window_start <= e.last_refill /\ e.last_refill <= now
      BY <2>1, BucketFields DEF Sound
    <2>3. /\ quietBytes[src] \in [Times -> Nat] /\ quietSyns[src] \in [Times -> Nat]
          /\ now \in Times
      BY HistoryTypes DEF RateInv
    <2>4. e.window_start <= now
      <3>1. e.window_start \in Nat /\ e.last_refill \in Nat /\ now \in Nat
        BY <2>2, <2>3, TimesAreNat
      <3> QED BY <2>2, <3>1
    <2> QED BY <2>1, <2>2, <2>3, <2>4, WindowBounds, RateConstants DEF Sound
  <1> QED BY <1>1, RateInvariant, PTL

-----------------------------------------------------------------------------
(* The counters of the SYN flood detector, as numbers: k packets since r,   *)
(* at time t, with a history H that says for every s how many since s.      *)

Counts(k, r, H, t) ==
    /\ k = H[r]
    /\ \A s \in Times : s - r >= SynWindow \/ s > t => H[s] = 0

Clear(H, t) == \A s \in Times : t - s < SynWindow => H[s] = 0

\* What SynAssumption says of the windows and thresholds.
LEMMA SynConstants ==
    /\ SynWindow \in Nat /\ SynWindow >= 1 /\ CountersTtl \in Nat /\ HalfOpenTtl \in Nat
    /\ 2 * SynWindow <= CountersTtl /\ SynMin \in Nat /\ RatioThreshold \in Nat
  BY SynAssumption

\* The reset of counters that have run out starts an exact count at zero.
LEMMA ResetCounts ==
    ASSUME NEW k, NEW r \in Times, NEW t \in Times, NEW H, Counts(k, r, H, t),
           t - r >= SynWindow
    PROVE  Counts(0, t, H, t)
  <1>1. H[t] = 0
    BY DEF Counts
  <1>2. ASSUME NEW s \in Times, s - t >= SynWindow PROVE s > t
    BY <1>2, TimesAreNat, SynConstants
  <1> QED BY <1>1, <1>2 DEF Counts

\* So do new counters, for a host without a recent past.
LEMMA ClearCounts ==
    ASSUME NEW t \in Times, NEW H, Clear(H, t)
    PROVE  Counts(0, t, H, t)
  <1>1. ASSUME NEW s \in Times, s - t >= SynWindow \/ s >= t PROVE t - s < SynWindow
    BY <1>1, TimesAreNat, SynConstants
  <1>2. t >= t /\ \A s \in Times : s > t => s >= t
    BY TimesAreNat
  <1> QED BY <1>1, <1>2 DEF Counts, Clear

\* Counting what is added to the history keeps the count exact.
LEMMA AddCounts ==
    ASSUME NEW k \in Nat, NEW r \in Times, NEW t \in Times, NEW H \in [Times -> Nat],
           Counts(k, r, H, t), r <= t, t - r < SynWindow, NEW n \in Nat
    PROVE  Counts(k + n, r, Later(H, t, n), t)
  <1> DEFINE L == Later(H, t, n)
  <1>1. /\ \A s \in Times : s <= t => L[s] = H[s] + n
        /\ \A s \in Times : s > t => L[s] = H[s]
    BY LaterType
  <1> HIDE DEF L
  <1>2. ASSUME NEW s \in Times, s - r >= SynWindow \/ s > t PROVE s > t
    BY <1>2, TimesAreNat, SynConstants
  <1>3. L[r] = k + n
    BY <1>1 DEF Counts
  <1> QED BY <1>1, <1>2, <1>3 DEF Counts, L

\* Counters old enough to be swept count nothing of the window.
LEMMA DroppedIsClear ==
    ASSUME NEW k, NEW r \in Times, NEW t \in Times, NEW H, Counts(k, r, H, t),
           t - r >= CountersTtl
    PROVE  Clear(H, t)
  <1>1. ASSUME NEW s \in Times, t - s < SynWindow PROVE s - r >= SynWindow
    BY <1>1, TimesAreNat, SynConstants
  <1> QED BY <1>1 DEF Counts, Clear

\* Time alone changes neither.
LEMMA CountsLater ==
    ASSUME NEW k, NEW r \in Times, NEW t \in Nat, NEW u \in Nat, t <= u, NEW H
    PROVE  /\ Counts(k, r, H, t) => Counts(k, r, H, u)
           /\ Clear(H, t) => Clear(H, u)
  <1>1. ASSUME NEW s \in Times PROVE (s > u => s > t)
                                     /\ (u - s < SynWindow => t - s < SynWindow)
    BY TimesAreNat, SynConstants
  <1> QED BY <1>1 DEF Counts, Clear

-----------------------------------------------------------------------------
(* The SYN flood detector: types, counters and the table. *)

CounterRec == [syns : Nat, acks : Nat, last_reset : Times]

\* What holds of the counters c of a source at time t.
CounterSound(c, S, A, t) ==
    /\ c \in CounterRec /\ c.last_reset <= t
    /\ Counts(c.syns, c.last_reset, S, t) /\ Counts(c.acks, c.last_reset, A, t)

HostInv(src) ==
    IF src \in DOMAIN counters
    THEN CounterSound(counters[src], synsSince[src], acksSince[src], now)
    ELSE Clear(synsSince[src], now) /\ Clear(acksSince[src], now)

\* A worker whose packet completes a connection has removed the reverse, or
\* both ways, except for what was opened again.
TrackInv(w) ==
    inspecting[w] # Idle =>
        LET f == inspecting[w].flow
            pc == inspecting[w].pc
        IN  /\ pc = "forget" => Completes(inspecting[w].flags)
            /\ pc = "forget" /\ Reverse(f) \in DOMAIN half_open => Reverse(f) \in reopened[w]
            /\ pc \in {"count", "rst_flow", "rst_rev"} /\ Completes(inspecting[w].flags)
                  => {f, Reverse(f)} \cap DOMAIN half_open \subseteq reopened[w]

CountInv == \A src \in Hosts : HostInv(src)
TableInv == \A w \in SynWorkers : TrackInv(w)

\* The fields of a host's counters.
LEMMA CounterFields ==
    ASSUME NEW c \in CounterRec
    PROVE  c.syns \in Nat /\ c.acks \in Nat /\ c.last_reset \in Times
  BY DEF CounterRec

\* Flows and their reverses.
LEMMA FlowFacts ==
    ASSUME NEW f \in Flows
    PROVE  Reverse(f) \in Flows /\ Reverse(Reverse(f)) = f /\ f[1] \in Hosts
  BY DEF Flows, Reverse

\* What a worker inside inspect carries.
LEMMA InspectionFields ==
    ASSUME SynTypeOK, NEW w \in SynWorkers, inspecting[w] # Idle
    PROVE  /\ inspecting[w] \in Inspection /\ inspecting[w].flow \in Flows
           /\ inspecting[w].flags \in Flags
  <1>1. inspecting[w] \in Inspection
    BY DEF SynTypeOK
  <1>2. \A x \in Inspection : x.flow \in Flows /\ x.flags \in Flags
    BY DEF Inspection
  <1> QED BY <1>1, <1>2

\* A worker goes on to another step, or leaves.
LEMMA GotoType ==
    ASSUME SynTypeOK, NEW w \in SynWorkers, inspecting[w] # Idle, NEW pc \in Steps,
           Goto(w, pc)
    PROVE  /\ inspecting' \in [SynWorkers -> Inspection \cup {Idle}]
           /\ inspecting'[w].pc = pc /\ inspecting'[w].flow = inspecting[w].flow
           /\ inspecting'[w].flags = inspecting[w].flags
           /\ \A v \in SynWorkers : v # w => inspecting'[v] = inspecting[v]
  <1>1. inspecting[w] \in Inspection /\ inspecting \in [SynWorkers -> Inspection \cup {Idle}]
    BY InspectionFields DEF SynTypeOK
  <1>2. inspecting' = [inspecting EXCEPT ![w] = [inspecting[w] EXCEPT !.pc = pc]]
    BY Zenon DEF Goto
  <1> DEFINE x == [inspecting[w] EXCEPT !.pc = pc]
  <1>3. /\ x \in Inspection /\ x.pc = pc /\ x.flow = inspecting[w].flow
        /\ x.flags = inspecting[w].flags
    BY <1>1 DEF Inspection
  <1> HIDE DEF x
  <1>4. inspecting'[w] = x /\ \A v \in SynWorkers : v # w => inspecting'[v] = inspecting[v]
    BY <1>1, <1>2 DEF x
  <1>5. inspecting' \in [SynWorkers -> Inspection \cup {Idle}]
    BY <1>1, <1>2, <1>3 DEF x
  <1> QED BY <1>3, <1>4, <1>5

\* Leaving inspect changes that worker alone.
LEMMA LeaveType ==
    ASSUME SynTypeOK, NEW w \in SynWorkers, Leave(w)
    PROVE  /\ inspecting' \in [SynWorkers -> Inspection \cup {Idle}]
           /\ inspecting'[w] = Idle
           /\ \A v \in SynWorkers : v # w => inspecting'[v] = inspecting[v]
  BY DEF SynTypeOK, Leave

\* The counters of the packet's source after SynCounters.
LEMMA CounterStep ==
    ASSUME SynTypeOK, NEW src \in Hosts, HostInv(src), NEW n \in {0, 1}, NEW m \in {0, 1}
    PROVE  LET reset == MaybeReset(CountersOf(src))
               c == [reset EXCEPT !.syns = @ + n, !.acks = @ + m]
           IN  /\ CounterSound(c, Later(synsSince[src], now, n),
                               Later(acksSince[src], now, m), now)
               /\ now - c.last_reset < SynWindow
  <1> DEFINE S == synsSince[src]
             A == acksSince[src]
             o == CountersOf(src)
             r == MaybeReset(o)
             c == [r EXCEPT !.syns = @ + n, !.acks = @ + m]
  <1>1. S \in [Times -> Nat] /\ A \in [Times -> Nat] /\ now \in Times
    BY DEF SynTypeOK
  <1>2. now \in Nat /\ now <= now /\ now - now < SynWindow
    BY <1>1, TimesAreNat, SynConstants
  <1>3. /\ NewCounters \in CounterRec /\ NewCounters.last_reset = now
        /\ NewCounters.syns = 0 /\ NewCounters.acks = 0
    BY <1>1 DEF NewCounters, CounterRec
  <1> HIDE DEF S, A
  <1>4. CounterSound(o, S, A, now)
    <2>1. CASE src \in DOMAIN counters
      BY <2>1 DEF HostInv, CountersOf, S, A
    <2>2. CASE src \notin DOMAIN counters
      <3>1. o = NewCounters /\ Clear(S, now) /\ Clear(A, now)
        BY <2>2 DEF HostInv, CountersOf, S, A
      <3>2. Counts(0, now, S, now) /\ Counts(0, now, A, now)
        BY <1>1, <3>1, ClearCounts
      <3> QED BY <1>2, <1>3, <3>1, <3>2, Zenon DEF CounterSound
    <2> QED BY <2>1, <2>2
  <1> HIDE DEF o
  <1>5. CounterSound(r, S, A, now) /\ now - r.last_reset < SynWindow
    <2>1. /\ o \in CounterRec /\ o.last_reset \in Times /\ o.last_reset <= now
          /\ Counts(o.syns, o.last_reset, S, now) /\ Counts(o.acks, o.last_reset, A, now)
      BY <1>4, CounterFields DEF CounterSound
    <2>2. CASE now - o.last_reset >= SynWindow
      <3>1. Counts(0, now, S, now) /\ Counts(0, now, A, now)
        BY <1>1, <2>1, <2>2, ResetCounts
      <3>2. r = NewCounters
        BY <2>2 DEF MaybeReset
      <3> QED BY <1>2, <1>3, <3>1, <3>2, Zenon DEF CounterSound
    <2>3. CASE ~(now - o.last_reset >= SynWindow)
      <3>1. r = o
        BY <2>3 DEF MaybeReset
      <3>2. now - o.last_reset < SynWindow
        <4>1. o.last_reset \in Nat /\ SynWindow \in Nat
          BY <2>1, TimesAreNat, SynConstants
        <4> QED BY <1>2, <2>3, <4>1
      <3> QED BY <1>4, <3>1, <3>2
    <2> QED BY <2>2, <2>3
  <1> HIDE DEF r
  <1>6. /\ r \in CounterRec /\ r.last_reset \in Times /\ r.syns \in Nat /\ r.acks \in Nat
        /\ r.last_reset <= now
        /\ Counts(r.syns, r.last_reset, S, now) /\ Counts(r.acks, r.last_reset, A, now)
    BY <1>5, CounterFields DEF CounterSound
  <1>7. /\ Counts(r.syns + n, r.last_reset, Later(S, now, n), now)
        /\ Counts(r.acks + m, r.last_reset, Later(A, now, m), now)
    BY <1>1, <1>5, <1>6, AddCounts
  <1>8. /\ c \in CounterRec /\ c.last_reset = r.last_reset
        /\ c.syns = r.syns + n /\ c.acks = r.acks + m
    <2> DEFINE x == r.syns + n
               y == r.acks + m
    <2>1. x \in Nat /\ y \in Nat
      BY <1>6
    <2>2. c = [r EXCEPT !.syns = x, !.acks = y]
      BY Zenon
    <2> HIDE DEF c, x, y
    <2>3. /\ c \in CounterRec /\ c.last_reset = r.last_reset /\ c.syns = x /\ c.acks = y
      BY <1>6, <2>1, <2>2 DEF CounterRec
    <2> QED BY <2>3 DEF x, y
  <1> HIDE DEF c
  <1>9. CounterSound(c, Later(S, now, n), Later(A, now, m), now)
    BY <1>6, <1>7, <1>8, Zenon DEF CounterSound
  <1>10. now - c.last_reset < SynWindow
    BY <1>5, <1>8
  <1> QED BY <1>9, <1>10 DEF c, r, o, S, A

\* One counts a condition as 0 or 1.
LEMMA OneType == \A b \in BOOLEAN : One(b) \in {0, 1}
  BY DEF One

\* A history of SYNs or ACKs after AddSince.
LEMMA AddSinceFacts ==
    ASSUME NEW h \in [Hosts -> [Times -> Nat]], NEW src \in Hosts, NEW n \in Nat, now \in Times
    PROVE  /\ AddSince(h, src, n) \in [Hosts -> [Times -> Nat]]
           /\ AddSince(h, src, n)[src] = Later(h[src], now, n)
           /\ \A o \in Hosts : o # src => AddSince(h, src, n)[o] = h[o]
  <1>1. AddSince(h, src, n) = [h EXCEPT ![src] = Later(h[src], now, n)]
    BY Zenon DEF AddSince, Later
  <1>2. Later(h[src], now, n) \in [Times -> Nat]
    BY LaterType
  <1> QED BY <1>1, <1>2

\* What SynCounters does, in one place.
LEMMA SynCountersFacts ==
    ASSUME SynTypeOK, CountInv, NEW w \in SynWorkers, NEW f \in Flows, NEW flags \in Flags,
           SynCounters(w, f, flags)
    PROVE  \E c \in CounterRec :
             LET src == f[1] IN
             /\ src \in Hosts
             /\ counters' = Put(counters, src, c)
             /\ raised' = IF IsFlood(c) THEN {"syn_flood"} ELSE {}
             /\ now - c.last_reset < SynWindow /\ c.last_reset <= now
             /\ synsSince' \in [Hosts -> [Times -> Nat]]
             /\ acksSince' \in [Hosts -> [Times -> Nat]]
             /\ CounterSound(c, synsSince'[src], acksSince'[src], now)
             /\ \A o \in Hosts : o # src =>
                   synsSince'[o] = synsSince[o] /\ acksSince'[o] = acksSince[o]
  <1> DEFINE src == f[1]
             n == One(IsSyn(flags))
             m == One(HasAck(flags))
             reset == MaybeReset(CountersOf(src))
             c == [reset EXCEPT !.syns = @ + n, !.acks = @ + m]
  <1>1. src \in Hosts /\ HostInv(src)
    BY FlowFacts DEF CountInv
  <1>2. n \in {0, 1} /\ m \in {0, 1}
    BY DEF One
  <1>3. /\ counters' = Put(counters, src, c)
        /\ raised' = IF IsFlood(c) THEN {"syn_flood"} ELSE {}
        /\ synsSince' = AddSince(synsSince, src, n)
        /\ acksSince' = AddSince(acksSince, src, m)
    BY Zenon DEF SynCounters, CountPacket
  <1> HIDE DEF n, m, src
  <1>4. /\ CounterSound(c, Later(synsSince[src], now, n), Later(acksSince[src], now, m), now)
        /\ now - c.last_reset < SynWindow
    BY <1>1, <1>2, CounterStep
  <1> HIDE DEF c
  <1>5. /\ synsSince' \in [Hosts -> [Times -> Nat]]
        /\ acksSince' \in [Hosts -> [Times -> Nat]]
        /\ synsSince'[src] = Later(synsSince[src], now, n)
        /\ acksSince'[src] = Later(acksSince[src], now, m)
        /\ \A o \in Hosts : o # src =>
              synsSince'[o] = synsSince[o] /\ acksSince'[o] = acksSince[o]
    <2>1. /\ synsSince \in [Hosts -> [Times -> Nat]] /\ now \in Times
          /\ acksSince \in [Hosts -> [Times -> Nat]] /\ n \in Nat /\ m \in Nat
      BY <1>2 DEF SynTypeOK
    <2> QED BY <1>1, <1>3, <2>1, AddSinceFacts, Zenon
  <1>6. c \in CounterRec /\ c.last_reset <= now
    BY <1>4 DEF CounterSound
  <1>7. /\ src \in Hosts
        /\ counters' = Put(counters, src, c)
        /\ raised' = IF IsFlood(c) THEN {"syn_flood"} ELSE {}
        /\ now - c.last_reset < SynWindow /\ c.last_reset <= now
        /\ synsSince' \in [Hosts -> [Times -> Nat]]
        /\ acksSince' \in [Hosts -> [Times -> Nat]]
        /\ CounterSound(c, synsSince'[src], acksSince'[src], now)
        /\ \A o \in Hosts : o # src =>
              synsSince'[o] = synsSince[o] /\ acksSince'[o] = acksSince[o]
    BY <1>1, <1>3, <1>4, <1>5, <1>6, Zenon
  <1> QED BY <1>6, <1>7, Zenon DEF src

TableType ==
    /\ DOMAIN half_open \subseteq Flows
    /\ \A f \in DOMAIN half_open : half_open[f] \in Times

\* An insertion keeps the type of the half-open table.
LEMMA PutKeepsTable ==
    ASSUME TableType, NEW f \in Flows, now \in Times, half_open' = Put(half_open, f, now)
    PROVE  TableType'
  <1>1. /\ DOMAIN half_open' = DOMAIN half_open \cup {f} /\ half_open'[f] = now
        /\ \A g \in DOMAIN half_open : g # f => half_open'[g] = half_open[g]
    BY DEF Put
  <1> QED BY <1>1 DEF TableType

\* A removal does.
LEMMA WithoutKeepsTable ==
    ASSUME TableType, NEW K, half_open' = Without(half_open, K)
    PROVE  TableType'
  <1>1. /\ DOMAIN half_open' = DOMAIN half_open \ K
        /\ \A g \in DOMAIN half_open \ K : half_open'[g] = half_open[g]
    BY DEF Without
  <1> QED BY <1>1 DEF TableType

\* Every step of the SYN flood detector keeps its types.
LEMMA SynTypeStep == SynTypeOK /\ CountInv /\ [SynNext]_synVars => SynTypeOK'
  <1> SUFFICES ASSUME SynTypeOK, CountInv, [SynNext]_synVars PROVE SynTypeOK'
    OBVIOUS
  <1> DEFINE Workload == /\ inspecting' \in [SynWorkers -> Inspection \cup {Idle}]
                         /\ reopened' \in [SynWorkers -> SUBSET Flows]
                         /\ raised' \subseteq Signals
                         /\ TableType'
  <1>1. TableType /\ now \in Times
    BY DEF SynTypeOK, TableType
  <1>2. ASSUME Workload, UNCHANGED <<now, counters, history>>
        PROVE  SynTypeOK'
    BY <1>2 DEF SynTypeOK, TableType, history
  <1>3. ASSUME NEW w \in SynWorkers, NEW f \in Flows, NEW flags \in Flags,
               SynCounters(w, f, flags)
        PROVE  SynTypeOK'
    <2>1. PICK c \in CounterRec :
             /\ f[1] \in Hosts
             /\ counters' = Put(counters, f[1], c)
             /\ raised' = IF IsFlood(c) THEN {"syn_flood"} ELSE {}
             /\ synsSince' \in [Hosts -> [Times -> Nat]]
             /\ acksSince' \in [Hosts -> [Times -> Nat]]
      BY <1>3, SynCountersFacts, Zenon
    <2>2. DOMAIN counters' \subseteq Hosts
      BY <2>1 DEF SynTypeOK, Put
    <2>3. \A src \in DOMAIN counters' :
             counters'[src] \in [syns : Nat, acks : Nat, last_reset : Times]
      <3>1. /\ DOMAIN counters' = DOMAIN counters \cup {f[1]} /\ counters'[f[1]] = c
            /\ \A src \in DOMAIN counters : src # f[1] => counters'[src] = counters[src]
        BY <2>1 DEF Put
      <3>2. \A src \in DOMAIN counters : counters[src] \in CounterRec
        BY DEF SynTypeOK, CounterRec
      <3>3. \A src \in DOMAIN counters' : counters'[src] \in CounterRec
        BY <2>1, <3>1, <3>2, Zenon
      <3> QED BY <3>3, Zenon DEF CounterRec
    <2>4. raised' \subseteq Signals
      BY <2>1 DEF Signals
    <2> DEFINE x == [flow |-> f, flags |-> flags, pc |-> "track",
                     tracked |-> {f, Reverse(f)} \cap DOMAIN half_open # {}]
    <2>5. inspecting' \in [SynWorkers -> Inspection \cup {Idle}]
      <3>1. x \in Inspection
        <4>1. "track" \in Steps
          BY DEF Steps
        <4>2. ({f, Reverse(f)} \cap DOMAIN half_open # {}) \in BOOLEAN
          OBVIOUS
        <4> QED BY <4>1, <4>2, Zenon DEF Inspection
      <3>2. inspecting' = [inspecting EXCEPT ![w] = x]
        BY <1>3, Zenon DEF SynCounters
      <3> HIDE DEF x
      <3> QED BY <3>1, <3>2 DEF SynTypeOK
    <2>6. reopened' \in [SynWorkers -> SUBSET Flows]
      BY <1>3 DEF SynTypeOK, SynCounters
    <2>7. now' = now /\ half_open' = half_open /\ segments' = segments + 1
      BY <1>3 DEF SynCounters
    <2>8. segments' \in Nat
      BY <2>7 DEF SynTypeOK
    <2> QED BY <1>1, <2>1, <2>2, <2>3, <2>4, <2>5, <2>6, <2>7, <2>8, Zenon
            DEF SynTypeOK, TableType
  <1>4. "forget" \in Steps /\ "count" \in Steps /\ "rst_flow" \in Steps /\ "rst_rev" \in Steps
    BY DEF Steps
  <1>5. reopened \in [SynWorkers -> SUBSET Flows]
    BY DEF SynTypeOK
  <1>6. ASSUME NEW w \in SynWorkers, SynTrack(w)
        PROVE  SynTypeOK'
    <2> DEFINE f == inspecting[w].flow
               flags == inspecting[w].flags
    <2>1. inspecting[w] # Idle /\ f \in Flows
      BY <1>6, InspectionFields DEF SynTrack, At
    <2>2. UNCHANGED <<now, counters, history>> /\ raised' = {}
      BY <1>6 DEF SynTrack
    <2>3. CASE IsSyn(flags)
      <3>1. /\ half_open' = Put(half_open, f, now) /\ Goto(w, "count")
            /\ reopened' = [v \in SynWorkers |-> reopened[v] \cup {f}]
        BY <1>6, <2>3 DEF SynTrack, Completes
      <3>2. TableType'
        BY <1>1, <2>1, <3>1, PutKeepsTable
      <3>3. inspecting' \in [SynWorkers -> Inspection \cup {Idle}]
        BY <1>4, <2>1, <3>1, GotoType
      <3>4. reopened' \in [SynWorkers -> SUBSET Flows]
        <4> HIDE DEF f
        <4> QED BY <1>5, <2>1, <3>1
      <3> QED BY <1>2, <2>2, <3>2, <3>3, <3>4
    <2>4. CASE Completes(flags)
      <3>1. /\ half_open' = Without(half_open, {Reverse(f)}) /\ Goto(w, "forget")
            /\ reopened' = reopened
        BY <1>6, <2>4 DEF SynTrack, Completes
      <3>2. TableType'
        BY <1>1, <3>1, WithoutKeepsTable
      <3>3. inspecting' \in [SynWorkers -> Inspection \cup {Idle}]
        BY <1>4, <2>1, <3>1, GotoType
      <3> QED BY <1>2, <1>5, <2>2, <3>1, <3>2, <3>3
    <2>5. CASE ~IsSyn(flags) /\ ~Completes(flags)
      <3>1. half_open' = half_open /\ Goto(w, "count") /\ reopened' = reopened
        BY <1>6, <2>5 DEF SynTrack
      <3>3. inspecting' \in [SynWorkers -> Inspection \cup {Idle}]
        BY <1>4, <2>1, <3>1, GotoType
      <3> QED BY <1>1, <1>2, <1>5, <2>2, <3>1, <3>3 DEF TableType
    <2> QED BY <2>3, <2>4, <2>5
  <1>7. ASSUME NEW w \in SynWorkers, SynForget(w)
        PROVE  SynTypeOK'
    <2>1. inspecting[w] # Idle /\ UNCHANGED <<now, counters, reopened, history>>
          /\ raised' = {} /\ Goto(w, "count")
          /\ half_open' = Without(half_open, {inspecting[w].flow})
      BY <1>7 DEF SynForget, At
    <2>2. inspecting' \in [SynWorkers -> Inspection \cup {Idle}]
      BY <1>4, <2>1, GotoType
    <2>3. TableType'
      BY <1>1, <2>1, WithoutKeepsTable
    <2> QED BY <1>2, <1>5, <2>1, <2>2, <2>3
  <1>8. ASSUME NEW w \in SynWorkers, SynCount(w) \/ SynRstFlow(w) \/ SynRstRev(w)
        PROVE  SynTypeOK'
    <2>1. inspecting[w] # Idle /\ UNCHANGED <<now, counters, half_open, reopened, history>>
      BY <1>8 DEF SynCount, SynRstFlow, SynRstRev, At
    <2>2. raised' \subseteq Signals
      BY <1>8 DEF SynCount, SynRstFlow, SynRstRev, Signals
    <2>3. Goto(w, "rst_flow") \/ Goto(w, "rst_rev") \/ Leave(w)
      BY <1>8 DEF SynCount, SynRstFlow, SynRstRev
    <2>4. inspecting' \in [SynWorkers -> Inspection \cup {Idle}]
      BY <1>4, <2>1, <2>3, GotoType, LeaveType
    <2>5. TableType' /\ reopened' \in [SynWorkers -> SUBSET Flows]
      BY <1>1, <1>5, <2>1 DEF TableType
    <2> QED BY <1>2, <2>1, <2>2, <2>4, <2>5
  <1>9. CASE SynSweepHalfOpen
    <2>1. TableType'
      BY <1>1, <1>9, WithoutKeepsTable DEF SynSweepHalfOpen
    <2> QED BY <1>2, <1>9, <2>1 DEF SynSweepHalfOpen, SynTypeOK
  <1>10. CASE SynSweepCounters
    <2>1. /\ DOMAIN counters' \subseteq DOMAIN counters
          /\ \A src \in DOMAIN counters' : counters'[src] = counters[src]
      BY <1>10 DEF SynSweepCounters, Without
    <2>2. UNCHANGED <<now, half_open, inspecting, reopened, history>> /\ raised' = {}
      BY <1>10 DEF SynSweepCounters
    <2> QED BY <2>1, <2>2 DEF SynTypeOK, history
  <1>11. CASE SynTick
    <2>1. now' \in Times
      BY <1>11, ClockAssumption DEF SynTick, Tick, SynTypeOK, Times
    <2> QED BY <1>11, <2>1 DEF SynTick, synState, history, SynTypeOK
  <1>12. CASE UNCHANGED synVars
    BY <1>12 DEF synVars, synState, history, SynTypeOK
  <1> QED BY <1>3, <1>6, <1>7, <1>8, <1>9, <1>10, <1>11, <1>12 DEF SynNext

\* Every step keeps the counters exact.
LEMMA CountStep == SynTypeOK /\ CountInv /\ [SynNext]_synVars => CountInv'
  <1> SUFFICES ASSUME SynTypeOK, CountInv, [SynNext]_synVars PROVE CountInv'
    OBVIOUS
  <1>1. ASSUME UNCHANGED <<now, counters, history>>
        PROVE  CountInv'
    BY <1>1 DEF CountInv, HostInv, history
  <1>2. ASSUME NEW w \in SynWorkers, NEW f \in Flows, NEW flags \in Flags,
               SynCounters(w, f, flags)
        PROVE  CountInv'
    <2>1. PICK c \in CounterRec :
             /\ f[1] \in Hosts
             /\ counters' = Put(counters, f[1], c)
             /\ CounterSound(c, synsSince'[f[1]], acksSince'[f[1]], now)
             /\ \A o \in Hosts : o # f[1] =>
                   synsSince'[o] = synsSince[o] /\ acksSince'[o] = acksSince[o]
      BY <1>2, SynCountersFacts, Zenon
    <2>2. /\ DOMAIN counters' = DOMAIN counters \cup {f[1]} /\ counters'[f[1]] = c
          /\ \A o \in DOMAIN counters : o # f[1] => counters'[o] = counters[o]
      BY <2>1 DEF Put
    <2>3. now' = now
      BY <1>2 DEF SynCounters
    <2>4. HostInv(f[1])'
      BY <2>1, <2>2, <2>3, Zenon DEF HostInv
    <2>5. ASSUME NEW o \in Hosts, o # f[1] PROVE HostInv(o)'
      <3>1. HostInv(o) /\ (o \in DOMAIN counters' <=> o \in DOMAIN counters)
        BY <2>2, <2>5 DEF CountInv
      <3> QED BY <2>1, <2>2, <2>3, <2>5, <3>1, Zenon DEF HostInv
    <2> QED BY <2>4, <2>5, Zenon DEF CountInv
  <1>3. ASSUME NEW w \in SynWorkers,
               SynTrack(w) \/ SynForget(w) \/ SynCount(w) \/ SynRstFlow(w) \/ SynRstRev(w)
        PROVE  CountInv'
    BY <1>1, <1>3 DEF SynTrack, SynForget, SynCount, SynRstFlow, SynRstRev
  <1>4. CASE SynSweepHalfOpen
    BY <1>1, <1>4 DEF SynSweepHalfOpen
  <1>5. CASE SynSweepCounters
    <2> DEFINE K == {src \in DOMAIN counters : CountersStale(counters[src])}
    <2>1. counters' = Without(counters, K) /\ UNCHANGED <<now, history>>
      BY <1>5 DEF SynSweepCounters
    <2>2. /\ DOMAIN counters' = DOMAIN counters \ K
          /\ \A src \in DOMAIN counters \ K : counters'[src] = counters[src]
      <3> HIDE DEF K
      <3> QED BY <2>1 DEF Without
    <2>3. ASSUME NEW src \in Hosts PROVE HostInv(src)'
      <3>1. HostInv(src) /\ now' = now /\ UNCHANGED <<synsSince, acksSince>>
        BY <2>1 DEF CountInv, history
      <3>2. CASE src \in K
        <4> DEFINE c == counters[src]
        <4>1. CounterSound(c, synsSince[src], acksSince[src], now)
          BY <3>1, <3>2 DEF HostInv
        <4>2. now - c.last_reset >= CountersTtl /\ src \notin DOMAIN counters'
          BY <2>2, <3>2 DEF CountersStale
        <4> HIDE DEF c
        <4>3. c.last_reset \in Times /\ now \in Times
          BY <4>1, CounterFields DEF CounterSound, SynTypeOK
        <4>4. Clear(synsSince[src], now) /\ Clear(acksSince[src], now)
          BY <4>1, <4>2, <4>3, DroppedIsClear DEF CounterSound
        <4> QED BY <3>1, <4>2, <4>4, Zenon DEF HostInv
      <3>3. CASE src \notin K
        <4>1. (src \in DOMAIN counters' <=> src \in DOMAIN counters)
              /\ (src \in DOMAIN counters => counters'[src] = counters[src])
          BY <2>2, <3>3
        <4> QED BY <3>1, <4>1, Zenon DEF HostInv
      <3> QED BY <3>2, <3>3
    <2> QED BY <2>3 DEF CountInv
  <1>6. CASE SynTick
    <2>1. UNCHANGED <<counters, synsSince, acksSince>>
      BY <1>6 DEF SynTick, synState, history
    <2>2. now \in Nat /\ now' \in Nat /\ now <= now'
      BY <1>6, TimesAreNat DEF SynTick, Tick, SynTypeOK
    <2>3. ASSUME NEW src \in Hosts PROVE HostInv(src)'
      <3>1. HostInv(src)
        BY DEF CountInv
      <3>2. CASE src \in DOMAIN counters
        <4> DEFINE c == counters[src]
        <4>1. CounterSound(c, synsSince[src], acksSince[src], now)
          BY <3>1, <3>2 DEF HostInv
        <4> HIDE DEF c
        <4>2. c.last_reset \in Times /\ c.last_reset \in Nat /\ c.last_reset <= now
          BY <4>1, CounterFields, TimesAreNat DEF CounterSound
        <4> DEFINE u == now'
        <4>3. c.last_reset <= u
          <5> HIDE DEF u
          <5>1. u \in Nat /\ now <= u
            BY <2>2 DEF u
          <5> QED BY <2>2, <4>2, <5>1
        <4>4. /\ Counts(c.syns, c.last_reset, synsSince[src], now')
              /\ Counts(c.acks, c.last_reset, acksSince[src], now')
          BY <2>2, <4>1, <4>2, CountsLater DEF CounterSound
        <4>5. CounterSound(c, synsSince[src], acksSince[src], now')
          BY <4>1, <4>3, <4>4, Zenon DEF CounterSound
        <4> QED BY <2>1, <3>2, <4>5, Zenon DEF HostInv, c
      <3>3. CASE src \notin DOMAIN counters
        <4>1. Clear(synsSince[src], now) /\ Clear(acksSince[src], now)
          BY <3>1, <3>3 DEF HostInv
        <4>2. Clear(synsSince[src], now') /\ Clear(acksSince[src], now')
          BY <2>2, <4>1, CountsLater, TimesAreNat
        <4> QED BY <2>1, <3>3, <4>2, Zenon DEF HostInv
      <3> QED BY <3>2, <3>3
    <2> QED BY <2>3 DEF CountInv
  <1>7. CASE UNCHANGED synVars
    BY <1>1, <1>7 DEF synVars, synState
  <1> QED BY <1>2, <1>3, <1>4, <1>5, <1>6, <1>7 DEF SynNext

\* A worker that does not move, while the table only gets connections that
\* are then among those it knows as reopened.
LEMMA TrackKept ==
    ASSUME NEW w \in SynWorkers, TrackInv(w), inspecting'[w] = inspecting[w],
           reopened[w] \subseteq reopened'[w],
           \A g \in DOMAIN half_open' : g \in DOMAIN half_open \/ g \in reopened'[w]
    PROVE  TrackInv(w)'
  BY DEF TrackInv

\* Every step keeps TableInv.
LEMMA TableStep == SynTypeOK /\ TableInv /\ [SynNext]_synVars => TableInv'
  <1> SUFFICES ASSUME SynTypeOK, TableInv, [SynNext]_synVars PROVE TableInv'
    OBVIOUS
  <1>1. ASSUME UNCHANGED <<inspecting, reopened>>, DOMAIN half_open' \subseteq DOMAIN half_open
        PROVE  TableInv'
    BY <1>1, TrackKept DEF TableInv
  <1>2. ASSUME NEW w \in SynWorkers, TrackInv(w)',
               \A v \in SynWorkers : v # w =>
                   /\ inspecting'[v] = inspecting[v]
                   /\ reopened[v] \subseteq reopened'[v]
                   /\ \A g \in DOMAIN half_open' :
                         g \in DOMAIN half_open \/ g \in reopened'[v]
        PROVE  TableInv'
    <2>1. ASSUME NEW v \in SynWorkers, v # w PROVE TrackInv(v)'
      BY <1>2, <2>1, TrackKept DEF TableInv
    <2> QED BY <1>2, <2>1, Zenon DEF TableInv
  <1>3. ASSUME NEW w \in SynWorkers, NEW f \in Flows, NEW flags \in Flags,
               SynCounters(w, f, flags)
        PROVE  TableInv'
    <2>1. /\ inspecting'[w].pc = "track"
          /\ \A v \in SynWorkers : v # w => inspecting'[v] = inspecting[v]
                                            /\ reopened'[v] = reopened[v]
          /\ half_open' = half_open
      BY <1>3 DEF SynCounters, SynTypeOK
    <2>2. TrackInv(w)'
      BY <2>1 DEF TrackInv
    <2> QED BY <1>2, <2>1, <2>2
  <1>4. "forget" \in Steps /\ "count" \in Steps /\ "rst_flow" \in Steps /\ "rst_rev" \in Steps
    BY DEF Steps
  <1>5. ASSUME NEW w \in SynWorkers, SynTrack(w)
        PROVE  TableInv'
    <2> DEFINE f == inspecting[w].flow
               flags == inspecting[w].flags
    <2>1. inspecting[w] # Idle /\ f \in Flows
      BY <1>5, InspectionFields DEF SynTrack, At
    <2>2. CASE IsSyn(flags)
      <3>1. /\ half_open' = Put(half_open, f, now) /\ Goto(w, "count")
            /\ reopened' = [v \in SynWorkers |-> reopened[v] \cup {f}]
        BY <1>5, <2>2 DEF SynTrack, Completes
      <3>2. DOMAIN half_open' = DOMAIN half_open \cup {f}
        BY <3>1 DEF Put
      <3>3. /\ inspecting'[w].pc = "count" /\ inspecting'[w].flags = flags
            /\ \A v \in SynWorkers : v # w => inspecting'[v] = inspecting[v]
        BY <1>4, <2>1, <3>1, GotoType
      <3>4. \A v \in SynWorkers : reopened[v] \subseteq reopened'[v] /\ f \in reopened'[v]
        BY <3>1
      <3>5. TrackInv(w)'
        BY <2>2, <3>3 DEF TrackInv, Completes
      <3> HIDE DEF f
      <3> QED BY <1>2, <3>2, <3>3, <3>4, <3>5
    <2>3. CASE Completes(flags)
      <3>1. /\ half_open' = Without(half_open, {Reverse(f)}) /\ Goto(w, "forget")
            /\ reopened' = reopened
        BY <1>5, <2>3 DEF SynTrack, Completes
      <3>2. DOMAIN half_open' = DOMAIN half_open \ {Reverse(f)}
        BY <3>1 DEF Without
      <3>3. /\ inspecting'[w].pc = "forget" /\ inspecting'[w].flags = flags
            /\ inspecting'[w].flow = f
            /\ \A v \in SynWorkers : v # w => inspecting'[v] = inspecting[v]
        BY <1>4, <2>1, <3>1, GotoType
      <3>4. TrackInv(w)'
        BY <2>3, <3>2, <3>3 DEF TrackInv
      <3> QED BY <1>2, <3>1, <3>2, <3>3, <3>4
    <2>4. CASE ~IsSyn(flags) /\ ~Completes(flags)
      <3>1. half_open' = half_open /\ Goto(w, "count") /\ reopened' = reopened
        BY <1>5, <2>4 DEF SynTrack
      <3>2. /\ inspecting'[w].pc = "count" /\ inspecting'[w].flags = flags
            /\ \A v \in SynWorkers : v # w => inspecting'[v] = inspecting[v]
        BY <1>4, <2>1, <3>1, GotoType
      <3>3. TrackInv(w)'
        BY <2>4, <3>2 DEF TrackInv
      <3> QED BY <1>2, <3>1, <3>2, <3>3
    <2> QED BY <2>2, <2>3, <2>4
  <1>6. ASSUME NEW w \in SynWorkers, SynForget(w)
        PROVE  TableInv'
    <2> DEFINE f == inspecting[w].flow
    <2>1. /\ inspecting[w] # Idle /\ inspecting[w].pc = "forget" /\ reopened' = reopened
          /\ half_open' = Without(half_open, {f}) /\ Goto(w, "count")
      BY <1>6 DEF SynForget, At
    <2>2. DOMAIN half_open' = DOMAIN half_open \ {f}
      BY <2>1 DEF Without
    <2>3. /\ inspecting'[w].pc = "count" /\ inspecting'[w].flow = f
          /\ inspecting'[w].flags = inspecting[w].flags
          /\ \A v \in SynWorkers : v # w => inspecting'[v] = inspecting[v]
      BY <1>4, <2>1, GotoType
    <2>4. Reverse(f) \in DOMAIN half_open => Reverse(f) \in reopened[w]
      BY <2>1 DEF TableInv, TrackInv
    <2>5. {f, Reverse(f)} \cap DOMAIN half_open' \subseteq reopened'[w]
      BY <2>1, <2>2, <2>4
    <2>6. TrackInv(w)'
      BY <2>3, <2>5 DEF TrackInv
    <2> QED BY <1>2, <2>1, <2>2, <2>3, <2>6
  <1>7. ASSUME NEW w \in SynWorkers, SynCount(w) \/ SynRstFlow(w) \/ SynRstRev(w)
        PROVE  TableInv'
    <2>1. /\ inspecting[w] # Idle /\ half_open' = half_open /\ reopened' = reopened
          /\ inspecting[w].pc \in {"count", "rst_flow", "rst_rev"}
      BY <1>7 DEF SynCount, SynRstFlow, SynRstRev, At
    <2>2. Goto(w, "rst_flow") \/ Goto(w, "rst_rev") \/ Leave(w)
      BY <1>7 DEF SynCount, SynRstFlow, SynRstRev
    <2>3. CASE Leave(w)
      <3>1. /\ inspecting'[w] = Idle
            /\ \A v \in SynWorkers : v # w => inspecting'[v] = inspecting[v]
        BY <2>3, LeaveType
      <3>2. TrackInv(w)'
        BY <3>1 DEF TrackInv
      <3> QED BY <1>2, <2>1, <3>1, <3>2
    <2>4. CASE Goto(w, "rst_flow") \/ Goto(w, "rst_rev")
      <3>1. /\ inspecting'[w].pc \in {"rst_flow", "rst_rev"}
            /\ inspecting'[w].flow = inspecting[w].flow
            /\ inspecting'[w].flags = inspecting[w].flags
            /\ \A v \in SynWorkers : v # w => inspecting'[v] = inspecting[v]
        BY <1>4, <2>1, <2>4, GotoType
      <3>2. TrackInv(w)
        BY DEF TableInv
      <3>3. TrackInv(w)'
        BY <2>1, <3>1, <3>2 DEF TrackInv
      <3> QED BY <1>2, <2>1, <3>1, <3>3
    <2> QED BY <2>2, <2>3, <2>4
  <1>8. CASE SynSweepHalfOpen
    <2>1. DOMAIN half_open' \subseteq DOMAIN half_open
      BY <1>8 DEF SynSweepHalfOpen, Without
    <2> QED BY <1>1, <1>8, <2>1 DEF SynSweepHalfOpen
  <1>9. CASE SynSweepCounters
    BY <1>1, <1>9 DEF SynSweepCounters
  <1>10. CASE SynTick
    BY <1>1, <1>10 DEF SynTick, synState
  <1>11. CASE UNCHANGED synVars
    BY <1>1, <1>11 DEF synVars, synState
  <1> QED BY <1>3, <1>5, <1>6, <1>7, <1>8, <1>9, <1>10, <1>11 DEF SynNext

SynInv == SynTypeOK /\ CountInv /\ TableInv

\* SynInv holds in every state of the detector.
LEMMA SynInvariant == SynSpec => []SynInv
  <1>1. SynInit => SynInv
    <2> SUFFICES ASSUME SynInit PROVE SynInv
      OBVIOUS
    <2>1. /\ now = 0 /\ now \in Times /\ DOMAIN counters = {} /\ DOMAIN half_open = {}
      BY TimesAreNat DEF SynInit, NoKeys
    <2>2. SynTypeOK
      BY <2>1 DEF SynInit, SynTypeOK
    <2>3. CountInv
      <3>1. \A src \in Hosts, s \in Times : synsSince[src][s] = 0 /\ acksSince[src][s] = 0
        BY DEF SynInit
      <3> QED BY <2>1, <3>1 DEF CountInv, HostInv, Clear
    <2>4. TableInv
      BY DEF SynInit, TableInv, TrackInv
    <2> QED BY <2>2, <2>3, <2>4 DEF SynInv
  <1>2. SynInv /\ [SynNext]_synVars => SynInv'
    BY SynTypeStep, CountStep, TableStep DEF SynInv
  <1> QED BY <1>1, <1>2, PTL DEF SynSpec

\* The counters and the table have their types for any number of workers.
THEOREM SynTypeCorrect == SynSpec => []SynTypeOK
  BY SynInvariant, PTL DEF SynInv

\* The counters are exact for any number of workers and sources, any window,
\* and any age of at least two windows at which the sweeper drops them.
THEOREM SynCountersAreExact == SynSpec => []CountersAreExact
  <1>1. SynInv => CountersAreExact
    BY DEF SynInv, CountInv, HostInv, CounterSound, Counts, Clear, CountersAreExact
  <1> QED BY <1>1, SynInvariant, PTL

\* No completed connection stays in the table unless its packets were
\* inspected out of order, however many workers inspect them.
THEOREM CompletedLeavesTable == SynSpec => []CompletedIsForgotten
  <1>1. SynInv => CompletedIsForgotten
    BY DEF SynInv, TableInv, TrackInv, CompletedIsForgotten
  <1> QED BY <1>1, SynInvariant, PTL

\* Whatever packet is signalled as a flood, its source has sent the SYNs for
\* it within the last window, too many for the ACKs of that time: the counters
\* judge by what was really inspected, for any window and number of workers.
THEOREM FloodsAreRecent == SynSpec => FloodIsRecent
  <1>1. SynInv /\ [SynNext]_synVars =>
          [\A w \in SynWorkers, src \in Hosts :
             /\ inspecting[w] = Idle /\ inspecting'[w] # Idle
             /\ inspecting'[w].flow[1] = src
             /\ "syn_flood" \in raised'
             => \E s \in 0..now :
                    /\ now - s < SynWindow
                    /\ synsSince'[src][s] >= SynMin
                    /\ synsSince'[src][s] >= RatioThreshold * acksSince'[src][s]]_synVars
    <2> SUFFICES ASSUME SynInv, SynNext, NEW v \in SynWorkers, NEW src \in Hosts,
                        inspecting[v] = Idle, inspecting'[v] # Idle,
                        inspecting'[v].flow[1] = src, "syn_flood" \in raised'
                 PROVE  \E s \in 0..now :
                          /\ now - s < SynWindow
                          /\ synsSince'[src][s] >= SynMin
                          /\ synsSince'[src][s] >= RatioThreshold * acksSince'[src][s]
      OBVIOUS
    <2>1. PICK w \in SynWorkers, f \in Flows, flags \in Flags : SynCounters(w, f, flags)
      <3>1. ASSUME NEW u \in SynWorkers
            PROVE  ~SynTrack(u) /\ ~SynForget(u) /\ ~SynCount(u)
                   /\ ~SynRstFlow(u) /\ ~SynRstRev(u)
        BY DEF SynTrack, SynForget, SynCount, SynRstFlow, SynRstRev, SynInv, SynTypeOK
      <3>2. ~SynSweepHalfOpen /\ ~SynSweepCounters /\ ~SynTick
        BY DEF SynSweepHalfOpen, SynSweepCounters, SynTick, synState
      <3> QED BY <3>1, <3>2 DEF SynNext
    <2>2. PICK c \in CounterRec :
             /\ raised' = IF IsFlood(c) THEN {"syn_flood"} ELSE {}
             /\ now - c.last_reset < SynWindow /\ c.last_reset <= now
             /\ acksSince' \in [Hosts -> [Times -> Nat]]
             /\ CounterSound(c, synsSince'[f[1]], acksSince'[f[1]], now)
             /\ \A o \in Hosts : o # f[1] => synsSince'[o] = synsSince[o]
      BY <2>1, SynCountersFacts, Zenon DEF SynInv
    <2>3. src = f[1] /\ IsFlood(c)
      <3>1. v = w
        BY <2>1 DEF SynCounters, SynInv, SynTypeOK
      <3>2. inspecting'[w].flow = f
        BY <2>1 DEF SynCounters, SynInv, SynTypeOK
      <3> QED BY <2>2, <3>1, <3>2
    <2> DEFINE r == c.last_reset
               S == synsSince'[src][r]
               A == acksSince'[src][r]
    <2>4. r \in Times /\ c.syns \in Nat /\ c.acks \in Nat /\ now \in Times
      BY CounterFields DEF SynInv, SynTypeOK
    <2>5. c.syns = S /\ c.acks = A
      BY <2>2, <2>3, Zenon DEF CounterSound, Counts
    <2>6. c.syns >= SynMin /\ c.syns >= RatioThreshold * (IF c.acks = 0 THEN 1 ELSE c.acks)
      BY <2>3 DEF IsFlood
    <2>7. c.syns >= RatioThreshold * c.acks
      <3>1. CASE c.acks = 0
        <4>1. RatioThreshold * 0 = 0
          BY SynConstants
        <4> QED BY <2>4, <3>1, <4>1
      <3>2. CASE c.acks # 0
        BY <2>6, <3>2
      <3> QED BY <3>1, <3>2
    <2>8. r \in 0 .. now /\ now - r < SynWindow
      BY <2>2, <2>4, TimesAreNat
    <2>9. S >= SynMin /\ S >= RatioThreshold * A
      BY <2>5, <2>6, <2>7, Zenon
    <2> HIDE DEF r
    <2> QED BY <2>8, <2>9
  <1> QED BY <1>1, SynInvariant, PTL DEF SynSpec, FloodIsRecent

\* A connection leaves the table only by age or by a packet of its own that
\* completes it, whatever the other workers and the sweeper do.
THEOREM LeavesTableForAReason == SynSpec => LeavesForAReason
  <1>1. SynInv /\ [SynNext]_synVars =>
          [\A f \in DOMAIN half_open \ DOMAIN half_open' :
              \/ now - half_open[f] >= HalfOpenTtl
              \/ \E w \in SynWorkers :
                    /\ inspecting[w] # Idle
                    /\ inspecting[w].flow \in {f, Reverse(f)}
                    /\ Completes(inspecting[w].flags)]_synVars
    <2> SUFFICES ASSUME SynInv, SynNext,
                        NEW f \in DOMAIN half_open \ DOMAIN half_open'
                 PROVE  \/ now - half_open[f] >= HalfOpenTtl
                        \/ \E w \in SynWorkers :
                              /\ inspecting[w] # Idle
                              /\ inspecting[w].flow \in {f, Reverse(f)}
                              /\ Completes(inspecting[w].flags)
      OBVIOUS
    <2>1. half_open' # half_open
      OBVIOUS
    <2>2. \/ \E w \in SynWorkers : SynTrack(w) \/ SynForget(w)
          \/ SynSweepHalfOpen
      BY <2>1 DEF SynNext, SynCounters, SynCount, SynRstFlow, SynRstRev,
                  SynSweepCounters, SynTick, synState
    <2>3. CASE SynSweepHalfOpen
      <3>1. DOMAIN half_open' = DOMAIN half_open \ {g \in DOMAIN half_open : Expired(g)}
        BY <2>3 DEF SynSweepHalfOpen, Without
      <3> QED BY <3>1 DEF Expired
    <2>4. ASSUME NEW w \in SynWorkers, SynTrack(w)
          PROVE  /\ inspecting[w] # Idle
                 /\ inspecting[w].flow \in {f, Reverse(f)}
                 /\ Completes(inspecting[w].flags)
      <3> DEFINE g == inspecting[w].flow
      <3>1. inspecting[w] # Idle /\ g \in Flows
        BY <2>4, InspectionFields DEF SynTrack, At, SynInv
      <3>2. /\ Completes(inspecting[w].flags)
            /\ half_open' = Without(half_open, {Reverse(g)})
        BY <2>1, <2>4 DEF SynTrack, Put
      <3>3. f = Reverse(g)
        BY <3>2 DEF Without
      <3> QED BY <3>1, <3>2, <3>3, FlowFacts
    <2>5. ASSUME NEW w \in SynWorkers, SynForget(w)
          PROVE  /\ inspecting[w] # Idle
                 /\ inspecting[w].flow \in {f, Reverse(f)}
                 /\ Completes(inspecting[w].flags)
      <3>1. /\ inspecting[w] # Idle /\ inspecting[w].pc = "forget"
            /\ half_open' = Without(half_open, {inspecting[w].flow})
        BY <2>5 DEF SynForget, At
      <3>2. Completes(inspecting[w].flags)
        BY <3>1 DEF SynInv, TableInv, TrackInv
      <3>3. f = inspecting[w].flow
        BY <3>1 DEF Without
      <3> QED BY <3>1, <3>2, <3>3
    <2> QED BY <2>2, <2>3, <2>4, <2>5
  <1> QED BY <1>1, SynInvariant, PTL DEF SynSpec, LeavesForAReason

-----------------------------------------------------------------------------
(* The sliding sets of the port scan detector. *)

\* What ScanAssumption says of the windows and thresholds.
LEMMA ScanConstants ==
    /\ ScanWindow \in Nat /\ ScanWindow >= 1
    /\ PortThreshold \in Nat /\ SrcThreshold \in Nat
    /\ IsFiniteSet(ScanPorts) /\ IsFiniteSet(ScanSources)
    /\ \A src \in ScanSources : SrcHash[src] \in Hashes
  BY ScanAssumption DEF Hashes

Distinct(S) == \A d, e \in S : d.val = e.val => d = e

\* The set S of a source, at time t, against the times T of its contacts:
\* an entry is a contact, the first of those it stands for; a contact that
\* none stands for was covered by one that has since left the window.
PortSound(S, T, t) ==
    /\ S \in SUBSET [val : ScanPorts, at : Times] /\ Distinct(S)
    /\ \A e \in S : e.at \in T[e.val]
    /\ \A p \in ScanPorts : \A c \in T[p] : \E a \in T[p] :
          /\ a <= c /\ c - a < ScanWindow
          /\ t - a >= ScanWindow \/ [val |-> p, at |-> a] \in S

\* The set S of a port against the times T of its sources.
SrcSound(S, T) ==
    /\ S \in SUBSET [val : Hashes, at : Times] /\ Distinct(S)
    /\ \A e \in S : \E src \in ScanSources : SrcHash[src] = e.val /\ e.at \in T[src]

\* retain, at the time of the sweeper or of a worker, keeps a set sound.
LEMMA RetainSound ==
    ASSUME NEW S, NEW T, NEW t \in Times, NEW u \in Times, u <= t
    PROVE  /\ PortSound(S, T, t) => PortSound(Retain(S, u), T, t)
           /\ SrcSound(S, T) => SrcSound(Retain(S, u), T)
  <1>1. Retain(S, u) \subseteq S
    BY DEF Retain
  <1>2. ASSUME PortSound(S, T, t), NEW p \in ScanPorts, NEW c \in T[p]
        PROVE  \E a \in T[p] : /\ a <= c /\ c - a < ScanWindow
                               /\ t - a >= ScanWindow \/ [val |-> p, at |-> a] \in Retain(S, u)
    <2>1. PICK a \in T[p] : /\ a <= c /\ c - a < ScanWindow
                            /\ t - a >= ScanWindow \/ [val |-> p, at |-> a] \in S
      BY <1>2 DEF PortSound
    <2>2. CASE t - a >= ScanWindow
      BY <2>1, <2>2
    <2>3. CASE ~(t - a >= ScanWindow)
      <3> DEFINE e == [val |-> p, at |-> a]
      <3>1. e \in S /\ e.at = a
        BY <2>1, <2>3
      <3>2. e.at \in Times
        <4>1. e \in [val : ScanPorts, at : Times]
          BY <1>2, <3>1, Zenon DEF PortSound
        <4> HIDE DEF e
        <4> QED BY <4>1
      <3> HIDE DEF e
      <3>3. u - e.at < ScanWindow
        <4>1. a \in Nat /\ t \in Nat /\ u \in Nat
          BY <3>1, <3>2, TimesAreNat
        <4> QED BY <2>3, <3>1, <4>1, ScanConstants
      <3>4. e \in Retain(S, u)
        BY <3>1, <3>3 DEF Retain
      <3> QED BY <2>1, <3>4, Zenon DEF e
    <2> QED BY <2>2, <2>3
  <1>3. ASSUME PortSound(S, T, t) PROVE PortSound(Retain(S, u), T, t)
    <2>1. /\ Retain(S, u) \in SUBSET [val : ScanPorts, at : Times] /\ Distinct(Retain(S, u))
          /\ \A e \in Retain(S, u) : e.at \in T[e.val]
      BY <1>1, <1>3, Zenon DEF PortSound, Distinct
    <2> QED BY <1>2, <1>3, <2>1, Zenon DEF PortSound
  <1>4. ASSUME SrcSound(S, T) PROVE SrcSound(Retain(S, u), T)
    BY <1>1, <1>4, Zenon DEF SrcSound, Distinct
  <1> QED BY <1>3, <1>4

\* A set of ports that is sound stays so as time passes.
LEMMA PortSoundLater ==
    ASSUME NEW S, NEW T \in [ScanPorts -> SUBSET Times], NEW t \in Nat, NEW u \in Nat, t <= u,
           PortSound(S, T, t)
    PROVE  PortSound(S, T, u)
  <1>1. \A a \in Times : t - a >= ScanWindow => u - a >= ScanWindow
    BY TimesAreNat, ScanConstants
  <1>2. \A p \in ScanPorts : \A a \in T[p] : a \in Times
    OBVIOUS
  <1> QED BY <1>1, <1>2, Zenon DEF PortSound

\* Insert, for either kind of set: the entries are distinct and live, and all
\* that was live is still there.
LEMMA InsertFacts ==
    ASSUME NEW V, NEW S \in SUBSET [val : V, at : Times], NEW v \in V, now \in Times, Distinct(S)
    PROVE  /\ Insert(S, v) \in SUBSET [val : V, at : Times] /\ Distinct(Insert(S, v))
           /\ \A e \in Insert(S, v) : now - e.at < ScanWindow
           /\ \A e \in Insert(S, v) : e \in S \/ e = [val |-> v, at |-> now]
           /\ \A e \in S : now - e.at < ScanWindow => e \in Insert(S, v)
           /\ \E e \in Insert(S, v) : e.val = v
  <1> DEFINE n == [val |-> v, at |-> now]
             live == Retain(S, now)
  <1>1. n \in [val : V, at : Times] /\ n.val = v /\ n.at = now
    OBVIOUS
  <1>2. now - now < ScanWindow
    BY TimesAreNat, ScanConstants
  <1>3. /\ \A e \in live : e \in S /\ now - e.at < ScanWindow
        /\ \A e \in S : now - e.at < ScanWindow => e \in live
    BY DEF Retain
  <1> HIDE DEF n, live
  <1>4. CASE \E e \in live : e.val = v
    <2>1. Insert(S, v) = live
      BY <1>4 DEF Insert, live
    <2> QED BY <1>3, <1>4, <2>1, Zenon DEF Distinct
  <1>5. CASE ~\E e \in live : e.val = v
    <2>1. Insert(S, v) = live \cup {n}
      BY <1>5 DEF Insert, live, n
    <2>2. \A e \in live \cup {n} : e \in live \/ e = n
      OBVIOUS
    <2>3. Distinct(live \cup {n})
      BY <1>1, <1>3, <1>5, <2>2, Zenon DEF Distinct
    <2>4. live \cup {n} \in SUBSET [val : V, at : Times]
      BY <1>1, <1>3, <2>2, Zenon
    <2>5. \A e \in live \cup {n} : now - e.at < ScanWindow
      BY <1>1, <1>2, <1>3, <2>2, Zenon
    <2>6. n \in live \cup {n} /\ \A e \in live : e \in live \cup {n}
      OBVIOUS
    <2> HIDE DEF Distinct
    <2> QED BY <1>1, <1>3, <2>1, <2>2, <2>3, <2>4, <2>5, <2>6, Zenon DEF n
  <1> QED BY <1>4, <1>5

\* insert keeps the ports of a source sound and leaves only live ones.
LEMMA InsertPortSound ==
    ASSUME NEW S, NEW T \in [ScanPorts -> SUBSET Times], NEW p \in ScanPorts, now \in Times,
           \A q \in ScanPorts : \A c \in T[q] : c <= now,
           PortSound(S, T, now)
    PROVE  /\ PortSound(Insert(S, p), [T EXCEPT ![p] = @ \cup {now}], now)
           /\ \A e \in Insert(S, p) : now - e.at < ScanWindow
  <1> DEFINE I == Insert(S, p)
             U == [T EXCEPT ![p] = @ \cup {now}]
  <1>1. /\ I \in SUBSET [val : ScanPorts, at : Times] /\ Distinct(I)
        /\ \A e \in I : now - e.at < ScanWindow
        /\ \A e \in I : e \in S \/ e = [val |-> p, at |-> now]
        /\ \A e \in S : now - e.at < ScanWindow => e \in I
        /\ \E e \in I : e.val = p
    BY InsertFacts DEF PortSound
  <1>2. /\ U[p] = T[p] \cup {now} /\ \A q \in ScanPorts : q # p => U[q] = T[q]
        /\ \A q \in ScanPorts : U[q] \in SUBSET Times
    OBVIOUS
  <1> HIDE DEF I, U
  <1>3. \A e \in I : e.at \in U[e.val]
    <2> SUFFICES ASSUME NEW e \in I PROVE e.at \in U[e.val]
      OBVIOUS
    <2>1. CASE e \in S
      <3>1. e.at \in T[e.val] /\ e.val \in ScanPorts
        <4>1. e \in [val : ScanPorts, at : Times] /\ e.at \in T[e.val]
          BY <2>1, Zenon DEF PortSound
        <4> QED BY <4>1
      <3> QED BY <1>2, <3>1
    <2>2. CASE e = [val |-> p, at |-> now]
      <3>1. e.val = p /\ e.at = now
        BY <2>2
      <3> QED BY <1>2, <3>1
    <2> QED BY <1>1, <2>1, <2>2
  <1>4. \A e \in I : e.val \in ScanPorts /\ e.at \in Times /\ e = [val |-> e.val, at |-> e.at]
    <2> SUFFICES ASSUME NEW e \in I
                 PROVE  e.val \in ScanPorts /\ e.at \in Times /\ e = [val |-> e.val, at |-> e.at]
      OBVIOUS
    <2>1. e \in [val : ScanPorts, at : Times]
      BY <1>1, Zenon
    <2> QED BY <2>1
  <1>5. ASSUME NEW q \in ScanPorts, NEW c \in U[q]
        PROVE  \E a \in U[q] : /\ a <= c /\ c - a < ScanWindow
                               /\ now - a >= ScanWindow \/ [val |-> q, at |-> a] \in I
    <2>1. CASE c \in T[q]
      <3>1. PICK a \in T[q] : /\ a <= c /\ c - a < ScanWindow
                              /\ now - a >= ScanWindow \/ [val |-> q, at |-> a] \in S
        BY <2>1 DEF PortSound
      <3>2. a \in U[q] /\ a \in Nat /\ now \in Nat
        BY <1>2, <3>1, TimesAreNat
      <3>3. CASE now - a >= ScanWindow
        BY <3>1, <3>2, <3>3
      <3>4. CASE ~(now - a >= ScanWindow)
        <4>1. now - a < ScanWindow
          BY <3>2, <3>4, ScanConstants
        <4> DEFINE e == [val |-> q, at |-> a]
        <4>2. e \in S /\ e.at = a
          BY <3>1, <3>4
        <4> HIDE DEF e
        <4>3. e \in I
          BY <1>1, <4>1, <4>2
        <4> QED BY <3>1, <3>2, <4>3, Zenon DEF e
      <3> QED BY <3>3, <3>4
    <2>2. CASE q = p /\ c = now
      <3>1. PICK e \in I : e.val = p
        BY <1>1
      <3>2. e.at \in U[p] /\ e.at \in Times /\ [val |-> p, at |-> e.at] \in I
            /\ now - e.at < ScanWindow
        BY <1>1, <1>3, <1>4, <3>1, Zenon
      <3>3. e.at <= now
        <4>1. e \in S \/ e = [val |-> p, at |-> now]
          BY <1>1
        <4>2. CASE e \in S
          <5>1. e.at \in T[e.val]
            BY <4>2 DEF PortSound
          <5> QED BY <3>1, <5>1
        <4>3. CASE e = [val |-> p, at |-> now]
          BY <4>3, TimesAreNat
        <4> QED BY <4>1, <4>2, <4>3
      <3> QED BY <2>2, <3>2, <3>3, Zenon
    <2>3. c \in T[q] \/ (q = p /\ c = now)
      BY <1>2
    <2> QED BY <2>1, <2>2, <2>3
  <1>6. PortSound(I, U, now)
    BY <1>1, <1>3, <1>5, Zenon DEF PortSound
  <1> QED BY <1>1, <1>6 DEF I, U

\* insert keeps the sources of a port sound and leaves only live ones.
LEMMA InsertSrcSound ==
    ASSUME NEW S, NEW T \in [ScanSources -> SUBSET Times], NEW src \in ScanSources, now \in Times,
           SrcSound(S, T)
    PROVE  /\ SrcSound(Insert(S, SrcHash[src]), [T EXCEPT ![src] = @ \cup {now}])
           /\ \A e \in Insert(S, SrcHash[src]) : now - e.at < ScanWindow
  <1> DEFINE h == SrcHash[src]
             I == Insert(S, h)
             U == [T EXCEPT ![src] = @ \cup {now}]
  <1>1. /\ I \in SUBSET [val : Hashes, at : Times] /\ Distinct(I)
        /\ \A e \in I : now - e.at < ScanWindow
        /\ \A e \in I : e \in S \/ e = [val |-> h, at |-> now]
    BY InsertFacts, ScanConstants DEF SrcSound
  <1>2. U[src] = T[src] \cup {now} /\ \A o \in ScanSources : T[o] \subseteq U[o]
    OBVIOUS
  <1> HIDE DEF I, U, h
  <1>3. ASSUME NEW e \in I PROVE \E o \in ScanSources : SrcHash[o] = e.val /\ e.at \in U[o]
    <2>1. CASE e \in S
      BY <1>2, <2>1 DEF SrcSound
    <2>2. CASE e = [val |-> h, at |-> now]
      <3>1. e.val = h /\ e.at = now
        BY <2>2
      <3> QED BY <1>2, <3>1 DEF h
    <2> QED BY <1>1, <2>1, <2>2
  <1>4. SrcSound(I, U)
    BY <1>1, <1>3, Zenon DEF SrcSound
  <1> QED BY <1>1, <1>4 DEF I, U, h

\* If each of S is given its own of a finite set T, then T has as many.
LEMMA CardinalityBound ==
    ASSUME NEW S, NEW T, IsFiniteSet(T), NEW f \in [S -> T],
           \A a, b \in S : f[a] = f[b] => a = b
    PROVE  /\ IsFiniteSet(S) /\ Cardinality(S) <= Cardinality(T)
           /\ Cardinality(S) \in Nat /\ Cardinality(T) \in Nat
  <1>1. f \in Injection(S, T)
    BY DEF Injection, IsInjective
  <1>2. IsFiniteSet(S) /\ Cardinality(S) <= Cardinality(T)
    BY <1>1, FS_Injection
  <1> QED BY <1>2, FS_CardinalityType

\* The ports of T in the window at time t, and those that had been left alone.
RecentIn(T, t) == {p \in ScanPorts : \E c \in T[p] : t - c < ScanWindow}
FreshIn(T, t) ==
    {p \in RecentIn(T, t) : \A c \in T[p] : t - c < ScanWindow \/ t - c >= 2 * ScanWindow}

\* The number of live entries lies between the two.
LEMMA HorizontalCount ==
    ASSUME NEW S, NEW T \in [ScanPorts -> SUBSET Times], NEW t \in Times, PortSound(S, T, t),
           \A e \in S : t - e.at < ScanWindow
    PROVE  /\ Cardinality(S) \in Nat
           /\ Cardinality(RecentIn(T, t)) \in Nat /\ Cardinality(FreshIn(T, t)) \in Nat
           /\ Cardinality(S) <= Cardinality(RecentIn(T, t))
           /\ Cardinality(FreshIn(T, t)) <= Cardinality(S)
  <1> DEFINE R == RecentIn(T, t)
             F == FreshIn(T, t)
  <1>1. /\ \A e \in S : e.val \in ScanPorts /\ e.at \in T[e.val]
        /\ Distinct(S)
    <2>1. \A e \in S : e \in [val : ScanPorts, at : Times] /\ e.at \in T[e.val]
      BY Zenon DEF PortSound
    <2> QED BY <2>1, Zenon DEF PortSound
  <1>2. R \subseteq ScanPorts /\ IsFiniteSet(R)
    <2>1. R \subseteq ScanPorts
      BY DEF RecentIn
    <2> QED BY <2>1, ScanConstants, FS_Subset
  <1>3. /\ IsFiniteSet(S) /\ Cardinality(S) <= Cardinality(R)
        /\ Cardinality(S) \in Nat /\ Cardinality(R) \in Nat
    <2> DEFINE f == [e \in S |-> e.val]
    <2>1. f \in [S -> R]
      BY <1>1 DEF RecentIn
    <2>2. \A a, b \in S : f[a] = f[b] => a = b
      BY <1>1 DEF Distinct
    <2> HIDE DEF f, R
    <2> QED BY <1>2, <2>1, <2>2, CardinalityBound
  <1>4. ASSUME NEW p \in F PROVE \E e \in S : e.val = p
    <2>1. /\ p \in ScanPorts
          /\ \A c \in T[p] : t - c < ScanWindow \/ t - c >= 2 * ScanWindow
      BY DEF FreshIn, RecentIn
    <2>2. PICK c \in T[p] : t - c < ScanWindow
      BY DEF FreshIn, RecentIn
    <2>3. PICK a \in T[p] : /\ a <= c /\ c - a < ScanWindow
                            /\ t - a >= ScanWindow \/ [val |-> p, at |-> a] \in S
      BY <2>1 DEF PortSound
    <2>4. a \in Nat /\ c \in Nat /\ t \in Nat /\ ScanWindow \in Nat
      BY <2>1, <2>2, <2>3, TimesAreNat, ScanConstants
    <2>5. t - a < 2 * ScanWindow
      BY <2>2, <2>3, <2>4
    <2>6. ~(t - a >= ScanWindow)
      BY <2>1, <2>3, <2>4, <2>5
    <2>7. [val |-> p, at |-> a] \in S /\ [val |-> p, at |-> a].val = p
      BY <2>3, <2>6
    <2> QED BY <2>7
  <1>5. Cardinality(F) <= Cardinality(S) /\ Cardinality(F) \in Nat
    <2> DEFINE g == [p \in F |-> CHOOSE e \in S : e.val = p]
    <2>1. \A p \in F : g[p] \in S /\ g[p].val = p
      BY <1>4
    <2>2. g \in [F -> S]
      BY <2>1
    <2>3. \A a, b \in F : g[a] = g[b] => a = b
      BY <2>1
    <2> HIDE DEF g, F
    <2> QED BY <1>3, <2>2, <2>3, CardinalityBound
  <1> QED BY <1>3, <1>5

SrcsIn(T, t) == {src \in ScanSources : \E c \in T[src] : t - c < ScanWindow}

\* The number of live hashes is at most that of the sources in the window.
LEMMA VerticalCount ==
    ASSUME NEW S, NEW T, NEW t \in Times, SrcSound(S, T), \A e \in S : t - e.at < ScanWindow
    PROVE  /\ Cardinality(S) \in Nat /\ Cardinality(SrcsIn(T, t)) \in Nat
           /\ Cardinality(S) <= Cardinality(SrcsIn(T, t))
  <1> DEFINE R == SrcsIn(T, t)
             f == [e \in S |-> CHOOSE src \in ScanSources : SrcHash[src] = e.val /\ e.at \in T[src]]
  <1>1. \A e \in S : f[e] \in ScanSources /\ SrcHash[f[e]] = e.val /\ e.at \in T[f[e]]
    BY DEF SrcSound
  <1>2. IsFiniteSet(R)
    <2>1. R \subseteq ScanSources
      BY DEF SrcsIn
    <2> QED BY <2>1, ScanConstants, FS_Subset
  <1>3. f \in [S -> R]
    <2>1. \A e \in S : f[e] \in R
      <3> HIDE DEF f
      <3> QED BY <1>1 DEF SrcsIn
    <2> HIDE DEF R
    <2> QED BY <2>1
  <1>4. \A a, b \in S : f[a] = f[b] => a = b
    <2>1. Distinct(S)
      BY DEF SrcSound
    <2> HIDE DEF f
    <2> QED BY <1>1, <2>1 DEF Distinct
  <1> HIDE DEF f, R
  <1>5. Cardinality(S) <= Cardinality(R) /\ Cardinality(S) \in Nat /\ Cardinality(R) \in Nat
    BY <1>2, <1>3, <1>4, CardinalityBound
  <1> QED BY <1>5 DEF R

\* SetAt after the two ways a map changes.
LEMMA SetAtPut ==
    ASSUME NEW map, NEW k, NEW v, NEW j
    PROVE  SetAt(Put(map, k, v), j) = IF j = k THEN v ELSE SetAt(map, j)
  BY DEF SetAt, Put

\* A key the sweeper drops reads as the empty set, which retain left of it.
LEMMA SetAtSwept ==
    ASSUME NEW map, NEW at, NEW j
    PROVE  SetAt(Swept(map, at), j) = Retain(SetAt(map, j), at)
  <1> DEFINE D == {k \in DOMAIN map : Retain(map[k], at) # {}}
  <1>1. Swept(map, at) = [k \in D |-> Retain(map[k], at)]
    BY DEF Swept
  <1>2. Retain({}, at) = {}
    BY DEF Retain
  <1>3. CASE j \in D
    BY <1>1, <1>3 DEF SetAt
  <1>4. CASE j \notin D
    <2>1. SetAt(Swept(map, at), j) = {}
      <3> HIDE DEF D
      <3> QED BY <1>1, <1>4 DEF SetAt
    <2>2. Retain(SetAt(map, j), at) = {}
      BY <1>2, <1>4 DEF SetAt
    <2> QED BY <2>1, <2>2
  <1> QED BY <1>3, <1>4

-----------------------------------------------------------------------------
(* The port scan detector keeps its sets sound. *)

SetsInv ==
    /\ \A src \in ScanSources : PortSound(SetAt(ports_per_src, src), portTimes[src], now)
    /\ \A port \in ScanPorts : SrcSound(SetAt(srcs_per_port, port), srcTimes[port])
    /\ \A src \in ScanSources, port \in ScanPorts : \A c \in portTimes[src][port] : c <= now
    /\ scanSweep.at <= now

ScanInv == ScanTypeOK /\ SetsInv

\* ScanTypeOK without the values of the two maps, which SetsInv has.
ScanShape ==
    /\ now \in Times /\ contacts \in Nat
    /\ DOMAIN ports_per_src \subseteq ScanSources /\ DOMAIN srcs_per_port \subseteq ScanPorts
    /\ scanning \in [ScanWorkers -> [src : ScanSources, port : ScanPorts] \cup {NotScanning}]
    /\ signal \in {"none", "horizontal", "vertical"}
    /\ scanSweep \in [at : Times, pc : {"asleep", "ports_per_src", "srcs_per_port"}]
    /\ portTimes \in [ScanSources -> [ScanPorts -> SUBSET Times]]
    /\ srcTimes \in [ScanPorts -> [ScanSources -> SUBSET Times]]

\* Those two parts have all of ScanTypeOK.
LEMMA ScanTypeFromSets == ScanShape /\ SetsInv => ScanInv
  <1> SUFFICES ASSUME ScanShape, SetsInv PROVE ScanInv
    OBVIOUS
  <1>1. \A src \in DOMAIN ports_per_src : ports_per_src[src] \in SlidingSet(ScanPorts)
    BY Zenon DEF ScanShape, SetsInv, PortSound, SetAt, SlidingSet
  <1>2. \A port \in DOMAIN srcs_per_port : srcs_per_port[port] \in SlidingSet(Hashes)
    BY Zenon DEF ScanShape, SetsInv, SrcSound, SetAt, SlidingSet
  <1> QED BY <1>1, <1>2, Zenon DEF ScanShape, ScanInv, ScanTypeOK

\* ScanInv holds when the detector is new.
LEMMA ScanInitInv == ScanInit => ScanInv
  <1> SUFFICES ASSUME ScanInit PROVE ScanInv
    OBVIOUS
  <1>1. DOMAIN ports_per_src = {} /\ DOMAIN srcs_per_port = {}
    BY DEF ScanInit, NoKeys
  <1>2. /\ portTimes \in [ScanSources -> [ScanPorts -> SUBSET Times]]
        /\ srcTimes \in [ScanPorts -> [ScanSources -> SUBSET Times]]
        /\ \A src \in ScanSources, port \in ScanPorts : portTimes[src][port] = {}
    BY DEF ScanInit
  <1>3. \A src \in ScanSources : PortSound(SetAt(ports_per_src, src), portTimes[src], now)
    BY <1>1, <1>2 DEF PortSound, SetAt, Distinct
  <1>4. \A port \in ScanPorts : SrcSound(SetAt(srcs_per_port, port), srcTimes[port])
    BY <1>1 DEF SrcSound, SetAt, Distinct
  <1>5. scanSweep \in [at : Times, pc : {"asleep", "ports_per_src", "srcs_per_port"}]
        /\ scanSweep.at <= now /\ now \in Times
    BY TimesAreNat DEF ScanInit
  <1>6. SetsInv
    BY <1>2, <1>3, <1>4, <1>5 DEF SetsInv
  <1>7. /\ scanning \in [ScanWorkers -> [src : ScanSources, port : ScanPorts] \cup {NotScanning}]
        /\ signal \in {"none", "horizontal", "vertical"} /\ contacts \in Nat
    BY DEF ScanInit
  <1> QED BY <1>1, <1>2, <1>5, <1>6, <1>7, ScanTypeFromSets DEF ScanShape

\* The first half of inspect: the set it leaves is sound and live.
LEMMA HorizontalSets ==
    ASSUME ScanInv, NEW w \in ScanWorkers, NEW src \in ScanSources, NEW port \in ScanPorts,
           ScanHorizontal(w, src, port)
    PROVE  LET set == Insert(SetAt(ports_per_src, src), port)
           IN  /\ PortSound(set, portTimes'[src], now)
               /\ \A e \in set : now - e.at < ScanWindow
               /\ portTimes' \in [ScanSources -> [ScanPorts -> SUBSET Times]]
               /\ portTimes'[src] \in [ScanPorts -> SUBSET Times]
               /\ \A s \in ScanSources : s # src => portTimes'[s] = portTimes[s]
               /\ \A s \in ScanSources, p \in ScanPorts :
                     \A c \in portTimes'[s][p] : c \in portTimes[s][p] \/ c = now
  <1> DEFINE S == SetAt(ports_per_src, src)
             T == portTimes[src]
             U == [T EXCEPT ![port] = @ \cup {now}]
  <1>1. /\ portTimes \in [ScanSources -> [ScanPorts -> SUBSET Times]] /\ now \in Times
        /\ T \in [ScanPorts -> SUBSET Times]
    BY DEF ScanInv, ScanTypeOK
  <1>2. portTimes' = [portTimes EXCEPT ![src] = U]
    BY DEF ScanHorizontal
  <1>3. /\ U \in [ScanPorts -> SUBSET Times]
        /\ \A p \in ScanPorts : \A c \in U[p] : c \in T[p] \/ c = now
    BY <1>1
  <1>4. PortSound(S, T, now) /\ \A q \in ScanPorts : \A c \in T[q] : c <= now
    BY DEF ScanInv, SetsInv
  <1>5. PortSound(Insert(S, port), U, now) /\ \A e \in Insert(S, port) : now - e.at < ScanWindow
    <2> HIDE DEF S, T
    <2> QED BY <1>1, <1>4, InsertPortSound
  <1> HIDE DEF U
  <1>6. /\ portTimes'[src] = U
        /\ portTimes' \in [ScanSources -> [ScanPorts -> SUBSET Times]]
        /\ \A s \in ScanSources : s # src => portTimes'[s] = portTimes[s]
    BY <1>1, <1>2, <1>3
  <1>7. \A s \in ScanSources, p \in ScanPorts :
            \A c \in portTimes'[s][p] : c \in portTimes[s][p] \/ c = now
    BY <1>3, <1>6, Zenon
  <1> QED BY <1>3, <1>5, <1>6, <1>7, Zenon

\* The second half of inspect: the set it leaves is sound and live.
LEMMA VerticalSets ==
    ASSUME ScanInv, NEW w \in ScanWorkers, ScanVertical(w)
    PROVE  LET src == scanning[w].src
               port == scanning[w].port
               set == Insert(SetAt(srcs_per_port, port), SrcHash[src])
           IN  /\ src \in ScanSources /\ port \in ScanPorts
               /\ SrcSound(set, srcTimes'[port])
               /\ \A e \in set : now - e.at < ScanWindow
               /\ srcTimes' \in [ScanPorts -> [ScanSources -> SUBSET Times]]
               /\ \A p \in ScanPorts : p # port => srcTimes'[p] = srcTimes[p]
  <1> DEFINE src == scanning[w].src
             port == scanning[w].port
             S == SetAt(srcs_per_port, port)
             T == srcTimes[port]
             U == [T EXCEPT ![src] = @ \cup {now}]
  <1>1. src \in ScanSources /\ port \in ScanPorts
    <2>1. scanning[w] \in [src : ScanSources, port : ScanPorts]
      BY DEF ScanInv, ScanTypeOK, ScanVertical
    <2> QED BY <2>1
  <1>2. srcTimes' = [srcTimes EXCEPT ![port] = U]
    BY DEF ScanVertical
  <1> HIDE DEF src, port
  <1>3. /\ srcTimes \in [ScanPorts -> [ScanSources -> SUBSET Times]] /\ now \in Times
        /\ T \in [ScanSources -> SUBSET Times]
    BY <1>1 DEF ScanInv, ScanTypeOK
  <1>4. U \in [ScanSources -> SUBSET Times]
    BY <1>3
  <1>5. SrcSound(S, T)
    BY <1>1 DEF ScanInv, SetsInv
  <1>6. /\ SrcSound(Insert(S, SrcHash[src]), U)
        /\ \A e \in Insert(S, SrcHash[src]) : now - e.at < ScanWindow
    <2> HIDE DEF S, T
    <2> QED BY <1>1, <1>3, <1>5, InsertSrcSound
  <1> HIDE DEF U
  <1>7. /\ srcTimes'[port] = U
        /\ srcTimes' \in [ScanPorts -> [ScanSources -> SUBSET Times]]
        /\ \A p \in ScanPorts : p # port => srcTimes'[p] = srcTimes[p]
    BY <1>1, <1>2, <1>3, <1>4
  <1> QED BY <1>1, <1>6, <1>7, Zenon DEF src, port

\* Every step of the port scan detector keeps ScanInv.
LEMMA ScanInvStep == ScanInv /\ [ScanNext]_scanVars => ScanInv'
  <1> SUFFICES ASSUME ScanInv, [ScanNext]_scanVars PROVE ScanInv'
    OBVIOUS
  <1> DEFINE ScanRecord == [src : ScanSources, port : ScanPorts]
  <1>0. ScanShape' /\ SetsInv' => ScanInv'
    BY ScanTypeFromSets, PTL
  <1>1. /\ now \in Times /\ contacts \in Nat
        /\ DOMAIN ports_per_src \subseteq ScanSources /\ DOMAIN srcs_per_port \subseteq ScanPorts
        /\ scanning \in [ScanWorkers -> ScanRecord \cup {NotScanning}]
        /\ signal \in {"none", "horizontal", "vertical"}
        /\ scanSweep \in [at : Times, pc : {"asleep", "ports_per_src", "srcs_per_port"}]
        /\ portTimes \in [ScanSources -> [ScanPorts -> SUBSET Times]]
        /\ srcTimes \in [ScanPorts -> [ScanSources -> SUBSET Times]]
    BY DEF ScanInv, ScanTypeOK
  <1>2. /\ scanSweep.at \in Times /\ scanSweep.at <= now /\ now <= now
        /\ now \in Nat
    BY <1>1, TimesAreNat DEF ScanInv, SetsInv
  <1>3. /\ \A src \in ScanSources : PortSound(SetAt(ports_per_src, src), portTimes[src], now)
        /\ \A port \in ScanPorts : SrcSound(SetAt(srcs_per_port, port), srcTimes[port])
        /\ \A src \in ScanSources, port \in ScanPorts : \A c \in portTimes[src][port] : c <= now
    BY DEF ScanInv, SetsInv
  <1>4. ASSUME NEW w \in ScanWorkers, NEW src \in ScanSources, NEW port \in ScanPorts,
               ScanHorizontal(w, src, port)
        PROVE  ScanInv'
    <2> DEFINE set == Insert(SetAt(ports_per_src, src), port)
    <2>1. /\ PortSound(set, portTimes'[src], now)
          /\ portTimes' \in [ScanSources -> [ScanPorts -> SUBSET Times]]
          /\ \A s \in ScanSources : s # src => portTimes'[s] = portTimes[s]
          /\ \A s \in ScanSources, p \in ScanPorts :
                \A c \in portTimes'[s][p] : c \in portTimes[s][p] \/ c = now
      BY <1>4, HorizontalSets, Zenon
    <2>2. /\ ports_per_src' = Put(ports_per_src, src, set)
          /\ now' = now /\ srcs_per_port' = srcs_per_port /\ scanSweep' = scanSweep
          /\ srcTimes' = srcTimes
      BY <1>4 DEF ScanHorizontal
    <2>3. /\ signal' \in {"none", "horizontal", "vertical"} /\ contacts' \in Nat
          /\ scanning' \in [ScanWorkers -> ScanRecord \cup {NotScanning}]
      <3>1. [src |-> src, port |-> port] \in ScanRecord
        OBVIOUS
      <3> HIDE DEF ScanRecord
      <3>2. [scanning EXCEPT ![w] = [src |-> src, port |-> port]]
                \in [ScanWorkers -> ScanRecord \cup {NotScanning}]
        BY <1>1, <3>1
      <3> QED BY <1>1, <1>4, <3>2 DEF ScanHorizontal
    <2> HIDE DEF set
    <2>4. ASSUME NEW s \in ScanSources
          PROVE  PortSound(SetAt(ports_per_src', s), portTimes'[s], now')
      <3>1. SetAt(ports_per_src', s) = IF s = src THEN set ELSE SetAt(ports_per_src, s)
        BY <2>2 DEF SetAt, Put
      <3> QED BY <1>3, <2>1, <2>2, <3>1, Zenon
    <2>5. SetsInv'
      <3>1. \A s \in ScanSources, p \in ScanPorts : \A c \in portTimes'[s][p] : c <= now'
        BY <1>2, <1>3, <2>1, <2>2, Zenon
      <3> QED BY <1>2, <1>3, <2>2, <2>4, <3>1, Zenon DEF SetsInv, SetAt
    <2>6. DOMAIN ports_per_src' \subseteq ScanSources
      BY <1>1, <2>2 DEF Put
    <2> QED BY <1>1, <2>1, <2>2, <2>3, <2>5, <2>6, <1>0, Zenon DEF ScanShape
  <1>5. ASSUME NEW w \in ScanWorkers, ScanVertical(w)
        PROVE  ScanInv'
    <2> DEFINE src == scanning[w].src
               port == scanning[w].port
               set == Insert(SetAt(srcs_per_port, port), SrcHash[src])
    <2>1. /\ port \in ScanPorts
          /\ SrcSound(set, srcTimes'[port])
          /\ srcTimes' \in [ScanPorts -> [ScanSources -> SUBSET Times]]
          /\ \A p \in ScanPorts : p # port => srcTimes'[p] = srcTimes[p]
      BY <1>5, VerticalSets, Zenon
    <2>2. /\ srcs_per_port' = Put(srcs_per_port, port, set)
          /\ now' = now /\ ports_per_src' = ports_per_src /\ scanSweep' = scanSweep
          /\ portTimes' = portTimes /\ contacts' = contacts
      BY <1>5 DEF ScanVertical
    <2>3. /\ signal' \in {"none", "horizontal", "vertical"}
          /\ scanning' \in [ScanWorkers -> ScanRecord \cup {NotScanning}]
      <3> HIDE DEF ScanRecord
      <3> QED BY <1>1, <1>5 DEF ScanVertical
    <2> HIDE DEF set, port, src
    <2>4. ASSUME NEW p \in ScanPorts
          PROVE  SrcSound(SetAt(srcs_per_port', p), srcTimes'[p])
      <3>1. SetAt(srcs_per_port', p) = IF p = port THEN set ELSE SetAt(srcs_per_port, p)
        BY <2>2 DEF SetAt, Put
      <3> QED BY <1>3, <2>1, <3>1, Zenon
    <2>5. SetsInv'
      BY <1>2, <1>3, <2>2, <2>4, Zenon DEF SetsInv, SetAt
    <2>6. DOMAIN srcs_per_port' \subseteq ScanPorts
      BY <1>1, <2>1, <2>2 DEF Put
    <2> QED BY <1>1, <2>1, <2>2, <2>3, <2>5, <2>6, <1>0, Zenon DEF ScanShape
  <1>6. CASE ScanSweepBegin
    <2>1. /\ scanSweep' = [at |-> now, pc |-> "ports_per_src"]
          /\ UNCHANGED <<now, ports_per_src, srcs_per_port, scanning, signal,
                         contacts, portTimes, srcTimes>>
      BY <1>6 DEF ScanSweepBegin
    <2>2. /\ scanSweep' \in [at : Times, pc : {"asleep", "ports_per_src", "srcs_per_port"}]
          /\ scanSweep'.at = now
      BY <1>1, <2>1
    <2>3. SetsInv'
      BY <1>2, <1>3, <2>1, <2>2, Zenon DEF SetsInv, SetAt
    <2> QED BY <1>1, <2>1, <2>2, <2>3, <1>0, Zenon DEF ScanShape
  <1>7. CASE ScanSweepPorts
    <2>1. /\ ports_per_src' = Swept(ports_per_src, scanSweep.at)
          /\ scanSweep' = [scanSweep EXCEPT !.pc = "srcs_per_port"]
          /\ UNCHANGED <<now, srcs_per_port, scanning, signal, contacts, portTimes, srcTimes>>
      BY <1>7 DEF ScanSweepPorts
    <2>2. /\ scanSweep' \in [at : Times, pc : {"asleep", "ports_per_src", "srcs_per_port"}]
          /\ scanSweep'.at = scanSweep.at
      BY <1>1, <2>1
    <2>3. ASSUME NEW s \in ScanSources
          PROVE  PortSound(SetAt(ports_per_src', s), portTimes'[s], now')
      <3>1. SetAt(Swept(ports_per_src, scanSweep.at), s)
                = Retain(SetAt(ports_per_src, s), scanSweep.at)
        BY SetAtSwept
      <3>2. PortSound(SetAt(ports_per_src, s), portTimes[s], now)
        BY <1>3
      <3>3. PortSound(Retain(SetAt(ports_per_src, s), scanSweep.at), portTimes[s], now)
        BY <1>1, <1>2, <3>2, RetainSound
      <3> QED BY <2>1, <3>1, <3>3, Zenon DEF SetAt
    <2>4. SetsInv'
      BY <1>2, <1>3, <2>1, <2>2, <2>3, Zenon DEF SetsInv, SetAt
    <2>5. DOMAIN ports_per_src' \subseteq ScanSources
      BY <1>1, <2>1 DEF Swept
    <2> QED BY <1>1, <2>1, <2>2, <2>4, <2>5, <1>0, Zenon DEF ScanShape
  <1>8. CASE ScanSweepSrcs
    <2>1. /\ srcs_per_port' = Swept(srcs_per_port, scanSweep.at)
          /\ scanSweep' = [at |-> 0, pc |-> "asleep"]
          /\ UNCHANGED <<now, ports_per_src, scanning, signal, contacts, portTimes, srcTimes>>
      BY <1>8 DEF ScanSweepSrcs
    <2>2. /\ scanSweep' \in [at : Times, pc : {"asleep", "ports_per_src", "srcs_per_port"}]
          /\ scanSweep'.at <= now
      BY <1>1, <1>2, <2>1, TimesAreNat
    <2>3. ASSUME NEW p \in ScanPorts
          PROVE  SrcSound(SetAt(srcs_per_port', p), srcTimes'[p])
      <3>1. SetAt(Swept(srcs_per_port, scanSweep.at), p)
                = Retain(SetAt(srcs_per_port, p), scanSweep.at)
        BY SetAtSwept
      <3>2. SrcSound(SetAt(srcs_per_port, p), srcTimes[p])
        BY <1>3
      <3>3. SrcSound(Retain(SetAt(srcs_per_port, p), scanSweep.at), srcTimes[p])
        BY <1>1, <1>2, <3>2, RetainSound
      <3> QED BY <2>1, <3>1, <3>3, Zenon DEF SetAt
    <2>4. SetsInv'
      BY <1>2, <1>3, <2>1, <2>2, <2>3, Zenon DEF SetsInv, SetAt
    <2>5. DOMAIN srcs_per_port' \subseteq ScanPorts
      BY <1>1, <2>1 DEF Swept
    <2> QED BY <1>1, <2>1, <2>2, <2>4, <2>5, <1>0, Zenon DEF ScanShape
  <1>9. CASE ScanTick
    <2> DEFINE n == now + 1
    <2>1. now' = n /\ UNCHANGED scanState /\ n \in Times /\ n \in Nat /\ now <= n
      BY <1>1, <1>2, <1>9, ClockAssumption DEF ScanTick, Tick, Times
    <2> HIDE DEF n
    <2>2. /\ ports_per_src' = ports_per_src /\ srcs_per_port' = srcs_per_port
          /\ scanning' = scanning /\ signal' = signal /\ scanSweep' = scanSweep
          /\ contacts' = contacts /\ portTimes' = portTimes /\ srcTimes' = srcTimes
      BY <2>1 DEF scanState
    <2>3. \A src \in ScanSources : PortSound(SetAt(ports_per_src, src), portTimes[src], n)
      BY <1>1, <1>2, <1>3, <2>1, PortSoundLater
    <2>4. \A src \in ScanSources, port \in ScanPorts : \A c \in portTimes[src][port] : c <= n
      <3>1. \A src \in ScanSources, port \in ScanPorts : \A c \in portTimes[src][port] : c \in Nat
        BY <1>1, TimesAreNat
      <3> QED BY <1>2, <1>3, <2>1, <3>1
    <2>5. scanSweep.at <= n
      <3>1. scanSweep.at \in Nat
        BY <1>2, TimesAreNat
      <3> QED BY <1>2, <2>1, <3>1
    <2>6. SetsInv'
      BY <1>3, <2>1, <2>2, <2>3, <2>4, <2>5, Zenon DEF SetsInv, SetAt
    <2> QED BY <1>1, <2>1, <2>2, <2>6, <1>0, Zenon DEF ScanShape
  <1>10. CASE UNCHANGED scanVars
    <2>1. /\ now' = now /\ ports_per_src' = ports_per_src /\ srcs_per_port' = srcs_per_port
          /\ scanning' = scanning /\ signal' = signal /\ scanSweep' = scanSweep
          /\ contacts' = contacts /\ portTimes' = portTimes /\ srcTimes' = srcTimes
      BY <1>10 DEF scanVars, scanState
    <2>2. SetsInv'
      BY <1>2, <1>3, <2>1, Zenon DEF SetsInv, SetAt
    <2> QED BY <1>1, <2>1, <2>2, <1>0, Zenon DEF ScanShape
  <1> QED BY <1>4, <1>5, <1>6, <1>7, <1>8, <1>9, <1>10 DEF ScanNext

\* The sliding sets of the port scan detector agree with the contacts that were
\* really made, for any sources, ports, thresholds and number of workers.
THEOREM ScanInvariant == ScanSpec => []ScanInv
  <1> QED BY ScanInitInv, ScanInvStep, PTL DEF ScanSpec

\* The two maps and what the workers carry have their types.
THEOREM ScanTypeCorrect == ScanSpec => []ScanTypeOK
  <1>1. ScanInv => ScanTypeOK
    BY DEF ScanInv
  <1> QED BY <1>1, ScanInvariant, PTL

\* A horizontal or vertical scan is signalled only if that many ports or sources
\* were seen in the window, and a horizontal one always if the source had left
\* the ports alone for a window before, whatever the sweeper and the other
\* workers do meanwhile (port_scan.rs:25-33, 67-112).
THEOREM ScanVerdictsAreRight == ScanSpec => ScanVerdict
  <1>1. ASSUME ScanInv, NEW w \in ScanWorkers, NEW src \in ScanSources, NEW port \in ScanPorts
        PROVE  HorizontalVerdict(w, src, port)
    <2> SUFFICES ASSUME ScanHorizontal(w, src, port)
                 PROVE  /\ signal' = "horizontal" => Cardinality(RecentPorts(src)') >= PortThreshold
                        /\ Cardinality(FreshPorts(src)') >= PortThreshold => signal' = "horizontal"
      BY DEF HorizontalVerdict
    <2> DEFINE set == Insert(SetAt(ports_per_src, src), port)
               T == portTimes'[src]
    <2>1. /\ PortSound(set, T, now) /\ T \in [ScanPorts -> SUBSET Times]
          /\ \A e \in set : now - e.at < ScanWindow
      BY <1>1, HorizontalSets, Zenon
    <2>2. now \in Times
      BY <1>1 DEF ScanInv, ScanTypeOK
    <2>3. /\ signal' = IF Cardinality(set) >= PortThreshold THEN "horizontal" ELSE "none"
          /\ now' = now
      BY DEF ScanHorizontal
    <2>4. /\ RecentPorts(src)' = RecentIn(T, now)
          /\ FreshPorts(src)' = FreshIn(T, now)
      BY <2>3 DEF RecentPorts, FreshPorts, RecentIn, FreshIn, Within
    <2> HIDE DEF set, T
    <2>5. /\ Cardinality(set) \in Nat
          /\ Cardinality(RecentIn(T, now)) \in Nat /\ Cardinality(FreshIn(T, now)) \in Nat
          /\ Cardinality(set) <= Cardinality(RecentIn(T, now))
          /\ Cardinality(FreshIn(T, now)) <= Cardinality(set)
      BY <2>1, <2>2, HorizontalCount
    <2> QED BY <2>3, <2>4, <2>5, ScanConstants
  <1>2. ASSUME ScanInv, NEW w \in ScanWorkers, NEW p \in ScanPorts
        PROVE  VerticalVerdict(w, p)
    <2> SUFFICES ASSUME ScanVertical(w), scanning[w].port = p, signal' = "vertical"
                 PROVE  Cardinality(RecentSrcs(p)') >= SrcThreshold
      BY DEF VerticalVerdict
    <2> DEFINE src == scanning[w].src
               port == scanning[w].port
               set == Insert(SetAt(srcs_per_port, port), SrcHash[src])
               T == srcTimes'[port]
    <2>1. SrcSound(set, T) /\ \A e \in set : now - e.at < ScanWindow
      BY <1>2, VerticalSets, Zenon
    <2>2. now \in Times
      BY <1>2 DEF ScanInv, ScanTypeOK
    <2>3. Cardinality(set) >= SrcThreshold /\ now' = now
      BY DEF ScanVertical
    <2>4. RecentSrcs(p)' = SrcsIn(T, now)
      BY <2>3 DEF RecentSrcs, SrcsIn, Within
    <2> HIDE DEF set, T
    <2>5. /\ Cardinality(set) \in Nat /\ Cardinality(SrcsIn(T, now)) \in Nat
          /\ Cardinality(set) <= Cardinality(SrcsIn(T, now))
      BY <2>1, <2>2, VerticalCount
    <2> QED BY <2>3, <2>4, <2>5, ScanConstants
  <1>3. ScanInv => [\A w \in ScanWorkers, src \in ScanSources, port \in ScanPorts :
                       HorizontalVerdict(w, src, port) /\ VerticalVerdict(w, port)]_scanVars
    BY <1>1, <1>2
  <1> QED BY <1>3, ScanInvariant, PTL DEF ScanVerdict

-----------------------------------------------------------------------------
(* The detectors side by side. *)

\* Whatever one of them does is a step of the clock or leaves it alone.
LEMMA OnlyTicksMoveTheClock ==
    ASSUME Next
    PROVE  Tick \/ now' = now
  <1>1. CASE RateStep
    BY <1>1 DEF RateStep, RateNext, RateInspect, RateSweep, RateTick
  <1>2. CASE ScanStep
    BY <1>2 DEF ScanStep, ScanNext, ScanHorizontal, ScanVertical, ScanSweepBegin,
                ScanSweepPorts, ScanSweepSrcs, ScanTick
  <1>3. CASE SynStep
    BY <1>3 DEF SynStep, SynNext, SynCounters, SynTrack, SynForget, SynCount, SynRstFlow,
                SynRstRev, SynSweepHalfOpen, SynSweepCounters, SynTick
  <1> QED BY <1>1, <1>2, <1>3 DEF Next

\* Each detector behaves among the others, whichever way the workers and the
\* sweeper take turns at them (mod.rs:98-129, 318-326), as it does alone: a
\* step of another is for it a step of the clock, or none.  All that is proved
\* of each alone therefore holds of it in the engine.
THEOREM EachAsIfAlone == Spec => RateSpec /\ ScanSpec /\ SynSpec
  <1>1. Init => RateInit /\ ScanInit /\ SynInit
    BY DEF Init
  <1>2. ASSUME [Next]_<<now, rateState, scanState, synState>>
        PROVE  [RateNext]_rateVars /\ [ScanNext]_scanVars /\ [SynNext]_synVars
    <2>1. CASE UNCHANGED <<now, rateState, scanState, synState>>
      BY <2>1 DEF rateVars, scanVars, synVars
    <2>2. CASE RateStep
      <3>1. UNCHANGED scanState /\ UNCHANGED synState /\ RateNext
        BY <2>2 DEF RateStep
      <3>2. Tick \/ now' = now
        BY <2>2, OnlyTicksMoveTheClock DEF Next
      <3> QED BY <3>1, <3>2 DEF ScanNext, ScanTick, SynNext, SynTick, scanVars, synVars
    <2>3. CASE ScanStep
      <3>1. UNCHANGED rateState /\ UNCHANGED synState /\ ScanNext
        BY <2>3 DEF ScanStep
      <3>2. Tick \/ now' = now
        BY <2>3, OnlyTicksMoveTheClock DEF Next
      <3> QED BY <3>1, <3>2 DEF RateNext, RateTick, SynNext, SynTick, rateVars, synVars
    <2>4. CASE SynStep
      <3>1. UNCHANGED rateState /\ UNCHANGED scanState /\ SynNext
        BY <2>4 DEF SynStep
      <3>2. Tick \/ now' = now
        BY <2>4, OnlyTicksMoveTheClock DEF Next
      <3> QED BY <3>1, <3>2 DEF RateNext, RateTick, ScanNext, ScanTick, rateVars, scanVars
    <2> QED BY <1>2, <2>1, <2>2, <2>3, <2>4 DEF Next
  <1> QED BY <1>1, <1>2, PTL DEF Spec, RateSpec, ScanSpec, SynSpec

\* The maps, windows and counters of the three detectors keep their types.
THEOREM DetectorsTypeCorrect == Spec => []TypeOK
  <1>1. RateTypeOK /\ ScanTypeOK /\ SynTypeOK => TypeOK
    BY DEF TypeOK
  <1> QED BY <1>1, EachAsIfAlone, RateTypeCorrect, ScanTypeCorrect, SynTypeCorrect, PTL
=============================================================================
