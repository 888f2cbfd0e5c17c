----------------------------- MODULE InputProofs -----------------------------
(***************************************************************************)
(* Proofs about the parts that take in something from outside and search   *)
(* it: the payload scanner, the blacklist, the DNS name walk.              *)
(***************************************************************************)
EXTENDS DnsName, PayloadScan, Blacklist, Induction, SequenceTheorems, TLAPS

-----------------------------------------------------------------------------
(* The payload scanner. *)

\* A place has a signature and is not empty.
LEMMA OccurrenceFacts ==
    ASSUME text \in Seq(Letters), NEW o \in Occurrences
    PROVE  /\ o.name \in DOMAIN Signatures
           /\ o.start \in Nat /\ o.end \in Nat /\ o.start < o.end
  <1>1. /\ o \in [name : DOMAIN Signatures, start : 1..Len(text), end : 2..(Len(text) + 1)]
        /\ o.end = o.start + Len(Signatures[o.name])
    BY DEF Occurrences
  <1>2. o.name \in DOMAIN Signatures /\ o.start \in Nat /\ o.end \in Nat
    BY <1>1
  <1>3. Signatures[o.name] \in Seq(Letters) /\ Signatures[o.name] # <<>>
    BY <1>2, ScanAssumption
  <1>4. Len(Signatures[o.name]) \in Nat /\ Len(Signatures[o.name]) > 0
    BY <1>3
  <1> QED BY <1>1, <1>2, <1>4

\* Up to where the search goes on, every place is one that a match ends in,
\* and every match has its signal.
TextInv ==
    /\ text \in Seq(Letters) /\ resume \in Nat /\ resume >= 1
    /\ signals \in Seq(DOMAIN Signatures)
    /\ \A n \in seen : \E i \in DOMAIN signals : signals[i] = n
    /\ \A p \in found : p.name \in seen
    /\ \A o \in Occurrences : o.start < resume =>
          \E p \in found : Overlap(o, p) /\ p.end <= o.end
    /\ ~scanning => Ahead = {}

\* Nothing lies in front of the first byte.
LEMMA TextInitInv == TextInit => TextInv
  <1> SUFFICES ASSUME TextInit PROVE TextInv
    OBVIOUS
  <1>1. text \in Seq(Letters)
    BY DEF TextInit, Texts
  <1>2. \A o \in Occurrences : ~(o.start < 1)
    <2> SUFFICES ASSUME NEW o \in Occurrences PROVE ~(o.start < 1)
      OBVIOUS
    <2>1. o \in [name : DOMAIN Signatures, start : 1..Len(text), end : 2..(Len(text) + 1)]
      BY DEF Occurrences
    <2> QED BY <2>1
  <1> QED BY <1>1, <1>2 DEF TextInit, TextInv

\* find_iter keeps TextInv: it skips only what a match overlaps.
LEMMA TextInvStep == TextInv /\ [TextNext]_textVars => TextInv'
  <1> SUFFICES ASSUME TextInv, [TextNext]_textVars PROVE TextInv'
    OBVIOUS
  <1>1. CASE ScanMatch
    <2>1. PICK m \in Ahead :
             /\ NextMatch(m) /\ resume' = m.end /\ found' = found \cup {m}
             /\ seen' = seen \cup {m.name}
             /\ signals' = IF m.name \in seen THEN signals ELSE Append(signals, m.name)
      BY <1>1 DEF ScanMatch
    <2>2. text' = text /\ scanning' = scanning /\ scanning
      BY <1>1 DEF ScanMatch
    <2>3. m \in Occurrences /\ m.start >= resume
      BY DEF Ahead
    <2>4. /\ m.name \in DOMAIN Signatures
          /\ m.start \in Nat /\ m.end \in Nat /\ m.start < m.end
      BY <2>3, OccurrenceFacts DEF TextInv
    <2>5. Occurrences' = Occurrences
      BY <2>2 DEF Occurrences
    <2>6. /\ signals' \in Seq(DOMAIN Signatures)
          /\ \A n \in seen' : \E i \in DOMAIN signals' : signals'[i] = n
      <3>1. CASE m.name \in seen
        BY <2>1, <3>1 DEF TextInv
      <3>2. CASE m.name \notin seen
        <4>1. signals' = Append(signals, m.name) /\ signals \in Seq(DOMAIN Signatures)
          BY <2>1, <3>2 DEF TextInv
        <4>2. /\ signals' \in Seq(DOMAIN Signatures) /\ Len(signals) + 1 \in DOMAIN signals'
              /\ signals'[Len(signals) + 1] = m.name
              /\ \A i \in DOMAIN signals : i \in DOMAIN signals' /\ signals'[i] = signals[i]
          BY <2>4, <4>1
        <4> QED BY <2>1, <4>2, Zenon DEF TextInv
      <3> QED BY <3>1, <3>2
    <2>7. ASSUME NEW o \in Occurrences, o.start < m.end
          PROVE  \E p \in found' : Overlap(o, p) /\ p.end <= o.end
      <3>1. o.start \in Nat /\ o.end \in Nat /\ o.start < o.end
        BY OccurrenceFacts DEF TextInv
      <3>2. CASE o.start < resume
        BY <2>1, <3>2 DEF TextInv
      <3>3. CASE ~(o.start < resume)
        <4>1. o \in Ahead
          BY <3>1, <3>3 DEF Ahead, TextInv
        <4>2. m.end <= o.end
          BY <2>1, <2>4, <3>1, <4>1 DEF NextMatch
        <4>3. Overlap(o, m)
          BY <2>4, <2>7, <3>1, <4>2 DEF Overlap
        <4> QED BY <2>1, <4>2, <4>3
      <3> QED BY <3>2, <3>3
    <2>8. resume' \in Nat /\ resume' >= 1
      BY <2>1, <2>4
    <2> QED BY <2>1, <2>2, <2>5, <2>6, <2>7, <2>8, Zenon DEF TextInv
  <1>2. CASE ScanEnd
    <2>1. /\ text' = text /\ resume' = resume /\ found' = found /\ seen' = seen
          /\ signals' = signals /\ Ahead = {}
      BY <1>2 DEF ScanEnd
    <2>2. Occurrences' = Occurrences
      BY <2>1 DEF Occurrences
    <2>3. Ahead' = {}
      BY <2>1, <2>2 DEF Ahead
    <2> QED BY <2>1, <2>2, <2>3, Zenon DEF TextInv
  <1>3. CASE UNCHANGED textVars
    <2>1. /\ text' = text /\ resume' = resume /\ found' = found /\ seen' = seen
          /\ signals' = signals /\ scanning' = scanning
      BY <1>3 DEF textVars
    <2>2. Occurrences' = Occurrences
      BY <2>1 DEF Occurrences
    <2>3. Ahead' = Ahead
      BY <2>1, <2>2 DEF Ahead
    <2> QED BY <2>1, <2>2, <2>3, Zenon DEF TextInv
  <1> QED BY <1>1, <1>2, <1>3 DEF TextNext

(***************************************************************************)
(* scan_all, on a payload of any length and with any signatures that are   *)
(* not empty: a signature that is in the payload and has no signal is      *)
(* overlapped, wherever it stands, by a match that has one and that ends   *)
(* no later (payload.rs:60-78).                                            *)
(***************************************************************************)
THEOREM NoSignatureIsLost == TextSpec => []OnlyOverlappedIsMissed
  <1>1. TextInv => OnlyOverlappedIsMissed
    <2> SUFFICES ASSUME TextInv, ~scanning, NEW o \in Occurrences
                 PROVE  \E i \in DOMAIN signals : \E p \in found :
                           p.name = signals[i] /\ Overlap(o, p) /\ p.end <= o.end
      BY DEF OnlyOverlappedIsMissed
    <2>1. o.start < resume
      <3>1. o.start \in Nat
        BY OccurrenceFacts DEF TextInv
      <3>2. ~(o.start >= resume)
        BY DEF TextInv, Ahead
      <3> QED BY <3>1, <3>2 DEF TextInv
    <2>2. PICK p \in found : Overlap(o, p) /\ p.end <= o.end
      BY <2>1 DEF TextInv
    <2>3. PICK i \in DOMAIN signals : signals[i] = p.name
      BY <2>2 DEF TextInv
    <2> QED BY <2>2, <2>3
  <1> QED BY <1>1, TextInitInv, TextInvStep, PTL DEF TextSpec

-----------------------------------------------------------------------------
(* Bits and masks. *)

\* Quotient and remainder.
LEMMA Division ==
    ASSUME NEW x \in Nat, NEW m \in Nat, m >= 1
    PROVE  /\ x = m * (x \div m) + (x % m)
           /\ x \div m \in Nat /\ x % m \in Nat /\ x % m < m
           /\ x < m => x \div m = 0 /\ x % m = x
  OBVIOUS

\* There is only one way to divide.
LEMMA DivisionIsUnique ==
    ASSUME NEW m \in Nat, NEW q \in Nat, NEW r \in Nat, NEW p \in Nat, NEW s \in Nat,
           r < m, s < m, m * q + r = m * p + s
    PROVE  q = p /\ r = s
  <1>1. ASSUME NEW a \in Nat, NEW b \in Nat, NEW c \in Nat, NEW d \in Nat, a < b,
               c < m, m * a + c = m * b + d
        PROVE  FALSE
    <2>1. PICK e \in Nat : b = a + 1 + e
      <3>1. b - a - 1 \in Nat /\ b = a + 1 + (b - a - 1)
        BY <1>1
      <3> QED BY <3>1
    <2>2. m * b = m * a + m + m * e
      BY <2>1
    <2>3. m * e \in Nat /\ m * a \in Nat
      BY <2>1
    <2> QED BY <1>1, <2>2, <2>3
  <1>2. ~(q < p)
    BY <1>1
  <1>3. ~(p < q)
    <2>1. m * p + s = m * q + r
      OBVIOUS
    <2> QED BY <1>1, <2>1
  <1>4. q = p
    BY <1>2, <1>3
  <1> QED BY <1>4

\* The recursion of Pow2 has a solution, which Pow2 is.
LEMMA Powers ==
    /\ Pow2 \in [0..AddrBits -> Nat] /\ Pow2[0] = 1
    /\ \A n \in 1..AddrBits : Pow2[n] = 2 * Pow2[n - 1]
  <1> DEFINE N == AddrBits
             step == [a \in Nat \X (1..N) |-> 2 * a[1]]
  <1>1. AddrBits \in Nat
    BY BlacklistAssumption
  <1>2. step \in [Nat \X (1..N) -> Nat]
    OBVIOUS
  <1>3. PICK f : Recurses(f, Nat, 1, step, N)
    <2> HIDE DEF step
    <2> QED BY <1>1, <1>2, RecursionExists
  <1>4. f \in [0..N -> Nat] /\ f[0] = 1 /\ \A n \in 1..N : f[n] = 2 * f[n - 1]
    <2>1. /\ f \in [0..N -> Nat] /\ f[0] = 1
          /\ \A n \in 1..N : f[n] = step[<<f[n - 1], n>>]
      BY <1>3 DEF Recurses
    <2>2. \A n \in 1..N : f[n - 1] \in Nat
      BY <1>1, <2>1
    <2>3. \A n \in 1..N : step[<<f[n - 1], n>>] = 2 * f[n - 1]
      BY <2>2
    <2> QED BY <2>1, <2>3
  <1>5. f = [n \in 0..N |-> IF n = 0 THEN 1 ELSE 2 * f[n - 1]]
    <2>1. \A n \in 0..N : f[n] = IF n = 0 THEN 1 ELSE 2 * f[n - 1]
      BY <1>1, <1>4
    <2> QED BY <1>4, <2>1
  <1>6. Pow2 = [n \in 0..N |-> IF n = 0 THEN 1 ELSE 2 * Pow2[n - 1]]
    BY <1>5, Zenon DEF Pow2
  <1> DEFINE Done == {k \in Nat : k <= N => Pow2[k] = f[k]}
  <1>7. 0 \in Done
    BY <1>1, <1>4, <1>6
  <1>8. \A n \in Nat : n \in Done => n + 1 \in Done
    <2> SUFFICES ASSUME NEW n \in Nat, n \in Done, n + 1 <= N PROVE Pow2[n + 1] = f[n + 1]
      OBVIOUS
    <2>1. Pow2[n] = f[n]
      BY <1>1
    <2>2. n + 1 \in 0..N /\ n + 1 \in 1..N /\ n + 1 # 0 /\ (n + 1) - 1 = n
      BY <1>1
    <2>3. Pow2[n + 1] = 2 * Pow2[n]
      BY <1>6, <2>2
    <2>4. f[n + 1] = 2 * f[n]
      BY <1>4, <2>2
    <2> QED BY <2>1, <2>3, <2>4
  <1>9. \A n \in Nat : n \in Done
    <2> HIDE DEF Done
    <2> QED BY <1>7, <1>8, SetInduction
  <1>10. \A n \in 0..N : Pow2[n] = f[n]
    BY <1>1, <1>9
  <1>11. Pow2 = f
    <2>1. DOMAIN Pow2 = 0..N /\ Pow2 = [n \in DOMAIN Pow2 |-> Pow2[n]]
      BY <1>6
    <2> QED BY <1>4, <1>10, <2>1
  <1> QED BY <1>4, <1>11

\* No power is zero.
LEMMA PowersArePositive == \A n \in 0..AddrBits : Pow2[n] \in Nat /\ Pow2[n] >= 1
  <1>1. AddrBits \in Nat
    BY BlacklistAssumption
  <1> DEFINE Done == {k \in Nat : k <= AddrBits => Pow2[k] >= 1}
  <1>2. 0 \in Done
    BY Powers
  <1>3. \A n \in Nat : n \in Done => n + 1 \in Done
    <2> SUFFICES ASSUME NEW n \in Nat, n \in Done, n + 1 <= AddrBits PROVE Pow2[n + 1] >= 1
      OBVIOUS
    <2>1. Pow2[n] >= 1 /\ Pow2[n] \in Nat
      BY <1>1, Powers
    <2>2. Pow2[n + 1] = 2 * Pow2[n]
      <3>1. n + 1 \in 1..AddrBits /\ (n + 1) - 1 = n
        BY <1>1
      <3> QED BY <3>1, Powers
    <2> QED BY <2>1, <2>2
  <1>4. \A n \in Nat : n \in Done
    <2> HIDE DEF Done
    <2> QED BY <1>2, <1>3, SetInduction
  <1> QED BY <1>1, <1>4, Powers

Bit(x, k) == (x \div Pow2[k]) % 2

\* What is left of x above bit k is twice what is left above the next, and
\* the bit.
LEMMA OneBit ==
    ASSUME NEW x \in Nat, NEW k \in 0..(AddrBits - 1)
    PROVE  /\ x \div Pow2[k] = 2 * (x \div Pow2[k + 1]) + Bit(x, k)
           /\ Bit(x, k) \in {0, 1}
           /\ x \div Pow2[k] \in Nat /\ x \div Pow2[k + 1] \in Nat
  <1>1. AddrBits \in Nat
    BY BlacklistAssumption
  <1> DEFINE m == Pow2[k]
             n == Pow2[k + 1]
  <1>2. m \in Nat /\ m >= 1 /\ n \in Nat /\ n >= 1 /\ n = 2 * m
    <2>1. k + 1 \in 1..AddrBits /\ (k + 1) - 1 = k /\ k \in 0..AddrBits /\ k + 1 \in 0..AddrBits
      BY <1>1
    <2>2. n = 2 * m
      BY <2>1, Powers
    <2> QED BY <2>1, <2>2, PowersArePositive
  <1> DEFINE q == x \div m
             r == x % m
             h == q \div 2
             b == q % 2
             g == x \div n
             s == x % n
  <1>3. x = m * q + r /\ q \in Nat /\ r \in Nat /\ r < m
    <2> HIDE DEF m
    <2> QED BY <1>2, Division
  <1>4. x = n * g + s /\ g \in Nat /\ s \in Nat /\ s < n
    <2> HIDE DEF n
    <2> QED BY <1>2, Division
  <1>5. q = 2 * h + b /\ h \in Nat /\ b \in {0, 1}
    <2> HIDE DEF q
    <2> QED BY <1>3
  <1> HIDE DEF m, n, q, r, h, b, g, s
  <1>6. m * q = n * h + m * b
    <2>1. m * q = m * (2 * h) + m * b
      BY <1>2, <1>5
    <2>2. m * (2 * h) = (2 * m) * h
      BY <1>2, <1>5
    <2> QED BY <1>2, <2>1, <2>2
  <1>7. m * b + r \in Nat /\ m * b + r < n
    <2>1. CASE b = 0
      BY <1>2, <1>3, <2>1
    <2>2. CASE b = 1
      BY <1>2, <1>3, <2>2
    <2> QED BY <1>5, <2>1, <2>2
  <1>8. n * h + (m * b + r) = n * g + s
    <2>1. m * q \in Nat /\ n * h \in Nat /\ m * b \in Nat /\ n * g \in Nat
      BY <1>2, <1>3, <1>4, <1>5
    <2> QED BY <1>3, <1>4, <1>6, <2>1
  <1>9. h = g
    <2> DEFINE t == m * b + r
    <2>1. t \in Nat /\ t < n /\ n * h + t = n * g + s
      BY <1>7, <1>8
    <2> HIDE DEF t
    <2> QED BY <1>2, <1>4, <1>5, <2>1, DivisionIsUnique
  <1>10. q = 2 * g + b /\ b \in {0, 1} /\ q \in Nat /\ g \in Nat
    BY <1>3, <1>4, <1>5, <1>9
  <1> QED BY <1>10 DEF Bit, q, g, b, m, n

\* The bits from k on agree, and what is left above k does: the same thing.
BitsAgree(x, y, k) == \A bit \in k..(AddrBits - 1) : Bit(x, bit) = Bit(y, bit)

\* By induction from the highest bit down.
LEMMA BitsAreTheQuotient ==
    ASSUME NEW x \in Addresses, NEW y \in Addresses, NEW k \in 0..AddrBits
    PROVE  BitsAgree(x, y, k) <=> x \div Pow2[k] = y \div Pow2[k]
  <1>1. AddrBits \in Nat
    BY BlacklistAssumption
  <1>2. x \in Nat /\ y \in Nat /\ x < Pow2[AddrBits] /\ y < Pow2[AddrBits]
        /\ Pow2[AddrBits] \in Nat /\ Pow2[AddrBits] >= 1
    <2>1. Pow2[AddrBits] \in Nat /\ Pow2[AddrBits] >= 1
      BY <1>1, PowersArePositive
    <2> QED BY <2>1 DEF Addresses
  <1> DEFINE Same(j) == BitsAgree(x, y, AddrBits - j)
                            <=> x \div Pow2[AddrBits - j] = y \div Pow2[AddrBits - j]
             Done == {j \in Nat : j <= AddrBits => Same(j)}
  <1>3. 0 \in Done
    <2>1. AddrBits - 0 = AddrBits
      BY <1>1
    <2>2. BitsAgree(x, y, AddrBits)
      BY <1>1 DEF BitsAgree
    <2>3. x \div Pow2[AddrBits] = 0 /\ y \div Pow2[AddrBits] = 0
      <3> DEFINE p == Pow2[AddrBits]
      <3>1. p \in Nat /\ p >= 1 /\ x < p /\ y < p
        BY <1>2
      <3> HIDE DEF p
      <3>2. x \div p = 0 /\ y \div p = 0
        BY <1>2, <3>1, Division
      <3> QED BY <3>2 DEF p
    <2> QED BY <1>1, <2>1, <2>2, <2>3
  <1>4. \A j \in Nat : j \in Done => j + 1 \in Done
    <2> SUFFICES ASSUME NEW j \in Nat, j \in Done, j + 1 <= AddrBits PROVE Same(j + 1)
      OBVIOUS
    <2> DEFINE n == AddrBits - (j + 1)
    <2>1. n \in 0..(AddrBits - 1) /\ n + 1 = AddrBits - j /\ n \in Nat
      BY <1>1
    <2>2. BitsAgree(x, y, n + 1) <=> x \div Pow2[n + 1] = y \div Pow2[n + 1]
      BY <1>1, <2>1
    <2> HIDE DEF n
    <2>3. BitsAgree(x, y, n) <=> BitsAgree(x, y, n + 1) /\ Bit(x, n) = Bit(y, n)
      <3>1. \A bit : bit \in n..(AddrBits - 1) <=> bit = n \/ bit \in (n + 1)..(AddrBits - 1)
        BY <1>1, <2>1
      <3> QED BY <3>1, Zenon DEF BitsAgree
    <2>4. /\ x \div Pow2[n] = 2 * (x \div Pow2[n + 1]) + Bit(x, n) /\ Bit(x, n) \in {0, 1}
          /\ x \div Pow2[n + 1] \in Nat
      BY <1>2, <2>1, OneBit
    <2>5. /\ y \div Pow2[n] = 2 * (y \div Pow2[n + 1]) + Bit(y, n) /\ Bit(y, n) \in {0, 1}
          /\ y \div Pow2[n + 1] \in Nat
      BY <1>2, <2>1, OneBit
    <2>6. x \div Pow2[n] = y \div Pow2[n]
             <=> x \div Pow2[n + 1] = y \div Pow2[n + 1] /\ Bit(x, n) = Bit(y, n)
      <3> DEFINE a == x \div Pow2[n + 1]
                 c == Bit(x, n)
                 d == y \div Pow2[n + 1]
                 e == Bit(y, n)
      <3>1. a \in Nat /\ d \in Nat /\ c \in {0, 1} /\ e \in {0, 1}
        BY <2>4, <2>5
      <3> HIDE DEF a, c, d, e
      <3>2. 2 * a + c = 2 * d + e <=> a = d /\ c = e
        BY <3>1
      <3> QED BY <2>4, <2>5, <3>2 DEF a, c, d, e
    <2> QED BY <2>2, <2>3, <2>6 DEF n
  <1>5. \A j \in Nat : j \in Done
    <2> HIDE DEF Done
    <2> QED BY <1>3, <1>4, SetInduction
  <1>6. Same(AddrBits - k)
    <2>1. AddrBits - k \in Nat /\ AddrBits - k <= AddrBits
      BY <1>1
    <2> HIDE DEF Same
    <2> QED BY <1>5, <2>1
  <1>7. AddrBits - (AddrBits - k) = k
    BY <1>1
  <1> QED BY <1>6, <1>7

\* x & mask keeps exactly the first `prefix` bits.
LEMMA MaskKeepsPrefix ==
    ASSUME NEW x \in Addresses, NEW y \in Addresses, NEW prefix \in Nat, prefix <= AddrBits
    PROVE  Masked(x, prefix) = Masked(y, prefix) <=> BitsAgree(x, y, AddrBits - prefix)
  <1>1. AddrBits \in Nat
    BY BlacklistAssumption
  <1>2. CASE prefix = 0
    <2>1. BitsAgree(x, y, AddrBits - prefix)
      BY <1>1, <1>2 DEF BitsAgree
    <2> QED BY <1>2, <2>1 DEF Masked
  <1>3. CASE prefix # 0
    <2> DEFINE k == AddrBits - prefix
               m == Pow2[k]
    <2>1. k \in Nat /\ k < AddrBits /\ k \in 0..AddrBits
      BY <1>1, <1>3
    <2>2. MaskShift(prefix) = k
      BY <1>1, <2>1, Division DEF MaskShift
    <2>3. m \in Nat /\ m >= 1
      BY <2>1, PowersArePositive
    <2>4. x \in Nat /\ y \in Nat
      BY <1>1, PowersArePositive DEF Addresses
    <2>5. Masked(x, prefix) = x - (x % m) /\ Masked(y, prefix) = y - (y % m)
      BY <1>3, <2>2 DEF Masked
    <2>6. BitsAgree(x, y, k) <=> x \div m = y \div m
      BY <2>1, BitsAreTheQuotient
    <2> HIDE DEF k, m
    <2> DEFINE q == x \div m
               p == y \div m
    <2>7. /\ x - (x % m) = m * q /\ q \in Nat
          /\ y - (y % m) = m * p /\ p \in Nat
      <3>1. /\ x = m * q + (x % m) /\ q \in Nat /\ x % m \in Nat
            /\ y = m * p + (y % m) /\ p \in Nat /\ y % m \in Nat
        BY <2>3, <2>4, Division
      <3>2. m * q \in Nat /\ m * p \in Nat
        BY <2>3, <3>1
      <3> HIDE DEF q, p
      <3> QED BY <3>1, <3>2
    <2> HIDE DEF q, p
    <2>8. m * q = m * p <=> q = p
      <3>1. m * q = m * p => q = p
        <4>1. m * q + 0 = m * q /\ m * p + 0 = m * p
          BY <2>3, <2>7
        <4> QED BY <2>3, <2>7, <4>1, DivisionIsUnique
      <3> QED BY <3>1
    <2> QED BY <2>5, <2>6, <2>7, <2>8 DEF k, q, p
  <1> QED BY <1>2, <1>3

-----------------------------------------------------------------------------
(* The blacklist. *)

\* What the sets find for a line; Denotes is what the line says.
Matches(line, ip) ==
    \/ line.kind = "ip" /\ ip = line.ip
    \/ line.kind = "cidr" /\ Covers(from_cidr(line), ip)

\* The fields of a line.
LEMMA LineType ==
    ASSUME NEW line \in IpLines
    PROVE  line.ip \in Addresses /\ line.prefix \in Nat
  <1>1. line \in [kind : {"skip", "ip", "cidr"}, ip : Addresses, prefix : Nat]
    BY BlacklistAssumption
  <1> QED BY <1>1

\* What a line stands for is found, and no more if its prefix is not too long.
LEMMA DenotedMatches ==
    ASSUME NEW line \in IpLines, NEW ip \in Addresses
    PROVE  /\ Denotes(line, ip) => Matches(line, ip)
           /\ Matches(line, ip) /\ (line.kind = "cidr" => line.prefix <= AddrBits)
                 => Denotes(line, ip)
  <1>1. line.ip \in Addresses /\ line.prefix \in Nat
    BY LineType
  <1>2. ASSUME line.prefix <= AddrBits
        PROVE  Covers(from_cidr(line), ip) <=> BitsAgree(ip, line.ip, AddrBits - line.prefix)
    <2>1. Covers(from_cidr(line), ip) <=> Masked(ip, line.prefix) = Masked(line.ip, line.prefix)
      BY DEF Covers, from_cidr
    <2> QED BY <1>1, <1>2, <2>1, MaskKeepsPrefix
  <1>3. Denotes(line, ip) <=>
           \/ line.kind = "ip" /\ ip = line.ip
           \/ line.kind = "cidr" /\ line.prefix <= AddrBits
                /\ BitsAgree(ip, line.ip, AddrBits - line.prefix)
    BY DEF Denotes, BitsAgree, Bit
  <1> QED BY <1>2, <1>3, Zenon DEF Matches

ListType ==
    /\ ipList \in Seq(IpLines) /\ loaded \subseteq IpLines
    /\ loadPc \in {"line", "exact"}
    /\ check \in [Checkers -> [ip : Addresses, before : SUBSET IpLines,
                               pc : {"outside", "exact", "cidrs", "signal", "none"}]]

\* The filter has the address that is to go into the exact set.
HalfAdded ==
    loadPc = "exact" =>
        /\ ipList # <<>> /\ Head(ipList).kind = "ip"
        /\ BloomBits[Head(ipList).ip] \subseteq ip_bloom

\* The sets have what was loaded, and the exact set and the ranges no more.
SetsAreLoaded ==
    /\ \A line \in loaded : line.kind = "ip" =>
          line.ip \in ip_exact /\ BloomBits[line.ip] \subseteq ip_bloom
    /\ \A line \in loaded : line.kind = "cidr" => from_cidr(line) \in ip_cidrs
    /\ \A ip \in ip_exact : \E line \in loaded : line.kind = "ip" /\ ip = line.ip
    /\ \A c \in ip_cidrs : \E line \in loaded : line.kind = "cidr" /\ c = from_cidr(line)

\* What a check has found out at its step.
CheckSound(c, done) ==
    /\ c.before \subseteq done
    /\ c.pc = "cidrs" => \A line \in c.before : ~(line.kind = "ip" /\ c.ip = line.ip)
    /\ c.pc = "none" => \A line \in c.before : ~Matches(line, c.ip)
    /\ c.pc = "signal" => \E line \in done : Matches(line, c.ip)

DomainsAreNamed == \A d \in named : Canonical[d] \in domains

ListInv ==
    /\ ListType /\ HalfAdded /\ SetsAreLoaded /\ DomainsAreNamed
    /\ \A w \in Checkers : CheckSound(check[w], loaded)

\* More lines loaded take nothing back.
LEMMA CheckSoundLater ==
    ASSUME NEW c, NEW done, NEW more, done \subseteq more, CheckSound(c, done)
    PROVE  CheckSound(c, more)
  BY DEF CheckSound

\* A worker outside check_ip.
LEMMA NotCheckingType ==
    NotChecking \in [ip : Addresses, before : SUBSET IpLines,
                     pc : {"outside", "exact", "cidrs", "signal", "none"}]
  <1>1. AddrBits \in 0..AddrBits
    BY BlacklistAssumption
  <1>2. 0 \in Addresses
    <2>1. Pow2[AddrBits] \in Nat /\ Pow2[AddrBits] >= 1
      BY <1>1, PowersArePositive
    <2> QED BY <2>1 DEF Addresses
  <1> QED BY <1>2 DEF NotChecking

\* Nothing is loaded at the start.
LEMMA ListInitInv == ListInit => ListInv
  <1> SUFFICES ASSUME ListInit PROVE ListInv
    OBVIOUS
  <1>1. ipList \in Seq(IpLines)
    <2>1. PICK n \in 0..MaxLines : ipList \in [1..n -> IpLines]
      BY DEF ListInit
    <2> QED BY <2>1, BlacklistAssumption
  <1>2. ListType
    BY <1>1, NotCheckingType DEF ListType, ListInit
  <1>3. HalfAdded /\ SetsAreLoaded /\ DomainsAreNamed
    BY DEF HalfAdded, SetsAreLoaded, DomainsAreNamed, ListInit
  <1>4. \A w \in Checkers : CheckSound(check[w], loaded)
    BY DEF CheckSound, ListInit, NotChecking
  <1> QED BY <1>2, <1>3, <1>4 DEF ListInv

\* The loader's steps: each ends with the line at the head, or is in its middle.
LEMMA LoaderStep ==
    ASSUME ListInv, LoadSkip \/ AddCidr \/ AddIpBloom \/ AddIpExact
    PROVE  ListInv'
  <1>1. check' = check /\ domains' = domains /\ named' = named
    BY DEF LoadSkip, AddCidr, AddIpBloom, AddIpExact
  <1>2. DomainsAreNamed'
    BY <1>1 DEF ListInv, DomainsAreNamed
  <1>3. ipList # <<>> /\ ipList \in Seq(IpLines)
    BY DEF ListInv, ListType, HalfAdded, LoadSkip, AddCidr, AddIpBloom, AddIpExact
  <1> DEFINE h == Head(ipList)
  <1>4. h \in IpLines /\ Tail(ipList) \in Seq(IpLines)
    BY <1>3
  <1> HIDE DEF h
  <1>5. ASSUME NextLine PROVE ListType' /\ HalfAdded' /\ loaded' = loaded \cup {h}
    <2>1. ipList' = Tail(ipList) /\ loaded' = loaded \cup {h} /\ loadPc' = "line"
      BY <1>5 DEF NextLine, h
    <2> QED BY <1>1, <1>4, <2>1 DEF ListInv, ListType, HalfAdded
  <1>6. ASSUME loaded \subseteq loaded' PROVE \A w \in Checkers : CheckSound(check'[w], loaded')
    BY <1>1, <1>6, CheckSoundLater DEF ListInv
  <1>7. CASE LoadSkip
    <2>1. /\ h.kind = "skip" /\ NextLine
          /\ ip_bloom' = ip_bloom /\ ip_exact' = ip_exact /\ ip_cidrs' = ip_cidrs
      BY <1>7 DEF LoadSkip, h
    <2>2. SetsAreLoaded'
      BY <1>5, <2>1 DEF ListInv, SetsAreLoaded
    <2> QED BY <1>2, <1>5, <1>6, <2>1, <2>2 DEF ListInv
  <1>8. CASE AddCidr
    <2>1. /\ h.kind = "cidr" /\ NextLine
          /\ ip_bloom' = ip_bloom /\ ip_exact' = ip_exact
          /\ ip_cidrs' = ip_cidrs \cup {from_cidr(h)}
      BY <1>8 DEF AddCidr, h
    <2>2. SetsAreLoaded'
      BY <1>5, <2>1 DEF ListInv, SetsAreLoaded
    <2> QED BY <1>2, <1>5, <1>6, <2>1, <2>2 DEF ListInv
  <1>9. CASE AddIpBloom
    <2>1. /\ h.kind = "ip" /\ ip_bloom' = ip_bloom \cup BloomBits[h.ip]
          /\ loadPc' = "exact" /\ ip_exact' = ip_exact /\ ip_cidrs' = ip_cidrs
          /\ ipList' = ipList /\ loaded' = loaded
      BY <1>9 DEF AddIpBloom, h
    <2>2. SetsAreLoaded'
      BY <2>1 DEF ListInv, SetsAreLoaded
    <2>3. ListType' /\ HalfAdded'
      BY <1>1, <1>3, <2>1 DEF ListInv, ListType, HalfAdded, h
    <2> QED BY <1>2, <1>6, <2>1, <2>2, <2>3 DEF ListInv
  <1>10. CASE AddIpExact
    <2>1. /\ loadPc = "exact" /\ NextLine
          /\ ip_bloom' = ip_bloom /\ ip_exact' = ip_exact \cup {h.ip} /\ ip_cidrs' = ip_cidrs
      BY <1>10 DEF AddIpExact, h
    <2>2. h.kind = "ip" /\ BloomBits[h.ip] \subseteq ip_bloom
      BY <2>1 DEF ListInv, HalfAdded, h
    <2>3. SetsAreLoaded'
      BY <1>5, <2>1, <2>2 DEF ListInv, SetsAreLoaded
    <2> QED BY <1>2, <1>5, <1>6, <2>1, <2>3 DEF ListInv
  <1> QED BY <1>7, <1>8, <1>9, <1>10

\* A step of worker w that leaves it with c.
LEMMA CheckStep ==
    ASSUME ListInv, NEW w \in Checkers, NEW c,
           c \in [ip : Addresses, before : SUBSET IpLines,
                  pc : {"outside", "exact", "cidrs", "signal", "none"}],
           CheckSound(c, loaded),
           check' = [check EXCEPT ![w] = c],
           UNCHANGED <<ip_bloom, ip_exact, ip_cidrs, domains, ipList, loadPc, loaded, named>>
    PROVE  ListInv'
  <1>1. ListType'
    BY DEF ListInv, ListType
  <1>2. HalfAdded' /\ SetsAreLoaded' /\ DomainsAreNamed'
    BY DEF ListInv, HalfAdded, SetsAreLoaded, DomainsAreNamed
  <1>3. \A v \in Checkers : check'[v] = IF v = w THEN c ELSE check[v]
    BY DEF ListInv, ListType
  <1>4. \A v \in Checkers : CheckSound(check'[v], loaded')
    BY <1>3, Zenon DEF ListInv
  <1> QED BY <1>1, <1>2, <1>4 DEF ListInv

\* The steps of check_ip.
LEMMA CheckerStep ==
    ASSUME ListInv, NEW w \in Checkers,
           \/ \E ip \in Addresses : CheckBloom(w, ip)
           \/ CheckExact(w) \/ CheckCidrs(w) \/ CheckDone(w)
    PROVE  ListInv'
  <1> DEFINE CheckType == [ip : Addresses, before : SUBSET IpLines,
                           pc : {"outside", "exact", "cidrs", "signal", "none"}]
  <1>1. check \in [Checkers -> CheckType] /\ check[w] \in CheckType
        /\ CheckSound(check[w], loaded) /\ loaded \subseteq IpLines
    BY DEF ListInv, ListType
  <1>2. check[w].ip \in Addresses /\ check[w].before \subseteq IpLines
    BY <1>1
  <1>3. ASSUME NEW ip \in Addresses, CheckBloom(w, ip) PROVE ListInv'
    <2> DEFINE c == [ip |-> ip, before |-> loaded,
                     pc |-> IF BloomBits[ip] \subseteq ip_bloom THEN "exact" ELSE "cidrs"]
    <2>1. c \in CheckType /\ c.ip = ip /\ c.before = loaded
          /\ c.pc = IF BloomBits[ip] \subseteq ip_bloom THEN "exact" ELSE "cidrs"
      BY <1>1
    <2>2. CheckSound(c, loaded)
      <3> HIDE DEF c
      <3> QED BY <2>1 DEF CheckSound, ListInv, SetsAreLoaded
    <2>3. /\ check' = [check EXCEPT ![w] = c]
          /\ UNCHANGED <<ip_bloom, ip_exact, ip_cidrs, domains, ipList, loadPc, loaded, named>>
      BY <1>3 DEF CheckBloom
    <2> HIDE DEF c
    <2> QED BY <2>1, <2>2, <2>3, CheckStep
  <1>4. ASSUME NEW pc \in {"cidrs", "signal", "none"}, Goes(w, pc),
               pc = "cidrs" => \A line \in check[w].before :
                                  ~(line.kind = "ip" /\ check[w].ip = line.ip),
               pc = "none" => \A line \in check[w].before : ~Matches(line, check[w].ip),
               pc = "signal" => \E line \in loaded : Matches(line, check[w].ip)
        PROVE  ListInv'
    <2> DEFINE c == [check[w] EXCEPT !.pc = pc]
    <2>1. c \in CheckType /\ c.ip = check[w].ip /\ c.before = check[w].before /\ c.pc = pc
      BY <1>1
    <2>2. /\ check' = [check EXCEPT ![w] = c]
          /\ UNCHANGED <<ip_bloom, ip_exact, ip_cidrs, domains, ipList, loadPc, loaded, named>>
      BY <1>4 DEF Goes
    <2> HIDE DEF c
    <2>3. CheckSound(c, loaded)
      BY <1>1, <1>4, <2>1 DEF CheckSound
    <2> QED BY <2>1, <2>2, <2>3, CheckStep
  <1>5. CASE CheckExact(w)
    <2>1. check[w].pc = "exact" /\ check[w].before \subseteq loaded
      BY <1>1, <1>5 DEF CheckExact, CheckSound
    <2>2. CASE check[w].ip \in ip_exact
      <3>1. Goes(w, "signal")
        BY <1>5, <2>2 DEF CheckExact
      <3>2. \E line \in loaded : Matches(line, check[w].ip)
        BY <2>2 DEF ListInv, SetsAreLoaded, Matches
      <3> QED BY <1>4, <3>1, <3>2
    <2>3. CASE check[w].ip \notin ip_exact
      <3>1. Goes(w, "cidrs")
        BY <1>5, <2>3 DEF CheckExact
      <3>2. \A line \in check[w].before : ~(line.kind = "ip" /\ check[w].ip = line.ip)
        BY <2>1, <2>3 DEF ListInv, SetsAreLoaded
      <3> QED BY <1>4, <3>1, <3>2
    <2> QED BY <2>2, <2>3
  <1>6. CASE CheckCidrs(w)
    <2>1. /\ check[w].pc = "cidrs" /\ check[w].before \subseteq loaded
          /\ \A line \in check[w].before : ~(line.kind = "ip" /\ check[w].ip = line.ip)
      BY <1>1, <1>6 DEF CheckCidrs, CheckSound
    <2>2. CASE \E c \in ip_cidrs : Covers(c, check[w].ip)
      <3>1. Goes(w, "signal")
        BY <1>6, <2>2 DEF CheckCidrs
      <3>2. \E line \in loaded : Matches(line, check[w].ip)
        BY <2>2 DEF ListInv, SetsAreLoaded, Matches
      <3> QED BY <1>4, <3>1, <3>2
    <2>3. CASE ~\E c \in ip_cidrs : Covers(c, check[w].ip)
      <3>1. Goes(w, "none")
        BY <1>6, <2>3 DEF CheckCidrs
      <3>2. \A line \in check[w].before : ~Matches(line, check[w].ip)
        BY <2>1, <2>3 DEF ListInv, SetsAreLoaded, Matches
      <3> QED BY <1>4, <3>1, <3>2
    <2> QED BY <2>2, <2>3
  <1>7. CASE CheckDone(w)
    <2>1. /\ check' = [check EXCEPT ![w] = NotChecking]
          /\ UNCHANGED <<ip_bloom, ip_exact, ip_cidrs, domains, ipList, loadPc, loaded, named>>
      BY <1>7 DEF CheckDone
    <2>2. CheckSound(NotChecking, loaded)
      BY DEF CheckSound, NotChecking
    <2> QED BY <2>1, <2>2, NotCheckingType, CheckStep
  <1> QED BY <1>3, <1>5, <1>6, <1>7

\* Every step of the loader and of the workers keeps ListInv.
LEMMA ListInvStep == ListInv /\ [ListNext]_listVars => ListInv'
  <1> SUFFICES ASSUME ListInv, [ListNext]_listVars PROVE ListInv'
    OBVIOUS
  <1>1. CASE LoadSkip \/ AddCidr \/ AddIpBloom \/ AddIpExact
    BY <1>1, LoaderStep
  <1>2. ASSUME NEW d \in Domains, AddDomain(d) PROVE ListInv'
    <2>1. /\ domains' = domains \cup {Canonical[d]} /\ named' = named \cup {d}
          /\ UNCHANGED <<ip_bloom, ip_exact, ip_cidrs, ipList, loadPc, loaded, check>>
      BY <1>2 DEF AddDomain
    <2>2. DomainsAreNamed'
      BY <2>1 DEF ListInv, DomainsAreNamed
    <2>3. ListType' /\ HalfAdded' /\ SetsAreLoaded'
          /\ \A w \in Checkers : CheckSound(check'[w], loaded')
      BY <2>1 DEF ListInv, ListType, HalfAdded, SetsAreLoaded
    <2> QED BY <2>2, <2>3 DEF ListInv
  <1>3. ASSUME NEW w \in Checkers,
               \/ \E ip \in Addresses : CheckBloom(w, ip)
               \/ CheckExact(w) \/ CheckCidrs(w) \/ CheckDone(w)
        PROVE  ListInv'
    BY <1>3, CheckerStep
  <1>4. CASE UNCHANGED listVars
    <2>1. UNCHANGED <<ip_bloom, ip_exact, ip_cidrs, domains, ipList, loadPc, loaded, named, check>>
      BY <1>4 DEF listVars
    <2>2. ListType' /\ HalfAdded' /\ SetsAreLoaded' /\ DomainsAreNamed'
          /\ \A w \in Checkers : CheckSound(check'[w], loaded')
      BY <2>1 DEF ListInv, ListType, HalfAdded, SetsAreLoaded, DomainsAreNamed
    <2> QED BY <2>2 DEF ListInv
  <1> QED BY <1>1, <1>2, <1>3, <1>4 DEF ListNext

\* ListInv holds in every state.
LEMMA ListInvariant == ListSpec => []ListInv
  <1> QED BY ListInitInv, ListInvStep, PTL DEF ListSpec

(***************************************************************************)
(* Whatever is in the list and whatever the loader adds meanwhile, an      *)
(* address that a line loaded before check_ip began stands for does not    *)
(* come out unlisted (blacklist.rs:73-95, 114-117).                        *)
(***************************************************************************)
THEOREM NothingListedIsMissed == ListSpec => [](\A w \in Checkers : MissesNothing(check[w]))
  <1>1. ListInv => \A w \in Checkers : MissesNothing(check[w])
    <2> SUFFICES ASSUME ListInv, NEW w \in Checkers, check[w].pc = "none",
                        NEW line \in check[w].before
                 PROVE  ~Denotes(line, check[w].ip)
      BY DEF MissesNothing
    <2>1. check[w] \in [ip : Addresses, before : SUBSET IpLines,
                        pc : {"outside", "exact", "cidrs", "signal", "none"}]
      BY DEF ListInv, ListType
    <2>2. check[w].ip \in Addresses /\ line \in IpLines
      BY <2>1
    <2>3. ~Matches(line, check[w].ip)
      BY DEF ListInv, CheckSound
    <2> QED BY <2>2, <2>3, DenotedMatches
  <1> QED BY <1>1, ListInvariant, PTL

(***************************************************************************)
(* If no prefix of the list is longer than an address, check_ip signals    *)
(* just the addresses that the lines stand for, and check_domain finds a   *)
(* domain under every spelling (blacklist.rs:23-36, 73-130).               *)
(***************************************************************************)
THEOREM CheckIsTheList ==
    ASSUME \A line \in IpLines : line.kind = "cidr" => line.prefix <= AddrBits
    PROVE  ListSpec => []CheckAgreesWithList
  <1>1. ListInv /\ (\A w \in Checkers : MissesNothing(check[w])) => CheckAgreesWithList
    <2> SUFFICES ASSUME ListInv, \A w \in Checkers : MissesNothing(check[w])
                 PROVE  CheckAgreesWithList
      OBVIOUS
    <2>1. ASSUME NEW w \in Checkers, check[w].pc = "signal"
          PROVE  \E line \in loaded : Denotes(line, check[w].ip)
      <3>1. check[w] \in [ip : Addresses, before : SUBSET IpLines,
                          pc : {"outside", "exact", "cidrs", "signal", "none"}]
        BY DEF ListInv, ListType
      <3>2. check[w].ip \in Addresses /\ loaded \subseteq IpLines
        BY <3>1 DEF ListInv, ListType
      <3>3. PICK line \in loaded : Matches(line, check[w].ip)
        BY <2>1 DEF ListInv, CheckSound
      <3> QED BY <3>2, <3>3, DenotedMatches
    <2>2. \A d \in named, e \in Domains : Canonical[e] = Canonical[d] => check_domain(e)
      BY DEF ListInv, DomainsAreNamed, check_domain
    <2> QED BY <2>1, <2>2 DEF CheckAgreesWithList, FindsNoOther
  <1> QED BY <1>1, ListInvariant, NothingListedIsMissed, PTL

-----------------------------------------------------------------------------
(* The labels as they are sent. *)

\* What the recursion of Wire says of the first n labels, and with types.
Sent(ls, f) ==
    f = [n \in 0..Len(ls) |-> IF n = 0 THEN <<>> ELSE f[n - 1] \o (<<Len(ls[n])>> \o ls[n])]

SentParts(ls, f) ==
    /\ f \in [0..Len(ls) -> Seq(Nat)]
    /\ f[0] = <<>>
    /\ \A n \in 1..Len(ls) : f[n] = f[n - 1] \o (<<Len(ls[n])>> \o ls[n])

\* The recursion of Wire has a solution.
LEMMA WireByParts ==
    ASSUME NEW ls \in Seq(Seq(Nat))
    PROVE  \E f : SentParts(ls, f) /\ Wire(ls) = f[Len(ls)]
  <1> DEFINE one == [n \in 1..Len(ls) |-> <<Len(ls[n])>> \o ls[n]]
             step == [a \in Seq(Nat) \X (1..Len(ls)) |-> a[1] \o one[a[2]]]
             f == CHOOSE h : Sent(ls, h)
  <1>1. Len(ls) \in Nat /\ \A n \in 1..Len(ls) : one[n] \in Seq(Nat)
    <2>1. \A n \in 1..Len(ls) : ls[n] \in Seq(Nat) /\ Len(ls[n]) \in Nat
      OBVIOUS
    <2>2. \A n \in 1..Len(ls) : <<Len(ls[n])>> \in Seq(Nat)
      BY <2>1
    <2>3. \A n \in 1..Len(ls) : <<Len(ls[n])>> \o ls[n] \in Seq(Nat)
      BY <2>1, <2>2
    <2> QED BY <2>3
  <1>2. \A n \in 1..Len(ls) : one[n] = <<Len(ls[n])>> \o ls[n]
    BY Zenon
  <1> HIDE DEF one
  <1>3. PICK g : Recurses(g, Seq(Nat), <<>>, step, Len(ls))
    <2>1. step \in [Seq(Nat) \X (1..Len(ls)) -> Seq(Nat)]
      BY <1>1
    <2>2. <<>> \in Seq(Nat)
      OBVIOUS
    <2> HIDE DEF step
    <2> QED BY <1>1, <2>1, <2>2, RecursionExists
  <1>4. Sent(ls, g)
    <2>1. g \in [0..Len(ls) -> Seq(Nat)] /\ g[0] = <<>>
      BY <1>3 DEF Recurses
    <2>2. ASSUME NEW n \in 1..Len(ls)
          PROVE  g[n] = g[n - 1] \o one[n]
      <3>1. g[n] = step[<<g[n - 1], n>>]
        BY <1>3 DEF Recurses
      <3>2. g[n - 1] \in Seq(Nat)
        <4>1. n - 1 \in 0..Len(ls)
          BY <1>1
        <4> QED BY <2>1, <4>1
      <3> QED BY <3>1, <3>2
    <2>3. \A n \in 0..Len(ls) :
             g[n] = IF n = 0 THEN <<>> ELSE g[n - 1] \o (<<Len(ls[n])>> \o ls[n])
      <3>1. \A n \in 0..Len(ls) : n = 0 \/ n \in 1..Len(ls)
        BY <1>1
      <3> QED BY <1>2, <2>1, <2>2, <3>1, Zenon
    <2> QED BY <2>1, <2>3 DEF Sent
  <1>5. Sent(ls, f)
    BY <1>4
  <1>6. Wire(ls) = f[Len(ls)]
    BY DEF Wire, Sent
  <1> HIDE DEF f
  <1>7. /\ f[0] = <<>>
        /\ \A n \in 1..Len(ls) : f[n] = f[n - 1] \o (<<Len(ls[n])>> \o ls[n])
    <2>1. \A n \in 0..Len(ls) :
             f[n] = IF n = 0 THEN <<>> ELSE f[n - 1] \o (<<Len(ls[n])>> \o ls[n])
      BY <1>5, Zenon DEF Sent
    <2>2. 0 \in 0..Len(ls) /\ \A n \in 1..Len(ls) : n \in 0..Len(ls) /\ n # 0
      BY <1>1
    <2> QED BY <2>1, <2>2, Zenon
  <1>8. f \in [0..Len(ls) -> Seq(Nat)]
    <2> DEFINE Good == {n \in Nat : n <= Len(ls) => f[n] \in Seq(Nat)}
    <2>1. 0 \in Good
      <3>1. f[0] \in Seq(Nat)
        BY <1>7, EmptySeq, Zenon
      <3> QED BY <3>1
    <2>2. ASSUME NEW n \in Nat, n \in Good
          PROVE  n + 1 \in Good
      <3>1. ASSUME NEW m \in 1..Len(ls), f[m - 1] \in Seq(Nat)
            PROVE  f[m] \in Seq(Nat)
        <4>1. f[m] = f[m - 1] \o one[m] /\ one[m] \in Seq(Nat)
          BY <1>1, <1>2, <1>7, Zenon
        <4> QED BY <3>1, <4>1
      <3> QED BY <1>1, <2>2, <3>1
    <2>3. \A n \in Nat : n \in Good
      <3> HIDE DEF Good
      <3> QED BY <2>1, <2>2, SetInduction
    <2>4. \A n \in 0..Len(ls) : f[n] \in Seq(Nat)
      BY <1>1, <2>3
    <2> QED BY <1>5, <2>4 DEF Sent
  <1> QED BY <1>6, <1>7, <1>8, Zenon DEF SentParts

\* No labels, nothing sent.
LEMMA WireEmpty == Wire(<<>>) = <<>>
  <1>1. <<>> \in Seq(Seq(Nat)) /\ Len(<<>>) = 0
    OBVIOUS
  <1>2. PICK f : SentParts(<<>>, f) /\ Wire(<<>>) = f[Len(<<>>)]
    BY <1>1, WireByParts
  <1> QED BY <1>1, <1>2 DEF SentParts

\* A label at the end adds its length and its bytes at the end.
LEMMA WireAppend ==
    ASSUME NEW ls \in Seq(Seq(Nat)), NEW l \in Seq(Nat)
    PROVE  Wire(Append(ls, l)) = Wire(ls) \o (<<Len(l)>> \o l)
  <1> DEFINE a == Append(ls, l)
  <1>1. /\ a \in Seq(Seq(Nat)) /\ Len(a) = Len(ls) + 1 /\ Len(ls) \in Nat
        /\ \A n \in 1..Len(ls) : a[n] = ls[n]
        /\ a[Len(ls) + 1] = l
    OBVIOUS
  <1> HIDE DEF a
  <1>2. PICK f : SentParts(ls, f) /\ Wire(ls) = f[Len(ls)]
    BY WireByParts
  <1>3. PICK g : SentParts(a, g) /\ Wire(a) = g[Len(a)]
    BY <1>1, WireByParts
  <1>4. \A n \in 1..Len(ls) + 1 : g[n] = g[n - 1] \o (<<Len(a[n])>> \o a[n])
    BY <1>1, <1>3, Zenon DEF SentParts
  <1>5. \A n \in Nat : n <= Len(ls) => g[n] = f[n]
    <2> DEFINE Good == {n \in Nat : n <= Len(ls) => g[n] = f[n]}
    <2>1. 0 \in Good
      BY <1>2, <1>3 DEF SentParts
    <2>2. ASSUME NEW n \in Nat, n \in Good
          PROVE  n + 1 \in Good
      <3>1. ASSUME NEW m \in 1..Len(ls), g[m - 1] = f[m - 1]
            PROVE  g[m] = f[m]
        <4>1. m \in 1..Len(ls) + 1
          BY <1>1
        <4>2. f[m] = f[m - 1] \o (<<Len(ls[m])>> \o ls[m])
          BY <1>2, Zenon DEF SentParts
        <4> QED BY <1>1, <1>4, <3>1, <4>1, <4>2, Zenon
      <3> QED BY <1>1, <2>2, <3>1
    <2>3. \A n \in Nat : n \in Good
      <3> HIDE DEF Good
      <3> QED BY <2>1, <2>2, SetInduction
    <2> QED BY <2>3
  <1>6. g[Len(ls)] = f[Len(ls)]
    BY <1>1, <1>5
  <1>7. g[Len(ls) + 1] = g[Len(ls)] \o (<<Len(l)>> \o l)
    <2>1. Len(ls) + 1 \in 1..Len(ls) + 1 /\ (Len(ls) + 1) - 1 = Len(ls)
      BY <1>1
    <2>2. \A m : m = Len(ls) + 1 => g[m] = g[m - 1] \o (<<Len(a[m])>> \o a[m])
      BY <1>4, <2>1, Zenon
    <2> QED BY <1>1, <2>1, <2>2, Zenon
  <1> QED BY <1>1, <1>2, <1>3, <1>6, <1>7, Zenon DEF a

\* A label on the wire, behind what is in front of it.
LEMMA NextPiece ==
    ASSUME NEW s \in Seq(Nat), NEW i \in Nat, NEW n \in Nat, i + 1 + n <= Len(s), n = s[i + 1]
    PROVE  /\ SubSeq(s, i + 2, i + 1 + n) \in Seq(Nat)
           /\ Len(SubSeq(s, i + 2, i + 1 + n)) = n
           /\ SubSeq(s, 1, i) \o (<<n>> \o SubSeq(s, i + 2, i + 1 + n)) = SubSeq(s, 1, i + 1 + n)
  <1> DEFINE e == i + 1 + n
             b == i + 1
  <1>1. /\ b \in 1..Len(s) /\ e \in b..Len(s) /\ e \in Int /\ i + 2 \in Int /\ b + 1 = i + 2
        /\ 1 \in 1..(Len(s) + 1) /\ i \in (1 - 1)..Len(s) /\ e \in i..Len(s) /\ s[b] = n
    OBVIOUS
  <1>2. \A k \in (i + 2)..e : s[k] \in Nat
    OBVIOUS
  <1>3. /\ i + 2 <= e => e - (i + 2) + 1 = n
        /\ ~(i + 2 <= e) => n = 0
    OBVIOUS
  <1> HIDE DEF e
  <1>4. /\ SubSeq(s, i + 2, e) \in Seq(Nat)
        /\ Len(SubSeq(s, i + 2, e)) = IF i + 2 <= e THEN e - (i + 2) + 1 ELSE 0
    BY <1>1, <1>2, SubSeqProperties
  <1>5. SubSeq(s, b, e) = <<n>> \o SubSeq(s, i + 2, e)
    <2> HIDE DEF b
    <2>1. SubSeq(s, b, e) = <<s[b]>> \o SubSeq(s, b + 1, e)
      BY <1>1, SubSeqRecursiveFirst
    <2> QED BY <1>1, <2>1, Zenon
  <1>6. SubSeq(s, 1, i) \o SubSeq(s, b, e) = SubSeq(s, 1, e)
    BY <1>1, ConcatAdjacentSubSeq
  <1>7. Len(SubSeq(s, i + 2, e)) = n
    BY <1>3, <1>4
  <1>8. SubSeq(s, 1, i) \o (<<n>> \o SubSeq(s, i + 2, e)) = SubSeq(s, 1, e)
    BY <1>5, <1>6, Zenon
  <1> QED BY <1>4, <1>7, <1>8, Zenon DEF e


-----------------------------------------------------------------------------
(* The walk over the name. *)

\* A set of places in the message m that BeginsWithName asks for.
ClosedIn(m, L) ==
    /\ L \subseteq 0..(Len(m) - 1) /\ 0 \in L /\ ~EndsName(m[1])
    /\ \A p \in L : EndsName(m[p + 1]) \/ p + 1 + m[p + 1] \in L

\* The places of lengths behind q: each leads to another of them, or to q.
WalkedIn(m, V, q) ==
    /\ V \subseteq 0..(Len(m) - 1)
    /\ q # 0 => 0 \in V
    /\ \A p \in V : ~EndsName(m[p + 1]) /\ p + 1 + m[p + 1] \in V \cup {q}

DnsInv ==
    /\ payload \in Seq(Nat) /\ pos \in Nat /\ labels \in Seq(Seq(Nat))
    /\ LabelsAreTheWire
    /\ pos = 0 <=> labels = <<>>
    /\ \E V : WalkedIn(payload, V, pos)
    /\ walk = "walking" => question /\ \A L : ClosedIn(payload, L) => pos \in L
    /\ walk # "walking" => (walk = "name" <=> question /\ BeginsWithName)

\* BeginsWithName, with such a set.
LEMMA NameIsClosed == BeginsWithName <=> \E L : ClosedIn(payload, L)
  BY DEF BeginsWithName, ClosedIn

\* The walk begins at the first length.
LEMMA DnsInitInv == DnsInit => DnsInv
  <1> SUFFICES ASSUME DnsInit PROVE DnsInv
    OBVIOUS
  <1>1. payload \in Seq(Nat)
    <2>1. PICK n \in 0..MaxMessage : payload \in [1..n -> Bytes]
      BY DEF DnsInit, Messages
    <2>2. payload \in [1..n -> Nat] /\ n \in Nat
      <3>1. n \in Nat /\ Bytes \subseteq Nat
        BY DnsAssumption
      <3>2. \A k \in 1..n : payload[k] \in Nat
        BY <2>1, <3>1
      <3> QED BY <2>1, <3>1, <3>2
    <2> QED BY <2>2
  <1>2. pos = 0 /\ labels = <<>> /\ pos \in Nat /\ labels \in Seq(Seq(Nat))
    BY DEF DnsInit
  <1>3. LabelsAreTheWire
    <2>1. SubSeq(payload, 1, 0) = <<>>
      BY SubSeqEmpty
    <2>2. 0 <= Len(payload)
      BY <1>1
    <2> QED BY <1>2, <2>1, <2>2, WireEmpty, Zenon DEF LabelsAreTheWire
  <1>4. WalkedIn(payload, {}, pos)
    BY <1>2 DEF WalkedIn
  <1>5. \A L : ClosedIn(payload, L) => pos \in L
    BY <1>2 DEF ClosedIn
  <1>6. /\ walk = "walking" => question
        /\ walk # "walking" => walk = "none" /\ ~question
    BY DEF DnsInit
  <1> QED BY <1>1, <1>2, <1>3, <1>4, <1>5, <1>6 DEF DnsInv

\* Every step of the walk keeps DnsInv.
LEMMA DnsInvStep == DnsInv /\ [DnsNext]_dnsVars => DnsInv'
  <1> SUFFICES ASSUME DnsInv, [DnsNext]_dnsVars PROVE DnsInv'
    OBVIOUS
  <1>1. payload \in Seq(Nat) /\ Len(payload) \in Nat /\ pos \in Nat /\ pos <= Len(payload)
        /\ labels \in Seq(Seq(Nat)) /\ Wire(labels) = SubSeq(payload, 1, pos)
        /\ (pos = 0 <=> labels = <<>>)
    BY DEF DnsInv, LabelsAreTheWire
  <1>2. PICK V : WalkedIn(payload, V, pos)
    BY DEF DnsInv
  <1>3. ASSUME walk = "walking" PROVE question /\ \A L : ClosedIn(payload, L) => pos \in L
    BY <1>3 DEF DnsInv
  <1>4. ASSUME ~AtEnd PROVE LenAt \in Nat /\ pos < Len(payload)
    BY <1>1, <1>4 DEF AtEnd, LenAt
  \* A step that ends the walk.
  <1>5. ASSUME walk' # "walking", walk' = "name" <=> BeginsWithName, question,
               UNCHANGED <<payload, question, pos, labels>>
        PROVE  DnsInv'
    <2>1. payload' = payload /\ question' = question /\ pos' = pos /\ labels' = labels
      BY <1>5
    <2>2. BeginsWithName' <=> BeginsWithName
      BY <2>1 DEF BeginsWithName
    <2>3. LabelsAreTheWire'
      BY <1>1, <2>1 DEF LabelsAreTheWire
    <2>4. walk' = "name" <=> question' /\ BeginsWithName'
      <3>1. question'
        BY <1>5
      <3>2. walk' = "name" <=> BeginsWithName
        BY <1>5
      <3> QED BY <2>2, <3>1, <3>2, Zenon
    <2>5. /\ \E W : WalkedIn(payload', W, pos')
          /\ payload' \in Seq(Nat) /\ pos' \in Nat /\ labels' \in Seq(Seq(Nat))
          /\ (pos' = 0 <=> labels' = <<>>)
      BY <1>1, <1>2, <2>1, Zenon
    <2> QED BY <1>5, <2>3, <2>4, <2>5 DEF DnsInv
  <1>6. CASE DnsStop
    <2>1. /\ walk = "walking" /\ ~AtEnd /\ EndsName(LenAt)
          /\ walk' = IF labels = <<>> THEN "none" ELSE "name"
          /\ UNCHANGED <<payload, question, pos, labels>>
      BY <1>6 DEF DnsStop
    <2>2. CASE labels = <<>>
      <3>1. pos = 0 /\ EndsName(payload[1])
        BY <1>1, <2>1, <2>2 DEF LenAt
      <3>2. ~BeginsWithName
        BY <3>1 DEF BeginsWithName
      <3> QED BY <1>3, <1>5, <2>1, <2>2, <3>2
    <2>3. CASE labels # <<>>
      <3> DEFINE L == V \cup {pos}
      <3>1. pos # 0 /\ pos \in 0..(Len(payload) - 1) /\ 0 \in V
        BY <1>1, <1>2, <1>4, <2>1, <2>3 DEF WalkedIn
      <3>2. ~EndsName(payload[1])
        <4>1. ~EndsName(payload[0 + 1])
          BY <1>2, <3>1 DEF WalkedIn
        <4> QED BY <4>1
      <3>3. \A p \in L : EndsName(payload[p + 1]) \/ p + 1 + payload[p + 1] \in L
        BY <1>2, <2>1, Zenon DEF WalkedIn, LenAt
      <3>4. L \subseteq 0..(Len(payload) - 1) /\ 0 \in L
        BY <1>2, <3>1 DEF WalkedIn
      <3>5. ClosedIn(payload, L)
        BY <3>2, <3>3, <3>4 DEF ClosedIn
      <3>6. BeginsWithName
        BY <3>5, NameIsClosed
      <3> QED BY <1>3, <1>5, <2>1, <2>3, <3>6
    <2> QED BY <2>2, <2>3
  <1>7. CASE DnsTruncated
    <2>1. /\ walk = "walking" /\ walk' = "none"
          /\ AtEnd \/ (~AtEnd /\ ~EndsName(LenAt) /\ ~Fits(LenAt))
          /\ UNCHANGED <<payload, question, pos, labels>>
      BY <1>7 DEF DnsTruncated
    <2>2. ASSUME NEW L, ClosedIn(payload, L) PROVE FALSE
      <3>1. pos \in L /\ L \subseteq 0..(Len(payload) - 1)
        BY <1>3, <2>1, <2>2 DEF ClosedIn
      <3>2. ~AtEnd
        BY <1>1, <3>1 DEF AtEnd
      <3>3. ~EndsName(LenAt) /\ ~Fits(LenAt)
        BY <2>1, <3>2
      <3>4. pos + 1 + LenAt \in L
        BY <2>2, <3>1, <3>3 DEF ClosedIn, LenAt
      <3>5. pos + 1 + LenAt \in 0..(Len(payload) - 1)
        BY <3>1, <3>4
      <3>6. Fits(LenAt)
        BY <1>1, <1>4, <3>2, <3>5 DEF Fits
      <3> QED BY <3>3, <3>6
    <2>3. ~BeginsWithName
      BY <2>2, NameIsClosed
    <2> QED BY <1>3, <1>5, <2>1, <2>3
  <1>8. CASE DnsLabel
    <2> DEFINE n == LenAt
               l == SubSeq(payload, pos + 2, pos + 1 + n)
               q == pos + 1 + n
    <2>1. /\ walk = "walking" /\ ~AtEnd /\ ~EndsName(n) /\ q <= Len(payload)
          /\ labels' = Append(labels, l) /\ pos' = q
          /\ payload' = payload /\ question' = question /\ walk' = walk
      BY <1>8 DEF DnsLabel, Fits
    <2>2. n \in Nat /\ pos < Len(payload) /\ n = payload[pos + 1]
      BY <1>4, <2>1 DEF LenAt
    <2> HIDE DEF n
    <2>3. /\ l \in Seq(Nat) /\ Len(l) = n
          /\ SubSeq(payload, 1, pos) \o (<<n>> \o l) = SubSeq(payload, 1, q)
      BY <1>1, <2>1, <2>2, NextPiece
    <2>4. q \in Nat /\ q # 0
      BY <1>1, <2>2
    <2> HIDE DEF l, q
    <2>5. Append(labels, l) \in Seq(Seq(Nat)) /\ Append(labels, l) # <<>>
      BY <1>1, <2>3, AppendProperties
    <2>6. Wire(Append(labels, l)) = SubSeq(payload, 1, q)
      BY <1>1, <2>3, WireAppend
    <2>7. LabelsAreTheWire'
      BY <2>1, <2>6 DEF LabelsAreTheWire
    <2>8. WalkedIn(payload, V \cup {pos}, q)
      <3>1. pos \in 0..(Len(payload) - 1)
        BY <1>1, <2>2
      <3>2. V \cup {pos} \subseteq 0..(Len(payload) - 1)
        BY <1>2, <3>1 DEF WalkedIn
      <3>3. 0 \in V \cup {pos}
        BY <1>1, <1>2 DEF WalkedIn
      <3>4. ~EndsName(payload[pos + 1]) /\ pos + 1 + payload[pos + 1] = q
        BY <2>1, <2>2 DEF q
      <3>5. \A p \in V \cup {pos} :
               /\ ~EndsName(payload[p + 1])
               /\ p + 1 + payload[p + 1] \in (V \cup {pos}) \cup {q}
        BY <1>2, <3>4, Zenon DEF WalkedIn
      <3> QED BY <3>2, <3>3, <3>5 DEF WalkedIn
    <2>9. ASSUME NEW L, ClosedIn(payload, L) PROVE q \in L
      <3>1. pos \in L
        BY <1>3, <2>1, <2>9
      <3>2. EndsName(payload[pos + 1]) \/ pos + 1 + payload[pos + 1] \in L
        BY <2>9, <3>1 DEF ClosedIn
      <3> QED BY <2>1, <2>2, <3>2 DEF q
    <2>10. \A L : ClosedIn(payload', L) => pos' \in L
      BY <2>1, <2>9, Zenon
    <2>11. /\ \E W : WalkedIn(payload', W, pos')
           /\ payload' \in Seq(Nat) /\ pos' \in Nat /\ labels' \in Seq(Seq(Nat))
           /\ (pos' = 0 <=> labels' = <<>>) /\ question' /\ walk' = "walking"
      BY <1>1, <1>3, <2>1, <2>4, <2>5, <2>8, Zenon
    <2> QED BY <2>7, <2>10, <2>11, Zenon DEF DnsInv
  <1>9. CASE UNCHANGED dnsVars
    <2>1. payload' = payload /\ question' = question /\ pos' = pos /\ labels' = labels
          /\ walk' = walk
      BY <1>9 DEF dnsVars
    <2>2. BeginsWithName' <=> BeginsWithName
      BY <2>1 DEF BeginsWithName
    <2>3. LabelsAreTheWire'
      BY <1>1, <2>1 DEF LabelsAreTheWire
    <2> QED BY <2>1, <2>2, <2>3, Zenon DEF DnsInv
  <1> QED BY <1>6, <1>7, <1>8, <1>9 DEF DnsNext

(***************************************************************************)
(* extract_dns_query_name, on a message of any length: the walk stays in   *)
(* the message, the labels are what the bytes behind it say, and it comes  *)
(* out with a name just if there is a question and the message begins with *)
(* a whole name (dns.rs:146-180).                                          *)
(***************************************************************************)
THEOREM NameIsRead == DnsSpec => []NameIsOnTheWire
  <1>1. DnsInv => NameIsOnTheWire
    BY DEF DnsInv, NameIsOnTheWire
  <1> QED BY <1>1, DnsInitInv, DnsInvStep, PTL DEF DnsSpec

=============================================================================
