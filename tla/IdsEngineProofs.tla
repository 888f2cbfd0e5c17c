--------------------------- MODULE IdsEngineProofs ---------------------------
(***************************************************************************)
(* Proofs about the IDS engine: its types, that the two threads that save  *)
(* the baseline never put an older one over a newer one, that in the       *)
(* Refinement phase no new country or well-known port is learned, that the *)
(* switch to it keeps phase, learned_at and file in step, and that nobody  *)
(* waits in a circle, for any number of workers and any packets.           *)
(***************************************************************************)
EXTENDS IdsEngine, Induction, SequenceTheorems, TLAPS

-----------------------------------------------------------------------------
(* The score: how many signals, which flag, and a sum that only grows. *)

Acc == [sum : Nat, count : Nat, flag : Nat]

\* A signal adds its score to the sum.
LEMMA AddSignalType ==
    ASSUME NEW a \in Acc, NEW s \in Signals
    PROVE  AddSignal(a, s) \in Acc /\ AddSignal(a, s).sum = a.sum + s.score
  BY DEF Acc, Signals, AddSignal

\* The accumulators after 0, 1, 2, ... of the signals.
Scored(acc, signals, f) ==
    /\ f \in [0 .. Len(signals) -> Acc]
    /\ f[0] = acc
    /\ \A n \in 1 .. Len(signals) : f[n] = AddSignal(f[n - 1], signals[n])

\* The recursion of AddSignals has a solution.
LEMMA AddSignalsByParts ==
    ASSUME NEW a \in Acc, NEW s \in Seq(Signals)
    PROVE  \E f : Scored(a, s, f) /\ AddSignals(a, s) = f[Len(s)]
  <1> DEFINE N == Len(s)
             step == [p \in Acc \X (1 .. N) |-> AddSignal(p[1], s[p[2]])]
             Rec(h) == h = [n \in 0 .. Len(s) |->
                               IF n = 0 THEN a ELSE AddSignal(h[n - 1], s[n])]
             f == CHOOSE h : Rec(h)
  <1>1. N \in Nat /\ \A n \in 1 .. N : s[n] \in Signals
    OBVIOUS
  <1>2. PICK g : Recurses(g, Acc, a, step, N)
    <2>1. step \in [Acc \X (1 .. N) -> Acc]
      BY <1>1, AddSignalType
    <2> HIDE DEF step, N
    <2> QED BY <1>1, <2>1, RecursionExists
  <1>3. /\ g \in [0 .. N -> Acc] /\ g[0] = a
        /\ \A n \in 1 .. N : g[n] = AddSignal(g[n - 1], s[n])
    <2>1. g \in [0 .. N -> Acc] /\ g[0] = a
      BY <1>2 DEF Recurses
    <2>2. ASSUME NEW n \in 1 .. N
          PROVE  g[n] = AddSignal(g[n - 1], s[n])
      <3>1. g[n] = step[<<g[n - 1], n>>]
        BY <1>2 DEF Recurses
      <3>2. <<g[n - 1], n>> \in Acc \X (1 .. N)
        BY <1>1, <2>1
      <3> QED BY <3>1, <3>2
    <2> QED BY <2>1, <2>2
  <1>4. Rec(g)
    <2>1. \A n \in 0 .. N : n = 0 \/ n \in 1 .. N
      BY <1>1
    <2> QED BY <1>3, <2>1, Zenon
  <1>5. Rec(f)
    BY <1>4
  <1>6. AddSignals(a, s) = f[Len(s)]
    BY DEF AddSignals
  <1> HIDE DEF f
  <1>7. /\ f[0] = a
        /\ \A n \in 1 .. N : f[n] = AddSignal(f[n - 1], s[n])
    <2>1. \A n \in 0 .. N : f[n] = IF n = 0 THEN a ELSE AddSignal(f[n - 1], s[n])
      BY <1>5, Zenon
    <2>2. /\ 0 \in 0 .. N
          /\ \A n \in 1 .. N : n \in 0 .. N /\ n # 0
      BY <1>1
    <2> QED BY <2>1, <2>2, Zenon
  <1>8. \A n \in Nat : n <= N => f[n] = g[n]
    <2> DEFINE Good == {n \in Nat : n <= N => f[n] = g[n]}
    <2>1. 0 \in Good
      BY <1>3, <1>7, Zenon
    <2>2. ASSUME NEW n \in Nat, n \in Good
          PROVE  n + 1 \in Good
      <3>1. \A m \in 1 .. N : f[m - 1] = g[m - 1] => f[m] = g[m]
        BY <1>3, <1>7, Zenon
      <3> HIDE DEF Rec
      <3> QED BY <1>1, <2>2, <3>1
    <2>3. \A n \in Nat : n \in Good
      <3> HIDE DEF Good
      <3> QED BY <2>1, <2>2, SetInduction
    <2> QED BY <2>3
  <1>9. AddSignals(a, s) = g[Len(s)]
    BY <1>1, <1>6, <1>8
  <1> QED BY <1>3, <1>9, Zenon DEF Scored

\* The result is an accumulator whose sum is at least the one before, and at
\* least that and any one of the signals.
LEMMA SignalsCount ==
    ASSUME NEW a \in Acc, NEW s \in Seq(Signals)
    PROVE  /\ AddSignals(a, s) \in Acc
           /\ AddSignals(a, s).sum >= a.sum
           /\ \A i \in 1 .. Len(s) : AddSignals(a, s).sum >= a.sum + s[i].score
  <1>1. PICK f : Scored(a, s, f) /\ AddSignals(a, s) = f[Len(s)]
    BY AddSignalsByParts
  <1>2. Len(s) \in Nat /\ \A n \in 1 .. Len(s) : s[n] \in Signals /\ s[n].score \in Nat
    <2>1. Len(s) \in Nat /\ \A n \in 1 .. Len(s) : s[n] \in Signals
      OBVIOUS
    <2>2. \A x \in Signals : x.score \in Nat
      BY DEF Signals
    <2> QED BY <2>1, <2>2
  <1>3. /\ \A n \in 0 .. Len(s) : f[n] \in Acc /\ f[n].sum \in Nat
        /\ f[0] = a
        /\ \A n \in 1 .. Len(s) : f[n].sum = f[n - 1].sum + s[n].score
    <2>1. /\ \A n \in 0 .. Len(s) : f[n] \in Acc
          /\ f[0] = a
          /\ \A n \in 1 .. Len(s) : f[n] = AddSignal(f[n - 1], s[n])
      BY <1>1, Zenon DEF Scored
    <2>2. \A n \in 0 .. Len(s) : f[n].sum \in Nat
      BY <2>1 DEF Acc
    <2>3. \A n \in 1 .. Len(s) : f[n - 1] \in Acc
      BY <1>2, <2>1
    <2>4. \A n \in 1 .. Len(s) : f[n].sum = f[n - 1].sum + s[n].score
      BY <1>2, <2>1, <2>3, AddSignalType, Zenon
    <2> QED BY <2>1, <2>2, <2>4, Zenon
  <1> DEFINE sum(n) == f[n].sum
             sc(n) == s[n].score
             Good == {n \in Nat : n <= Len(s) =>
                         /\ sum(n) >= a.sum
                         /\ \A i \in 1 .. n : sum(n) >= a.sum + sc(i)}
  <1>4. /\ a.sum \in Nat /\ sum(0) = a.sum
        /\ \A n \in 0 .. Len(s) : sum(n) \in Nat
        /\ \A n \in 1 .. Len(s) : sc(n) \in Nat /\ sum(n) = sum(n - 1) + sc(n)
    BY <1>2, <1>3, Zenon DEF Acc
  <1> HIDE DEF sum, sc
  <1>5. \A n \in Nat : n \in Good
    <2>1. 0 \in Good
      BY <1>4
    <2>2. ASSUME NEW n \in Nat, n \in Good
          PROVE  n + 1 \in Good
      <3> SUFFICES ASSUME n + 1 <= Len(s)
                   PROVE  /\ sum(n + 1) >= a.sum
                          /\ \A i \in 1 .. n + 1 : sum(n + 1) >= a.sum + sc(i)
        OBVIOUS
      <3>1. /\ n + 1 \in 1 .. Len(s) /\ n \in 0 .. Len(s) /\ (n + 1) - 1 = n
            /\ sum(n) \in Nat /\ sum(n) >= a.sum
        BY <1>2, <1>4, <2>2
      <3>2. sum(n + 1) = sum(n) + sc(n + 1) /\ sc(n + 1) \in Nat
        BY <1>4, <3>1
      <3>3. sum(n + 1) >= a.sum /\ sum(n + 1) >= a.sum + sc(n + 1)
        BY <1>4, <3>1, <3>2
      <3>4. ASSUME NEW i \in 1 .. n
            PROVE  sum(n + 1) >= a.sum + sc(i)
        <4>1. sum(n) >= a.sum + sc(i) /\ sc(i) \in Nat
          BY <1>2, <1>4, <2>2, <3>1
        <4> QED BY <1>4, <3>1, <3>2, <4>1
      <3> QED BY <3>3, <3>4
    <2> HIDE DEF Good
    <2> QED BY <2>1, <2>2, SetInduction
  <1>6. sum(Len(s)) >= a.sum /\ \A i \in 1 .. Len(s) : sum(Len(s)) >= a.sum + sc(i)
    BY <1>2, <1>5
  <1>7. AddSignals(a, s) \in Acc
    BY <1>1, <1>2, <1>3
  <1> QED BY <1>1, <1>6, <1>7, Zenon DEF sum, sc

\* A packet whose signals sum up to the Info threshold is not clean: neither
\* the bonus nor the cap at 100 brings it back below.
LEMMA NotClean ==
    ASSUME NEW a \in Acc, a.sum >= THRESHOLD_INFO
    PROVE  ~is_clean(a)
  BY DEF Acc, is_clean, TotalScore, THRESHOLD_INFO, CORRELATION_BONUS

\* The signals are all counted, and the flag of a packet is that of the first
\* signal that claims one, whatever the scores (the guards
\* `if primary_flag == 0` of analyze, mod.rs:75-230); score.rs:77 says
\* "highest-scoring signal wins".
THEOREM FirstClaimIsTheFlag ==
    ASSUME NEW a \in Acc, NEW s \in Seq(Signals)
    PROVE  /\ AddSignals(a, s).count = a.count + Len(s)
           /\ a.flag # 0 => AddSignals(a, s).flag = a.flag
           /\ (\A i \in 1 .. Len(s) : s[i].flag = 0) => AddSignals(a, s).flag = a.flag
           /\ \A i \in 1 .. Len(s) :
                  a.flag = 0 /\ s[i].flag # 0 /\ (\A j \in 1 .. i - 1 : s[j].flag = 0)
                      => AddSignals(a, s).flag = s[i].flag
  <1>1. PICK f : Scored(a, s, f) /\ AddSignals(a, s) = f[Len(s)]
    BY AddSignalsByParts
  <1> DEFINE N == Len(s)
             cnt(n) == f[n].count
             flg(n) == f[n].flag
             sf(n) == s[n].flag
  <1>2. N \in Nat /\ a.count \in Nat
    BY DEF Acc
  <1>3. /\ f[0] = a
        /\ \A n \in 1 .. N : f[n] = AddSignal(f[n - 1], s[n])
    BY <1>1, Zenon DEF Scored
  <1>4. /\ cnt(0) = a.count /\ flg(0) = a.flag
        /\ \A n \in 1 .. N : /\ cnt(n) = cnt(n - 1) + 1
                             /\ flg(n) = IF flg(n - 1) = 0 THEN sf(n) ELSE flg(n - 1)
    <2>1. cnt(0) = a.count /\ flg(0) = a.flag
      BY <1>3
    <2>2. ASSUME NEW n \in 1 .. N
          PROVE  /\ cnt(n) = cnt(n - 1) + 1
                 /\ flg(n) = IF flg(n - 1) = 0 THEN sf(n) ELSE flg(n - 1)
      <3>1. f[n] = AddSignal(f[n - 1], s[n])
        BY <1>3
      <3>2. /\ AddSignal(f[n - 1], s[n]).count = f[n - 1].count + 1
            /\ AddSignal(f[n - 1], s[n]).flag
                   = IF f[n - 1].flag = 0 THEN s[n].flag ELSE f[n - 1].flag
        BY DEF AddSignal
      <3> QED BY <3>1, <3>2
    <2> QED BY <2>1, <2>2
  <1>5. AddSignals(a, s).count = cnt(N) /\ AddSignals(a, s).flag = flg(N)
    BY <1>1
  <1> HIDE DEF cnt, flg, sf, N
  <1> DEFINE Good == {n \in Nat : n <= N =>
                 /\ cnt(n) = a.count + n
                 /\ a.flag # 0 => flg(n) = a.flag
                 /\ (\A i \in 1 .. n : sf(i) = 0) => flg(n) = a.flag
                 /\ \A i \in 1 .. n :
                        a.flag = 0 /\ sf(i) # 0 /\ (\A j \in 1 .. i - 1 : sf(j) = 0)
                            => flg(n) = sf(i)}
  <1>6. \A n \in Nat : n \in Good
    <2>1. 0 \in Good
      BY <1>2, <1>4
    <2>2. ASSUME NEW n \in Nat, n \in Good
          PROVE  n + 1 \in Good
      <3> SUFFICES ASSUME n + 1 <= N
                   PROVE  /\ cnt(n + 1) = a.count + (n + 1)
                          /\ a.flag # 0 => flg(n + 1) = a.flag
                          /\ (\A i \in 1 .. n + 1 : sf(i) = 0) => flg(n + 1) = a.flag
                          /\ \A i \in 1 .. n + 1 :
                                 a.flag = 0 /\ sf(i) # 0 /\ (\A j \in 1 .. i - 1 : sf(j) = 0)
                                     => flg(n + 1) = sf(i)
        OBVIOUS
      <3>1. n + 1 \in 1 .. N /\ (n + 1) - 1 = n
        BY <1>2
      <3>2. /\ cnt(n + 1) = cnt(n) + 1
            /\ flg(n + 1) = IF flg(n) = 0 THEN sf(n + 1) ELSE flg(n)
        BY <1>4, <3>1
      <3>3. /\ cnt(n) = a.count + n
            /\ a.flag # 0 => flg(n) = a.flag
            /\ (\A i \in 1 .. n : sf(i) = 0) => flg(n) = a.flag
            /\ \A i \in 1 .. n :
                   a.flag = 0 /\ sf(i) # 0 /\ (\A j \in 1 .. i - 1 : sf(j) = 0)
                       => flg(n) = sf(i)
        BY <1>2, <2>2
      <3>4. cnt(n + 1) = a.count + (n + 1)
        <4> DEFINE c == a.count
        <4>1. c \in Nat /\ cnt(n + 1) = (c + n) + 1
          BY <1>2, <3>2, <3>3
        <4> HIDE DEF c
        <4>2. (c + n) + 1 = c + (n + 1)
          BY <4>1
        <4> QED BY <4>1, <4>2, Zenon DEF c
      <3>5. a.flag # 0 => flg(n + 1) = a.flag
        BY <3>2, <3>3
      <3>6. (\A i \in 1 .. n + 1 : sf(i) = 0) => flg(n + 1) = a.flag
        BY <3>2, <3>3
      <3>7. ASSUME NEW i \in 1 .. n + 1, a.flag = 0, sf(i) # 0,
                   \A j \in 1 .. i - 1 : sf(j) = 0
            PROVE  flg(n + 1) = sf(i)
        <4>1. CASE i \in 1 .. n
          BY <3>2, <3>3, <3>7, <4>1
        <4>2. CASE i = n + 1
          BY <3>2, <3>3, <3>7, <4>2
        <4> QED BY <4>1, <4>2
      <3> QED BY <3>4, <3>5, <3>6, <3>7
    <2> HIDE DEF Good
    <2> QED BY <2>1, <2>2, SetInduction
  <1>7. N \in Good
    BY <1>2, <1>6
  <1> QED BY <1>2, <1>5, <1>7 DEF N, sf

\* from_signals (score.rs:85-96) never gives more than 100, and signals found
\* later never lower a score, not even by the bonus or the cap: a packet that
\* is not clean when the unusual port is looked up is not clean when analyze
\* decides whether to learn from it.
THEOREM SignalsNeverLowerTheScore ==
    ASSUME NEW a \in Acc, NEW s \in Seq(Signals)
    PROVE  /\ TotalScore(a) <= TotalScore(AddSignals(a, s))
           /\ TotalScore(AddSignals(a, s)) \in 0 .. 100
           /\ is_clean(AddSignals(a, s)) => is_clean(a)
  <1>1. /\ AddSignals(a, s) \in Acc
        /\ AddSignals(a, s).sum >= a.sum
        /\ AddSignals(a, s).count = a.count + Len(s)
    BY SignalsCount, FirstClaimIsTheFlag
  <1>2. a.sum \in Nat /\ a.count \in Nat /\ Len(s) \in Nat
        /\ AddSignals(a, s).sum \in Nat /\ AddSignals(a, s).count \in Nat
    BY <1>1 DEF Acc
  <1> DEFINE b == AddSignals(a, s)
             bonus(x) == IF x.count >= 2 THEN CORRELATION_BONUS ELSE 0
  <1>3. b.sum >= a.sum /\ (a.count >= 2 => b.count >= 2)
    BY <1>1, <1>2
  <1>4. /\ TotalScore(a) = IF a.sum + bonus(a) > 100 THEN 100 ELSE a.sum + bonus(a)
        /\ TotalScore(b) = IF b.sum + bonus(b) > 100 THEN 100 ELSE b.sum + bonus(b)
    BY DEF TotalScore
  <1>5. bonus(a) \in Nat /\ bonus(b) \in Nat /\ bonus(a) <= bonus(b)
    BY <1>3 DEF CORRELATION_BONUS
  <1>6. a.sum \in Nat /\ b.sum \in Nat
    BY <1>2
  <1> HIDE DEF b, bonus
  <1>7. TotalScore(a) <= TotalScore(b) /\ TotalScore(a) \in Nat /\ TotalScore(b) \in 0 .. 100
    <2>1. ASSUME NEW p \in Nat, NEW q \in Nat, NEW i \in Nat, NEW j \in Nat, p <= q, i <= j,
                 NEW x, x = IF p + i > 100 THEN 100 ELSE p + i,
                 NEW y, y = IF q + j > 100 THEN 100 ELSE q + j
          PROVE  x <= y /\ x \in Nat /\ y \in 0 .. 100
      BY <2>1
    <2>2. a.sum <= b.sum
      BY <1>3, <1>6
    <2> QED BY <1>4, <1>5, <1>6, <2>1, <2>2, Zenon
  <1>8. is_clean(b) => is_clean(a)
    <2>1. ASSUME NEW x \in Nat, NEW y \in 0 .. 100, x <= y, y < 30 PROVE x < 30
      BY <2>1
    <2> QED BY <1>7, <2>1, Zenon DEF is_clean, THRESHOLD_INFO
  <1> QED BY <1>7, <1>8 DEF b

-----------------------------------------------------------------------------
(* Types. *)

Steps == {"idle", "geo_phase", "geo_known", "dns", "port_phase", "port_known",
          "decide", "observe_port", "observe_country", "observe_domain", "report"}

Ports == {p.port : p \in Packets} \ {None}
Countries == {p.country : p \in Packets} \ {None}
Domains == {p.domain : p \in Packets} \ {None}
Known == [ports : SUBSET Ports, countries : SUBSET Countries, domains : SUBSET Domains]
File == [valid : BOOLEAN, known : Known, learned : BOOLEAN]
Job == [at : Steps, pkt : Packets \cup {NoPacket}, acc : Acc]

\* A worker that has been given a packet is working on one of Packets.
JobType ==
    /\ job \in [Workers -> Job]
    /\ \A w \in Workers : job[w].at # "idle" => job[w].pkt \in Packets

BaseType ==
    /\ known \in Known
    /\ learned \in BOOLEAN
    /\ phase \in {"Learning", "Refinement"}
    /\ phaseLock \in BOOLEAN
    /\ persisting \in [Persisters -> {"idle", "locked", "truncated"}]
    /\ json \in [Persisters -> File]
    /\ file \in File

OwnType ==
    /\ sweeper \in {"sleep", "flip", "stamp", "save_flip", "saving_flip",
                    "unlock", "save", "saving"}
    /\ elapsed \in BOOLEAN /\ stopping \in BOOLEAN /\ failed \in BOOLEAN
    /\ saved \in File

TypeInv == JobType /\ BaseType /\ OwnType

\* TypeInv has the types that the run checks.
LEMMA TypeInvIsTypeOK == TypeInv => TypeOK
  <1> SUFFICES ASSUME TypeInv PROVE TypeOK
    OBVIOUS
  <1>1. \A w \in Workers : job[w].pkt \in Packets \cup {NoPacket}
    <2>1. \A w \in Workers : job[w] \in Job
      BY DEF TypeInv, JobType
    <2>2. \A x \in Job : x.pkt \in Packets \cup {NoPacket}
      BY DEF Job
    <2> QED BY <2>1, <2>2
  <1>2. \A t \in Persisters : persisting[t] \in {"idle", "locked", "truncated"}
    BY DEF TypeInv, BaseType
  <1> QED BY <1>1, <1>2
          DEF TypeInv, BaseType, OwnType, TypeOK, Known, Ports, Countries, Domains

\* The values that stand for nothing have their types.
LEMMA Constants ==
    /\ Unreadable \in File /\ NothingKnown \in Known
    /\ Idle \in Job /\ Idle.at = "idle" /\ Idle.acc = NoSignals /\ NoSignals \in Acc
  <1>1. NothingKnown \in Known
    BY DEF NothingKnown, Known
  <1>2. Unreadable \in File
    BY <1>1 DEF Unreadable, File
  <1>3. NoSignals \in Acc
    BY DEF NoSignals, Acc
  <1>4. Idle \in Job /\ Idle.at = "idle" /\ Idle.acc = NoSignals
    <2>1. NoPacket \in Packets \cup {NoPacket} /\ "idle" \in Steps
      BY DEF Steps
    <2> QED BY <1>3, <2>1, Zenon DEF Idle, Job
  <1> QED BY <1>1, <1>2, <1>3, <1>4

\* Serialize is what a file may hold.
LEMMA SerializeType ==
    ASSUME BaseType
    PROVE  Serialize \in File /\ Serialize.known = known /\ Serialize.learned = learned
           /\ Serialize.valid = TRUE
  BY DEF BaseType, Serialize, File

\* Goto changes one worker's step and accumulator.
LEMMA GotoFacts ==
    ASSUME JobType, NEW w \in Workers, job[w].at # "idle",
           NEW at \in Steps, NEW acc \in Acc, Goto(w, at, acc)
    PROVE  /\ JobType'
           /\ job'[w].at = at /\ job'[w].acc = acc /\ job'[w].pkt = job[w].pkt
           /\ \A v \in Workers : v # w => job'[v] = job[v]
  <1>1. job[w] \in Job /\ job[w].pkt \in Packets
    BY DEF JobType
  <1>2. /\ job'[w] = [job[w] EXCEPT !.at = at, !.acc = acc]
        /\ \A v \in Workers : v # w => job'[v] = job[v]
    BY DEF JobType, Goto
  <1>3. /\ job'[w].at = at /\ job'[w].acc = acc /\ job'[w].pkt = job[w].pkt
        /\ job'[w] \in Job
    BY <1>1, <1>2 DEF Job
  <1>4. job' \in [Workers -> Job]
    <2>1. job' = [v \in Workers |-> job'[v]]
      BY DEF JobType, Goto
    <2>2. \A v \in Workers : job'[v] \in Job
      BY <1>2, <1>3 DEF JobType
    <2> QED BY <2>1, <2>2
  <1>5. \A v \in Workers : job'[v].at # "idle" => job'[v].pkt \in Packets
    BY <1>1, <1>2, <1>3, Zenon DEF JobType
  <1> QED BY <1>2, <1>3, <1>4, <1>5 DEF JobType

-----------------------------------------------------------------------------
(* What each step of analyze does to its worker. *)

\* Worker w goes on with its packet and loses no signal; the others wait.
Moved(w) ==
    /\ JobType'
    /\ job'[w].pkt = job[w].pkt
    /\ job'[w].acc.sum >= job[w].acc.sum
    /\ \A v \in Workers : v # w => job'[v] = job[v]

\* What is known of a worker's job.
LEMMA JobFacts ==
    ASSUME JobType, NEW w \in Workers
    PROVE  /\ job[w] \in Job /\ job[w].at \in Steps /\ job[w].acc \in Acc
           /\ job[w].acc.sum \in Nat
           /\ job[w].at # "idle" => job[w].pkt \in Packets
  <1>1. job[w] \in Job
    BY DEF JobType
  <1>2. \A x \in Job : x.at \in Steps /\ x.acc \in Acc
    BY DEF Job
  <1>3. \A x \in Acc : x.sum \in Nat
    BY DEF Acc
  <1> QED BY <1>1, <1>2, <1>3 DEF JobType

\* Goto leaves the worker at the given step, with no lower score.
LEMMA GotoMoves ==
    ASSUME JobType, NEW w \in Workers, job[w].at # "idle",
           NEW at \in Steps, NEW acc \in Acc, acc.sum >= job[w].acc.sum,
           Goto(w, at, acc)
    PROVE  Moved(w) /\ job'[w].at = at /\ job'[w].acc = acc
  <1>1. /\ JobType'
        /\ job'[w].at = at /\ job'[w].acc = acc /\ job'[w].pkt = job[w].pkt
        /\ \A v \in Workers : v # w => job'[v] = job[v]
    BY GotoFacts
  <1>2. job'[w].acc.sum >= job[w].acc.sum
    BY <1>1, Zenon
  <1> QED BY <1>1, <1>2, Zenon DEF Moved

\* Reading the phase: in Refinement the country is looked up.
LEMMA GeoPhaseMoves ==
    ASSUME JobType, NEW w \in Workers, GeoPhase(w)
    PROVE  /\ Moved(w)
           /\ job'[w].at \in {"geo_known", "dns"}
           /\ phase = "Refinement" => job'[w].at = "geo_known"
  <1> DEFINE a == job[w].acc
             b == AddSignals(a, job[w].pkt.payload)
  <1>1. job[w].at = "geo_phase" /\ job[w].pkt \in Packets /\ a \in Acc /\ a.sum \in Nat
    BY JobFacts DEF GeoPhase
  <1>2. b \in Acc /\ b.sum >= a.sum
    BY <1>1, SignalsCount, PacketsAssumption
  <1>3. "geo_known" \in Steps /\ "dns" \in Steps
    BY DEF Steps
  <1>4. a.sum >= a.sum
    BY <1>1
  <1>5. CASE phase = "Refinement"
    <2>1. Goto(w, "geo_known", a)
      BY <1>5 DEF GeoPhase
    <2>2. Moved(w) /\ job'[w].at = "geo_known"
      BY <1>1, <1>3, <1>4, <2>1, GotoMoves
    <2> QED BY <2>2
  <1>6. CASE phase # "Refinement"
    <2>1. Goto(w, "dns", b)
      BY <1>6 DEF GeoPhase
    <2> HIDE DEF b
    <2>2. Moved(w) /\ job'[w].at = "dns"
      BY <1>1, <1>2, <1>3, <2>1, GotoMoves
    <2> QED BY <1>6, <2>2
  <1> QED BY <1>5, <1>6

\* An unknown country brings the score to 35.
LEMMA GeoKnownMoves ==
    ASSUME JobType, NEW w \in Workers, GeoKnown(w)
    PROVE  /\ Moved(w)
           /\ job'[w].at = "dns"
           /\ job[w].pkt.country \notin known.countries => job'[w].acc.sum >= 35
  <1> DEFINE a == job[w].acc
             geo == IF is_known("countries", job[w].pkt.country)
                    THEN <<>> ELSE <<Signal(4, SCORE_GEO_ANOMALY)>>
             s == geo \o job[w].pkt.payload
             b == AddSignals(a, s)
  <1>1. job[w].at = "geo_known" /\ job[w].pkt \in Packets /\ a \in Acc /\ a.sum \in Nat
    BY JobFacts DEF GeoKnown
  <1>2. job[w].pkt.payload \in Seq(Signals)
    BY <1>1, PacketsAssumption
  <1>3. Signal(4, SCORE_GEO_ANOMALY) \in Signals
        /\ Signal(4, SCORE_GEO_ANOMALY).score = 35
    BY DEF Signal, Signals, SCORE_GEO_ANOMALY
  <1>4. geo \in Seq(Signals)
    BY <1>3
  <1>5. s \in Seq(Signals)
    <2> HIDE DEF geo
    <2> QED BY <1>2, <1>4, ConcatProperties
  <1>6. b \in Acc /\ b.sum >= a.sum
    <2> HIDE DEF s
    <2> QED BY <1>1, <1>5, SignalsCount
  <1>7. ASSUME job[w].pkt.country \notin known.countries
        PROVE  b.sum >= 35
    <2>1. geo = <<Signal(4, SCORE_GEO_ANOMALY)>>
      BY <1>7 DEF is_known
    <2>2. Len(geo) = 1 /\ geo[1] = Signal(4, SCORE_GEO_ANOMALY)
      BY <2>1
    <2>3. 1 \in 1 .. Len(s) /\ s[1] = Signal(4, SCORE_GEO_ANOMALY)
      <3> DEFINE t == job[w].pkt.payload
      <3>1. /\ Len(geo \o t) = Len(geo) + Len(t) /\ Len(t) \in Nat
            /\ \A i \in 1 .. Len(geo) : (geo \o t)[i] = geo[i]
        <4> HIDE DEF geo, t
        <4> QED BY <1>2, <1>4, ConcatProperties DEF t
      <3> HIDE DEF geo
      <3> QED BY <2>2, <3>1
    <2>4. b.sum >= a.sum + s[1].score
      <3> HIDE DEF s
      <3> QED BY <1>1, <1>5, <2>3, SignalsCount
    <2>5. s[1].score = 35
      BY <1>3, <2>3, Zenon
    <2> DEFINE x == b.sum
               y == a.sum
    <2>6. x \in Nat /\ y \in Nat /\ x >= y + 35
      BY <1>1, <1>6, <2>4, <2>5 DEF Acc
    <2> HIDE DEF x, y
    <2>7. x >= 35
      BY <2>6
    <2> QED BY <2>7 DEF x
  <1>8. Goto(w, "dns", b)
    BY DEF GeoKnown
  <1> HIDE DEF b
  <1>9. Moved(w) /\ job'[w].at = "dns" /\ job'[w].acc = b
    <2>1. "dns" \in Steps
      BY DEF Steps
    <2> QED BY <1>1, <1>6, <1>8, <2>1, GotoMoves
  <1> QED BY <1>7, <1>9, Zenon

\* The DNS detector only adds signals.
LEMMA DnsMoves ==
    ASSUME JobType, NEW w \in Workers, Dns(w)
    PROVE  /\ Moved(w)
           /\ job'[w].at = IF job[w].pkt.port = None THEN "decide" ELSE "port_phase"
  <1> DEFINE p == job[w].pkt
             a == job[w].acc
             knows == is_known("domains", p.domain)
             lst == IF p.listed THEN <<Signal(7, SCORE_BLACKLIST_DOMAIN)>> ELSE <<>>
             nm == IF knows THEN <<>> ELSE p.name
             found == lst \o nm \o p.name \o p.tunnel
             b == IF p.domain = None THEN a ELSE AddSignals(a, found)
             at == IF p.port = None THEN "decide" ELSE "port_phase"
  <1>1. job[w].at = "dns" /\ p \in Packets /\ a \in Acc /\ a.sum \in Nat
    BY JobFacts DEF Dns
  <1>2. p.name \in Seq(Signals) /\ p.tunnel \in Seq(Signals)
    BY <1>1, PacketsAssumption
  <1>3. lst \in Seq(Signals)
    <2>1. Signal(7, SCORE_BLACKLIST_DOMAIN) \in Signals
      BY DEF Signal, Signals, SCORE_BLACKLIST_DOMAIN
    <2> QED BY <2>1
  <1>4. nm \in Seq(Signals)
    BY <1>2
  <1>5. found \in Seq(Signals)
    <2> HIDE DEF lst, nm
    <2> QED BY <1>2, <1>3, <1>4, ConcatProperties
  <1>6. b \in Acc /\ b.sum >= a.sum
    <2>1. AddSignals(a, found) \in Acc /\ AddSignals(a, found).sum >= a.sum
      <3> HIDE DEF found
      <3> QED BY <1>1, <1>5, SignalsCount
    <2> HIDE DEF found
    <2> QED BY <1>1, <2>1
  <1>7. at \in Steps
    BY DEF Steps
  <1>8. Goto(w, at, b)
    BY Zenon DEF Dns, Goto
  <1> HIDE DEF b, at
  <1>9. Moved(w) /\ job'[w].at = at
    BY <1>1, <1>6, <1>7, <1>8, GotoMoves
  <1> QED BY <1>9 DEF at

\* Reading the phase again, for the port.
LEMMA PortPhaseMoves ==
    ASSUME JobType, NEW w \in Workers, PortPhase(w)
    PROVE  /\ Moved(w)
           /\ job'[w].at = IF phase = "Refinement" THEN "port_known" ELSE "decide"
  <1> DEFINE a == job[w].acc
             at == IF phase = "Refinement" THEN "port_known" ELSE "decide"
  <1>1. job[w].at = "port_phase" /\ a \in Acc /\ a.sum \in Nat /\ a.sum >= a.sum
    BY JobFacts DEF PortPhase
  <1>2. at \in Steps
    BY DEF Steps
  <1>3. Goto(w, at, a)
    BY DEF PortPhase
  <1> HIDE DEF at
  <1>4. Moved(w) /\ job'[w].at = at
    BY <1>1, <1>2, <1>3, GotoMoves
  <1> QED BY <1>4 DEF at

\* An unknown well-known port brings the score to 30.
LEMMA PortKnownMoves ==
    ASSUME JobType, NEW w \in Workers, PortKnown(w)
    PROVE  /\ Moved(w)
           /\ job'[w].at = "decide"
           /\ (job[w].pkt.port \in WellKnownPorts /\ job[w].pkt.port \notin known.ports)
              => job'[w].acc.sum >= 30
  <1> DEFINE a == job[w].acc
             port == job[w].pkt.port
             score == IF port \in WellKnownPorts
                      THEN SCORE_UNUSUAL_PORT_NETWORK ELSE SCORE_UNUSUAL_PORT_GLOBAL
             c == AddSignal(a, Signal(0, score))
             b == IF is_known("ports", port) THEN a ELSE c
  <1>1. job[w].at = "port_known" /\ a \in Acc /\ a.sum \in Nat
    BY JobFacts DEF PortKnown
  <1>2. /\ score \in Nat /\ Signal(0, score) \in Signals /\ Signal(0, score).score = score
        /\ port \in WellKnownPorts => score = 30
    BY DEF Signal, Signals, SCORE_UNUSUAL_PORT_NETWORK, SCORE_UNUSUAL_PORT_GLOBAL
  <1>3. c \in Acc /\ c.sum = a.sum + score
    <2> HIDE DEF score
    <2> QED BY <1>1, <1>2, AddSignalType
  <1>4. b \in Acc /\ b.sum >= a.sum
    <2> HIDE DEF c, score
    <2> QED BY <1>1, <1>2, <1>3
  <1>5. (port \in WellKnownPorts /\ port \notin known.ports) => b.sum >= 30
    <2> HIDE DEF c, score
    <2> QED BY <1>1, <1>2, <1>3 DEF is_known
  <1>6. Goto(w, "decide", b)
    BY DEF PortKnown
  <1> HIDE DEF b
  <1>7. Moved(w) /\ job'[w].at = "decide" /\ job'[w].acc = b
    <2>1. "decide" \in Steps
      BY DEF Steps
    <2> QED BY <1>1, <1>4, <1>6, <2>1, GotoMoves
  <1> QED BY <1>5, <1>7, Zenon

\* In Refinement a score of 30 keeps the packet from being learned.
LEMMA DecideMoves ==
    ASSUME JobType, NEW w \in Workers, Decide(w)
    PROVE  /\ Moved(w)
           /\ job'[w].at \in {"observe_port", "report"}
           /\ (phase = "Refinement" /\ job[w].acc.sum >= 30) => job'[w].at = "report"
  <1> DEFINE a == job[w].acc
             b == AddSignals(a, job[w].pkt.late)
             at == IF phase = "Learning" \/ is_clean(b) THEN "observe_port" ELSE "report"
  <1>1. job[w].at = "decide" /\ job[w].pkt \in Packets /\ a \in Acc /\ a.sum \in Nat
    BY JobFacts DEF Decide
  <1>2. b \in Acc /\ b.sum >= a.sum
    BY <1>1, SignalsCount, PacketsAssumption
  <1>3. at \in {"observe_port", "report"}
    OBVIOUS
  <1>4. (phase = "Refinement" /\ a.sum >= 30) => at = "report"
    <2>1. ASSUME phase = "Refinement", a.sum >= 30
          PROVE  at = "report"
      <3>1. b.sum >= THRESHOLD_INFO
        BY <1>1, <1>2, <2>1 DEF Acc, THRESHOLD_INFO
      <3>2. ~is_clean(b)
        <4> HIDE DEF b
        <4> QED BY <1>2, <3>1, NotClean
      <3> QED BY <2>1, <3>2
    <2> QED BY <2>1
  <1>5. Goto(w, at, b)
    BY DEF Decide
  <1> HIDE DEF b, at
  <1>6. at \in Steps
    BY <1>3 DEF Steps
  <1>7. Moved(w) /\ job'[w].at = at
    BY <1>1, <1>2, <1>5, <1>6, GotoMoves
  <1> QED BY <1>3, <1>4, <1>7

\* The three observe_* steps: worker w moves from `at` to `next`.
LEMMA ObserveMoves ==
    ASSUME JobType, NEW w \in Workers, NEW at \in Steps \ {"idle"}, NEW next \in Steps,
           NEW kind, NEW value, ObserveStep(w, at, kind, value, next)
    PROVE  Moved(w) /\ job'[w].at = next
  <1>1. job[w].at = at /\ job[w].acc \in Acc /\ job[w].acc.sum \in Nat
    BY JobFacts DEF ObserveStep
  <1>2. Goto(w, next, job[w].acc)
    BY DEF ObserveStep
  <1> QED BY <1>1, <1>2, GotoMoves

\* Reporting ends the job.
LEMMA ReportMoves ==
    ASSUME JobType, NEW w \in Workers, Report(w)
    PROVE  /\ JobType'
           /\ job'[w].at = "idle"
           /\ \A v \in Workers : v # w => job'[v] = job[v]
  <1>1. /\ job' = [job EXCEPT ![w] = Idle] /\ Idle \in Job /\ Idle.at = "idle"
    BY Constants DEF Report
  <1>2. job' \in [Workers -> Job]
    BY <1>1 DEF JobType
  <1>3. job'[w] = Idle /\ \A v \in Workers : v # w => job'[v] = job[v]
    BY <1>1 DEF JobType
  <1> QED BY <1>1, <1>2, <1>3, Zenon DEF JobType

\* analyze begins with the country, if there is one.
LEMMA BeginMoves ==
    ASSUME JobType, NEW w \in Workers, NEW p \in Packets, Begin(w, p)
    PROVE  /\ JobType'
           /\ job'[w].at = IF p.country = None THEN "dns" ELSE "geo_phase"
           /\ job'[w].pkt = p
           /\ \A v \in Workers : v # w => job'[v] = job[v]
  <1> DEFINE s == p.early \o (IF p.country = None THEN p.payload ELSE <<>>)
             acc == AddSignals(NoSignals, s)
             at == IF p.country = None THEN "dns" ELSE "geo_phase"
             new == [at |-> at, pkt |-> p, acc |-> acc]
  <1>1. s \in Seq(Signals)
    <2>1. p.early \in Seq(Signals) /\ p.payload \in Seq(Signals) /\ <<>> \in Seq(Signals)
      BY PacketsAssumption
    <2> QED BY <2>1, ConcatProperties
  <1>2. acc \in Acc
    <2> HIDE DEF s
    <2> QED BY <1>1, Constants, SignalsCount
  <1>3. at \in Steps /\ at # "idle"
    BY DEF Steps
  <1>4. job' = [job EXCEPT ![w] = new]
    BY Zenon DEF Begin
  <1> HIDE DEF at, acc
  <1>5. new \in Job /\ new.at = at /\ new.pkt = p
    BY <1>2, <1>3 DEF Job
  <1> HIDE DEF new
  <1>6. job' \in [Workers -> Job]
    BY <1>4, <1>5 DEF JobType
  <1>7. job'[w] = new /\ \A v \in Workers : v # w => job'[v] = job[v]
    BY <1>4 DEF JobType
  <1>8. JobType'
    BY <1>5, <1>6, <1>7, Zenon DEF JobType
  <1> QED BY <1>5, <1>7, <1>8, Zenon DEF at

-----------------------------------------------------------------------------
(* The types are kept. *)

\* A packet's trait, if there is one, is a trait that may be stored.
LEMMA TraitTypes ==
    ASSUME NEW p \in Packets
    PROVE  /\ p.port # None => p.port \in Ports
           /\ p.country # None => p.country \in Countries
           /\ p.domain # None => p.domain \in Domains
  BY DEF Ports, Countries, Domains

\* Learning a value adds it to its set and to nothing else.
LEMMA ObserveType ==
    ASSUME BaseType, NEW kind, NEW value, Observe(kind, value),
           \/ kind = "ports" /\ value \in Ports
           \/ kind = "countries" /\ value \in Countries
           \/ kind = "domains" /\ value \in Domains
    PROVE  BaseType' /\ known' = [known EXCEPT ![kind] = @ \cup {value}]
  <1>1. known \in Known /\ known' = [known EXCEPT ![kind] = @ \cup {value}]
    BY DEF BaseType, Observe
  <1>2. known' \in Known
    <2>1. CASE kind = "ports" /\ value \in Ports
      BY <1>1, <2>1 DEF Known
    <2>2. CASE kind = "countries" /\ value \in Countries
      BY <1>1, <2>2 DEF Known
    <2>3. CASE kind = "domains" /\ value \in Domains
      BY <1>1, <2>3 DEF Known
    <2> QED BY <2>1, <2>2, <2>3
  <1>3. UNCHANGED <<learned, phase, phaseLock, persisting, json, file>>
    BY DEF Observe
  <1> QED BY <1>1, <1>2, <1>3 DEF BaseType

\* Taking the snapshot under the lock keeps the types of the baseline.
LEMMA PersistLockType ==
    ASSUME BaseType, NEW t \in Persisters, PersistLock(t)
    PROVE  BaseType'
  <1>1. Serialize \in File
    BY SerializeType
  <1>2. json' \in [Persisters -> File]
    BY <1>1 DEF BaseType, PersistLock
  <1>3. persisting' \in [Persisters -> {"idle", "locked", "truncated"}]
    BY DEF BaseType, PersistLock
  <1>4. UNCHANGED <<known, learned, phase, phaseLock, file>>
    BY DEF PersistLock
  <1> QED BY <1>2, <1>3, <1>4 DEF BaseType

\* Writing it, or failing to, keeps them and what is known.
LEMMA PersistIOType ==
    ASSUME BaseType, NEW t \in Persisters, PersistIO(t)
    PROVE  BaseType' /\ UNCHANGED <<known, learned, phase, phaseLock>>
  <1>1. UNCHANGED <<known, learned, phase, phaseLock>>
    BY DEF PersistIO, PersistTruncate, PersistWrite, PersistError
  <1>2. persisting' \in [Persisters -> {"idle", "locked", "truncated"}]
    BY DEF BaseType, PersistIO, PersistTruncate, PersistWrite, PersistError
  <1>3. json' \in [Persisters -> File]
    BY Constants DEF BaseType, PersistIO, PersistTruncate, PersistWrite, PersistError
  <1>4. file' \in File
    BY Constants DEF BaseType, PersistIO, PersistTruncate, PersistWrite, PersistError
  <1> QED BY <1>1, <1>2, <1>3, <1>4 DEF BaseType

\* A restart takes over what the file says.
LEMMA LoadType ==
    ASSUME BaseType, Load(file)
    PROVE  BaseType' /\ known' = file.known
  <1>1. file.known \in Known /\ file.learned \in BOOLEAN
    BY DEF BaseType, File
  <1>2. known' \in Known /\ learned' \in BOOLEAN /\ known' = file.known
    BY <1>1, Zenon DEF Load
  <1>3. phase' \in {"Learning", "Refinement"} /\ phaseLock' \in BOOLEAN
    BY DEF Load
  <1>4. persisting' \in [Persisters -> {"idle", "locked", "truncated"}]
    BY DEF Load
  <1>5. json' \in [Persisters -> File] /\ file' \in File
    BY Constants DEF Load, BaseType
  <1> QED BY <1>2, <1>3, <1>4, <1>5, Zenon DEF BaseType

\* What is written is a file.
LEMMA SavedType ==
    ASSUME TypeInv, NEW t \in Persisters, SavedAfterIO(t)
    PROVE  saved' \in File /\ failed' \in BOOLEAN
  <1>1. saved \in File /\ json[t] \in File
    BY DEF TypeInv, BaseType, OwnType
  <1> DEFINE k1 == [k \in DOMAIN saved.known |-> saved.known[k] \cup json[t].known[k]]
             s1 == [valid |-> TRUE, known |-> k1, learned |-> saved.learned \/ json[t].learned]
  <1>2. k1 \in Known
    <2>1. saved.known \in Known /\ json[t].known \in Known
      BY <1>1 DEF File
    <2> DEFINE x == saved.known
               y == json[t].known
    <2> HIDE DEF x, y
    <2>2. [k \in DOMAIN x |-> x[k] \cup y[k]] \in Known
      BY <2>1 DEF x, y, Known
    <2> QED BY <2>2 DEF x, y
  <1>3. saved.learned \/ json[t].learned \in BOOLEAN
    BY <1>1, Zenon DEF File
  <1>4. s1 \in File
    <2> HIDE DEF k1
    <2> QED BY <1>1, <1>2, <1>3, Zenon DEF File
  <1>5. saved' = s1 \/ saved' = saved
    BY Zenon DEF SavedAfterIO
  <1>6. failed' \in BOOLEAN
    BY Zenon DEF SavedAfterIO, TypeInv, OwnType
  <1> HIDE DEF s1
  <1> QED BY <1>1, <1>4, <1>5, <1>6

\* Each observe_* step stores a trait of a packet, or nothing.
LEMMA ObserveStepType ==
    ASSUME TypeInv, NEW w \in Workers,
           NEW at \in Steps \ {"idle"}, NEW next \in Steps, NEW kind, NEW value,
           ObserveStep(w, at, kind, value, next),
           \/ kind = "ports" /\ value = job[w].pkt.port
           \/ kind = "countries" /\ value = job[w].pkt.country
           \/ kind = "domains" /\ value = job[w].pkt.domain
    PROVE  TypeInv'
  <1>1. job[w].at = at /\ job[w].pkt \in Packets
    BY JobFacts DEF ObserveStep, TypeInv
  <1>2. JobType'
    BY ObserveMoves DEF TypeInv, Moved
  <1>3. BaseType'
    <2>1. CASE value = None
      <3>1. UNCHANGED baselineVars
        BY <2>1 DEF ObserveStep
      <3> QED BY <3>1 DEF TypeInv, BaseType, baselineVars
    <2>2. CASE value # None
      <3>1. Observe(kind, value)
        BY <2>2 DEF ObserveStep
      <3>2. \/ kind = "ports" /\ value \in Ports
            \/ kind = "countries" /\ value \in Countries
            \/ kind = "domains" /\ value \in Domains
        BY <1>1, <2>2, TraitTypes
      <3> QED BY <3>1, <3>2, ObserveType DEF TypeInv
    <2> QED BY <2>1, <2>2
  <1>4. OwnType'
    BY DEF ObserveStep, OnlyWorker, TypeInv, OwnType
  <1> QED BY <1>2, <1>3, <1>4 DEF TypeInv

\* Every step of the engine keeps TypeInv.
LEMMA TypeStep == TypeInv /\ [Next]_vars => TypeInv'
  <1> SUFFICES ASSUME TypeInv, [Next]_vars PROVE TypeInv'
    OBVIOUS
  <1>1. ASSUME NEW w \in Workers, NEW p \in Packets, Begin(w, p)
        PROVE  TypeInv'
    <2>1. JobType'
      BY <1>1, BeginMoves DEF TypeInv
    <2> QED BY <1>1, <2>1 DEF Begin, OnlyWorker, TypeInv, BaseType, OwnType, baselineVars
  <1>2. ASSUME NEW w \in Workers, Analyze(w)
        PROVE  TypeInv'
    <2>1. ASSUME JobType', OnlyWorker, UNCHANGED baselineVars
          PROVE  TypeInv'
      BY <2>1 DEF OnlyWorker, TypeInv, BaseType, OwnType, baselineVars
    <2>2. CASE GeoPhase(w)
      BY <2>1, <2>2, GeoPhaseMoves DEF TypeInv, Moved, GeoPhase
    <2>3. CASE GeoKnown(w)
      BY <2>1, <2>3, GeoKnownMoves DEF TypeInv, Moved, GeoKnown
    <2>4. CASE Dns(w)
      BY <2>1, <2>4, DnsMoves DEF TypeInv, Moved, Dns
    <2>5. CASE PortPhase(w)
      BY <2>1, <2>5, PortPhaseMoves DEF TypeInv, Moved, PortPhase
    <2>6. CASE PortKnown(w)
      BY <2>1, <2>6, PortKnownMoves DEF TypeInv, Moved, PortKnown
    <2>7. CASE Decide(w)
      BY <2>1, <2>7, DecideMoves DEF TypeInv, Moved, Decide
    <2> DEFINE busy == Steps \ {"idle"}
    <2>8. /\ "observe_port" \in busy /\ "observe_country" \in busy
          /\ "observe_domain" \in busy /\ "report" \in busy
      BY DEF Steps
    <2>9. CASE ObservePort(w)
      BY <2>8, <2>9, ObserveStepType DEF ObservePort
    <2>10. CASE ObserveCountry(w)
      BY <2>8, <2>10, ObserveStepType DEF ObserveCountry
    <2>11. CASE ObserveDomain(w)
      BY <2>8, <2>11, ObserveStepType DEF ObserveDomain
    <2>12. CASE Report(w)
      BY <2>1, <2>12, ReportMoves DEF TypeInv, Report
    <2> QED BY <1>2, <2>2, <2>3, <2>4, <2>5, <2>6, <2>7, <2>9, <2>10, <2>11, <2>12
            DEF Analyze
  <1>3. "sweeper" \in Persisters /\ "main" \in Persisters
    BY SweeperAndMainPersist
  <1>4. ASSUME OnlySweeper PROVE JobType' /\ UNCHANGED <<elapsed, stopping>>
    BY <1>4 DEF OnlySweeper, TypeInv, JobType
  <1>5. CASE Sweep
    <2>1. CASE SweeperTick
      BY <1>4, <2>1 DEF SweeperTick, TypeInv, BaseType, OwnType, baselineVars
    <2>2. CASE SweeperFlip
      BY <1>4, <2>2 DEF SweeperFlip, FinishLearningFlip, TypeInv, BaseType, OwnType
    <2>3. CASE SweeperStamp
      BY <1>4, <2>3 DEF SweeperStamp, FinishLearningStamp, TypeInv, BaseType, OwnType
    <2>4. CASE SweeperSave
      BY <1>3, <1>4, <2>4, PersistLockType DEF SweeperSave, TypeInv, OwnType
    <2>5. CASE SweeperIO
      BY <1>3, <1>4, <2>5, PersistIOType, SavedType DEF SweeperIO, TypeInv, OwnType
    <2>6. CASE SweeperUnlock
      BY <1>4, <2>6 DEF SweeperUnlock, FinishLearningUnlock, TypeInv, BaseType, OwnType
    <2> QED BY <1>5, <2>1, <2>2, <2>3, <2>4, <2>5, <2>6 DEF Sweep
  <1>6. CASE LearningTimeOver
    BY <1>6 DEF LearningTimeOver, TypeInv, JobType, BaseType, OwnType, baselineVars
  <1>7. CASE MainSave
    <2>1. BaseType'
      BY <1>3, <1>7, PersistLockType DEF MainSave, TypeInv
    <2> QED BY <1>7, <2>1 DEF MainSave, TypeInv, JobType, OwnType
  <1>8. CASE MainIO
    <2>1. BaseType' /\ saved' \in File /\ failed' \in BOOLEAN
      BY <1>3, <1>8, PersistIOType, SavedType DEF MainIO, TypeInv
    <2> QED BY <1>8, <2>1 DEF MainIO, TypeInv, JobType, OwnType
  <1>9. CASE Restart
    <2>1. BaseType'
      BY <1>9, LoadType DEF Restart, TypeInv
    <2>2. JobType'
      <3>1. job' = [w \in Workers |-> Idle] /\ Idle \in Job /\ Idle.at = "idle"
        BY <1>9, Constants DEF Restart
      <3>2. \A w \in Workers : job'[w] = Idle
        BY <3>1
      <3>3. job' \in [Workers -> Job]
        BY <3>1
      <3> QED BY <3>1, <3>2, <3>3, Zenon DEF JobType
    <2>3. saved' \in File
      BY <1>9, Constants DEF Restart, TypeInv, OwnType
    <2>4. OwnType'
      BY <1>9, <2>3 DEF Restart, OwnType
    <2> QED BY <2>1, <2>2, <2>4 DEF TypeInv
  <1>10. CASE UNCHANGED vars
    BY <1>10 DEF vars, baselineVars, engineVars, TypeInv, JobType, BaseType, OwnType
  <1> QED BY <1>1, <1>2, <1>5, <1>6, <1>7, <1>8, <1>9, <1>10 DEF Next

\* TypeInv holds when the engine starts.
LEMMA TypeStart == Init => TypeInv
  <1> SUFFICES ASSUME Init PROVE TypeInv
    OBVIOUS
  <1>1. BaseType
    <2>1. json \in [Persisters -> File] /\ file \in File /\ known \in Known
      BY Constants DEF Init, BaselineInit
    <2> QED BY <2>1 DEF Init, BaselineInit, BaseType
  <1>2. JobType
    <2>1. job = [w \in Workers |-> Idle] /\ Idle \in Job /\ Idle.at = "idle"
      BY Constants DEF Init
    <2>2. \A w \in Workers : job[w] = Idle
      BY <2>1
    <2>3. job \in [Workers -> Job]
      BY <2>1
    <2> QED BY <2>1, <2>2, <2>3, Zenon DEF JobType
  <1>3. OwnType
    BY Constants DEF Init, OwnType
  <1> QED BY <1>1, <1>2, <1>3 DEF TypeInv

\* The types hold for any number of workers and packets, and no absent trait
\* is ever stored: each observe_* call of analyze is made only for a trait
\* that the packet has, and what a restart loads was written by a persist.
THEOREM EngineTypeCorrect == Spec => []TypeOK
  <1>1. Spec => []TypeInv
    BY TypeStart, TypeStep, PTL DEF Spec
  <1> QED BY <1>1, TypeInvIsTypeOK, PTL

-----------------------------------------------------------------------------
(* The file is never set back to an older baseline. *)

Kinds == {"ports", "countries", "domains"}

\* What is known is known by kind.
LEMMA KnownDomain == \A x \in Known : DOMAIN x = Kinds
  BY DEF Known, Kinds

\* x holds at least what y holds.
Covers(x, y) == \A k \in Kinds : y[k] \subseteq x[k]

\* A thread that saves holds the state as it is now, since the state lock
\* keeps the writers out, and the state has all that was ever written.
PersistInv ==
    /\ \A t \in Persisters : persisting[t] # "idle" => json[t] = Serialize
    /\ Covers(known, saved.known) /\ (saved.learned => learned)
    /\ file.valid => Covers(file.known, saved.known) /\ (saved.learned => file.learned)

\* Once something was saved, the file parses unless a save is under way or the
\* last one failed.
TornInv ==
    saved.valid => \/ file.valid
                   \/ failed
                   \/ \E t \in Persisters : persisting[t] = "truncated"

\* PersistInv and TornInv are the strengthening that FileIsNewest needs.
LEMMA PersistInvIsNewest == TypeInv /\ PersistInv /\ TornInv => FileIsNewest
  <1> SUFFICES ASSUME TypeInv, PersistInv, TornInv PROVE FileIsNewest
    OBVIOUS
  <1>1. saved.known \in Known
    BY DEF TypeInv, OwnType, File
  <1>2. DOMAIN saved.known = Kinds
    BY <1>1, KnownDomain
  <1> QED BY <1>2, Zenon DEF PersistInv, TornInv, FileIsNewest, Covers

\* Steps that leave the baseline and what was saved alone.
LEMMA PersistKept ==
    ASSUME PersistInv, UNCHANGED <<known, learned, persisting, json, file, saved>>
    PROVE  PersistInv'
  BY DEF PersistInv, Serialize, Covers

\* Steps that write to the state: no thread is saving.
LEMMA PersistAfterWrite ==
    ASSUME PersistInv, StateWritable, Covers(known', known), learned => learned',
           UNCHANGED <<persisting, json, file, saved>>
    PROVE  PersistInv'
  <1>1. \A t \in Persisters : persisting'[t] = "idle"
    BY DEF StateWritable
  <1>2. Covers(known', saved'.known)
    BY DEF PersistInv, Covers
  <1>3. saved'.learned => learned'
    BY Zenon DEF PersistInv
  <1>4. file'.valid => Covers(file'.known, saved'.known) /\ (saved'.learned => file'.learned)
    BY Zenon DEF PersistInv
  <1> QED BY <1>1, <1>2, <1>3, <1>4, Zenon DEF PersistInv, Covers

\* Taking a snapshot keeps PersistInv: it is the newest there is.
LEMMA PersistAfterLock ==
    ASSUME TypeInv, PersistInv, NEW t \in Persisters, PersistLock(t), saved' = saved
    PROVE  PersistInv'
  <1>1. Serialize' = Serialize
    BY DEF PersistLock, Serialize
  <1>2. \A u \in Persisters : persisting'[u] # "idle" => json'[u] = Serialize'
    <2>1. json'[t] = Serialize
      BY DEF PersistLock, TypeInv, BaseType
    <2>2. \A u \in Persisters : u # t => persisting'[u] = persisting[u] /\ json'[u] = json[u]
      BY DEF PersistLock, TypeInv, BaseType
    <2> QED BY <1>1, <2>1, <2>2, Zenon DEF PersistInv
  <1>3. UNCHANGED <<known, learned, file, saved>>
    BY DEF PersistLock
  <1> QED BY <1>2, <1>3, Zenon DEF PersistInv, Covers

\* Writing it keeps PersistInv: the lock kept older ones out.
LEMMA PersistAfterIO ==
    ASSUME TypeInv, PersistInv, NEW t \in Persisters, PersistIO(t), SavedAfterIO(t)
    PROVE  PersistInv'
  <1>1. UNCHANGED <<known, learned>> /\ Serialize' = Serialize
    BY DEF PersistIO, PersistTruncate, PersistWrite, PersistError, Serialize
  <1>2. persisting[t] # "idle" /\ json[t] = Serialize
    BY DEF PersistInv, PersistIO, PersistTruncate, PersistWrite, PersistError
  <1>3. \A u \in Persisters : persisting'[u] # "idle" => json'[u] = Serialize'
    <2>1. \A u \in Persisters : u # t => persisting'[u] = persisting[u] /\ json'[u] = json[u]
      BY DEF PersistIO, PersistTruncate, PersistWrite, PersistError, TypeInv, BaseType
    <2>2. persisting'[t] = "idle" \/ json'[t] = json[t]
      BY DEF PersistIO, PersistTruncate, PersistWrite, PersistError, TypeInv, BaseType
    <2> QED BY <1>1, <1>2, <2>1, <2>2, Zenon DEF PersistInv
  <1>4. saved \in File /\ saved.known \in Known /\ known \in Known
    BY DEF TypeInv, BaseType, OwnType, File
  <1>5. Serialize.known = known /\ Serialize.learned = learned /\ Serialize.valid = TRUE
    BY SerializeType DEF TypeInv
  <1>6. CASE persisting[t] = "truncated" /\ file' = json[t]
    <2> DEFINE k1 == [k \in DOMAIN saved.known |-> saved.known[k] \cup known[k]]
               s1 == [valid |-> TRUE, known |-> k1, learned |-> saved.learned \/ learned]
    <2>1. saved' = s1
      <3>1. saved' = [valid |-> TRUE,
                      known |-> [k \in DOMAIN saved.known |->
                                   saved.known[k] \cup json[t].known[k]],
                      learned |-> saved.learned \/ json[t].learned]
        BY <1>6, Zenon DEF SavedAfterIO
      <3>2. json[t].known = known /\ json[t].learned = learned
        BY <1>2, <1>5, Zenon
      <3> QED BY <3>1, <3>2, Zenon
    <2>2. Covers(known, k1)
      <3>1. DOMAIN saved.known = Kinds
        BY <1>4, KnownDomain
      <3>2. \A k \in Kinds : saved.known[k] \subseteq known[k]
        BY DEF PersistInv, Covers
      <3> QED BY <3>1, <3>2, Zenon DEF Covers
    <2>3. saved.learned \/ learned => learned
      BY Zenon DEF PersistInv
    <2>4. s1.known = k1 /\ s1.learned = (saved.learned \/ learned)
      BY Zenon
    <2> HIDE DEF k1, s1
    <2>5. saved'.known = k1 /\ saved'.learned = (saved.learned \/ learned)
      BY <2>1, <2>4, Zenon
    <2>6. file'.known = known /\ file'.learned = learned
      BY <1>2, <1>5, <1>6, Zenon
    <2>7. Covers(known', saved'.known) /\ (saved'.learned => learned')
      BY <1>1, <2>2, <2>3, <2>5, Zenon
    <2>8. Covers(file'.known, saved'.known) /\ (saved'.learned => file'.learned)
      BY <2>2, <2>3, <2>5, <2>6, Zenon
    <2> QED BY <1>3, <2>7, <2>8, Zenon DEF PersistInv, Covers
  <1>7. CASE ~(persisting[t] = "truncated" /\ file' = json[t])
    <2>1. saved' = saved
      BY <1>7, Zenon DEF SavedAfterIO
    <2>2. file' = file \/ file' = Unreadable
      BY <1>7 DEF PersistIO, PersistTruncate, PersistWrite, PersistError
    <2>3. Unreadable.valid = FALSE
      BY DEF Unreadable
    <2>4. Covers(known', saved'.known) /\ (saved'.learned => learned')
      BY <1>1, <2>1, Zenon DEF PersistInv
    <2>5. CASE file' = file
      BY <1>3, <2>1, <2>4, <2>5, Zenon DEF PersistInv, Covers
    <2>6. CASE file' = Unreadable
      BY <1>3, <2>3, <2>4, <2>6, Zenon DEF PersistInv, Covers
    <2> QED BY <2>2, <2>5, <2>6
  <1> QED BY <1>6, <1>7

\* Every step of the engine keeps PersistInv.
LEMMA PersistStep == TypeInv /\ PersistInv /\ [Next]_vars => PersistInv'
  <1> SUFFICES ASSUME TypeInv, PersistInv, [Next]_vars PROVE PersistInv'
    OBVIOUS
  <1>1. ASSUME UNCHANGED baselineVars, UNCHANGED saved
        PROVE  PersistInv'
    BY <1>1, PersistKept DEF baselineVars
  <1>2. ASSUME NEW w \in Workers, NEW at, NEW kind \in Kinds, NEW value, NEW next,
               ObserveStep(w, at, kind, value, next)
        PROVE  PersistInv'
    <2>1. saved' = saved
      BY <1>2 DEF ObserveStep, OnlyWorker
    <2>2. CASE value = None
      BY <1>1, <1>2, <2>1, <2>2 DEF ObserveStep
    <2>3. CASE value # None
      <3>1. Observe(kind, value)
        BY <1>2, <2>3 DEF ObserveStep
      <3>2. Covers(known', known)
        <4>1. known \in Known /\ DOMAIN known = Kinds
          BY KnownDomain DEF TypeInv, BaseType
        <4>2. known' = [known EXCEPT ![kind] = @ \cup {value}]
          BY <3>1 DEF Observe
        <4> QED BY <4>1, <4>2 DEF Covers
      <3> QED BY <2>1, <3>1, <3>2, PersistAfterWrite DEF Observe
    <2> QED BY <2>2, <2>3
  <1>3. "sweeper" \in Persisters /\ "main" \in Persisters
    BY SweeperAndMainPersist
  <1>4. ASSUME NEW w \in Workers, NEW p \in Packets, Begin(w, p)
        PROVE  PersistInv'
    BY <1>1, <1>4 DEF Begin, OnlyWorker
  <1>5. ASSUME NEW w \in Workers, Analyze(w)
        PROVE  PersistInv'
    <2>1. "ports" \in Kinds /\ "countries" \in Kinds /\ "domains" \in Kinds
      BY DEF Kinds
    <2>2. CASE ObservePort(w)
      BY <1>2, <2>1, <2>2 DEF ObservePort
    <2>3. CASE ObserveCountry(w)
      BY <1>2, <2>1, <2>3 DEF ObserveCountry
    <2>4. CASE ObserveDomain(w)
      BY <1>2, <2>1, <2>4 DEF ObserveDomain
    <2>5. CASE GeoPhase(w) \/ GeoKnown(w) \/ Dns(w)
      BY <1>1, <2>5 DEF GeoPhase, GeoKnown, Dns, OnlyWorker
    <2>6. CASE PortPhase(w) \/ PortKnown(w) \/ Decide(w) \/ Report(w)
      BY <1>1, <2>6 DEF PortPhase, PortKnown, Decide, Report, OnlyWorker
    <2> QED BY <1>5, <2>2, <2>3, <2>4, <2>5, <2>6 DEF Analyze
  <1>6. CASE Sweep
    <2>1. CASE SweeperTick
      BY <1>1, <2>1 DEF SweeperTick
    <2>2. CASE SweeperFlip
      BY <2>2, PersistKept DEF SweeperFlip, FinishLearningFlip
    <2>3. CASE SweeperStamp
      <3>1. StateWritable /\ UNCHANGED <<known, persisting, json, file, saved>> /\ learned'
        BY <2>3, Zenon DEF SweeperStamp, FinishLearningStamp
      <3>2. Covers(known', known)
        BY <3>1 DEF Covers
      <3> QED BY <3>1, <3>2, PersistAfterWrite
    <2>4. CASE SweeperSave
      BY <1>3, <2>4, PersistAfterLock DEF SweeperSave
    <2>5. CASE SweeperIO
      BY <1>3, <2>5, PersistAfterIO DEF SweeperIO
    <2>6. CASE SweeperUnlock
      BY <2>6, PersistKept DEF SweeperUnlock, FinishLearningUnlock
    <2> QED BY <1>6, <2>1, <2>2, <2>3, <2>4, <2>5, <2>6 DEF Sweep
  <1>7. CASE LearningTimeOver
    BY <1>1, <1>7 DEF LearningTimeOver
  <1>8. CASE MainSave
    BY <1>3, <1>8, PersistAfterLock DEF MainSave
  <1>9. CASE MainIO
    BY <1>3, <1>9, PersistAfterIO DEF MainIO
  <1>10. CASE Restart
    <2>1. /\ known' = file.known /\ learned' = file.learned /\ file' = file
          /\ saved' = IF file.valid THEN saved ELSE Unreadable
      BY <1>10 DEF Restart, Load
    <2>2. \A t \in Persisters : persisting'[t] = "idle"
      BY <1>10 DEF Restart, Load
    <2>3. Covers(file.known, saved'.known) /\ (saved'.learned => file.learned)
      <3>1. CASE file.valid
        BY <2>1, <3>1, Zenon DEF PersistInv
      <3>2. CASE ~file.valid
        <4>1. saved'.known = NothingKnown /\ saved'.learned = FALSE
          BY <2>1, <3>2 DEF Unreadable
        <4>2. \A k \in Kinds : NothingKnown[k] = {}
          BY DEF NothingKnown, Kinds
        <4>3. Covers(file.known, saved'.known)
          BY <4>1, <4>2, Zenon DEF Covers
        <4> QED BY <4>1, <4>3
      <3> QED BY <3>1, <3>2
    <2> QED BY <2>1, <2>2, <2>3, Zenon DEF PersistInv, Covers
  <1>11. CASE UNCHANGED vars
    BY <1>1, <1>11 DEF vars, engineVars
  <1> QED BY <1>4, <1>5, <1>6, <1>7, <1>8, <1>9, <1>10, <1>11 DEF Next

\* PersistInv holds at the start: nothing was saved.
LEMMA PersistStart == Init => PersistInv
  <1> SUFFICES ASSUME Init PROVE PersistInv
    OBVIOUS
  <1>1. known = NothingKnown /\ saved = Unreadable /\ file = Unreadable
    BY DEF Init, BaselineInit
  <1>2. Unreadable.known = NothingKnown /\ Unreadable.learned = FALSE
        /\ Unreadable.valid = FALSE
    BY DEF Unreadable
  <1>3. \A t \in Persisters : persisting[t] = "idle"
    BY DEF Init, BaselineInit
  <1>4. Covers(known, saved.known)
    BY <1>1, <1>2 DEF Covers
  <1> QED BY <1>1, <1>2, <1>3, <1>4, Zenon DEF PersistInv

\* Steps that leave the file and its history alone, and end no save.
LEMMA TornKept ==
    ASSUME TornInv, UNCHANGED <<saved, failed, file>>,
           \A t \in Persisters : persisting[t] = "truncated" => persisting'[t] = "truncated"
    PROVE  TornInv'
  BY Zenon DEF TornInv

\* A snapshot is taken by a thread that is not in the middle of a save.
LEMMA TornAfterLock ==
    ASSUME TypeInv, TornInv, NEW t \in Persisters, PersistLock(t), UNCHANGED <<saved, failed>>
    PROVE  TornInv'
  <1>1. \A u \in Persisters : persisting[u] = "truncated" => persisting'[u] = "truncated"
    BY DEF PersistLock, TypeInv, BaseType
  <1>2. file' = file
    BY DEF PersistLock
  <1> QED BY <1>1, <1>2, TornKept

\* A step of a save leaves a file that parses, the thread in the middle of the
\* save, or a failure on record.
LEMMA TornAfterIO ==
    ASSUME TypeInv, PersistInv, TornInv, NEW t \in Persisters, PersistIO(t), SavedAfterIO(t)
    PROVE  TornInv'
  <1>1. persisting[t] # "idle" /\ json[t].valid = TRUE
    <2>1. persisting[t] # "idle"
      BY DEF PersistIO, PersistTruncate, PersistWrite, PersistError
    <2> QED BY <2>1, SerializeType, Zenon DEF PersistInv, TypeInv
  <1>2. CASE PersistTruncate(t)
    <2>1. persisting'[t] = "truncated"
      BY <1>2 DEF PersistTruncate, TypeInv, BaseType
    <2> QED BY <2>1, Zenon DEF TornInv
  <1>3. CASE PersistWrite(t)
    <2>1. file' = json[t]
      BY <1>3 DEF PersistWrite
    <2> QED BY <1>1, <2>1, Zenon DEF TornInv
  <1>4. CASE PersistError(t) /\ persisting[t] = "locked"
    <2>1. \A u \in Persisters : persisting[u] = "truncated" => persisting'[u] = "truncated"
      BY <1>4 DEF PersistError, TypeInv, BaseType
    <2>2. UNCHANGED <<saved, failed, file>>
      BY <1>4 DEF PersistError, SavedAfterIO
    <2> QED BY <2>1, <2>2, TornKept
  <1>5. CASE PersistError(t) /\ persisting[t] = "truncated"
    <2>1. persisting'[t] = "idle"
      BY <1>5 DEF PersistError, TypeInv, BaseType
    <2>2. failed' = (file' # json[t])
      BY <1>5, <2>1, Zenon DEF SavedAfterIO
    <2> QED BY <1>1, <2>2, Zenon DEF TornInv
  <1> QED BY <1>2, <1>3, <1>4, <1>5 DEF PersistIO, PersistError

\* Every step of the engine keeps TornInv.
LEMMA TornStep == TypeInv /\ PersistInv /\ TornInv /\ [Next]_vars => TornInv'
  <1> SUFFICES ASSUME TypeInv, PersistInv, TornInv, [Next]_vars PROVE TornInv'
    OBVIOUS
  <1>1. ASSUME UNCHANGED <<saved, failed, file, persisting>>
        PROVE  TornInv'
    BY <1>1, TornKept
  <1>2. "sweeper" \in Persisters /\ "main" \in Persisters
    BY SweeperAndMainPersist
  <1>3. ASSUME NEW w \in Workers, NEW at, NEW kind, NEW value, NEW next,
               ObserveStep(w, at, kind, value, next)
        PROVE  TornInv'
    BY <1>1, <1>3 DEF ObserveStep, Observe, OnlyWorker, baselineVars
  <1>4. ASSUME NEW w \in Workers, NEW p \in Packets, Begin(w, p)
        PROVE  TornInv'
    BY <1>1, <1>4 DEF Begin, OnlyWorker, baselineVars
  <1>5. ASSUME NEW w \in Workers, Analyze(w)
        PROVE  TornInv'
    <2>1. CASE ObservePort(w)
      BY <1>3, <2>1 DEF ObservePort
    <2>2. CASE ObserveCountry(w)
      BY <1>3, <2>2 DEF ObserveCountry
    <2>3. CASE ObserveDomain(w)
      BY <1>3, <2>3 DEF ObserveDomain
    <2>4. CASE GeoPhase(w) \/ GeoKnown(w) \/ Dns(w)
      BY <1>1, <2>4 DEF GeoPhase, GeoKnown, Dns, OnlyWorker, baselineVars
    <2>5. CASE PortPhase(w) \/ PortKnown(w) \/ Decide(w) \/ Report(w)
      BY <1>1, <2>5 DEF PortPhase, PortKnown, Decide, Report, OnlyWorker, baselineVars
    <2> QED BY <1>5, <2>1, <2>2, <2>3, <2>4, <2>5 DEF Analyze
  <1>6. CASE Sweep
    <2>1. CASE SweeperTick \/ SweeperFlip \/ SweeperStamp \/ SweeperUnlock
      BY <1>1, <2>1 DEF SweeperTick, SweeperFlip, SweeperStamp, SweeperUnlock, baselineVars,
                        FinishLearningFlip, FinishLearningStamp, FinishLearningUnlock
    <2>2. CASE SweeperSave
      BY <1>2, <2>2, TornAfterLock DEF SweeperSave
    <2>3. CASE SweeperIO
      BY <1>2, <2>3, TornAfterIO DEF SweeperIO
    <2> QED BY <1>6, <2>1, <2>2, <2>3 DEF Sweep
  <1>7. CASE LearningTimeOver
    BY <1>1, <1>7 DEF LearningTimeOver, baselineVars
  <1>8. CASE MainSave
    BY <1>2, <1>8, TornAfterLock DEF MainSave
  <1>9. CASE MainIO
    BY <1>2, <1>9, TornAfterIO DEF MainIO
  <1>10. CASE Restart
    <2>1. file' = file /\ saved' = IF file.valid THEN saved ELSE Unreadable
      BY <1>10 DEF Restart, Load
    <2>2. Unreadable.valid = FALSE
      BY DEF Unreadable
    <2> QED BY <2>1, <2>2, Zenon DEF TornInv
  <1>11. CASE UNCHANGED vars
    BY <1>1, <1>11 DEF vars, engineVars, baselineVars
  <1> QED BY <1>4, <1>5, <1>6, <1>7, <1>8, <1>9, <1>10, <1>11 DEF Next

\* The sweeper and main may save at the same time, fail half-way, or be
\* killed, and the agent may be started again any number of times: a baseline
\* file that parses holds all that was written before it, and one that does
\* not parse is in the middle of a save, or its last write has failed.  A
\* process that ends in such a state loses what was saved, and the history
\* begins anew with the next one; one that ends in any other state loses
\* nothing.  It rests on the state lock that persist holds while it writes.
THEOREM SavesNeverGoBack == Spec => []FileIsNewest
  <1>1. Init => TypeInv /\ PersistInv /\ TornInv
    <2>1. Init => saved = Unreadable
      BY DEF Init
    <2>2. Unreadable.valid = FALSE
      BY DEF Unreadable
    <2>3. Init => TornInv
      BY <2>1, <2>2, Zenon DEF TornInv
    <2> QED BY <2>3, TypeStart, PersistStart
  <1>2. TypeInv /\ PersistInv /\ TornInv /\ [Next]_vars
            => TypeInv' /\ PersistInv' /\ TornInv'
    BY TypeStep, PersistStep, TornStep
  <1> QED BY <1>1, <1>2, PersistInvIsNewest, PTL DEF Spec

-----------------------------------------------------------------------------
(* What is known in the Refinement phase was taken up while Learning. *)

\* The traits of packets taken up while Learning; an absent one counts too.
LegitType ==
    legit \in [ports : SUBSET (Ports \cup {None}),
               countries : SUBSET (Countries \cup {None}), domains : SUBSET Domains]

NewCountry(p) == p.country # None /\ p.country \notin legit.countries
NewPort(p) == p.port # None /\ p.port \in WellKnownPorts \ legit.ports

ObserveSteps == {"observe_port", "observe_country", "observe_domain"}
BeforeGeo == {"geo_phase", "geo_known"}
BeforePort == BeforeGeo \cup {"dns", "port_phase", "port_known"}

\* A packet with a new trait was taken up in the Refinement phase.  Until the
\* trait is looked up nothing is decided; from then on the score is too high
\* for a clean packet, and so it is never observed.
HeldBack(w) ==
    job[w].at # "idle" =>
        /\ NewCountry(job[w].pkt) =>
              /\ phase = "Refinement"
              /\ job[w].at \notin ObserveSteps
              /\ job[w].at \in BeforeGeo \/ job[w].acc.sum >= 30
        /\ NewPort(job[w].pkt) =>
              /\ phase = "Refinement"
              /\ job[w].at \notin ObserveSteps
              /\ job[w].at \in BeforePort \/ job[w].acc.sum >= 30

Legitimate ==
    /\ known.countries \subseteq legit.countries
    /\ (known.ports \cap WellKnownPorts) \subseteq legit.ports

FrozenInv == LegitType /\ Legitimate /\ \A w \in Workers : HeldBack(w)

\* A worker that did not move is held back as before, while the phase only
\* goes to Refinement and legit only grows.
LEMMA HeldBackKept ==
    ASSUME NEW w \in Workers, HeldBack(w), job'[w] = job[w],
           phase = "Refinement" => phase' = "Refinement",
           legit.countries \subseteq legit'.countries, legit.ports \subseteq legit'.ports
    PROVE  HeldBack(w)'
  BY Zenon DEF HeldBack, NewCountry, NewPort

\* A worker that moved, and where it got to.
LEMMA HeldBackMoved ==
    ASSUME JobType, NEW w \in Workers, HeldBack(w), Moved(w), job[w].at # "idle",
           phase' = phase, legit' = legit,
           NewCountry(job[w].pkt) =>
              /\ job'[w].at \notin ObserveSteps
              /\ job'[w].at \in BeforeGeo \/ job'[w].acc.sum >= 30
                 \/ job[w].at \notin BeforeGeo,
           NewPort(job[w].pkt) =>
              /\ job'[w].at \notin ObserveSteps
              /\ job'[w].at \in BeforePort \/ job'[w].acc.sum >= 30
                 \/ job[w].at \notin BeforePort
    PROVE  HeldBack(w)'
  <1> DEFINE x == job[w].acc.sum
             y == job'[w].acc.sum
  <1>1. x \in Nat /\ y \in Nat /\ y >= x
    <2>1. x \in Nat
      BY JobFacts
    <2>2. y \in Nat
      <3>1. job'[w] \in Job
        BY DEF Moved, JobType
      <3>2. \A z \in Job : z.acc.sum \in Nat
        BY DEF Job, Acc
      <3> QED BY <3>1, <3>2, Zenon
    <2> QED BY <2>1, <2>2 DEF Moved
  <1>2. x >= 30 => y >= 30
    <2> HIDE DEF x, y
    <2> QED BY <1>1
  <1>3. job'[w].pkt = job[w].pkt
    BY DEF Moved
  <1>4. /\ NewCountry(job[w].pkt)' => NewCountry(job[w].pkt)
        /\ NewPort(job[w].pkt)' => NewPort(job[w].pkt)
    BY <1>3, Zenon DEF NewCountry, NewPort
  <1>5. NewCountry(job[w].pkt)' =>
           /\ phase' = "Refinement" /\ job'[w].at \notin ObserveSteps
           /\ job'[w].at \in BeforeGeo \/ y >= 30
    BY <1>2, <1>4, Zenon DEF HeldBack
  <1>6. NewPort(job[w].pkt)' =>
           /\ phase' = "Refinement" /\ job'[w].at \notin ObserveSteps
           /\ job'[w].at \in BeforePort \/ y >= 30
    BY <1>2, <1>4, Zenon DEF HeldBack
  <1> QED BY <1>5, <1>6, Zenon DEF HeldBack, NewCountry, NewPort

\* A step of analyze keeps a packet with something unknown held back.
LEMMA FrozenAnalyze ==
    ASSUME TypeInv, FrozenInv, NEW w \in Workers,
           GeoPhase(w) \/ GeoKnown(w) \/ Dns(w) \/ PortPhase(w) \/ PortKnown(w) \/ Decide(w)
    PROVE  Moved(w) /\ HeldBack(w)'
  <1>1. JobType /\ HeldBack(w) /\ Legitimate
    BY DEF TypeInv, FrozenInv
  <1>2. phase' = phase /\ legit' = legit
    BY DEF GeoPhase, GeoKnown, Dns, PortPhase, PortKnown, Decide, baselineVars
  <1> DEFINE p == job[w].pkt
  <1>3. CASE GeoPhase(w)
    <2>1. /\ Moved(w) /\ job[w].at = "geo_phase" /\ job'[w].at \in {"geo_known", "dns"}
          /\ phase = "Refinement" => job'[w].at = "geo_known"
      BY <1>1, <1>3, GeoPhaseMoves DEF GeoPhase
    <2>2. NewCountry(p) => job'[w].at = "geo_known"
      BY <1>1, <2>1, Zenon DEF HeldBack
    <2>3. /\ job'[w].at \notin ObserveSteps /\ job'[w].at \in BeforePort
          /\ "geo_known" \in BeforeGeo /\ job[w].at # "idle"
      BY <2>1 DEF ObserveSteps, BeforeGeo, BeforePort
    <2> QED BY <1>1, <1>2, <2>1, <2>2, <2>3, HeldBackMoved
  <1>4. CASE GeoKnown(w)
    <2>1. /\ Moved(w) /\ job[w].at = "geo_known" /\ job'[w].at = "dns"
          /\ p.country \notin known.countries => job'[w].acc.sum >= 35
      BY <1>1, <1>4, GeoKnownMoves DEF GeoKnown
    <2>2. NewCountry(p) => p.country \notin known.countries
      BY <1>1 DEF NewCountry, Legitimate
    <2>3. job'[w].acc.sum >= 35 => job'[w].acc.sum >= 30
      <3>1. job'[w] \in Job
        BY <2>1 DEF Moved, JobType
      <3>2. \A z \in Job : z.acc.sum \in Nat
        BY DEF Job, Acc
      <3> DEFINE y == job'[w].acc.sum
      <3>3. y \in Nat
        BY <3>1, <3>2, Zenon
      <3> HIDE DEF y
      <3>4. y >= 35 => y >= 30
        BY <3>3
      <3> QED BY <3>4 DEF y
    <2>4. /\ job'[w].at \notin ObserveSteps /\ job'[w].at \in BeforePort
          /\ job[w].at # "idle"
      BY <2>1 DEF ObserveSteps, BeforeGeo, BeforePort
    <2> QED BY <1>1, <1>2, <2>1, <2>2, <2>3, <2>4, HeldBackMoved
  <1>5. CASE Dns(w)
    <2>1. /\ Moved(w) /\ job[w].at = "dns"
          /\ job'[w].at = IF p.port = None THEN "decide" ELSE "port_phase"
      BY <1>1, <1>5, DnsMoves DEF Dns
    <2>2. NewPort(p) => job'[w].at \in BeforePort
      BY <2>1 DEF NewPort, BeforePort
    <2>3. job'[w].at \notin ObserveSteps /\ job[w].at \notin BeforeGeo /\ job[w].at # "idle"
      BY <2>1 DEF ObserveSteps, BeforeGeo
    <2> QED BY <1>1, <1>2, <2>1, <2>2, <2>3, HeldBackMoved
  <1>6. CASE PortPhase(w)
    <2>1. /\ Moved(w) /\ job[w].at = "port_phase"
          /\ job'[w].at = IF phase = "Refinement" THEN "port_known" ELSE "decide"
      BY <1>1, <1>6, PortPhaseMoves DEF PortPhase
    <2>2. NewPort(p) => phase = "Refinement"
      BY <1>1, <2>1, Zenon DEF HeldBack
    <2>3. NewPort(p) => job'[w].at \in BeforePort
      BY <2>1, <2>2 DEF BeforePort
    <2>4. job'[w].at \notin ObserveSteps /\ job[w].at \notin BeforeGeo /\ job[w].at # "idle"
      BY <2>1 DEF ObserveSteps, BeforeGeo
    <2> QED BY <1>1, <1>2, <2>1, <2>3, <2>4, HeldBackMoved
  <1>7. CASE PortKnown(w)
    <2>1. /\ Moved(w) /\ job[w].at = "port_known" /\ job'[w].at = "decide"
          /\ (p.port \in WellKnownPorts /\ p.port \notin known.ports)
             => job'[w].acc.sum >= 30
      BY <1>1, <1>7, PortKnownMoves DEF PortKnown
    <2>2. NewPort(p) => p.port \in WellKnownPorts /\ p.port \notin known.ports
      BY <1>1 DEF NewPort, Legitimate
    <2>3. job'[w].at \notin ObserveSteps /\ job[w].at \notin BeforeGeo /\ job[w].at # "idle"
      BY <2>1 DEF ObserveSteps, BeforeGeo
    <2> QED BY <1>1, <1>2, <2>1, <2>2, <2>3, HeldBackMoved
  <1>8. CASE Decide(w)
    <2>1. /\ Moved(w) /\ job[w].at = "decide" /\ job'[w].at \in {"observe_port", "report"}
          /\ (phase = "Refinement" /\ job[w].acc.sum >= 30) => job'[w].at = "report"
      BY <1>1, <1>8, DecideMoves DEF Decide
    <2>2. job[w].at \notin BeforeGeo /\ job[w].at \notin BeforePort /\ job[w].at # "idle"
          /\ "report" \notin ObserveSteps
      BY <2>1 DEF ObserveSteps, BeforeGeo, BeforePort
    <2>3. NewCountry(p) \/ NewPort(p) => job'[w].at = "report"
      BY <1>1, <2>1, <2>2, Zenon DEF HeldBack
    <2> QED BY <1>1, <1>2, <2>1, <2>2, <2>3, HeldBackMoved
  <1> QED BY <1>3, <1>4, <1>5, <1>6, <1>7, <1>8

\* An observe_* step: what it stores, if it matters, is legitimate.
LEMMA FrozenObserve ==
    ASSUME TypeInv, FrozenInv, NEW w \in Workers,
           NEW at \in ObserveSteps, NEW next \in Steps, NEW kind, NEW value,
           ObserveStep(w, at, kind, value, next),
           \/ kind = "ports" /\ value = job[w].pkt.port
           \/ kind = "countries" /\ value = job[w].pkt.country
           \/ kind = "domains" /\ value = job[w].pkt.domain
    PROVE  Moved(w) /\ Legitimate' /\ HeldBack(w)' /\ phase' = phase /\ legit' = legit
  <1>1. JobType /\ HeldBack(w) /\ Legitimate /\ known \in Known
    BY DEF TypeInv, BaseType, FrozenInv
  <1>2. at \in Steps \ {"idle"} /\ job[w].at = at /\ at # "idle"
    BY DEF ObserveSteps, Steps, ObserveStep
  <1>3. Moved(w)
    BY <1>1, <1>2, ObserveMoves
  <1>4. phase' = phase /\ legit' = legit
    BY DEF ObserveStep, Observe, baselineVars
  <1>5. ~NewCountry(job[w].pkt) /\ ~NewPort(job[w].pkt)
    BY <1>1, <1>2, Zenon DEF HeldBack
  <1>6. HeldBack(w)'
    BY <1>1, <1>2, <1>3, <1>4, <1>5, HeldBackMoved
  <1>7. CASE value = None
    <2>1. known' = known
      BY <1>7 DEF ObserveStep, baselineVars
    <2> QED BY <1>1, <1>3, <1>4, <1>6, <2>1 DEF Legitimate
  <1>8. CASE value # None
    <2>1. known' = [known EXCEPT ![kind] = @ \cup {value}]
      BY <1>8 DEF ObserveStep, Observe
    <2>2. CASE kind = "ports" /\ value = job[w].pkt.port
      <3>1. known'.ports = known.ports \cup {value} /\ known'.countries = known.countries
        BY <1>1, <2>1, <2>2 DEF Known
      <3>2. value \in WellKnownPorts => value \in legit.ports
        BY <1>5, <1>8, <2>2 DEF NewPort
      <3>3. Legitimate'
        BY <1>1, <1>4, <3>1, <3>2 DEF Legitimate
      <3> QED BY <1>3, <1>4, <1>6, <3>3
    <2>3. CASE kind = "countries" /\ value = job[w].pkt.country
      <3>1. known'.countries = known.countries \cup {value} /\ known'.ports = known.ports
        BY <1>1, <2>1, <2>3 DEF Known
      <3>2. value \in legit.countries
        BY <1>5, <1>8, <2>3 DEF NewCountry
      <3>3. Legitimate'
        BY <1>1, <1>4, <3>1, <3>2 DEF Legitimate
      <3> QED BY <1>3, <1>4, <1>6, <3>3
    <2>4. CASE kind = "domains" /\ value = job[w].pkt.domain
      <3>1. known'.countries = known.countries /\ known'.ports = known.ports
        BY <1>1, <2>1, <2>4 DEF Known
      <3>3. Legitimate'
        BY <1>1, <1>4, <3>1 DEF Legitimate
      <3> QED BY <1>3, <1>4, <1>6, <3>3
    <2> QED BY <2>2, <2>3, <2>4
  <1> QED BY <1>7, <1>8

\* Taking up a packet: while Learning, its traits become legitimate.
LEMMA FrozenBegin ==
    ASSUME TypeInv, FrozenInv, NEW w \in Workers, NEW p \in Packets, Begin(w, p)
    PROVE  FrozenInv'
  <1>1. UNCHANGED <<known, phase>>
    BY DEF Begin, baselineVars
  <1>2. /\ LegitType'
        /\ legit.countries \subseteq legit'.countries /\ legit.ports \subseteq legit'.ports
        /\ phase # "Refinement" => p.country \in legit'.countries /\ p.port \in legit'.ports
    <2>1. LegitType
      BY DEF FrozenInv
    <2>2. CASE phase = "Learning"
      <3>1. legit' = [legit EXCEPT !.countries = @ \cup {p.country},
                                   !.ports = @ \cup {p.port}]
        BY <2>2 DEF Begin
      <3>2. /\ legit'.countries = legit.countries \cup {p.country}
            /\ legit'.ports = legit.ports \cup {p.port}
        BY <2>1, <3>1 DEF LegitType
      <3>3. p.country \in Countries \cup {None} /\ p.port \in Ports \cup {None}
        BY TraitTypes
      <3>4. LegitType'
        BY <2>1, <3>1, <3>3 DEF LegitType
      <3> QED BY <3>2, <3>4
    <2>3. CASE phase # "Learning"
      <3>1. legit' = legit
        BY <2>3 DEF Begin
      <3>2. phase = "Refinement"
        BY <2>3 DEF TypeInv, BaseType
      <3> QED BY <2>1, <3>1, <3>2 DEF LegitType
    <2> QED BY <2>2, <2>3
  <1>3. Legitimate'
    BY <1>1, <1>2 DEF FrozenInv, Legitimate
  <1>4. /\ job'[w].at = IF p.country = None THEN "dns" ELSE "geo_phase"
        /\ job'[w].pkt = p
        /\ \A v \in Workers : v # w => job'[v] = job[v]
    BY BeginMoves DEF TypeInv
  <1>5. HeldBack(w)'
    <2>1. job'[w].at \notin ObserveSteps /\ job'[w].at \in BeforePort
      BY <1>4 DEF ObserveSteps, BeforePort, BeforeGeo
    <2>2. p.country # None => job'[w].at \in BeforeGeo
      BY <1>4 DEF BeforeGeo
    <2> QED BY <1>1, <1>2, <1>4, <2>1, <2>2, Zenon DEF HeldBack, NewCountry, NewPort
  <1>6. ASSUME NEW v \in Workers, v # w
        PROVE  HeldBack(v)'
    <2>1. HeldBack(v) /\ job'[v] = job[v]
      BY <1>4, <1>6 DEF FrozenInv
    <2> QED BY <1>1, <1>2, <2>1, HeldBackKept
  <1> QED BY <1>2, <1>3, <1>5, <1>6, Zenon DEF FrozenInv

\* Every step of the engine keeps FrozenInv.
LEMMA FrozenStep == TypeInv /\ FrozenInv /\ [Next]_vars => FrozenInv'
  <1> SUFFICES ASSUME TypeInv, FrozenInv, [Next]_vars PROVE FrozenInv'
    OBVIOUS
  <1>1. ASSUME NEW w \in Workers, Moved(w), HeldBack(w)', Legitimate',
               phase' = phase, legit' = legit
        PROVE  FrozenInv'
    <2>1. ASSUME NEW v \in Workers, v # w
          PROVE  HeldBack(v)'
      <3>1. HeldBack(v) /\ job'[v] = job[v]
        BY <1>1, <2>1, Zenon DEF FrozenInv, Moved
      <3> QED BY <1>1, <3>1, HeldBackKept
    <2>2. LegitType'
      BY <1>1 DEF FrozenInv, LegitType
    <2> QED BY <1>1, <2>1, <2>2, Zenon DEF FrozenInv
  <1>2. ASSUME job' = job, legit' = legit, known' = known,
               phase = "Refinement" => phase' = "Refinement"
        PROVE  FrozenInv'
    <2>1. ASSUME NEW v \in Workers
          PROVE  HeldBack(v)'
      <3>1. HeldBack(v) /\ job'[v] = job[v]
        BY <1>2, <2>1, Zenon DEF FrozenInv
      <3> QED BY <1>2, <3>1, HeldBackKept
    <2>2. LegitType' /\ Legitimate'
      BY <1>2 DEF FrozenInv, LegitType, Legitimate
    <2> QED BY <2>1, <2>2, Zenon DEF FrozenInv
  <1>3. ASSUME NEW w \in Workers, NEW p \in Packets, Begin(w, p)
        PROVE  FrozenInv'
    BY <1>3, FrozenBegin
  <1>4. ASSUME NEW w \in Workers, Analyze(w)
        PROVE  FrozenInv'
    <2>1. CASE GeoPhase(w) \/ GeoKnown(w) \/ Dns(w) \/ PortPhase(w) \/ PortKnown(w)
               \/ Decide(w)
      <3>1. UNCHANGED <<known, phase, legit>>
        BY <2>1 DEF GeoPhase, GeoKnown, Dns, PortPhase, PortKnown, Decide, baselineVars
      <3>2. Legitimate'
        BY <3>1 DEF FrozenInv, Legitimate
      <3> QED BY <1>1, <2>1, <3>1, <3>2, FrozenAnalyze
    <2>2. /\ \A s \in ObserveSteps : s \in Steps
          /\ "report" \in Steps /\ "observe_port" \in ObserveSteps
          /\ "observe_country" \in ObserveSteps /\ "observe_domain" \in ObserveSteps
      BY DEF Steps, ObserveSteps
    <2>3. CASE ObservePort(w)
      BY <1>1, <2>2, <2>3, FrozenObserve DEF ObservePort
    <2>4. CASE ObserveCountry(w)
      BY <1>1, <2>2, <2>4, FrozenObserve DEF ObserveCountry
    <2>5. CASE ObserveDomain(w)
      BY <1>1, <2>2, <2>5, FrozenObserve DEF ObserveDomain
    <2>6. CASE Report(w)
      <3>1. /\ job'[w].at = "idle" /\ \A v \in Workers : v # w => job'[v] = job[v]
            /\ UNCHANGED <<known, phase, legit>>
        BY <2>6, ReportMoves DEF TypeInv, Report, baselineVars
      <3>2. HeldBack(w)'
        BY <3>1, Zenon DEF HeldBack
      <3>3. ASSUME NEW v \in Workers, v # w
            PROVE  HeldBack(v)'
        <4>1. HeldBack(v) /\ job'[v] = job[v]
          BY <3>1, <3>3, Zenon DEF FrozenInv
        <4> QED BY <3>1, <4>1, HeldBackKept
      <3>4. LegitType' /\ Legitimate'
        BY <3>1 DEF FrozenInv, LegitType, Legitimate
      <3> QED BY <3>2, <3>3, <3>4, Zenon DEF FrozenInv
    <2> QED BY <1>4, <2>1, <2>3, <2>4, <2>5, <2>6 DEF Analyze
  <1>5. CASE Sweep
    <2>1. job' = job /\ legit' = legit
      BY <1>5 DEF Sweep, SweeperTick, SweeperFlip, SweeperStamp, SweeperSave, SweeperIO,
                  SweeperUnlock, OnlySweeper
    <2>2. known' = known /\ (phase' = phase \/ phase' = "Refinement")
      <3>1. CASE SweeperTick \/ SweeperFlip \/ SweeperStamp \/ SweeperUnlock
        BY <3>1 DEF SweeperTick, SweeperFlip, SweeperStamp, SweeperUnlock, baselineVars,
                    FinishLearningFlip, FinishLearningStamp, FinishLearningUnlock
      <3>2. CASE SweeperSave
        BY <3>2 DEF SweeperSave, PersistLock
      <3>3. CASE SweeperIO
        BY <3>3 DEF SweeperIO, PersistIO, PersistTruncate, PersistWrite, PersistError
      <3> QED BY <1>5, <3>1, <3>2, <3>3 DEF Sweep
    <2> QED BY <1>2, <2>1, <2>2
  <1>6. CASE LearningTimeOver
    BY <1>2, <1>6 DEF LearningTimeOver, baselineVars
  <1>7. CASE MainSave
    BY <1>2, <1>7 DEF MainSave, PersistLock
  <1>8. CASE MainIO
    BY <1>2, <1>8 DEF MainIO, PersistIO, PersistTruncate, PersistWrite, PersistError
  <1>9. CASE Restart
    <2>1. /\ job' = [w \in Workers |-> Idle] /\ known' = file.known /\ legit' = file.known
      BY <1>9 DEF Restart, Load
    <2>2. \A w \in Workers : job'[w].at = "idle"
      BY <2>1, Constants
    <2>3. \A w \in Workers : HeldBack(w)'
      BY <2>2, Zenon DEF HeldBack
    <2>4. Legitimate'
      BY <2>1 DEF Legitimate
    <2>5. LegitType'
      <3>1. file.known \in Known
        BY DEF TypeInv, BaseType, File
      <3>2. \A x \in Known : x \in [ports : SUBSET (Ports \cup {None}),
               countries : SUBSET (Countries \cup {None}), domains : SUBSET Domains]
        BY DEF Known
      <3> QED BY <2>1, <3>1, <3>2 DEF LegitType
    <2> QED BY <2>3, <2>4, <2>5, Zenon DEF FrozenInv
  <1>10. CASE UNCHANGED vars
    BY <1>2, <1>10 DEF vars, baselineVars, engineVars
  <1> QED BY <1>3, <1>4, <1>5, <1>6, <1>7, <1>8, <1>9, <1>10 DEF Next

\* However the look-ups and updates of any number of workers interleave with
\* the switch to Refinement, with saves and with restarts: a country or a
\* well-known port that the baseline knows in the Refinement phase came with
\* a packet taken up while Learning, or from the file.  Packets that were in
\* flight at the switch may still add theirs after it; those taken up later
\* add no new one.  It rests on the scores: each of the two signals alone
\* reaches the Info threshold.
THEOREM RefinementFreezesBaseline == Spec => []RefinementIsFrozen
  <1>1. Init => TypeInv /\ FrozenInv
    <2> SUFFICES ASSUME Init PROVE FrozenInv
      BY TypeStart
    <2>1. LegitType /\ Legitimate
      BY DEF Init, BaselineInit, NothingKnown, LegitType, Legitimate
    <2>2. \A w \in Workers : job[w].at = "idle"
      BY Constants DEF Init
    <2> QED BY <2>1, <2>2, Zenon DEF FrozenInv, HeldBack
  <1>2. TypeInv /\ FrozenInv /\ [Next]_vars => TypeInv' /\ FrozenInv'
    BY TypeStep, FrozenStep
  <1>3. FrozenInv => RefinementIsFrozen
    BY DEF FrozenInv, Legitimate, RefinementIsFrozen
  <1> QED BY <1>1, <1>2, <1>3, PTL DEF Spec

-----------------------------------------------------------------------------
(* The switch to Refinement: the phase, learned_at and the locks. *)

\* From the switch of the phase until finish_learning returns.
Switching == {"stamp", "save_flip", "saving_flip", "unlock"}

\* Only the sweeper, inside finish_learning, holds the phase lock.  Between
\* the switch and the stamp the phase is ahead of learned_at; at all other
\* times they agree, and the file is never ahead of either.
PhaseInv ==
    /\ phaseLock <=> sweeper \in Switching
    /\ persisting["sweeper"] # "idle" <=> sweeper \in {"saving", "saving_flip"}
    /\ sweeper = "flip" => phase = "Learning"
    /\ phaseLock => phase = "Refinement"
    /\ learned <=> phase = "Refinement" /\ sweeper # "stamp"
    /\ file.learned => learned

\* Steps that leave the phase, the lock, the sweeper and the file alone.
LEMMA PhaseKept ==
    ASSUME PhaseInv,
           UNCHANGED <<learned, phase, phaseLock, sweeper, file>>,
           persisting'["sweeper"] = persisting["sweeper"]
    PROVE  PhaseInv'
  BY Zenon DEF PhaseInv

\* The progress of a save is that of the thread that takes the step.
LEMMA PersistingMoves ==
    ASSUME TypeInv, NEW t \in Persisters, PersistLock(t) \/ PersistIO(t)
    PROVE  /\ \A u \in Persisters : u # t => persisting'[u] = persisting[u]
           /\ PersistLock(t) => persisting'[t] = "locked"
           /\ PersistIO(t) => persisting[t] # "idle"
  BY DEF TypeInv, BaseType, PersistLock, PersistIO, PersistTruncate, PersistWrite,
         PersistError

\* What a save writes says that learning was finished only if it was.
LEMMA FileNotAhead ==
    ASSUME TypeInv, PersistInv, PhaseInv, NEW t \in Persisters, PersistIO(t)
    PROVE  file'.learned => learned
  <1>1. json[t] = Serialize
    BY DEF PersistInv, PersistIO, PersistTruncate, PersistWrite, PersistError
  <1>2. json[t].learned = learned
    BY <1>1, SerializeType, Zenon DEF TypeInv
  <1>3. file' = file \/ file' = json[t] \/ file' = Unreadable
    BY DEF PersistIO, PersistTruncate, PersistWrite, PersistError
  <1>4. Unreadable.learned = FALSE
    BY DEF Unreadable
  <1>5. file.learned => learned
    BY Zenon DEF PhaseInv
  <1> QED BY <1>2, <1>3, <1>4, <1>5, Zenon

\* Every step of the sweeper keeps PhaseInv.
LEMMA PhaseSweep ==
    ASSUME TypeInv, PersistInv, PhaseInv, Sweep
    PROVE  PhaseInv'
  <1>1. "sweeper" \in Persisters
    BY SweeperAndMainPersist
  <1>2. CASE SweeperTick
    <2>1. /\ UNCHANGED <<learned, phase, phaseLock, file, persisting>>
          /\ sweeper = "sleep" /\ ~phaseLock
      BY <1>2 DEF SweeperTick, PhaseReadable, baselineVars
    <2>2. sweeper' = "save" \/ (sweeper' = "flip" /\ phase = "Learning")
      BY <1>2 DEF SweeperTick
    <2>3. sweeper' \notin Switching /\ sweeper' \notin {"saving", "saving_flip"}
          /\ sweeper' # "stamp" /\ sweeper \notin Switching
          /\ sweeper \notin {"saving", "saving_flip"} /\ sweeper # "stamp"
          /\ (sweeper' = "flip" => phase = "Learning")
      BY <2>1, <2>2 DEF Switching
    <2> QED BY <2>1, <2>3, Zenon DEF PhaseInv
  <1>3. CASE SweeperFlip
    <2>1. /\ UNCHANGED <<learned, persisting, file>> /\ phase = "Learning"
          /\ phase' = "Refinement" /\ phaseLock' /\ sweeper = "flip" /\ sweeper' = "stamp"
      BY <1>3, Zenon DEF SweeperFlip, FinishLearningFlip
    <2>2. /\ sweeper' \in Switching /\ sweeper' \notin {"saving", "saving_flip"}
          /\ sweeper' # "flip" /\ sweeper \notin {"saving", "saving_flip"}
          /\ phase # "Refinement"
      BY <2>1 DEF Switching
    <2> QED BY <2>1, <2>2, Zenon DEF PhaseInv
  <1>4. CASE SweeperStamp
    <2>1. /\ UNCHANGED <<persisting, file, phase, phaseLock>> /\ phaseLock /\ learned'
          /\ sweeper = "stamp" /\ sweeper' = "save_flip"
      BY <1>4, Zenon DEF SweeperStamp, FinishLearningStamp
    <2>2. /\ sweeper' \in Switching /\ sweeper' \notin {"saving", "saving_flip"}
          /\ sweeper' # "flip" /\ sweeper' # "stamp"
          /\ sweeper \notin {"saving", "saving_flip"}
      BY <2>1 DEF Switching
    <2> QED BY <2>1, <2>2, Zenon DEF PhaseInv
  <1>5. CASE SweeperSave
    <2>1. /\ UNCHANGED <<learned, phase, phaseLock, file>>
          /\ persisting'["sweeper"] # "idle"
      BY <1>1, <1>5, PersistingMoves DEF SweeperSave, PersistLock
    <2>2. /\ sweeper' \in Switching <=> sweeper \in Switching
          /\ sweeper' \in {"saving", "saving_flip"}
          /\ sweeper' # "flip" /\ sweeper' # "stamp" /\ sweeper # "stamp"
      BY <1>5 DEF SweeperSave, Switching
    <2> QED BY <2>1, <2>2, Zenon DEF PhaseInv
  <1>6. CASE SweeperIO
    <2>1. UNCHANGED <<learned, phase, phaseLock>>
      BY <1>1, <1>6, PersistIOType DEF TypeInv, SweeperIO
    <2>2. file'.learned => learned
      BY <1>1, <1>6, FileNotAhead DEF SweeperIO
    <2>3. persisting'["sweeper"] # "idle" <=> sweeper' \in {"saving", "saving_flip"}
      BY <1>6 DEF SweeperIO
    <2>4. /\ sweeper' \in Switching <=> sweeper \in Switching
          /\ sweeper' # "flip" /\ sweeper' # "stamp" /\ sweeper # "stamp"
      BY <1>6 DEF SweeperIO, Switching
    <2> QED BY <2>1, <2>2, <2>3, <2>4, Zenon DEF PhaseInv
  <1>7. CASE SweeperUnlock
    <2>1. /\ UNCHANGED <<learned, phase, persisting, file>> /\ ~phaseLock'
          /\ sweeper = "unlock" /\ sweeper' = "save"
      BY <1>7, Zenon DEF SweeperUnlock, FinishLearningUnlock
    <2>2. /\ sweeper' \notin Switching /\ sweeper' \notin {"saving", "saving_flip"}
          /\ sweeper' # "flip" /\ sweeper' # "stamp" /\ sweeper # "stamp"
          /\ sweeper \notin {"saving", "saving_flip"}
      BY <2>1 DEF Switching
    <2> QED BY <2>1, <2>2, Zenon DEF PhaseInv
  <1> QED BY <1>2, <1>3, <1>4, <1>5, <1>6, <1>7 DEF Sweep

\* A restart finds the phase and learned_at in agreement with the file.
LEMMA PhaseRestart ==
    ASSUME TypeInv, Restart
    PROVE  PhaseInv'
  <1>1. "sweeper" \in Persisters
    BY SweeperAndMainPersist
  <1>2. /\ learned' = file.learned /\ file' = file /\ ~phaseLock' /\ sweeper' = "sleep"
        /\ phase' = IF file.learned THEN "Refinement" ELSE "Learning"
    BY <1>1, Zenon DEF Restart, Load
  <1>3. persisting'["sweeper"] = "idle"
    BY <1>1 DEF Restart, Load
  <1>4. file.learned \in BOOLEAN
    BY DEF TypeInv, BaseType, File
  <1>5. phase' = "Refinement" <=> file.learned
    <2>1. "Refinement" # "Learning"
      OBVIOUS
    <2> QED BY <1>2, <1>4, <2>1, Zenon
  <1>6. /\ sweeper' \notin Switching /\ sweeper' \notin {"saving", "saving_flip"}
        /\ sweeper' # "flip" /\ sweeper' # "stamp"
    BY <1>2 DEF Switching
  <1> QED BY <1>2, <1>3, <1>5, <1>6, Zenon DEF PhaseInv

\* Every step of the engine keeps PhaseInv.
LEMMA PhaseStep == TypeInv /\ PersistInv /\ PhaseInv /\ [Next]_vars => PhaseInv'
  <1> SUFFICES ASSUME TypeInv, PersistInv, PhaseInv, [Next]_vars PROVE PhaseInv'
    OBVIOUS
  <1>1. ASSUME UNCHANGED baselineVars, UNCHANGED sweeper
        PROVE  PhaseInv'
    BY <1>1, PhaseKept DEF baselineVars
  <1>2. ASSUME NEW w \in Workers, NEW at, NEW kind, NEW value, NEW next,
               ObserveStep(w, at, kind, value, next)
        PROVE  PhaseInv'
    <2>1. CASE value = None
      BY <1>1, <1>2, <2>1 DEF ObserveStep, OnlyWorker
    <2>2. CASE value # None
      BY <1>2, <2>2, PhaseKept DEF ObserveStep, OnlyWorker, Observe
    <2> QED BY <2>1, <2>2
  <1>3. "sweeper" \in Persisters /\ "main" \in Persisters /\ "main" # "sweeper"
    BY SweeperAndMainPersist
  <1>4. ASSUME NEW w \in Workers, NEW p \in Packets, Begin(w, p)
        PROVE  PhaseInv'
    BY <1>1, <1>4 DEF Begin, OnlyWorker
  <1>5. ASSUME NEW w \in Workers, Analyze(w)
        PROVE  PhaseInv'
    <2>1. CASE ObservePort(w)
      BY <1>2, <2>1 DEF ObservePort
    <2>2. CASE ObserveCountry(w)
      BY <1>2, <2>2 DEF ObserveCountry
    <2>3. CASE ObserveDomain(w)
      BY <1>2, <2>3 DEF ObserveDomain
    <2>4. CASE GeoPhase(w) \/ GeoKnown(w) \/ Dns(w)
      BY <1>1, <2>4 DEF GeoPhase, GeoKnown, Dns, OnlyWorker
    <2>5. CASE PortPhase(w) \/ PortKnown(w) \/ Decide(w) \/ Report(w)
      BY <1>1, <2>5 DEF PortPhase, PortKnown, Decide, Report, OnlyWorker
    <2> QED BY <1>5, <2>1, <2>2, <2>3, <2>4, <2>5 DEF Analyze
  <1>6. CASE LearningTimeOver
    BY <1>1, <1>6 DEF LearningTimeOver
  <1>7. CASE MainSave
    <2>1. persisting'["sweeper"] = persisting["sweeper"]
      BY <1>3, <1>7, PersistingMoves DEF MainSave
    <2> QED BY <1>7, <2>1, PhaseKept DEF MainSave, PersistLock
  <1>8. CASE MainIO
    <2>1. persisting'["sweeper"] = persisting["sweeper"]
      BY <1>3, <1>8, PersistingMoves DEF MainIO
    <2>2. UNCHANGED <<learned, phase, phaseLock>>
      BY <1>3, <1>8, PersistIOType DEF TypeInv, MainIO
    <2>3. sweeper' = sweeper
      BY <1>8 DEF MainIO
    <2>4. file'.learned => learned
      BY <1>3, <1>8, FileNotAhead DEF MainIO
    <2> QED BY <2>1, <2>2, <2>3, <2>4, Zenon DEF PhaseInv
  <1>9. CASE UNCHANGED vars
    BY <1>1, <1>9 DEF vars, engineVars
  <1> QED BY <1>4, <1>5, <1>6, <1>7, <1>8, <1>9, PhaseSweep, PhaseRestart DEF Next

\* The invariants of the engine that the theorems below use.
LEMMA EngineInvHolds == Spec => [](TypeInv /\ PersistInv /\ PhaseInv)
  <1>1. Init => PhaseInv
    <2> SUFFICES ASSUME Init PROVE PhaseInv
      OBVIOUS
    <2>1. /\ ~learned /\ phase = "Learning" /\ ~phaseLock /\ sweeper = "sleep"
          /\ file = Unreadable /\ Unreadable.learned = FALSE
      BY DEF Init, BaselineInit, Unreadable
    <2>2. persisting["sweeper"] = "idle"
      BY SweeperAndMainPersist DEF Init, BaselineInit
    <2>3. /\ sweeper \notin Switching /\ sweeper \notin {"saving", "saving_flip"}
          /\ sweeper # "flip" /\ phase # "Refinement"
      BY <2>1 DEF Switching
    <2> QED BY <2>1, <2>2, <2>3, Zenon DEF PhaseInv
  <1>2. TypeInv /\ PersistInv /\ PhaseInv /\ [Next]_vars
            => TypeInv' /\ PersistInv' /\ PhaseInv'
    BY TypeStep, PersistStep, PhaseStep
  <1> QED BY <1>1, <1>2, TypeStart, PersistStart, PTL DEF Spec

\* finish_learning releases the phase lock only after learned_at is stamped
\* (baseline.rs:105-117): whoever can read the phase finds Refinement exactly
\* when learned_at is set, also after a restart, which computes the phase
\* from learned_at (baseline.rs:80-84).
THEOREM PhaseMatchesState ==
    Spec => [](PhaseReadable => (phase = "Refinement" <=> learned))
  <1>1. PhaseInv => (PhaseReadable => (phase = "Refinement" <=> learned))
    <2> SUFFICES ASSUME PhaseInv, ~phaseLock PROVE phase = "Refinement" <=> learned
      BY DEF PhaseReadable
    <2>1. sweeper # "stamp"
      <3>1. "stamp" \in Switching
        BY DEF Switching
      <3> QED BY <3>1, Zenon DEF PhaseInv
    <2> QED BY <2>1, Zenon DEF PhaseInv
  <1> QED BY <1>1, EngineInvHolds, PTL

\* A restart never skips the Learning phase: it comes up in Refinement only
\* if the process before it had switched.  A file written by a save that
\* crossed the switch, or cut off by the crash, sets the agent back to
\* Learning at worst.
THEOREM RestartNeverSkipsLearning ==
    Spec => [][restarts' # restarts /\ phase' = "Refinement" => phase = "Refinement"]_vars
  <1>1. TypeInv /\ PhaseInv /\ [Next]_vars
            => [restarts' # restarts /\ phase' = "Refinement" => phase = "Refinement"]_vars
    <2> SUFFICES ASSUME TypeInv, PhaseInv, Next, restarts' # restarts, phase' = "Refinement"
                 PROVE  phase = "Refinement"
      BY DEF vars, engineVars
    <2>1. Restart
      BY DEF Next, Begin, Analyze, OnlyWorker, GeoPhase, GeoKnown, Dns, PortPhase,
             PortKnown, Decide, ObservePort, ObserveCountry, ObserveDomain, ObserveStep,
             Report, Sweep, SweeperTick, SweeperFlip, SweeperStamp, SweeperSave, SweeperIO,
             SweeperUnlock, OnlySweeper, LearningTimeOver, MainSave, MainIO
    <2>2. phase' = IF file.learned THEN "Refinement" ELSE "Learning"
      BY <2>1, Zenon DEF Restart, Load
    <2>3. file.learned
      <3>1. "Refinement" # "Learning"
        OBVIOUS
      <3> QED BY <2>2, <3>1, Zenon
    <2> QED BY <2>3, Zenon DEF PhaseInv
  <1> QED BY <1>1, EngineInvHolds, PTL DEF Spec

\* The conditions under which the next step of the sweeper, and of a worker,
\* gets the locks that it asks for.
SweeperGoes ==
    /\ sweeper = "sleep" => PhaseReadable
    /\ sweeper = "flip" => PhaseReadable /\ phase = "Learning"
    /\ sweeper = "stamp" => phaseLock /\ StateWritable
    /\ sweeper \in {"save", "save_flip"} => persisting["sweeper"] = "idle"
    /\ sweeper \in {"saving", "saving_flip"} => persisting["sweeper"] # "idle"
    /\ sweeper = "unlock" => phaseLock

WorkerGoes(w) ==
    /\ job[w].at \in {"geo_phase", "port_phase", "decide"} => PhaseReadable
    /\ job[w].at \in ObserveSteps => StateWritable

\* Nobody waits in a circle.  finish_learning waits for the state lock while
\* it holds the phase lock (baseline.rs:105-117): the sweeper can wait for
\* main's save only, whose file I/O asks for no lock, and a worker waits for
\* main's save or for a sweeper that can go on.
THEOREM NobodyWaitsInACircle ==
    Spec => [](/\ SweeperGoes \/ persisting["main"] # "idle"
               /\ \A w \in Workers :
                      \/ WorkerGoes(w)
                      \/ persisting["main"] # "idle"
                      \/ SweeperGoes /\ sweeper \in Switching \cup {"saving"})
  <1> DEFINE Goal == /\ SweeperGoes \/ persisting["main"] # "idle"
                     /\ \A w \in Workers :
                            \/ WorkerGoes(w)
                            \/ persisting["main"] # "idle"
                            \/ SweeperGoes /\ sweeper \in Switching \cup {"saving"}
  <1>1. TypeInv /\ PhaseInv => Goal
    <2> SUFFICES ASSUME TypeInv, PhaseInv, persisting["main"] = "idle" PROVE Goal
      BY Zenon
    <2>1. StateWritable \/ persisting["sweeper"] # "idle"
      BY SweeperAndMainPersist DEF StateWritable
    <2>2. SweeperGoes
      <3>1. CASE sweeper \in Switching
        <4>1. phaseLock /\ (sweeper \notin {"saving", "saving_flip"} => StateWritable)
          BY <2>1, <3>1, Zenon DEF PhaseInv
        <4>2. sweeper \notin {"sleep", "flip"}
          BY <3>1 DEF Switching
        <4>3. sweeper = "stamp" => sweeper \notin {"saving", "saving_flip"}
          OBVIOUS
        <4>4. sweeper \in {"save", "save_flip"} => sweeper \notin {"saving", "saving_flip"}
          OBVIOUS
        <4>5. sweeper # "sleep" /\ sweeper # "flip"
          BY <4>2
        <4>6. sweeper \in {"save", "save_flip"} => persisting["sweeper"] = "idle"
          BY <4>4, Zenon DEF PhaseInv
        <4>7. sweeper \in {"saving", "saving_flip"} => persisting["sweeper"] # "idle"
          BY Zenon DEF PhaseInv
        <4> QED BY <4>1, <4>3, <4>5, <4>6, <4>7, Zenon DEF SweeperGoes
      <3>2. CASE sweeper \notin Switching
        <4>1. ~phaseLock
          BY <3>2, Zenon DEF PhaseInv
        <4>2. sweeper # "stamp" /\ sweeper # "unlock"
          BY <3>2 DEF Switching
        <4>3. sweeper = "flip" => phase = "Learning"
          BY Zenon DEF PhaseInv
        <4>4. sweeper \in {"save", "save_flip"} => sweeper \notin {"saving", "saving_flip"}
          OBVIOUS
        <4>5. sweeper \in {"save", "save_flip"} => persisting["sweeper"] = "idle"
          BY <4>4, Zenon DEF PhaseInv
        <4>6. sweeper \in {"saving", "saving_flip"} => persisting["sweeper"] # "idle"
          BY Zenon DEF PhaseInv
        <4> QED BY <4>1, <4>2, <4>3, <4>5, <4>6, Zenon DEF SweeperGoes, PhaseReadable
      <3> QED BY <3>1, <3>2
    <2>3. ASSUME NEW w \in Workers, ~WorkerGoes(w)
          PROVE  sweeper \in Switching \cup {"saving"}
      <3>1. phaseLock \/ ~StateWritable
        BY <2>3, Zenon DEF WorkerGoes, PhaseReadable
      <3>2. sweeper \in Switching \/ sweeper \in {"saving", "saving_flip"}
        BY <2>1, <3>1, Zenon DEF PhaseInv
      <3> QED BY <3>2 DEF Switching
    <2> HIDE DEF SweeperGoes, WorkerGoes
    <2> QED BY <2>2, <2>3, Zenon
  <1> HIDE DEF Goal
  <1>2. Spec => []Goal
    BY <1>1, EngineInvHolds, PTL
  <1> QED BY <1>2 DEF Goal
=============================================================================
