----------------------------- MODULE AgentProofs -----------------------------
(***************************************************************************)
(* Proofs about the composed agent: its types, what is true when it exits, *)
(* the batches' numbers, where every packet ends up, and that the way      *)
(* from the capture thread to the backend is an ordered feed.  One lemma   *)
(* per part of the agent shows that its steps keep an invariant.           *)
(***************************************************************************)
EXTENDS Agent, Induction, SequenceTheorems, TLAPS

\* What the recursion of AllEvents says of the first n batches.
Upto(batches, f) ==
    f = [n \in 0 .. Len(batches) |->
            IF n = 0 THEN <<>> ELSE f[n - 1] \o batches[n].events]

\* The same, with types.
Parts(batches, f) ==
    /\ f \in [0 .. Len(batches) -> Seq(Nat)]
    /\ f[0] = <<>>
    /\ \A n \in 1 .. Len(batches) : f[n] = f[n - 1] \o batches[n].events

\* The events of every batch of a sequence.
LEMMA EventsType ==
    ASSUME NEW b \in Seq(Batch)
    PROVE  /\ Len(b) \in Nat
           /\ \A n \in 1 .. Len(b) : b[n].events \in Seq(Nat)
  <1>1. \A n \in 1 .. Len(b) : b[n] \in Batch
    OBVIOUS
  <1>2. \A x \in Batch : x.events \in Seq(Nat)
    BY DEF Batch
  <1> QED BY <1>1, <1>2

\* The recursion has a solution: the events of the first 0, 1, 2, ... batches.
LEMMA AllEventsByParts ==
    ASSUME NEW b \in Seq(Batch)
    PROVE  \E f : Parts(b, f) /\ AllEvents(b) = f[Len(b)]
  <1> DEFINE step == [p \in Seq(Nat) \X (1 .. Len(b)) |-> p[1] \o b[p[2]].events]
             f == CHOOSE h : Upto(b, h)
  <1>1. Len(b) \in Nat /\ \A n \in 1 .. Len(b) : b[n].events \in Seq(Nat)
    BY EventsType
  <1>2. PICK g : Recurses(g, Seq(Nat), <<>>, step, Len(b))
    <2>1. step \in [Seq(Nat) \X (1 .. Len(b)) -> Seq(Nat)]
      BY <1>1
    <2>2. <<>> \in Seq(Nat)
      OBVIOUS
    <2> HIDE DEF step
    <2> QED BY <1>1, <2>1, <2>2, RecursionExists
  <1>3. Upto(b, g)
    <2>1. g \in [0 .. Len(b) -> Seq(Nat)] /\ g[0] = <<>>
      BY <1>2 DEF Recurses
    <2>2. ASSUME NEW n \in 1 .. Len(b)
          PROVE  g[n] = g[n - 1] \o b[n].events
      <3>1. g[n] = step[<<g[n - 1], n>>]
        BY <1>2 DEF Recurses
      <3>2. <<g[n - 1], n>> \in Seq(Nat) \X (1 .. Len(b))
        BY <2>1, <1>1
      <3> QED BY <3>1, <3>2
    <2>3. \A n \in 0 .. Len(b) :
            g[n] = IF n = 0 THEN <<>> ELSE g[n - 1] \o b[n].events
      <3>1. \A n \in 0 .. Len(b) : n = 0 \/ n \in 1 .. Len(b)
        BY <1>1
      <3> QED BY <2>1, <2>2, <3>1, Zenon
    <2> QED BY <2>1, <2>3 DEF Upto
  <1>4. Upto(b, f)
    BY <1>3
  <1>5. AllEvents(b) = f[Len(b)]
    BY DEF AllEvents, Upto
  <1> HIDE DEF f
  <1>6. /\ f[0] = <<>>
        /\ \A n \in 1 .. Len(b) : f[n] = f[n - 1] \o b[n].events
    <2>1. \A n \in 0 .. Len(b) :
            f[n] = IF n = 0 THEN <<>> ELSE f[n - 1] \o b[n].events
      BY <1>4, Zenon DEF Upto
    <2>2. /\ 0 \in 0 .. Len(b)
          /\ \A n \in 1 .. Len(b) : n \in 0 .. Len(b) /\ n # 0
      BY <1>1
    <2> QED BY <2>1, <2>2, Zenon
  <1>7. f \in [0 .. Len(b) -> Seq(Nat)]
    <2> DEFINE Good == {n \in Nat : n <= Len(b) => f[n] \in Seq(Nat)}
    <2>1. 0 \in Good
      <3>1. f[0] \in Seq(Nat)
        BY <1>6, EmptySeq, Zenon
      <3> QED BY <3>1
    <2>2. ASSUME NEW n \in Nat, n \in Good
          PROVE  n + 1 \in Good
      <3>1. ASSUME NEW m \in 1 .. Len(b), f[m - 1] \in Seq(Nat)
            PROVE  f[m] \in Seq(Nat)
        <4>1. f[m] = f[m - 1] \o b[m].events /\ b[m].events \in Seq(Nat)
          BY <1>6, <1>1, Zenon
        <4> QED BY <3>1, <4>1
      <3> QED BY <1>1, <2>2, <3>1
    <2>3. \A n \in Nat : n \in Good
      <3> HIDE DEF Good
      <3> QED BY <2>1, <2>2, SetInduction
    <2>4. \A n \in 0 .. Len(b) : f[n] \in Seq(Nat)
      BY <2>3, <1>1
    <2> QED BY <2>4, <1>4 DEF Upto
  <1> QED BY <1>5, <1>6, <1>7, Zenon DEF Parts

\* The recursion of CountEvents counts the same events.
LEMMA CountIsLength ==
    ASSUME NEW b \in Seq(Batch)
    PROVE  CountEvents(b) = Len(AllEvents(b)) /\ AllEvents(b) \in Seq(Nat)
  <1> DEFINE Counts(h) == h = [n \in 0 .. Len(b) |->
                                  IF n = 0 THEN 0 ELSE h[n - 1] + Len(b[n].events)]
             c == CHOOSE h : Counts(h)
  <1>1. Len(b) \in Nat /\ \A n \in 1 .. Len(b) : b[n].events \in Seq(Nat)
    BY EventsType
  <1>2. PICK f : Parts(b, f) /\ AllEvents(b) = f[Len(b)]
    BY AllEventsByParts
  <1>3. /\ \A n \in 0 .. Len(b) : f[n] \in Seq(Nat) /\ Len(f[n]) \in Nat
        /\ Len(f[0]) = 0
        /\ \A n \in 1 .. Len(b) : Len(f[n]) = Len(f[n - 1]) + Len(b[n].events)
    <2>1. /\ \A n \in 0 .. Len(b) : f[n] \in Seq(Nat)
          /\ f[0] = <<>>
          /\ \A n \in 1 .. Len(b) : f[n] = f[n - 1] \o b[n].events
      BY <1>2, Zenon DEF Parts
    <2>2. ASSUME NEW n \in 1 .. Len(b)
          PROVE  Len(f[n]) = Len(f[n - 1]) + Len(b[n].events)
      <3>1. f[n - 1] \in Seq(Nat)
        BY <1>1, <2>1
      <3>2. b[n].events \in Seq(Nat) /\ f[n] = f[n - 1] \o b[n].events
        BY <1>1, <2>1, Zenon
      <3> QED BY <3>1, <3>2
    <2>3. Len(f[0]) = 0
      BY <2>1
    <2>4. \A n \in 0 .. Len(b) : Len(f[n]) \in Nat
      BY <2>1
    <2> QED BY <2>1, <2>2, <2>3, <2>4, Zenon
  <1>4. Counts(c)
    <2> DEFINE h == [n \in 0 .. Len(b) |-> Len(f[n])]
    <2>1. Counts(h)
      <3>1. \A n \in 0 .. Len(b) :
              h[n] = IF n = 0 THEN 0 ELSE h[n - 1] + Len(b[n].events)
        <4>1. \A n \in 0 .. Len(b) : n = 0 \/ (n \in 1 .. Len(b) /\ n - 1 \in 0 .. Len(b))
          BY <1>1
        <4> QED BY <1>3, <4>1, Zenon
      <3> QED BY <3>1
    <2> HIDE DEF h
    <2> QED BY <2>1
  <1>5. CountEvents(b) = c[Len(b)]
    BY DEF CountEvents
  <1> HIDE DEF c
  <1>6. /\ c[0] = 0
        /\ \A n \in 1 .. Len(b) : c[n] = c[n - 1] + Len(b[n].events)
    BY <1>1, <1>4
  <1>7. \A n \in Nat : n <= Len(b) => c[n] = Len(f[n])
    <2> DEFINE Good == {n \in Nat : n <= Len(b) => c[n] = Len(f[n])}
    <2>1. 0 \in Good
      BY <1>3, <1>6
    <2>2. ASSUME NEW n \in Nat, n \in Good
          PROVE  n + 1 \in Good
      <3>1. \A m \in 1 .. Len(b) : c[m - 1] = Len(f[m - 1]) => c[m] = Len(f[m])
        BY <1>3, <1>6, Zenon
      <3> HIDE DEF Counts
      <3> QED BY <1>1, <2>2, <3>1
    <2>3. \A n \in Nat : n \in Good
      <3> HIDE DEF Good
      <3> QED BY <2>1, <2>2, SetInduction
    <2> QED BY <2>3
  <1> QED BY <1>1, <1>2, <1>3, <1>5, <1>7

\* No batches, no events.
LEMMA AllEventsEmpty == AllEvents(<<>>) = <<>>
  <1>1. <<>> \in Seq(Batch) /\ Len(<<>>) = 0
    OBVIOUS
  <1>2. PICK f : Parts(<<>>, f) /\ AllEvents(<<>>) = f[Len(<<>>)]
    BY <1>1, AllEventsByParts
  <1> QED BY <1>1, <1>2 DEF Parts

\* A batch at the end adds its events at the end.
LEMMA AllEventsAppend ==
    ASSUME NEW b \in Seq(Batch), NEW x \in Batch
    PROVE  AllEvents(Append(b, x)) = AllEvents(b) \o x.events
  <1> DEFINE a == Append(b, x)
  <1>1. /\ a \in Seq(Batch) /\ Len(a) = Len(b) + 1 /\ Len(b) \in Nat
        /\ \A n \in 1 .. Len(b) : a[n] = b[n]
        /\ a[Len(b) + 1] = x
    OBVIOUS
  <1> HIDE DEF a
  <1>2. PICK f : Parts(b, f) /\ AllEvents(b) = f[Len(b)]
    BY AllEventsByParts
  <1>3. PICK g : Parts(a, g) /\ AllEvents(a) = g[Len(a)]
    BY <1>1, AllEventsByParts
  <1>4. \A n \in 1 .. Len(b) + 1 : g[n] = g[n - 1] \o a[n].events
    BY <1>1, <1>3, Zenon DEF Parts
  <1>5. \A n \in Nat : n <= Len(b) => g[n] = f[n]
    <2> DEFINE Good == {n \in Nat : n <= Len(b) => g[n] = f[n]}
    <2>1. 0 \in Good
      BY <1>2, <1>3 DEF Parts
    <2>2. ASSUME NEW n \in Nat, n \in Good
          PROVE  n + 1 \in Good
      <3>1. ASSUME NEW m \in 1 .. Len(b), g[m - 1] = f[m - 1]
            PROVE  g[m] = f[m]
        <4>1. m \in 1 .. Len(b) + 1
          BY <1>1
        <4>2. f[m] = f[m - 1] \o b[m].events
          BY <1>2, Zenon DEF Parts
        <4> QED BY <1>1, <1>4, <3>1, <4>1, <4>2, Zenon
      <3> QED BY <1>1, <2>2, <3>1
    <2>3. \A n \in Nat : n \in Good
      <3> HIDE DEF Good
      <3> QED BY <2>1, <2>2, SetInduction
    <2> QED BY <2>3
  <1>6. g[Len(b)] = f[Len(b)]
    BY <1>1, <1>5
  <1>7. g[Len(b) + 1] = g[Len(b)] \o x.events
    <2>1. Len(b) + 1 \in 1 .. Len(b) + 1 /\ (Len(b) + 1) - 1 = Len(b)
      BY <1>1
    <2>2. \A m : m = Len(b) + 1 => g[m] = g[m - 1] \o a[m].events
      BY <1>4, <2>1, Zenon
    <2> QED BY <1>1, <2>1, <2>2, Zenon
  <1> QED BY <1>1, <1>2, <1>3, <1>6, <1>7, Zenon DEF a

\* Concatenation does not depend on how it is bracketed.
LEMMA ConcatAssoc ==
    ASSUME NEW r \in Seq(Nat), NEW s \in Seq(Nat), NEW t \in Seq(Nat)
    PROVE  (r \o s) \o t = r \o (s \o t)
  OBVIOUS

\* The events begin with those of the first batch.
LEMMA AllEventsHead ==
    ASSUME NEW b \in Seq(Batch), b # <<>>
    PROVE  AllEvents(b) = Head(b).events \o AllEvents(Tail(b))
  <1> DEFINE t == Tail(b)
             N == Len(b) - 1
             first == Head(b).events
  <1>1. /\ Len(b) \in Nat /\ N \in Nat /\ Len(b) = N + 1
        /\ t \in Seq(Batch) /\ Len(t) = N
        /\ \A n \in 1 .. N : t[n] = b[n + 1]
        /\ Head(b) = b[1]
    OBVIOUS
  <1>2. /\ first \in Seq(Nat)
        /\ \A n \in 1 .. N : t[n].events \in Seq(Nat)
    <2>1. 1 \in 1 .. Len(b)
      BY <1>1
    <2> QED BY <1>1, <2>1, EventsType, Zenon
  <1> HIDE DEF t, N, first
  <1>3. PICK f : Parts(b, f) /\ AllEvents(b) = f[Len(b)]
    BY AllEventsByParts
  <1>4. PICK g : Parts(t, g) /\ AllEvents(t) = g[Len(t)]
    BY <1>1, AllEventsByParts
  <1>5. /\ \A n \in 0 .. N : g[n] \in Seq(Nat)
        /\ g[0] = <<>>
        /\ \A n \in 1 .. N : g[n] = g[n - 1] \o t[n].events
    BY <1>1, <1>4, Zenon DEF Parts
  <1>6. /\ f[0] = <<>>
        /\ \A n \in 1 .. N + 1 : f[n] = f[n - 1] \o b[n].events
    BY <1>1, <1>3, Zenon DEF Parts
  <1>7. f[1] = first
    <2>1. 1 \in 1 .. N + 1 /\ 1 - 1 = 0
      BY <1>1
    <2>2. f[1] = f[1 - 1] \o b[1].events
      BY <1>6, <2>1, Zenon
    <2>3. f[1] = <<>> \o first
      BY <1>1, <1>6, <2>1, <2>2, Zenon DEF first
    <2> QED BY <1>2, <2>3
  <1>8. \A n \in Nat : n <= N => f[n + 1] = first \o g[n]
    <2> DEFINE Good == {n \in Nat : n <= N => f[n + 1] = first \o g[n]}
    <2>1. 0 \in Good
      <3>1. f[0 + 1] = first \o g[0]
        BY <1>2, <1>5, <1>7
      <3> QED BY <3>1
    <2>2. ASSUME NEW n \in Nat, n \in Good
          PROVE  n + 1 \in Good
      <3>1. ASSUME NEW m \in 1 .. N, f[m] = first \o g[m - 1]
            PROVE  f[m + 1] = first \o g[m]
        <4>1. m + 1 \in 1 .. N + 1 /\ (m + 1) - 1 = m /\ m - 1 \in 0 .. N
          BY <1>1
        <4>2. \A k \in 1 .. N + 1 : k = m + 1 => f[k] = f[m] \o t[m].events
          BY <1>1, <1>6, <4>1, Zenon
        <4>3. f[m + 1] = (first \o g[m - 1]) \o t[m].events
          BY <3>1, <4>1, <4>2, Zenon
        <4>4. g[m - 1] \in Seq(Nat) /\ t[m].events \in Seq(Nat)
          BY <1>2, <1>5, <4>1, Zenon
        <4>5. (first \o g[m - 1]) \o t[m].events = first \o (g[m - 1] \o t[m].events)
          BY <1>2, <4>4, ConcatAssoc, Zenon
        <4>6. g[m] = g[m - 1] \o t[m].events
          BY <1>5, Zenon
        <4> QED BY <4>3, <4>5, <4>6, Zenon
      <3> SUFFICES ASSUME n + 1 <= N PROVE f[(n + 1) + 1] = first \o g[n + 1]
        OBVIOUS
      <3>2. n + 1 \in 1 .. N /\ (n + 1) - 1 = n /\ n <= N
        BY <1>1
      <3>3. \A m \in 1 .. N : m - 1 = n /\ m = n + 1 => f[m + 1] = first \o g[m]
        BY <2>2, <3>1, <3>2
      <3> QED BY <3>2, <3>3
    <2>3. \A n \in Nat : n \in Good
      <3> HIDE DEF Good
      <3> QED BY <2>1, <2>2, SetInduction
    <2> QED BY <2>3
  <1>9. f[N + 1] = first \o g[N]
    BY <1>1, <1>8
  <1> QED BY <1>1, <1>3, <1>4, <1>9, Zenon DEF t, first

\* What counting gains and loses with a batch.
LEMMA CountFacts ==
    /\ CountEvents(<<>>) = 0
    /\ \A b \in Seq(Batch) :
          /\ CountEvents(b) \in Nat
          /\ \A x \in Batch : CountEvents(Append(b, x)) = CountEvents(b) + Len(x.events)
          /\ b # <<>> => CountEvents(b) = Len(Head(b).events) + CountEvents(Tail(b))
  <1>1. CountEvents(<<>>) = 0
    <2>1. <<>> \in Seq(Batch) /\ Len(<<>>) = 0
      OBVIOUS
    <2> QED BY <2>1, CountIsLength, AllEventsEmpty, Zenon
  <1>2. ASSUME NEW b \in Seq(Batch)
        PROVE  CountEvents(b) \in Nat
    BY CountIsLength
  <1>3. ASSUME NEW b \in Seq(Batch), NEW x \in Batch
        PROVE  CountEvents(Append(b, x)) = CountEvents(b) + Len(x.events)
    <2>1. Append(b, x) \in Seq(Batch)
      OBVIOUS
    <2>2. AllEvents(b) \in Seq(Nat) /\ x.events \in Seq(Nat)
      BY CountIsLength DEF Batch
    <2>3. AllEvents(Append(b, x)) = AllEvents(b) \o x.events
      BY AllEventsAppend
    <2>4. Len(AllEvents(b) \o x.events) = Len(AllEvents(b)) + Len(x.events)
      BY <2>2
    <2> QED BY <2>1, <2>3, <2>4, CountIsLength, Zenon
  <1>4. ASSUME NEW b \in Seq(Batch), b # <<>>
        PROVE  CountEvents(b) = Len(Head(b).events) + CountEvents(Tail(b))
    <2>1. Tail(b) \in Seq(Batch) /\ Head(b) \in Batch
      BY <1>4
    <2>2. AllEvents(Tail(b)) \in Seq(Nat) /\ Head(b).events \in Seq(Nat)
      BY <2>1, CountIsLength DEF Batch
    <2>3. AllEvents(b) = Head(b).events \o AllEvents(Tail(b))
      BY <1>4, AllEventsHead
    <2>4. Len(Head(b).events \o AllEvents(Tail(b)))
             = Len(Head(b).events) + Len(AllEvents(Tail(b)))
      BY <2>2
    <2> QED BY <2>1, <2>3, <2>4, CountIsLength, Zenon
  <1> QED BY <1>1, <1>2, <1>3, <1>4

-----------------------------------------------------------------------------
\* The constants that size the agent's own buffers.
LEMMA Sizes ==
    /\ RingCap \in Nat \ {0} /\ DrainMax \in Nat \ {0} /\ PerTick \in Nat \ {0}
    /\ MaxPackets \in Nat /\ TestSend \in BOOLEAN /\ CloseRing \in BOOLEAN
  BY AgentAssumption, Zenon

\* Where the stream task is suspended says what it holds.
StreamShape ==
    /\ stream = "send" => sending.seq = seq /\ sending.events # <<>>
    /\ stream # "send" => sending = NoBatch
    /\ stream # "loop" => pending = <<>>
    /\ stream = "done" => chan = <<>>
    /\ net = "idle" <=> stream = "open"
    /\ net # "up" => batchChan = <<>>

StreamInv == StreamTypeOK /\ StreamShape

\* The batch a flush is waiting to send is one.
LEMMA SendingIsABatch ==
    ASSUME StreamInv, stream = "send"
    PROVE  sending \in Batch
  BY DEF StreamInv, StreamTypeOK, StreamShape, Batch

\* Empty queues, and no batch.
LEMMA Empty ==
    /\ <<>> \in Seq(Nat) /\ <<>> \in Seq(Batch) /\ Len(<<>>) = 0
    /\ Len(<<>>) <= ChanCap /\ Len(<<>>) <= BatchCap
    /\ NoBatch \in [seq : Nat \cup {-1}, events : Seq(Nat)]
    /\ NoBatch.events = <<>>
  <1>1. <<>> \in Seq(Nat) /\ <<>> \in Seq(Batch) /\ Len(<<>>) = 0
    OBVIOUS
  <1>2. Len(<<>>) <= ChanCap /\ Len(<<>>) <= BatchCap
    BY <1>1, StreamAssumption
  <1>3. NoBatch.events = <<>> /\ NoBatch \in [seq : Nat \cup {-1}, events : Seq(Nat)]
    BY <1>1 DEF NoBatch
  <1> QED BY <1>1, <1>2, <1>3

\* One more packet at the end, one less at the front.
LEMMA AppendFacts ==
    ASSUME NEW s \in Seq(Nat), NEW x \in Nat
    PROVE  /\ Append(s, x) \in Seq(Nat) /\ Append(s, x) # <<>>
           /\ Len(Append(s, x)) = Len(s) + 1
  <1>1. Append(s, x) \in Seq(Nat) /\ Len(Append(s, x)) = Len(s) + 1 /\ Len(s) \in Nat
    OBVIOUS
  <1>2. Len(<<>>) = 0
    OBVIOUS
  <1>3. Len(Append(s, x)) # 0
    BY <1>1
  <1> QED BY <1>1, <1>2, <1>3, Zenon

\* Taking the head off a sequence of packets.
LEMMA TailFacts ==
    ASSUME NEW s \in Seq(Nat), s # <<>>
    PROVE  Head(s) \in Nat /\ Tail(s) \in Seq(Nat) /\ Len(s) = Len(Tail(s)) + 1
  OBVIOUS

\* The stream task starts well-typed.
LEMMA StreamInvInitially == StreamInit => StreamInv
  <1> SUFFICES ASSUME StreamInit PROVE StreamInv
    OBVIOUS
  <1>1. StreamTypeOK
    BY Empty DEF StreamInit, StreamTypeOK
  <1>2. StreamShape
    BY DEF StreamInit, StreamShape
  <1> QED BY <1>1, <1>2 DEF StreamInv

\* A send to the packet channel keeps the types of the stream.
LEMMA StreamInvSend ==
    ASSUME StreamInv, NEW p \in Nat, ChanSend(p)
    PROVE  StreamInv'
  <1>1. chan' \in Seq(Nat) /\ Len(chan') <= ChanCap
    BY StreamAssumption DEF StreamInv, StreamTypeOK, ChanSend, ChanHasRoom
  <1>2. StreamTypeOK'
    BY <1>1 DEF StreamInv, StreamTypeOK, ChanSend
  <1>3. StreamShape'
    BY DEF StreamInv, StreamShape, ChanSend, ChanClosed
  <1> QED BY <1>2, <1>3 DEF StreamInv

\* Opening the RPC, or failing to, keeps them.
LEMMA StreamInvOpen ==
    ASSUME StreamInv, OpenOk \/ OpenErr
    PROVE  StreamInv'
  <1>1. CASE OpenOk
    BY <1>1 DEF StreamInv, StreamTypeOK, StreamShape, OpenOk
  <1>2. CASE OpenErr
    BY <1>2, StreamAssumption DEF StreamInv, StreamTypeOK, StreamShape, OpenErr
  <1> QED BY <1>1, <1>2

\* What a flush puts into `sending` and `pending`.
LEMMA FlushType ==
    ASSUME StreamInv, NEW e \in Seq(Nat), NEW last \in BOOLEAN, BeginFlush(e, last)
    PROVE  /\ sending' \in [seq : Nat \cup {-1}, events : Seq(Nat)]
           /\ sending'.seq = seq /\ sending'.events = e
           /\ pending' = <<>> /\ exiting' \in BOOLEAN /\ stream' = "send"
  BY DEF StreamInv, StreamTypeOK, BeginFlush, BatchOf

\* Both reasons to stop: flush what is pending and then return, or return.
LEMMA StreamInvStop ==
    ASSUME StreamInv, StreamCancelled \/ RecvClosed(Senders)
    PROVE  StreamInv'
  <1>1. CASE pending = <<>>
    <2>1. Return(chan) /\ UNCHANGED <<pending, sending, exiting, cancelled, seq, captured,
                                      batchChan, net, delivered, unparsed, lostNet>>
          /\ stream = "loop"
      BY <1>1 DEF StreamCancelled, RecvClosed
    <2>2. lostRx' \in Nat
      BY <2>1 DEF StreamInv, StreamTypeOK, Return
    <2>3. StreamTypeOK'
      BY <2>1, <2>2, Empty DEF StreamInv, StreamTypeOK, Return
    <2>4. StreamShape'
      BY <1>1, <2>1 DEF StreamInv, StreamShape, Return
    <2> QED BY <2>3, <2>4 DEF StreamInv
  <1>2. CASE pending # <<>>
    <2>1. BeginFlush(pending, TRUE) /\ UNCHANGED <<chan, lostRx, cancelled, seq, captured,
                                      batchChan, net, delivered, unparsed, lostNet>>
          /\ stream = "loop"
      BY <1>2 DEF StreamCancelled, RecvClosed
    <2>2. pending \in Seq(Nat)
      BY DEF StreamInv, StreamTypeOK
    <2>3. /\ sending' \in [seq : Nat \cup {-1}, events : Seq(Nat)]
          /\ sending'.seq = seq /\ sending'.events = pending
          /\ pending' = <<>> /\ exiting' \in BOOLEAN /\ stream' = "send"
      BY <2>1, <2>2, FlushType
    <2> QED BY <1>2, <2>1, <2>3 DEF StreamInv, StreamTypeOK, StreamShape
  <1> QED BY <1>1, <1>2

\* A tick of the flush timer keeps them.
LEMMA StreamInvTick ==
    ASSUME StreamInv, Tick
    PROVE  StreamInv'
  <1>1. pending \in Seq(Nat) /\ BeginFlush(pending, FALSE) /\ pending # <<>>
    BY DEF StreamInv, StreamTypeOK, Tick
  <1>2. /\ sending' \in [seq : Nat \cup {-1}, events : Seq(Nat)]
        /\ sending'.seq = seq /\ sending'.events = pending
        /\ pending' = <<>> /\ exiting' \in BOOLEAN /\ stream' = "send"
    BY <1>1, FlushType
  <1> QED BY <1>1, <1>2 DEF StreamInv, StreamTypeOK, StreamShape, Tick

\* Receiving a packet, or the end of the channel, keeps them.
LEMMA StreamInvRecv ==
    ASSUME StreamInv, Recv
    PROVE  StreamInv'
  <1> DEFINE events == Append(pending, Head(chan))
  <1>1. /\ chan \in Seq(Nat) /\ chan # <<>> /\ pending \in Seq(Nat)
        /\ chan' = Tail(chan) /\ Head(chan) \in Nat /\ Len(chan) <= ChanCap
        /\ stream = "loop"
        /\ UNCHANGED <<cancelled, seq, batchChan, net, delivered, lostRx, lostNet>>
    BY DEF StreamInv, StreamTypeOK, Recv
  <1>2. chan' \in Seq(Nat) /\ Len(chan') <= ChanCap
    BY <1>1, StreamAssumption
  <1>3. events \in Seq(Nat) /\ events # <<>>
    BY <1>1, AppendFacts
  <1>4. CASE parse_packet(Head(chan)) /\ BatchFull(events)
    <2>1. BeginFlush(events, FALSE) /\ captured' = captured + 1 /\ UNCHANGED unparsed
      BY <1>4 DEF Recv
    <2> HIDE DEF events
    <2>2. /\ sending' \in [seq : Nat \cup {-1}, events : Seq(Nat)]
          /\ sending'.seq = seq /\ sending'.events = events
          /\ pending' = <<>> /\ exiting' \in BOOLEAN /\ stream' = "send"
      BY <1>3, <2>1, FlushType
    <2> QED BY <1>1, <1>2, <1>3, <2>1, <2>2 DEF StreamInv, StreamTypeOK, StreamShape
  <1>5. CASE parse_packet(Head(chan)) /\ ~BatchFull(events)
    <2>1. /\ pending' = events /\ captured' = captured + 1
          /\ UNCHANGED <<unparsed, sending, exiting, stream>>
      BY <1>5 DEF Recv
    <2> HIDE DEF events
    <2> QED BY <1>1, <1>2, <1>3, <2>1 DEF StreamInv, StreamTypeOK, StreamShape
  <1>6. CASE ~parse_packet(Head(chan))
    <2>1. /\ unparsed' = unparsed + 1
          /\ UNCHANGED <<captured, pending, sending, exiting, stream>>
      BY <1>6 DEF Recv
    <2> QED BY <1>1, <1>2, <2>1 DEF StreamInv, StreamTypeOK, StreamShape
  <1> QED BY <1>4, <1>5, <1>6

\* Both ends of a flush.
LEMMA EndFlushType ==
    ASSUME StreamInv, EndFlush
    PROVE  /\ seq' \in Nat /\ sending' = NoBatch /\ exiting' \in BOOLEAN
           /\ sending' \in [seq : Nat \cup {-1}, events : Seq(Nat)]
           /\ stream' \in {"loop", "done"} /\ lostRx' \in Nat
           /\ chan' \in Seq(Nat) /\ Len(chan') <= ChanCap
           /\ stream' = "done" => chan' = <<>>
  <1>1. lostRx + Len(chan) \in Nat
    BY DEF StreamInv, StreamTypeOK
  <1>2. seq' \in Nat /\ sending' = NoBatch /\ exiting' \in BOOLEAN
    <2>1. seq' = seq + 1 /\ sending' = NoBatch /\ exiting' = FALSE
      BY Zenon DEF EndFlush
    <2>2. seq + 1 \in Nat
      BY DEF StreamInv, StreamTypeOK
    <2> QED BY <2>1, <2>2, Zenon
  <1>3. CASE exiting
    <2>1. stream' = "done" /\ chan' = <<>> /\ lostRx' = lostRx + Len(chan)
      BY <1>3 DEF EndFlush, Return
    <2> QED BY <1>1, <1>2, <2>1, Empty
  <1>4. CASE ~exiting
    <2>1. stream' = "loop" /\ UNCHANGED <<chan, lostRx>>
      BY <1>4 DEF EndFlush
    <2> QED BY <1>2, <2>1, Empty DEF StreamInv, StreamTypeOK
  <1> QED BY <1>3, <1>4

\* The outcome of a send of a batch keeps them.
LEMMA StreamInvSent ==
    ASSUME StreamInv, SendOk \/ SendErr
    PROVE  StreamInv'
  <1>1. /\ seq' \in Nat /\ sending' = NoBatch /\ exiting' \in BOOLEAN
        /\ sending' \in [seq : Nat \cup {-1}, events : Seq(Nat)]
        /\ stream' \in {"loop", "done"} /\ lostRx' \in Nat
        /\ chan' \in Seq(Nat) /\ Len(chan') <= ChanCap
        /\ stream' = "done" => chan' = <<>>
    BY EndFlushType DEF SendOk, SendErr
  <1>2. /\ UNCHANGED <<cancelled, pending, captured, net, delivered, unparsed>>
        /\ stream = "send"
    BY DEF SendOk, SendErr
  <1>3. /\ batchChan' \in Seq(Batch) /\ Len(batchChan') <= BatchCap
        /\ lostNet' \in Nat
        /\ net # "up" => batchChan' = <<>>
    <2>1. CASE SendOk
      <3>1. sending \in Batch
        BY <1>2, SendingIsABatch
      <3>2. batchChan' \in Seq(Batch) /\ Len(batchChan') <= BatchCap
        BY <2>1, <3>1, StreamAssumption DEF SendOk, StreamInv, StreamTypeOK
      <3> QED BY <2>1, <3>2 DEF SendOk, StreamInv, StreamTypeOK
    <2>2. CASE SendErr
      <3>1. Len(sending.events) \in Nat
        BY DEF StreamInv, StreamTypeOK
      <3> QED BY <2>2, <3>1 DEF SendErr, StreamInv, StreamTypeOK, StreamShape
    <2> QED BY <2>1, <2>2
  <1>4. StreamTypeOK'
    BY <1>1, <1>2, <1>3 DEF StreamInv, StreamTypeOK
  <1>5. StreamShape'
    BY <1>1, <1>2, <1>3 DEF StreamInv, StreamShape
  <1> QED BY <1>4, <1>5 DEF StreamInv

\* What the network does keeps them.
LEMMA StreamInvNet ==
    ASSUME StreamInv, NetPull \/ NetBreak
    PROVE  StreamInv'
  <1>1. /\ UNCHANGED <<chan, cancelled, stream, pending, sending, exiting, seq,
                       captured, lostRx, unparsed>>
        /\ net = "up"
    BY DEF NetPull, NetBreak
  <1>2. /\ batchChan' \in Seq(Batch) /\ Len(batchChan') <= BatchCap
        /\ delivered' \in Seq(Batch) /\ lostNet' \in Nat
        /\ net' \in {"up", "down"} /\ (net' # "up" => batchChan' = <<>>)
    <2>1. CASE NetPull
      <3>1. batchChan \in Seq(Batch) /\ batchChan # <<>> /\ delivered \in Seq(Batch)
        BY <2>1 DEF NetPull, StreamInv, StreamTypeOK
      <3>2. Head(batchChan) \in Batch /\ Tail(batchChan) \in Seq(Batch)
            /\ Len(Tail(batchChan)) <= Len(batchChan)
        BY <3>1
      <3> QED BY <2>1, <3>1, <3>2, StreamAssumption DEF NetPull, StreamInv, StreamTypeOK
    <2>2. CASE NetBreak
      <3>1. CountEvents(batchChan) \in Nat
        BY CountFacts DEF StreamInv, StreamTypeOK
      <3> QED BY <2>2, <3>1, StreamAssumption DEF NetBreak, StreamInv, StreamTypeOK
    <2> QED BY <2>1, <2>2
  <1>3. StreamTypeOK'
    BY <1>1, <1>2 DEF StreamInv, StreamTypeOK
  <1>4. StreamShape'
    BY <1>1, <1>2 DEF StreamInv, StreamShape
  <1> QED BY <1>3, <1>4 DEF StreamInv

-----------------------------------------------------------------------------
(* The ring buffer with the analyzer as its one consumer. *)

RingInv == Ring!RingTypeOK(Nat)

\* The ring starts empty and open, its analyzer awake.
LEMMA RingInvInitially == Ring!new => RingInv
  <1> SUFFICES ASSUME Ring!new PROVE RingInv
    OBVIOUS
  <1>1. Len(<<>>) <= RingCap
    BY Empty, Sizes
  <1>2. buf \in Seq(Nat) /\ Len(buf) <= RingCap /\ dropped \in Nat
    BY <1>1, Empty DEF Ring!new
  <1> QED BY <1>2 DEF Ring!new, RingInv, Ring!RingTypeOK

\* A push keeps the newest RingCap packets.
LEMMA PushFacts ==
    ASSUME RingInv, NEW p \in Nat, Ring!Push(p)
    PROVE  /\ buf \in Seq(Nat) /\ buf' \in Seq(Nat) /\ Len(buf') <= RingCap
           /\ dropped \in Nat
           /\ \/ buf' = Append(buf, p) /\ dropped' = dropped
              \/ /\ buf # <<>> /\ buf' = Append(Tail(buf), p)
                 /\ dropped' = dropped + 1
  <1>1. buf \in Seq(Nat) /\ Len(buf) <= RingCap /\ dropped \in Nat
    BY DEF RingInv, Ring!RingTypeOK
  <1>2. CASE Len(buf) = RingCap
    <2>1. buf # <<>>
      BY <1>1, <1>2, Sizes
    <2>2. buf' = Append(Tail(buf), p) /\ dropped' = dropped + 1
      BY <1>2 DEF Ring!Push, Ring!PushBack
    <2>3. Tail(buf) \in Seq(Nat) /\ Len(buf) = Len(Tail(buf)) + 1
      BY <1>1, <2>1, TailFacts
    <2>4. buf' \in Seq(Nat) /\ Len(buf') = Len(Tail(buf)) + 1
      BY <2>2, <2>3, AppendFacts
    <2> QED BY <1>1, <1>2, <2>1, <2>2, <2>3, <2>4, Sizes
  <1>3. CASE Len(buf) # RingCap
    <2>1. buf' = Append(buf, p) /\ dropped' = dropped
      BY <1>3 DEF Ring!Push, Ring!PushBack
    <2>2. buf' \in Seq(Nat) /\ Len(buf') = Len(buf) + 1
      BY <1>1, <2>1, AppendFacts
    <2> QED BY <1>1, <1>3, <2>1, <2>2, Sizes
  <1> QED BY <1>2, <1>3

\* push keeps the ring within its capacity, dropping the oldest.
LEMMA RingInvPush ==
    ASSUME RingInv, NEW p \in Nat, Ring!Push(p)
    PROVE  RingInv'
  <1>1. buf' \in Seq(Nat) /\ Len(buf') <= RingCap /\ dropped' \in Nat
    BY PushFacts
  <1>2. /\ waiting' \subseteq {"analyzer"} /\ notified' \subseteq {"analyzer"}
        /\ waiting' \cap notified' = {}
    BY Zenon DEF RingInv, Ring!RingTypeOK, Ring!Push, Ring!NotifyOne
  <1>3. closed' \in BOOLEAN /\ closing' \in BOOLEAN
    BY Zenon DEF RingInv, Ring!RingTypeOK, Ring!Push
  <1> QED BY <1>1, <1>2, <1>3 DEF RingInv, Ring!RingTypeOK

\* close keeps the ring well-typed, in both of its steps.
LEMMA RingInvClose ==
    ASSUME RingInv, Ring!SetClosed \/ Ring!NotifyAll
    PROVE  RingInv'
  BY DEF RingInv, Ring!RingTypeOK, Ring!SetClosed, Ring!NotifyAll

\* A sequence is what comes up to a place and what comes after it.
LEMMA SplitAt ==
    ASSUME NEW s \in Seq(Nat), NEW n \in 0 .. Len(s)
    PROVE  s = SubSeq(s, 1, n) \o SubSeq(s, n + 1, Len(s))
  <1> DEFINE a == SubSeq(s, 1, n)
             b == SubSeq(s, n + 1, Len(s))
  <1>1. Len(s) \in Nat /\ n \in Nat /\ n <= Len(s)
    OBVIOUS
  <1>2. a \in Seq(Nat) /\ Len(a) = n /\ \A i \in 1 .. n : a[i] = s[i]
    BY <1>1
  <1>3. b \in Seq(Nat) /\ Len(b) = Len(s) - n /\ \A i \in 1 .. Len(s) - n : b[i] = s[n + i]
    BY <1>1
  <1> HIDE DEF a, b
  <1>0. /\ a \o b \in Seq(Nat) /\ Len(a \o b) = Len(a) + Len(b)
        /\ \A i \in 1 .. Len(a) + Len(b) :
              (a \o b)[i] = IF i <= Len(a) THEN a[i] ELSE b[i - Len(a)]
    BY <1>2, <1>3, ConcatProperties, Zenon
  <1>4. a \o b \in Seq(Nat) /\ Len(a \o b) = Len(s)
    BY <1>0, <1>1, <1>2, <1>3
  <1>5. ASSUME NEW i \in 1 .. Len(s) PROVE (a \o b)[i] = s[i]
    <2>1. i \in 1 .. Len(a) + Len(b)
      BY <1>1, <1>2, <1>3
    <2>2. CASE i <= n
      BY <2>1, <2>2, <1>0, <1>1, <1>2
    <2>3. CASE ~(i <= n)
      <3>1. i - n \in 1 .. Len(s) - n /\ n + (i - n) = i
        BY <2>3, <1>1
      <3>2. b[i - n] = s[i]
        BY <3>1, <1>3
      <3> QED BY <2>1, <2>3, <3>2, <1>0, <1>2
    <2> QED BY <2>2, <2>3
  <1>6. s = a \o b
    <2> DEFINE c == a \o b
    <2> HIDE DEF c
    <2>1. c \in Seq(Nat) /\ Len(c) = Len(s) /\ \A i \in 1 .. Len(s) : c[i] = s[i]
      BY <1>4, <1>5 DEF c
    <2>2. s = c
      BY <2>1, SeqEqual
    <2> QED BY <2>2 DEF c
  <1> QED BY <1>6 DEF a, b

\* A drain moves the oldest packets out and leaves the others.
LEMMA DrainFacts ==
    ASSUME RingInv, Ring!DrainBatch(DrainMax)
    PROVE  LET taken == SubSeq(buf, 1, Ring!DrainCount(DrainMax))
           IN  /\ taken \in Seq(Nat) /\ buf' \in Seq(Nat) /\ buf \in Seq(Nat)
               /\ buf = taken \o buf'
               /\ Len(buf) = Len(taken) + Len(buf')
               /\ taken = <<>> => buf = <<>>
  <1> DEFINE n == Ring!DrainCount(DrainMax)
             taken == SubSeq(buf, 1, n)
  <1>1. buf \in Seq(Nat) /\ Len(buf) \in Nat /\ DrainMax \in Nat /\ DrainMax # 0
    BY Sizes DEF RingInv, Ring!RingTypeOK
  <1>2. n \in 0 .. Len(buf) /\ (n = 0 => Len(buf) = 0)
    BY <1>1 DEF Ring!DrainCount
  <1>3. buf' = SubSeq(buf, n + 1, Len(buf))
    BY DEF Ring!DrainBatch
  <1> HIDE DEF n
  <1>4. taken \in Seq(Nat) /\ Len(taken) = n
    BY <1>1, <1>2
  <1>5. buf' \in Seq(Nat) /\ Len(buf') = Len(buf) - n
    BY <1>1, <1>2, <1>3
  <1>6. buf = taken \o buf'
    BY <1>1, <1>2, <1>3, SplitAt
  <1>7. taken = <<>> => buf = <<>>
    BY <1>1, <1>2, <1>4
  <1>8. Len(buf) = Len(taken) + Len(buf')
    BY <1>1, <1>2, <1>4, <1>5
  <1> QED BY <1>1, <1>4, <1>5, <1>6, <1>7, <1>8 DEF n

\* So do all calls of the one consumer.
LEMMA RingInvTake ==
    ASSUME RingInv,
           \/ Ring!DrainBatch(DrainMax) \/ Ring!PopSome("analyzer")
           \/ Ring!PopNone("analyzer") \/ Ring!PopWait("analyzer")
           \/ Ring!SpuriousWakeup("analyzer")
    PROVE  RingInv'
  <1> USE DEF RingInv, Ring!RingTypeOK
  <1>1. CASE Ring!DrainBatch(DrainMax)
    <2>1. buf' \in Seq(Nat) /\ Len(buf') <= Len(buf)
      BY <1>1, DrainFacts
    <2> QED BY <1>1, <2>1, Sizes DEF Ring!DrainBatch
  <1>2. CASE Ring!PopSome("analyzer")
    <2>1. buf' \in Seq(Nat) /\ Len(buf') <= RingCap
      BY <1>2, TailFacts, Sizes DEF Ring!PopSome
    <2> QED BY <1>2, <2>1 DEF Ring!PopSome
  <1>3. CASE Ring!PopNone("analyzer")
    BY <1>3 DEF Ring!PopNone
  <1>4. CASE Ring!PopWait("analyzer")
    BY <1>4 DEF Ring!PopWait
  <1>5. CASE Ring!SpuriousWakeup("analyzer")
    BY <1>5 DEF Ring!SpuriousWakeup
  <1> QED BY <1>1, <1>2, <1>3, <1>4, <1>5

-----------------------------------------------------------------------------
(* The agent: types, and what the analyzer and the test sender hold. *)

OwnInv ==
    /\ main \in {"register", "running", "cancelled", "join_stream",
                 "join_heartbeat", "join_capture", "persist", "exited",
                 "failed", "killed"}
    /\ shutdown \in BOOLEAN
    /\ capture \in {"open", "check", "next", "return", "notify", "join", "done"}
    /\ produced \in Nat
    /\ analyzer \in {"drain", "pop", "forward", "done"}
    /\ scored \in Seq(Nat)
    /\ tester \in {"generate", "send", "sleep", "done"}
    /\ toSend \in Seq(Nat)
    /\ hb \in {"loop", "rpc", "done"}
    /\ lostFull \in Nat /\ unsent \in Nat
    /\ analyzer = "forward" <=> scored # <<>>
    /\ tester # "send" => toSend = <<>>

TypeInv == StreamInv /\ RingInv /\ OwnInv

\* TypeInv has the types that the run checks.
LEMMA TypeInvIsTypeOK == TypeInv => TypeOK
  BY DEF TypeInv, StreamInv, RingInv, OwnInv, TypeOK

\* TypeInv holds when main has started the parts.
LEMMA TypeInvInitially == Init => TypeInv
  <1> SUFFICES ASSUME Init PROVE TypeInv
    OBVIOUS
  <1>1. StreamInv
    BY StreamInvInitially DEF Init
  <1>2. RingInv
    BY RingInvInitially DEF Init
  <1>3. OwnInv
    BY Sizes, Empty DEF Init, OwnInv
  <1> QED BY <1>1, <1>2, <1>3 DEF TypeInv

\* A step of another part leaves the stream alone.
LEMMA StreamInvStays == StreamInv /\ UNCHANGED <<streamVars, cancelled>> => StreamInv'
  BY DEF StreamInv, StreamTypeOK, StreamShape, streamVars

\* A step of another part leaves the ring alone.
LEMMA RingInvStays == RingInv /\ UNCHANGED ringVars => RingInv'
  BY DEF RingInv, Ring!RingTypeOK, ringVars

\* What the capture thread does to the ring buffer and the packet counter.
LEMMA CaptureCases ==
    ASSUME CaptureStep
    PROVE  /\ UNCHANGED <<streamVars, analyzerVars, testerVars, hb, mainVars>>
           /\ \/ UNCHANGED <<ringVars, produced>>
              \/ /\ produced < MaxPackets /\ produced' = produced + 1
                 /\ Ring!Push(produced + 1)
              \/ Ring!SetClosed /\ UNCHANGED produced
              \/ Ring!NotifyAll /\ UNCHANGED produced
  <1>1. UNCHANGED <<streamVars, analyzerVars, testerVars, hb, mainVars>>
    BY DEF CaptureStep, CaptureOpen, CaptureCheck, CapturePacket, CaptureNoPacket,
           CaptureReturn, CaptureNotify, CaptureJoin, OnlyCapture
  <1>2. CASE CapturePacket
    BY <1>1, <1>2 DEF CapturePacket
  <1>3. CASE CaptureReturn
    BY <1>1, <1>3 DEF CaptureReturn
  <1>4. CASE CaptureNotify
    BY <1>1, <1>4 DEF CaptureNotify
  <1>5. CASE CaptureOpen \/ CaptureCheck \/ CaptureNoPacket \/ CaptureJoin
    BY <1>1, <1>5 DEF CaptureOpen, CaptureCheck, CaptureNoPacket, CaptureJoin
  <1> QED BY <1>2, <1>3, <1>4, <1>5 DEF CaptureStep

\* The capture thread keeps TypeInv.
LEMMA TypeInvCapture ==
    ASSUME TypeInv, CaptureStep
    PROVE  TypeInv'
  <1>1. StreamInv'
    BY CaptureCases, StreamInvStays DEF TypeInv, mainVars
  <1>2. produced' \in Nat /\ produced + 1 \in Nat
    BY CaptureCases DEF TypeInv, OwnInv
  <1>3. RingInv'
    BY <1>2, CaptureCases, RingInvStays, RingInvPush, RingInvClose DEF TypeInv
  <1>4. capture' \in {"open", "check", "next", "return", "notify", "join", "done"}
    BY DEF CaptureStep, CaptureOpen, CaptureCheck, CapturePacket, CaptureNoPacket,
           CaptureReturn, CaptureNotify, CaptureJoin
  <1>5. OwnInv'
    BY <1>2, <1>4, CaptureCases DEF TypeInv, OwnInv, analyzerVars, testerVars, mainVars
  <1> QED BY <1>1, <1>3, <1>5 DEF TypeInv

\* The analyzer thread keeps TypeInv, spurious wake-ups included.
LEMMA TypeInvAnalyzer ==
    ASSUME TypeInv, AnalyzerStep \/ AnalyzerSpurious
    PROVE  TypeInv'
  <1>1. UNCHANGED <<captureVars, testerVars, hb, mainVars>>
    BY DEF AnalyzerStep, AnalyzerDrain, AnalyzerPop, AnalyzerForward, AnalyzerSpurious,
           OnlyAnalyzer
  <1>2. CASE AnalyzerDrain
    <2>1. UNCHANGED <<streamVars, lostFull>> /\ Ring!DrainBatch(DrainMax)
      BY <1>2 DEF AnalyzerDrain
    <2>2. StreamInv' /\ RingInv'
      BY <1>1, <2>1, StreamInvStays, RingInvTake DEF TypeInv, mainVars
    <2>3. scored' \in Seq(Nat)
      BY <1>2, DrainFacts DEF TypeInv, AnalyzerDrain
    <2>4. OwnInv'
      BY <1>1, <1>2, <2>1, <2>3
         DEF TypeInv, OwnInv, AnalyzerDrain, captureVars, testerVars, mainVars
    <2> QED BY <2>2, <2>4 DEF TypeInv
  <1>3. CASE AnalyzerPop
    <2>1. UNCHANGED <<streamVars, lostFull>>
      BY <1>3 DEF AnalyzerPop
    <2>2. StreamInv' /\ RingInv'
      BY <1>1, <1>3, <2>1, StreamInvStays, RingInvTake DEF TypeInv, mainVars, AnalyzerPop
    <2>3. buf # <<>> => Head(buf) \in Nat
      BY TailFacts DEF TypeInv, RingInv, Ring!RingTypeOK
    <2>4. /\ scored' \in Seq(Nat) /\ analyzer' \in {"drain", "pop", "forward", "done"}
          /\ analyzer' = "forward" <=> scored' # <<>>
      <3>1. CASE Ring!PopSome("analyzer") /\ scored' = <<Head(buf)>> /\ analyzer' = "forward"
        <4>1. Head(buf) \in Nat
          BY <2>3, <3>1 DEF Ring!PopSome
        <4> QED BY <3>1, <4>1
      <3>2. CASE analyzer' = "done" /\ UNCHANGED scored
        BY <1>3, <3>2 DEF TypeInv, OwnInv, AnalyzerPop
      <3>3. CASE UNCHANGED <<analyzer, scored>>
        BY <3>3 DEF TypeInv, OwnInv
      <3> QED BY <1>3, <3>1, <3>2, <3>3 DEF AnalyzerPop
    <2>5. OwnInv'
      BY <1>1, <2>1, <2>4 DEF TypeInv, OwnInv, captureVars, testerVars, mainVars
    <2> QED BY <2>2, <2>5 DEF TypeInv
  <1>4. CASE AnalyzerForward
    <2>1. scored \in Seq(Nat) /\ scored # <<>>
      BY <1>4 DEF TypeInv, OwnInv, AnalyzerForward
    <2>2. Head(scored) \in Nat /\ Tail(scored) \in Seq(Nat)
      BY <2>1, TailFacts
    <2>3. StreamInv'
      BY <1>1, <1>4, <2>2, StreamInvSend, StreamInvStays
         DEF TypeInv, AnalyzerForward, mainVars
    <2>4. RingInv'
      BY <1>4, RingInvStays DEF TypeInv, AnalyzerForward
    <2>5. lostFull' \in Nat
      BY <1>4 DEF TypeInv, OwnInv, AnalyzerForward
    <2>6. OwnInv'
      BY <1>1, <1>4, <2>2, <2>5
         DEF TypeInv, OwnInv, AnalyzerForward, captureVars, testerVars, mainVars
    <2> QED BY <2>3, <2>4, <2>6 DEF TypeInv
  <1>5. CASE AnalyzerSpurious
    <2>1. StreamInv' /\ RingInv'
      BY <1>1, <1>5, StreamInvStays, RingInvTake DEF TypeInv, mainVars, AnalyzerSpurious
    <2>2. OwnInv'
      BY <1>1, <1>5
         DEF TypeInv, OwnInv, AnalyzerSpurious, analyzerVars, captureVars, testerVars, mainVars
    <2> QED BY <2>1, <2>2 DEF TypeInv
  <1> QED BY <1>2, <1>3, <1>4, <1>5 DEF AnalyzerStep

\* The packets of a tick.
LEMMA TickPackets ==
    ASSUME NEW p \in Nat
    PROVE  LET s == [i \in 1 .. PerTick |-> p + i]
           IN  /\ s \in Seq(Nat) /\ Len(s) = PerTick
               /\ \A i \in 1 .. PerTick : s[i] = p + i
  BY Sizes

\* The test sender keeps TypeInv.
LEMMA TypeInvTester ==
    ASSUME TypeInv, TesterStep
    PROVE  TypeInv'
  <1>1. UNCHANGED <<ringVars, capture, analyzerVars, hb, mainVars>>
    BY DEF TesterStep, TesterGenerate, TesterSend, TesterTickDone, TesterWake,
           TesterCancelled, OnlyTester
  <1>2. RingInv'
    BY <1>1, RingInvStays DEF TypeInv
  <1>3. produced \in Nat /\ unsent \in Nat /\ toSend \in Seq(Nat)
    BY DEF TypeInv, OwnInv
  <1>4. StreamInv'
    <2>1. CASE \E p \in Nat : ChanSend(p)
      BY <2>1, StreamInvSend DEF TypeInv
    <2>2. CASE UNCHANGED <<streamVars, cancelled>>
      BY <2>2, StreamInvStays DEF TypeInv
    <2>3. toSend # <<>> => Head(toSend) \in Nat
      BY <1>3, TailFacts
    <2> QED BY <1>1, <2>1, <2>2, <2>3
            DEF TesterStep, TesterGenerate, TesterSend, TesterTickDone, TesterWake,
                TesterCancelled, mainVars
  <1>5. /\ produced' \in Nat /\ unsent' \in Nat /\ toSend' \in Seq(Nat)
        /\ tester' \in {"generate", "send", "sleep", "done"}
        /\ tester' # "send" => toSend' = <<>>
    <2>1. CASE TesterGenerate
      <3>1. CASE produced >= MaxPackets
        BY <1>3, <2>1, <3>1 DEF TesterGenerate, TypeInv, OwnInv
      <3>2. CASE ~(produced >= MaxPackets)
        BY <1>3, <2>1, <3>2, TickPackets, Sizes DEF TesterGenerate
      <3> QED BY <3>1, <3>2
    <2>2. CASE TesterSend
      <3>1. Tail(toSend) \in Seq(Nat) /\ Len(toSend) \in Nat
        BY <1>3, <2>2, TailFacts DEF TesterSend
      <3>2. CASE toSend' = Tail(toSend) /\ UNCHANGED <<tester, unsent, produced>>
        BY <1>3, <2>2, <3>1, <3>2 DEF TesterSend
      <3>3. CASE tester' = "done" /\ toSend' = <<>> /\ unsent' = unsent + Len(toSend)
                 /\ UNCHANGED produced
        BY <1>3, <3>1, <3>3, Empty
      <3> QED BY <2>2, <3>2, <3>3 DEF TesterSend
    <2>3. CASE TesterTickDone \/ TesterWake
      BY <1>3, <2>3 DEF TesterTickDone, TesterWake, TypeInv, OwnInv
    <2>4. CASE TesterCancelled
      BY <1>3, <2>4, Empty DEF TesterCancelled
    <2> QED BY <2>1, <2>2, <2>3, <2>4 DEF TesterStep
  <1>6. OwnInv'
    BY <1>1, <1>5 DEF TypeInv, OwnInv, analyzerVars, mainVars
  <1> QED BY <1>2, <1>4, <1>6 DEF TypeInv

\* The steps of the stream task and its transport.
StreamStep ==
    \/ StreamOpen \/ StreamCancel \/ StreamRecv \/ StreamTick \/ StreamSend
    \/ Pull \/ Break

\* The stream task and its network keep TypeInv.
LEMMA TypeInvStream ==
    ASSUME TypeInv, StreamStep
    PROVE  TypeInv'
  <1>1. UNCHANGED <<ringVars, captureVars, analyzerVars, testerVars, hb, main, shutdown>>
    BY DEF StreamStep, StreamOpen, StreamCancel, StreamRecv, StreamTick, StreamSend, Pull,
           Break, OnlyStream
  <1>2. StreamInv'
    BY StreamInvOpen, StreamInvStop, StreamInvRecv, StreamInvTick, StreamInvSent, StreamInvNet
       DEF TypeInv, StreamStep, StreamOpen, StreamCancel, StreamRecv, StreamTick, StreamSend,
           Pull, Break
  <1>3. RingInv'
    BY <1>1, RingInvStays DEF TypeInv
  <1>4. OwnInv'
    BY <1>1 DEF TypeInv, OwnInv, captureVars, analyzerVars, testerVars
  <1> QED BY <1>2, <1>3, <1>4 DEF TypeInv

\* The steps of the heartbeat task and of main.
MainStep ==
    \/ HbTick \/ HbReply \/ HbCancel
    \/ MainRegister \/ MainCtrlC \/ MainSignalError \/ MainShutdown \/ Killed

\* A step of main leaves the queues and the other parts alone.
LEMMA MainCases ==
    ASSUME MainStep
    PROVE  UNCHANGED <<streamVars, ringVars, captureVars, analyzerVars, testerVars>>
  BY DEF MainStep, HbTick, HbReply, HbCancel, OnlyHb, MainRegister, MainCtrlC,
         MainSignalError, MainShutdown, MainSetShutdown, MainJoinStream, MainJoinHeartbeat,
         MainJoinCapture, MainPersist, Killed, OnlyMain

\* Start-up and shutdown keep TypeInv.
LEMMA TypeInvMain ==
    ASSUME TypeInv, MainStep
    PROVE  TypeInv'
  <1>1. UNCHANGED <<streamVars, ringVars, captureVars, analyzerVars, testerVars>>
    BY MainCases
  <1>2. cancelled' \in BOOLEAN /\ shutdown' \in BOOLEAN
    BY DEF MainStep, HbTick, HbReply, HbCancel, OnlyHb, MainRegister, MainCtrlC,
         MainSignalError, MainShutdown, MainSetShutdown, MainJoinStream, MainJoinHeartbeat,
         MainJoinCapture, MainPersist, Killed, TypeInv, OwnInv, StreamInv, StreamTypeOK,
         mainVars
  <1>3. /\ hb' \in {"loop", "rpc", "done"}
        /\ main' \in {"register", "running", "cancelled", "join_stream",
                 "join_heartbeat", "join_capture", "persist", "exited",
                 "failed", "killed"}
    BY DEF MainStep, HbTick, HbReply, HbCancel, OnlyHb, MainRegister, MainCtrlC,
         MainSignalError, MainShutdown, MainSetShutdown, MainJoinStream, MainJoinHeartbeat,
         MainJoinCapture, MainPersist, Killed, TypeInv, OwnInv, OnlyMain, mainVars, MainGoes
  <1>4. StreamInv'
    BY <1>1, <1>2 DEF TypeInv, StreamInv, StreamTypeOK, StreamShape, streamVars
  <1>5. RingInv'
    BY <1>1, RingInvStays DEF TypeInv
  <1>6. OwnInv'
    BY <1>1, <1>2, <1>3 DEF TypeInv, OwnInv, captureVars, analyzerVars, testerVars
  <1> QED BY <1>4, <1>5, <1>6 DEF TypeInv

\* Next, by the thread or task that takes the step.
LEMMA NextCases ==
    ASSUME [Next]_vars
    PROVE  \/ CaptureStep \/ AnalyzerStep \/ AnalyzerSpurious \/ TesterStep
           \/ StreamStep \/ MainStep \/ UNCHANGED vars
  BY DEF Next, StreamStep, MainStep, Terminated

\* Every step of the agent keeps TypeInv.
LEMMA TypeInvNext == TypeInv /\ [Next]_vars => TypeInv'
  <1> SUFFICES ASSUME TypeInv, [Next]_vars PROVE TypeInv'
    OBVIOUS
  <1>1. CASE UNCHANGED vars
    <2>1. UNCHANGED <<streamVars, ringVars, captureVars, analyzerVars, testerVars, hb, mainVars>>
      BY <1>1 DEF vars
    <2>2. StreamInv' /\ RingInv'
      BY <2>1, StreamInvStays, RingInvStays DEF TypeInv, mainVars
    <2>3. OwnInv'
      BY <2>1 DEF TypeInv, OwnInv, captureVars, analyzerVars, testerVars, mainVars
    <2> QED BY <2>2, <2>3 DEF TypeInv
  <1> QED BY <1>1, NextCases, TypeInvCapture, TypeInvAnalyzer, TypeInvTester,
             TypeInvStream, TypeInvMain

\* The types and the bounds of the queues that the other proofs rest on hold
\* in every state of the agent, for all its constants.
THEOREM AgentTypeInv == Spec => []TypeInv
  BY TypeInvInitially, TypeInvNext, PTL DEF Spec

\* Types, queue capacities included, hold in every state of the agent.
THEOREM AgentTypeCorrect == Spec => []TypeOK
  BY AgentTypeInv, TypeInvIsTypeOK, PTL

-----------------------------------------------------------------------------
(* How the threads hand over at the end: who has ended when. *)

Handover ==
    /\ TestSend => capture = "done" /\ analyzer = "done"
    /\ ~TestSend => tester = "done"
    /\ closed => capture \in {"notify", "join", "done"}
    /\ ~TestSend /\ analyzer = "done" => closed
    /\ analyzer = "done" => buf = <<>>
    /\ capture = "done" => analyzer = "done"
    /\ main \in {"join_heartbeat", "join_capture", "persist", "exited"} => stream = "done"
    /\ main \in {"join_capture", "persist", "exited"} => hb = "done"
    /\ main \in {"persist", "exited"} => capture = "done"

\* Handover holds at the start.
LEMMA HandoverInitially == Init => Handover
  BY DEF Init, Ring!new, Handover

\* The capture thread closes the ring only when it has nothing left to push.
LEMMA HandoverCapture ==
    ASSUME TypeInv, Handover, CaptureStep
    PROVE  Handover'
  <1>1. UNCHANGED <<stream, analyzer, tester, hb, main>>
    BY CaptureCases DEF streamVars, analyzerVars, testerVars, mainVars
  <1>2. capture # "done"
    BY DEF CaptureStep, CaptureOpen, CaptureCheck, CapturePacket, CaptureNoPacket,
           CaptureReturn, CaptureNotify, CaptureJoin
  <1>3. CASE CapturePacket
    <2>1. ~closed /\ capture = "next" /\ capture' = "check" /\ closed' = closed
      BY <1>3 DEF Handover, CapturePacket, Ring!Push
    <2> QED BY <1>1, <1>2, <2>1 DEF Handover
  <1>4. CASE CaptureReturn
    BY <1>1, <1>2, <1>4, Sizes DEF Handover, CaptureReturn, Ring!SetClosed, ringVars
  <1>5. CASE CaptureNotify
    BY <1>1, <1>2, <1>5 DEF Handover, CaptureNotify, Ring!NotifyAll
  <1>6. CASE CaptureJoin
    BY <1>1, <1>2, <1>6 DEF Handover, CaptureJoin, ringVars
  <1>7. CASE CaptureOpen \/ CaptureCheck \/ CaptureNoPacket
    BY <1>1, <1>2, <1>7 DEF Handover, CaptureOpen, CaptureCheck, CaptureNoPacket, ringVars
  <1> QED BY <1>3, <1>4, <1>5, <1>6, <1>7 DEF CaptureStep

\* The analyzer ends only when the ring is closed and empty.
LEMMA HandoverAnalyzer ==
    ASSUME TypeInv, Handover, AnalyzerStep \/ AnalyzerSpurious
    PROVE  Handover'
  <1>1. UNCHANGED <<capture, tester, hb, main>>
    BY DEF AnalyzerStep, AnalyzerDrain, AnalyzerPop, AnalyzerForward, AnalyzerSpurious,
           OnlyAnalyzer, captureVars, testerVars, mainVars
  <1>2. UNCHANGED <<stream, closed>>
    BY DEF AnalyzerStep, AnalyzerDrain, AnalyzerPop, AnalyzerForward, AnalyzerSpurious,
           streamVars, ringVars, ChanSend, Ring!DrainBatch, Ring!PopSome, Ring!PopNone,
           Ring!PopWait, Ring!SpuriousWakeup
  <1>3. CASE AnalyzerSpurious
    BY <1>1, <1>2, <1>3 DEF Handover, AnalyzerSpurious, Ring!SpuriousWakeup, analyzerVars
  <1>4. CASE AnalyzerStep
    <2>1. analyzer # "done" /\ ~TestSend
      BY <1>4 DEF AnalyzerStep, AnalyzerDrain, AnalyzerPop, AnalyzerForward, Handover
    <2>2. analyzer' = "done" => closed /\ buf' = <<>>
      BY <1>4, <2>1 DEF AnalyzerStep, AnalyzerDrain, AnalyzerPop, AnalyzerForward, Ring!PopNone
    <2> QED BY <1>1, <1>2, <2>1, <2>2 DEF Handover
  <1> QED BY <1>3, <1>4

\* The test sender does not touch the ring.
LEMMA HandoverTester ==
    ASSUME TypeInv, Handover, TesterStep
    PROVE  Handover'
  <1>1. UNCHANGED <<buf, closed, capture, analyzer, hb, main, stream>> /\ tester # "done"
    BY DEF TesterStep, TesterGenerate, TesterSend, TesterTickDone, TesterWake,
           TesterCancelled, OnlyTester, ringVars, analyzerVars, mainVars, streamVars, ChanSend
  <1> QED BY <1>1 DEF Handover

\* Neither does the stream task.
LEMMA HandoverStream ==
    ASSUME TypeInv, Handover, StreamStep
    PROVE  Handover'
  <1>1. UNCHANGED <<buf, closed, capture, analyzer, tester, hb, main>>
    BY DEF StreamStep, StreamOpen, StreamCancel, StreamRecv, StreamTick, StreamSend, Pull,
           Break, OnlyStream, ringVars, captureVars, analyzerVars, testerVars
  <1>2. stream = "done" => stream' = "done"
    BY DEF StreamStep, StreamOpen, StreamCancel, StreamRecv, StreamTick, StreamSend, Pull,
           Break, OpenOk, OpenErr, StreamCancelled, Recv, RecvClosed, Tick, SendOk, SendErr,
           NetPull, NetBreak
  <1> QED BY <1>1, <1>2 DEF Handover

\* Main goes past a join only when what it joins has ended.
LEMMA HandoverMain ==
    ASSUME TypeInv, Handover, MainStep
    PROVE  Handover'
  <1>1. UNCHANGED <<buf, closed, capture, analyzer, tester, stream>>
    BY MainCases DEF ringVars, captureVars, analyzerVars, testerVars, streamVars
  <1>2. CASE HbTick \/ HbReply \/ HbCancel
    BY <1>1, <1>2 DEF HbTick, HbReply, HbCancel, OnlyHb, mainVars, Handover
  <1>3. CASE MainRegister \/ MainCtrlC \/ MainSignalError \/ MainShutdown \/ Killed
    <2>1. UNCHANGED hb
      BY <1>3 DEF MainRegister, MainCtrlC, MainSignalError, MainShutdown, MainSetShutdown,
         MainJoinStream, MainJoinHeartbeat, MainJoinCapture, MainPersist, Killed, OnlyMain
    <2>2. /\ main' \in {"join_heartbeat", "join_capture", "persist", "exited"} => stream = "done"
          /\ main' \in {"join_capture", "persist", "exited"} => hb = "done"
          /\ main' \in {"persist", "exited"} => capture = "done"
      BY <1>3 DEF MainRegister, MainCtrlC, MainSignalError, MainShutdown, MainSetShutdown,
         MainJoinStream, MainJoinHeartbeat, MainJoinCapture, MainPersist, Killed, MainGoes,
         Handover
    <2> QED BY <1>1, <2>1, <2>2 DEF Handover
  <1> QED BY <1>2, <1>3 DEF MainStep

\* Every step of the agent keeps Handover.
LEMMA HandoverNext == TypeInv /\ Handover /\ [Next]_vars => Handover'
  <1> SUFFICES ASSUME TypeInv, Handover, [Next]_vars PROVE Handover'
    OBVIOUS
  <1>1. CASE UNCHANGED vars
    BY <1>1 DEF vars, ringVars, captureVars, analyzerVars, testerVars, mainVars, streamVars,
                Handover
  <1> QED BY <1>1, NextCases, HandoverCapture, HandoverAnalyzer, HandoverTester,
             HandoverStream, HandoverMain

\* Handover holds throughout.
LEMMA HandoverHolds == Spec => []Handover
  BY HandoverInitially, HandoverNext, AgentTypeInv, PTL DEF Spec

-----------------------------------------------------------------------------
(* The analyzer asleep. *)

\* Why the analyzer sleeps or is woken, and who closes the ring buffer.
WakeInv ==
    /\ waiting # {} => buf = <<>> /\ analyzer = "pop"
    /\ notified # {} => analyzer = "pop"
    /\ closing <=> capture = "notify"
    /\ closed /\ ~closing => waiting = {}
    /\ closed => CloseRing

\* The analyzer is awake and the ring open at the start.
LEMMA WakeInvInitially == Init => WakeInv
  BY DEF Init, Ring!new, WakeInv

\* A push wakes the analyzer, and close wakes it for good.
LEMMA WakeInvCapture ==
    ASSUME TypeInv, Handover, WakeInv, CaptureStep
    PROVE  WakeInv'
  <1>1. UNCHANGED analyzer
    BY CaptureCases DEF analyzerVars
  <1>2. waiting \subseteq {"analyzer"}
    BY DEF TypeInv, RingInv, Ring!RingTypeOK
  <1>3. CASE CapturePacket
    <2>1. /\ Ring!NotifyOne /\ capture = "next" /\ capture' = "check"
          /\ UNCHANGED <<closed, closing>>
      BY <1>3 DEF CapturePacket, Ring!Push
    <2>2. waiting' = {}
      BY <1>2, <2>1 DEF Ring!NotifyOne
    <2>3. notified' # {} => notified # {} \/ waiting # {}
      BY <2>1 DEF Ring!NotifyOne
    <2> QED BY <1>1, <2>1, <2>2, <2>3 DEF WakeInv
  <1>4. CASE CaptureReturn
    BY <1>1, <1>4, Sizes DEF WakeInv, Handover, CaptureReturn, Ring!SetClosed, ringVars
  <1>5. CASE CaptureNotify
    BY <1>1, <1>5 DEF WakeInv, CaptureNotify, Ring!NotifyAll
  <1>6. CASE CaptureOpen \/ CaptureCheck \/ CaptureNoPacket \/ CaptureJoin
    BY <1>1, <1>6 DEF WakeInv, CaptureOpen, CaptureCheck, CaptureNoPacket, CaptureJoin, ringVars
  <1> QED BY <1>3, <1>4, <1>5, <1>6 DEF CaptureStep

\* The analyzer falls asleep only on an open and empty ring.
LEMMA WakeInvAnalyzer ==
    ASSUME TypeInv, WakeInv, AnalyzerStep \/ AnalyzerSpurious
    PROVE  WakeInv'
  <1>1. UNCHANGED <<capture, closed, closing>>
    BY DEF AnalyzerStep, AnalyzerDrain, AnalyzerPop, AnalyzerForward, AnalyzerSpurious,
           OnlyAnalyzer, captureVars, ringVars, Ring!DrainBatch, Ring!PopSome, Ring!PopNone,
           Ring!PopWait, Ring!SpuriousWakeup
  <1>2. waiting \subseteq {"analyzer"} /\ notified \subseteq {"analyzer"}
    BY DEF TypeInv, RingInv, Ring!RingTypeOK
  <1>3. CASE AnalyzerDrain
    <2>1. waiting' = {} /\ notified' = {}
      BY <1>3 DEF WakeInv, AnalyzerDrain, Ring!DrainBatch
    <2> QED BY <1>1, <2>1 DEF WakeInv
  <1>4. CASE AnalyzerPop
    <2>1. CASE Ring!PopSome("analyzer") \/ Ring!PopNone("analyzer")
      <3>1. waiting' = {} /\ notified' = {}
        BY <1>2, <2>1 DEF Ring!PopSome, Ring!PopNone, Ring!InLoop
      <3> QED BY <1>1, <3>1 DEF WakeInv
    <2>2. CASE Ring!PopWait("analyzer") /\ UNCHANGED analyzer
      <3>1. buf' = <<>> /\ ~closed' /\ notified' = {} /\ analyzer' = "pop"
        BY <1>1, <1>2, <1>4, <2>2 DEF Ring!PopWait, AnalyzerPop
      <3> QED BY <1>1, <3>1 DEF WakeInv
    <2> QED BY <1>4, <2>1, <2>2 DEF AnalyzerPop
  <1>5. CASE AnalyzerForward
    <2>1. waiting' = {} /\ notified' = {}
      BY <1>5 DEF WakeInv, AnalyzerForward, ringVars
    <2> QED BY <1>1, <2>1 DEF WakeInv
  <1>6. CASE AnalyzerSpurious
    <2>1. waiting' = {} /\ analyzer' = "pop"
      BY <1>2, <1>6 DEF WakeInv, AnalyzerSpurious, Ring!SpuriousWakeup, analyzerVars
    <2> QED BY <1>1, <2>1 DEF WakeInv
  <1> QED BY <1>3, <1>4, <1>5, <1>6 DEF AnalyzerStep

\* Every step of the agent keeps WakeInv.
LEMMA WakeInvNext == TypeInv /\ Handover /\ WakeInv /\ [Next]_vars => WakeInv'
  <1> SUFFICES ASSUME TypeInv, Handover, WakeInv, [Next]_vars PROVE WakeInv'
    OBVIOUS
  <1>1. CASE UNCHANGED <<ringVars, capture, analyzer>>
    BY <1>1 DEF WakeInv, ringVars
  <1>2. CASE TesterStep
    BY <1>1, <1>2 DEF TesterStep, TesterGenerate, TesterSend, TesterTickDone, TesterWake,
                      TesterCancelled, OnlyTester, analyzerVars
  <1>3. CASE StreamStep
    BY <1>1, <1>3 DEF StreamStep, StreamOpen, StreamCancel, StreamRecv, StreamTick, StreamSend,
                      Pull, Break, OnlyStream, captureVars, analyzerVars
  <1>4. CASE MainStep
    BY <1>1, <1>4, MainCases DEF captureVars, analyzerVars
  <1>5. CASE UNCHANGED vars
    BY <1>1, <1>5 DEF vars, captureVars, analyzerVars
  <1> QED BY <1>2, <1>3, <1>4, <1>5, NextCases, WakeInvCapture, WakeInvAnalyzer

\* WakeInv holds throughout.
LEMMA WakeInvHolds == Spec => []WakeInv
  BY WakeInvInitially, WakeInvNext, HandoverHolds, AgentTypeInv, PTL DEF Spec

\* The analyzer never sleeps on a packet, nor after close() has returned
\* (ring_buffer.rs:48-77, 95-99): push and close find it before it waits, or
\* wake it, and a wake-up for no reason changes nothing.
THEOREM AnalyzerIsWoken ==
    Spec => [](waiting # {} => buf = <<>> /\ (closed => capture = "notify"))
  <1>1. WakeInv => (waiting # {} => buf = <<>> /\ (closed => capture = "notify"))
    BY DEF WakeInv
  <1> QED BY <1>1, WakeInvHolds, PTL

\* In capture mode the program as it is, which never calls close(), does not
\* get past the join of the capture thread in any behaviour, of whatever
\* length and with any backend: the analyzer does not end, and main neither
\* saves the baseline nor returns (main.rs:186-187, 226-234).
THEOREM CaptureModeNeverExits ==
    ASSUME ~CloseRing, ~TestSend
    PROVE  Spec => [](analyzer # "done" /\ main \notin {"persist", "exited"})
  <1>1. Handover /\ WakeInv => analyzer # "done" /\ main \notin {"persist", "exited"}
    BY DEF Handover, WakeInv
  <1> QED BY <1>1, HandoverHolds, WakeInvHolds, PTL

-----------------------------------------------------------------------------
(* The numbers of the batches. *)

\* What is delivered is numbered from 0, what is in the batch channel goes on
\* from there, and as long as the transport is up the next number follows it.
SeqInv ==
    /\ SeqGapFree
    /\ \A i \in 1 .. Len(batchChan) : batchChan[i].seq = Len(delivered) + i - 1
    /\ net # "down" => seq = Len(delivered) + Len(batchChan)

\* Which steps reach the batch channel, the transport or the batch number.
LEMMA TransportCases ==
    ASSUME [Next]_vars
    PROVE  \/ UNCHANGED <<delivered, batchChan, seq, net>>
           \/ OpenOk \/ OpenErr \/ SendOk \/ SendErr \/ NetPull \/ NetBreak
  <1>1. CASE CaptureStep \/ MainStep
    BY <1>1, CaptureCases, MainCases DEF streamVars
  <1>2. CASE AnalyzerStep \/ AnalyzerSpurious
    BY <1>2 DEF AnalyzerStep, AnalyzerDrain, AnalyzerPop, AnalyzerForward, AnalyzerSpurious,
           ChanSend, streamVars
  <1>3. CASE TesterStep
    BY <1>3 DEF TesterStep, TesterGenerate, TesterSend, TesterTickDone, TesterWake,
           TesterCancelled, ChanSend, streamVars
  <1>4. CASE StreamStep
    BY <1>4 DEF StreamStep, StreamOpen, StreamCancel, StreamRecv, StreamTick, StreamSend,
           Pull, Break, StreamCancelled, Recv, RecvClosed, Tick
  <1>5. CASE UNCHANGED vars
    BY <1>5 DEF vars, streamVars
  <1> QED BY <1>1, <1>2, <1>3, <1>4, <1>5, NextCases

\* Every step keeps the sequence numbers in a row.
LEMMA SeqInvNext == TypeInv /\ SeqInv /\ [Next]_vars => SeqInv'
  <1> SUFFICES ASSUME TypeInv, SeqInv, [Next]_vars PROVE SeqInv'
    OBVIOUS
  <1>0. /\ delivered \in Seq(Batch) /\ batchChan \in Seq(Batch) /\ seq \in Nat
        /\ Len(delivered) \in Nat /\ Len(batchChan) \in Nat
    BY DEF TypeInv, StreamInv, StreamTypeOK
  <1>1. CASE UNCHANGED <<delivered, batchChan, seq, net>>
    BY <1>1 DEF SeqInv, SeqGapFree
  <1>2. CASE OpenOk \/ OpenErr
    <2>1. UNCHANGED <<delivered, batchChan, seq>> /\ net # "down"
      BY <1>2 DEF OpenOk, OpenErr, TypeInv, StreamInv, StreamShape
    <2> QED BY <2>1 DEF SeqInv, SeqGapFree
  <1>3. CASE SendOk
    <2>1. /\ net = "up" /\ net' = net /\ delivered' = delivered
          /\ batchChan' = Append(batchChan, sending) /\ seq' = seq + 1
      BY <1>3 DEF SendOk, EndFlush
    <2>2. sending \in Batch /\ sending.seq = seq
      BY <1>3, SendingIsABatch DEF SendOk, TypeInv, StreamInv, StreamShape
    <2>3. /\ Len(batchChan') = Len(batchChan) + 1
          /\ \A i \in 1 .. Len(batchChan) : batchChan'[i] = batchChan[i]
          /\ batchChan'[Len(batchChan) + 1] = sending
      BY <1>0, <2>1, <2>2
    <2>4. seq = Len(delivered) + Len(batchChan)
      BY <2>1 DEF SeqInv
    <2>5. ASSUME NEW i \in 1 .. Len(batchChan')
          PROVE  batchChan'[i].seq = Len(delivered') + i - 1
      <3>1. CASE i \in 1 .. Len(batchChan)
        BY <2>1, <2>3, <3>1 DEF SeqInv
      <3>2. CASE i = Len(batchChan) + 1
        BY <1>0, <2>1, <2>2, <2>3, <2>4, <3>2
      <3> QED BY <1>0, <2>3, <3>1, <3>2
    <2>6. seq' = Len(delivered') + Len(batchChan')
      BY <1>0, <2>1, <2>3, <2>4
    <2> QED BY <2>1, <2>5, <2>6 DEF SeqInv, SeqGapFree
  <1>4. CASE SendErr
    BY <1>4 DEF SendErr, SeqInv, SeqGapFree
  <1>5. CASE NetPull
    <2>1. /\ net = "up" /\ batchChan # <<>>
          /\ delivered' = Append(delivered, Head(batchChan))
          /\ batchChan' = Tail(batchChan) /\ seq' = seq /\ net' = net
      BY <1>5 DEF NetPull
    <2>2. Head(batchChan) \in Batch /\ Head(batchChan) = batchChan[1] /\ 1 \in 1 .. Len(batchChan)
      BY <1>0, <2>1
    <2>3. /\ Len(delivered') = Len(delivered) + 1
          /\ \A i \in 1 .. Len(delivered) : delivered'[i] = delivered[i]
          /\ delivered'[Len(delivered) + 1] = batchChan[1]
      BY <1>0, <2>1, <2>2
    <2>4. /\ Len(batchChan') = Len(batchChan) - 1
          /\ \A i \in 1 .. Len(batchChan) - 1 : batchChan'[i] = batchChan[i + 1]
      BY <1>0, <2>1
    <2>5. ASSUME NEW i \in 1 .. Len(delivered')
          PROVE  delivered'[i].seq = i - 1
      <3>1. CASE i \in 1 .. Len(delivered)
        BY <2>3, <3>1 DEF SeqInv, SeqGapFree
      <3>2. CASE i = Len(delivered) + 1
        <4>1. batchChan[1].seq = Len(delivered) + 1 - 1
          BY <2>2 DEF SeqInv
        <4> QED BY <1>0, <2>3, <3>2, <4>1
      <3> QED BY <1>0, <2>3, <3>1, <3>2
    <2>6. ASSUME NEW i \in 1 .. Len(batchChan')
          PROVE  batchChan'[i].seq = Len(delivered') + i - 1
      <3>1. i \in 1 .. Len(batchChan) - 1 /\ i + 1 \in 1 .. Len(batchChan)
        BY <1>0, <2>4
      <3>2. batchChan[i + 1].seq = Len(delivered) + (i + 1) - 1
        BY <3>1 DEF SeqInv
      <3> QED BY <1>0, <2>3, <2>4, <3>1, <3>2
    <2>7. seq' = Len(delivered') + Len(batchChan')
      BY <1>0, <2>1, <2>3, <2>4 DEF SeqInv
    <2> QED BY <2>5, <2>6, <2>7 DEF SeqInv, SeqGapFree
  <1>6. CASE NetBreak
    <2>1. net' = "down" /\ batchChan' = <<>> /\ delivered' = delivered
      BY <1>6 DEF NetBreak
    <2> QED BY <2>1, Empty DEF SeqInv, SeqGapFree
  <1> QED BY <1>1, <1>2, <1>3, <1>4, <1>5, <1>6, TransportCases

\* The backend sees the batch numbers 0, 1, 2, ... with no gap and no repeat:
\* flush consumes a number for a failed send too, but nothing is sent after one.
THEOREM NumbersHaveNoGap == Spec => []SeqGapFree
  <1>1. Init => SeqInv
    BY Empty DEF Init, StreamInit, SeqInv, SeqGapFree
  <1>2. TypeInv /\ SeqInv /\ [Next]_vars => SeqInv'
    BY SeqInvNext
  <1>3. SeqInv => SeqGapFree
    BY DEF SeqInv
  <1> QED BY <1>1, <1>2, <1>3, AgentTypeInv, PTL DEF Spec

-----------------------------------------------------------------------------
(* Accounting. *)

\* The packets that the senders of the packet channel got rid of, and those
\* that have not reached it.
Accepted == captured + Len(chan) + unparsed + lostRx
Upstream == Len(buf) + Len(scored) + Len(toSend) + dropped + lostFull + unsent

\* Every term of the account is a natural number.
LEMMA Terms ==
    ASSUME TypeInv
    PROVE  /\ CountEvents(delivered) \in Nat /\ CountEvents(batchChan) \in Nat
           /\ Len(sending.events) \in Nat /\ Len(pending) \in Nat /\ lostNet \in Nat
           /\ captured \in Nat /\ Len(chan) \in Nat /\ unparsed \in Nat /\ lostRx \in Nat
           /\ Len(buf) \in Nat /\ Len(scored) \in Nat /\ Len(toSend) \in Nat
           /\ dropped \in Nat /\ lostFull \in Nat /\ unsent \in Nat /\ produced \in Nat
           /\ Accepted \in Nat /\ Upstream \in Nat
  <1>1. CountEvents(delivered) \in Nat /\ CountEvents(batchChan) \in Nat
    BY CountFacts DEF TypeInv, StreamInv, StreamTypeOK
  <1>2. /\ Len(sending.events) \in Nat /\ Len(pending) \in Nat /\ lostNet \in Nat
        /\ captured \in Nat /\ Len(chan) \in Nat /\ unparsed \in Nat /\ lostRx \in Nat
    BY DEF TypeInv, StreamInv, StreamTypeOK
  <1>3. Len(buf) \in Nat /\ dropped \in Nat
    BY DEF TypeInv, RingInv, Ring!RingTypeOK
  <1>4. /\ Len(scored) \in Nat /\ Len(toSend) \in Nat /\ lostFull \in Nat
        /\ unsent \in Nat /\ produced \in Nat
    BY DEF TypeInv, OwnInv
  <1> QED BY <1>1, <1>2, <1>3, <1>4 DEF Accepted, Upstream

\* The account in two halves.
Account == CapturedExact /\ produced = Accepted + Upstream

\* The sums that Account keeps are the ones Conservation states.
LEMMA AccountIsConservation ==
    ASSUME TypeInv, Account
    PROVE  Conservation
  <1> DEFINE d == CountEvents(delivered)
             q == CountEvents(batchChan)
             s == Len(sending.events)
             p == Len(pending)
             c == Len(chan)
             b == Len(buf)
             a == Len(scored)
             t == Len(toSend)
  <1>1. /\ d \in Nat /\ q \in Nat /\ s \in Nat /\ p \in Nat /\ c \in Nat /\ b \in Nat
        /\ a \in Nat /\ t \in Nat /\ captured \in Nat /\ unparsed \in Nat /\ lostRx \in Nat
        /\ lostNet \in Nat /\ dropped \in Nat /\ lostFull \in Nat /\ unsent \in Nat
    BY Terms, Zenon
  <1>2. captured = d + q + s + p + lostNet
    BY Zenon DEF Account, CapturedExact
  <1>3. produced = (captured + c + unparsed + lostRx)
                     + (b + a + t + dropped + lostFull + unsent)
    BY Zenon DEF Account, Accepted, Upstream
  <1> HIDE DEF d, q, s, p, c, b, a, t
  <1>4. produced = d + b + a + t + c + p + s + q
                     + dropped + lostFull + unparsed + lostRx + lostNet + unsent
    BY ONLY <1>1, <1>2, <1>3
  <1> QED BY <1>4, Zenon DEF Account, Conservation, d, q, s, p, c, b, a, t

\* A packet the channel takes is counted once, by the sender.
LEMMA SendCounts ==
    ASSUME TypeInv, CapturedExact, NEW p \in Nat, ChanSend(p)
    PROVE  CapturedExact' /\ Accepted' = Accepted + 1
  <1>1. Len(chan') = Len(chan) + 1
    BY AppendFacts DEF TypeInv, StreamInv, StreamTypeOK, ChanSend
  <1>2. UNCHANGED <<captured, unparsed, lostRx, delivered, batchChan, sending, pending, lostNet>>
    BY DEF ChanSend
  <1>3. CapturedExact'
    BY <1>2, Zenon DEF CapturedExact
  <1>4. captured \in Nat /\ Len(chan) \in Nat /\ unparsed \in Nat /\ lostRx \in Nat
    BY Terms, Zenon
  <1>5. Accepted' = Accepted + 1
    BY <1>1, <1>2, <1>4 DEF Accepted
  <1> QED BY <1>3, <1>5

\* The stream task and its transport lose no packet from the account.
LEMMA StreamCounts ==
    ASSUME TypeInv, CapturedExact, StreamStep
    PROVE  CapturedExact' /\ Accepted' = Accepted
  <1> DEFINE d == CountEvents(delivered)
             q == CountEvents(batchChan)
             s == Len(sending.events)
             p == Len(pending)
             c == Len(chan)
  <1>1. /\ d \in Nat /\ q \in Nat /\ s \in Nat /\ p \in Nat /\ c \in Nat /\ lostNet \in Nat
        /\ captured \in Nat /\ unparsed \in Nat /\ lostRx \in Nat
    BY Terms, Zenon
  <1>2. captured = d + q + s + p + lostNet
    BY Zenon DEF CapturedExact
  <1>3. SUFFICES /\ captured' = d' + q' + s' + p' + lostNet'
                 /\ captured' + c' + unparsed' + lostRx' = captured + c + unparsed + lostRx
    BY Zenon DEF CapturedExact, Accepted
  <1>4. Len(<<>>) = 0 /\ Len(NoBatch.events) = 0 /\ CountEvents(<<>>) = 0
    BY Empty, CountFacts
  <1>5. CASE OpenOk
    <2>1. d' = d /\ q' = q /\ s' = s /\ p' = p /\ c' = c
          /\ UNCHANGED <<captured, unparsed, lostRx, lostNet>>
      BY <1>5, Zenon DEF OpenOk
    <2> HIDE DEF d, q, s, p, c
    <2> QED BY <1>2, <2>1
  <1>6. CASE OpenErr
    <2>1. d' = d /\ q' = q /\ s' = s /\ p' = p /\ c' = 0 /\ lostRx' = lostRx + c
          /\ UNCHANGED <<captured, unparsed, lostNet>>
      BY <1>4, <1>6, Zenon DEF OpenErr
    <2> HIDE DEF d, q, s, p, c
    <2> QED BY <1>1, <1>2, <2>1
  <1>7. CASE StreamCancelled \/ RecvClosed(Senders)
    <2>1. d' = d /\ q' = q /\ UNCHANGED <<captured, unparsed, lostNet>> /\ stream = "loop"
      BY <1>7, Zenon DEF StreamCancelled, RecvClosed
    <2>2. CASE pending = <<>>
      <3>1. s' = s /\ p' = p /\ c' = 0 /\ lostRx' = lostRx + c
        BY <1>4, <1>7, <2>2, Zenon DEF StreamCancelled, RecvClosed, Return
      <3> HIDE DEF d, q, s, p, c
      <3> QED BY <1>1, <1>2, <2>1, <3>1
    <2>3. CASE pending # <<>>
      <3>1. BeginFlush(pending, TRUE) /\ c' = c /\ lostRx' = lostRx
        BY <1>7, <2>3, Zenon DEF StreamCancelled, RecvClosed
      <3>2. s' = p /\ p' = 0 /\ s = 0
        <4>1. sending = NoBatch
          BY <2>1, Zenon DEF TypeInv, StreamInv, StreamShape
        <4>2. sending' = [seq |-> seq, events |-> pending] /\ pending' = <<>>
          BY <3>1, Zenon DEF BeginFlush, BatchOf
        <4> QED BY <1>4, <4>1, <4>2
      <3> HIDE DEF d, q, s, p, c
      <3> QED BY <1>1, <1>2, <2>1, <3>1, <3>2
    <2> QED BY <2>2, <2>3
  <1>8. CASE Tick
    <2>1. d' = d /\ q' = q /\ c' = c /\ UNCHANGED <<captured, unparsed, lostRx, lostNet>>
      BY <1>8, Zenon DEF Tick
    <2>2. s' = p /\ p' = 0 /\ s = 0
      <3>1. sending = NoBatch
        BY <1>8, Zenon DEF TypeInv, StreamInv, StreamShape, Tick
      <3>2. sending' = [seq |-> seq, events |-> pending] /\ pending' = <<>>
        BY <1>8, Zenon DEF BeginFlush, BatchOf, Tick
      <3> QED BY <1>4, <3>1, <3>2
    <2> HIDE DEF d, q, s, p, c
    <2> QED BY <1>1, <1>2, <2>1, <2>2
  <1>9. CASE Recv
    <2>1. d' = d /\ q' = q /\ UNCHANGED <<lostRx, lostNet>>
      BY <1>9, Zenon DEF Recv
    <2>2. c = c' + 1 /\ c' \in Nat
      BY <1>9, TailFacts DEF Recv, TypeInv, StreamInv, StreamTypeOK
    <2> DEFINE events == Append(pending, Head(chan))
    <2>3. Len(events) = p + 1
      <3>1. pending \in Seq(Nat) /\ Head(chan) \in Nat
        BY <1>9, TailFacts DEF Recv, TypeInv, StreamInv, StreamTypeOK
      <3> QED BY <3>1, AppendFacts
    <2>4. CASE parse_packet(Head(chan))
      <3>1. captured' = captured + 1 /\ unparsed' = unparsed
        BY <1>9, <2>4, Zenon DEF Recv
      <3>2. s' + p' = s + p + 1 /\ s' \in Nat /\ p' \in Nat
        <4>1. CASE BatchFull(events)
          <5>1. sending = NoBatch
            BY <1>9, Zenon DEF TypeInv, StreamInv, StreamShape, Recv
          <5>2. sending' = [seq |-> seq, events |-> events] /\ pending' = <<>>
            BY <1>9, <2>4, <4>1, Zenon DEF Recv, BeginFlush, BatchOf
          <5>3. s' = Len(events) /\ p' = 0 /\ s = 0
            <6> HIDE DEF events
            <6> QED BY <1>4, <5>1, <5>2
          <5> HIDE DEF s, p, events
          <5> QED BY <1>1, <2>3, <5>3
        <4>2. CASE ~BatchFull(events)
          <5>1. sending' = sending /\ pending' = events
            BY <1>9, <2>4, <4>2, Zenon DEF Recv
          <5>2. s' = s /\ p' = Len(events)
            BY <5>1, Zenon
          <5> HIDE DEF s, p, events
          <5> QED BY <1>1, <2>3, <5>2
        <4> QED BY <4>1, <4>2
      <3> HIDE DEF d, q, s, p, c
      <3>3. captured' = d' + q' + s' + p' + lostNet'
        <4> DEFINE s1 == s'
                   p1 == p'
        <4>1. s1 \in Nat /\ p1 \in Nat /\ s1 + p1 = s + p + 1
          BY <3>2
        <4> HIDE DEF s1, p1
        <4>2. captured + 1 = d + q + s1 + p1 + lostNet
          BY <1>1, <1>2, <4>1
        <4> QED BY <2>1, <3>1, <4>2, Zenon DEF s1, p1
      <3>4. captured' + c' + unparsed' + lostRx' = captured + c + unparsed + lostRx
        BY <1>1, <2>1, <2>2, <3>1
      <3> QED BY <3>3, <3>4
    <2>5. CASE ~parse_packet(Head(chan))
      <3>1. unparsed' = unparsed + 1 /\ captured' = captured /\ s' = s /\ p' = p
        BY <1>9, <2>5, Zenon DEF Recv
      <3> HIDE DEF d, q, s, p, c
      <3> QED BY <1>1, <1>2, <2>1, <2>2, <3>1
    <2> QED BY <2>4, <2>5
  <1>10. CASE SendOk \/ SendErr
    <2>1. d' = d /\ p' = p /\ s' = 0 /\ UNCHANGED <<captured, unparsed>>
      BY <1>4, <1>10, Zenon DEF SendOk, SendErr, EndFlush
    <2>2. c' + lostRx' = c + lostRx /\ c' \in Nat /\ lostRx' \in Nat
      <3>1. CASE exiting
        <4>1. c' = 0 /\ lostRx' = lostRx + c
          BY <1>4, <1>10, <3>1, Zenon DEF SendOk, SendErr, EndFlush, Return
        <4> HIDE DEF c
        <4> QED BY <1>1, <4>1
      <3>2. CASE ~exiting
        <4>1. c' = c /\ lostRx' = lostRx
          BY <1>10, <3>2, Zenon DEF SendOk, SendErr, EndFlush
        <4> HIDE DEF c
        <4> QED BY <1>1, <4>1
      <3> QED BY <3>1, <3>2
    <2>3. q' + lostNet' = q + lostNet + s /\ q' \in Nat /\ lostNet' \in Nat
      <3>1. CASE SendOk
        <4>1. batchChan' = Append(batchChan, sending) /\ lostNet' = lostNet
          BY <3>1, Zenon DEF SendOk
        <4>2. sending \in Batch /\ batchChan \in Seq(Batch)
          BY <3>1, SendingIsABatch DEF SendOk, TypeInv, StreamInv, StreamTypeOK
        <4>3. q' = q + s
          BY <4>1, <4>2, CountFacts, Zenon
        <4> HIDE DEF q, s
        <4> QED BY <1>1, <4>1, <4>3
      <3>2. CASE SendErr
        <4>1. q' = q /\ lostNet' = lostNet + s
          BY <3>2, Zenon DEF SendErr
        <4> HIDE DEF q, s
        <4> QED BY <1>1, <4>1
      <3> QED BY <1>10, <3>1, <3>2
    <2> HIDE DEF d, q, s, p, c
    <2>4. captured' = d' + q' + s' + p' + lostNet'
      <3> DEFINE q1 == q'
                 n1 == lostNet'
      <3>1. q1 \in Nat /\ n1 \in Nat /\ q1 + n1 = q + lostNet + s
        BY <2>3
      <3> HIDE DEF q1, n1
      <3>2. captured = d + q1 + 0 + p + n1
        BY <1>1, <1>2, <3>1
      <3> QED BY <2>1, <3>2, Zenon DEF q1, n1
    <2>5. captured' + c' + unparsed' + lostRx' = captured + c + unparsed + lostRx
      <3> DEFINE c1 == c'
                 l1 == lostRx'
      <3>1. c1 \in Nat /\ l1 \in Nat /\ c1 + l1 = c + lostRx
        BY <2>2
      <3> HIDE DEF c1, l1
      <3>2. captured + c1 + unparsed + l1 = captured + c + unparsed + lostRx
        BY <1>1, <3>1
      <3> QED BY <2>1, <3>2, Zenon DEF c1, l1
    <2> QED BY <2>4, <2>5
  <1>11. CASE NetPull \/ NetBreak
    <2>1. s' = s /\ p' = p /\ c' = c /\ UNCHANGED <<captured, unparsed, lostRx>>
      BY <1>11, Zenon DEF NetPull, NetBreak
    <2>2. d' + q' + lostNet' = d + q + lostNet /\ d' \in Nat /\ q' \in Nat /\ lostNet' \in Nat
      <3>1. CASE NetPull
        <4>1. /\ delivered' = Append(delivered, Head(batchChan)) /\ batchChan' = Tail(batchChan)
              /\ lostNet' = lostNet /\ batchChan # <<>>
          BY <3>1, Zenon DEF NetPull
        <4>2. batchChan \in Seq(Batch) /\ delivered \in Seq(Batch)
          BY DEF TypeInv, StreamInv, StreamTypeOK
        <4>3. Head(batchChan) \in Batch /\ Tail(batchChan) \in Seq(Batch)
          BY <4>1, <4>2
        <4> DEFINE h == Len(Head(batchChan).events)
        <4>4. q = h + q' /\ d' = d + h /\ q' \in Nat
          BY <4>1, <4>2, <4>3, CountFacts, Zenon
        <4>5. h \in Nat
          BY <4>3 DEF Batch
        <4> HIDE DEF q, d, h
        <4> QED BY <1>1, <4>1, <4>4, <4>5
      <3>2. CASE NetBreak
        <4>1. q' = 0 /\ lostNet' = lostNet + q /\ d' = d
          BY <1>4, <3>2, Zenon DEF NetBreak
        <4> HIDE DEF q, d
        <4> QED BY <1>1, <4>1
      <3> QED BY <1>11, <3>1, <3>2
    <2> HIDE DEF d, q, s, p, c
    <2>3. captured' = d' + q' + s' + p' + lostNet'
      <3> DEFINE d1 == d'
                 q1 == q'
                 n1 == lostNet'
      <3>1. d1 \in Nat /\ q1 \in Nat /\ n1 \in Nat /\ d1 + q1 + n1 = d + q + lostNet
        BY <2>2
      <3> HIDE DEF d1, q1, n1
      <3>2. captured = d1 + q1 + s + p + n1
        BY <1>1, <1>2, <3>1
      <3> QED BY <2>1, <3>2, Zenon DEF d1, q1, n1
    <2>4. captured' + c' + unparsed' + lostRx' = captured + c + unparsed + lostRx
      BY <1>1, <2>1
    <2> QED BY <2>3, <2>4
  <1> HIDE DEF d, q, s, p, c
  <1> QED
    BY <1>5, <1>6, <1>7, <1>8, <1>9, <1>10, <1>11
       DEF StreamStep, StreamOpen, StreamCancel, StreamRecv, StreamTick, StreamSend, Pull, Break

\* What happens upstream is balanced: a packet the source makes is in the ring
\* buffer, with the analyzer, with the test sender, or given up; one that leaves
\* was accepted by the packet channel.
LEMMA AccountCapture ==
    ASSUME TypeInv, Account, CaptureStep
    PROVE  Account'
  <1> DEFINE b == Len(buf)
  <1>1. CapturedExact' /\ Accepted' = Accepted
    BY CaptureCases, Zenon DEF streamVars, Account, CapturedExact, Accepted
  <1>2. /\ Accepted \in Nat /\ b \in Nat /\ Len(scored) \in Nat /\ Len(toSend) \in Nat
        /\ dropped \in Nat /\ lostFull \in Nat /\ unsent \in Nat /\ produced \in Nat
    BY Terms, Zenon
  <1>3. UNCHANGED <<scored, toSend, lostFull, unsent>>
    BY CaptureCases DEF analyzerVars, testerVars
  <1>4. produced = Accepted + (b + Len(scored) + Len(toSend) + dropped + lostFull + unsent)
    BY Zenon DEF Account, Upstream
  <1>5. CASE UNCHANGED <<buf, dropped, produced>>
    BY <1>1, <1>3, <1>5, Zenon DEF Account, Upstream
  <1>6. CASE produced' = produced + 1 /\ Ring!Push(produced + 1)
    <2> DEFINE b1 == b'
               d1 == dropped'
    <2>1. produced + 1 \in Nat
      BY <1>2
    <2>2. b1 \in Nat /\ d1 \in Nat /\ b1 + d1 = b + dropped + 1
      <3>1. buf \in Seq(Nat)
        BY DEF TypeInv, RingInv, Ring!RingTypeOK
      <3>2. CASE buf' = Append(buf, produced + 1) /\ dropped' = dropped
        <4>1. b1 = b + 1
          BY <2>1, <3>1, <3>2, AppendFacts
        <4> HIDE DEF b, b1
        <4> QED BY <1>2, <3>2, <4>1
      <3>3. CASE buf # <<>> /\ buf' = Append(Tail(buf), produced + 1) /\ dropped' = dropped + 1
        <4>1. Tail(buf) \in Seq(Nat) /\ b = Len(Tail(buf)) + 1
          BY <3>1, <3>3, TailFacts
        <4>2. b1 = Len(Tail(buf)) + 1
          BY <2>1, <3>3, <4>1, AppendFacts
        <4> HIDE DEF b, b1
        <4> QED BY <1>2, <3>3, <4>1, <4>2
      <3> QED BY <1>6, <2>1, <3>2, <3>3, PushFacts DEF TypeInv
    <2> HIDE DEF b, b1, d1
    <2>3. produced + 1 = Accepted + (b1 + Len(scored) + Len(toSend) + d1 + lostFull + unsent)
      BY <1>2, <1>4, <2>2
    <2> QED BY <1>1, <1>3, <1>6, <2>3, Zenon DEF Account, Upstream, b1, d1, b
  <1> QED BY <1>5, <1>6, CaptureCases DEF ringVars, Ring!SetClosed, Ring!NotifyAll

\* What the analyzer takes from the ring it analyzes, sends or counts as dropped.
LEMMA AccountAnalyzer ==
    ASSUME TypeInv, Account, AnalyzerStep \/ AnalyzerSpurious
    PROVE  Account'
  <1> DEFINE b == Len(buf)
             a == Len(scored)
  <1>1. /\ Accepted \in Nat /\ b \in Nat /\ a \in Nat /\ Len(toSend) \in Nat
        /\ dropped \in Nat /\ lostFull \in Nat /\ unsent \in Nat /\ produced \in Nat
    BY Terms, Zenon
  <1>2. UNCHANGED <<produced, toSend, unsent>>
    BY DEF AnalyzerStep, AnalyzerDrain, AnalyzerPop, AnalyzerForward, AnalyzerSpurious,
           OnlyAnalyzer, captureVars, testerVars
  <1>3. UNCHANGED dropped
    BY DEF AnalyzerStep, AnalyzerDrain, AnalyzerPop, AnalyzerForward, AnalyzerSpurious,
           ringVars, Ring!DrainBatch, Ring!PopSome, Ring!PopNone, Ring!PopWait,
           Ring!SpuriousWakeup
  <1>4. produced = Accepted + (b + a + Len(toSend) + dropped + lostFull + unsent)
    BY Zenon DEF Account, Upstream
  <1>5. CASE AnalyzerForward
    <2>1. scored \in Seq(Nat) /\ scored # <<>> /\ scored' = Tail(scored)
      BY <1>5 DEF TypeInv, OwnInv, AnalyzerForward
    <2> DEFINE a1 == a'
               f1 == lostFull'
               t1 == Accepted'
    <2>2. Head(scored) \in Nat /\ a1 \in Nat /\ a = a1 + 1 /\ buf' = buf
      BY <1>5, <2>1, TailFacts DEF AnalyzerForward, ringVars
    <2>3. /\ CapturedExact'
          /\ t1 \in Nat /\ f1 \in Nat /\ t1 + f1 = Accepted + lostFull + 1
      <3>1. CASE ChanSend(Head(scored)) /\ UNCHANGED lostFull
        <4>1. CapturedExact' /\ Accepted' = Accepted + 1 /\ lostFull' = lostFull
          BY <2>2, <3>1, SendCounts DEF Account
        <4> HIDE DEF a, a1
        <4> QED BY <1>1, <4>1
      <3>2. CASE lostFull' = lostFull + 1 /\ UNCHANGED streamVars
        <4>1. CapturedExact' /\ Accepted' = Accepted
          BY <3>2, Zenon DEF Account, CapturedExact, Accepted, streamVars
        <4> HIDE DEF a, a1
        <4> QED BY <1>1, <3>2, <4>1
      <3> QED BY <1>5, <3>1, <3>2 DEF AnalyzerForward
    <2> HIDE DEF a, b, a1, f1, t1
    <2>4. produced = t1 + (b + a1 + Len(toSend) + dropped + f1 + unsent)
      BY <1>1, <1>4, <2>2, <2>3
    <2> QED BY <1>2, <1>3, <2>2, <2>3, <2>4, Zenon DEF Account, Upstream, a, b, a1, f1, t1
  <1>6. CASE ~AnalyzerForward
    <2>1. /\ UNCHANGED <<streamVars, lostFull>>
          /\ AnalyzerDrain \/ AnalyzerPop \/ AnalyzerSpurious
      BY <1>6 DEF AnalyzerStep, AnalyzerDrain, AnalyzerPop, AnalyzerSpurious, analyzerVars
    <2>2. CapturedExact' /\ Accepted' = Accepted
      BY <2>1, Zenon DEF Account, CapturedExact, Accepted, streamVars
    <2> DEFINE a1 == a'
               b1 == b'
    <2>3. a1 \in Nat /\ b1 \in Nat /\ a1 + b1 = a + b
      <3>1. CASE AnalyzerDrain
        <4>1. a = 0
          BY <3>1, Empty DEF AnalyzerDrain, TypeInv, OwnInv
        <4>2. b = a1 + b1 /\ a1 \in Nat /\ b1 \in Nat
          <5>1. scored' \in Seq(Nat) /\ buf' \in Seq(Nat) /\ b = Len(scored') + Len(buf')
            BY <3>1, DrainFacts DEF AnalyzerDrain, TypeInv
          <5> QED BY <5>1
        <4> HIDE DEF a, b, a1, b1
        <4> QED BY <1>1, <4>1, <4>2
      <3>2. CASE AnalyzerPop /\ Ring!PopSome("analyzer") /\ scored' = <<Head(buf)>>
        <4>1. a = 0
          BY <3>2, Empty DEF AnalyzerPop, TypeInv, OwnInv
        <4>2. b = b1 + 1 /\ b1 \in Nat
          BY <3>2, TailFacts DEF Ring!PopSome, TypeInv, RingInv, Ring!RingTypeOK
        <4>3. a1 = 1
          <5>1. \A x : Len(<<x>>) = 1
            OBVIOUS
          <5> QED BY <3>2, <5>1, Zenon
        <4> HIDE DEF a, b, a1, b1
        <4> QED BY <1>1, <4>1, <4>2, <4>3
      <3>3. CASE UNCHANGED <<buf, scored>>
        <4>1. a1 = a /\ b1 = b
          BY <3>3, Zenon
        <4> HIDE DEF a, b, a1, b1
        <4> QED BY <1>1, <4>1
      <3> QED BY <2>1, <3>1, <3>2, <3>3
              DEF AnalyzerPop, AnalyzerSpurious, analyzerVars, Ring!PopNone, Ring!PopWait,
                  Ring!SpuriousWakeup
    <2> HIDE DEF a, b, a1, b1
    <2>4. produced = Accepted + (b1 + a1 + Len(toSend) + dropped + lostFull + unsent)
      BY <1>1, <1>4, <2>3
    <2> QED BY <1>2, <1>3, <2>1, <2>2, <2>4, Zenon DEF Account, Upstream, a, b, a1, b1
  <1> QED BY <1>5, <1>6

\* The test sender accounts for each packet it makes.
LEMMA AccountTester ==
    ASSUME TypeInv, Account, TesterStep
    PROVE  Account'
  <1> DEFINE t == Len(toSend)
             t1 == t'
             n1 == unsent'
             p1 == produced'
             c1 == Accepted'
  <1>1. /\ Accepted \in Nat /\ Len(buf) \in Nat /\ Len(scored) \in Nat /\ t \in Nat
        /\ dropped \in Nat /\ lostFull \in Nat /\ unsent \in Nat /\ produced \in Nat
    BY Terms, Zenon
  <1>2. UNCHANGED <<buf, scored, dropped, lostFull>>
    BY DEF TesterStep, TesterGenerate, TesterSend, TesterTickDone, TesterWake,
           TesterCancelled, OnlyTester, ringVars, analyzerVars
  <1>3. produced = Accepted + (Len(buf) + Len(scored) + t + dropped + lostFull + unsent)
    BY Zenon DEF Account, Upstream
  <1>4. /\ CapturedExact'
        /\ t1 \in Nat /\ n1 \in Nat /\ p1 \in Nat /\ c1 \in Nat
        /\ c1 + t1 + n1 + produced = p1 + Accepted + t + unsent
    <2>1. CASE TesterGenerate
      <3>1. CapturedExact' /\ Accepted' = Accepted /\ unsent' = unsent
        BY <2>1, Zenon DEF TesterGenerate, Account, CapturedExact, Accepted, streamVars
      <3>2. t = 0
        BY <2>1, Empty DEF TesterGenerate, TypeInv, OwnInv
      <3>3. t1 \in Nat /\ p1 \in Nat /\ p1 = produced + t1
        <4>1. CASE produced >= MaxPackets
          <5>1. t1 = t /\ p1 = produced
            BY <2>1, <4>1, Zenon DEF TesterGenerate
          <5> HIDE DEF t, t1, p1
          <5> QED BY <1>1, <3>2, <5>1
        <4>2. CASE ~(produced >= MaxPackets)
          <5>1. t1 = PerTick /\ p1 = produced + PerTick
            BY <1>1, <2>1, <4>2, TickPackets DEF TesterGenerate
          <5> HIDE DEF t, t1, p1
          <5> QED BY <1>1, <5>1, Sizes
        <4> QED BY <4>1, <4>2
      <3> HIDE DEF t, t1, p1
      <3> QED BY <1>1, <3>1, <3>2, <3>3
    <2>2. CASE TesterSend /\ ChanSend(Head(toSend)) /\ toSend' = Tail(toSend)
               /\ UNCHANGED <<unsent, produced>>
      <3>1. Head(toSend) \in Nat /\ t1 \in Nat /\ t = t1 + 1
        BY <2>2, TailFacts DEF TesterSend, TypeInv, OwnInv
      <3>2. CapturedExact' /\ Accepted' = Accepted + 1
        BY <2>2, <3>1, SendCounts DEF Account
      <3> HIDE DEF t, t1
      <3> QED BY <1>1, <2>2, <3>1, <3>2
    <2>3. CASE /\ toSend' = <<>> /\ unsent' = unsent + t
               /\ UNCHANGED <<streamVars, produced>>
      <3>1. CapturedExact' /\ Accepted' = Accepted /\ t1 = 0
        BY <2>3, Empty, Zenon DEF Account, CapturedExact, Accepted, streamVars
      <3> HIDE DEF t, t1
      <3> QED BY <1>1, <2>3, <3>1
    <2>4. CASE UNCHANGED <<streamVars, toSend, unsent, produced>>
      <3>1. CapturedExact' /\ Accepted' = Accepted /\ t1 = t
        BY <2>4, Zenon DEF Account, CapturedExact, Accepted, streamVars
      <3> HIDE DEF t, t1
      <3> QED BY <1>1, <2>4, <3>1
    <2> QED BY <2>1, <2>2, <2>3, <2>4
            DEF TesterStep, TesterSend, TesterTickDone, TesterWake, TesterCancelled
  <1> HIDE DEF t, t1, n1, p1, c1
  <1>5. p1 = c1 + (Len(buf) + Len(scored) + t1 + dropped + lostFull + n1)
    BY <1>1, <1>3, <1>4
  <1> QED BY <1>2, <1>4, <1>5, Zenon DEF Account, Upstream, t, t1, n1, p1, c1

\* The stream task loses packets only where Account counts them.
LEMMA AccountStream ==
    ASSUME TypeInv, Account, StreamStep
    PROVE  Account'
  <1>1. CapturedExact' /\ Accepted' = Accepted
    BY StreamCounts DEF Account
  <1>2. UNCHANGED <<produced, buf, scored, toSend, dropped, lostFull, unsent>>
    BY DEF StreamStep, StreamOpen, StreamCancel, StreamRecv, StreamTick, StreamSend, Pull,
           Break, OnlyStream, ringVars, captureVars, analyzerVars, testerVars
  <1> QED BY <1>1, <1>2, Zenon DEF Account, Upstream

\* Every step keeps the account.
LEMMA AccountNext == TypeInv /\ Account /\ [Next]_vars => Account'
  <1> SUFFICES ASSUME TypeInv, Account, [Next]_vars PROVE Account'
    OBVIOUS
  <1>1. CASE UNCHANGED <<streamVars, ringVars, captureVars, analyzerVars, testerVars>>
    BY <1>1, Zenon DEF streamVars, ringVars, captureVars, analyzerVars, testerVars,
                       Account, CapturedExact, Accepted, Upstream
  <1>2. UNCHANGED vars => UNCHANGED <<streamVars, ringVars, captureVars, analyzerVars, testerVars>>
    BY DEF vars
  <1> QED BY <1>1, <1>2, NextCases, MainCases, AccountCapture, AccountAnalyzer, AccountTester,
             AccountStream

\* With nothing made yet, there is nothing to account for.
LEMMA AccountHolds == Spec => []Account
  <1>1. Init => Account
    <2> SUFFICES ASSUME Init PROVE Account
      OBVIOUS
    <2>1. /\ CountEvents(delivered) = 0 /\ CountEvents(batchChan) = 0
          /\ Len(sending.events) = 0 /\ Len(pending) = 0 /\ Len(chan) = 0
          /\ Len(buf) = 0 /\ Len(scored) = 0 /\ Len(toSend) = 0
      BY Empty, CountFacts DEF Init, StreamInit, Ring!new
    <2>2. /\ captured = 0 /\ unparsed = 0 /\ lostRx = 0 /\ lostNet = 0 /\ dropped = 0
          /\ lostFull = 0 /\ unsent = 0 /\ produced = 0
      BY DEF Init, StreamInit, Ring!new
    <2> QED BY <2>1, <2>2 DEF Account, CapturedExact, Accepted, Upstream
  <1> QED BY <1>1, AccountNext, AgentTypeInv, PTL DEF Spec

\* No packet vanishes without being counted: everything the source made is
\* delivered, in a stage on the way, or in one of the counts of the six points
\* that give packets up, and the heartbeat's packets_captured is exact.
THEOREM EveryPacketAccounted == Spec => []Conservation
  BY AccountHolds, AccountIsConservation, AgentTypeInv, PTL

-----------------------------------------------------------------------------
(* The agent as an ordered feed. *)

\* A strictly increasing sequence of packets above lo and up to hi.
Within(s, lo, hi) ==
    /\ s \in Seq(Nat)
    /\ \A i \in 1 .. Len(s) : lo < s[i] /\ s[i] <= hi
    /\ \A i, j \in 1 .. Len(s) : i < j => s[i] < s[j]

\* The empty sequence lies in any interval.
LEMMA WithinEmpty == \A lo, hi : Within(<<>>, lo, hi)
  <1>1. <<>> \in Seq(Nat) /\ 1 .. Len(<<>>) = {}
    OBVIOUS
  <1> QED BY <1>1, Zenon DEF Within

\* An interval may be made wider.
LEMMA WithinWider ==
    ASSUME NEW s, NEW lo \in Nat, NEW hi \in Nat, NEW lo2 \in Nat, NEW hi2 \in Nat,
           Within(s, lo, hi), lo2 <= lo, hi <= hi2
    PROVE  Within(s, lo2, hi2)
  <1>1. s \in Seq(Nat) /\ \A i \in 1 .. Len(s) : s[i] \in Nat
    BY DEF Within
  <1>2. \A i \in 1 .. Len(s) : lo2 < s[i] /\ s[i] <= hi2
    BY <1>1 DEF Within
  <1> QED BY <1>1, <1>2, Zenon DEF Within

\* A single packet that is newer than lo.
LEMMA WithinOne ==
    ASSUME NEW x \in Nat, NEW lo \in Nat, lo < x
    PROVE  Within(<<x>>, lo, x)
  <1>1. <<x>> \in Seq(Nat) /\ Len(<<x>>) = 1 /\ <<x>>[1] = x
    OBVIOUS
  <1> QED BY <1>1 DEF Within

\* Two sequences one after the other.
LEMMA WithinJoin ==
    ASSUME NEW s, NEW t, NEW lo \in Nat, NEW m \in Nat, NEW hi \in Nat,
           Within(s, lo, m), Within(t, m, hi), lo <= m, m <= hi
    PROVE  Within(s \o t, lo, hi)
  <1> DEFINE c == s \o t
  <1>1. s \in Seq(Nat) /\ t \in Seq(Nat) /\ Len(s) \in Nat /\ Len(t) \in Nat
    BY DEF Within
  <1>2. /\ c \in Seq(Nat) /\ Len(c) = Len(s) + Len(t)
        /\ \A i \in 1 .. Len(s) + Len(t) : c[i] = IF i <= Len(s) THEN s[i] ELSE t[i - Len(s)]
    BY <1>1, ConcatProperties, Zenon
  <1> HIDE DEF c
  <1>3. ASSUME NEW i \in 1 .. Len(c)
        PROVE  \/ i \in 1 .. Len(s) /\ c[i] = s[i]
               \/ i - Len(s) \in 1 .. Len(t) /\ c[i] = t[i - Len(s)] /\ i > Len(s)
    BY <1>1, <1>2
  <1>4. /\ \A i \in 1 .. Len(s) : s[i] \in Nat /\ lo < s[i] /\ s[i] <= m
        /\ \A i \in 1 .. Len(t) : t[i] \in Nat /\ m < t[i] /\ t[i] <= hi
    BY <1>1 DEF Within
  <1>5. ASSUME NEW i \in 1 .. Len(c)
        PROVE  lo < c[i] /\ c[i] <= hi
    <2>1. CASE i \in 1 .. Len(s) /\ c[i] = s[i]
      BY <1>4, <2>1
    <2>2. CASE i - Len(s) \in 1 .. Len(t) /\ c[i] = t[i - Len(s)]
      BY <1>4, <2>2
    <2> QED BY <1>3, <2>1, <2>2
  <1>6. ASSUME NEW i \in 1 .. Len(c), NEW j \in 1 .. Len(c), i < j
        PROVE  c[i] < c[j]
    <2>1. CASE i \in 1 .. Len(s) /\ c[i] = s[i] /\ j \in 1 .. Len(s) /\ c[j] = s[j]
      BY <1>6, <2>1 DEF Within
    <2>2. CASE i \in 1 .. Len(s) /\ c[i] = s[i]
               /\ j - Len(s) \in 1 .. Len(t) /\ c[j] = t[j - Len(s)]
      BY <1>4, <2>2
    <2>3. CASE /\ i - Len(s) \in 1 .. Len(t) /\ c[i] = t[i - Len(s)]
               /\ j - Len(s) \in 1 .. Len(t) /\ c[j] = t[j - Len(s)]
      <3>1. i - Len(s) < j - Len(s)
        BY <1>1, <1>2, <1>6
      <3> QED BY <2>3, <3>1 DEF Within
    <2>4. ~(i > Len(s) /\ j \in 1 .. Len(s))
      BY <1>1, <1>2, <1>6
    <2> QED BY <1>3, <2>1, <2>2, <2>3, <2>4
  <1> QED BY <1>2, <1>5, <1>6 DEF Within, c

\* A sequence that is cut in two has a value between its parts.
LEMMA WithinCut ==
    ASSUME NEW s \in Seq(Nat), NEW t \in Seq(Nat), NEW lo \in Nat, NEW hi \in Nat, lo <= hi,
           Within(s \o t, lo, hi)
    PROVE  \E m \in Nat : lo <= m /\ m <= hi /\ Within(s, lo, m) /\ Within(t, m, hi)
  <1> DEFINE c == s \o t
  <1>1. Len(s) \in Nat /\ Len(t) \in Nat
    OBVIOUS
  <1>2. /\ c \in Seq(Nat) /\ Len(c) = Len(s) + Len(t)
        /\ \A i \in 1 .. Len(s) + Len(t) : c[i] = IF i <= Len(s) THEN s[i] ELSE t[i - Len(s)]
    BY <1>1, ConcatProperties, Zenon
  <1>3. Within(c, lo, hi)
    OBVIOUS
  <1> HIDE DEF c
  <1>4. /\ \A i \in 1 .. Len(s) : i \in 1 .. Len(c) /\ c[i] = s[i]
        /\ \A i \in 1 .. Len(t) : i + Len(s) \in 1 .. Len(c) /\ c[i + Len(s)] = t[i]
    <2>1. \A i \in 1 .. Len(s) : i \in 1 .. Len(c) /\ c[i] = s[i]
      BY <1>1, <1>2
    <2>2. ASSUME NEW i \in 1 .. Len(t)
          PROVE  i + Len(s) \in 1 .. Len(c) /\ c[i + Len(s)] = t[i]
      <3>1. /\ i + Len(s) \in 1 .. Len(s) + Len(t) /\ ~(i + Len(s) <= Len(s))
            /\ (i + Len(s)) - Len(s) = i
        BY <1>1
      <3>2. c[i + Len(s)] = t[(i + Len(s)) - Len(s)]
        BY <1>2, <3>1, Zenon
      <3> QED BY <1>2, <3>1, <3>2
    <2> QED BY <2>1, <2>2
  <1>5. CASE Len(s) = 0
    <2>1. s = <<>>
      BY <1>5
    <2>2. \A i \in 1 .. Len(t) : i \in 1 .. Len(c) /\ c[i] = t[i]
      BY <1>1, <1>4, <1>5
    <2>3. Within(t, lo, hi)
      BY <1>3, <2>2, Zenon DEF Within
    <2>4. Within(s, lo, lo)
      BY <2>1, WithinEmpty
    <2> QED BY <2>3, <2>4
  <1>6. CASE Len(s) # 0
    <2> DEFINE n == Len(s)
               m == s[n]
    <2>1. n \in 1 .. Len(s) /\ n \in 1 .. Len(c) /\ m \in Nat /\ c[n] = m
      BY <1>1, <1>4, <1>6
    <2>2. lo < m /\ m <= hi
      BY <1>3, <2>1 DEF Within
    <2>3. \A i \in 1 .. Len(s) : s[i] \in Nat /\ lo < s[i] /\ s[i] <= m
      <3> SUFFICES ASSUME NEW i \in 1 .. Len(s) PROVE s[i] \in Nat /\ lo < s[i] /\ s[i] <= m
        OBVIOUS
      <3>1. s[i] \in Nat /\ c[i] = s[i] /\ i \in 1 .. Len(c)
        BY <1>4
      <3>2. i < n => s[i] < m
        BY <1>3, <2>1, <3>1 DEF Within
      <3>3. i < n \/ i = n
        BY <1>1
      <3>4. lo < s[i]
        BY <1>3, <3>1, Zenon DEF Within
      <3> QED BY <3>1, <3>2, <3>3, <3>4, <2>1
    <2>4. \A i, j \in 1 .. Len(s) : i < j => s[i] < s[j]
      BY <1>3, <1>4, Zenon DEF Within
    <2>5. ASSUME NEW i \in 1 .. Len(t)
          PROVE  m < t[i] /\ t[i] <= hi
      <3>1. i + Len(s) \in 1 .. Len(c) /\ c[i + Len(s)] = t[i]
        BY <1>4
      <3>2. n < i + Len(s)
        BY <1>1
      <3>3. c[n] < c[i + Len(s)] /\ c[i + Len(s)] <= hi
        BY <1>3, <2>1, <3>1, <3>2, Zenon DEF Within
      <3> QED BY <2>1, <3>1, <3>3, Zenon
    <2>6. ASSUME NEW i \in 1 .. Len(t), NEW j \in 1 .. Len(t), i < j
          PROVE  t[i] < t[j]
      <3>1. i + Len(s) < j + Len(s)
        BY <1>1, <2>6
      <3> QED BY <1>3, <1>4, <3>1, Zenon DEF Within
    <2>7. Within(s, lo, m) /\ Within(t, m, hi)
      BY <2>3, <2>4, <2>5, <2>6, Zenon DEF Within
    <2>8. lo <= m
      BY <2>1, <2>2
    <2> HIDE DEF m
    <2> QED BY <2>1, <2>2, <2>7, <2>8
  <1> QED BY <1>5, <1>6

\* One packet at the end, one from the front.
LEMMA WithinAppend ==
    ASSUME NEW s, NEW lo \in Nat, NEW m \in Nat, NEW x \in Nat,
           Within(s, lo, m), lo <= m, m < x
    PROVE  Within(Append(s, x), lo, x)
  <1>1. s \in Seq(Nat) /\ m <= x
    BY DEF Within
  <1>2. Append(s, x) = s \o <<x>>
    BY <1>1, AppendIsConcat
  <1>3. Within(<<x>>, m, x)
    BY WithinOne
  <1>4. Within(s \o <<x>>, lo, x)
    BY <1>1, <1>3, WithinJoin
  <1> QED BY <1>2, <1>4, Zenon

\* The head comes before everything behind it.
LEMMA WithinTail ==
    ASSUME NEW s, s # <<>>, NEW lo \in Nat, NEW hi \in Nat, Within(s, lo, hi)
    PROVE  /\ Head(s) \in Nat /\ lo < Head(s) /\ Head(s) <= hi
           /\ Within(Tail(s), Head(s), hi) /\ Within(Tail(s), lo, hi)
  <1>1. /\ s \in Seq(Nat) /\ Len(s) \in Nat /\ Len(s) # 0
        /\ Tail(s) \in Seq(Nat) /\ Len(Tail(s)) = Len(s) - 1
        /\ Head(s) = s[1] /\ s[1] \in Nat
        /\ \A i \in 1 .. Len(s) - 1 : Tail(s)[i] = s[i + 1]
    BY DEF Within
  <1>2. lo < s[1] /\ s[1] <= hi
    BY <1>1 DEF Within
  <1>3. \A i \in 1 .. Len(Tail(s)) : i + 1 \in 1 .. Len(s) /\ Tail(s)[i] = s[i + 1] /\ 1 < i + 1
    BY <1>1
  <1>4. 1 \in 1 .. Len(s)
    BY <1>1
  <1>5. \A i \in 1 .. Len(Tail(s)) : Head(s) < Tail(s)[i] /\ lo < Tail(s)[i] /\ Tail(s)[i] <= hi
    BY <1>1, <1>3, <1>4, Zenon DEF Within
  <1>6. ASSUME NEW i \in 1 .. Len(Tail(s)), NEW j \in 1 .. Len(Tail(s)), i < j
        PROVE  Tail(s)[i] < Tail(s)[j]
    <2>1. i + 1 < j + 1
      BY <1>1, <1>6
    <2> QED BY <1>3, <2>1, Zenon DEF Within
  <1> QED BY <1>1, <1>2, <1>5, <1>6, Zenon DEF Within

\* The sizes of the batches, from `pending` on.
BatchInv ==
    /\ stream = "loop" => Len(pending) < LargestBatch
    /\ stream = "send" => Len(sending.events) \in 1 .. LargestBatch
    /\ \A i \in 1 .. Len(batchChan) : Len(batchChan[i].events) \in 1 .. LargestBatch

\* Every step keeps batches within batch_size.
LEMMA BatchInvNext == TypeInv /\ BatchInv /\ [Next]_vars => BatchInv'
  <1> SUFFICES ASSUME TypeInv, BatchInv, [Next]_vars PROVE BatchInv'
    OBVIOUS
  <1>1. BatchSize \in Nat /\ LargestBatch \in Nat /\ LargestBatch >= 1
    BY StreamAssumption DEF LargestBatch
  <1>2. /\ batchChan \in Seq(Batch) /\ pending \in Seq(Nat) /\ Len(pending) \in Nat
    BY DEF TypeInv, StreamInv, StreamTypeOK
  <1>3. CASE UNCHANGED <<stream, pending, sending, batchChan>>
    BY <1>3, Zenon DEF BatchInv
  <1>4. CASE OpenOk \/ OpenErr
    <2>1. pending = <<>> /\ UNCHANGED <<pending, sending, batchChan>> /\ stream' \in {"loop", "done"}
      BY <1>4 DEF OpenOk, OpenErr, TypeInv, StreamInv, StreamShape
    <2>2. Len(pending) < LargestBatch
      BY <1>1, <2>1, Empty
    <2> QED BY <2>1, <2>2 DEF BatchInv
  <1>5. CASE StreamCancelled \/ RecvClosed(Senders) \/ Tick
    <2>1. CASE pending = <<>>
      BY <1>5, <2>1 DEF StreamCancelled, RecvClosed, Tick, Return, BatchInv
    <2>2. CASE pending # <<>>
      <3>1. /\ sending' = [seq |-> seq, events |-> pending] /\ stream' = "send"
            /\ batchChan' = batchChan /\ stream = "loop"
        BY <1>5, <2>2 DEF StreamCancelled, RecvClosed, Tick, BeginFlush, BatchOf
      <3>2. sending'.events = pending
        BY <3>1
      <3>3. Len(pending) \in 1 .. LargestBatch
        BY <1>1, <1>2, <2>2, <3>1 DEF BatchInv
      <3> QED BY <3>1, <3>2, <3>3 DEF BatchInv
    <2> QED BY <2>1, <2>2
  <1>6. CASE Recv
    <2> DEFINE events == Append(pending, Head(chan))
    <2>1. stream = "loop" /\ batchChan' = batchChan
      BY <1>6 DEF Recv
    <2>2. Len(events) = Len(pending) + 1
      <3>1. Head(chan) \in Nat
        BY <1>6, TailFacts DEF Recv, TypeInv, StreamInv, StreamTypeOK
      <3> QED BY <1>2, <3>1, AppendFacts
    <2>3. Len(events) \in 1 .. LargestBatch
      BY <1>1, <1>2, <2>1, <2>2 DEF BatchInv
    <2>4. CASE parse_packet(Head(chan)) /\ BatchFull(events)
      <3>1. sending' = [seq |-> seq, events |-> events] /\ stream' = "send"
        BY <1>6, <2>4, Zenon DEF Recv, BeginFlush, BatchOf
      <3> HIDE DEF events
      <3> QED BY <2>1, <2>3, <3>1 DEF BatchInv
    <2>5. CASE parse_packet(Head(chan)) /\ ~BatchFull(events)
      <3>1. pending' = events /\ UNCHANGED <<sending, stream>>
        BY <1>6, <2>5, Zenon DEF Recv
      <3>2. Len(events) < LargestBatch
        BY <1>1, <1>2, <2>2, <2>5 DEF BatchFull, LargestBatch
      <3> HIDE DEF events
      <3> QED BY <2>1, <3>1, <3>2 DEF BatchInv
    <2>6. CASE ~parse_packet(Head(chan))
      BY <1>6, <2>1, <2>6 DEF Recv, BatchInv
    <2> QED BY <2>4, <2>5, <2>6
  <1>7. CASE SendOk \/ SendErr
    <2>1. pending' = <<>> /\ stream' \in {"loop", "done"} /\ stream = "send"
      BY <1>7 DEF SendOk, SendErr, EndFlush, Return, TypeInv, StreamInv, StreamShape
    <2>2. Len(pending') < LargestBatch
      BY <1>1, <2>1, Empty
    <2>3. \A i \in 1 .. Len(batchChan') : Len(batchChan'[i].events) \in 1 .. LargestBatch
      <3>1. CASE batchChan' = batchChan
        BY <3>1, Zenon DEF BatchInv
      <3>2. CASE batchChan' = Append(batchChan, sending)
        <4>1. sending \in Batch
          BY <2>1, SendingIsABatch DEF TypeInv
        <4>2. /\ Len(batchChan') = Len(batchChan) + 1 /\ Len(batchChan) \in Nat
              /\ \A i \in 1 .. Len(batchChan) : batchChan'[i] = batchChan[i]
              /\ batchChan'[Len(batchChan) + 1] = sending
          BY <1>2, <3>2, <4>1
        <4>3. \A i \in 1 .. Len(batchChan') :
                 i \in 1 .. Len(batchChan) \/ i = Len(batchChan) + 1
          BY <4>2
        <4> QED BY <2>1, <4>2, <4>3, Zenon DEF BatchInv
      <3> QED BY <1>7, <3>1, <3>2 DEF SendOk, SendErr
    <2> QED BY <2>1, <2>2, <2>3 DEF BatchInv
  <1>8. CASE NetPull
    <2>1. /\ UNCHANGED <<stream, pending, sending>>
          /\ batchChan # <<>> /\ batchChan' = Tail(batchChan)
      BY <1>8 DEF NetPull
    <2>2. \A i \in 1 .. Len(batchChan') :
             i + 1 \in 1 .. Len(batchChan) /\ batchChan'[i] = batchChan[i + 1]
      BY <1>2, <2>1
    <2> QED BY <2>1, <2>2, Zenon DEF BatchInv
  <1>9. CASE NetBreak
    BY <1>9, Empty DEF NetBreak, BatchInv
  <1>10. CASE CaptureStep \/ MainStep \/ AnalyzerStep \/ AnalyzerSpurious \/ TesterStep
              \/ UNCHANGED vars
    <2>1. UNCHANGED <<stream, pending, sending, batchChan>>
      BY <1>10, CaptureCases, MainCases
         DEF streamVars, AnalyzerStep, AnalyzerDrain, AnalyzerPop, AnalyzerForward,
             AnalyzerSpurious, ChanSend, TesterStep, TesterGenerate, TesterSend,
             TesterTickDone, TesterWake, TesterCancelled, vars
    <2> QED BY <1>3, <2>1
  <1>11. CASE StreamStep
    BY <1>4, <1>5, <1>6, <1>7, <1>8, <1>9, <1>11
       DEF StreamStep, StreamOpen, StreamCancel, StreamRecv, StreamTick, StreamSend, Pull, Break
  <1> QED BY <1>10, <1>11, NextCases

\* Batches are within batch_size throughout.
LEMMA BatchInvHolds == Spec => []BatchInv
  <1>1. Init => BatchInv
    <2> SUFFICES ASSUME Init PROVE BatchInv
      OBVIOUS
    <2>1. stream = "open" /\ batchChan = <<>>
      BY DEF Init, StreamInit
    <2> QED BY <2>1, Empty DEF BatchInv
  <1> QED BY <1>1, BatchInvNext, AgentTypeInv, PTL DEF Spec

\* Batches of at most k events, and how many events they have together.
LEMMA CountBound ==
    ASSUME NEW b \in Seq(Batch), NEW k \in Nat,
           \A i \in 1 .. Len(b) : Len(b[i].events) <= k
    PROVE  CountEvents(b) <= Len(b) * k
  <1> DEFINE Bounded(c) == (\A i \in 1 .. Len(c) : Len(c[i].events) <= k)
                              => CountEvents(c) <= Len(c) * k
             Good == {n \in Nat : \A c \in Seq(Batch) : Len(c) = n => Bounded(c)}
  <1>1. 0 \in Good
    <2>1. ASSUME NEW c \in Seq(Batch), Len(c) = 0 PROVE Bounded(c)
      <3>1. c = <<>> /\ 0 * k = 0
        BY <2>1
      <3> QED BY <2>1, <3>1, CountFacts
    <2> QED BY <2>1
  <1>2. ASSUME NEW n \in Nat, n \in Good PROVE n + 1 \in Good
    <2>1. ASSUME NEW c \in Seq(Batch), Len(c) = n + 1,
                 \A i \in 1 .. Len(c) : Len(c[i].events) <= k
          PROVE  CountEvents(c) <= Len(c) * k
      <3> DEFINE t == Tail(c)
      <3>1. /\ c # <<>> /\ t \in Seq(Batch) /\ Len(t) = n /\ Head(c) = c[1] /\ Head(c) \in Batch
            /\ \A i \in 1 .. n : t[i] = c[i + 1] /\ i + 1 \in 1 .. Len(c)
            /\ 1 \in 1 .. Len(c)
        BY <2>1
      <3> HIDE DEF t
      <3>2. \A i \in 1 .. Len(t) : Len(t[i].events) <= k
        BY <2>1, <3>1, Zenon
      <3>3. Bounded(t)
        <4>1. \A d \in Seq(Batch) : Len(d) = n => Bounded(d)
          BY <1>2
        <4> HIDE DEF Bounded
        <4> QED BY <3>1, <4>1, Zenon
      <3>4. CountEvents(t) <= n * k
        BY <3>1, <3>2, <3>3
      <3>5. CountEvents(c) = Len(Head(c).events) + CountEvents(t) /\ CountEvents(t) \in Nat
        BY <3>1, CountFacts, Zenon DEF t
      <3>6. Len(Head(c).events) \in Nat /\ Len(Head(c).events) <= k
        <4>1. Head(c).events \in Seq(Nat)
          BY <3>1 DEF Batch
        <4> QED BY <2>1, <3>1, <4>1
      <3>7. (n + 1) * k = n * k + k /\ n * k \in Nat
        OBVIOUS
      <3> QED BY <2>1, <3>4, <3>5, <3>6, <3>7
    <2> QED BY <2>1
  <1>3. \A n \in Nat : n \in Good
    <2> HIDE DEF Good
    <2> QED BY <1>1, <1>2, SetInduction
  <1>4. Len(b) \in Nat
    OBVIOUS
  <1>5. \A c \in Seq(Batch) : Len(c) = Len(b) => Bounded(c)
    BY <1>3, <1>4
  <1> QED BY <1>5

\* When main has returned, no packet is left in a stage the agent itself runs
\* and every thread and task has ended: run_packet_stream makes its last flush
\* before it returns, main joins it first, and the analyzer ends only with an
\* empty, closed ring buffer.  What may be lost with the process is in the
\* batch channel (main.rs:226), BatchCap batches of batch_size events at most.
THEOREM ExitIsClean == Spec => []ExitAfterFlush
  <1>1. TypeInv /\ Handover /\ Account /\ BatchInv => ExitAfterFlush
    <2> SUFFICES ASSUME TypeInv, Handover, Account, BatchInv, main = "exited"
                 PROVE  /\ stream = "done" /\ hb = "done" /\ capture = "done" /\ analyzer = "done"
                        /\ buf = <<>> /\ scored = <<>> /\ chan = <<>> /\ pending = <<>>
                        /\ sending = NoBatch
                        /\ captured <= CountEvents(delivered) + lostNet + BatchCap * LargestBatch
      BY DEF ExitAfterFlush
    <2>1. /\ stream = "done" /\ hb = "done" /\ capture = "done" /\ analyzer = "done"
          /\ buf = <<>> /\ scored = <<>> /\ chan = <<>> /\ pending = <<>>
          /\ sending = NoBatch
      BY DEF TypeInv, StreamInv, StreamShape, OwnInv, Handover
    <2>2. captured = CountEvents(delivered) + CountEvents(batchChan) + lostNet
      <3>1. Len(sending.events) = 0 /\ Len(pending) = 0
        BY <2>1, Empty DEF NoBatch
      <3>2. /\ delivered \in Seq(Batch) /\ batchChan \in Seq(Batch) /\ lostNet \in Nat
        BY DEF TypeInv, StreamInv, StreamTypeOK
      <3>3. CountEvents(delivered) \in Nat /\ CountEvents(batchChan) \in Nat
        BY <3>2, CountFacts, Zenon
      <3> QED BY <3>1, <3>2, <3>3 DEF Account, CapturedExact
    <2>3. /\ BatchCap \in Nat /\ LargestBatch \in Nat
      BY StreamAssumption DEF LargestBatch
    <2>4. /\ batchChan \in Seq(Batch) /\ delivered \in Seq(Batch) /\ lostNet \in Nat
          /\ Len(batchChan) \in Nat /\ Len(batchChan) <= BatchCap
      BY DEF TypeInv, StreamInv, StreamTypeOK
    <2>5. CountEvents(batchChan) <= Len(batchChan) * LargestBatch
      <3>1. \A i \in 1 .. Len(batchChan) : Len(batchChan[i].events) <= LargestBatch
        BY <2>3 DEF BatchInv
      <3> QED BY <2>3, <2>4, <3>1, CountBound
    <2>6. Len(batchChan) * LargestBatch <= BatchCap * LargestBatch
      <3>1. ASSUME NEW x \in Nat, NEW y \in Nat, NEW z \in Nat, x <= y
            PROVE  x * z <= y * z
        <4>1. y * z = x * z + (y - x) * z /\ (y - x) * z \in Nat /\ x * z \in Nat
          BY <3>1
        <4> QED BY <4>1
      <3> QED BY <2>3, <2>4, <3>1
    <2>7. /\ CountEvents(delivered) \in Nat /\ CountEvents(batchChan) \in Nat
          /\ Len(batchChan) * LargestBatch \in Nat /\ BatchCap * LargestBatch \in Nat
      <3>1. CountEvents(delivered) \in Nat /\ CountEvents(batchChan) \in Nat
        BY <2>4, CountFacts, Zenon
      <3> QED BY <2>3, <2>4, <3>1
    <2> DEFINE room == Len(batchChan) * LargestBatch
               most == BatchCap * LargestBatch
    <2>8. captured <= CountEvents(delivered) + lostNet + most
      <3> HIDE DEF room, most
      <3>1. room \in Nat /\ most \in Nat /\ room <= most /\ CountEvents(batchChan) <= room
        BY <2>5, <2>6, <2>7, Zenon DEF room, most
      <3> QED BY <2>2, <2>4, <2>7, <3>1
    <2> QED BY <2>1, <2>8
  <1> QED BY <1>1, HandoverHolds, AccountHolds, BatchInvHolds, AgentTypeInv, PTL

\* The stages hold packets in the order they were made, later stages older
\* ones: six numbers separate what the stages hold.  With --test-send the
\* packets go from toSend to the channel, otherwise from buf to scored to the
\* channel.
Laid(k1, k2, k3, k4, k5, k6) ==
    /\ 0 <= k1 /\ k1 <= k2 /\ k2 <= k3 /\ k3 <= k4 /\ k4 <= k5 /\ k5 <= k6 /\ k6 <= produced
    /\ Within(AllEvents(delivered), 0, k1)
    /\ Within(AllEvents(batchChan), k1, k2)
    /\ Within(sending.events, k2, k3)
    /\ Within(pending, k3, k4)
    /\ Within(chan, k4, k5)
    /\ Within(scored, k5, k6)
    /\ Within(toSend, k5, produced)
    /\ Within(buf, k6, produced)

OrderInv == \E k1, k2, k3, k4, k5, k6 \in Nat : Laid(k1, k2, k3, k4, k5, k6)

\* With nothing made yet, all queues are in order.
LEMMA OrderInvInitially == Init => OrderInv
  <1> SUFFICES ASSUME Init PROVE OrderInv
    OBVIOUS
  <1>1. /\ AllEvents(delivered) = <<>> /\ AllEvents(batchChan) = <<>> /\ sending.events = <<>>
        /\ pending = <<>> /\ chan = <<>> /\ scored = <<>> /\ toSend = <<>> /\ buf = <<>>
        /\ produced = 0
    BY Empty, AllEventsEmpty DEF Init, StreamInit, Ring!new
  <1>2. 0 \in Nat /\ 0 <= 0
    OBVIOUS
  <1>3. Laid(0, 0, 0, 0, 0, 0)
    BY <1>1, <1>2, WithinEmpty, Zenon DEF Laid
  <1> QED BY <1>2, <1>3, Zenon DEF OrderInv

\* The capture thread pushes what is newer than everything in the queues.
LEMMA OrderCapture ==
    ASSUME TypeInv, Handover, OrderInv, CaptureStep
    PROVE  OrderInv'
  <1>1. PICK k1, k2, k3, k4, k5, k6 \in Nat : Laid(k1, k2, k3, k4, k5, k6)
    BY Zenon DEF OrderInv
  <1>2. UNCHANGED <<delivered, batchChan, sending, pending, chan, scored, toSend>>
    BY CaptureCases DEF streamVars, analyzerVars, testerVars
  <1>3. CASE UNCHANGED <<buf, produced>>
    <2>1. Laid(k1, k2, k3, k4, k5, k6)'
      BY <1>1, <1>2, <1>3, Zenon DEF Laid
    <2> QED BY <2>1, Zenon DEF OrderInv
  <1>4. CASE CapturePacket
    <2>1. produced \in Nat /\ produced + 1 \in Nat /\ produced' = produced + 1 /\ k6 <= produced
          /\ produced < produced + 1 /\ produced <= produced + 1 /\ k6 <= produced + 1
      BY <1>1, <1>4 DEF TypeInv, OwnInv, CapturePacket, Laid
    <2>2. Within(buf, k6, produced) /\ buf # <<>> => Within(Tail(buf), k6, produced)
      BY <2>1, WithinTail
    <2>3. \A s : Within(s, k6, produced) => Within(Append(s, produced + 1), k6, produced + 1)
      BY <2>1, WithinAppend
    <2>4. Within(buf', k6, produced')
      <3>1. \/ buf' = Append(buf, produced + 1)
            \/ buf # <<>> /\ buf' = Append(Tail(buf), produced + 1)
        BY <1>4, <2>1, PushFacts DEF TypeInv, CapturePacket
      <3>2. Within(buf, k6, produced)
        BY <1>1, Zenon DEF Laid
      <3> QED BY <2>1, <2>2, <2>3, <3>1, <3>2, Zenon
    <2>5. toSend = <<>>
      BY <1>4, Sizes DEF TypeInv, OwnInv, Handover, CapturePacket
    <2>6. Laid(k1, k2, k3, k4, k5, k6)'
      BY <1>1, <1>2, <2>1, <2>4, <2>5, WithinEmpty, Zenon DEF Laid
    <2> QED BY <2>6, Zenon DEF OrderInv
  <1> QED
    BY <1>3, <1>4 DEF CaptureStep, CaptureOpen, CaptureCheck, CaptureNoPacket, CaptureReturn,
       CaptureNotify, CaptureJoin, ringVars, Ring!SetClosed, Ring!NotifyAll

\* The analyzer moves the oldest of the ring behind the newest of the channel.
LEMMA OrderAnalyzer ==
    ASSUME TypeInv, Handover, OrderInv, AnalyzerStep \/ AnalyzerSpurious
    PROVE  OrderInv'
  <1>1. PICK k1, k2, k3, k4, k5, k6 \in Nat : Laid(k1, k2, k3, k4, k5, k6)
    BY Zenon DEF OrderInv
  <1>2. /\ UNCHANGED <<delivered, batchChan, sending, pending, toSend, produced>>
        /\ produced \in Nat
    BY DEF AnalyzerStep, AnalyzerDrain, AnalyzerPop, AnalyzerForward, AnalyzerSpurious,
           OnlyAnalyzer, captureVars, testerVars, ChanSend, streamVars, TypeInv, OwnInv
  <1>3. CASE UNCHANGED <<buf, scored, chan>>
    <2>1. Laid(k1, k2, k3, k4, k5, k6)'
      BY <1>1, <1>2, <1>3, Zenon DEF Laid
    <2> QED BY <2>1, Zenon DEF OrderInv
  <1>4. CASE AnalyzerForward
    <2>1. scored # <<>> /\ scored' = Tail(scored) /\ buf' = buf
      BY <1>4 DEF TypeInv, OwnInv, AnalyzerForward, ringVars
    <2>2. PICK x \in Nat : /\ x = Head(scored) /\ k5 < x /\ x <= k6
                           /\ Within(Tail(scored), x, k6)
                           /\ Within(Tail(scored), k5, k6)
      <3>1. Within(scored, k5, k6)
        BY <1>1, Zenon DEF Laid
      <3> QED BY <2>1, <3>1, WithinTail
    <2>3. CASE ChanSend(x)
      <3>1. k4 <= k5 /\ Within(chan, k4, k5)
        BY <1>1, Zenon DEF Laid
      <3>2. chan' = Append(chan, x)
        BY <2>3 DEF ChanSend
      <3>3. Within(chan', k4, x) /\ k4 <= x
        BY <2>2, <3>1, <3>2, WithinAppend
      <3>4. toSend = <<>>
        BY <1>4, Sizes DEF TypeInv, OwnInv, Handover, AnalyzerForward
      <3>5. Laid(k1, k2, k3, k4, x, k6)'
        BY <1>1, <1>2, <2>1, <2>2, <3>3, <3>4, WithinEmpty, Zenon DEF Laid
      <3> QED BY <2>2, <3>5, Zenon DEF OrderInv
    <2>4. CASE UNCHANGED chan
      <3>1. Laid(k1, k2, k3, k4, k5, k6)'
        BY <1>1, <1>2, <2>1, <2>2, <2>4, Zenon DEF Laid
      <3> QED BY <3>1, Zenon DEF OrderInv
    <2> QED BY <1>4, <2>2, <2>3, <2>4 DEF AnalyzerForward, streamVars
  <1>5. ASSUME NEW taken \in Seq(Nat), buf' \in Seq(Nat), buf = taken \o buf',
               scored' = taken, UNCHANGED chan, ~TestSend
        PROVE  OrderInv'
    <2>1. k6 <= produced /\ Within(taken \o buf', k6, produced)
      BY <1>1, <1>5, Zenon DEF Laid
    <2>2. PICK m \in Nat : k6 <= m /\ m <= produced /\ Within(taken, k6, m)
                           /\ Within(buf', m, produced)
      BY <1>2, <1>5, <2>1, WithinCut
    <2>3. k5 <= k6 /\ k6 <= k6 /\ k5 <= m
      BY <1>1, <2>2 DEF Laid
    <2>4. Within(taken, k5, m)
      BY <2>2, <2>3, WithinWider
    <2>5. Laid(k1, k2, k3, k4, k5, m)'
      BY <1>1, <1>2, <1>5, <2>2, <2>3, <2>4, Zenon DEF Laid
    <2> QED BY <2>2, <2>5, Zenon DEF OrderInv
  <1>6. CASE AnalyzerDrain
    <2>1. ~TestSend /\ UNCHANGED chan
      BY <1>6 DEF AnalyzerDrain, Handover, streamVars
    <2>2. scored' \in Seq(Nat) /\ buf' \in Seq(Nat) /\ buf = scored' \o buf'
      BY <1>6, DrainFacts DEF AnalyzerDrain, TypeInv
    <2> QED BY <1>5, <2>1, <2>2
  <1>7. CASE AnalyzerPop /\ Ring!PopSome("analyzer") /\ scored' = <<Head(buf)>>
    <2>1. ~TestSend /\ UNCHANGED chan
      BY <1>7 DEF AnalyzerPop, Handover, streamVars
    <2>2. buf \in Seq(Nat) /\ buf # <<>> /\ buf' = Tail(buf)
      BY <1>7 DEF Ring!PopSome, TypeInv, RingInv, Ring!RingTypeOK
    <2>3. \A s \in Seq(Nat) : s # <<>> =>
             <<Head(s)>> \in Seq(Nat) /\ Tail(s) \in Seq(Nat) /\ s = <<Head(s)>> \o Tail(s)
      OBVIOUS
    <2> QED BY <1>5, <1>7, <2>1, <2>2, <2>3
  <1> QED
    BY <1>3, <1>4, <1>6, <1>7
       DEF AnalyzerStep, AnalyzerPop, AnalyzerSpurious, analyzerVars, streamVars, Ring!PopNone,
           Ring!PopWait, Ring!SpuriousWakeup

\* The test sender sends what is newer than everything in the channel.
LEMMA OrderTester ==
    ASSUME TypeInv, Handover, OrderInv, TesterStep
    PROVE  OrderInv'
  <1>1. PICK k1, k2, k3, k4, k5, k6 \in Nat : Laid(k1, k2, k3, k4, k5, k6)
    BY Zenon DEF OrderInv
  <1>2. UNCHANGED <<delivered, batchChan, sending, pending, scored, buf>>
    BY DEF TesterStep, TesterGenerate, TesterSend, TesterTickDone, TesterWake,
           TesterCancelled, OnlyTester, ringVars, analyzerVars, ChanSend, streamVars
  <1>3. scored = <<>> /\ buf = <<>> /\ produced \in Nat /\ toSend \in Seq(Nat)
    BY DEF TesterStep, TesterGenerate, TesterSend, TesterTickDone, TesterWake,
           TesterCancelled, TypeInv, OwnInv, Handover
  <1>4. k5 <= k6 /\ k6 <= produced /\ k5 <= produced /\ Within(toSend, k5, produced)
    BY <1>1, <1>3 DEF Laid
  <1>5. CASE toSend' \in {toSend, <<>>} /\ UNCHANGED <<chan, produced>>
    <2>1. Within(toSend', k5, produced')
      BY <1>4, <1>5, WithinEmpty, Zenon
    <2>2. Laid(k1, k2, k3, k4, k5, k6)'
      BY <1>1, <1>2, <1>5, <2>1, Zenon DEF Laid
    <2> QED BY <2>2, Zenon DEF OrderInv
  <1>6. CASE TesterSend /\ ChanSend(Head(toSend)) /\ toSend' = Tail(toSend)
    <2>1. toSend # <<>> /\ UNCHANGED produced
      BY <1>6 DEF TesterSend
    <2>2. PICK x \in Nat : /\ x = Head(toSend) /\ k5 < x /\ x <= produced
                           /\ Within(Tail(toSend), x, produced)
      BY <1>3, <1>4, <2>1, WithinTail
    <2>3. k4 <= k5 /\ Within(chan, k4, k5)
      BY <1>1, Zenon DEF Laid
    <2>4. chan' = Append(chan, x)
      BY <1>6, <2>2 DEF ChanSend
    <2>5. Within(chan', k4, x) /\ k4 <= x
      BY <2>2, <2>3, <2>4, WithinAppend
    <2>6. PICK k \in Nat : k = produced' /\ x <= k /\ k <= produced'
      BY <1>3, <2>1, <2>2
    <2>7. Within(toSend', x, produced')
      BY <1>6, <2>1, <2>2, Zenon
    <2>8. Laid(k1, k2, k3, k4, x, k)'
      BY <1>1, <1>2, <1>3, <2>2, <2>5, <2>6, <2>7, WithinEmpty, Zenon DEF Laid
    <2> QED BY <2>8, Zenon DEF OrderInv
  <1>7. CASE TesterGenerate /\ ~(produced >= MaxPackets)
    <2> DEFINE s == [i \in 1 .. PerTick |-> produced + i]
    <2>1. toSend' = s /\ produced' = produced + PerTick /\ UNCHANGED chan
      BY <1>7 DEF TesterGenerate, streamVars
    <2>2. PerTick \in Nat /\ produced + PerTick \in Nat /\ k6 <= produced + PerTick
      BY <1>3, <1>4, Sizes
    <2>3. s \in Seq(Nat) /\ Len(s) = PerTick /\ \A i \in 1 .. PerTick : s[i] = produced + i
      BY <1>3, TickPackets
    <2> HIDE DEF s
    <2>4. Within(s, k5, produced + PerTick)
      BY <1>3, <1>4, <2>2, <2>3 DEF Within
    <2>5. Laid(k1, k2, k3, k4, k5, k6)'
      BY <1>1, <1>2, <1>3, <2>1, <2>2, <2>4, WithinEmpty, Zenon DEF Laid
    <2> QED BY <2>5, Zenon DEF OrderInv
  <1> QED
    BY <1>5, <1>6, <1>7 DEF TesterStep, TesterGenerate, TesterSend, TesterTickDone, TesterWake,
       TesterCancelled, streamVars

\* The batch the transport takes lies between what has arrived and what has not.
LEMMA PullCut ==
    ASSUME TypeInv, NetPull, NEW k1 \in Nat, NEW k2 \in Nat, k1 <= k2,
           Within(AllEvents(batchChan), k1, k2)
    PROVE  LET h == Head(batchChan).events
           IN  /\ h \in Seq(Nat)
               /\ AllEvents(delivered') = AllEvents(delivered) \o h
               /\ \E m \in Nat : /\ k1 <= m /\ m <= k2 /\ Within(h, k1, m)
                                 /\ Within(AllEvents(batchChan'), m, k2)
  <1> DEFINE h == Head(batchChan).events
  <1>1. /\ delivered' = Append(delivered, Head(batchChan)) /\ batchChan' = Tail(batchChan)
        /\ batchChan # <<>>
    BY DEF NetPull
  <1>2. batchChan \in Seq(Batch) /\ delivered \in Seq(Batch)
    BY DEF TypeInv, StreamInv, StreamTypeOK
  <1>3. Head(batchChan) \in Batch /\ Tail(batchChan) \in Seq(Batch)
    BY <1>1, <1>2
  <1>4. h \in Seq(Nat) /\ AllEvents(Tail(batchChan)) \in Seq(Nat)
    BY <1>3, CountIsLength DEF Batch
  <1>5. AllEvents(batchChan) = h \o AllEvents(batchChan')
    BY <1>1, <1>2, AllEventsHead, Zenon
  <1>6. AllEvents(delivered') = AllEvents(delivered) \o h
    BY <1>1, <1>2, <1>3, AllEventsAppend, Zenon
  <1>7. \E m \in Nat : k1 <= m /\ m <= k2 /\ Within(h, k1, m)
                       /\ Within(AllEvents(Tail(batchChan)), m, k2)
    <2>1. Within(h \o AllEvents(Tail(batchChan)), k1, k2)
      BY <1>1, <1>5, Zenon
    <2> HIDE DEF h
    <2> QED BY <1>4, <2>1, WithinCut
  <1> QED BY <1>1, <1>4, <1>6, <1>7, Zenon

\* The stream task moves packets on in their order.
LEMMA OrderStream ==
    ASSUME TypeInv, OrderInv, StreamStep
    PROVE  OrderInv'
  <1>1. PICK k1, k2, k3, k4, k5, k6 \in Nat : Laid(k1, k2, k3, k4, k5, k6)
    BY Zenon DEF OrderInv
  <1>2. UNCHANGED <<produced, scored, toSend, buf>>
    BY DEF StreamStep, StreamOpen, StreamCancel, StreamRecv, StreamTick, StreamSend, Pull,
           Break, OnlyStream, ringVars, captureVars, analyzerVars, testerVars
  <1>3. /\ Within(AllEvents(delivered), 0, k1) /\ Within(AllEvents(batchChan), k1, k2)
        /\ Within(sending.events, k2, k3) /\ Within(pending, k3, k4) /\ Within(chan, k4, k5)
    BY <1>1, Zenon DEF Laid
  <1>4. 0 <= k1 /\ k1 <= k2 /\ k2 <= k3 /\ k3 <= k4 /\ k4 <= k5 /\ k2 <= k4 /\ k4 <= k4
        /\ k3 <= k3 /\ k1 <= k3
    BY <1>1 DEF Laid
  <1>5. CASE UNCHANGED <<delivered, batchChan, sending, pending>> /\ chan' \in {chan, <<>>}
    <2>1. Laid(k1, k2, k3, k4, k5, k6)'
      BY <1>1, <1>2, <1>5, WithinEmpty, Zenon DEF Laid
    <2> QED BY <2>1, Zenon DEF OrderInv
  <1>6. CASE OpenOk \/ OpenErr
    BY <1>5, <1>6 DEF OpenOk, OpenErr
  <1>7. CASE StreamCancelled \/ RecvClosed(Senders) \/ Tick
    <2>1. CASE pending = <<>>
      BY <1>5, <1>7, <2>1 DEF StreamCancelled, RecvClosed, Tick, Return
    <2>2. CASE pending # <<>>
      <3>1. /\ sending' = [seq |-> seq, events |-> pending] /\ pending' = <<>>
            /\ UNCHANGED <<delivered, batchChan, chan>>
        BY <1>7, <2>2 DEF StreamCancelled, RecvClosed, Tick, BeginFlush, BatchOf
      <3>2. sending'.events = pending
        BY <3>1
      <3>3. Within(pending, k2, k4)
        BY <1>3, <1>4, WithinWider
      <3>4. Laid(k1, k2, k4, k4, k5, k6)'
        BY <1>1, <1>2, <1>4, <3>1, <3>2, <3>3, WithinEmpty, Zenon DEF Laid
      <3> QED BY <3>4, Zenon DEF OrderInv
    <2> QED BY <2>1, <2>2
  <1>8. CASE Recv
    <2>1. chan # <<>> /\ chan' = Tail(chan) /\ UNCHANGED <<delivered, batchChan>>
      BY <1>8 DEF Recv
    <2>2. PICK x \in Nat : /\ x = Head(chan) /\ k4 < x /\ x <= k5
                           /\ Within(Tail(chan), x, k5) /\ Within(Tail(chan), k4, k5)
      BY <1>3, <2>1, WithinTail
    <2>3. Within(Append(pending, x), k3, x) /\ k3 <= x /\ x <= x /\ k2 <= x
      BY <1>3, <1>4, <2>2, WithinAppend
    <2>4. Within(Append(pending, x), k2, x)
      BY <1>4, <2>3, WithinWider
    <2>5. CASE parse_packet(x) /\ BatchFull(Append(pending, x))
      <3>1. sending' = [seq |-> seq, events |-> Append(pending, x)] /\ pending' = <<>>
        BY <1>8, <2>2, <2>5, Zenon DEF Recv, BeginFlush, BatchOf
      <3>2. sending'.events = Append(pending, x)
        <4> DEFINE e == Append(pending, x)
        <4> HIDE DEF e
        <4>1. sending' = [seq |-> seq, events |-> e]
          BY <3>1 DEF e
        <4> QED BY <4>1 DEF e
      <3>3. Laid(k1, k2, x, x, k5, k6)'
        BY <1>1, <1>2, <2>1, <2>2, <2>3, <2>4, <3>1, <3>2, WithinEmpty, Zenon DEF Laid
      <3> QED BY <3>3, Zenon DEF OrderInv
    <2>6. CASE parse_packet(x) /\ ~BatchFull(Append(pending, x))
      <3>1. pending' = Append(pending, x) /\ sending' = sending
        BY <1>8, <2>2, <2>6, Zenon DEF Recv
      <3>2. Laid(k1, k2, k3, x, k5, k6)'
        BY <1>1, <1>2, <2>1, <2>2, <2>3, <3>1, Zenon DEF Laid
      <3> QED BY <3>2, Zenon DEF OrderInv
    <2>7. CASE ~parse_packet(x)
      <3>1. pending' = pending /\ sending' = sending
        BY <1>8, <2>2, <2>7, Zenon DEF Recv
      <3>2. Laid(k1, k2, k3, k4, k5, k6)'
        BY <1>1, <1>2, <2>1, <2>2, <3>1, Zenon DEF Laid
      <3> QED BY <3>2, Zenon DEF OrderInv
    <2> QED BY <2>5, <2>6, <2>7
  <1>9. CASE SendOk \/ SendErr
    <2>1. /\ UNCHANGED <<delivered, pending>> /\ sending' = NoBatch /\ stream = "send"
      BY <1>9, Zenon DEF SendOk, SendErr, EndFlush
    <2>2. sending'.events = <<>>
      BY <2>1, Empty
    <2>3. Within(chan', k4, k5)
      <3>1. chan' = chan \/ chan' = <<>>
        BY <1>9, Zenon DEF SendOk, SendErr, EndFlush, Return
      <3> QED BY <1>3, <3>1, WithinEmpty, Zenon
    <2>4. Within(AllEvents(batchChan'), k1, k3)
      <3>1. CASE SendOk
        <4>1. sending \in Batch /\ batchChan \in Seq(Batch)
          BY <2>1, SendingIsABatch DEF TypeInv, StreamInv, StreamTypeOK
        <4>2. AllEvents(batchChan') = AllEvents(batchChan) \o sending.events
          BY <3>1, <4>1, AllEventsAppend, Zenon DEF SendOk
        <4>3. Within(AllEvents(batchChan) \o sending.events, k1, k3)
          BY <1>3, <1>4, WithinJoin
        <4> QED BY <4>2, <4>3, Zenon
      <3>2. CASE SendErr
        <4>1. batchChan' = batchChan
          BY <3>2 DEF SendErr
        <4>2. Within(AllEvents(batchChan), k1, k3)
          BY <1>3, <1>4, WithinWider
        <4> QED BY <4>1, <4>2, Zenon
      <3> QED BY <1>9, <3>1, <3>2
    <2>5. Laid(k1, k3, k3, k4, k5, k6)'
      BY <1>1, <1>2, <1>4, <2>1, <2>2, <2>3, <2>4, WithinEmpty, Zenon DEF Laid
    <2> QED BY <2>5, Zenon DEF OrderInv
  <1>10. CASE NetPull
    <2> DEFINE h == Head(batchChan).events
    <2>1. UNCHANGED <<sending, pending, chan>>
      BY <1>10 DEF NetPull
    <2>2. AllEvents(delivered') = AllEvents(delivered) \o h
      BY <1>3, <1>4, <1>10, PullCut
    <2>3. PICK m \in Nat : /\ k1 <= m /\ m <= k2 /\ Within(h, k1, m)
                           /\ Within(AllEvents(batchChan'), m, k2)
      BY <1>3, <1>4, <1>10, PullCut
    <2>4. Within(AllEvents(delivered) \o h, 0, m) /\ 0 <= m
      <3> HIDE DEF h
      <3> QED BY <1>3, <1>4, <2>3, WithinJoin
    <2>5. Laid(m, k2, k3, k4, k5, k6)'
      BY <1>1, <1>2, <2>1, <2>2, <2>3, <2>4, Zenon DEF Laid
    <2> QED BY <2>5, Zenon DEF OrderInv
  <1>11. CASE NetBreak
    <2>1. batchChan' = <<>> /\ UNCHANGED <<delivered, sending, pending, chan>>
      BY <1>11 DEF NetBreak
    <2>2. Laid(k1, k2, k3, k4, k5, k6)'
      BY <1>1, <1>2, <2>1, WithinEmpty, AllEventsEmpty, Zenon DEF Laid
    <2> QED BY <2>2, Zenon DEF OrderInv
  <1> QED
    BY <1>6, <1>7, <1>8, <1>9, <1>10, <1>11
       DEF StreamStep, StreamOpen, StreamCancel, StreamRecv, StreamTick, StreamSend, Pull, Break

\* Every step keeps the order over all queues.
LEMMA OrderInvNext == TypeInv /\ Handover /\ OrderInv /\ [Next]_vars => OrderInv'
  <1> SUFFICES ASSUME TypeInv, Handover, OrderInv, [Next]_vars PROVE OrderInv'
    OBVIOUS
  <1>1. CASE UNCHANGED <<streamVars, ringVars, captureVars, analyzerVars, testerVars>>
    <2>1. PICK k1, k2, k3, k4, k5, k6 \in Nat : Laid(k1, k2, k3, k4, k5, k6)
      BY Zenon DEF OrderInv
    <2>2. Laid(k1, k2, k3, k4, k5, k6)'
      BY <1>1, <2>1, Zenon DEF streamVars, ringVars, captureVars, analyzerVars, testerVars, Laid
    <2> QED BY <2>2, Zenon DEF OrderInv
  <1>2. UNCHANGED vars => UNCHANGED <<streamVars, ringVars, captureVars, analyzerVars, testerVars>>
    BY DEF vars
  <1> QED BY <1>1, <1>2, NextCases, MainCases, OrderCapture, OrderAnalyzer, OrderTester,
             OrderStream

\* A batch that the transport takes is an arrival of the abstract feed.
LEMMA PullArrives ==
    ASSUME TypeInv, BatchInv, OrderInv, NetPull, UNCHANGED produced
    PROVE  Feed!Arrive
  <1> DEFINE h == Head(batchChan).events
             n == Len(h)
             a == AllEvents(delivered)
             top == IF a = <<>> THEN 0 ELSE a[Len(a)]
  <1>1. PICK k1, k2, k3, k4, k5, k6 \in Nat : Laid(k1, k2, k3, k4, k5, k6)
    BY Zenon DEF OrderInv
  <1>2. Within(a, 0, k1) /\ Within(AllEvents(batchChan), k1, k2)
    BY <1>1, Zenon DEF Laid
  <1>3. k1 <= k2 /\ k2 <= produced /\ produced \in Nat
    BY <1>1 DEF Laid, TypeInv, OwnInv
  <1>4. h \in Seq(Nat) /\ AllEvents(delivered') = a \o h
    BY <1>2, <1>3, PullCut
  <1>5. PICK m \in Nat : k1 <= m /\ m <= k2 /\ Within(h, k1, m)
    BY <1>2, <1>3, PullCut
  <1>6. n \in 1 .. LargestBatch
    <2>1. batchChan \in Seq(Batch) /\ batchChan # <<>>
      BY DEF NetPull, TypeInv, StreamInv, StreamTypeOK
    <2>2. Head(batchChan) = batchChan[1] /\ 1 \in 1 .. Len(batchChan)
      BY <2>1
    <2> QED BY <2>2, Zenon DEF BatchInv
  <1> HIDE DEF h, a
  <1>7. top \in Nat /\ top <= k1
    BY <1>2 DEF Within
  <1> HIDE DEF top
  <1>8. h \in [1 .. n -> top + 1 .. produced]
    <2>1. h \in [1 .. n -> Nat]
      BY <1>4
    <2>2. \A i \in 1 .. n : h[i] \in top + 1 .. produced
      BY <1>3, <1>4, <1>5, <1>7 DEF Within
    <2> QED BY <2>1, <2>2
  <1>9. \A i, j \in 1 .. n : i < j => h[i] < h[j]
    BY <1>5, Zenon DEF Within
  <1>10. Feed!Top = top
    BY DEF Feed!Top, Arrived, top, a
  <1>11. Arrived' = Arrived \o h
    BY <1>4, Zenon DEF Arrived, a
  <1> HIDE DEF n
  <1> QED
    BY <1>6, <1>8, <1>9, <1>10, <1>11, Zenon DEF Feed!Arrive, LargestBatch

\* Every other step makes packets or leaves both variables of the feed alone.
LEMMA OthersStutter ==
    ASSUME TypeInv, [Next]_vars, ~(NetPull /\ UNCHANGED produced)
    PROVE  UNCHANGED delivered /\ (UNCHANGED produced \/ (produced' \in Nat /\ produced' > produced))
  <1>1. UNCHANGED produced \/ (produced' \in Nat /\ produced' > produced)
    <2>1. produced \in Nat
      BY DEF TypeInv, OwnInv
    <2>2. CASE CaptureStep
      BY <2>1, <2>2, CaptureCases
    <2>3. CASE TesterStep
      BY <2>1, <2>3, Sizes DEF TesterStep, TesterGenerate, TesterSend, TesterTickDone, TesterWake,
           TesterCancelled
    <2>4. CASE AnalyzerStep \/ AnalyzerSpurious
      BY <2>4 DEF AnalyzerStep, AnalyzerDrain, AnalyzerPop, AnalyzerForward, AnalyzerSpurious,
           OnlyAnalyzer, captureVars
    <2>5. CASE StreamStep
      BY <2>5 DEF StreamStep, StreamOpen, StreamCancel, StreamRecv, StreamTick, StreamSend, Pull,
           Break, OnlyStream, captureVars
    <2>6. CASE MainStep \/ UNCHANGED vars
      BY <2>6, MainCases DEF captureVars, vars
    <2> QED BY <2>2, <2>3, <2>4, <2>5, <2>6, NextCases
  <1>2. UNCHANGED delivered
    <2>1. CASE CaptureStep \/ MainStep \/ UNCHANGED vars
      BY <2>1, CaptureCases, MainCases DEF streamVars, vars
    <2>2. CASE TesterStep
      BY <2>2 DEF TesterStep, TesterGenerate, TesterSend, TesterTickDone, TesterWake,
           TesterCancelled, ChanSend, streamVars
    <2>3. CASE AnalyzerStep \/ AnalyzerSpurious
      BY <2>3 DEF AnalyzerStep, AnalyzerDrain, AnalyzerPop, AnalyzerForward, AnalyzerSpurious,
           ChanSend, streamVars
    <2>4. CASE StreamStep
      <3>1. UNCHANGED produced
        BY <2>4 DEF StreamStep, StreamOpen, StreamCancel, StreamRecv, StreamTick, StreamSend, Pull,
             Break, OnlyStream, captureVars
      <3>2. CASE NetPull
        BY <3>1, <3>2
      <3>3. CASE ~NetPull
        BY <2>4, <3>3 DEF StreamStep, StreamOpen, StreamCancel, StreamRecv, StreamTick, StreamSend,
             Pull, Break, OpenOk, OpenErr, StreamCancelled, Recv, RecvClosed, Tick, SendOk,
             SendErr, NetBreak
      <3> QED BY <3>2, <3>3
    <2> QED BY <2>1, <2>2, <2>3, <2>4, NextCases
  <1> QED BY <1>1, <1>2

\* A step of the agent is a step of the ordered feed, or none.
LEMMA StepImplementsFeed ==
    TypeInv /\ BatchInv /\ OrderInv /\ [Next]_vars => [Feed!Next]_(Feed!feedVars)
  <1> SUFFICES ASSUME TypeInv, BatchInv, OrderInv, [Next]_vars
               PROVE  [Feed!Next]_(Feed!feedVars)
    OBVIOUS
  <1>1. CASE NetPull /\ UNCHANGED produced
    BY <1>1, PullArrives DEF Feed!Next
  <1>2. CASE ~(NetPull /\ UNCHANGED produced)
    <2>1. UNCHANGED Arrived
      BY <1>2, OthersStutter, Zenon DEF Arrived
    <2>2. CASE UNCHANGED produced
      BY <2>1, <2>2 DEF Feed!feedVars
    <2>3. CASE produced' \in Nat /\ produced' > produced
      BY <2>1, <2>3 DEF Feed!Next, Feed!Make
    <2> QED BY <1>2, <2>2, <2>3, OthersStutter
  <1> QED BY <1>1, <1>2

\* End to end the agent is an ordered, at-most-once, lossy feed: through the
\* ring buffer, the two channels and the batches, whatever is dropped on the
\* way and whenever the transport breaks, packets reach the backend in the
\* order the source made them, none twice, in batches of at most batch_size.
THEOREM AgentImplementsFeed == Spec => ImplementsOrderedFeed
  <1>1. Init => Feed!Init
    BY AllEventsEmpty, Zenon DEF Init, StreamInit, Feed!Init, Arrived
  <1>2. Spec => []OrderInv
    BY HandoverHolds, OrderInvInitially, OrderInvNext, AgentTypeInv, PTL DEF Spec
  <1> QED
    BY <1>1, <1>2, BatchInvHolds, AgentTypeInv, StepImplementsFeed, PTL
       DEF Spec, ImplementsOrderedFeed, Feed!Spec

=============================================================================
