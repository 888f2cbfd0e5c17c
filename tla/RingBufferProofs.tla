-------------------------- MODULE RingBufferProofs --------------------------
(***************************************************************************)
(* Proofs about RingBufferSystem, for any set of consumers, any capacity,  *)
(* any drain size and any number of pushes.                                *)
(***************************************************************************)
EXTENDS RingBufferSystem, FiniteSetTheorems, SequenceTheorems, TLAPS

\* The inductive invariant.  DrainedBeforeEnd needs nothing but the guards;
\* NoLostWakeup needs the types (waiting and notified are disjoint and
\* finite); TakenInOrder and the refinement need BufferIsNewest, which gives
\* the head of the buffer its number.
IInv ==
    /\ TypeOK
    /\ NoLostWakeup
    /\ CloseWakesAll
    /\ BufferIsNewest
    /\ Conservation
    /\ TakenInOrder
    /\ DrainedBeforeEnd

-----------------------------------------------------------------------------
\* What push does to a deque of naturals within its capacity: one longer
\* unless full, the old items shifted by one when full, the new one last.
LEMMA PushBackFacts ==
    ASSUME NEW item \in Nat, buf \in Seq(Nat), Len(buf) <= Cap
    PROVE  /\ PushBack(item) \in Seq(Nat)
           /\ Len(buf) = Cap => /\ Len(PushBack(item)) = Cap
                                /\ \A i \in 1 .. Cap - 1 :
                                      PushBack(item)[i] = buf[i + 1]
                                /\ PushBack(item)[Cap] = item
           /\ Len(buf) # Cap => /\ Len(PushBack(item)) = Len(buf) + 1
                                /\ \A i \in 1 .. Len(buf) :
                                      PushBack(item)[i] = buf[i]
                                /\ PushBack(item)[Len(buf) + 1] = item
  <1>1. CASE Len(buf) = Cap
    <2>1. buf # <<>>
      BY <1>1, CapAssumption
    <2>2. /\ Tail(buf) \in Seq(Nat)
          /\ Len(Tail(buf)) = Cap - 1
          /\ \A i \in 1 .. Cap - 1 : Tail(buf)[i] = buf[i + 1]
      BY <1>1, <2>1, CapAssumption
    <2>3. PushBack(item) = Append(Tail(buf), item)
      BY <1>1 DEF PushBack
    <2> QED
      BY <1>1, <2>2, <2>3, CapAssumption
  <1>2. CASE Len(buf) # Cap
    BY <1>2, CapAssumption DEF PushBack
  <1> QED
    BY <1>1, <1>2

\* Waking a sleeping consumer adds one to the number of woken ones.
LEMMA WakeOneCount ==
    ASSUME NEW c \in waiting, waiting \subseteq Consumers,
           notified \subseteq Consumers, waiting \cap notified = {}
    PROVE  Cardinality(notified \cup {c}) = Cardinality(notified) + 1
  <1>1. IsFiniteSet(notified)
    BY ConsumersAssumption, FS_Subset
  <1>2. c \notin notified
    OBVIOUS
  <1> QED
    BY <1>1, <1>2, FS_AddElement

\* A woken consumer that goes its way lowers that number by at most one.
LEMMA LeaveCount ==
    ASSUME NEW c, notified \subseteq Consumers
    PROVE  /\ Cardinality(notified \ {c}) \in Nat
           /\ Cardinality(notified) \in Nat
           /\ Cardinality(notified \ {c}) >= Cardinality(notified) - 1
  <1>1. IsFiniteSet(notified)
    BY ConsumersAssumption, FS_Subset
  <1>2. Cardinality(notified) \in Nat
    BY <1>1, FS_CardinalityType
  <1>3. /\ IsFiniteSet(notified \ {c})
        /\ Cardinality(notified \ {c}) =
              IF c \in notified THEN Cardinality(notified) - 1
                                ELSE Cardinality(notified)
    BY <1>1, FS_RemoveElement
  <1>4. Cardinality(notified \ {c}) \in Nat
    BY <1>3, FS_CardinalityType
  <1> QED
    BY <1>2, <1>3, <1>4

\* What the removal of the k oldest items leaves and yields.
LEMMA RemoveFrontFacts ==
    ASSUME NEW k \in Nat, buf \in Seq(Nat), k <= Len(buf)
    PROVE  /\ SubSeq(buf, k + 1, Len(buf)) \in Seq(Nat)
           /\ Len(SubSeq(buf, k + 1, Len(buf))) = Len(buf) - k
           /\ \A i \in 1 .. Len(buf) - k :
                 SubSeq(buf, k + 1, Len(buf))[i] = buf[i + k]
           /\ SubSeq(buf, 1, k) \in Seq(Nat)
           /\ Len(SubSeq(buf, 1, k)) = k
           /\ \A i \in 1 .. k : SubSeq(buf, 1, k)[i] = buf[i]
  <1>1. \A i \in k + 1 .. Len(buf) : buf[i] \in Nat
    OBVIOUS
  <1>2. \A i \in 1 .. k : buf[i] \in Nat
    OBVIOUS
  <1>3. /\ SubSeq(buf, k + 1, Len(buf)) \in Seq(Nat)
        /\ Len(SubSeq(buf, k + 1, Len(buf))) =
              IF k + 1 <= Len(buf) THEN Len(buf) - (k + 1) + 1 ELSE 0
        /\ \A i \in 1 .. Len(buf) - (k + 1) + 1 :
              SubSeq(buf, k + 1, Len(buf))[i] = buf[k + 1 + i - 1]
    <2> k + 1 \in Int /\ Len(buf) \in Int
      OBVIOUS
    <2> QED
      BY <1>1, SubSeqProperties
  <1>4. /\ SubSeq(buf, 1, k) \in Seq(Nat)
        /\ Len(SubSeq(buf, 1, k)) = IF 1 <= k THEN k - 1 + 1 ELSE 0
        /\ \A i \in 1 .. k - 1 + 1 : SubSeq(buf, 1, k)[i] = buf[1 + i - 1]
    BY <1>2, SubSeqProperties
  <1> QED
    BY <1>3, <1>4

\* A step that moves the k oldest items from the buffer to the history keeps
\* the three facts about the data.
LEMMA TakePreservesData ==
    ASSUME TypeOK, BufferIsNewest, Conservation, TakenInOrder,
           NEW k \in Nat, k <= Len(buf),
           buf' \in Seq(Nat), Len(buf') = Len(buf) - k,
           \A i \in 1 .. Len(buf) - k : buf'[i] = buf[i + k],
           taken' \in Seq(Nat), Len(taken') = Len(taken) + k,
           \A i \in 1 .. Len(taken) : taken'[i] = taken[i],
           \A i \in 1 .. k : taken'[Len(taken) + i] = buf[i],
           pushed' = pushed, dropped' = dropped
    PROVE  BufferIsNewest' /\ Conservation' /\ TakenInOrder'
  <1> USE DEF TypeOK, RingTypeOK
  <1>1. BufferIsNewest'
    BY DEF BufferIsNewest
  <1>2. Conservation'
    BY DEF Conservation
  <1>3. \A i \in 1 .. Len(taken') : i > Len(taken) => 
            taken'[i] = pushed - Len(buf) + i - Len(taken)
    <2> SUFFICES ASSUME NEW i \in 1 .. Len(taken'), i > Len(taken)
                 PROVE  taken'[i] = pushed - Len(buf) + i - Len(taken)
      OBVIOUS
    <2> DEFINE n == i - Len(taken)
    <2>1. n \in 1 .. k /\ n \in 1 .. Len(buf) /\ i = Len(taken) + n
      OBVIOUS
    <2>2. taken'[Len(taken) + n] = buf[n]
      BY <2>1
    <2>3. buf[n] = pushed - Len(buf) + n
      BY <2>1 DEF BufferIsNewest
    <2> QED
      BY <2>1, <2>2, <2>3
  <1>4. \A i \in 1 .. Len(taken') : i <= Len(taken) =>
            taken'[i] = taken[i] /\ taken'[i] <= pushed - Len(buf)
    BY DEF TakenInOrder
  <1>5. TakenInOrder'
    <2>1. \A i \in 1 .. Len(taken') : taken'[i] <= pushed' - Len(buf')
      <3> SUFFICES ASSUME NEW i \in 1 .. Len(taken')
                   PROVE  taken'[i] <= pushed - Len(buf) + k
        OBVIOUS
      <3>1. CASE i > Len(taken)
        <4>1. taken'[i] = pushed - Len(buf) + i - Len(taken)
          BY <1>3, <3>1
        <4> QED
          BY <4>1
      <3>2. CASE i <= Len(taken)
        <4>1. taken'[i] <= pushed - Len(buf) /\ taken'[i] \in Nat
          BY <1>4, <3>2
        <4> QED
          BY <4>1
      <3> QED
        BY <3>1, <3>2
    <2>2. ASSUME NEW i \in 1 .. Len(taken'), NEW j \in 1 .. Len(taken'), i < j
          PROVE  taken'[i] < taken'[j]
      <3>1. CASE j <= Len(taken)
        <4>1. i \in 1 .. Len(taken) /\ j \in 1 .. Len(taken)
          BY <2>2, <3>1
        <4>2. taken[i] < taken[j]
          BY <2>2, <4>1 DEF TakenInOrder
        <4> QED
          BY <4>1, <4>2
      <3>2. CASE j > Len(taken)
        <4>1. taken'[j] = pushed - Len(buf) + j - Len(taken)
          BY <3>2, <1>3
        <4>2. CASE i <= Len(taken)
          <5>1. taken'[i] <= pushed - Len(buf) /\ taken'[i] \in Nat
            BY <4>2, <1>4
          <5> QED
            BY <3>2, <4>1, <5>1
        <4>3. CASE i > Len(taken)
          BY <2>2, <4>1, <4>3, <1>3
        <4> QED
          BY <4>2, <4>3
      <3> QED
        BY <3>1, <3>2
    <2> QED
      BY <2>1, <2>2 DEF TakenInOrder
  <1> QED
    BY <1>1, <1>2, <1>5

-----------------------------------------------------------------------------
\* The initial states satisfy the invariant.
LEMMA InitIInv == Init => IInv
  <1> SUFFICES ASSUME Init PROVE IInv
    OBVIOUS
  <1> USE DEF Init, new
  <1>1. TypeOK
    <2>1. Len(buf) = 0 /\ buf \in Seq(Nat) /\ taken \in Seq(Nat)
      OBVIOUS
    <2>2. closed \in BOOLEAN /\ closing \in BOOLEAN
      OBVIOUS
    <2>3. /\ waiting \subseteq Consumers /\ notified \subseteq Consumers
          /\ waiting \cap notified = {} /\ ended \subseteq Consumers
      OBVIOUS
    <2>4. Len(buf) <= Cap /\ dropped \in Nat /\ pushed \in Nat
      BY <2>1, CapAssumption
    <2> QED
      BY <2>1, <2>2, <2>3, <2>4 DEF TypeOK, RingTypeOK
  <1> QED
    BY <1>1 DEF IInv, NoLostWakeup, CloseWakesAll, BufferIsNewest,
                Conservation, TakenInOrder, DrainedBeforeEnd

\* push keeps the invariant: the evicted item is the oldest, the drop is
\* counted, and one sleeping consumer, if any, is woken.
LEMMA PushIInv == IInv /\ ProducerPush => IInv'
  <1> SUFFICES ASSUME IInv, ProducerPush PROVE IInv'
    OBVIOUS
  <1> USE DEF IInv, TypeOK, RingTypeOK
  <1>a. /\ buf' = PushBack(pushed + 1)
        /\ dropped' = IF Len(buf) = Cap THEN dropped + 1 ELSE dropped
        /\ NotifyOne
        /\ ~closed
        /\ pushed' = pushed + 1
        /\ UNCHANGED <<closed, closing, taken, ended>>
    BY DEF ProducerPush, Push
  <1>b. /\ buf' \in Seq(Nat)
        /\ Len(buf) = Cap => /\ Len(buf') = Cap
                             /\ \A i \in 1 .. Cap - 1 : buf'[i] = buf[i + 1]
                             /\ buf'[Cap] = pushed + 1
        /\ Len(buf) # Cap => /\ Len(buf') = Len(buf) + 1
                             /\ \A i \in 1 .. Len(buf) : buf'[i] = buf[i]
                             /\ buf'[Len(buf) + 1] = pushed + 1
    <2>1. pushed + 1 \in Nat
      OBVIOUS
    <2> QED
      BY <1>a, <2>1, PushBackFacts
  <1>1. TypeOK'
    <2>1. /\ waiting' \subseteq Consumers
          /\ notified' \subseteq Consumers
          /\ waiting' \cap notified' = {}
      BY <1>a DEF NotifyOne
    <2> QED
      BY <1>a, <1>b, <2>1, CapAssumption
  <1>2. NoLostWakeup'
    <2>1. CASE waiting = {}
      BY <1>a, <2>1 DEF NotifyOne, NoLostWakeup
    <2>2. CASE waiting # {}
      <3>1. PICK c \in waiting : notified' = notified \cup {c}
        BY <1>a, <2>2 DEF NotifyOne
      <3>2. Cardinality(notified') = Cardinality(notified) + 1
        BY <3>1, WakeOneCount
      <3>3. Len(buf) <= Cardinality(notified)
        BY <2>2 DEF NoLostWakeup
      <3>4. Cardinality(notified) \in Nat
        BY LeaveCount
      <3>5. Len(buf') <= Len(buf) + 1
        BY <1>b, CapAssumption
      <3> QED
        BY <1>b, <3>2, <3>3, <3>4, <3>5 DEF NoLostWakeup
    <2> QED
      BY <2>1, <2>2
  <1>3. CloseWakesAll'
    BY <1>a DEF CloseWakesAll
  <1>4. BufferIsNewest'
    <2>1. CASE Len(buf) = Cap
      <3> SUFFICES ASSUME NEW i \in 1 .. Cap
                   PROVE  buf'[i] = pushed + 1 - Cap + i
        BY <1>a, <1>b, <2>1 DEF BufferIsNewest
      <3>1. CASE i = Cap
        BY <1>b, <2>1, <3>1, CapAssumption
      <3>2. CASE i < Cap
        <4>1. i \in 1 .. Cap - 1 /\ i + 1 \in 1 .. Len(buf)
          BY <2>1, <3>2, CapAssumption
        <4>2. buf'[i] = buf[i + 1]
          BY <1>b, <2>1, <4>1
        <4>3. buf[i + 1] = pushed - Len(buf) + (i + 1)
          BY <4>1 DEF BufferIsNewest
        <4> QED
          BY <2>1, <4>2, <4>3, CapAssumption
      <3> QED
        BY <3>1, <3>2, CapAssumption
    <2>2. CASE Len(buf) # Cap
      <3> SUFFICES ASSUME NEW i \in 1 .. Len(buf) + 1
                   PROVE  buf'[i] = pushed + 1 - (Len(buf) + 1) + i
        BY <1>a, <1>b, <2>2 DEF BufferIsNewest
      <3>1. CASE i = Len(buf) + 1
        BY <1>b, <2>2, <3>1
      <3>2. CASE i # Len(buf) + 1
        <4>1. i \in 1 .. Len(buf)
          BY <3>2
        <4>2. buf'[i] = buf[i]
          BY <1>b, <2>2, <4>1
        <4>3. buf[i] = pushed - Len(buf) + i
          BY <4>1 DEF BufferIsNewest
        <4> QED
          BY <4>2, <4>3
      <3> QED
        BY <3>1, <3>2
    <2> QED
      BY <2>1, <2>2
  <1>5. Conservation'
    <2>1. /\ pushed = Len(taken) + dropped + Len(buf)
          /\ Len(taken) \in Nat /\ Len(buf) \in Nat /\ dropped \in Nat
      BY DEF Conservation
    <2>a. Len(taken') = Len(taken) /\ pushed' = pushed + 1
      BY <1>a
    <2>2. CASE Len(buf) = Cap
      <3>1. Len(buf') = Len(buf) /\ dropped' = dropped + 1
        BY <1>a, <1>b, <2>2
      <3> QED
        BY <2>1, <2>a, <3>1 DEF Conservation
    <2>3. CASE Len(buf) # Cap
      <3>1. Len(buf') = Len(buf) + 1 /\ dropped' = dropped
        BY <1>a, <1>b, <2>3
      <3> QED
        BY <2>1, <2>a, <3>1 DEF Conservation
    <2> QED
      BY <2>2, <2>3
  <1>6. TakenInOrder'
    <2>1. pushed' - Len(buf') >= pushed - Len(buf)
      BY <1>a, <1>b, CapAssumption
    <2>2. \A i \in 1 .. Len(taken) : taken[i] <= pushed' - Len(buf')
      <3> SUFFICES ASSUME NEW i \in 1 .. Len(taken)
                   PROVE  taken[i] <= pushed' - Len(buf')
        OBVIOUS
      <3>1. taken[i] \in Nat /\ taken[i] <= pushed - Len(buf)
        BY DEF TakenInOrder
      <3> QED
        BY <1>a, <1>b, <2>1, <3>1
    <2> QED
      BY <1>a, <2>2 DEF TakenInOrder
  <1>7. DrainedBeforeEnd'
    BY <1>a DEF DrainedBeforeEnd
  <1> QED
    BY <1>1, <1>2, <1>3, <1>4, <1>5, <1>6, <1>7

\* Removing the head and handing it out is a TakePreservesData step, and the
\* consumer that leaves accounts for the item it takes.
LEMMA HeadTakenIInv ==
    ASSUME IInv, buf # <<>>, buf' = Tail(buf),
           taken' = Append(taken, Head(buf)),
           NEW c \in Consumers, notified' = notified \ {c},
           UNCHANGED <<dropped, closed, closing, waiting, pushed, ended>>
    PROVE  IInv'
  <1> USE DEF IInv, TypeOK, RingTypeOK
  <1>1. /\ buf' \in Seq(Nat)
        /\ Len(buf') = Len(buf) - 1
        /\ \A i \in 1 .. Len(buf) - 1 : buf'[i] = buf[i + 1]
        /\ Head(buf) = buf[1] /\ Head(buf) \in Nat
        /\ 1 <= Len(buf)
    BY HeadTailProperties
  <1>2. /\ taken' \in Seq(Nat)
        /\ Len(taken') = Len(taken) + 1
        /\ \A i \in 1 .. Len(taken) : taken'[i] = taken[i]
        /\ \A i \in 1 .. 1 : taken'[Len(taken) + i] = buf[i]
    BY <1>1, AppendProperties
  <1>3. BufferIsNewest' /\ Conservation' /\ TakenInOrder'
    BY <1>1, <1>2, TakePreservesData, 1 \in Nat
  <1>4. TypeOK'
    BY <1>1, <1>2, CapAssumption
  <1>5. NoLostWakeup'
    <2>1. /\ Cardinality(notified) \in Nat
          /\ Cardinality(notified') \in Nat
          /\ Cardinality(notified') >= Cardinality(notified) - 1
      BY LeaveCount
    <2> QED
      BY <1>1, <2>1 DEF NoLostWakeup
  <1>6. CloseWakesAll' /\ DrainedBeforeEnd'
    BY DEF CloseWakesAll, DrainedBeforeEnd
  <1> QED
    BY <1>3, <1>4, <1>5, <1>6

\* One turn of the loop of pop_blocking keeps the invariant.
LEMMA PopIInv ==
    ASSUME IInv, NEW c \in Consumers, ConsumerPop(c)
    PROVE  IInv'
  <1> USE DEF IInv, TypeOK, RingTypeOK
  <1>1. CASE PopSome(c) /\ taken' = Append(taken, Head(buf)) /\ UNCHANGED ended
    BY <1>1, HeadTakenIInv DEF ConsumerPop, PopSome
  <1>2. CASE PopNone(c) /\ ended' = ended \cup {c} /\ UNCHANGED taken
    <2>1. /\ buf = <<>> /\ closed
          /\ notified' = notified \ {c}
          /\ UNCHANGED <<buf, dropped, closed, closing, waiting, taken, pushed>>
      BY <1>2 DEF ConsumerPop, PopNone
    <2>2. TypeOK'
      BY <1>2, <2>1
    <2>3. NoLostWakeup'
      <3>1. Cardinality(notified') \in Nat /\ Len(buf') = 0
        BY <2>1, LeaveCount
      <3> QED
        BY <3>1 DEF NoLostWakeup
    <2>4. CloseWakesAll' /\ DrainedBeforeEnd'
      BY <1>2, <2>1 DEF CloseWakesAll, DrainedBeforeEnd
    <2>5. BufferIsNewest' /\ Conservation' /\ TakenInOrder'
      BY <2>1 DEF BufferIsNewest, Conservation, TakenInOrder
    <2> QED
      BY <2>2, <2>3, <2>4, <2>5
  <1>3. CASE PopWait(c) /\ UNCHANGED <<taken, ended>>
    <2>1. /\ buf = <<>> /\ ~closed
          /\ waiting' = waiting \cup {c}
          /\ notified' = notified \ {c}
          /\ UNCHANGED <<buf, dropped, closed, closing, taken, pushed, ended>>
      BY <1>3 DEF ConsumerPop, PopWait
    <2>2. TypeOK'
      BY <2>1
    <2>3. NoLostWakeup'
      <3>1. Cardinality(notified') \in Nat /\ Len(buf') = 0
        BY <2>1, LeaveCount
      <3> QED
        BY <3>1 DEF NoLostWakeup
    <2>4. CloseWakesAll' /\ DrainedBeforeEnd'
      BY <2>1 DEF CloseWakesAll, DrainedBeforeEnd
    <2>5. BufferIsNewest' /\ Conservation' /\ TakenInOrder'
      BY <2>1 DEF BufferIsNewest, Conservation, TakenInOrder
    <2> QED
      BY <2>2, <2>3, <2>4, <2>5
  <1> QED
    BY <1>1, <1>2, <1>3 DEF ConsumerPop

\* drain_batch keeps the invariant.
LEMMA DrainIInv ==
    ASSUME IInv, NEW c \in Consumers, ConsumerDrain(c)
    PROVE  IInv'
  <1> USE DEF IInv, TypeOK, RingTypeOK
  <1> DEFINE k == DrainCount(DrainMax)
  <1>1. k \in Nat /\ k <= Len(buf)
    BY DrainAssumption DEF DrainCount
  <1>2. /\ buf' = SubSeq(buf, k + 1, Len(buf))
        /\ taken' = taken \o SubSeq(buf, 1, k)
        /\ UNCHANGED <<dropped, closed, closing, waiting, notified, pushed, ended>>
    BY DEF ConsumerDrain, DrainBatch
  <1> HIDE DEF k
  <1>3. /\ buf' \in Seq(Nat)
        /\ Len(buf') = Len(buf) - k
        /\ \A i \in 1 .. Len(buf) - k : buf'[i] = buf[i + k]
        /\ SubSeq(buf, 1, k) \in Seq(Nat)
        /\ Len(SubSeq(buf, 1, k)) = k
        /\ \A i \in 1 .. k : SubSeq(buf, 1, k)[i] = buf[i]
    BY <1>1, <1>2, RemoveFrontFacts
  <1>4. /\ taken' \in Seq(Nat)
        /\ Len(taken') = Len(taken) + k
        /\ \A i \in 1 .. Len(taken) : taken'[i] = taken[i]
        /\ \A i \in 1 .. k : taken'[Len(taken) + i] = buf[i]
    BY <1>1, <1>2, <1>3, ConcatProperties
  <1>5. BufferIsNewest' /\ Conservation' /\ TakenInOrder'
    BY <1>1, <1>2, <1>3, <1>4, TakePreservesData
  <1>6. TypeOK'
    <2>1. Len(buf') <= Cap
      BY <1>1, <1>3, CapAssumption
    <2> QED
      BY <1>2, <1>3, <1>4, <2>1
  <1>7. NoLostWakeup'
    <2>1. Cardinality(notified) \in Nat
      BY LeaveCount
    <2>2. Len(buf') <= Len(buf)
      BY <1>1, <1>3
    <2> QED
      <3>1. waiting' # {} => Len(buf) <= Cardinality(notified)
        BY <1>2 DEF NoLostWakeup
      <3>2. Len(buf') \in Nat /\ Len(buf) \in Nat /\ notified' = notified
        BY <1>2, <1>3
      <3> QED
        BY <2>1, <2>2, <3>1, <3>2 DEF NoLostWakeup
  <1>8. CloseWakesAll' /\ DrainedBeforeEnd'
    <2>1. buf = <<>> => buf' = <<>>
      BY <1>1, <1>3
    <2> QED
      BY <1>2, <2>1 DEF CloseWakesAll, DrainedBeforeEnd
  <1> QED
    BY <1>5, <1>6, <1>7, <1>8

\* try_pop keeps the invariant: its caller is not among the woken consumers.
LEMMA TryPopIInv ==
    ASSUME IInv, NEW c \in Consumers, ConsumerTryPop(c)
    PROVE  IInv'
  <1>1. notified' = notified \ {c}
    BY DEF ConsumerTryPop, Outside, TryPop
  <1> QED
    BY <1>1, HeadTakenIInv DEF ConsumerTryPop, TryPop

\* close and a spurious wake-up touch the condition variable only.
LEMMA WakeIInv ==
    ASSUME IInv,
           \/ ProducerClose
           \/ ProducerNotifyAll
           \/ \E c \in Consumers : ConsumerSpurious(c)
    PROVE  IInv'
  <1> USE DEF IInv, TypeOK, RingTypeOK
  <1>0. /\ UNCHANGED <<buf, dropped, pushed, taken, ended>>
        /\ closed => closed'
    BY DEF ProducerClose, SetClosed, ProducerNotifyAll, NotifyAll,
           ConsumerSpurious, SpuriousWakeup
  <1>1. BufferIsNewest' /\ Conservation' /\ TakenInOrder' /\ DrainedBeforeEnd'
    BY <1>0 DEF BufferIsNewest, Conservation, TakenInOrder, DrainedBeforeEnd
  <1>2. CASE ProducerClose
    <2>1. TypeOK' /\ NoLostWakeup' /\ CloseWakesAll'
      BY <1>0, <1>2 DEF ProducerClose, SetClosed, NoLostWakeup, CloseWakesAll
    <2> QED
      BY <1>1, <2>1
  <1>3. CASE ProducerNotifyAll
    <2>1. TypeOK' /\ NoLostWakeup' /\ CloseWakesAll'
      BY <1>0, <1>3 DEF ProducerNotifyAll, NotifyAll, NoLostWakeup, CloseWakesAll
    <2> QED
      BY <1>1, <2>1
  <1>4. CASE \E c \in Consumers : ConsumerSpurious(c)
    <2>1. PICK c \in waiting :
             /\ waiting' = waiting \ {c}
             /\ notified' = notified \cup {c}
             /\ UNCHANGED <<closed, closing>>
      BY <1>4 DEF ConsumerSpurious, SpuriousWakeup
    <2>2. TypeOK'
      BY <1>0, <2>1
    <2>3. Cardinality(notified') = Cardinality(notified) + 1
      BY <2>1, WakeOneCount
    <2>4. NoLostWakeup'
      <3>1. Cardinality(notified) \in Nat
        BY LeaveCount
      <3> QED
        BY <1>0, <2>1, <2>3, <3>1 DEF NoLostWakeup
    <2>5. CloseWakesAll'
      BY <2>1 DEF CloseWakesAll
    <2> QED
      BY <1>1, <2>2, <2>4, <2>5
  <1> QED
    BY <1>2, <1>3, <1>4

\* The invariant is inductive.
LEMMA NextIInv == IInv /\ [Next]_vars => IInv'
  <1> SUFFICES ASSUME IInv, [Next]_vars PROVE IInv'
    OBVIOUS
  <1>1. CASE ProducerPush
    BY <1>1, PushIInv
  <1>2. CASE ProducerClose \/ ProducerNotifyAll
    BY <1>2, WakeIInv
  <1>3. ASSUME NEW c \in Consumers,
               \/ ConsumerPop(c)
               \/ ConsumerDrain(c)
               \/ ConsumerTryPop(c)
               \/ ConsumerSpurious(c)
        PROVE  IInv'
    BY <1>3, PopIInv, DrainIInv, TryPopIInv, WakeIInv
  <1>4. CASE Terminated \/ UNCHANGED vars
    <2>1. UNCHANGED <<buf, dropped, closed, closing, waiting, notified,
                      pushed, taken, ended>>
      BY <1>4 DEF Terminated, vars, ringVars
    <2>2. TypeOK' /\ NoLostWakeup' /\ CloseWakesAll'
      BY <2>1 DEF IInv, TypeOK, RingTypeOK, NoLostWakeup, CloseWakesAll
    <2>3. BufferIsNewest' /\ Conservation' /\ TakenInOrder' /\ DrainedBeforeEnd'
      BY <2>1 DEF IInv, BufferIsNewest, Conservation, TakenInOrder,
                  DrainedBeforeEnd
    <2> QED
      BY <2>2, <2>3 DEF IInv
  <1> QED
    BY <1>1, <1>2, <1>3, <1>4 DEF Next

\* IInv holds in every reachable state.
THEOREM Invariance == Spec => []IInv
  BY InitIInv, NextIInv, PTL DEF Spec

-----------------------------------------------------------------------------
\* The buffer is well-typed and within its capacity (push).
THEOREM TypeCorrect == Spec => []TypeOK
  BY Invariance, PTL DEF IInv

\* No wake-up is lost, for any number of consumers (push, pop_blocking).
THEOREM WakeupsAreNotLost == Spec => []NoLostWakeup
  BY Invariance, PTL DEF IInv

\* After close() has returned nobody sleeps in pop_blocking.
THEOREM CloseWakesEveryone == Spec => []CloseWakesAll
  BY Invariance, PTL DEF IInv

\* Every item is handed out, buffered or counted as dropped (push returns an
\* exact count), whatever the capacity and the number of consumers.
THEOREM NothingUnaccounted == Spec => []Conservation
  BY Invariance, PTL DEF IInv

\* Items leave in push order and never twice, over all consumers and all of
\* pop_blocking, drain_batch and try_pop.
THEOREM OrderIsKept == Spec => []TakenInOrder
  BY Invariance, PTL DEF IInv

\* No consumer gets None while an item is left (pop_blocking after close).
THEOREM NothingLeftBehind == Spec => []DrainedBeforeEnd
  BY Invariance, PTL DEF IInv

-----------------------------------------------------------------------------
\* Items handed out, as the abstract queue numbers them: the k oldest items
\* of the buffer are the k numbers that follow what has left it.
LEMMA FrontIsWindow ==
    ASSUME IInv, NEW k \in Nat, k <= Len(buf)
    PROVE  SubSeq(buf, 1, k) = [i \in 1 .. k |-> pushed - Len(buf) + i]
  <1>1. /\ SubSeq(buf, 1, k) \in Seq(Nat)
        /\ Len(SubSeq(buf, 1, k)) = k
        /\ \A i \in 1 .. k : SubSeq(buf, 1, k)[i] = buf[i]
    BY RemoveFrontFacts DEF IInv, TypeOK, RingTypeOK
  <1>2. \A i \in 1 .. k : buf[i] = pushed - Len(buf) + i
    BY DEF IInv, TypeOK, RingTypeOK, BufferIsNewest
  <1>3. SubSeq(buf, 1, k) = [i \in 1 .. k |-> SubSeq(buf, 1, k)[i]]
    BY <1>1
  <1> QED
    BY <1>1, <1>2, <1>3

\* A pop of the head is an abstract Take(1).
LEMMA HeadIsTake ==
    ASSUME IInv, buf # <<>>, buf' = Tail(buf),
           taken' = Append(taken, Head(buf)), UNCHANGED <<pushed, dropped>>
    PROVE  Abstract!Next
  <1> USE DEF IInv, TypeOK, RingTypeOK
  <1>1. Len(buf') = Len(buf) - 1 /\ Len(buf) >= 1
    BY HeadTailProperties
  <1>2. SubSeq(buf, 1, 1) = [i \in 1 .. 1 |-> pushed - Len(buf) + i]
    BY <1>1, FrontIsWindow, 1 \in Nat
  <1>3. SubSeq(buf, 1, 1) = <<Head(buf)>>
    <2>1. SubSeq(buf, 1, 1) = <<buf[1]>> \o SubSeq(buf, 2, 1)
      BY <1>1, SubSeqRecursiveFirst
    <2>2. SubSeq(buf, 2, 1) = <<>>
      BY SubSeqEmpty
    <2>3. <<buf[1]>> \in Seq(Nat) /\ buf[1] = Head(buf)
      BY <1>1
    <2> QED
      BY <2>1, <2>2, <2>3, ConcatEmptySeq
  <1>4. taken' = taken \o <<Head(buf)>>
    BY AppendIsConcat, <1>1, HeadTailProperties
  <1>5. Abstract!Take(1)
    <2>1. 1 \in 1 .. pushed - (pushed - Len(buf))
      BY <1>1
    <2>2. (pushed - Len(buf))' = pushed - Len(buf) + 1
      BY <1>1
    <2>3. taken' = taken \o [i \in 1 .. 1 |-> pushed - Len(buf) + i]
      BY <1>2, <1>3, <1>4
    <2> QED
      BY <2>1, <2>2, <2>3 DEF Abstract!Take
  <1> QED
    BY <1>5, CapAssumption DEF Abstract!Next

\* Every step of the buffer and its threads is a step of the abstract queue
\* or leaves it unchanged.
LEMMA StepRefines == IInv /\ [Next]_vars => [Abstract!Next]_(Abstract!queueVars)
  <1> SUFFICES ASSUME IInv, [Next]_vars
               PROVE  [Abstract!Next]_(Abstract!queueVars)
    OBVIOUS
  <1> USE DEF IInv, TypeOK, RingTypeOK
  <1>1. CASE ProducerPush
    <2>1. pushed + 1 \in Nat
      OBVIOUS
    <2>2. /\ buf' = PushBack(pushed + 1)
          /\ dropped' = IF Len(buf) = Cap THEN dropped + 1 ELSE dropped
          /\ pushed' = pushed + 1
          /\ taken' = taken
      BY <1>1 DEF ProducerPush, Push
    <2>3. CASE Len(buf) = Cap
      <3>1. Len(buf') = Cap
        BY <2>1, <2>2, <2>3, PushBackFacts
      <3>2. /\ pushed - (pushed - Len(buf)) = Cap
            /\ (pushed - Len(buf))' = pushed - Len(buf) + 1
        BY <2>2, <2>3, <3>1, CapAssumption
      <3>3. Abstract!Offer
        BY <2>2, <2>3, <3>2 DEF Abstract!Offer
      <3> QED
        BY <3>3 DEF Abstract!Next
    <2>4. CASE Len(buf) # Cap
      <3>1. Len(buf') = Len(buf) + 1
        BY <2>1, <2>2, <2>4, PushBackFacts
      <3>2. /\ pushed - (pushed - Len(buf)) # Cap
            /\ (pushed - Len(buf))' = pushed - Len(buf)
        BY <2>2, <2>4, <3>1, CapAssumption
      <3>3. Abstract!Offer
        BY <2>2, <2>4, <3>2 DEF Abstract!Offer
      <3> QED
        BY <3>3 DEF Abstract!Next
    <2> QED
      BY <2>3, <2>4
  <1>2. ASSUME NEW c \in Consumers, ConsumerPop(c)
        PROVE  [Abstract!Next]_(Abstract!queueVars)
    <2>1. CASE PopSome(c) /\ taken' = Append(taken, Head(buf))
      BY <1>2, <2>1, HeadIsTake DEF ConsumerPop, PopSome
    <2>2. CASE UNCHANGED <<buf, dropped, taken>>
      BY <1>2, <2>2 DEF ConsumerPop, Abstract!queueVars
    <2> QED
      BY <1>2, <2>1, <2>2 DEF ConsumerPop, PopNone, PopWait
  <1>3. ASSUME NEW c \in Consumers, ConsumerDrain(c)
        PROVE  [Abstract!Next]_(Abstract!queueVars)
    <2> DEFINE k == DrainCount(DrainMax)
    <2>1. k \in Nat /\ k <= Len(buf)
      BY DrainAssumption DEF DrainCount
    <2>2. /\ buf' = SubSeq(buf, k + 1, Len(buf))
          /\ taken' = taken \o SubSeq(buf, 1, k)
          /\ UNCHANGED <<dropped, pushed>>
      BY <1>3 DEF ConsumerDrain, DrainBatch
    <2> HIDE DEF k
    <2>3. Len(buf') = Len(buf) - k
      BY <2>1, <2>2, RemoveFrontFacts
    <2>4. CASE k = 0
      <3>1. SubSeq(buf, 1, k) = <<>>
        BY <2>4
      <3>2. taken' = taken
        BY <2>2, <3>1, ConcatEmptySeq
      <3> QED
        BY <2>2, <2>3, <2>4, <3>2 DEF Abstract!queueVars
    <2>5. CASE k # 0
      <3>1. SubSeq(buf, 1, k) = [i \in 1 .. k |-> pushed - Len(buf) + i]
        BY <2>1, FrontIsWindow
      <3>2. Abstract!Take(k)
        <4>1. k \in 1 .. pushed - (pushed - Len(buf))
          BY <2>1, <2>5
        <4>2. (pushed - Len(buf))' = pushed - Len(buf) + k
          <5>1. pushed' = pushed /\ Len(buf) \in Nat
            BY <2>2
          <5> QED
            BY <2>1, <2>3, <5>1
        <4>3. taken' = taken \o [i \in 1 .. k |-> pushed - Len(buf) + i]
          BY <2>2, <3>1
        <4> QED
          BY <2>2, <4>1, <4>2, <4>3 DEF Abstract!Take
      <3>3. k \in 1 .. Cap
        BY <2>1, <2>5, CapAssumption
      <3> QED
        BY <3>2, <3>3 DEF Abstract!Next
    <2> QED
      BY <2>4, <2>5
  <1>4. ASSUME NEW c \in Consumers, ConsumerTryPop(c)
        PROVE  [Abstract!Next]_(Abstract!queueVars)
    BY <1>4, HeadIsTake DEF ConsumerTryPop, TryPop
  <1>5. CASE UNCHANGED <<buf, dropped, pushed, taken>>
    BY <1>5 DEF Abstract!queueVars
  <1>6. CASE \/ ProducerClose \/ ProducerNotifyAll \/ Terminated
             \/ UNCHANGED vars
             \/ \E c \in Consumers : ConsumerSpurious(c)
    BY <1>5, <1>6 DEF ProducerClose, SetClosed, ProducerNotifyAll, NotifyAll,
                      Terminated, ConsumerSpurious, SpuriousWakeup,
                      vars, ringVars
  <1> QED
    BY <1>1, <1>2, <1>3, <1>4, <1>6 DEF Next

\* The buffer with its mutex, condvar and close protocol implements the
\* drop-oldest queue (src/ring_buffer.rs against its module comment).
THEOREM Refinement == Spec => ImplementsDropOldestQueue
  <1>1. Init => Abstract!Init
    <2> SUFFICES ASSUME Init PROVE Abstract!Init
      OBVIOUS
    <2>1. pushed = 0 /\ dropped = 0 /\ taken = <<>>
      BY DEF Init, new
    <2>2. Len(buf) = 0
      BY DEF Init, new
    <2>3. 0 - 0 = 0
      OBVIOUS
    <2> QED
      BY <2>1, <2>2, <2>3 DEF Abstract!Init
  <1> QED
    BY <1>1, Invariance, StepRefines, PTL
    DEF Spec, ImplementsDropOldestQueue, Abstract!Spec
=============================================================================
