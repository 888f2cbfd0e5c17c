-------------------------- MODULE RingBufferSystem --------------------------
(***************************************************************************)
(* The ring buffer in use: one producer, which closes the buffer when it   *)
(* is done, and any number of consumers, each of which calls drain_batch,  *)
(* try_pop and pop_blocking in any order until pop_blocking returns None.  *)
(* The items are the numbers 1, 2, ... in the order they are pushed, as    *)
(* packet_id numbers the captured packets.                                 *)
(***************************************************************************)
EXTENDS RingBuffer

CONSTANTS MaxPush,      \* bound: how many items the producer pushes
          DrainMax      \* the `max` of drain_batch (64 in analyzer.rs)

ASSUME DrainAssumption == DrainMax \in Nat \ {0}

VARIABLES pushed,       \* how many items were pushed
          taken,        \* history: the items handed to consumers, in order
          ended         \* consumers that got None and left their loop

vars == <<ringVars, pushed, taken, ended>>

Init ==
    /\ new
    /\ pushed = 0
    /\ taken = <<>>
    /\ ended = {}

-----------------------------------------------------------------------------
ProducerPush ==
    /\ ~closed
    /\ pushed < MaxPush
    /\ Push(pushed + 1)
    /\ pushed' = pushed + 1
    /\ UNCHANGED <<taken, ended>>

ProducerClose ==
    /\ ~closed
    /\ SetClosed
    /\ UNCHANGED <<pushed, taken, ended>>

ProducerNotifyAll ==
    /\ NotifyAll
    /\ UNCHANGED <<pushed, taken, ended>>

\* A turn of the loop of pop_blocking, by a consumer that just called it or
\* that was woken.
ConsumerPop(c) ==
    /\ c \notin ended
    /\ \/ /\ PopSome(c)
          /\ taken' = Append(taken, Head(buf))
          /\ UNCHANGED ended
       \/ /\ PopNone(c)
          /\ ended' = ended \cup {c}
          /\ UNCHANGED taken
       \/ /\ PopWait(c)
          /\ UNCHANGED <<taken, ended>>
    /\ UNCHANGED pushed

\* A consumer outside pop_blocking makes a non-blocking call.
Outside(c) == c \notin ended \cup waiting \cup notified

ConsumerDrain(c) ==
    /\ Outside(c)
    /\ DrainBatch(DrainMax)
    /\ taken' = taken \o SubSeq(buf, 1, DrainCount(DrainMax))
    /\ UNCHANGED <<pushed, ended>>

ConsumerTryPop(c) ==
    /\ Outside(c)
    /\ TryPop
    /\ taken' = Append(taken, Head(buf))
    /\ UNCHANGED <<pushed, ended>>

ConsumerSpurious(c) ==
    /\ SpuriousWakeup(c)
    /\ UNCHANGED <<pushed, taken, ended>>

Terminated ==
    /\ closed /\ ~closing
    /\ ended = Consumers
    /\ UNCHANGED vars

Next ==
    \/ ProducerPush
    \/ ProducerClose
    \/ ProducerNotifyAll
    \/ \E c \in Consumers :
          \/ ConsumerPop(c)
          \/ ConsumerDrain(c)
          \/ ConsumerTryPop(c)
          \/ ConsumerSpurious(c)
    \/ Terminated

Spec == Init /\ [][Next]_vars

\* Consumers keep running their loops, and a close() that was begun ends.
\* The producer need neither push nor close.
Fairness ==
    /\ WF_vars(ProducerNotifyAll)
    /\ \A c \in Consumers : WF_vars(ConsumerPop(c))

FairSpec == Spec /\ Fairness

-----------------------------------------------------------------------------
\* Types of the buffer and of the history (push, pop_blocking, drain_batch).
TypeOK ==
    /\ RingTypeOK(Nat)
    /\ pushed \in Nat
    /\ taken \in Seq(Nat)
    /\ ended \subseteq Consumers

\* The buffer always holds the newest items, contiguous and in push order:
\* push evicts at the front only and the pops remove at the front only.
BufferIsNewest ==
    \A i \in 1 .. Len(buf) : buf[i] = pushed - Len(buf) + i

\* Every pushed item was handed out, is still buffered, or is counted in
\* `dropped`: the count that push returns is exact.
Conservation ==
    pushed = Len(taken) + dropped + Len(buf)

\* Across all consumers and all three ways of popping, items are handed out
\* in push order, none twice, and all before the ones still buffered.
TakenInOrder ==
    /\ \A i, j \in 1 .. Len(taken) : i < j => taken[i] < taken[j]
    /\ \A i \in 1 .. Len(taken) : taken[i] <= pushed - Len(buf)

\* close() makes consumers "drain and exit": the first None is returned only
\* when nothing that was pushed before close() is left behind.
DrainedBeforeEnd ==
    ended # {} => closed /\ buf = <<>>

\* Every buffered item is eventually handed out or overwritten: no item is
\* stranded behind a sleeping consumer.
EveryItemLeaves ==
    \A i \in 1 .. MaxPush :
        (\E j \in 1 .. Len(buf) : buf[j] = i) ~> (\A j \in 1 .. Len(buf) : buf[j] # i)

\* After close(), every consumer leaves its loop.
CloseEndsConsumers ==
    closed ~> (ended = Consumers)

-----------------------------------------------------------------------------
\* The deque of items is the window that follows what has left it.
Abstract == INSTANCE DropOldestQueue WITH
    Capacity <- Cap,
    lo <- pushed - Len(buf),
    hi <- pushed,
    lost <- dropped,
    out <- taken

\* The buffer with its mutex and condvar is a drop-oldest queue.
ImplementsDropOldestQueue == Abstract!Spec
=============================================================================
