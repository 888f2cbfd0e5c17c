----------------------------- MODULE RingBuffer -----------------------------
(***************************************************************************)
(* The bounded buffer between the capture thread and the IDS analyzer      *)
(* (src/ring_buffer.rs): a VecDeque and a `closed` flag behind one mutex,  *)
(* with one condition variable for blocking pops.                          *)
(*                                                                         *)
(* Everything a method does while it holds the mutex is one atomic action. *)
(* A consumer blocked in cvar.wait is in `waiting`; one that was woken but *)
(* has not re-acquired the mutex yet is in `notified`: between the two,    *)
(* any other thread may take the mutex first.  close() notifies after it   *)
(* has released the mutex, so it is two actions, with `closing` TRUE in    *)
(* between.                                                                *)
(*                                                                         *)
(* The module holds the object only.  Its clients (RingBufferSystem, Agent)*)
(* say which thread calls what and when.                                   *)
(***************************************************************************)
EXTENDS Integers, Sequences, FiniteSets

CONSTANTS Consumers,    \* the threads that may call pop_blocking
          Cap           \* the capacity given to RingBuffer::new

\* main.rs passes 4096.  (With 0, push would evict nothing from the empty
\* deque, count a drop that did not happen, and then never evict again.)
ASSUME CapAssumption == Cap \in Nat \ {0}
ASSUME ConsumersAssumption == IsFiniteSet(Consumers)

VARIABLES buf,          \* RingInner.buf, oldest item first
          dropped,      \* RingInner.dropped
          closed,       \* RingInner.closed
          closing,      \* close() has set the flag, notify_all is still to come
          waiting,      \* consumers asleep in cvar.wait
          notified      \* consumers woken by the condvar, without the mutex yet

ringVars == <<buf, dropped, closed, closing, waiting, notified>>

new ==
    /\ buf = <<>>
    /\ dropped = 0
    /\ closed = FALSE
    /\ closing = FALSE
    /\ waiting = {}
    /\ notified = {}

-----------------------------------------------------------------------------
\* The deque after push: the oldest entry makes room when the buffer is full.
PushBack(item) == Append(IF Len(buf) = Cap THEN Tail(buf) ELSE buf, item)

\* cvar.notify_one: wakes one sleeping consumer, if there is one.
NotifyOne ==
    \/ /\ waiting = {}
       /\ UNCHANGED <<waiting, notified>>
    \/ \E c \in waiting :
          /\ waiting' = waiting \ {c}
          /\ notified' = notified \cup {c}

\* Mutants of push: no eviction, no wake-up, evicting the newest entry.
PushWithoutEviction(item) ==
    /\ buf' = Append(buf, item)
    /\ NotifyOne
    /\ UNCHANGED <<dropped, closed, closing>>

PushWithoutNotify(item) ==
    /\ buf' = PushBack(item)
    /\ dropped' = IF Len(buf) = Cap THEN dropped + 1 ELSE dropped
    /\ UNCHANGED <<closed, closing, waiting, notified>>

PushEvictingNewest(item) ==
    /\ buf' = IF Len(buf) = Cap THEN [buf EXCEPT ![Cap] = item]
                                ELSE Append(buf, item)
    /\ dropped' = IF Len(buf) = Cap THEN dropped + 1 ELSE dropped
    /\ NotifyOne
    /\ UNCHANGED <<closed, closing>>

PushUncounted(item) ==
    /\ buf' = PushBack(item)
    /\ NotifyOne
    /\ UNCHANGED <<dropped, closed, closing>>

\* push: never waits, whatever the consumers do.
Push(item) ==
    /\ buf' = PushBack(item)
    /\ dropped' = IF Len(buf) = Cap THEN dropped + 1 ELSE dropped
    /\ NotifyOne
    /\ UNCHANGED <<closed, closing>>

-----------------------------------------------------------------------------
\* pop_blocking: one turn of its loop, under the mutex.  A consumer enters
\* the loop on the call, and again after it was woken.
InLoop(c) == c \notin waiting

\* Some(item): the consumer leaves with the head of the buffer.
PopSome(c) ==
    /\ InLoop(c)
    /\ buf # <<>>
    /\ buf' = Tail(buf)
    /\ notified' = notified \ {c}
    /\ UNCHANGED <<dropped, closed, closing, waiting>>

\* Mutant of PopNone: the closed flag is tested before the buffer.
PopNoneEarly(c) ==
    /\ InLoop(c)
    /\ closed
    /\ notified' = notified \ {c}
    /\ UNCHANGED <<buf, dropped, closed, closing, waiting>>

\* None: the buffer is closed and has been drained.
PopNone(c) ==
    /\ InLoop(c)
    /\ buf = <<>>
    /\ closed
    /\ notified' = notified \ {c}
    /\ UNCHANGED <<buf, dropped, closed, closing, waiting>>

\* Nothing to pop: the consumer releases the mutex and sleeps, atomically.
PopWait(c) ==
    /\ InLoop(c)
    /\ buf = <<>>
    /\ ~closed
    /\ waiting' = waiting \cup {c}
    /\ notified' = notified \ {c}
    /\ UNCHANGED <<buf, dropped, closed, closing>>

\* A condition variable may wake a waiter without a notification.
SpuriousWakeup(c) ==
    /\ c \in waiting
    /\ waiting' = waiting \ {c}
    /\ notified' = notified \cup {c}
    /\ UNCHANGED <<buf, dropped, closed, closing>>

\* How many items drain_batch(max) removes.
DrainCount(max) == IF max < Len(buf) THEN max ELSE Len(buf)

\* Mutant of DrainBatch: the last item it returns is left in the deque.
DrainBatchOneLess(max) ==
    /\ buf' = IF buf = <<>> THEN <<>> ELSE SubSeq(buf, DrainCount(max), Len(buf))
    /\ UNCHANGED <<dropped, closed, closing, waiting, notified>>

\* drain_batch: removes the DrainCount(max) oldest items, possibly none.
DrainBatch(max) ==
    /\ buf' = SubSeq(buf, DrainCount(max) + 1, Len(buf))
    /\ UNCHANGED <<dropped, closed, closing, waiting, notified>>

\* try_pop: pops the head if there is one; the empty case changes nothing.
TryPop ==
    /\ buf # <<>>
    /\ buf' = Tail(buf)
    /\ UNCHANGED <<dropped, closed, closing, waiting, notified>>

-----------------------------------------------------------------------------
\* close, first half: the flag is set under the mutex.
SetClosed ==
    /\ ~closing
    /\ closed' = TRUE
    /\ closing' = TRUE
    /\ UNCHANGED <<buf, dropped, waiting, notified>>

\* Mutant of NotifyAll: notify_one in place of notify_all.
NotifyAllWakesOne ==
    /\ closing
    /\ closing' = FALSE
    /\ NotifyOne
    /\ UNCHANGED <<buf, dropped, closed>>

\* close, second half: notify_all, after the mutex was released.
NotifyAll ==
    /\ closing
    /\ closing' = FALSE
    /\ waiting' = {}
    /\ notified' = notified \cup waiting
    /\ UNCHANGED <<buf, dropped, closed>>

-----------------------------------------------------------------------------
\* The object is well-typed and never over capacity; no thread is both asleep
\* and woken (push evicts before it appends; wait re-acquires one way only).
RingTypeOK(Item) ==
    /\ buf \in Seq(Item)
    /\ Len(buf) <= Cap
    /\ dropped \in Nat
    /\ closed \in BOOLEAN
    /\ closing \in BOOLEAN
    /\ waiting \subseteq Consumers
    /\ notified \subseteq Consumers
    /\ waiting \cap notified = {}

\* No wake-up is ever lost: while some consumer sleeps, every buffered item
\* has a woken consumer on its way to take it (notify_one in push pairs with
\* the re-check of the buffer after each wait).
NoLostWakeup ==
    waiting # {} => Len(buf) <= Cardinality(notified)

\* Once close() has returned, nobody sleeps in pop_blocking any more and
\* nobody can fall asleep again ("unblocks all waiting pop_blocking callers").
CloseWakesAll ==
    closed /\ ~closing => waiting = {}
=============================================================================
