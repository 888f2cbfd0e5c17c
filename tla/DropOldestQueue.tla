--------------------------- MODULE DropOldestQueue ---------------------------
(***************************************************************************)
(* What the ring buffer promises its clients, without mutex, condition     *)
(* variable or deque.  The items are numbered in the order they are        *)
(* offered; the queue is the window lo+1 .. hi of them.  Items enter at    *)
(* the top of the window, and leave at its bottom: handed out in order, or *)
(* lost, which happens only to the oldest item, only when the window is    *)
(* full and only to make room for a new one.                               *)
(***************************************************************************)
EXTENDS Integers, Sequences

CONSTANT Capacity

VARIABLES lo,       \* items 1 .. lo have left the queue
          hi,       \* items 1 .. hi have been offered
          lost,     \* how many items were overwritten
          out       \* the items handed out, in order

queueVars == <<lo, hi, lost, out>>

Init == lo = 0 /\ hi = 0 /\ lost = 0 /\ out = <<>>

\* The producer is never refused: a full queue gives up its oldest item.
Offer ==
    /\ hi' = hi + 1
    /\ IF hi - lo = Capacity
       THEN lo' = lo + 1 /\ lost' = lost + 1
       ELSE UNCHANGED <<lo, lost>>
    /\ UNCHANGED out

\* A consumer takes the k oldest items at once.
Take(k) ==
    /\ k \in 1 .. (hi - lo)
    /\ lo' = lo + k
    /\ out' = out \o [i \in 1 .. k |-> lo + i]
    /\ UNCHANGED <<hi, lost>>

Next == Offer \/ \E k \in 1 .. Capacity : Take(k)

Spec == Init /\ [][Next]_queueVars
=============================================================================
