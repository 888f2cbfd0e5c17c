-------------------------------- MODULE Clock --------------------------------
(***************************************************************************)
(* The monotonic clock behind Instant::now(), in ticks.  The detectors     *)
(* read it under the lock of the map entry they work on, so that within    *)
(* one entry time never goes back.                                         *)
(***************************************************************************)
EXTENDS Integers

CONSTANT MaxTime   \* bound: the clock stops here

ASSUME ClockAssumption == MaxTime \in Nat

VARIABLE now

Times == 0..MaxTime

Tick == now < MaxTime /\ now' = now + 1

\* A map with the value of one key set, as DashMap::insert leaves it.
Put(map, k, v) == [j \in DOMAIN map \cup {k} |-> IF j = k THEN v ELSE map[j]]

\* A map without the keys in K.
Without(map, K) == [j \in DOMAIN map \ K |-> map[j]]

NoKeys == [j \in {} |-> 0]
=============================================================================
