----------------------------- MODULE OrderedFeed -----------------------------
(***************************************************************************)
(* What the agent as a whole promises the ingestion service: packets made  *)
(* at the source arrive in the order they were made, none twice and none   *)
(* that was not made, in batches of bounded size.  Any packet may be lost: *)
(* a batch may skip packets, and no batch need ever arrive.                *)
(***************************************************************************)
EXTENDS Integers, Sequences

CONSTANT MaxBatch

VARIABLES made,         \* packets 1 .. made have been made
          arrived       \* the packets the service received, in order

feedVars == <<made, arrived>>

Top == IF arrived = <<>> THEN 0 ELSE arrived[Len(arrived)]

Init == made = 0 /\ arrived = <<>>

Make ==
    /\ made' \in Nat
    /\ made' > made
    /\ UNCHANGED arrived

Arrive ==
    /\ \E n \in 1 .. MaxBatch : \E batch \in [1 .. n -> Top + 1 .. made] :
          /\ \A i, j \in 1 .. n : i < j => batch[i] < batch[j]
          /\ arrived' = arrived \o batch
    /\ UNCHANGED made

Next == Make \/ Arrive

Spec == Init /\ [][Next]_feedVars
=============================================================================
