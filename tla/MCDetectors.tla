----------------------------- MODULE MCDetectors -----------------------------
(***************************************************************************)
(* Small instances of the three detectors.  Each behaves among the others  *)
(* as it does alone (theorem EachAsIfAlone of DetectorProofs), so a run    *)
(* takes one of them, chosen in its initial state.                         *)
(***************************************************************************)
EXTENDS Detectors, TLC

CONSTANTS w1, w2, h1, h2, p1, p2, s1, s2

VARIABLE focus

\* Bounds: how far the clock runs for each.
Horizon == [rate |-> 6, scan |-> 4, syn |-> 2]

MCHash == (s1 :> 1) @@ (s2 :> 2)

FocusInit == focus \in DOMAIN Horizon /\ Init

FocusNext ==
    /\ \/ focus = "rate" /\ RateStep
       \/ focus = "scan" /\ ScanStep
       \/ focus = "syn" /\ SynStep
    /\ now' <= Horizon[focus]
    /\ UNCHANGED focus

FocusSpec == FocusInit /\ [][FocusNext]_<<focus, now, rateState, scanState, synState>>

Symmetry ==
    Permutations({w1, w2}) \cup Permutations({h1, h2}) \cup Permutations({p1, p2})
=============================================================================
