------------------------------ MODULE Detectors ------------------------------
(***************************************************************************)
(* The three detectors that keep state on a clock, side by side, as the    *)
(* fields of IdsEngine hold them (src/ids/mod.rs).  They share nothing but *)
(* the clock.  The workers and the sweeper go from one to the next; here   *)
(* each is used in any order with the others, which includes that.         *)
(***************************************************************************)
EXTENDS RateLimiter, PortScan, SynFlood

RateStep == RateNext /\ UNCHANGED <<scanState, synState>>
ScanStep == ScanNext /\ UNCHANGED <<rateState, synState>>
SynStep == SynNext /\ UNCHANGED <<rateState, scanState>>

Init == RateInit /\ ScanInit /\ SynInit

Next == RateStep \/ ScanStep \/ SynStep

Spec == Init /\ [][Next]_<<now, rateState, scanState, synState>>

\* Types of the maps, the windows and the workers' progress.
TypeOK == RateTypeOK /\ ScanTypeOK /\ SynTypeOK
=============================================================================
