-------------------------------- MODULE Score --------------------------------
(***************************************************************************)
(* The scoring model of the IDS (src/ids/score.rs).  A signal is a record  *)
(* of the FlagReason its detector claims (0 for the detectors that claim   *)
(* none) and its score.  The scores in the code are whole f32 values.      *)
(*                                                                         *)
(* IdsEngine::analyze pushes signals one by one and IdsResult::from_signals*)
(* only sums and counts them, so the vector is kept as an accumulator: its *)
(* sum, its length, and the flag of the first signal that claimed one.     *)
(***************************************************************************)
EXTENDS Integers, Sequences

THRESHOLD_INFO == 30

SCORE_BLACKLIST_IP == 90
SCORE_BLACKLIST_DOMAIN == 80
SCORE_PAYLOAD_SIG == 70
SCORE_DNS_ANOMALY == 45

\* Mutant of SCORE_GEO_ANOMALY: a new country alone would count as clean.
SCORE_GEO_BELOW_INFO == 25

SCORE_GEO_ANOMALY == 35
SCORE_UNUSUAL_PORT_NETWORK == 30
SCORE_UNUSUAL_PORT_GLOBAL == 20
CORRELATION_BONUS == 10

Signal(flag, score) == [flag |-> flag, score |-> score]
Signals == [flag : Nat, score : Nat]

NoSignals == [sum |-> 0, count |-> 0, flag |-> 0]

\* signals.push, preceded by `if primary_flag == 0 { primary_flag = .. }`.
AddSignal(acc, s) ==
    [sum |-> acc.sum + s.score,
     count |-> acc.count + 1,
     flag |-> IF acc.flag = 0 THEN s.flag ELSE acc.flag]

AddSignals(acc, signals) ==
    LET upto[n \in 0 .. Len(signals)] ==
            IF n = 0 THEN acc ELSE AddSignal(upto[n - 1], signals[n])
    IN  upto[Len(signals)]

\* from_signals: the sum, the bonus for two or more signals, the cap at 100.
TotalScore(acc) ==
    LET total == acc.sum + (IF acc.count >= 2 THEN CORRELATION_BONUS ELSE 0)
    IN  IF total > 100 THEN 100 ELSE total

is_clean(acc) == TotalScore(acc) < THRESHOLD_INFO
=============================================================================
