----------------------------- MODULE MCIdsEngine -----------------------------
(***************************************************************************)
(* Small instances of the IDS engine.  The packets cover the cases that    *)
(* analyze tells apart; 80 is a well-known port and 9999 is not.           *)
(***************************************************************************)
EXTENDS IdsEngine, TLC

CONSTANTS w1, w2

\* Clean traffic from a country to a well-known port.
Web == [NoPacket EXCEPT !.country = "US", !.port = 80]
\* A DNS answer to an unlisted port: if new, it scores 20, which is clean.
Answer == [NoPacket EXCEPT !.domain = "ok", !.port = 9999]
\* A query from another country that every detector complains about.
Suspicious ==
    [early |-> <<Signal(7, SCORE_BLACKLIST_IP)>>,
     country |-> "XX",
     payload |-> <<Signal(5, SCORE_PAYLOAD_SIG)>>,
     domain |-> "odd",
     listed |-> TRUE,
     name |-> <<Signal(3, SCORE_DNS_ANOMALY)>>,
     tunnel |-> <<Signal(3, SCORE_DNS_ANOMALY + 5)>>,
     port |-> 53,
     late |-> <<Signal(0, 20)>>]

CleanPackets == {Web, Answer}
MixedPackets == {Web, Suspicious}
MCWellKnownPorts == {53, 80}
MCPersisters == {"sweeper", "main"}

\* The workers run the same code.
WorkerSymmetry == Permutations(Workers)
=============================================================================
