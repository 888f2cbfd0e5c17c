------------------------------- MODULE MCAgent -------------------------------
(***************************************************************************)
(* Small instances of the agent, in capture mode and with --test-send.     *)
(***************************************************************************)
EXTENDS Agent
=============================================================================
