---------------------------- MODULE MCRingBuffer ----------------------------
(***************************************************************************)
(* Small instances of RingBufferSystem.                                    *)
(***************************************************************************)
EXTENDS RingBufferSystem

CONSTANTS c1, c2, c3
=============================================================================
