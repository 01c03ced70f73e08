-------------------------- MODULE MCSessionSignals --------------------------
(***************************************************************************)
(* Small instances of SessionSignals for TLC.                              *)
(***************************************************************************)
EXTENDS SessionSignals, TLC

Anytime    == {}
Addresses  == Permutations(Sessions)
=============================================================================
