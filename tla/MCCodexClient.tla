---------------------------- MODULE MCCodexClient ----------------------------
(***************************************************************************)
(* Small instances of CodexClient for TLC.                                 *)
(***************************************************************************)
EXTENDS CodexClient, TLC

Symmetry == Permutations(Turns) \cup Permutations(Procs) \cup Permutations(Probes)
=============================================================================
