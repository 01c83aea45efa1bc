--------------------------- MODULE MCSessionClients ---------------------------
(***************************************************************************)
(* Small instances of SessionClients for TLC.                              *)
(***************************************************************************)
EXTENDS SessionClients, TLC

Symmetry ==
    Permutations(Turns) \cup Permutations(Sessions) \cup Permutations(Keys)
        \cup Permutations(Hashes) \cup Permutations(Threads)
=============================================================================
