------------------------------ MODULE MCDaemon ------------------------------
(***************************************************************************)
(* Small instances of Daemon for TLC.                                      *)
(***************************************************************************)
EXTENDS Daemon, TLC

CONSTANTS d1, d2, browser, native

OneDaemon == browser :> d1 @@ native :> d1
DaemonEach == browser :> d1 @@ native :> d2
OnlyNative == native :> d1

Symmetry == Permutations(Turns) \cup Permutations(Threads) \cup Permutations(Keys)
=============================================================================
