----------------------------- MODULE MCSidePanel -----------------------------
(***************************************************************************)
(* Small instances of SidePanel for TLC.                                   *)
(***************************************************************************)
EXTENDS SidePanel

=============================================================================
