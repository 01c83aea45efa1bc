---------------------------- MODULE MCNativeHost ----------------------------
(***************************************************************************)
(* Small instances of NativeHost for TLC.                                  *)
(***************************************************************************)
EXTENDS NativeHost
=============================================================================
