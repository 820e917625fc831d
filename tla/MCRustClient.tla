---------------------------- MODULE MCRustClient ----------------------------
(***************************************************************************)
(* Small instances of RustClient for TLC.                                  *)
(***************************************************************************)
EXTENDS RustClient, TLC

CallerSymmetry == Permutations(Callers)
=============================================================================
