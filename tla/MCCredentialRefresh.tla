------------------------- MODULE MCCredentialRefresh -------------------------
(***************************************************************************)
(* Small instances of CredentialRefresh.  Processes running the same kind  *)
(* of command are interchangeable, so the safety runs permute them.        *)
(***************************************************************************)
EXTENDS CredentialRefresh, TLC

ProcsSymmetry == Permutations(Procs)
==============================================================================
