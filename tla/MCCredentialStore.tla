-------------------------- MODULE MCCredentialStore --------------------------
(***************************************************************************)
(* Small instances of CredentialStore.  Processes are interchangeable, and *)
(* so are accounts.                                                        *)
(***************************************************************************)
EXTENDS CredentialStore, TLC

\* Commands die or fail between the two places, or the service comes and goes.
StoreFaults == {{"crash", "file"}, {"leaves"}}

StoreSymmetry == Permutations(Procs) \cup Permutations(Accounts)
==============================================================================
