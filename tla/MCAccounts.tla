----------------------------- MODULE MCAccounts -----------------------------
(***************************************************************************)
(* Instances of Accounts for TLC.  Requests and addresses are              *)
(* interchangeable.                                                        *)
(***************************************************************************)
EXTENDS Accounts, TLC

MCSymmetry ==
  Permutations(Registrations) \cup Permutations(Verifications)
    \cup Permutations(Emails)
=============================================================================
