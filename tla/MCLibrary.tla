----------------------------- MODULE MCLibrary ------------------------------
(***************************************************************************)
(* Instances of Library for TLC.  Requests and files are interchangeable.  *)
(***************************************************************************)
EXTENDS Library, TLC

MCSymmetry == Permutations(Requests) \cup Permutations(Files)
=============================================================================
