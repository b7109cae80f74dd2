----------------------------- MODULE MCDelivery -----------------------------
(***************************************************************************)
(* Instances of Delivery for TLC.  The requests are interchangeable.       *)
(***************************************************************************)
EXTENDS Delivery, TLC

MCSymmetry == Permutations(Requests)
=============================================================================
