---------------------- MODULE MCUnblindedContribution ----------------------
(***************************************************************************)
(* Instances of UnblindedContribution for TLC.  Contribution ids are       *)
(* interchangeable; token and publisher numbers are not (result lists are  *)
(* ordered by them).                                                       *)
(***************************************************************************)
EXTENDS UnblindedContribution, TLC

Symmetry == Permutations(Contributions)
=============================================================================
