---------------------------- MODULE MCPromotion ----------------------------
(* Two promotion flows on one or two promotions.                             *)
EXTENDS Promotion
=============================================================================
