---------------------------- MODULE MCAdsService ----------------------------
(* A profile with two ad notifications.                                      *)
EXTENDS AdsService
=============================================================================
