------------------------------- MODULE MCTor --------------------------------
(* An instance of TorLauncher for TLC: two Tor windows, and tors enough for  *)
(* every launch and relaunch. What happens after a hasty event is not looked *)
(* at: no property says anything of it.                                      *)
EXTENDS TorLauncher

NotHasty == ~hasty
=============================================================================
