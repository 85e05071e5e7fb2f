------------------------ MODULE MCContributionQueue ------------------------
(***************************************************************************)
(* Instances of ContributionQueue for TLC.  Ids of the same kind are       *)
(* interchangeable.  A balance gives the unblinded tokens, the anonymous   *)
(* card and the Uphold wallet.                                             *)
(***************************************************************************)
EXTENDS ContributionQueue, TLC

(* nothing; more than enough; split over two with the middle one empty *)
FewBalances == {<<0, 0, 0>>, <<5, 0, 0>>, <<1, 0, 1>>}
(* also short of the largest amount, and split over all three *)
ManyBalances == FewBalances \cup {<<0, 1, 0>>, <<1, 1, 1>>}
(* always enough, split or not *)
EnoughBalances == {<<1, 0, 1>>, <<2, 0, 0>>}

Symmetry == Permutations(Tips) \cup Permutations(RecurringTips)
              \cup Permutations(AutoContributions)
=============================================================================
