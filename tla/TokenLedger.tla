---------------------------- MODULE TokenLedger ----------------------------
(***************************************************************************)
(* What the unblinded token table promises to the contributions that share *)
(* it.  A token is free, held by one contribution or spent by one.  Only   *)
(* the holder of a token votes with it, and a token is spent by the        *)
(* contribution that voted with it, once.  How many tokens are reserved,   *)
(* who races with whom and what is retried is left open here.              *)
(***************************************************************************)
CONSTANTS
  Tokens,          \* unblinded tokens
  Contributions,   \* contribution ids
  Publishers,      \* publisher keys
  None             \* nobody's id

VARIABLES
  holder,   \* the contribution a token is held or spent by
  spent,    \* tokens redeemed
  votes     \* <<token, contribution, publisher>>: the votes sent so far

ledgerVars == <<holder, spent, votes>>

Held(c) == {t \in Tokens : holder[t] = c /\ t \notin spent}
Free == {t \in Tokens : holder[t] = None /\ t \notin spent}

Init ==
  /\ holder = [t \in Tokens |-> None]
  /\ spent = {}
  /\ votes = {}

Reserve(c, T) ==
  /\ T \subseteq Free
  /\ holder' = [t \in Tokens |-> IF t \in T THEN c ELSE holder[t]]
  /\ UNCHANGED <<spent, votes>>

Vote(c, p, T) ==
  /\ T \subseteq Held(c)
  /\ votes' = votes \union (T \X {c} \X {p})
  /\ UNCHANGED <<holder, spent>>

Spend(c, p, T) ==
  /\ T \subseteq Held(c)
  /\ T \X {c} \X {p} \subseteq votes
  /\ spent' = spent \union T
  /\ UNCHANGED <<holder, votes>>

Release(c) ==
  /\ holder' = [t \in Tokens |-> IF t \in Held(c) THEN None ELSE holder[t]]
  /\ UNCHANGED <<spent, votes>>

Next ==
  \E c \in Contributions :
    \/ Release(c)
    \/ \E T \in SUBSET Tokens :
         \/ Reserve(c, T)
         \/ \E p \in Publishers : Vote(c, p, T) \/ Spend(c, p, T)

Spec == Init /\ [][Next]_ledgerVars

TypeOK ==
  /\ holder \in [Tokens -> Contributions \union {None}]
  /\ spent \subseteq Tokens
  /\ votes \subseteq Tokens \X Contributions \X Publishers

=============================================================================
