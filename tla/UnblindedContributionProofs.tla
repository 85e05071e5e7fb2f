-------------------- MODULE UnblindedContributionProofs --------------------
(***************************************************************************)
(* Theorems about UnblindedContribution, for every number of contributions,*)
(* tokens and publishers and any number of crashes and failed transactions.*)
(***************************************************************************)
EXTENDS UnblindedContribution, FiniteSetTheorems, TLAPS

(***************************************************************************)
(* Types of the helpers                                                    *)
(***************************************************************************)
\* A continuation that waits for nothing is one.
LEMMA IdleType == Idle \in Op
BY DEF Idle, Op, Waits, Results, Steps, RetryCounts, NO, RetryLimit

LEMMA ResultType ==
  ASSUME NEW r \in Results
  PROVE  Result(r) \in Op
<1>1. "OnRetryTimerElapsed" \in Waits /\ "OnResult" \in Waits
  BY DEF Waits
<1>2. [Idle EXCEPT !.at = "OnRetryTimerElapsed"] \in Op
  BY <1>1, IdleType DEF Op
<1>3. [Idle EXCEPT !.at = "OnResult", !.res = r] \in Op
  BY <1>1, IdleType DEF Op
<1> QED
  BY <1>2, <1>3 DEF Result

\* Sets of publishers are finite, and have a cardinality.
LEMMA PublisherSets ==
  ASSUME NEW S \in SUBSET Publishers
  PROVE  Cardinality(S) \in Nat
<1>1. IsFiniteSet(Publishers)
  BY ConstantsAssumption, FS_Interval DEF Publishers
<1>2. IsFiniteSet(S)
  BY <1>1, FS_Subset
<1> QED
  BY <1>2, FS_CardinalityType

LEMMA TokenSets ==
  ASSUME NEW S \in SUBSET Tokens
  PROVE  IsFiniteSet(S) /\ Cardinality(S) \in Nat
<1>1. IsFiniteSet(Tokens)
  BY ConstantsAssumption, FS_Interval DEF Tokens
<1>2. IsFiniteSet(S)
  BY <1>1, FS_Subset
<1> QED
  BY <1>2, FS_CardinalityType

LEMMA WaitType ==
  ASSUME TypeOK, NEW c \in Contributions, NEW next \in Op, Wait(c, next)
  PROVE  op' \in [Contributions -> Op]
BY DEF TypeOK, Wait

LEMMA FailuresType ==
  ASSUME TypeOK, NEW n \in Nat, Failures(n)
  PROVE  dbErrors' \in 0..MaxDbErrors
BY ConstantsAssumption DEF TypeOK, Failures

LEMMA TransactionType ==
  ASSUME TypeOK, NEW ok \in BOOLEAN, Transaction(ok)
  PROVE  dbErrors' \in 0..MaxDbErrors
BY FailuresType DEF Transaction, Failed

LEMMA InfoType ==
  ASSUME TypeOK, NEW c \in Contributions,
         NEW step \in Steps, NEW retry \in RetryCounts
  PROVE  [info EXCEPT ![c].step = step, ![c].retry = retry]
           \in [Contributions -> Info]
BY DEF TypeOK, Info

LEMMA RetryCountsType ==
  /\ -1 \in RetryCounts /\ 0 \in RetryCounts
  /\ \A n \in RetryCounts : Bump(n) \in RetryCounts
BY DEF RetryCounts, RetryLimit, Bump

USE DEF tokenVars, contributionVars, envVars, historyVars

(***************************************************************************)
(* Type correctness, handler by handler                                    *)
(***************************************************************************)
LEMMA CompletedType ==
  ASSUME TypeOK, NEW c \in Contributions, NEW r \in Results,
         ContributionCompleted(c, r)
  PROVE  TypeOK'
<1>1. PICK ok \in BOOLEAN, saved \in BOOLEAN :
        /\ Failures(Failed(ok) + Failed(saved))
        /\ reports' = IF r = "OK" /\ saved THEN [reports EXCEPT ![c] = @ + 1]
                                           ELSE reports
        /\ info' = IF ok
                   THEN [info EXCEPT
                           ![c].step = ConvertResultIntoContributionStep(r),
                           ![c].retry = -1]
                   ELSE info
        /\ Wait(c, [Idle EXCEPT !.at = "ContributionCompletedSaved"])
        /\ UNCHANGED <<rows, tokenVars, posted, envVars>>
  BY DEF ContributionCompleted
<1>2. dbErrors' \in 0..MaxDbErrors
  BY <1>1, FailuresType DEF Failed
<1>3. ConvertResultIntoContributionStep(r) \in Steps
  BY DEF ConvertResultIntoContributionStep, Results, Steps
<1>4. info' \in [Contributions -> Info]
  BY <1>1, <1>3, InfoType, RetryCountsType DEF TypeOK
<1>5. [Idle EXCEPT !.at = "ContributionCompletedSaved"] \in Op
  BY IdleType DEF Op, Waits
<1>6. op' \in [Contributions -> Op]
  BY <1>1, <1>5, WaitType
<1> QED
  BY <1>1, <1>2, <1>4, <1>6 DEF TypeOK

LEMMA OnEntrySavedType ==
  ASSUME TypeOK, NEW c \in Contributions, Start(c)
  PROVE  TypeOK'
<1>1. PICK ok \in BOOLEAN :
        /\ Transaction(ok)
        /\ Wait(c, [Idle EXCEPT !.at = "PrepareTokens",
                                !.toks = IF ok THEN Spendable ELSE {}])
        /\ UNCHANGED <<contributionVars, tokenVars, envVars, historyVars>>
  BY DEF Start
<1>2. [Idle EXCEPT !.at = "PrepareTokens",
                   !.toks = IF ok THEN Spendable ELSE {}] \in Op
  BY IdleType DEF Op, Waits, Spendable
<1>3. op' \in [Contributions -> Op]
  BY <1>1, <1>2, WaitType
<1> QED
  BY <1>1, <1>3, TransactionType DEF TypeOK

LEMMA TakeUntilType ==
  ASSUME NEW list \in SUBSET Tokens, NEW amount
  PROVE  TakeUntil(list, amount) \in SUBSET Tokens
BY DEF TakeUntil

LEMMA MarkReservedType ==
  ASSUME TypeOK, NEW c \in Contributions, NEW list \in SUBSET Tokens,
         MarkUnblindedTokensAsReserved(c, list)
  PROVE  TypeOK'
<1>1. PICK ok \in BOOLEAN, take \in SUBSET list :
        /\ Transaction(ok)
        /\ redeemId' = [t \in Tokens |-> IF t \in take THEN c ELSE redeemId[t]]
        /\ reserved' = reserved \union take
        /\ info' = IF ok THEN [info EXCEPT ![c].step = RESERVE, ![c].retry = 0]
                         ELSE info
        /\ Wait(c, [Idle EXCEPT !.at = "OnMarkReserved", !.toks = list,
                                !.ok = ok /\ list \subseteq reserved',
                                !.step = info[c].step, !.retry = info[c].retry])
        /\ UNCHANGED <<rows, redeemed, envVars, historyVars>>
  BY DEF MarkUnblindedTokensAsReserved
<1>2. RESERVE \in Steps
  BY DEF Steps
<1>3. info' \in [Contributions -> Info]
  BY <1>1, <1>2, InfoType, RetryCountsType DEF TypeOK
<1>4. info[c].step \in Steps /\ info[c].retry \in RetryCounts
  BY DEF TypeOK, Info
<1>5. [Idle EXCEPT !.at = "OnMarkReserved", !.toks = list,
                   !.ok = ok /\ list \subseteq reserved',
                   !.step = info[c].step, !.retry = info[c].retry] \in Op
  BY <1>4, IdleType DEF Op, Waits
<1>6. op' \in [Contributions -> Op]
  BY <1>1, <1>5, WaitType
<1>7. redeemId' \in [Tokens -> Contributions \union {None}] /\ reserved' \subseteq Tokens
  BY <1>1 DEF TypeOK
<1> QED
  BY <1>1, <1>3, <1>6, <1>7, TransactionType DEF TypeOK

LEMMA GiveUpType ==
  ASSUME TypeOK, NEW c \in Contributions, NEW r \in Results, Wait(c, Result(r)),
         UNCHANGED <<contributionVars, tokenVars, envVars, historyVars>>,
         dbErrors' \in 0..MaxDbErrors
  PROVE  TypeOK'
<1>1. op' \in [Contributions -> Op]
  BY WaitType, ResultType
<1> QED
  BY <1>1 DEF TypeOK

LEMMA PrepareTokensType ==
  ASSUME TypeOK, NEW c \in Contributions, PrepareTokens(c)
  PROVE  TypeOK'
<1>1. op[c].toks \in SUBSET Tokens /\ dbErrors \in 0..MaxDbErrors
  BY DEF TypeOK, Op
<1>2. "LEDGER_ERROR" \in Results /\ "NOT_ENOUGH_FUNDS" \in Results
  BY DEF Results
<1>3. CASE Transaction(FALSE) /\ Wait(c, Result("LEDGER_ERROR"))
             /\ UNCHANGED <<contributionVars, tokenVars, envVars, historyVars>>
  BY <1>2, <1>3, GiveUpType, TransactionType
<1>4. CASE Wait(c, Result("NOT_ENOUGH_FUNDS"))
             /\ UNCHANGED <<contributionVars, tokenVars, envVars, historyVars, dbErrors>>
  BY <1>1, <1>2, <1>4, GiveUpType
<1>5. CASE MarkUnblindedTokensAsReserved(c, TakeUntil(op[c].toks, info[c].amount))
  BY <1>1, <1>5, TakeUntilType, MarkReservedType
<1> QED
  BY <1>3, <1>4, <1>5 DEF PrepareTokens

LEMMA UpdateStepPrepareType ==
  ASSUME TypeOK, NEW c \in Contributions, UpdateStepPrepare(c)
  PROVE  TypeOK'
<1>1. PICK ok \in BOOLEAN :
        /\ Transaction(ok)
        /\ info' = IF ok THEN [info EXCEPT ![c].step = PREPARE, ![c].retry = 0]
                         ELSE info
        /\ Wait(c, [Idle EXCEPT !.at = "PrepareStepSaved", !.ok = ok])
        /\ UNCHANGED <<rows, tokenVars, envVars, historyVars>>
  BY DEF UpdateStepPrepare
<1>2. PREPARE \in Steps
  BY DEF Steps
<1>3. info' \in [Contributions -> Info]
  BY <1>1, <1>2, InfoType, RetryCountsType DEF TypeOK
<1>4. [Idle EXCEPT !.at = "PrepareStepSaved", !.ok = ok] \in Op
  BY IdleType DEF Op, Waits
<1>5. op' \in [Contributions -> Op]
  BY <1>1, <1>4, WaitType
<1> QED
  BY <1>1, <1>3, <1>5, TransactionType DEF TypeOK

\* A share is a whole number of votes' worth of the amount.
LEMMA ShareType ==
  ASSUME NEW v \in Nat, NEW a \in Nat, NEW n \in Nat \ {0}
  PROVE  (v * a) \div n \in Nat
<1>1. v * a \in Nat
  OBVIOUS
<1> QED
  BY <1>1

LEMMA VotedRowsType ==
  ASSUME TypeOK, NEW c \in Contributions, NEW list \in SUBSET Tokens, list # {},
         NEW vote \in [list -> Listed(c)]
  PROVE  VotedRows(c, list, vote) \in [Publishers -> Row]
<1> DEFINE Votes(p) == Cardinality({t \in list : vote[t] = p})
           losers == {p \in Listed(c) : Votes(p) = 0}
           winners == {p \in Publishers : Votes(p) > 0}
           before(p) == Cardinality({q \in winners : q <= p})
           rank(p) == Cardinality(losers) + before(p)
           share(p) == (Votes(p) * info[c].amount) \div Cardinality(list)
           kept(p) == Cardinality({q \in losers : rows[c][q].rank <= rows[c][p].rank})
<1>1. \A p \in Publishers : Votes(p) \in Nat
  BY TokenSets
<1>2. Cardinality(list) \in Nat \ {0}
  BY TokenSets, FS_EmptySet
<1>3. info[c].amount \in Nat
  BY DEF TypeOK, Info
<1>4. \A p \in Publishers : share(p) \in Nat
  BY <1>1, <1>2, <1>3, ShareType
<1>5. losers \in SUBSET Publishers /\ winners \in SUBSET Publishers
  BY DEF Listed
<1>6. \A p \in Publishers : rank(p) \in Nat /\ kept(p) \in Nat
  <2>1. Cardinality(losers) \in Nat
    BY <1>5, PublisherSets
  <2>2. ASSUME NEW p \in Publishers
        PROVE  before(p) \in Nat /\ kept(p) \in Nat
    <3>1. /\ {q \in winners : q <= p} \in SUBSET Publishers
          /\ {q \in losers : rows[c][q].rank <= rows[c][p].rank} \in SUBSET Publishers
      BY <1>5
    <3> QED
      BY <3>1, PublisherSets
  <2> HIDE DEF losers, before, kept
  <2> QED
    BY <2>1, <2>2
<1>7. ASSUME NEW p \in Publishers
      PROVE  /\ [rank |-> rank(p), total |-> share(p), contributed |-> 0] \in Row
             /\ [rows[c][p] EXCEPT !.rank = kept(p)] \in Row
             /\ NoRow \in Row
  <2>1. rows[c][p] \in Row
    BY DEF TypeOK
  <2> HIDE DEF rank, share, kept
  <2> QED
    BY <1>4, <1>6, <2>1 DEF Row, NoRow
<1> HIDE DEF rank, share, kept, losers, winners, Votes
<1>8. VotedRows(c, list, vote) =
        [p \in Publishers |->
           CASE p \in winners ->
                  [rank |-> rank(p), total |-> share(p), contributed |-> 0]
             [] p \in losers -> [rows[c][p] EXCEPT !.rank = kept(p)]
             [] OTHER -> NoRow]
  BY DEF VotedRows, rank, share, kept, losers, winners, Votes
<1> QED
  BY <1>7, <1>8

LEMMA PreparePublishersType ==
  ASSUME TypeOK, NEW c \in Contributions, PreparePublishers(c)
  PROVE  TypeOK'
<1>1. /\ op[c].toks \in SUBSET Tokens
      /\ op[c].step \in Steps /\ op[c].retry \in RetryCounts
      /\ "AC_TABLE_EMPTY" \in Results
  BY DEF TypeOK, Op, Results
<1>2. CASE /\ Failures(Failed(op[c].toks = {}))
           /\ Wait(c, Result("AC_TABLE_EMPTY"))
           /\ UNCHANGED <<contributionVars, tokenVars, envVars, historyVars>>
  BY <1>1, <1>2, GiveUpType, FailuresType DEF Failed
<1>3. ASSUME NEW ok \in BOOLEAN, NEW vote \in [op[c].toks -> Listed(c)],
             op[c].toks # {},
             Transaction(ok),
             rows' = IF ok THEN [rows EXCEPT ![c] = VotedRows(c, op[c].toks, vote)]
                           ELSE rows,
             info' = IF ok THEN [info EXCEPT ![c].step = op[c].step,
                                             ![c].retry = op[c].retry]
                           ELSE info,
             Wait(c, [Idle EXCEPT !.at = "OnPrepareAutoContribution", !.ok = ok]),
             UNCHANGED <<tokenVars, envVars, historyVars>>
      PROVE  TypeOK'
  <2>1. rows' \in [Contributions -> [Publishers -> Row]]
    BY <1>1, <1>3, VotedRowsType DEF TypeOK
  <2>2. info' \in [Contributions -> Info]
    BY <1>1, <1>3, InfoType DEF TypeOK
  <2>3. [Idle EXCEPT !.at = "OnPrepareAutoContribution", !.ok = ok] \in Op
    BY IdleType DEF Op, Waits
  <2>4. op' \in [Contributions -> Op]
    BY <1>3, <2>3, WaitType
  <2> QED
    BY <1>3, <2>1, <2>2, <2>4, TransactionType DEF TypeOK
<1> QED
  BY <1>2, <1>3, UpdateStepPrepareType DEF PreparePublishers

LEMMA OnPrepareAutoContributionType ==
  ASSUME TypeOK, NEW c \in Contributions, OnPrepareAutoContribution(c)
  PROVE  TypeOK'
<1>1. "RETRY" \in Results /\ dbErrors \in 0..MaxDbErrors
  BY DEF Results, TypeOK
<1>2. CASE Wait(c, Result("RETRY"))
             /\ UNCHANGED <<contributionVars, tokenVars, envVars, historyVars, dbErrors>>
  BY <1>1, <1>2, GiveUpType
<1> QED
  BY <1>2, UpdateStepPrepareType DEF OnPrepareAutoContribution

LEMMA ReservationAnsweredType ==
  ASSUME TypeOK, NEW c \in Contributions,
         \/ OnMarkUnblindedTokensAsReserved(c)
         \/ OnReservedUnblindedTokensForRetryAttempt(c)
  PROVE  TypeOK'
<1>1. "LEDGER_ERROR" \in Results /\ dbErrors \in 0..MaxDbErrors
  BY DEF Results, TypeOK
<1>2. CASE Wait(c, Result("LEDGER_ERROR"))
             /\ UNCHANGED <<contributionVars, tokenVars, envVars, historyVars, dbErrors>>
  BY <1>1, <1>2, GiveUpType
<1> QED
  BY <1>2, PreparePublishersType
  DEF OnMarkUnblindedTokensAsReserved, OnReservedUnblindedTokensForRetryAttempt

LEMMA ReservedForType ==
  ASSUME NEW c
  PROVE  ReservedFor(c) \in SUBSET Tokens
BY DEF ReservedFor

LEMMA ProcessTokensType ==
  ASSUME TypeOK, NEW c \in Contributions, ProcessTokens(c)
  PROVE  TypeOK'
<1>1. PICK ok \in BOOLEAN :
        /\ Transaction(ok)
        /\ Wait(c, [Idle EXCEPT !.at = "OnProcessTokens",
                                !.toks = IF ok THEN ReservedFor(c) ELSE {}])
        /\ UNCHANGED <<contributionVars, tokenVars, envVars, historyVars>>
  BY DEF ProcessTokens
<1>2. [Idle EXCEPT !.at = "OnProcessTokens",
                   !.toks = IF ok THEN ReservedFor(c) ELSE {}] \in Op
  BY IdleType, ReservedForType DEF Op, Waits
<1>3. op' \in [Contributions -> Op]
  BY <1>1, <1>2, WaitType
<1> QED
  BY <1>1, <1>3, TransactionType DEF TypeOK

LEMMA PrepareStepSavedType ==
  ASSUME TypeOK, NEW c \in Contributions, PrepareStepSaved(c)
  PROVE  TypeOK'
<1>1. "RETRY" \in Results /\ dbErrors \in 0..MaxDbErrors
  BY DEF Results, TypeOK
<1>2. CASE Wait(c, Result("RETRY"))
             /\ UNCHANGED <<contributionVars, tokenVars, envVars, historyVars, dbErrors>>
  BY <1>1, <1>2, GiveUpType
<1> QED
  BY <1>2, ProcessTokensType DEF PrepareStepSaved

LEMMA OnProcessTokensType ==
  ASSUME TypeOK, NEW c \in Contributions, OnProcessTokens(c)
  PROVE  TypeOK'
<1>1. /\ "RETRY" \in Results /\ "LEDGER_ERROR" \in Results /\ "OK" \in Results
      /\ dbErrors \in 0..MaxDbErrors /\ op[c].toks \in SUBSET Tokens
  BY DEF Results, TypeOK, Op
<1>2. UNCHANGED <<contributionVars, tokenVars, envVars, reports>>
  BY DEF OnProcessTokens
<1>3. CASE Transaction(FALSE) /\ Wait(c, Result("LEDGER_ERROR")) /\ UNCHANGED posted
  BY <1>1, <1>2, <1>3, GiveUpType, TransactionType
<1>4. CASE Wait(c, Result("OK")) /\ UNCHANGED <<posted, dbErrors>>
  BY <1>1, <1>2, <1>4, GiveUpType
<1>5. ASSUME NEW p \in Publishers, UNCHANGED dbErrors,
             RedeemTokens(c, p, TakeUntil(op[c].toks, rows[c][p].total))
      PROVE  TypeOK'
  <2> DEFINE list == TakeUntil(op[c].toks, rows[c][p].total)
  <2>1. list \in SUBSET Tokens
    BY <1>1, TakeUntilType
  <2> HIDE DEF list
  <2>2. CASE Wait(c, Result("RETRY")) /\ UNCHANGED posted
    BY <1>1, <1>2, <1>5, <2>2, GiveUpType
  <2>3. CASE /\ posted' = posted \union (list \X {c} \X {p})
             /\ Wait(c, [Idle EXCEPT !.at = "OnRedeemTokens", !.toks = list,
                                     !.pub = p, !.final = IsLastRow(c, p)])
    <3>1. IsLastRow(c, p) \in BOOLEAN
      BY DEF IsLastRow
    <3>2. [Idle EXCEPT !.at = "OnRedeemTokens", !.toks = list,
                       !.pub = p, !.final = IsLastRow(c, p)] \in Op
      BY <2>1, <3>1, IdleType DEF Op, Waits
    <3>3. op' \in [Contributions -> Op]
      BY <2>3, <3>2, WaitType
    <3>4. posted' \subseteq Tokens \X Contributions \X Publishers
      BY <2>1, <2>3 DEF TypeOK
    <3> QED
      BY <1>2, <1>5, <3>3, <3>4 DEF TypeOK
  <2> QED
    BY <1>5, <2>2, <2>3 DEF RedeemTokens, list
<1> QED
  BY <1>3, <1>4, <1>5 DEF OnProcessTokens

LEMMA OnRedeemTokensType ==
  ASSUME TypeOK, NEW c \in Contributions, OnRedeemTokens(c)
  PROVE  TypeOK'
<1>1. /\ "RETRY" \in Results /\ dbErrors \in 0..MaxDbErrors
      /\ op[c].toks \in SUBSET Tokens /\ op[c].pub \in Publishers \union {0}
      /\ op[c].final \in BOOLEAN
  BY DEF Results, TypeOK, Op
<1>2. UNCHANGED <<contributionVars, envVars, historyVars>>
  BY DEF OnRedeemTokens
<1>3. CASE Wait(c, Result("RETRY")) /\ UNCHANGED <<tokenVars, dbErrors>>
  BY <1>1, <1>2, <1>3, GiveUpType
<1>4. ASSUME NEW ok \in BOOLEAN,
             Transaction(ok),
             redeemed' = IF ok THEN redeemed \union op[c].toks ELSE redeemed,
             redeemId' = [t \in Tokens |-> IF ok /\ t \in op[c].toks
                                           THEN c ELSE redeemId[t]],
             Wait(c, [Idle EXCEPT !.at = "TokenProcessed", !.ok = ok,
                                  !.pub = op[c].pub, !.final = op[c].final]),
             UNCHANGED reserved
      PROVE  TypeOK'
  <2>1. redeemed' \subseteq Tokens /\ redeemId' \in [Tokens -> Contributions \union {None}]
    BY <1>1, <1>4 DEF TypeOK
  <2>2. [Idle EXCEPT !.at = "TokenProcessed", !.ok = ok,
                     !.pub = op[c].pub, !.final = op[c].final] \in Op
    BY <1>1, IdleType DEF Op, Waits
  <2>3. op' \in [Contributions -> Op]
    BY <1>4, <2>2, WaitType
  <2> QED
    BY <1>2, <1>4, <2>1, <2>3, TransactionType DEF TypeOK
<1> QED
  BY <1>3, <1>4 DEF OnRedeemTokens

LEMMA TokenProcessedType ==
  ASSUME TypeOK, NEW c \in Contributions, TokenProcessed(c)
  PROVE  TypeOK'
<1>1. /\ "RETRY" \in Results /\ dbErrors \in 0..MaxDbErrors
      /\ op[c].pub \in Publishers \union {0} /\ op[c].final \in BOOLEAN
  BY DEF Results, TypeOK, Op
<1>2. UNCHANGED <<info, tokenVars, envVars, historyVars>>
  BY DEF TokenProcessed
<1>3. CASE Wait(c, Result("RETRY")) /\ UNCHANGED <<rows, dbErrors>>
  BY <1>1, <1>2, <1>3, GiveUpType
<1>4. ASSUME NEW ok \in BOOLEAN,
             Transaction(ok),
             rows' = IF ok
                     THEN [rows EXCEPT ![c][op[c].pub].contributed =
                                         rows[c][op[c].pub].total]
                     ELSE rows,
             Wait(c, [Idle EXCEPT !.at = "ContributionAmountSaved",
                                  !.ok = ok, !.final = op[c].final])
      PROVE  TypeOK'
  <2>1. rows' \in [Contributions -> [Publishers -> Row]]
    <3>1. CASE op[c].pub \in Publishers
      BY <1>4, <3>1 DEF TypeOK, Row
    <3>2. CASE op[c].pub \notin Publishers
      BY <1>4, <3>2 DEF TypeOK
    <3> QED
      BY <3>1, <3>2
  <2>2. [Idle EXCEPT !.at = "ContributionAmountSaved",
                     !.ok = ok, !.final = op[c].final] \in Op
    BY <1>1, IdleType DEF Op, Waits
  <2>3. op' \in [Contributions -> Op]
    BY <1>4, <2>2, WaitType
  <2> QED
    BY <1>2, <1>4, <2>1, <2>3, TransactionType DEF TypeOK
<1> QED
  BY <1>3, <1>4 DEF TokenProcessed

LEMMA ContributionAmountSavedType ==
  ASSUME TypeOK, NEW c \in Contributions, ContributionAmountSaved(c)
  PROVE  TypeOK'
<1> DEFINE r == IF ~op[c].final THEN "RETRY_LONG"
                ELSE IF op[c].ok THEN "OK" ELSE "LEDGER_ERROR"
<1>1. r \in Results /\ dbErrors \in 0..MaxDbErrors
  BY DEF Results, TypeOK
<1>2. Wait(c, Result(r))
  BY DEF ContributionAmountSaved
<1> HIDE DEF r
<1> QED
  BY <1>1, <1>2, GiveUpType DEF ContributionAmountSaved

LEMMA OnResultType ==
  ASSUME TypeOK, NEW c \in Contributions, OnResult(c)
  PROVE  TypeOK'
<1>1. op[c].res \in Results /\ dbErrors \in 0..MaxDbErrors
  BY DEF TypeOK, Op
<1>2. CASE /\ Transaction(FALSE)
           /\ Wait(c, Idle)
           /\ UNCHANGED <<contributionVars, tokenVars, envVars, historyVars>>
  <2>1. op' \in [Contributions -> Op]
    BY <1>2, IdleType, WaitType
  <2> QED
    BY <1>2, <2>1, TransactionType DEF TypeOK
<1>3. CASE /\ Wait(c, [Idle EXCEPT !.at = "OnRetryTimerElapsed"])
           /\ UNCHANGED <<contributionVars, tokenVars, envVars, historyVars, dbErrors>>
  <2>1. [Idle EXCEPT !.at = "OnRetryTimerElapsed"] \in Op
    BY IdleType DEF Op, Waits
  <2>2. op' \in [Contributions -> Op]
    BY <1>3, <2>1, WaitType
  <2> QED
    BY <1>3, <2>2 DEF TypeOK
<1> QED
  BY <1>1, <1>2, <1>3, CompletedType DEF OnResult

LEMMA ContributionCompletedSavedType ==
  ASSUME TypeOK, NEW c \in Contributions, ContributionCompletedSaved(c)
  PROVE  TypeOK'
<1>1. PICK ok \in BOOLEAN, release \in SUBSET Tokens :
        /\ Transaction(ok)
        /\ redeemId' = [t \in Tokens |-> IF t \in release THEN None ELSE redeemId[t]]
        /\ reserved' = reserved \ release
  BY DEF ContributionCompletedSaved
<1>2. op' \in [Contributions -> Op]
  BY IdleType, WaitType DEF ContributionCompletedSaved
<1>3. redeemId' \in [Tokens -> Contributions \union {None}] /\ reserved' \subseteq Tokens
  BY <1>1 DEF TypeOK
<1> QED
  BY <1>1, <1>2, <1>3, TransactionType DEF TypeOK, ContributionCompletedSaved

LEMMA OnRetryTimerElapsedType ==
  ASSUME TypeOK, NEW c \in Contributions, OnRetryTimerElapsed(c)
  PROVE  TypeOK'
<1> DEFINE next == [Idle EXCEPT !.at = "SetRetryCounter",
                                !.step = info[c].step, !.retry = info[c].retry]
<1>1. info[c].step \in Steps /\ info[c].retry \in RetryCounts
  BY DEF TypeOK, Info
<1>2. next \in Op
  BY <1>1, IdleType DEF Op, Waits
<1>3. \/ Transaction(FALSE) /\ Wait(c, Idle)
      \/ Wait(c, next) /\ UNCHANGED dbErrors
  BY DEF OnRetryTimerElapsed
<1> HIDE DEF next
<1>4. op' \in [Contributions -> Op]
  BY <1>2, <1>3, IdleType, WaitType
<1>5. dbErrors' \in 0..MaxDbErrors
  BY <1>3, TransactionType DEF TypeOK
<1> QED
  BY <1>4, <1>5 DEF TypeOK, OnRetryTimerElapsed

LEMMA SetRetryCounterType ==
  ASSUME TypeOK, NEW c \in Contributions, SetRetryCounter(c)
  PROVE  TypeOK'
<1>1. CASE ContributionCompleted(c, "TOO_MANY_RESULTS")
  BY <1>1, CompletedType DEF Results
<1>2. ASSUME NEW ok \in BOOLEAN,
             Transaction(ok),
             info' = IF ok THEN [info EXCEPT ![c].step = op[c].step,
                                             ![c].retry = Bump(op[c].retry)]
                           ELSE info,
             Wait(c, [op[c] EXCEPT !.at = "Retry", !.ok = ok]),
             UNCHANGED <<rows, tokenVars, envVars, historyVars>>
      PROVE  TypeOK'
  <2>1. op[c].step \in Steps /\ Bump(op[c].retry) \in RetryCounts
    BY RetryCountsType DEF TypeOK, Op
  <2>2. info' \in [Contributions -> Info]
    BY <1>2, <2>1, InfoType DEF TypeOK
  <2>3. [op[c] EXCEPT !.at = "Retry", !.ok = ok] \in Op
    BY DEF TypeOK, Op, Waits
  <2>4. op' \in [Contributions -> Op]
    BY <1>2, <2>3, WaitType
  <2> QED
    BY <1>2, <2>2, <2>4, TransactionType DEF TypeOK
<1> QED
  BY <1>1, <1>2 DEF SetRetryCounter

LEMMA RetryReserveType ==
  ASSUME TypeOK, NEW c \in Contributions, RetryReserve(c)
  PROVE  TypeOK'
<1>1. PICK ok \in BOOLEAN :
        /\ Transaction(ok)
        /\ Wait(c, [op[c] EXCEPT !.at = "OnReservedForRetry", !.ok = TRUE,
                                 !.toks = IF ok THEN ReservedFor(c) ELSE {}])
        /\ UNCHANGED <<contributionVars, tokenVars, envVars, historyVars>>
  BY DEF RetryReserve
<1>2. [op[c] EXCEPT !.at = "OnReservedForRetry", !.ok = TRUE,
                    !.toks = IF ok THEN ReservedFor(c) ELSE {}] \in Op
  <2> DEFINE toks == IF ok THEN ReservedFor(c) ELSE {}
  <2>1. toks \in SUBSET Tokens /\ op[c] \in Op
    BY ReservedForType DEF TypeOK
  <2> HIDE DEF toks
  <2>2. [op[c] EXCEPT !.at = "OnReservedForRetry", !.ok = TRUE, !.toks = toks] \in Op
    BY <2>1 DEF Op, Waits
  <2> QED
    BY <2>2 DEF toks
<1>3. op' \in [Contributions -> Op]
  BY <1>1, <1>2, WaitType
<1> QED
  BY <1>1, <1>3, TransactionType DEF TypeOK

LEMMA RetryType ==
  ASSUME TypeOK, NEW c \in Contributions, Retry(c)
  PROVE  TypeOK'
<1>1. CASE Wait(c, Idle) /\ UNCHANGED <<contributionVars, tokenVars, envVars,
                                        historyVars, dbErrors>>
  <2>1. op' \in [Contributions -> Op]
    BY <1>1, IdleType, WaitType
  <2> QED
    BY <1>1, <2>1 DEF TypeOK
<1>2. CASE ContributionCompleted(c, "AC_OFF")
  BY <1>2, CompletedType DEF Results
<1>3. CASE Start(c)
  BY <1>3, OnEntrySavedType
<1>4. CASE ProcessTokens(c)
  BY <1>4, ProcessTokensType
<1>5. CASE RetryReserve(c)
  BY <1>5, RetryReserveType
<1> QED
  BY <1>1, <1>2, <1>3, <1>4, <1>5 DEF Retry

LEMMA HandlerType ==
  ASSUME TypeOK, NEW c \in Contributions, Handler(c)
  PROVE  TypeOK'
<1>1. CASE OnEntrySaved(c)
  BY <1>1, OnEntrySavedType DEF OnEntrySaved
<1> QED
  BY <1>1, PrepareTokensType, ReservationAnsweredType,
     OnPrepareAutoContributionType, PrepareStepSavedType, OnProcessTokensType,
     OnRedeemTokensType, TokenProcessedType, ContributionAmountSavedType,
     OnResultType, ContributionCompletedSavedType, OnRetryTimerElapsedType,
     SetRetryCounterType, RetryType
  DEF Handler

LEMMA CreateNewEntryType ==
  ASSUME TypeOK, NEW c \in Contributions, CreateNewEntry(c)
  PROVE  TypeOK'
<1>1. PICK type \in Types, amount \in Amounts, S \in (SUBSET Publishers) \ {{}} :
        /\ \E share \in [1..amount -> S], rank \in [S -> 1..Cardinality(S)] :
             rows' = [rows EXCEPT ![c] = SharedRows(S, share, rank)]
        /\ info' = [info EXCEPT ![c] = [type |-> type, amount |-> amount,
                                        step |-> START, retry |-> 0]]
  BY DEF CreateNewEntry
<1>2. PICK share \in [1..amount -> S], rank \in [S -> 1..Cardinality(S)] :
        rows' = [rows EXCEPT ![c] = SharedRows(S, share, rank)]
  BY <1>1
<1>3. amount \in Nat
  BY ConstantsAssumption
<1>4. Cardinality(S) \in Nat
  BY PublisherSets
<1>5. ASSUME NEW p \in Publishers
      PROVE  Cardinality({i \in DOMAIN share : share[i] = p}) \in Nat
  <2>1. IsFiniteSet(1..amount)
    BY <1>3, FS_Interval
  <2>2. {i \in DOMAIN share : share[i] = p} \subseteq 1..amount
    BY <1>2
  <2> QED
    BY <2>1, <2>2, FS_Subset, FS_CardinalityType
<1>6. SharedRows(S, share, rank) \in [Publishers -> Row]
  BY <1>2, <1>4, <1>5 DEF SharedRows, Row, NoRow
<1>7. rows' \in [Contributions -> [Publishers -> Row]]
  BY <1>2, <1>6 DEF TypeOK
<1>8. type \in {"TIP", "AC"} /\ START \in Steps /\ 0 \in RetryCounts
  BY <1>1, ConstantsAssumption, RetryCountsType DEF Steps
<1>9. info' \in [Contributions -> Info]
  BY <1>1, <1>3, <1>8 DEF TypeOK, Info
<1>10. [Idle EXCEPT !.at = "OnEntrySaved"] \in Op
  BY IdleType DEF Op, Waits
<1>11. op' \in [Contributions -> Op]
  BY <1>10, WaitType DEF CreateNewEntry
<1> QED
  BY <1>7, <1>9, <1>11 DEF TypeOK, CreateNewEntry

LEMMA RestartType ==
  ASSUME TypeOK, Restart
  PROVE  TypeOK'
<1>1. reports' \in [Contributions -> Nat]
  <2>1. reports \in [Contributions -> Nat]
    BY DEF TypeOK
  <2>2. \/ reports' = reports
        \/ \E c \in Contributions : reports' = [reports EXCEPT ![c] = @ + 1]
    BY DEF Restart
  <2> QED
    BY <2>1, <2>2
<1>2. PICK ok \in BOOLEAN :
        /\ Transaction(ok)
        /\ op' = [c \in Contributions |->
                    IF ok /\ NotCompleted(c)
                    THEN [Idle EXCEPT !.at = "SetRetryCounter",
                                      !.step = info[c].step,
                                      !.retry = info[c].retry]
                    ELSE Idle]
  BY DEF Restart
<1>3. ASSUME NEW c \in Contributions
      PROVE  [Idle EXCEPT !.at = "SetRetryCounter", !.step = info[c].step,
                          !.retry = info[c].retry] \in Op
  BY IdleType DEF TypeOK, Info, Op, Waits
<1>4. op' \in [Contributions -> Op]
  BY <1>2, <1>3, IdleType
<1>5. crashes' \in 0..MaxCrashes
  <2>1. crashes \in 0..MaxCrashes /\ crashes < MaxCrashes /\ crashes' = crashes + 1
    BY DEF TypeOK, Restart
  <2> QED
    BY <2>1, ConstantsAssumption
<1>6. UNCHANGED <<contributionVars, tokenVars, expired, acEnabled, posted>>
  BY DEF Restart
<1> QED
  BY <1>1, <1>2, <1>4, <1>5, <1>6, TransactionType DEF TypeOK

LEMMA InitType == Init => TypeOK
BY ConstantsAssumption, IdleType
DEF Init, TypeOK, Info, NoInfo, Row, NoRow, Steps, RetryCounts, RetryLimit

LEMMA NextType ==
  ASSUME TypeOK, [Next]_vars
  PROVE  TypeOK'
<1>1. ASSUME NEW c \in Contributions, CreateNewEntry(c) \/ Handler(c)
      PROVE  TypeOK'
  BY <1>1, CreateNewEntryType, HandlerType
<1>2. CASE Restart
  BY <1>2, RestartType
<1>3. CASE SetAutoContributeEnabled
  BY <1>3 DEF SetAutoContributeEnabled, TypeOK
<1>4. ASSUME NEW t \in Expirable, Expire(t)
      PROVE  TypeOK'
  BY <1>4, ConstantsAssumption DEF Expire, TypeOK, Tokens
<1>5. CASE UNCHANGED vars
  BY <1>5 DEF vars, TypeOK
<1> QED
  BY <1>1, <1>2, <1>3, <1>4, <1>5 DEF Next

\* Every value the ledger keeps stays one the code can store: steps, retry
\* counts, row ranks and the bound values of every callback.
THEOREM TypeCorrect == Spec => []TypeOK
BY InitType, NextType, PTL DEF Spec

(***************************************************************************)
(* What a handler of contribution c does to the tokens: one of the five    *)
(* effects of TokenLedger (the first is a stutter).                        *)
(***************************************************************************)
InFlightAt == {"OnProcessTokens", "OnRedeemTokens"}

LeavesTokens(c) ==
  /\ UNCHANGED <<tokenVars, posted>>
  /\ op'[c].at # "OnRedeemTokens"
  /\ op'[c].at = "OnProcessTokens" => op'[c].toks \subseteq ReservedFor(c)

ReservesTokens(c) ==
  \E take \in SUBSET Tokens :
    /\ take \intersect reserved = {} /\ take \intersect redeemed = {}
    /\ redeemId' = [t \in Tokens |-> IF t \in take THEN c ELSE redeemId[t]]
    /\ reserved' = reserved \union take
    /\ op'[c].at \notin InFlightAt
    /\ UNCHANGED <<redeemed, posted>>

VotesWithTokens(c) ==
  \E p \in Publishers, list \in SUBSET op[c].toks :
    /\ op[c].at = "OnProcessTokens"
    /\ posted' = posted \union (list \X {c} \X {p})
    /\ op'[c].at = "OnRedeemTokens" /\ op'[c].toks = list /\ op'[c].pub = p
    /\ UNCHANGED tokenVars

SpendsTokens(c) ==
  /\ op[c].at = "OnRedeemTokens"
  /\ redeemed' = redeemed \union op[c].toks
  /\ redeemId' = [t \in Tokens |-> IF t \in op[c].toks THEN c ELSE redeemId[t]]
  /\ op'[c].at \notin InFlightAt
  /\ UNCHANGED <<reserved, posted>>

ReleasesTokens(c) ==
  /\ redeemId' = [t \in Tokens |-> IF redeemId[t] = c /\ t \notin redeemed
                                   THEN None ELSE redeemId[t]]
  /\ reserved' = {t \in reserved : ~(redeemId[t] = c /\ t \notin redeemed)}
  /\ op'[c].at = "idle"
  /\ UNCHANGED <<redeemed, posted>>

TokenEffect(c) == \/ LeavesTokens(c) \/ ReservesTokens(c) \/ VotesWithTokens(c)
                  \/ SpendsTokens(c) \/ ReleasesTokens(c)

(***************************************************************************)
(* What it does to the contribution itself: unless only the release of its *)
(* tokens was left, it goes on to a step in progress or completes, and     *)
(* reports itself only when it completes.                                  *)
(***************************************************************************)
CopyAt == {"OnMarkReserved", "OnReservedForRetry", "SetRetryCounter"}

Frame(c) ==
  /\ crashes' = crashes
  /\ \A d \in Contributions \ {c} :
       op'[d] = op[d] /\ info'[d] = info[d] /\ reports'[d] = reports[d]

GoesOn(c) ==
  /\ ~Finished(c)
  /\ \/ info'[c].step = info[c].step
     \/ info'[c].step > 0
     \/ info'[c].step < 0 /\ op'[c].at = "ContributionCompletedSaved"
  /\ \/ reports'[c] = reports[c]
     \/ reports'[c] = reports[c] + 1 /\ op'[c].at = "ContributionCompletedSaved"
  /\ op'[c].at \in CopyAt => op'[c].step > 0

Winds(c) == \* the release of the tokens ends the contribution
  /\ op[c].at = "ContributionCompletedSaved" /\ op'[c].at = "idle"
  /\ info'[c] = info[c] /\ reports'[c] = reports[c]

Effect(c) == TokenEffect(c) /\ Frame(c) /\ (GoesOn(c) \/ Winds(c))

\* A contribution that has a continuation is in progress.
LEMMA InProgressUntilFinished ==
  ASSUME TypeOK, ContinuationMatchesStep, NEW c \in Contributions, ~Finished(c)
  PROVE  info[c].step > 0
<1>1. info[c].step \in Steps
  BY DEF TypeOK, Info
<1>2. info[c].step # NO /\ ~(info[c].step < 0)
  BY DEF ContinuationMatchesStep, Finished
<1> QED
  BY <1>1, <1>2 DEF Steps, NO, START, PREPARE, RESERVE, COMPLETED, FAILED,
     NOT_ENOUGH_FUNDS, AC_TABLE_EMPTY, AC_OFF, RETRY_COUNT

LEMMA WaitFrame ==
  ASSUME TypeOK, NEW c \in Contributions, NEW next, Wait(c, next)
  PROVE  op'[c] = next /\ \A d \in Contributions \ {c} : op'[d] = op[d]
BY DEF TypeOK, Wait

\* A handler that touches neither the tokens nor the database rows.
LEMMA WaitsOnly ==
  ASSUME TypeOK, NEW c \in Contributions, NEW next, Wait(c, next), ~Finished(c),
         UNCHANGED <<info, tokenVars, envVars, historyVars>>,
         next.at # "OnRedeemTokens",
         next.at = "OnProcessTokens" => next.toks \subseteq ReservedFor(c),
         next.at \in CopyAt => next.step > 0
  PROVE  Effect(c)
<1>1. op'[c] = next /\ \A d \in Contributions \ {c} : op'[d] = op[d]
  BY WaitFrame
<1>2. LeavesTokens(c)
  BY <1>1 DEF LeavesTokens
<1>3. Frame(c) /\ GoesOn(c)
  BY <1>1 DEF Frame, GoesOn
<1> QED
  BY <1>2, <1>3 DEF Effect, TokenEffect

LEMMA WaitsForResult ==
  ASSUME TypeOK, NEW c \in Contributions, NEW r, Wait(c, Result(r)), ~Finished(c),
         UNCHANGED <<info, tokenVars, envVars, historyVars>>
  PROVE  Effect(c)
<1>1. Result(r).at \in {"OnRetryTimerElapsed", "OnResult"}
  BY DEF Result, Idle
<1> HIDE DEF Result
<1> QED
  BY <1>1, WaitsOnly DEF CopyAt

\* A handler that saves the contribution with a step in progress.
LEMMA WaitsWithStep ==
  ASSUME TypeOK, NEW c \in Contributions, NEW next, Wait(c, next), ~Finished(c),
         NEW ok \in BOOLEAN, NEW step, step > 0, NEW retry,
         info' = IF ok THEN [info EXCEPT ![c].step = step, ![c].retry = retry]
                       ELSE info,
         UNCHANGED <<tokenVars, envVars, historyVars>>,
         next.at \notin InFlightAt \union CopyAt
  PROVE  Effect(c)
<1>1. op'[c] = next /\ \A d \in Contributions \ {c} : op'[d] = op[d]
  BY WaitFrame
<1>2. LeavesTokens(c)
  BY <1>1 DEF LeavesTokens, InFlightAt
<1>3. /\ info'[c].step = info[c].step \/ info'[c].step = step
      /\ \A d \in Contributions \ {c} : info'[d] = info[d]
  BY DEF TypeOK, Info
<1>4. Frame(c) /\ GoesOn(c)
  BY <1>1, <1>3 DEF Frame, GoesOn
<1> QED
  BY <1>2, <1>4 DEF Effect, TokenEffect

LEMMA CompletedEffect ==
  ASSUME TypeOK, NEW c \in Contributions, NEW r \in Results, ~Finished(c),
         ContributionCompleted(c, r)
  PROVE  Effect(c)
<1>1. PICK ok \in BOOLEAN, saved \in BOOLEAN :
        /\ reports' = IF r = "OK" /\ saved THEN [reports EXCEPT ![c] = @ + 1]
                                           ELSE reports
        /\ info' = IF ok
                   THEN [info EXCEPT
                           ![c].step = ConvertResultIntoContributionStep(r),
                           ![c].retry = -1]
                   ELSE info
        /\ Wait(c, [Idle EXCEPT !.at = "ContributionCompletedSaved"])
        /\ UNCHANGED <<rows, tokenVars, posted, envVars>>
  BY DEF ContributionCompleted
<1>2. ConvertResultIntoContributionStep(r) < 0
  BY DEF ConvertResultIntoContributionStep, COMPLETED, AC_TABLE_EMPTY,
     NOT_ENOUGH_FUNDS, AC_OFF, RETRY_COUNT, FAILED
<1>3. op'[c].at = "ContributionCompletedSaved"
      /\ \A d \in Contributions \ {c} : op'[d] = op[d]
  BY <1>1 DEF Wait, TypeOK, Idle
<1>4. /\ info'[c].step = info[c].step \/ info'[c].step < 0
      /\ \A d \in Contributions \ {c} : info'[d] = info[d]
  <2> DEFINE step == ConvertResultIntoContributionStep(r)
  <2>1. step < 0 /\ info' = IF ok THEN [info EXCEPT ![c].step = step, ![c].retry = -1]
                                  ELSE info
    BY <1>1, <1>2
  <2> HIDE DEF step
  <2> QED
    BY <2>1 DEF TypeOK, Info
<1>5. /\ reports'[c] = reports[c] \/ reports'[c] = reports[c] + 1
      /\ \A d \in Contributions \ {c} : reports'[d] = reports[d]
  BY <1>1 DEF TypeOK
<1>6. LeavesTokens(c)
  BY <1>1, <1>3 DEF LeavesTokens
<1>7. Frame(c) /\ GoesOn(c)
  BY <1>1, <1>3, <1>4, <1>5 DEF Frame, GoesOn, CopyAt
<1> QED
  BY <1>6, <1>7 DEF Effect, TokenEffect

(***************************************************************************)
(* The effect of each handler                                              *)
(***************************************************************************)
LEMMA StartEffect ==
  ASSUME TypeOK, NEW c \in Contributions, ~Finished(c), Start(c)
  PROVE  Effect(c)
<1>1. PICK ok \in BOOLEAN :
        /\ Wait(c, [Idle EXCEPT !.at = "PrepareTokens",
                                !.toks = IF ok THEN Spendable ELSE {}])
        /\ UNCHANGED <<contributionVars, tokenVars, envVars, historyVars>>
  BY DEF Start
<1> DEFINE next == [Idle EXCEPT !.at = "PrepareTokens",
                                !.toks = IF ok THEN Spendable ELSE {}]
<1>2. next.at = "PrepareTokens"
  BY DEF Idle
<1>3. Wait(c, next)
  BY <1>1
<1> HIDE DEF next
<1> QED
  BY <1>1, <1>2, <1>3, WaitsOnly DEF CopyAt

LEMMA MarkReservedEffect ==
  ASSUME TypeOK, ContinuationMatchesStep,
         NEW c \in Contributions, NEW list \in SUBSET Tokens, ~Finished(c),
         MarkUnblindedTokensAsReserved(c, list)
  PROVE  Effect(c)
<1>1. PICK ok \in BOOLEAN :
        \E take \in SUBSET list :
        /\ take \intersect reserved = {} /\ take \intersect redeemed = {}
        /\ redeemId' = [t \in Tokens |-> IF t \in take THEN c ELSE redeemId[t]]
        /\ reserved' = reserved \union take
        /\ info' = IF ok THEN [info EXCEPT ![c].step = RESERVE, ![c].retry = 0]
                         ELSE info
        /\ Wait(c, [Idle EXCEPT !.at = "OnMarkReserved", !.toks = list,
                                !.ok = ok /\ list \subseteq reserved',
                                !.step = info[c].step, !.retry = info[c].retry])
        /\ UNCHANGED <<rows, redeemed, envVars, historyVars>>
  BY DEF MarkUnblindedTokensAsReserved
<1>2. /\ op'[c].at = "OnMarkReserved" /\ op'[c].step = info[c].step
      /\ \A d \in Contributions \ {c} : op'[d] = op[d]
  BY <1>1 DEF Wait, TypeOK, Idle
<1>3. ReservesTokens(c)
  BY <1>1, <1>2 DEF ReservesTokens, InFlightAt
<1>4. /\ info'[c].step = info[c].step \/ info'[c].step > 0
      /\ \A d \in Contributions \ {c} : info'[d] = info[d]
  BY <1>1 DEF TypeOK, Info, RESERVE
<1>5. Frame(c) /\ GoesOn(c)
  BY <1>1, <1>2, <1>4, InProgressUntilFinished DEF Frame, GoesOn
<1> QED
  BY <1>3, <1>5 DEF Effect, TokenEffect

LEMMA PrepareTokensEffect ==
  ASSUME TypeOK, ContinuationMatchesStep, NEW c \in Contributions, PrepareTokens(c)
  PROVE  Effect(c)
<1>1. op[c].toks \in SUBSET Tokens /\ ~Finished(c)
  BY DEF TypeOK, Op, PrepareTokens, Finished
<1>2. ASSUME NEW r, Wait(c, Result(r)),
             UNCHANGED <<contributionVars, tokenVars, envVars, historyVars>>
      PROVE  Effect(c)
  BY <1>1, <1>2, WaitsForResult
<1>3. CASE MarkUnblindedTokensAsReserved(c, TakeUntil(op[c].toks, info[c].amount))
  BY <1>1, <1>3, TakeUntilType, MarkReservedEffect
<1> QED
  BY <1>2, <1>3 DEF PrepareTokens

LEMMA UpdateStepPrepareEffect ==
  ASSUME TypeOK, NEW c \in Contributions, ~Finished(c), UpdateStepPrepare(c)
  PROVE  Effect(c)
<1>1. PICK ok \in BOOLEAN :
        /\ info' = IF ok THEN [info EXCEPT ![c].step = PREPARE, ![c].retry = 0]
                         ELSE info
        /\ Wait(c, [Idle EXCEPT !.at = "PrepareStepSaved", !.ok = ok])
        /\ UNCHANGED <<rows, tokenVars, envVars, historyVars>>
  BY DEF UpdateStepPrepare
<1> DEFINE next == [Idle EXCEPT !.at = "PrepareStepSaved", !.ok = ok]
<1>2. next.at \notin InFlightAt \union CopyAt /\ PREPARE > 0
  BY DEF Idle, InFlightAt, CopyAt, PREPARE
<1>3. Wait(c, next)
  BY <1>1
<1> HIDE DEF next
<1> QED
  BY <1>1, <1>2, <1>3, WaitsWithStep

\* The record an auto contribution saves again is the copy that was read.
LEMMA PreparePublishersEffect ==
  ASSUME TypeOK, CopyInProgress, NEW c \in Contributions,
         op[c].at \in {"OnMarkReserved", "OnReservedForRetry"},
         PreparePublishers(c)
  PROVE  Effect(c)
<1>1. ~Finished(c) /\ op[c].step > 0
  BY DEF Finished, CopyInProgress
<1>2. CASE /\ Wait(c, Result("AC_TABLE_EMPTY"))
           /\ UNCHANGED <<contributionVars, tokenVars, envVars, historyVars>>
  BY <1>1, <1>2, WaitsForResult
<1>3. ASSUME NEW ok \in BOOLEAN,
             info' = IF ok THEN [info EXCEPT ![c].step = op[c].step,
                                             ![c].retry = op[c].retry]
                           ELSE info,
             Wait(c, [Idle EXCEPT !.at = "OnPrepareAutoContribution", !.ok = ok]),
             UNCHANGED <<tokenVars, envVars, historyVars>>
      PROVE  Effect(c)
  <2> DEFINE next == [Idle EXCEPT !.at = "OnPrepareAutoContribution", !.ok = ok]
  <2>1. next.at \notin InFlightAt \union CopyAt
    BY DEF Idle, InFlightAt, CopyAt
  <2>2. Wait(c, next)
    BY <1>3
  <2> HIDE DEF next
  <2> QED
    BY <1>1, <1>3, <2>1, <2>2, WaitsWithStep
<1>4. CASE UpdateStepPrepare(c)
  BY <1>1, <1>4, UpdateStepPrepareEffect
<1> QED
  BY <1>2, <1>3, <1>4 DEF PreparePublishers

LEMMA ReservationAnsweredEffect ==
  ASSUME TypeOK, CopyInProgress, NEW c \in Contributions,
         \/ OnMarkUnblindedTokensAsReserved(c)
         \/ OnReservedUnblindedTokensForRetryAttempt(c)
  PROVE  Effect(c)
<1>1. op[c].at \in {"OnMarkReserved", "OnReservedForRetry"}
  BY DEF OnMarkUnblindedTokensAsReserved, OnReservedUnblindedTokensForRetryAttempt
<1>2. CASE /\ Wait(c, Result("LEDGER_ERROR"))
           /\ UNCHANGED <<contributionVars, tokenVars, envVars, historyVars, dbErrors>>
  BY <1>1, <1>2, WaitsForResult DEF Finished
<1> QED
  BY <1>1, <1>2, PreparePublishersEffect
  DEF OnMarkUnblindedTokensAsReserved, OnReservedUnblindedTokensForRetryAttempt

LEMMA OnPrepareAutoContributionEffect ==
  ASSUME TypeOK, NEW c \in Contributions, OnPrepareAutoContribution(c)
  PROVE  Effect(c)
<1>1. ~Finished(c)
  BY DEF OnPrepareAutoContribution, Finished
<1> QED
  BY <1>1, WaitsForResult, UpdateStepPrepareEffect DEF OnPrepareAutoContribution

LEMMA ProcessTokensEffect ==
  ASSUME TypeOK, NEW c \in Contributions, ~Finished(c), ProcessTokens(c)
  PROVE  Effect(c)
<1>1. PICK ok \in BOOLEAN :
        /\ Wait(c, [Idle EXCEPT !.at = "OnProcessTokens",
                                !.toks = IF ok THEN ReservedFor(c) ELSE {}])
        /\ UNCHANGED <<contributionVars, tokenVars, envVars, historyVars>>
  BY DEF ProcessTokens
<1> DEFINE next == [Idle EXCEPT !.at = "OnProcessTokens",
                                !.toks = IF ok THEN ReservedFor(c) ELSE {}]
<1>2. next.at = "OnProcessTokens" /\ next.toks \subseteq ReservedFor(c)
  BY DEF Idle
<1>3. Wait(c, next)
  BY <1>1
<1> HIDE DEF next
<1> QED
  BY <1>1, <1>2, <1>3, WaitsOnly DEF CopyAt

LEMMA PrepareStepSavedEffect ==
  ASSUME TypeOK, NEW c \in Contributions, PrepareStepSaved(c)
  PROVE  Effect(c)
<1>1. ~Finished(c)
  BY DEF PrepareStepSaved, Finished
<1> QED
  BY <1>1, WaitsForResult, ProcessTokensEffect DEF PrepareStepSaved

LEMMA OnProcessTokensEffect ==
  ASSUME TypeOK, NEW c \in Contributions, OnProcessTokens(c)
  PROVE  Effect(c)
<1>1. /\ ~Finished(c) /\ op[c].at = "OnProcessTokens"
      /\ UNCHANGED <<contributionVars, tokenVars, envVars, reports>>
  BY DEF OnProcessTokens, Finished
<1>2. ASSUME NEW r, Wait(c, Result(r)), UNCHANGED posted
      PROVE  Effect(c)
  BY <1>1, <1>2, WaitsForResult
<1>3. ASSUME NEW p \in Publishers, NEW list \in SUBSET op[c].toks,
             posted' = posted \union (list \X {c} \X {p}),
             Wait(c, [Idle EXCEPT !.at = "OnRedeemTokens", !.toks = list,
                                  !.pub = p, !.final = IsLastRow(c, p)])
      PROVE  Effect(c)
  <2>1. /\ op'[c].at = "OnRedeemTokens" /\ op'[c].toks = list /\ op'[c].pub = p
        /\ \A d \in Contributions \ {c} : op'[d] = op[d]
    BY <1>3 DEF Wait, TypeOK, Idle
  <2>2. VotesWithTokens(c)
    BY <1>1, <1>3, <2>1 DEF VotesWithTokens
  <2>3. Frame(c) /\ GoesOn(c)
    BY <1>1, <2>1 DEF Frame, GoesOn, CopyAt
  <2> QED
    BY <2>2, <2>3 DEF Effect, TokenEffect
<1>4. ASSUME NEW p \in Publishers,
             RedeemTokens(c, p, TakeUntil(op[c].toks, rows[c][p].total))
      PROVE  Effect(c)
  <2>1. TakeUntil(op[c].toks, rows[c][p].total) \in SUBSET op[c].toks
    BY DEF TakeUntil
  <2> QED
    BY <1>2, <1>3, <1>4, <2>1 DEF RedeemTokens
<1> QED
  BY <1>2, <1>4 DEF OnProcessTokens

LEMMA OnRedeemTokensEffect ==
  ASSUME TypeOK, NEW c \in Contributions, OnRedeemTokens(c)
  PROVE  Effect(c)
<1>1. /\ ~Finished(c) /\ op[c].at = "OnRedeemTokens"
      /\ UNCHANGED <<contributionVars, envVars, historyVars>>
  BY DEF OnRedeemTokens, Finished
<1>2. CASE Wait(c, Result("RETRY")) /\ UNCHANGED <<tokenVars, dbErrors>>
  BY <1>1, <1>2, WaitsForResult
<1>3. ASSUME NEW ok \in BOOLEAN,
             redeemed' = IF ok THEN redeemed \union op[c].toks ELSE redeemed,
             redeemId' = [t \in Tokens |-> IF ok /\ t \in op[c].toks
                                           THEN c ELSE redeemId[t]],
             Wait(c, [Idle EXCEPT !.at = "TokenProcessed", !.ok = ok,
                                  !.pub = op[c].pub, !.final = op[c].final]),
             UNCHANGED reserved
      PROVE  Effect(c)
  <2>1. /\ op'[c].at = "TokenProcessed"
        /\ \A d \in Contributions \ {c} : op'[d] = op[d]
    BY <1>3 DEF Wait, TypeOK, Idle
  <2>2. ok => SpendsTokens(c)
    BY <1>1, <1>3, <2>1 DEF SpendsTokens, InFlightAt
  <2>3. ~ok => LeavesTokens(c)
    BY <1>1, <1>3, <2>1 DEF LeavesTokens, TypeOK
  <2>4. Frame(c) /\ GoesOn(c)
    BY <1>1, <2>1 DEF Frame, GoesOn, CopyAt
  <2> QED
    BY <2>2, <2>3, <2>4 DEF Effect, TokenEffect
<1> QED
  BY <1>2, <1>3 DEF OnRedeemTokens

LEMMA TokenProcessedEffect ==
  ASSUME TypeOK, NEW c \in Contributions, TokenProcessed(c)
  PROVE  Effect(c)
<1>1. ~Finished(c) /\ UNCHANGED <<info, tokenVars, envVars, historyVars>>
  BY DEF TokenProcessed, Finished
<1>2. CASE Wait(c, Result("RETRY"))
  BY <1>1, <1>2, WaitsForResult
<1>3. ASSUME NEW ok \in BOOLEAN,
             Wait(c, [Idle EXCEPT !.at = "ContributionAmountSaved",
                                  !.ok = ok, !.final = op[c].final])
      PROVE  Effect(c)
  <2> DEFINE next == [Idle EXCEPT !.at = "ContributionAmountSaved",
                                  !.ok = ok, !.final = op[c].final]
  <2>1. next.at = "ContributionAmountSaved"
    BY DEF Idle
  <2>2. Wait(c, next)
    BY <1>3
  <2> HIDE DEF next
  <2> QED
    BY <1>1, <2>1, <2>2, WaitsOnly DEF CopyAt
<1> QED
  BY <1>2, <1>3 DEF TokenProcessed

LEMMA ContributionAmountSavedEffect ==
  ASSUME TypeOK, NEW c \in Contributions, ContributionAmountSaved(c)
  PROVE  Effect(c)
BY WaitsForResult DEF ContributionAmountSaved, Finished

LEMMA OnResultEffect ==
  ASSUME TypeOK, NEW c \in Contributions, OnResult(c)
  PROVE  Effect(c)
<1>1. ~Finished(c) /\ op[c].res \in Results
  BY DEF OnResult, Finished, TypeOK, Op
<1>2. CASE Wait(c, Idle) /\ UNCHANGED <<info, tokenVars, envVars, historyVars>>
  <2>1. Idle.at = "idle"
    BY DEF Idle
  <2> QED
    BY <1>1, <1>2, <2>1, WaitsOnly DEF CopyAt
<1>3. CASE Wait(c, Result("RETRY"))
           /\ UNCHANGED <<info, tokenVars, envVars, historyVars>>
  BY <1>1, <1>3, WaitsForResult
<1>4. CASE ContributionCompleted(c, op[c].res)
  BY <1>1, <1>4, CompletedEffect
<1> QED
  BY <1>2, <1>3, <1>4 DEF OnResult, Result

LEMMA ContributionCompletedSavedEffect ==
  ASSUME TypeOK, NEW c \in Contributions, ContributionCompletedSaved(c)
  PROVE  Effect(c)
<1>1. /\ op[c].at = "ContributionCompletedSaved" /\ Wait(c, Idle)
      /\ UNCHANGED <<contributionVars, redeemed, envVars, historyVars>>
  BY DEF ContributionCompletedSaved
<1>2. op'[c].at = "idle" /\ \A d \in Contributions \ {c} : op'[d] = op[d]
  BY <1>1 DEF Wait, TypeOK, Idle
<1>3. PICK ok \in BOOLEAN :
        LET release == {t \in Tokens : ok /\ redeemId[t] = c /\ t \notin redeemed}
        IN /\ redeemId' = [t \in Tokens |-> IF t \in release THEN None
                                                            ELSE redeemId[t]]
           /\ reserved' = reserved \ release
  BY DEF ContributionCompletedSaved
<1>4. ASSUME ok PROVE ReleasesTokens(c)
  <2>1. redeemId' = [t \in Tokens |-> IF redeemId[t] = c /\ t \notin redeemed
                                      THEN None ELSE redeemId[t]]
    BY <1>3, <1>4
  <2>2. reserved' = {t \in reserved : ~(redeemId[t] = c /\ t \notin redeemed)}
    BY <1>3, <1>4 DEF TypeOK
  <2> QED
    BY <1>1, <1>2, <2>1, <2>2 DEF ReleasesTokens
<1>5. ~ok => LeavesTokens(c)
  BY <1>1, <1>2, <1>3 DEF LeavesTokens, TypeOK
<1>6. Frame(c) /\ Winds(c)
  BY <1>1, <1>2 DEF Frame, Winds
<1> QED
  BY <1>4, <1>5, <1>6 DEF Effect, TokenEffect

LEMMA OnRetryTimerElapsedEffect ==
  ASSUME TypeOK, ContinuationMatchesStep,
         NEW c \in Contributions, OnRetryTimerElapsed(c)
  PROVE  Effect(c)
<1>1. ~Finished(c) /\ UNCHANGED <<info, tokenVars, envVars, historyVars>>
  BY DEF OnRetryTimerElapsed, Finished
<1> DEFINE next == [Idle EXCEPT !.at = "SetRetryCounter",
                                !.step = info[c].step, !.retry = info[c].retry]
<1>2. next.at = "SetRetryCounter" /\ next.step > 0 /\ Idle.at = "idle"
  BY <1>1, InProgressUntilFinished DEF Idle
<1>3. Wait(c, Idle) \/ Wait(c, next)
  BY DEF OnRetryTimerElapsed
<1> HIDE DEF next
<1> QED
  BY <1>1, <1>2, <1>3, WaitsOnly DEF CopyAt

LEMMA SetRetryCounterEffect ==
  ASSUME TypeOK, CopyInProgress, NEW c \in Contributions, SetRetryCounter(c)
  PROVE  Effect(c)
<1>1. ~Finished(c) /\ op[c].step > 0 /\ op[c] \in Op
  BY DEF SetRetryCounter, Finished, CopyInProgress, TypeOK
<1>2. CASE ContributionCompleted(c, "TOO_MANY_RESULTS")
  BY <1>1, <1>2, CompletedEffect DEF Results
<1>3. ASSUME NEW ok \in BOOLEAN,
             info' = IF ok THEN [info EXCEPT ![c].step = op[c].step,
                                             ![c].retry = Bump(op[c].retry)]
                           ELSE info,
             Wait(c, [op[c] EXCEPT !.at = "Retry", !.ok = ok]),
             UNCHANGED <<rows, tokenVars, envVars, historyVars>>
      PROVE  Effect(c)
  <2> DEFINE next == [op[c] EXCEPT !.at = "Retry", !.ok = ok]
  <2>1. next.at \notin InFlightAt \union CopyAt
    BY <1>1 DEF Op, InFlightAt, CopyAt
  <2>2. Wait(c, next)
    BY <1>3
  <2> HIDE DEF next
  <2> QED
    BY <1>1, <1>3, <2>1, <2>2, WaitsWithStep
<1> QED
  BY <1>2, <1>3 DEF SetRetryCounter

LEMMA RetryEffect ==
  ASSUME TypeOK, NEW c \in Contributions, Retry(c)
  PROVE  Effect(c)
<1>1. ~Finished(c) /\ op[c] \in Op
  BY DEF Retry, Finished, TypeOK
<1>2. CASE Wait(c, Idle) /\ UNCHANGED <<contributionVars, tokenVars, envVars,
                                        historyVars, dbErrors>>
  <2>1. Idle.at = "idle"
    BY DEF Idle
  <2> QED
    BY <1>1, <1>2, <2>1, WaitsOnly DEF CopyAt
<1>3. CASE ContributionCompleted(c, "AC_OFF")
  BY <1>1, <1>3, CompletedEffect DEF Results
<1>4. CASE Start(c)
  BY <1>1, <1>4, StartEffect
<1>5. CASE ProcessTokens(c)
  BY <1>1, <1>5, ProcessTokensEffect
<1>6. ASSUME NEW ok \in BOOLEAN, op[c].step > 0,
             Wait(c, [op[c] EXCEPT !.at = "OnReservedForRetry", !.ok = TRUE,
                                   !.toks = IF ok THEN ReservedFor(c) ELSE {}]),
             UNCHANGED <<contributionVars, tokenVars, envVars, historyVars>>
      PROVE  Effect(c)
  <2> DEFINE next == [op[c] EXCEPT !.at = "OnReservedForRetry", !.ok = TRUE,
                                   !.toks = IF ok THEN ReservedFor(c) ELSE {}]
  <2>1. next.at = "OnReservedForRetry" /\ next.step > 0
    BY <1>1, <1>6 DEF Op
  <2>2. Wait(c, next)
    BY <1>6
  <2> HIDE DEF next
  <2> QED
    BY <1>1, <1>6, <2>1, <2>2, WaitsOnly
<1>7. CASE op[c].step > 0 /\ RetryReserve(c)
  BY <1>6, <1>7 DEF RetryReserve
<1> QED
  BY <1>2, <1>3, <1>4, <1>5, <1>7 DEF Retry

LEMMA HandlerEffect ==
  ASSUME TypeOK, ContinuationMatchesStep, CopyInProgress,
         NEW c \in Contributions, Handler(c)
  PROVE  Effect(c)
<1>1. CASE OnEntrySaved(c)
  BY <1>1, StartEffect DEF OnEntrySaved, Finished
<1> QED
  BY <1>1, PrepareTokensEffect, ReservationAnsweredEffect,
     OnPrepareAutoContributionEffect, PrepareStepSavedEffect,
     OnProcessTokensEffect, OnRedeemTokensEffect, TokenProcessedEffect,
     ContributionAmountSavedEffect, OnResultEffect,
     ContributionCompletedSavedEffect, OnRetryTimerElapsedEffect,
     SetRetryCounterEffect, RetryEffect
  DEF Handler

(***************************************************************************)
(* The invariant is inductive                                              *)
(***************************************************************************)
TokenIInv == HolderIffReserved /\ InFlightTokensHeld /\ InFlightVoted

LEMMA InFlightIsReserved ==
  ASSUME TokenIInv, NEW c \in Contributions, op[c].at \in InFlightAt
  PROVE  \A t \in op[c].toks : redeemId[t] = c /\ t \in reserved /\ t \notin redeemed
BY DEF TokenIInv, InFlightTokensHeld, InFlight, InFlightAt

LEMMA HolderStep ==
  ASSUME TypeOK, TokenIInv, NEW c \in Contributions, TokenEffect(c)
  PROVE  HolderIffReserved'
<1>1. /\ \A t \in Tokens : redeemId[t] # None <=> t \in reserved
      /\ redeemed \subseteq reserved /\ reserved \subseteq Tokens /\ c # None
  BY ConstantsAssumption DEF TokenIInv, HolderIffReserved, TypeOK
<1>2. CASE UNCHANGED tokenVars
  BY <1>1, <1>2 DEF HolderIffReserved
<1>3. CASE ReservesTokens(c)
  BY <1>1, <1>3 DEF ReservesTokens, HolderIffReserved
<1>4. CASE SpendsTokens(c)
  <2>1. op[c].toks \subseteq Tokens /\ \A t \in op[c].toks : t \in reserved
    BY <1>4, InFlightIsReserved DEF SpendsTokens, InFlightAt, TypeOK, Op
  <2> QED
    BY <1>1, <1>4, <2>1 DEF SpendsTokens, HolderIffReserved
<1>5. CASE ReleasesTokens(c)
  BY <1>1, <1>5 DEF ReleasesTokens, HolderIffReserved
<1> QED
  BY <1>2, <1>3, <1>4, <1>5 DEF TokenEffect, LeavesTokens, VotesWithTokens

\* The tokens of another contribution's list are not touched: they are neither
\* free nor this contribution's.
LEMMA OthersTokensKept ==
  ASSUME TypeOK, TokenIInv, NEW c \in Contributions, TokenEffect(c),
         NEW t \in Tokens, redeemId[t] # c, t \in reserved, t \notin redeemed
  PROVE  redeemId'[t] = redeemId[t] /\ t \in reserved' /\ t \notin redeemed'
<1>1. CASE UNCHANGED tokenVars
  BY <1>1
<1>2. CASE ReservesTokens(c)
  BY <1>2 DEF ReservesTokens
<1>3. CASE SpendsTokens(c)
  <2>1. \A u \in op[c].toks : redeemId[u] = c
    BY <1>3, InFlightIsReserved DEF SpendsTokens, InFlightAt
  <2> QED
    BY <1>3, <2>1 DEF SpendsTokens
<1>4. CASE ReleasesTokens(c)
  BY <1>4 DEF ReleasesTokens
<1> QED
  BY <1>1, <1>2, <1>3, <1>4 DEF TokenEffect, LeavesTokens, VotesWithTokens

\* The list a contribution has in flight after its own step is its own.
LEMMA OwnTokensHeld ==
  ASSUME TypeOK, TokenIInv, NEW c \in Contributions, TokenEffect(c),
         op'[c].at \in InFlightAt, NEW t \in op'[c].toks
  PROVE  redeemId'[t] = c /\ t \in reserved' /\ t \notin redeemed'
<1>1. CASE LeavesTokens(c)
  BY <1>1 DEF LeavesTokens, InFlightAt, ReservedFor
<1>2. CASE VotesWithTokens(c)
  <2>1. op[c].at \in InFlightAt /\ t \in op[c].toks /\ UNCHANGED tokenVars
    BY <1>2 DEF VotesWithTokens, InFlightAt
  <2> QED
    BY <2>1, InFlightIsReserved
<1>3. ~ReservesTokens(c) /\ ~SpendsTokens(c) /\ ~ReleasesTokens(c)
  BY DEF ReservesTokens, SpendsTokens, ReleasesTokens, InFlightAt
<1> QED
  BY <1>1, <1>2, <1>3 DEF TokenEffect

LEMMA InFlightHeldStep ==
  ASSUME TypeOK, TokenIInv, NEW c \in Contributions, TokenEffect(c), Frame(c)
  PROVE  InFlightTokensHeld'
<1> SUFFICES ASSUME NEW d \in Contributions, op'[d].at \in InFlightAt,
                    NEW t \in op'[d].toks
             PROVE  redeemId'[t] = d /\ t \in reserved' /\ t \notin redeemed'
  BY DEF InFlightTokensHeld, InFlight, InFlightAt
<1>1. CASE d = c
  BY <1>1, OwnTokensHeld
<1>2. CASE d # c
  <2>1. op'[d] = op[d]
    BY <1>2 DEF Frame
  <2>2. redeemId[t] = d /\ t \in reserved /\ t \notin redeemed /\ t \in Tokens
    BY <2>1, InFlightIsReserved DEF TypeOK, Op
  <2> QED
    BY <1>2, <2>2, OthersTokensKept
<1> QED
  BY <1>1, <1>2

LEMMA VotedStep ==
  ASSUME TypeOK, TokenIInv, NEW c \in Contributions, TokenEffect(c), Frame(c)
  PROVE  InFlightVoted'
<1>1. posted \subseteq posted'
  BY DEF TokenEffect, LeavesTokens, ReservesTokens, VotesWithTokens,
     SpendsTokens, ReleasesTokens
<1> SUFFICES ASSUME NEW d \in Contributions, op'[d].at = "OnRedeemTokens"
             PROVE  /\ op'[d].pub \in Publishers
                    /\ op'[d].toks \X {d} \X {op'[d].pub} \subseteq posted'
  BY DEF InFlightVoted
<1>2. CASE d = c
  <2>1. VotesWithTokens(c)
    BY <1>2 DEF TokenEffect, LeavesTokens, ReservesTokens, SpendsTokens,
       ReleasesTokens, InFlightAt
  <2> QED
    BY <1>2, <2>1 DEF VotesWithTokens
<1>3. CASE d # c
  BY <1>1, <1>3 DEF Frame, TokenIInv, InFlightVoted
<1> QED
  BY <1>2, <1>3

LEMMA ControlStep ==
  ASSUME TypeOK, TypeOK', ContinuationMatchesStep, CopyInProgress,
         NEW c \in Contributions, Frame(c), GoesOn(c) \/ Winds(c)
  PROVE  ContinuationMatchesStep' /\ CopyInProgress'
<1>1. ASSUME NEW d \in Contributions, d # c
      PROVE  /\ info'[d].step = NO => op'[d].at = "idle" /\ reports'[d] = 0
             /\ info'[d].step < 0 => Finished(d)'
             /\ reports'[d] <= crashes' + (IF Finished(d)' THEN 1 ELSE 0)
             /\ op'[d].at \in CopyAt => op'[d].step > 0
  BY <1>1 DEF Frame, ContinuationMatchesStep, CopyInProgress, Finished, CopyAt
<1>2. /\ reports[c] \in Nat /\ reports'[c] \in Nat /\ crashes \in Nat
      /\ info[c].step \in Int /\ info'[c].step \in Int
  <2>1. Steps \subseteq Int
    BY DEF Steps, NO, START, PREPARE, RESERVE, COMPLETED, FAILED,
       NOT_ENOUGH_FUNDS, AC_TABLE_EMPTY, AC_OFF, RETRY_COUNT
  <2>2. reports[c] \in Nat /\ crashes \in Nat /\ info[c].step \in Steps
    BY DEF TypeOK, Info
  <2>3. reports'[c] \in Nat /\ info'[c].step \in Steps
    BY DEF TypeOK, Info
  <2> QED
    BY <2>1, <2>2, <2>3
<1>3. CASE GoesOn(c)
  <2>1. info[c].step > 0 /\ reports[c] <= crashes
    BY <1>2, <1>3, InProgressUntilFinished DEF GoesOn, ContinuationMatchesStep
  <2> QED
    BY <1>1, <1>2, <1>3, <2>1
    DEF GoesOn, Frame, Finished, ContinuationMatchesStep, CopyInProgress, CopyAt, NO
<1>4. CASE Winds(c)
  <2>1. info[c].step # NO /\ reports[c] <= crashes + 1
    BY <1>2, <1>4 DEF Winds, ContinuationMatchesStep, Finished
  <2> QED
    BY <1>1, <1>2, <1>4, <2>1
    DEF Winds, Frame, Finished, ContinuationMatchesStep, CopyInProgress, CopyAt
<1> QED
  BY <1>3, <1>4

LEMMA HandlerPreserves ==
  ASSUME IInv, NEW c \in Contributions, Handler(c)
  PROVE  IInv'
<1>1. TypeOK /\ TokenIInv /\ ContinuationMatchesStep /\ CopyInProgress
  BY DEF IInv, TokenIInv
<1>2. TypeOK' /\ Effect(c)
  BY <1>1, HandlerType, HandlerEffect
<1> QED
  BY <1>1, <1>2, HolderStep, InFlightHeldStep, VotedStep, ControlStep
  DEF Effect, IInv

LEMMA CreateNewEntryPreserves ==
  ASSUME IInv, NEW c \in Contributions, CreateNewEntry(c)
  PROVE  IInv'
<1>1. /\ info[c].step = NO /\ reports[c] = 0 /\ TypeOK
      /\ UNCHANGED <<tokenVars, envVars, historyVars>>
  BY DEF CreateNewEntry, IInv, ContinuationMatchesStep
<1>2. /\ op'[c].at = "OnEntrySaved"
      /\ \A d \in Contributions \ {c} : op'[d] = op[d]
  BY <1>1 DEF CreateNewEntry, Wait, TypeOK, Idle
<1>3. /\ info'[c].step = START
      /\ \A d \in Contributions \ {c} : info'[d] = info[d]
  BY <1>1 DEF CreateNewEntry, TypeOK
<1>4. TypeOK'
  BY <1>1, CreateNewEntryType
<1>5. HolderIffReserved' /\ InFlightTokensHeld' /\ InFlightVoted'
  BY <1>1, <1>2 DEF IInv, HolderIffReserved, InFlightTokensHeld, InFlight, InFlightVoted
<1>6. crashes \in Nat
  BY <1>1 DEF TypeOK
<1>7. ContinuationMatchesStep' /\ CopyInProgress'
  BY <1>1, <1>2, <1>3, <1>6
  DEF IInv, ContinuationMatchesStep, CopyInProgress, Finished, START, NO
<1> QED
  BY <1>4, <1>5, <1>7 DEF IInv

\* Every continuation is lost; what goes on is read from the database.
LEMMA RestartPreserves ==
  ASSUME IInv, Restart
  PROVE  IInv'
<1>1. TypeOK /\ TypeOK'
  BY RestartType DEF IInv
<1>2. /\ crashes' = crashes + 1
      /\ UNCHANGED <<contributionVars, tokenVars, posted>>
  BY DEF Restart
<1>3. ASSUME NEW c \in Contributions
      PROVE  \/ op'[c].at = "idle"
             \/ op'[c].at = "SetRetryCounter" /\ op'[c].step = info[c].step
                  /\ info[c].step > 0
  <2>1. PICK ok \in BOOLEAN :
          op'[c] = IF ok /\ info[c].step > 0
                   THEN [Idle EXCEPT !.at = "SetRetryCounter",
                                     !.step = info[c].step,
                                     !.retry = info[c].retry]
                   ELSE Idle
    BY DEF Restart, NotCompleted
  <2> QED
    BY <2>1 DEF Idle
<1>4. HolderIffReserved' /\ InFlightTokensHeld' /\ InFlightVoted'
  BY <1>2, <1>3 DEF IInv, HolderIffReserved, InFlightTokensHeld, InFlight, InFlightVoted
<1>5. CopyInProgress'
  BY <1>3 DEF CopyInProgress
<1>6. ASSUME NEW c \in Contributions
      PROVE  /\ reports'[c] <= crashes'
             /\ info[c].step = NO => op'[c].at = "idle" /\ reports'[c] = 0
             /\ info[c].step < 0 => op'[c].at = "idle"
  <2>1. info[c].step \in Int /\ reports[c] \in Nat /\ crashes \in Nat
    <3>1. Steps \subseteq Int
      BY DEF Steps, NO, START, PREPARE, RESERVE, COMPLETED, FAILED,
         NOT_ENOUGH_FUNDS, AC_TABLE_EMPTY, AC_OFF, RETRY_COUNT
    <3>2. info[c].step \in Steps /\ reports[c] \in Nat /\ crashes \in Nat
      BY <1>1 DEF TypeOK, Info
    <3> QED
      BY <3>1, <3>2
  <2>2. \/ reports'[c] = reports[c]
        \/ reports'[c] = reports[c] + 1 /\ op[c].at = "OnResult"
    BY <1>1 DEF Restart, TypeOK
  <2>3. /\ op[c].at = "OnResult" => reports[c] <= crashes
        /\ info[c].step = NO => op[c].at = "idle" /\ reports[c] = 0
        /\ reports[c] <= crashes + 1
    BY <2>1 DEF IInv, ContinuationMatchesStep, Finished
  <2>4. reports'[c] <= crashes' /\ (info[c].step = NO => reports'[c] = 0)
    BY <1>2, <2>1, <2>2, <2>3
  <2>5. info[c].step = NO \/ info[c].step < 0 => op'[c].at = "idle"
    BY <1>3, <2>1 DEF NO
  <2> QED
    BY <2>4, <2>5
<1>7. ContinuationMatchesStep'
  <2>1. ASSUME NEW c \in Contributions
        PROVE  /\ info'[c].step = NO => op'[c].at = "idle" /\ reports'[c] = 0
               /\ info'[c].step < 0 => Finished(c)'
               /\ reports'[c] <= crashes' + (IF Finished(c)' THEN 1 ELSE 0)
    <3>1. reports'[c] \in Nat /\ crashes' \in Nat /\ info' = info
      BY <1>1, <1>2 DEF TypeOK
    <3> QED
      BY <1>6, <3>1 DEF Finished
  <2> QED
    BY <2>1 DEF ContinuationMatchesStep
<1> QED
  BY <1>1, <1>4, <1>5, <1>7 DEF IInv

LEMMA QuietPreserves ==
  ASSUME IInv, TypeOK', UNCHANGED <<info, tokenVars, op, posted, reports, crashes>>
  PROVE  IInv'
BY DEF IInv, HolderIffReserved, InFlightTokensHeld, InFlight, InFlightVoted,
   ContinuationMatchesStep, Finished, CopyInProgress

LEMMA InitIInv == Init => IInv
<1> SUFFICES ASSUME Init PROVE IInv
  OBVIOUS
<1>1. \A c \in Contributions : op[c] = Idle /\ info[c] = NoInfo /\ reports[c] = 0
  BY DEF Init
<1>2. Idle.at = "idle" /\ NoInfo.step = NO
  BY DEF Idle, NoInfo
<1>3. HolderIffReserved
  BY DEF Init, HolderIffReserved
<1>4. InFlightTokensHeld /\ InFlightVoted /\ CopyInProgress
  BY <1>1, <1>2 DEF InFlightTokensHeld, InFlight, InFlightVoted, CopyInProgress
<1>5. ContinuationMatchesStep
  BY <1>1, <1>2 DEF Init, ContinuationMatchesStep, Finished, NO
<1> QED
  BY <1>3, <1>4, <1>5, InitType DEF IInv

LEMMA NextIInv ==
  ASSUME IInv, [Next]_vars
  PROVE  IInv'
<1>1. TypeOK'
  BY NextType DEF IInv
<1>2. ASSUME NEW c \in Contributions, CreateNewEntry(c) \/ Handler(c)
      PROVE  IInv'
  BY <1>2, CreateNewEntryPreserves, HandlerPreserves
<1>3. CASE Restart
  BY <1>3, RestartPreserves
<1>4. CASE SetAutoContributeEnabled \/ \E t \in Expirable : Expire(t)
  BY <1>1, <1>4, QuietPreserves DEF SetAutoContributeEnabled, Expire
<1>5. CASE UNCHANGED vars
  BY <1>1, <1>5, QuietPreserves DEF vars
<1> QED
  BY <1>2, <1>3, <1>4, <1>5 DEF Next

\* The inductive invariant holds in every reachable state: a token carries a
\* redeem_id exactly while it is reserved, lists in flight are held by their
\* reader, and a continuation never outlives the final step of its contribution.
THEOREM Inductive == Spec => []IInv
BY InitIInv, NextIInv, PTL DEF Spec

\* Votes are cast and tokens marked spent only while the contribution that
\* read them in OnProcessTokens still holds them.
THEOREM TokensHeldWhileInFlight == Spec => []InFlightTokensHeld
<1>1. IInv => InFlightTokensHeld
  BY DEF IInv
<1> QED
  BY <1>1, Inductive, PTL

\* ContributionCompleted writes one balance report item per run of the process
\* and contribution, whichever of its two transactions fail.
THEOREM ReportedOnce == Spec => []ReportedOncePerRun
<1>1. ASSUME IInv PROVE ReportedOncePerRun
  <2> SUFFICES ASSUME NEW c \in Contributions PROVE reports[c] <= 1 + crashes
    BY DEF ReportedOncePerRun
  <2>1. reports[c] \in Nat /\ crashes \in Nat
    BY <1>1 DEF IInv, TypeOK
  <2>2. reports[c] <= crashes + (IF Finished(c) THEN 1 ELSE 0)
    BY <1>1 DEF IInv, ContinuationMatchesStep
  <2> QED
    BY <2>1, <2>2
<1>2. IInv => ReportedOncePerRun
  BY <1>1
<1> QED
  BY <1>2, Inductive, PTL

\* No handler, retry or restart moves a contribution out of a final step.
THEOREM FinalStepsAreFinal == Spec => FinalIsFinal
<1> DEFINE Final == \A c \in Contributions :
                      info[c].step < 0 => info'[c].step = info[c].step
<1>1. ASSUME IInv, Next PROVE Final
  <2> SUFFICES ASSUME NEW c \in Contributions, info[c].step < 0
               PROVE  info'[c].step = info[c].step
    OBVIOUS
  <2>1. TypeOK /\ ContinuationMatchesStep /\ CopyInProgress /\ Finished(c)
    BY <1>1 DEF IInv, ContinuationMatchesStep
  <2>2. ASSUME NEW d \in Contributions, Handler(d)
        PROVE  info'[c].step = info[c].step
    <3>1. Effect(d)
      BY <2>1, <2>2, HandlerEffect
    <3>2. CASE d = c
      BY <2>1, <3>1, <3>2 DEF Effect, GoesOn, Winds
    <3>3. CASE d # c
      BY <3>1, <3>3 DEF Effect, Frame
    <3> QED
      BY <3>2, <3>3
  <2>3. ASSUME NEW d \in Contributions, CreateNewEntry(d)
        PROVE  info'[c].step = info[c].step
    <3>1. d # c
      BY <2>3 DEF CreateNewEntry, NO
    <3> QED
      BY <2>1, <2>3, <3>1 DEF CreateNewEntry, TypeOK
  <2>4. CASE Restart \/ SetAutoContributeEnabled \/ \E t \in Expirable : Expire(t)
    BY <2>4 DEF Restart, SetAutoContributeEnabled, Expire
  <2> QED
    BY <1>1, <2>2, <2>3, <2>4 DEF Next
<1>2. ASSUME UNCHANGED vars PROVE Final
  BY <1>2 DEF vars
<1>3. IInv /\ [Next]_vars => [Final]_vars
  BY <1>1, <1>2
<1>4. FinalIsFinal <=> [][Final]_vars
  BY PTL DEF FinalIsFinal
<1> HIDE DEF Final
<1> QED
  BY <1>3, <1>4, Inductive, PTL DEF Spec

(***************************************************************************)
(* The token ledger is implemented                                         *)
(***************************************************************************)
LEMMA EffectRefines ==
  ASSUME IInv, TypeOK', NEW c \in Contributions, TokenEffect(c)
  PROVE  [Ledger!Next]_(Ledger!ledgerVars)
<1>1. /\ TypeOK /\ TokenIInv /\ c # None /\ HolderIffReserved
      /\ redeemId \in [Tokens -> Contributions \union {None}]
  BY ConstantsAssumption DEF IInv, TokenIInv, TypeOK
<1>2. CASE LeavesTokens(c)
  BY <1>2 DEF LeavesTokens, Ledger!ledgerVars
<1>3. CASE ReservesTokens(c)
  <2>1. PICK take \in SUBSET Tokens :
          /\ take \intersect reserved = {} /\ take \intersect redeemed = {}
          /\ redeemId' = [t \in Tokens |-> IF t \in take THEN c ELSE redeemId[t]]
          /\ UNCHANGED <<redeemed, posted>>
    BY <1>3 DEF ReservesTokens
  <2>2. take \subseteq Ledger!Free
    BY <1>1, <2>1 DEF HolderIffReserved, Ledger!Free
  <2>3. Ledger!Reserve(c, take)
    BY <2>1, <2>2 DEF Ledger!Reserve
  <2> QED
    BY <2>3 DEF Ledger!Next
<1>4. CASE VotesWithTokens(c)
  <2>1. PICK p \in Publishers, list \in SUBSET op[c].toks :
          /\ op[c].at = "OnProcessTokens"
          /\ posted' = posted \union (list \X {c} \X {p})
          /\ UNCHANGED tokenVars
    BY <1>4 DEF VotesWithTokens
  <2>2. list \in SUBSET Tokens /\ list \subseteq Ledger!Held(c)
    BY <1>1, <2>1, InFlightIsReserved DEF InFlightAt, Ledger!Held, TypeOK, Op
  <2>3. Ledger!Vote(c, p, list)
    BY <2>1, <2>2 DEF Ledger!Vote
  <2> QED
    BY <2>2, <2>3 DEF Ledger!Next
<1>5. CASE SpendsTokens(c)
  <2> DEFINE list == op[c].toks
  <2>1. op[c].at = "OnRedeemTokens" /\ list \in SUBSET Tokens
    BY <1>1, <1>5 DEF SpendsTokens, TypeOK, Op
  <2>2. \A t \in list : redeemId[t] = c /\ t \notin redeemed
    BY <1>1, <2>1, InFlightIsReserved DEF InFlightAt
  <2>3. op[c].pub \in Publishers /\ list \X {c} \X {op[c].pub} \subseteq posted
    BY <1>1, <2>1 DEF TokenIInv, InFlightVoted
  <2>4. redeemId' = redeemId
    BY <1>1, <1>5, <2>2 DEF SpendsTokens
  <2>5. Ledger!Spend(c, op[c].pub, list)
    BY <1>5, <2>1, <2>2, <2>3, <2>4 DEF SpendsTokens, Ledger!Spend, Ledger!Held
  <2> QED
    BY <2>1, <2>3, <2>5 DEF Ledger!Next
<1>6. CASE ReleasesTokens(c)
  <2>1. Ledger!Release(c)
    BY <1>6 DEF ReleasesTokens, Ledger!Release, Ledger!Held
  <2> QED
    BY <2>1 DEF Ledger!Next
<1> QED
  BY <1>2, <1>3, <1>4, <1>5, <1>6 DEF TokenEffect

\* A contribution's handlers reserve, vote, spend and release as the abstract
\* token ledger allows, and everything else leaves the ledger alone.
THEOREM RefinesTokenLedger == Spec => ImplementsTokenLedger
<1>1. Init => Ledger!Init
  BY DEF Init, Ledger!Init
<1>2. ASSUME IInv, [Next]_vars
      PROVE  [Ledger!Next]_(Ledger!ledgerVars)
  <2>1. TypeOK' /\ TypeOK /\ ContinuationMatchesStep /\ CopyInProgress
    BY <1>2, NextType DEF IInv
  <2>2. ASSUME NEW c \in Contributions, Handler(c)
        PROVE  [Ledger!Next]_(Ledger!ledgerVars)
    <3>1. Effect(c)
      BY <2>1, <2>2, HandlerEffect
    <3> QED
      BY <1>2, <2>1, <3>1, EffectRefines DEF Effect
  <2>3. CASE \E c \in Contributions : CreateNewEntry(c)
    BY <2>3 DEF CreateNewEntry, Ledger!ledgerVars
  <2>4. CASE Restart \/ SetAutoContributeEnabled \/ \E t \in Expirable : Expire(t)
    BY <2>4 DEF Restart, SetAutoContributeEnabled, Expire, Ledger!ledgerVars
  <2>5. CASE UNCHANGED vars
    BY <2>5 DEF vars, Ledger!ledgerVars
  <2> QED
    BY <1>2, <2>2, <2>3, <2>4, <2>5 DEF Next
<1> QED
  BY <1>1, <1>2, Inductive, PTL DEF Spec, ImplementsTokenLedger, Ledger!Spec

=============================================================================
