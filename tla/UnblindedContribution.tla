------------------------ MODULE UnblindedContribution ------------------------
(***************************************************************************)
(* A contribution paid with unblinded tokens (processor BRAVE_TOKENS), as  *)
(* contribution/contribution.cc drives it and contribution_unblinded.cc,   *)
(* credentials_promotion.cc and the database tables carry it out.          *)
(*                                                                         *)
(* The ledger is single threaded; concurrency comes from its callbacks.    *)
(* Each contribution has at most one continuation outstanding, op[c]: the  *)
(* reply it waits for (a database transaction, a HTTP response, a timer)   *)
(* with the values bound into the callback.  Transactions run in the order *)
(* they are issued, so a transaction takes effect in the step that issues  *)
(* it and its reply, with the rows it read then, is delivered later:       *)
(* between the two any other contribution may move.                        *)
(*                                                                         *)
(* Amounts are whole numbers; one token is worth TokenValue of them.  An   *)
(* SQL order by row id is a rank (Rows); token ids are their row ids.      *)
(***************************************************************************)
EXTENDS Integers, FiniteSets

CONSTANTS
  Contributions,   \* contribution ids
  None,            \* the empty redeem_id
  NumTokens,       \* unblinded tokens in the database, ids 1..NumTokens
  NumPublishers,   \* publisher keys 1..NumPublishers, in key order
  TokenValue,      \* value of one token
  Types,           \* rewards types created: subset of {"TIP", "AC"}
  Amounts,         \* amounts a contribution may be created with
  Expirable,       \* tokens whose expires_at may pass
  MaxCrashes,      \* bound: process crashes
  MaxDbErrors      \* bound: database transactions that fail

ASSUME ConstantsAssumption ==
  /\ None \notin Contributions
  /\ NumTokens \in Nat /\ NumPublishers \in Nat
  /\ TokenValue \in Nat \ {0}
  /\ Types \subseteq {"TIP", "AC"}
  /\ Amounts \subseteq Nat \ {0}
  /\ Expirable \subseteq 1..NumTokens
  /\ MaxCrashes \in Nat /\ MaxDbErrors \in Nat

VARIABLES
  info,        \* contribution_info: type, amount, step, retry_count
  rows,        \* contribution_info_publishers, by contribution and publisher
  redeemId,    \* unblinded_tokens.redeem_id
  reserved,    \* tokens with reserved_at # 0
  redeemed,    \* tokens with redeemed_at # 0
  expired,     \* tokens with expires_at in the past
  op,          \* the outstanding continuation of each contribution
  acEnabled,   \* preference: auto contribute enabled
  posted,      \* history: votes sent to the server
  reports,     \* history: items saved in the balance report, per contribution
  crashes, dbErrors

vars == <<info, rows, redeemId, reserved, redeemed, expired, op, acEnabled,
          posted, reports, crashes, dbErrors>>

Tokens == 1..NumTokens
Publishers == 1..NumPublishers

(***************************************************************************)
(* Records.  step is type::ContributionStep; the negative steps are final. *)
(***************************************************************************)
NO == 0
START == 1
PREPARE == 2
RESERVE == 3
COMPLETED == -1
FAILED == -2
NOT_ENOUGH_FUNDS == -3
AC_TABLE_EMPTY == -4
AC_OFF == -6
RETRY_COUNT == -7
Steps == {NO, START, PREPARE, RESERVE, COMPLETED, FAILED, NOT_ENOUGH_FUNDS,
          AC_TABLE_EMPTY, AC_OFF, RETRY_COUNT}

\* retry_count is compared with 3 only: 4 stands for every larger value.
RetryLimit == 3
RetryCounts == -1..RetryLimit + 1

Results == {"OK", "LEDGER_ERROR", "NOT_ENOUGH_FUNDS", "AC_TABLE_EMPTY",
            "AC_OFF", "TOO_MANY_RESULTS", "RETRY", "RETRY_LONG"}

ConvertResultIntoContributionStep(r) ==
  CASE r = "OK" -> COMPLETED
    [] r = "AC_TABLE_EMPTY" -> AC_TABLE_EMPTY
    [] r = "NOT_ENOUGH_FUNDS" -> NOT_ENOUGH_FUNDS
    [] r = "AC_OFF" -> AC_OFF
    [] r = "TOO_MANY_RESULTS" -> RETRY_COUNT
    [] OTHER -> FAILED

Info == [type : {"TIP", "AC"}, amount : Nat, step : Steps, retry : RetryCounts]
NoInfo == [type |-> "TIP", amount |-> 0, step |-> NO, retry |-> 0]

\* rank 0: no such row; otherwise the row's place in the SELECT's order.
Row == [rank : Nat, total : Nat, contributed : Nat]
NoRow == [rank |-> 0, total |-> 0, contributed |-> 0]

\* What a continuation waits for, named after the handler the reply invokes.
Waits == {"idle", "OnEntrySaved", "PrepareTokens", "OnMarkReserved",
          "OnReservedForRetry", "OnPrepareAutoContribution",
          "PrepareStepSaved", "OnProcessTokens", "OnRedeemTokens",
          "TokenProcessed", "ContributionAmountSaved", "OnResult",
          "ContributionCompletedSaved", "OnRetryTimerElapsed",
          "SetRetryCounter", "Retry"}

Op == [at : Waits, toks : SUBSET Tokens, ok : BOOLEAN,
       pub : Publishers \union {0}, final : BOOLEAN, res : Results,
       step : Steps, retry : RetryCounts]

Idle == [at |-> "idle", toks |-> {}, ok |-> TRUE, pub |-> 0, final |-> FALSE,
         res |-> "OK", step |-> NO, retry |-> 0]

(***************************************************************************)
(* Queries                                                                 *)
(***************************************************************************)
\* GetSpendableRecordListByBatchTypes: reserved tokens are not left out.
Spendable == {t \in Tokens : t \notin redeemed /\ t \notin expired}

\* Mutant of ReservedFor: the redeem_id is left out of the WHERE clause.
ReservedForAnybody(c) == {t \in Tokens : t \notin redeemed /\ t \in reserved}

\* GetReservedRecordList
ReservedFor(c) == {t \in Tokens : /\ redeemId[t] = c
                                  /\ t \notin redeemed
                                  /\ t \in reserved}

\* Mutant of TakeUntil: the loop breaks on > instead of >=.
TakeBeyond(list, amount) ==
  {t \in list : TokenValue * Cardinality({u \in list : u < t}) <= amount}

\* The tokens a loop over a result list takes until their value reaches amount.
TakeUntil(list, amount) ==
  {t \in list : TokenValue * Cardinality({u \in list : u < t}) < amount}

Listed(c) == {p \in Publishers : rows[c][p].rank > 0}
Unpaid(c) == {p \in Listed(c) : rows[c][p].total # rows[c][p].contributed}
\* The row the loop of OnProcessTokens stops at, and whether it is the last.
IsFirstUnpaid(c, p) == /\ p \in Unpaid(c)
                       /\ \A q \in Unpaid(c) : rows[c][p].rank <= rows[c][q].rank
\* Mutant of IsLastRow: final_publisher is set for every publisher.
IsAnyRow(c, p) == p \in Listed(c)
IsLastRow(c, p) == \A q \in Listed(c) : rows[c][q].rank <= rows[c][p].rank

(***************************************************************************)
(* Database transactions: one may fail, and then changes nothing.          *)
(***************************************************************************)
Failed(ok) == IF ok THEN 0 ELSE 1

Failures(n) ==
  /\ dbErrors + n <= MaxDbErrors
  /\ dbErrors' = dbErrors + n

Transaction(ok) == Failures(Failed(ok))

Bump(retry) == IF retry > RetryLimit THEN retry ELSE retry + 1

tokenVars == <<redeemId, reserved, redeemed>>
contributionVars == <<info, rows>>
envVars == <<expired, acEnabled, crashes>>
historyVars == <<posted, reports>>

Wait(c, next) == op' = [op EXCEPT ![c] = next]

\* Mutant of Result: a RETRY is dropped.
ResultWithoutRetry(r) == IF r = "RETRY" THEN Idle
                         ELSE [Idle EXCEPT !.at = "OnResult", !.res = r]

\* Contribution::Result: RETRY arms the retry timer, anything else reads the
\* contribution again and continues in OnResult.
Result(r) == IF r = "RETRY" THEN [Idle EXCEPT !.at = "OnRetryTimerElapsed"]
                            ELSE [Idle EXCEPT !.at = "OnResult", !.res = r]

\* Mutant of ContributionCompleted: a final step that is not saved is retried.
ContributionCompletedOrRetried(c, r) ==
  \E ok, saved \in BOOLEAN :
    /\ r # "OK" => saved                        \* no item to save
    /\ Failures(Failed(ok) + Failed(saved))
    /\ reports' = IF r = "OK" /\ saved THEN [reports EXCEPT ![c] = @ + 1]
                                        ELSE reports
    /\ info' = IF ok
               THEN [info EXCEPT ![c].step = ConvertResultIntoContributionStep(r),
                                 ![c].retry = -1]
               ELSE info
    /\ Wait(c, IF ok THEN [Idle EXCEPT !.at = "ContributionCompletedSaved"]
                     ELSE Result("RETRY"))
    /\ UNCHANGED <<rows, tokenVars, posted, envVars>>

\* Contribution::ContributionCompleted: the balance report item, then the
\* final step.  The handler runs on whether or not a transaction fails.
ContributionCompleted(c, r) ==
  \E ok, saved \in BOOLEAN :
    /\ r # "OK" => saved                        \* no item to save
    /\ Failures(Failed(ok) + Failed(saved))
    /\ reports' = IF r = "OK" /\ saved THEN [reports EXCEPT ![c] = @ + 1]
                                        ELSE reports
    /\ info' = IF ok
               THEN [info EXCEPT ![c].step = ConvertResultIntoContributionStep(r),
                                 ![c].retry = -1]
               ELSE info
    /\ Wait(c, [Idle EXCEPT !.at = "ContributionCompletedSaved"])
    /\ UNCHANGED <<rows, tokenVars, posted, envVars>>

(***************************************************************************)
(* Initial state: tokens are in the database, no contribution is.          *)
(***************************************************************************)
Init ==
  /\ info = [c \in Contributions |-> NoInfo]
  /\ rows = [c \in Contributions |-> [p \in Publishers |-> NoRow]]
  /\ redeemId = [t \in Tokens |-> None]
  /\ reserved = {}
  /\ redeemed = {}
  /\ expired = {}
  /\ op = [c \in Contributions |-> Idle]
  /\ acEnabled = TRUE
  /\ posted = {}
  /\ reports = [c \in Contributions |-> 0]
  /\ crashes = 0
  /\ dbErrors = 0

(***************************************************************************)
(* CreateNewEntry saves a contribution and its publishers' shares.  A tip  *)
(* has one publisher; an auto contribution may have several.  share maps   *)
(* every unit of the amount to the publisher it is meant for; rank is the  *)
(* order the rows are inserted in.                                         *)
(***************************************************************************)
SharedRows(S, share, rank) ==
  [p \in Publishers |->
     IF p \in S
     THEN [rank |-> rank[p],
           total |-> Cardinality({i \in DOMAIN share : share[i] = p}),
           contributed |-> 0]
     ELSE NoRow]

IsRanking(S, rank) == \A p, q \in S : p # q => rank[p] # rank[q]

CreateNewEntry(c) ==
  /\ info[c].step = NO
  /\ \E type \in Types, amount \in Amounts, S \in (SUBSET Publishers) \ {{}} :
       /\ type = "TIP" => Cardinality(S) = 1
       /\ type = "AC" => amount % TokenValue = 0
       /\ \E share \in [1..amount -> S], rank \in [S -> 1..Cardinality(S)] :
            /\ \A p \in S : \E i \in 1..amount : share[i] = p
            /\ IsRanking(S, rank)
            /\ rows' = [rows EXCEPT ![c] = SharedRows(S, share, rank)]
       /\ info' = [info EXCEPT ![c] = [type |-> type, amount |-> amount,
                                       step |-> START, retry |-> 0]]
  /\ Wait(c, [Idle EXCEPT !.at = "OnEntrySaved"])
  /\ UNCHANGED <<tokenVars, envVars, historyVars, dbErrors>>

\* Unblinded::Start: read the spendable tokens (a failed read is an empty list).
Start(c) ==
  \E ok \in BOOLEAN :
    /\ Transaction(ok)
    /\ Wait(c, [Idle EXCEPT !.at = "PrepareTokens",
                            !.toks = IF ok THEN Spendable ELSE {}])
    /\ UNCHANGED <<contributionVars, tokenVars, envVars, historyVars>>

OnEntrySaved(c) ==
  /\ op[c].at = "OnEntrySaved"
  /\ Start(c)

(***************************************************************************)
(* Reserving tokens                                                        *)
(***************************************************************************)
\* Mutant of MarkUnblindedTokensAsReserved: no test that the tokens are free.
ReserveWhateverIsHeld(c, list) ==
  \E ok \in BOOLEAN :
    LET take == IF ok THEN list ELSE {}
    IN /\ Transaction(ok)
       /\ redeemId' = [t \in Tokens |-> IF t \in take THEN c ELSE redeemId[t]]
       /\ reserved' = reserved \union take
       /\ info' = IF ok THEN [info EXCEPT ![c].step = RESERVE, ![c].retry = 0]
                        ELSE info
       /\ Wait(c, [Idle EXCEPT !.at = "OnMarkReserved", !.toks = list, !.ok = ok,
                               !.step = info[c].step, !.retry = info[c].retry])
       /\ UNCHANGED <<rows, redeemed, envVars, historyVars>>

\* MarkRecordListAsReserved: the tokens are reserved only when every one of
\* them is free; the contribution's step moves in any case; the reply is
\* judged by how many of the tokens are reserved, whoever they are reserved for.
MarkUnblindedTokensAsReserved(c, list) ==
  \E ok \in BOOLEAN :
    LET free == list \intersect reserved = {} /\ list \intersect redeemed = {}
        take == IF ok /\ free THEN list ELSE {}
    IN /\ Transaction(ok)
       /\ redeemId' = [t \in Tokens |-> IF t \in take THEN c ELSE redeemId[t]]
       /\ reserved' = reserved \union take
       /\ info' = IF ok THEN [info EXCEPT ![c].step = RESERVE, ![c].retry = 0]
                        ELSE info
       /\ Wait(c, [Idle EXCEPT !.at = "OnMarkReserved", !.toks = list,
                               !.ok = ok /\ list \subseteq reserved',
                               !.step = info[c].step, !.retry = info[c].retry])
       /\ UNCHANGED <<rows, redeemed, envVars, historyVars>>

\* Unblinded::PrepareTokens, on the token list read by Start.
PrepareTokens(c) ==
  /\ op[c].at = "PrepareTokens"
  /\ \/ /\ Transaction(FALSE)                     \* contribution not found
        /\ Wait(c, Result("LEDGER_ERROR"))
        /\ UNCHANGED <<contributionVars, tokenVars, envVars, historyVars>>
     \/ /\ TokenValue * Cardinality(op[c].toks) < info[c].amount
        /\ Wait(c, Result("NOT_ENOUGH_FUNDS"))
        /\ UNCHANGED <<contributionVars, tokenVars, envVars, historyVars, dbErrors>>
     \/ /\ TokenValue * Cardinality(op[c].toks) >= info[c].amount
        /\ MarkUnblindedTokensAsReserved(c, TakeUntil(op[c].toks, info[c].amount))

\* UpdateContributionInfoStep(STEP_PREPARE)
UpdateStepPrepare(c) ==
  \E ok \in BOOLEAN :
    /\ Transaction(ok)
    /\ info' = IF ok THEN [info EXCEPT ![c].step = PREPARE, ![c].retry = 0]
                     ELSE info
    /\ Wait(c, [Idle EXCEPT !.at = "PrepareStepSaved", !.ok = ok])
    /\ UNCHANGED <<rows, tokenVars, envVars, historyVars>>

\* PrepareAutoContribution: one vote per token, each for a publisher of the
\* contribution.  The rows of publishers with a vote are replaced, in key
\* order after the others; the rows of publishers without one stay.
VotedRows(c, list, vote) ==
  LET Votes(p) == Cardinality({t \in list : vote[t] = p})
      losers == {p \in Listed(c) : Votes(p) = 0}
      winners == {p \in Publishers : Votes(p) > 0}
  IN [p \in Publishers |->
        CASE p \in winners ->
               [rank |-> Cardinality(losers)
                           + Cardinality({q \in winners : q <= p}),
                total |-> (Votes(p) * info[c].amount) \div Cardinality(list),
                contributed |-> 0]
          [] p \in losers ->
               [rows[c][p] EXCEPT !.rank =
                  Cardinality({q \in losers : rows[c][q].rank <= rows[c][p].rank})]
          [] OTHER -> NoRow]

\* Unblinded::PreparePublishers.  For an auto contribution the whole record,
\* with the step and retry count it had when it was read, is saved again.
PreparePublishers(c) ==
  \/ /\ info[c].type = "AC"                       \* no token, or no publisher read
     /\ Failures(Failed(op[c].toks = {}))
     /\ Wait(c, Result("AC_TABLE_EMPTY"))
     /\ UNCHANGED <<contributionVars, tokenVars, envVars, historyVars>>
  \/ /\ info[c].type = "AC" /\ op[c].toks # {}
     /\ \E ok \in BOOLEAN, vote \in [op[c].toks -> Listed(c)] :
          /\ Transaction(ok)
          /\ rows' = IF ok THEN [rows EXCEPT ![c] = VotedRows(c, op[c].toks, vote)]
                           ELSE rows
          /\ info' = IF ok THEN [info EXCEPT ![c].step = op[c].step,
                                             ![c].retry = op[c].retry]
                           ELSE info
          /\ Wait(c, [Idle EXCEPT !.at = "OnPrepareAutoContribution", !.ok = ok])
          /\ UNCHANGED <<tokenVars, envVars, historyVars>>
  \/ /\ info[c].type # "AC"
     /\ UpdateStepPrepare(c)

OnMarkUnblindedTokensAsReserved(c) ==
  /\ op[c].at = "OnMarkReserved"
  /\ \/ /\ ~op[c].ok
        /\ Wait(c, Result("LEDGER_ERROR"))
        /\ UNCHANGED <<contributionVars, tokenVars, envVars, historyVars, dbErrors>>
     \/ /\ op[c].ok
        /\ PreparePublishers(c)

OnReservedUnblindedTokensForRetryAttempt(c) ==
  /\ op[c].at = "OnReservedForRetry"
  /\ \/ /\ op[c].toks = {}
        /\ Wait(c, Result("LEDGER_ERROR"))
        /\ UNCHANGED <<contributionVars, tokenVars, envVars, historyVars, dbErrors>>
     \/ /\ op[c].toks # {}
        /\ PreparePublishers(c)

OnPrepareAutoContribution(c) ==
  /\ op[c].at = "OnPrepareAutoContribution"
  /\ \/ /\ ~op[c].ok
        /\ Wait(c, Result("RETRY"))
        /\ UNCHANGED <<contributionVars, tokenVars, envVars, historyVars, dbErrors>>
     \/ /\ op[c].ok
        /\ UpdateStepPrepare(c)

(***************************************************************************)
(* Paying the publishers, one per pass                                     *)
(***************************************************************************)
\* Unblinded::ProcessTokens
ProcessTokens(c) ==
  \E ok \in BOOLEAN :
    /\ Transaction(ok)
    /\ Wait(c, [Idle EXCEPT !.at = "OnProcessTokens",
                            !.toks = IF ok THEN ReservedFor(c) ELSE {}])
    /\ UNCHANGED <<contributionVars, tokenVars, envVars, historyVars>>

PrepareStepSaved(c) ==
  /\ op[c].at = "PrepareStepSaved"
  /\ \/ /\ ~op[c].ok
        /\ Wait(c, Result("RETRY"))
        /\ UNCHANGED <<contributionVars, tokenVars, envVars, historyVars, dbErrors>>
     \/ /\ op[c].ok
        /\ ProcessTokens(c)

\* CredentialsPromotion::RedeemTokens refuses an empty list, and the refusal
\* comes back through TokenProcessed as RETRY; otherwise the votes are posted.
RedeemTokens(c, p, list) ==
  \/ /\ list = {}
     /\ Wait(c, Result("RETRY"))
     /\ UNCHANGED posted
  \/ /\ list # {}
     /\ posted' = posted \union (list \X {c} \X {p})
     /\ Wait(c, [Idle EXCEPT !.at = "OnRedeemTokens", !.toks = list,
                             !.pub = p, !.final = IsLastRow(c, p)])

OnProcessTokens(c) ==
  /\ op[c].at = "OnProcessTokens"
  /\ \/ /\ Transaction(FALSE)                     \* contribution not found
        /\ Wait(c, Result("LEDGER_ERROR"))
        /\ UNCHANGED posted
     \/ /\ Unpaid(c) = {}                         \* all publishers processed
        /\ Wait(c, Result("OK"))
        /\ UNCHANGED <<posted, dbErrors>>
     \/ /\ \E p \in Publishers :
             /\ IsFirstUnpaid(c, p)
             /\ RedeemTokens(c, p, TakeUntil(op[c].toks, rows[c][p].total))
        /\ UNCHANGED dbErrors
  /\ UNCHANGED <<contributionVars, tokenVars, envVars, reports>>

\* CredentialsPromotion::OnRedeemTokens: on success MarkRecordListAsSpent.
OnRedeemTokens(c) ==
  /\ op[c].at = "OnRedeemTokens"
  /\ \/ /\ Wait(c, Result("RETRY"))               \* any status but 200
        /\ UNCHANGED <<tokenVars, dbErrors>>
     \/ \E ok \in BOOLEAN :
          /\ Transaction(ok)
          /\ redeemed' = IF ok THEN redeemed \union op[c].toks ELSE redeemed
          /\ redeemId' = [t \in Tokens |-> IF ok /\ t \in op[c].toks
                                           THEN c ELSE redeemId[t]]
          /\ Wait(c, [Idle EXCEPT !.at = "TokenProcessed", !.ok = ok,
                                  !.pub = op[c].pub, !.final = op[c].final])
          /\ UNCHANGED reserved
  /\ UNCHANGED <<contributionVars, envVars, historyVars>>

\* Mutant of TokenProcessed: the result is not looked at.
TokenProcessedRegardless(c) ==
  /\ op[c].at = "TokenProcessed"
  /\ \E ok \in BOOLEAN :
       /\ Transaction(ok)
       /\ rows' = IF ok THEN [rows EXCEPT ![c][op[c].pub].contributed =
                                 rows[c][op[c].pub].total]
                        ELSE rows
       /\ Wait(c, [Idle EXCEPT !.at = "ContributionAmountSaved",
                               !.ok = ok, !.final = op[c].final])
  /\ UNCHANGED <<info, tokenVars, envVars, historyVars>>

\* Unblinded::TokenProcessed: on success UpdateContributedAmount.
TokenProcessed(c) ==
  /\ op[c].at = "TokenProcessed"
  /\ \/ /\ ~op[c].ok
        /\ Wait(c, Result("RETRY"))
        /\ UNCHANGED <<rows, dbErrors>>
     \/ /\ op[c].ok
        /\ \E ok \in BOOLEAN :
             /\ Transaction(ok)
             /\ rows' = IF ok
                        THEN [rows EXCEPT ![c][op[c].pub].contributed =
                                            rows[c][op[c].pub].total]
                        ELSE rows
             /\ Wait(c, [Idle EXCEPT !.at = "ContributionAmountSaved",
                                     !.ok = ok, !.final = op[c].final])
  /\ UNCHANGED <<info, tokenVars, envVars, historyVars>>

\* The result of saving the amount counts for the last publisher only.
ContributionAmountSaved(c) ==
  /\ op[c].at = "ContributionAmountSaved"
  /\ Wait(c, Result(IF ~op[c].final THEN "RETRY_LONG"
                    ELSE IF op[c].ok THEN "OK" ELSE "LEDGER_ERROR"))
  /\ UNCHANGED <<contributionVars, tokenVars, envVars, historyVars, dbErrors>>

(***************************************************************************)
(* Results, completion and retries (contribution.cc)                       *)
(***************************************************************************)
OnResult(c) ==
  /\ op[c].at = "OnResult"
  /\ \/ /\ Transaction(FALSE)                     \* contribution is null
        /\ Wait(c, Idle)
        /\ UNCHANGED <<contributionVars, tokenVars, envVars, historyVars>>
     \/ /\ op[c].res = "RETRY_LONG"
        /\ Wait(c, [Idle EXCEPT !.at = "OnRetryTimerElapsed"])
        /\ UNCHANGED <<contributionVars, tokenVars, envVars, historyVars, dbErrors>>
     \/ /\ op[c].res # "RETRY_LONG"
        /\ ContributionCompleted(c, op[c].res)

\* Mutants of ContributionCompletedSaved: nothing is released; the release
\* leaves out redeemed_at = 0.
CompletedSavedOnly(c) ==
  /\ op[c].at = "ContributionCompletedSaved"
  /\ Wait(c, Idle)
  /\ UNCHANGED <<contributionVars, tokenVars, envVars, historyVars, dbErrors>>

ReleaseSpentTokensToo(c) ==
  /\ op[c].at = "ContributionCompletedSaved"
  /\ redeemId' = [t \in Tokens |-> IF redeemId[t] = c THEN None ELSE redeemId[t]]
  /\ reserved' = {t \in reserved : redeemId[t] # c}
  /\ Wait(c, Idle)
  /\ UNCHANGED <<contributionVars, redeemed, envVars, historyVars, dbErrors>>

\* ContributionCompletedSaved, then MarkRecordListAsSpendable, whether or not
\* the final step was saved.
ContributionCompletedSaved(c) ==
  /\ op[c].at = "ContributionCompletedSaved"
  /\ \E ok \in BOOLEAN :
       LET release == {t \in Tokens : ok /\ redeemId[t] = c /\ t \notin redeemed}
       IN /\ Transaction(ok)
          /\ redeemId' = [t \in Tokens |-> IF t \in release THEN None
                                                            ELSE redeemId[t]]
          /\ reserved' = reserved \ release
  /\ Wait(c, Idle)
  /\ UNCHANGED <<contributionVars, redeemed, envVars, historyVars>>

OnRetryTimerElapsed(c) ==
  /\ op[c].at = "OnRetryTimerElapsed"
  /\ \/ /\ Transaction(FALSE)                     \* contribution is null
        /\ Wait(c, Idle)
     \/ /\ Wait(c, [Idle EXCEPT !.at = "SetRetryCounter",
                                !.step = info[c].step, !.retry = info[c].retry])
        /\ UNCHANGED dbErrors
  /\ UNCHANGED <<contributionVars, tokenVars, envVars, historyVars>>

\* Mutant of SetRetryCounter: no return after TOO_MANY_RESULTS.
SetRetryCounterFallsThrough(c) ==
  /\ op[c].at = "SetRetryCounter"
  /\ IF op[c].retry = RetryLimit /\ op[c].step # PREPARE
     THEN info' = [info EXCEPT ![c].step = RETRY_COUNT, ![c].retry = -1]
     ELSE info' = [info EXCEPT ![c].step = op[c].step, ![c].retry = Bump(op[c].retry)]
  /\ Wait(c, [op[c] EXCEPT !.at = "Retry", !.ok = TRUE])
  /\ UNCHANGED <<rows, tokenVars, envVars, historyVars, dbErrors>>

\* The limit is tested on the contribution as it was read.
SetRetryCounter(c) ==
  /\ op[c].at = "SetRetryCounter"
  /\ \/ /\ op[c].retry = RetryLimit /\ op[c].step # PREPARE
        /\ ContributionCompleted(c, "TOO_MANY_RESULTS")
     \/ /\ ~(op[c].retry = RetryLimit /\ op[c].step # PREPARE)
        /\ \E ok \in BOOLEAN :
             /\ Transaction(ok)
             /\ info' = IF ok THEN [info EXCEPT ![c].step = op[c].step,
                                                ![c].retry = Bump(op[c].retry)]
                              ELSE info
             /\ Wait(c, [op[c] EXCEPT !.at = "Retry", !.ok = ok])
        /\ UNCHANGED <<rows, tokenVars, envVars, historyVars>>

\* Unblinded::Retry at STEP_RESERVE reads the reserved tokens again.
RetryReserve(c) ==
  \E ok \in BOOLEAN :
    /\ Transaction(ok)
    /\ Wait(c, [op[c] EXCEPT !.at = "OnReservedForRetry", !.ok = TRUE,
                             !.toks = IF ok THEN ReservedFor(c) ELSE {}])
    /\ UNCHANGED <<contributionVars, tokenVars, envVars, historyVars>>

\* Contribution::Retry and Unblinded::Retry, on the contribution read before.
Retry(c) ==
  /\ op[c].at = "Retry"
  /\ \/ /\ ~op[c].ok \/ op[c].step < 0
        /\ Wait(c, Idle)
        /\ UNCHANGED <<contributionVars, tokenVars, envVars, historyVars, dbErrors>>
     \/ /\ op[c].ok /\ op[c].step > 0
        /\ \/ /\ info[c].type = "AC" /\ ~acEnabled
              /\ ContributionCompleted(c, "AC_OFF")
           \/ /\ ~(info[c].type = "AC" /\ ~acEnabled)
              /\ \/ op[c].step = START /\ Start(c)
                 \/ op[c].step = PREPARE /\ ProcessTokens(c)
                 \/ op[c].step = RESERVE /\ RetryReserve(c)
(***************************************************************************)
(* A crash loses the continuations; a restart retries what the database    *)
(* says is not completed (CheckNotCompletedContributions).  Between the    *)
(* two transactions of ContributionCompleted the process may stop too.     *)
(***************************************************************************)
NotCompleted(c) == info[c].step > 0

Restart ==
  /\ crashes < MaxCrashes
  /\ crashes' = crashes + 1
  /\ \/ UNCHANGED reports
     \/ \E c \in Contributions :
          /\ op[c].at = "OnResult" /\ op[c].res = "OK"
          /\ reports' = [reports EXCEPT ![c] = @ + 1]
  /\ \E ok \in BOOLEAN :
       /\ Transaction(ok)
       /\ op' = [c \in Contributions |->
                   IF ok /\ NotCompleted(c)
                   THEN [Idle EXCEPT !.at = "SetRetryCounter",
                                     !.step = info[c].step,
                                     !.retry = info[c].retry]
                   ELSE Idle]
  /\ UNCHANGED <<contributionVars, tokenVars, expired, acEnabled, posted>>

\* The user turns auto-contribute on or off.
SetAutoContributeEnabled ==
  /\ acEnabled' = ~acEnabled
  /\ UNCHANGED <<contributionVars, tokenVars, op, expired, crashes,
                 historyVars, dbErrors>>

\* Time passes the expiry date of a promotion's token.
Expire(t) ==
  /\ t \notin expired
  /\ expired' = expired \union {t}
  /\ UNCHANGED <<contributionVars, tokenVars, op, acEnabled, crashes,
                 historyVars, dbErrors>>

Handler(c) ==
  \/ OnEntrySaved(c)
  \/ PrepareTokens(c)
  \/ OnMarkUnblindedTokensAsReserved(c)
  \/ OnReservedUnblindedTokensForRetryAttempt(c)
  \/ OnPrepareAutoContribution(c)
  \/ PrepareStepSaved(c)
  \/ OnProcessTokens(c)
  \/ OnRedeemTokens(c)
  \/ TokenProcessed(c)
  \/ ContributionAmountSaved(c)
  \/ OnResult(c)
  \/ ContributionCompletedSaved(c)
  \/ OnRetryTimerElapsed(c)
  \/ SetRetryCounter(c)
  \/ Retry(c)

Next ==
  \/ \E c \in Contributions : CreateNewEntry(c) \/ Handler(c)
  \/ Restart
  \/ SetAutoContributeEnabled
  \/ \E t \in Expirable : Expire(t)

Spec == Init /\ [][Next]_vars

(***************************************************************************)
(* Fairness: every reply the ledger waits for arrives (the task runner and *)
(* the timers run), and a server that is asked again and again answers 200 *)
(* at some point.                                                          *)
(***************************************************************************)
Accepted(c) == OnRedeemTokens(c) /\ op'[c].at = "TokenProcessed"

Fairness == \A c \in Contributions : WF_vars(Handler(c)) /\ SF_vars(Accepted(c))

FairSpec == Spec /\ Fairness

(***************************************************************************)
(* The type invariant                                                      *)
(***************************************************************************)
TypeOK ==
  /\ info \in [Contributions -> Info]
  /\ rows \in [Contributions -> [Publishers -> Row]]
  /\ redeemId \in [Tokens -> Contributions \union {None}]
  /\ reserved \subseteq Tokens
  /\ redeemed \subseteq Tokens
  /\ expired \subseteq Tokens
  /\ op \in [Contributions -> Op]
  /\ acEnabled \in BOOLEAN
  /\ posted \subseteq Tokens \X Contributions \X Publishers
  /\ reports \in [Contributions -> Nat]
  /\ crashes \in 0..MaxCrashes
  /\ dbErrors \in 0..MaxDbErrors

(***************************************************************************)
(* Safety                                                                  *)
(***************************************************************************)
InProgress(c) == info[c].step > 0

\* The tokens a contribution has read in order to vote with, or voted with.
InFlight(c) == IF op[c].at \in {"OnProcessTokens", "OnRedeemTokens"}
               THEN op[c].toks ELSE {}

\* A contribution sends votes only with tokens it still holds: from the moment
\* OnProcessTokens' list is read until the server's answer is acted on, no
\* other contribution takes, spends or releases a token of the list.
InFlightTokensHeld ==
  \A c \in Contributions : \A t \in InFlight(c) :
    redeemId[t] = c /\ t \in reserved /\ t \notin redeemed

Abandoned(c) == info[c].step \in {AC_OFF, FAILED}

\* A token votes for one publisher of one contribution, whatever is lost,
\* retried or restarted, unless the contribution that voted with it was given
\* up: MarkRecordListAsSpendable then frees tokens whose votes may have counted.
\* (It frees them too when a failed transaction keeps the final step from being
\* saved, and the contribution then looks like one that goes on.)
VoteCastOnce ==
  dbErrors = 0 =>
    \A v, w \in posted :
      v[1] = w[1] => \/ v = w
                     \/ v[2] # w[2] /\ (Abandoned(v[2]) \/ Abandoned(w[2]))

\* The number of tokens whose value reaches amount.
TokensFor(amount) == (amount + TokenValue - 1) \div TokenValue

\* Retries never pay a publisher of a contribution with more tokens than its
\* share needs: a lost answer is retried with the very same tokens.  (A crash, or
\* a failed transaction, between spending them and recording the amount does pay
\* it again.)
PublisherNotOverpaid ==
  crashes = 0 /\ dbErrors = 0 =>
    \A c \in Contributions, p \in Publishers :
      Cardinality({v \in posted : v[2] = c /\ v[3] = p})
        <= TokensFor(rows[c][p].total)

SpentBy(c) == {t \in redeemed : redeemId[t] = c}

\* Only an auto contribution goes back to STEP_START with its tokens reserved, and
\* it finds them again in the spendable list as long as they do not expire.
KeepsOneReservation(c) == info[c].type = "TIP" \/ expired = {}

\* A contribution spends no more tokens than its amount needs, however often
\* it is retried, restarted or its publishers are drawn again.  (An auto
\* contribution that starts over after its reserved tokens expired reserves
\* others, keeps both, and may spend more.)
SpentWithinAmount ==
  \A c \in Contributions :
    KeepsOneReservation(c) =>
      Cardinality(SpentBy(c)) <= TokensFor(info[c].amount)

\* A contribution ends as completed only when every publisher it lists is paid
\* and tokens worth its amount are spent.  (With the tokens of two reservations
\* the shares of a draw may be rounded down below the amount.)
CompletedIsPaid ==
  \A c \in Contributions :
    info[c].step = COMPLETED =>
      /\ Unpaid(c) = {}
      /\ KeepsOneReservation(c) =>
           TokenValue * Cardinality(SpentBy(c)) >= info[c].amount

\* A tip is recorded as contributed only when tokens worth it are spent on its
\* publisher, whichever transactions fail and wherever the process stops.
TipRecordedIsSpent ==
  \A c \in Contributions, p \in Publishers :
    info[c].type = "TIP" =>
      TokenValue * Cardinality({t \in SpentBy(c) : <<t, c, p>> \in posted})
        >= rows[c][p].contributed

\* No token stays reserved for a contribution nothing will continue: the holder
\* of a reserved token is in progress, or is about to release it.  (A crash before
\* the release does leave them reserved, and so does a failed transaction, which
\* may end the retries until the next start.)
NoOrphanReservation ==
  crashes = 0 /\ dbErrors = 0 =>
    \A t \in reserved \ redeemed :
      LET c == redeemId[t]
      IN /\ c \in Contributions
         /\ op[c].at # "idle"
         /\ InProgress(c) \/ op[c].at = "ContributionCompletedSaved"

\* A contribution enters the balance report at most once in a run of the
\* process, even when its final step could not be saved.
ReportedOncePerRun ==
  \A c \in Contributions : reports[c] <= 1 + crashes

\* "negative steps are final steps, nothing to retry": no late callback, stale
\* copy of the contribution or restart moves a contribution out of one.
FinalIsFinal ==
  [][\A c \in Contributions :
       info[c].step < 0 => info'[c].step = info[c].step]_vars

(***************************************************************************)
(* The inductive invariant                                                 *)
(***************************************************************************)
\* A token has a redeem_id exactly while it is reserved; redeeming it keeps both.
HolderIffReserved ==
  /\ \A t \in Tokens : redeemId[t] # None <=> t \in reserved
  /\ redeemed \subseteq reserved

\* The votes whose answer is awaited were sent.
InFlightVoted ==
  \A c \in Contributions : op[c].at = "OnRedeemTokens" =>
    op[c].pub \in Publishers /\ op[c].toks \X {c} \X {op[c].pub} \subseteq posted

Finished(c) == op[c].at \in {"idle", "ContributionCompletedSaved"}

\* Only the release of its tokens is left to do for a contribution in a final
\* step, and a contribution that is still to be completed has not been reported
\* in this run of the process.
ContinuationMatchesStep ==
  \A c \in Contributions :
    /\ info[c].step = NO => op[c].at = "idle" /\ reports[c] = 0
    /\ info[c].step < 0 => Finished(c)
    /\ reports[c] <= crashes + (IF Finished(c) THEN 1 ELSE 0)

\* The copy of the contribution a callback will write back, or retry by, was
\* read while the contribution was in progress.
CopyInProgress ==
  \A c \in Contributions :
    op[c].at \in {"OnMarkReserved", "OnReservedForRetry", "SetRetryCounter"}
      => op[c].step > 0

IInv ==
  /\ TypeOK
  /\ HolderIffReserved
  /\ InFlightTokensHeld
  /\ InFlightVoted
  /\ ContinuationMatchesStep
  /\ CopyInProgress

(***************************************************************************)
(* Implementation of the abstract token ledger                             *)
(***************************************************************************)
Ledger == INSTANCE TokenLedger
            WITH holder <- redeemId, spent <- redeemed, votes <- posted

\* Every step of a contribution, of the process or of the clock is a step of
\* the token ledger or leaves it alone: reservations only take free tokens,
\* votes and spending only touch the voter's own, and a spent token stays spent.
ImplementsTokenLedger == Ledger!Spec

(***************************************************************************)
(* Liveness                                                                *)
(***************************************************************************)
\* Every contribution that is created reaches a final step when nothing fails:
\* after a failed transaction it may wait for the next start, and a crash between
\* spending the votes of a publisher and recording its amount leaves a publisher
\* unpaid and no token to pay it with.
EventuallyFinal ==
  \A c \in Contributions :
    info[c].step = START ~> info[c].step < 0 \/ dbErrors > 0 \/ crashes > 0

\* An auto contribution that has all its tokens reserved completes, unless it
\* is turned off: the votes are cast and the contribution ends.
AutoContributionCompletes ==
  \A c \in Contributions :
    info[c].type = "AC" /\ info[c].step = PREPARE ~> info[c].step < 0

=============================================================================
