--------------------------- MODULE PromotionProofs ---------------------------
(***************************************************************************)
(* Theorems about Promotion, for every number of promotions and flows and  *)
(* any number of crashes, failed transactions and failed requests.  Three  *)
(* inductive invariants, one on top of the other: CoreInv (what is in the  *)
(* tables and in the flows), KeptInv (the batch the server accepted) and   *)
(* ReportInv (the balance report).                                         *)
(***************************************************************************)
EXTENDS Promotion, FiniteSetTheorems, TLAPS

(***************************************************************************)
(* The core invariant                                                      *)
(***************************************************************************)
(* The waits in which a flow has no promotion of its own.                  *)
Unheld == {"idle", "OnFetch", "OnGetAllPromotions",
           "OnGetAllPromotionsFromDatabase", "Retry"}

(* The waits that come only after a batch was found in the table.          *)
Blinded == {"PostCreds", "OnClaim", "ClaimedSaved", "ClaimStatusSaved",
            "FetchSignedCreds", "OnFetchSignedCreds", "RetryPreviousStepSaved",
            "SignedCredsSaved", "Unblind", "VerifyPublicKey",
            "OnSaveUnblindedCreds"}

(* What a flow holds agrees with the tables b and t and the server's c.    *)
OpGood(x, b, t, c) ==
  /\ x.at \notin Unheld => x.id \in Promotions
  /\ x.id \in Promotions =>
       /\ x.promo.claim \in {NoCreds, c[x.id]}
       /\ x.batch.signed \in {NoCreds, c[x.id]}
       /\ x.batch # NoBatch => x.batch.creds # NoCreds /\ b[x.id].creds # NoCreds
       /\ x.batch.status = "FINISHED" => t[x.id] # {}
       /\ x.at \in {"PostCreds", "VerifyPublicKey"} => x.batch # NoBatch
       /\ x.at \in Blinded => b[x.id].creds # NoCreds
       /\ x.at \in {"Completed", "CredentialsProcessed"} => t[x.id] # {}
       /\ x.at = "OnSaveUnblindedCreds" /\ x.ok => t[x.id] # {}

(* The rows of a promotion, its tokens t and the creds c the server accepted. *)
RowGood(row, b, t, c) ==
  /\ row.claim \in {NoCreds, c}
  /\ b.signed \in {NoCreds, c}
  /\ b # NoBatch => b.status # "NONE" /\ b.creds # NoCreds
  /\ row.status = "FINISHED" \/ b.status = "FINISHED" => t # {}
  /\ t \subseteq {c} \ {NoCreds}

TablesType ==
  /\ promo \in [Promotions -> Promo]
  /\ batch \in [Promotions -> Batch]
  /\ tokens \in [Promotions -> SUBSET Creds]
  /\ claimed \in [Promotions -> Creds]
  /\ dbErrors \in 0..MaxDbErrors

RowsGood == \A p \in Promotions : RowGood(promo[p], batch[p], tokens[p], claimed[p])
OpsGood == op \in [Flows -> Op] /\ \A f \in Flows : OpGood(op[f], batch, tokens, claimed)
Core == TablesType /\ RowsGood /\ OpsGood

(* What the core does not speak of. *)
RestType ==
  /\ timer \in BOOLEAN
  /\ expired \subseteq Promotions
  /\ reports \in [Promotions -> Nat]
  /\ overlapped \subseteq contended /\ contended \subseteq Promotions
  /\ blinds \in [Promotions -> Creds]
  /\ attests \in 0..MaxAttests /\ fetches \in 0..MaxFetches
  /\ crashes \in 0..MaxCrashes
  /\ httpErrors \in 0..MaxHttpErrors

CoreInv == Core /\ RestType

LEMMA CoreInvTypeOK == CoreInv => TypeOK
BY DEF CoreInv, Core, TablesType, OpsGood, RestType, TypeOK

(* What no step takes back: creds the server accepted, tokens, a batch.    *)
Grows(b, t, c, b2, t2, c2) ==
  \A p \in Promotions :
    /\ c[p] # NoCreds => c2[p] = c[p]
    /\ t[p] \subseteq t2[p]
    /\ b[p].creds # NoCreds => b2[p].creds # NoCreds

(***************************************************************************)
(* The helpers                                                             *)
(***************************************************************************)
LEMMA CredsType == NoCreds \in Creds /\ NoPromo \in Promo /\ NoBatch \in Batch
BY ConstantsAssumption DEF NoCreds, Creds, NoPromo, Promo, NoBatch, Batch, Statuses, BatchStatuses

LEMMA IdleType == Idle \in Op
<1>1. NoneSeen \in [Promotions -> Statuses]
  BY DEF NoneSeen, Statuses
<1> QED
  BY <1>1, CredsType DEF Idle, Op, Waits, Results

LEMMA IdleGood ==
  ASSUME NEW b, NEW t, NEW c
  PROVE  OpGood(Idle, b, t, c)
<1>1. Idle.at \in Unheld /\ Idle.id \notin Promotions
  BY ConstantsAssumption DEF Idle, Unheld, Promotions
<1> QED
  BY <1>1 DEF OpGood

LEMMA OpGoodKept ==
  ASSUME NEW x \in Op, NEW b, NEW t, NEW c, NEW b2, NEW t2, NEW c2,
         Grows(b, t, c, b2, t2, c2), OpGood(x, b, t, c)
  PROVE  OpGood(x, b2, t2, c2)
<1>1. CASE x.id \notin Promotions
  BY <1>1 DEF OpGood
<1>2. CASE x.id \in Promotions
  <2> DEFINE p == x.id
  <2>1. /\ c[p] # NoCreds => c2[p] = c[p]
        /\ t[p] # {} => t2[p] # {}
        /\ b[p].creds # NoCreds => b2[p].creds # NoCreds
    BY <1>2 DEF Grows
  <2> QED
    BY <1>2, <2>1 DEF OpGood
<1> QED
  BY <1>1, <1>2

\* The waits that ask nothing of the values bound into the callback.
LEMMA ToGood ==
  ASSUME OpsGood, NEW f \in Flows, NEW at \in Waits, op[f].id \in Promotions,
         NEW b, NEW t, NEW c,
         at \notin {"PostCreds", "VerifyPublicKey", "OnSaveUnblindedCreds"},
         at \in Blinded => b[op[f].id].creds # NoCreds,
         at \in {"Completed", "CredentialsProcessed"} => t[op[f].id] # {}
  PROVE  /\ To(f, at) \in Op /\ To(f, at).id = op[f].id /\ To(f, at).at = at
         /\ OpGood(To(f, at), b, t, c)
<1>1. op[f].id \in Promotions \cup {0} /\ op[f].attest \in BOOLEAN
  BY DEF OpsGood, Op
<1>2. To(f, at) \in Op
  BY <1>1, IdleType DEF To, Op
<1>3. /\ To(f, at).id = op[f].id /\ To(f, at).at = at
      /\ To(f, at).promo = NoPromo /\ To(f, at).batch = NoBatch
  BY DEF To, Idle
<1>4. NoPromo.claim = NoCreds /\ NoBatch.signed = NoCreds /\ NoBatch.status = "NONE"
  BY DEF NoPromo, NoBatch
<1> QED
  BY <1>2, <1>3, <1>4 DEF OpGood

LEMMA OkGood ==
  ASSUME NEW x \in Op, x.at # "OnSaveUnblindedCreds", NEW ok \in BOOLEAN,
         NEW b, NEW t, NEW c, OpGood(x, b, t, c)
  PROVE  [x EXCEPT !.ok = ok] \in Op /\ OpGood([x EXCEPT !.ok = ok], b, t, c)
<1> DEFINE y == [x EXCEPT !.ok = ok]
<1>1. y \in Op
  BY DEF Op
<1>2. /\ y.at = x.at /\ y.id = x.id /\ y.promo = x.promo /\ y.batch = x.batch
  BY DEF Op
<1> HIDE DEF y
<1>3. OpGood(y, b, t, c)
  BY <1>2 DEF OpGood
<1> QED
  BY <1>1, <1>3 DEF y

LEMMA FailuresType ==
  ASSUME Core, NEW n \in Nat, Failures(n)
  PROVE  dbErrors' \in 0..MaxDbErrors
BY ConstantsAssumption DEF Core, TablesType, Failures

LEMMA TransactionType ==
  ASSUME Core, NEW ok \in BOOLEAN, Transaction(ok)
  PROVE  dbErrors' \in 0..MaxDbErrors
BY FailuresType DEF Transaction

\* One flow moves on, the others keep what they hold.
LEMMA ContinueGood ==
  ASSUME Core, NEW f \in Flows, NEW n \in Op, Continue(f, n),
         Grows(batch, tokens, claimed, batch', tokens', claimed'),
         OpGood(n, batch', tokens', claimed')
  PROVE  OpsGood'
<1>1. op' \in [Flows -> Op]
  BY DEF Core, OpsGood, Continue
<1>2. ASSUME NEW g \in Flows
      PROVE  OpGood(op'[g], batch', tokens', claimed')
  <2>1. CASE g = f
    BY <2>1 DEF Core, OpsGood, Continue
  <2>2. CASE g # f
    <3>1. op'[g] = op[g] /\ op[g] \in Op /\ OpGood(op[g], batch, tokens, claimed)
      BY <2>2 DEF Core, OpsGood, Continue
    <3> QED
      BY <3>1, OpGoodKept
  <2> QED
    BY <2>1, <2>2
<1> QED
  BY <1>1, <1>2 DEF OpsGood

LEMMA SameGrows ==
  ASSUME UNCHANGED <<tables, claimed>>
  PROVE  Grows(batch, tokens, claimed, batch', tokens', claimed')
BY DEF tables, Grows

LEMMA ReplyGood ==
  ASSUME Core, NEW f \in Flows, NEW n \in Op, Continue(f, n),
         OpGood(n, batch, tokens, claimed),
         UNCHANGED <<tables, claimed>>, dbErrors' \in 0..MaxDbErrors
  PROVE  Core'
<1>1. OpsGood'
  BY SameGrows, ContinueGood DEF tables
<1> QED
  BY <1>1 DEF Core, TablesType, RowsGood, tables

LEMMA QuitGood ==
  ASSUME Core, NEW f \in Flows, Quit(f), UNCHANGED claimed
  PROVE  Core'
<1>1. dbErrors' \in 0..MaxDbErrors
  BY DEF Core, TablesType, Quit
<1> QED
  BY <1>1, IdleType, IdleGood, ReplyGood DEF Quit

(***************************************************************************)
(* Transactions                                                            *)
(***************************************************************************)
LEMMA GetPromotionGood ==
  ASSUME Core, NEW f \in Flows, NEW next \in Op, GetPromotion(f, next),
         op[f].id \in Promotions, next.id = op[f].id,
         OpGood(next, batch, tokens, claimed), UNCHANGED claimed
  PROVE  Core'
<1>1. PICK ok \in BOOLEAN :
        /\ Transaction(ok)
        /\ Continue(f, [next EXCEPT !.promo = IF ok THEN promo[op[f].id] ELSE NoPromo])
        /\ UNCHANGED tables
  BY DEF GetPromotion
<1> DEFINE row == IF ok THEN promo[op[f].id] ELSE NoPromo
           n == [next EXCEPT !.promo = row]
<1>2. row \in Promo /\ row.claim \in {NoCreds, claimed[op[f].id]}
  BY CredsType DEF Core, TablesType, RowsGood, RowGood, NoPromo
<1> HIDE DEF row
<1>3. n \in Op
  BY <1>2 DEF Op
<1>4. /\ n.at = next.at /\ n.id = next.id /\ n.ok = next.ok
      /\ n.promo = row /\ n.batch = next.batch
  BY DEF Op
<1> HIDE DEF n
<1>5. OpGood(n, batch, tokens, claimed)
  BY <1>2, <1>4 DEF OpGood
<1>6. Continue(f, n)
  BY <1>1 DEF n, row
<1> QED
  BY <1>1, <1>3, <1>5, <1>6, TransactionType, ReplyGood

LEMMA GetBatchGood ==
  ASSUME Core, NEW f \in Flows, NEW next \in Op, GetCredsBatchByTrigger(f, next),
         op[f].id \in Promotions, next.id = op[f].id,
         next.at \notin {"PostCreds", "VerifyPublicKey"},
         OpGood(next, batch, tokens, claimed), UNCHANGED claimed
  PROVE  Core'
<1>1. PICK ok \in BOOLEAN :
        /\ Transaction(ok)
        /\ Continue(f, [next EXCEPT !.batch = IF ok THEN batch[op[f].id] ELSE NoBatch])
        /\ UNCHANGED tables
  BY DEF GetCredsBatchByTrigger
<1> DEFINE row == IF ok THEN batch[op[f].id] ELSE NoBatch
           n == [next EXCEPT !.batch = row]
<1>2. /\ row \in Batch /\ row.signed \in {NoCreds, claimed[op[f].id]}
      /\ row # NoBatch => row.creds # NoCreds /\ batch[op[f].id].creds # NoCreds
      /\ row.status = "FINISHED" => tokens[op[f].id] # {}
  <2>1. CASE ok
    BY <2>1 DEF Core, TablesType, RowsGood, RowGood
  <2>2. CASE ~ok
    BY <2>2, CredsType DEF NoBatch
  <2> QED
    BY <2>1, <2>2
<1> HIDE DEF row
<1>3. n \in Op
  BY <1>2 DEF Op
<1>4. /\ n.at = next.at /\ n.id = next.id /\ n.ok = next.ok
      /\ n.promo = next.promo /\ n.batch = row
  BY DEF Op
<1> HIDE DEF n
<1>5. OpGood(n, batch, tokens, claimed)
  BY <1>2, <1>4 DEF OpGood
<1>6. Continue(f, n)
  BY <1>1 DEF n, row
<1> QED
  BY <1>1, <1>3, <1>5, <1>6, TransactionType, ReplyGood

LEMMA SetPromoGood ==
  ASSUME Core, NEW f \in Flows, NEW next \in Op, NEW value \in Promo,
         SetPromo(f, next, value), op[f].id \in Promotions,
         next.at # "OnSaveUnblindedCreds", OpGood(next, batch, tokens, claimed),
         LET p == op[f].id IN RowGood(value, batch[p], tokens[p], claimed[p]),
         UNCHANGED claimed
  PROVE  Core'
<1>1. PICK ok \in BOOLEAN :
        /\ Transaction(ok)
        /\ Continue(f, [next EXCEPT !.ok = ok])
        /\ promo' = IF ok THEN [promo EXCEPT ![op[f].id] = value] ELSE promo
        /\ UNCHANGED <<batch, tokens>>
  BY DEF SetPromo
<1>2. promo' \in [Promotions -> Promo]
  BY <1>1 DEF Core, TablesType
<1>3. RowsGood'
  BY <1>1 DEF Core, TablesType, RowsGood
<1>4. Grows(batch, tokens, claimed, batch', tokens', claimed')
  BY <1>1 DEF Grows
<1>5. OpsGood'
  BY <1>1, <1>4, OkGood, ContinueGood
<1> QED
  BY <1>1, <1>2, <1>3, <1>5, TransactionType DEF Core, TablesType

LEMMA SetBatchGood ==
  ASSUME Core, NEW f \in Flows, NEW next \in Op, NEW value \in Batch,
         SetBatch(f, next, value), op[f].id \in Promotions,
         next.at # "OnSaveUnblindedCreds", OpGood(next, batch, tokens, claimed),
         LET p == op[f].id IN RowGood(promo[p], value, tokens[p], claimed[p]),
         value.creds # NoCreds, UNCHANGED claimed
  PROVE  Core'
<1>1. PICK ok \in BOOLEAN :
        /\ Transaction(ok)
        /\ Continue(f, [next EXCEPT !.ok = ok])
        /\ batch' = IF ok THEN [batch EXCEPT ![op[f].id] = value] ELSE batch
        /\ UNCHANGED <<promo, tokens>>
  BY DEF SetBatch
<1>2. batch' \in [Promotions -> Batch]
  BY <1>1 DEF Core, TablesType
<1>3. RowsGood'
  BY <1>1 DEF Core, TablesType, RowsGood
<1>4. Grows(batch, tokens, claimed, batch', tokens', claimed')
  BY <1>1 DEF Grows, Core, TablesType
<1>5. OpsGood'
  <2>1. [next EXCEPT !.ok = ok] \in Op
        /\ OpGood([next EXCEPT !.ok = ok], batch, tokens, claimed)
    BY OkGood
  <2>2. OpGood([next EXCEPT !.ok = ok], batch', tokens', claimed')
    BY <1>4, <2>1, OpGoodKept
  <2> QED
    BY <1>1, <1>4, <2>1, <2>2, ContinueGood
<1> QED
  BY <1>1, <1>2, <1>3, <1>5, TransactionType DEF Core, TablesType

\* A row whose status alone is written keeps its claim and its creds.
LEMMA UpdatePromotionStatusGood ==
  ASSUME Core, NEW f \in Flows, NEW status \in Statuses \ {"NONE"}, NEW at \in Waits,
         UpdatePromotionStatus(f, status, at), op[f].id \in Promotions,
         at \notin {"PostCreds", "VerifyPublicKey", "OnSaveUnblindedCreds"},
         at \notin Blinded,
         at \in {"Completed", "CredentialsProcessed"} \/ status = "FINISHED"
           => tokens[op[f].id] # {},
         UNCHANGED claimed
  PROVE  Core'
<1> DEFINE row == promo[op[f].id]
           value == [row EXCEPT !.status = status]
<1>1. row \in Promo /\ RowGood(row, batch[op[f].id], tokens[op[f].id], claimed[op[f].id])
  BY DEF Core, TablesType, RowsGood
<1>2. value \in Promo /\ value.claim = row.claim /\ value.status = status
  BY <1>1 DEF Promo
<1>3. SetPromo(f, To(f, at), value)
  BY DEF UpdatePromotionStatus
<1>4. RowGood(value, batch[op[f].id], tokens[op[f].id], claimed[op[f].id])
  BY <1>1, <1>2 DEF RowGood
<1>5. /\ To(f, at) \in Op /\ To(f, at).at = at
      /\ OpGood(To(f, at), batch, tokens, claimed)
  BY ToGood DEF Core
<1> QED
  BY <1>2, <1>3, <1>4, <1>5, SetPromoGood

LEMMA UpdateCredsBatchStatusGood ==
  ASSUME Core, NEW f \in Flows, NEW status \in BatchStatuses \ {"NONE"}, NEW at \in Waits,
         UpdateCredsBatchStatus(f, status, at), op[f].id \in Promotions,
         at \notin {"PostCreds", "VerifyPublicKey", "OnSaveUnblindedCreds"},
         batch[op[f].id].creds # NoCreds,
         at \in {"Completed", "CredentialsProcessed"} \/ status = "FINISHED"
           => tokens[op[f].id] # {},
         UNCHANGED claimed
  PROVE  Core'
<1> DEFINE row == batch[op[f].id]
           value == [row EXCEPT !.status = status]
<1>1. row \in Batch /\ RowGood(promo[op[f].id], row, tokens[op[f].id], claimed[op[f].id])
  BY DEF Core, TablesType, RowsGood
<1>2. /\ value \in Batch /\ value.creds = row.creds /\ value.signed = row.signed
      /\ value.status = status
  BY <1>1 DEF Batch
<1>3. SetBatch(f, To(f, at), value)
  BY DEF UpdateCredsBatchStatus
<1>4. RowGood(promo[op[f].id], value, tokens[op[f].id], claimed[op[f].id])
  BY <1>1, <1>2 DEF RowGood
<1>5. /\ To(f, at) \in Op /\ To(f, at).at = at
      /\ OpGood(To(f, at), batch, tokens, claimed)
  BY ToGood DEF Core
<1> QED
  BY <1>2, <1>3, <1>4, <1>5, SetBatchGood

LEMMA CallbackGood ==
  ASSUME Core, NEW f \in Flows, NEW res \in Results, Callback(f, res),
         op[f].id \in Promotions, UNCHANGED claimed
  PROVE  Core'
<1>1. CASE op[f].attest
  <2> DEFINE x == To(f, "OnComplete")
             next == [x EXCEPT !.res = res]
  <2>1. /\ x \in Op /\ x.id = op[f].id /\ x.at = "OnComplete"
        /\ OpGood(x, batch, tokens, claimed)
    BY ToGood DEF Core, Waits, Blinded
  <2> HIDE DEF x
  <2>2. next \in Op
    BY <2>1 DEF Op
  <2>3. /\ next.at = x.at /\ next.id = x.id /\ next.promo = x.promo
        /\ next.batch = x.batch
    BY <2>1 DEF Op
  <2>4. GetPromotion(f, next)
    BY <1>1 DEF Callback, x
  <2> HIDE DEF next
  <2>5. OpGood(next, batch, tokens, claimed)
    BY <2>1, <2>3 DEF OpGood
  <2> QED
    BY <2>1, <2>2, <2>3, <2>4, <2>5, GetPromotionGood
<1>2. CASE ~op[f].attest
  BY <1>2, QuitGood DEF Callback
<1> QED
  BY <1>1, <1>2

LEMMA CredentialsProcessedGood ==
  ASSUME Core, NEW f \in Flows, NEW res \in Results, CredentialsProcessed(f, res),
         op[f].id \in Promotions, res = "OK" => tokens[op[f].id] # {},
         UNCHANGED claimed
  PROVE  Core'
<1>1. "OK" \in Results /\ "StatusUpdated" \in Waits /\ "StatusUpdated" \notin Blinded
      /\ {"OVER", "FINISHED"} \subseteq Statuses \ {"NONE"}
  BY DEF Results, Waits, Blinded, Statuses
<1>2. CASE Callback(f, "OK") \/ Callback(f, res)
  BY <1>1, <1>2, CallbackGood
<1>3. CASE UpdatePromotionStatus(f, "OVER", "StatusUpdated")
  BY <1>1, <1>3, UpdatePromotionStatusGood
<1>4. CASE res = "OK" /\ UpdatePromotionStatus(f, "FINISHED", "StatusUpdated")
  BY <1>1, <1>4, UpdatePromotionStatusGood
<1> QED
  BY <1>2, <1>3, <1>4 DEF CredentialsProcessed

(***************************************************************************)
(* The core invariant, handler by handler                                  *)
(***************************************************************************)
\* What a flow with a promotion of its own holds.
LEMMA Held ==
  ASSUME Core, NEW f \in Flows, op[f].at \notin Unheld
  PROVE  /\ op[f] \in Op /\ op[f].id \in Promotions
         /\ op[f].promo.claim \in {NoCreds, claimed[op[f].id]}
         /\ op[f].batch.signed \in {NoCreds, claimed[op[f].id]}
         /\ op[f].batch # NoBatch => /\ op[f].batch.creds # NoCreds
                                     /\ batch[op[f].id].creds # NoCreds
         /\ op[f].batch.status = "FINISHED" => tokens[op[f].id] # {}
         /\ op[f].at \in {"PostCreds", "VerifyPublicKey"} => op[f].batch # NoBatch
         /\ op[f].at \in Blinded => batch[op[f].id].creds # NoCreds
         /\ op[f].at \in {"Completed", "CredentialsProcessed"} => tokens[op[f].id] # {}
         /\ op[f].at = "OnSaveUnblindedCreds" /\ op[f].ok => tokens[op[f].id] # {}
BY DEF Core, OpsGood, OpGood

LEMMA BlindGood ==
  ASSUME Core, RestType, NEW f \in Flows, op[f].id \in Promotions, Blind(f),
         UNCHANGED claimed
  PROVE  Core'
<1> DEFINE p == op[f].id
           value == [status |-> "BLINDED", creds |-> blinds[p] + 1, signed |-> NoCreds]
<1>1. blinds[p] \in 0..MaxBlinds /\ blinds[p] < MaxBlinds
  BY DEF RestType, Creds, Blind
<1>2. blinds[p] + 1 \in Creds /\ blinds[p] + 1 # NoCreds
  BY <1>1, ConstantsAssumption DEF Creds, NoCreds
<1>3. value \in Batch /\ value.creds # NoCreds /\ value.signed = NoCreds
      /\ value.status = "BLINDED"
  BY <1>2, CredsType DEF Batch, BatchStatuses
<1>4. RowGood(promo[p], batch[p], tokens[p], claimed[p])
  BY DEF Core, RowsGood
<1>5. SetBatch(f, To(f, "BlindedCredsSaved"), value)
  BY DEF Blind
<1> HIDE DEF value
<1>6. RowGood(promo[p], value, tokens[p], claimed[p])
  BY <1>3, <1>4 DEF RowGood
<1>7. "BlindedCredsSaved" \in Waits /\ "BlindedCredsSaved" \notin Blinded
  BY DEF Waits, CredentialWaits, Blinded
<1>8. /\ To(f, "BlindedCredsSaved") \in Op
      /\ To(f, "BlindedCredsSaved").at = "BlindedCredsSaved"
      /\ OpGood(To(f, "BlindedCredsSaved"), batch, tokens, claimed)
  BY <1>7, ToGood DEF Core
<1> QED
  BY <1>3, <1>5, <1>6, <1>8, SetBatchGood

\* The reads that a flow goes on with.
LEMMA ReadBatch ==
  ASSUME Core, NEW f \in Flows, op[f].id \in Promotions, NEW at \in Waits,
         at \notin {"PostCreds", "VerifyPublicKey", "OnSaveUnblindedCreds"},
         at \in Blinded => batch[op[f].id].creds # NoCreds,
         at \notin {"Completed", "CredentialsProcessed"},
         GetCredsBatchByTrigger(f, To(f, at)), UNCHANGED claimed
  PROVE  Core'
<1>1. /\ To(f, at) \in Op /\ To(f, at).at = at /\ To(f, at).id = op[f].id
      /\ OpGood(To(f, at), batch, tokens, claimed)
  BY ToGood DEF Core
<1> QED
  BY <1>1, GetBatchGood

LEMMA ReadPromotion ==
  ASSUME Core, NEW f \in Flows, op[f].id \in Promotions, NEW at \in Waits,
         at \notin {"PostCreds", "VerifyPublicKey", "OnSaveUnblindedCreds"},
         at \in Blinded => batch[op[f].id].creds # NoCreds,
         at \notin {"Completed", "CredentialsProcessed"},
         GetPromotion(f, To(f, at)), UNCHANGED claimed
  PROVE  Core'
<1>1. /\ To(f, at) \in Op /\ To(f, at).at = at /\ To(f, at).id = op[f].id
      /\ OpGood(To(f, at), batch, tokens, claimed)
  BY ToGood DEF Core
<1> QED
  BY <1>1, GetPromotionGood

LEMMA WaitsType ==
  /\ {"OnStart", "Claim", "Unblind", "FetchSignedCreds", "OnCompletedAttestation",
      "ClaimedSaved", "ClaimStatusSaved", "RetryPreviousStepSaved",
      "SignedCredsSaved", "Completed", "CredentialsProcessed", "AttestedSaved",
      "OnClaim", "OnFetchSignedCreds", "VerifyPublicKey", "OnSaveUnblindedCreds"}
       \subseteq Waits
  /\ {"OnStart", "Claim", "OnCompletedAttestation", "Completed",
      "CredentialsProcessed", "AttestedSaved"} \cap Blinded = {}
BY DEF Waits, CredentialWaits, Blinded

LEMMA ResultsType == {"OK", "LEDGER_ERROR", "NOT_FOUND", "RETRY"} = Results
BY DEF Results

LEMMA OnStartGood ==
  ASSUME Core, RestType, NEW f \in Flows, OnStart(f)
  PROVE  Core'
<1>1. op[f].at \notin Unheld /\ UNCHANGED claimed
  BY DEF OnStart, At, Unheld, world
<1>2. CASE Blind(f)
  BY <1>1, <1>2, Held, BlindGood
<1>3. CASE GetCredsBatchByTrigger(f, To(f, "Claim"))
  BY <1>1, <1>3, Held, ReadBatch, WaitsType
<1>4. CASE op[f].batch.status = "CLAIMED" /\ GetPromotion(f, To(f, "FetchSignedCreds"))
  BY <1>1, <1>4, Held, ReadPromotion, WaitsType DEF NoBatch
<1>5. CASE op[f].batch.status = "SIGNED" /\ GetCredsBatchByTrigger(f, To(f, "Unblind"))
  BY <1>1, <1>5, Held, ReadBatch, WaitsType DEF NoBatch
<1>6. CASE op[f].batch.status = "FINISHED" /\ CredentialsProcessed(f, "OK")
  BY <1>1, <1>6, Held, ResultsType, CredentialsProcessedGood
<1> QED
  BY <1>2, <1>3, <1>4, <1>5, <1>6 DEF OnStart

LEMMA OnBlindGood ==
  ASSUME Core, NEW f \in Flows, OnBlind(f)
  PROVE  Core'
<1>1. op[f].at \notin Unheld /\ UNCHANGED claimed
  BY DEF OnBlind, At, Unheld, world
<1>2. CASE CredentialsProcessed(f, "RETRY")
  BY <1>1, <1>2, Held, ResultsType, CredentialsProcessedGood
<1>3. CASE GetCredsBatchByTrigger(f, To(f, "Claim"))
  BY <1>1, <1>3, Held, ReadBatch, WaitsType
<1> QED
  BY <1>2, <1>3 DEF OnBlind

LEMMA ClaimGood ==
  ASSUME Core, NEW f \in Flows, Claim(f)
  PROVE  Core'
<1>1. op[f].at \notin Unheld /\ UNCHANGED claimed
  BY DEF Claim, At, Unheld, world
<1>2. CASE CredentialsProcessed(f, "LEDGER_ERROR")
  BY <1>1, <1>2, Held, ResultsType, CredentialsProcessedGood
<1>3. CASE /\ op[f].batch # NoBatch
           /\ Continue(f, [To(f, "PostCreds") EXCEPT !.batch = op[f].batch])
           /\ UNCHANGED <<tables, dbErrors, timer>>
  <2> DEFINE n == [To(f, "PostCreds") EXCEPT !.batch = op[f].batch]
  <2>1. /\ op[f] \in Op /\ op[f].id \in Promotions
    BY <1>1, Held
  <2>2. op[f].batch \in Batch /\ op[f].attest \in BOOLEAN /\ "PostCreds" \in Waits
    BY <2>1 DEF Op, Waits, CredentialWaits
  <2>3. n \in Op
    BY <2>1, <2>2, IdleType DEF To, Op
  <2>4. /\ n.at = "PostCreds" /\ n.id = op[f].id /\ n.promo = NoPromo
        /\ n.batch = op[f].batch
    BY DEF To, Idle
  <2>5. Continue(f, n) /\ UNCHANGED <<tables, dbErrors>>
    BY <1>3
  <2> HIDE DEF n
  <2>6. OpGood(n, batch, tokens, claimed)
    BY <1>1, <1>3, <2>4, Held DEF OpGood, NoPromo
  <2>7. dbErrors' \in 0..MaxDbErrors
    BY <2>5 DEF Core, TablesType
  <2> QED
    BY <1>1, <2>3, <2>5, <2>6, <2>7, ReplyGood
<1> QED
  BY <1>2, <1>3 DEF Claim


LEMMA PostCredsGood ==
  ASSUME Core, NEW f \in Flows, PostCreds(f)
  PROVE  Core'
<1> DEFINE p == op[f].id
           creds == op[f].batch.creds
           Answer(res, claim) == [To(f, "OnClaim") EXCEPT !.res = res, !.promo.claim = claim]
<1>1. op[f].at = "PostCreds" /\ op[f].at \notin Unheld /\ op[f].at \in Blinded
  BY DEF PostCreds, At, Unheld, Blinded
<1>2. /\ op[f] \in Op /\ p \in Promotions /\ op[f].batch # NoBatch
      /\ creds # NoCreds /\ batch[p].creds # NoCreds
  BY <1>1, Held
<1>3. creds \in Creds /\ op[f].attest \in BOOLEAN
  BY <1>2 DEF Op, Batch
<1>4. PICK res \in Results, claim \in Creds :
        /\ Continue(f, Answer(res, claim))
        /\ \/ claim = NoCreds /\ claimed' = claimed
           \/ claim = NoCreds /\ claimed[p] \in {NoCreds, creds}
              /\ claimed' = [claimed EXCEPT ![p] = creds]
           \/ claim = creds /\ claimed[p] \in {NoCreds, creds}
              /\ claimed' = [claimed EXCEPT ![p] = creds]
        /\ UNCHANGED <<tables, dbErrors>>
  BY <1>3, CredsType, ResultsType DEF PostCreds
<1>5. claimed' \in [Promotions -> Creds]
  BY <1>3, <1>4 DEF Core, TablesType
<1>6. Grows(batch, tokens, claimed, batch', tokens', claimed')
  BY <1>2, <1>4 DEF Grows, tables, Core, TablesType
<1>7. claim \in {NoCreds, claimed'[p]}
  BY <1>2, <1>4 DEF Core, TablesType
<1> DEFINE n == Answer(res, claim)
<1>8. [NoPromo EXCEPT !.claim = claim] \in Promo
  BY <1>4, CredsType DEF Promo
<1>9. n \in Op
  BY <1>2, <1>3, <1>8, IdleType, WaitsType DEF To, Op, Idle
<1>10. n.at = "OnClaim" /\ n.id = p /\ n.promo.claim = claim /\ n.batch = NoBatch
  BY DEF To, Idle, NoPromo
<1>11. Continue(f, n) /\ tokens' = tokens /\ batch' = batch /\ promo' = promo
       /\ dbErrors' = dbErrors
  BY <1>4 DEF tables
<1> HIDE DEF n
<1>12. OpGood(n, batch', tokens', claimed')
  BY <1>2, <1>7, <1>10, <1>11 DEF OpGood, NoBatch
<1>13. OpsGood'
  BY <1>6, <1>9, <1>11, <1>12, ContinueGood
<1>14. RowsGood'
  <2>1. ASSUME NEW q \in Promotions
        PROVE  RowGood(promo[q], batch[q], tokens[q], claimed'[q])
    <3>1. RowGood(promo[q], batch[q], tokens[q], claimed[q])
      BY DEF Core, RowsGood
    <3>2. claimed'[q] = claimed[q] \/ claimed[q] = NoCreds
      BY <1>2, <1>4 DEF Core, TablesType
    <3> QED
      BY <3>1, <3>2 DEF RowGood
  <2> QED
    BY <1>11, <2>1 DEF RowsGood
<1> QED
  BY <1>5, <1>11, <1>13, <1>14 DEF Core, TablesType

LEMMA OnClaimGood ==
  ASSUME Core, NEW f \in Flows, OnClaim(f)
  PROVE  Core'
<1>1. op[f].at \notin Unheld /\ op[f].at \in Blinded /\ UNCHANGED claimed
  BY DEF OnClaim, At, Unheld, Blinded, world
<1>2. op[f] \in Op /\ op[f].id \in Promotions /\ batch[op[f].id].creds # NoCreds
      /\ op[f].promo.claim \in {NoCreds, claimed[op[f].id]}
  BY <1>1, Held
<1>3. CASE op[f].res # "OK" /\ CredentialsProcessed(f, op[f].res)
  BY <1>1, <1>2, <1>3, CredentialsProcessedGood DEF Op
<1>4. CASE SetPromo(f, To(f, "ClaimedSaved"),
                    [promo[op[f].id] EXCEPT !.claim = op[f].promo.claim])
  <2> DEFINE row == promo[op[f].id]
             value == [row EXCEPT !.claim = op[f].promo.claim]
  <2>1. row \in Promo /\ RowGood(row, batch[op[f].id], tokens[op[f].id], claimed[op[f].id])
    BY <1>2 DEF Core, TablesType, RowsGood
  <2>2. op[f].promo.claim \in Creds
    BY <1>2 DEF Op, Promo
  <2>3. value \in Promo /\ value.claim = op[f].promo.claim /\ value.status = row.status
    BY <2>1, <2>2 DEF Promo
  <2>4. RowGood(value, batch[op[f].id], tokens[op[f].id], claimed[op[f].id])
    BY <1>2, <2>1, <2>3 DEF RowGood
  <2>5. /\ To(f, "ClaimedSaved") \in Op /\ To(f, "ClaimedSaved").at = "ClaimedSaved"
        /\ OpGood(To(f, "ClaimedSaved"), batch, tokens, claimed)
    BY <1>2, WaitsType, ToGood DEF Core
  <2> QED
    BY <1>1, <1>2, <1>4, <2>3, <2>4, <2>5, SetPromoGood
<1> QED
  BY <1>3, <1>4 DEF OnClaim

LEMMA ClaimedSavedGood ==
  ASSUME Core, NEW f \in Flows, ClaimedSaved(f)
  PROVE  Core'
<1>1. op[f].at \notin Unheld /\ op[f].at \in Blinded /\ UNCHANGED claimed
  BY DEF ClaimedSaved, At, Unheld, Blinded, world
<1>2. CASE CredentialsProcessed(f, "LEDGER_ERROR")
  BY <1>1, <1>2, Held, ResultsType, CredentialsProcessedGood
<1>3. CASE UpdateCredsBatchStatus(f, "CLAIMED", "ClaimStatusSaved")
  <2>1. "CLAIMED" \in BatchStatuses \ {"NONE"}
    BY DEF BatchStatuses
  <2> QED
    BY <1>1, <1>3, <2>1, Held, WaitsType, UpdateCredsBatchStatusGood
<1> QED
  BY <1>2, <1>3 DEF ClaimedSaved

LEMMA ClaimStatusSavedGood ==
  ASSUME Core, NEW f \in Flows, ClaimStatusSaved(f)
  PROVE  Core'
<1>1. op[f].at \notin Unheld /\ op[f].at \in Blinded /\ UNCHANGED claimed
  BY DEF ClaimStatusSaved, At, Unheld, Blinded, world
<1>2. CASE CredentialsProcessed(f, "LEDGER_ERROR")
  BY <1>1, <1>2, Held, ResultsType, CredentialsProcessedGood
<1>3. CASE GetPromotion(f, To(f, "FetchSignedCreds"))
  BY <1>1, <1>3, Held, ReadPromotion, WaitsType
<1> QED
  BY <1>2, <1>3 DEF ClaimStatusSaved

LEMMA FetchSignedCredsGood ==
  ASSUME Core, NEW f \in Flows, FetchSignedCreds(f)
  PROVE  Core'
<1>1. op[f].at \notin Unheld /\ op[f].at \in Blinded /\ UNCHANGED claimed
  BY DEF FetchSignedCreds, At, Unheld, Blinded, world
<1>2. CASE CredentialsProcessed(f, "LEDGER_ERROR")
  BY <1>1, <1>2, Held, ResultsType, CredentialsProcessedGood
<1>3. CASE UpdateCredsBatchStatus(f, "BLINDED", "RetryPreviousStepSaved")
  <2>1. "BLINDED" \in BatchStatuses \ {"NONE"}
    BY DEF BatchStatuses
  <2> QED
    BY <1>1, <1>3, <2>1, Held, WaitsType, UpdateCredsBatchStatusGood
<1>4. CASE /\ Continue(f, [To(f, "OnFetchSignedCreds") EXCEPT !.promo = op[f].promo])
           /\ UNCHANGED <<tables, dbErrors>>
  <2> DEFINE x == To(f, "OnFetchSignedCreds")
             n == [x EXCEPT !.promo = op[f].promo]
  <2>1. /\ op[f] \in Op /\ op[f].id \in Promotions /\ batch[op[f].id].creds # NoCreds
        /\ op[f].promo.claim \in {NoCreds, claimed[op[f].id]}
    BY <1>1, Held
  <2>2. /\ x \in Op /\ x.at = "OnFetchSignedCreds" /\ x.id = op[f].id
        /\ OpGood(x, batch, tokens, claimed)
    BY <2>1, WaitsType, ToGood DEF Core
  <2>3. Continue(f, n) /\ dbErrors' = dbErrors /\ UNCHANGED <<tables, claimed>>
    BY <1>1, <1>4
  <2> HIDE DEF x
  <2>4. /\ n \in Op /\ n.at = x.at /\ n.id = x.id /\ n.batch = x.batch
        /\ n.promo = op[f].promo
    BY <2>1, <2>2 DEF Op
  <2> HIDE DEF n
  <2>5. OpGood(n, batch, tokens, claimed)
    BY <2>1, <2>2, <2>4 DEF OpGood
  <2>6. dbErrors' \in 0..MaxDbErrors
    BY <2>3 DEF Core, TablesType
  <2> QED
    BY <2>3, <2>4, <2>5, <2>6, ReplyGood
<1> QED
  BY <1>2, <1>3, <1>4 DEF FetchSignedCreds

LEMMA RetryPreviousStepSavedGood ==
  ASSUME Core, NEW f \in Flows, RetryPreviousStepSaved(f)
  PROVE  Core'
<1>1. op[f].at \notin Unheld /\ UNCHANGED claimed
  BY DEF RetryPreviousStepSaved, At, Unheld, world
<1>2. \/ CredentialsProcessed(f, "RETRY") \/ CredentialsProcessed(f, "LEDGER_ERROR")
  BY DEF RetryPreviousStepSaved
<1> QED
  BY <1>1, <1>2, Held, ResultsType, CredentialsProcessedGood


\* What the server signs are the creds of the claim.
LEMMA SignedCredsGood ==
  ASSUME Core, NEW f \in Flows, SignedCreds(f)
  PROVE  Core'
<1> DEFINE row == batch[op[f].id]
           value == [row EXCEPT !.status = "SIGNED", !.signed = op[f].promo.claim]
<1>1. /\ op[f].at \notin Unheld /\ op[f].at \in Blinded /\ UNCHANGED claimed
      /\ SetBatch(f, To(f, "SignedCredsSaved"), value)
  BY DEF SignedCreds, At, Unheld, Blinded, world
<1>2. op[f] \in Op /\ op[f].id \in Promotions /\ batch[op[f].id].creds # NoCreds
      /\ op[f].promo.claim \in {NoCreds, claimed[op[f].id]}
  BY <1>1, Held
<1>3. row \in Batch /\ RowGood(promo[op[f].id], row, tokens[op[f].id], claimed[op[f].id])
  BY <1>2 DEF Core, TablesType, RowsGood
<1>4. op[f].promo.claim \in Creds /\ "SIGNED" \in BatchStatuses
  BY <1>2 DEF Op, Promo, BatchStatuses
<1>5. /\ value \in Batch /\ value.creds = row.creds /\ value.status = "SIGNED"
      /\ value.signed = op[f].promo.claim
  BY <1>3, <1>4 DEF Batch
<1> HIDE DEF value
<1>6. RowGood(promo[op[f].id], value, tokens[op[f].id], claimed[op[f].id])
  BY <1>2, <1>3, <1>5 DEF RowGood
<1>7. /\ To(f, "SignedCredsSaved") \in Op
      /\ To(f, "SignedCredsSaved").at = "SignedCredsSaved"
      /\ OpGood(To(f, "SignedCredsSaved"), batch, tokens, claimed)
  BY <1>2, WaitsType, ToGood DEF Core
<1> QED
  BY <1>1, <1>2, <1>5, <1>6, <1>7, SetBatchGood

LEMMA OnFetchSignedCredsGood ==
  ASSUME Core, NEW f \in Flows, OnFetchSignedCreds(f)
  PROVE  Core'
<1>1. CASE SignedCreds(f)
  BY <1>1, SignedCredsGood
<1>2. CASE /\ At(f, "OnFetchSignedCreds") /\ UNCHANGED world
           /\ CredentialsProcessed(f, "RETRY") \/ CredentialsProcessed(f, "LEDGER_ERROR")
  <2>1. op[f].at \notin Unheld /\ UNCHANGED claimed
    BY <1>2 DEF At, Unheld, world
  <2> QED
    BY <1>2, <2>1, Held, ResultsType, CredentialsProcessedGood
<1> QED
  BY <1>1, <1>2 DEF OnFetchSignedCreds

LEMMA SignedCredsSavedGood ==
  ASSUME Core, NEW f \in Flows, SignedCredsSaved(f)
  PROVE  Core'
<1>1. op[f].at \notin Unheld /\ op[f].at \in Blinded /\ UNCHANGED claimed
  BY DEF SignedCredsSaved, At, Unheld, Blinded, world
<1>2. CASE CredentialsProcessed(f, "LEDGER_ERROR")
  BY <1>1, <1>2, Held, ResultsType, CredentialsProcessedGood
<1>3. CASE GetCredsBatchByTrigger(f, To(f, "Unblind"))
  BY <1>1, <1>3, Held, ReadBatch, WaitsType
<1> QED
  BY <1>2, <1>3 DEF SignedCredsSaved

LEMMA UnblindGood ==
  ASSUME Core, NEW f \in Flows, Unblind(f)
  PROVE  Core'
<1>1. op[f].at \notin Unheld /\ op[f].at \in Blinded /\ UNCHANGED claimed
  BY DEF Unblind, At, Unheld, Blinded, world
<1>2. CASE CredentialsProcessed(f, "LEDGER_ERROR")
  BY <1>1, <1>2, Held, ResultsType, CredentialsProcessedGood
<1>3. CASE /\ op[f].batch # NoBatch
           /\ GetPromotion(f, [To(f, "VerifyPublicKey") EXCEPT !.batch = op[f].batch])
  <2> DEFINE n == [To(f, "VerifyPublicKey") EXCEPT !.batch = op[f].batch]
  <2>1. /\ op[f] \in Op /\ op[f].id \in Promotions
    BY <1>1, Held
  <2>2. op[f].batch \in Batch /\ op[f].attest \in BOOLEAN
    BY <2>1 DEF Op
  <2>3. n \in Op
    BY <2>1, <2>2, IdleType, WaitsType DEF To, Op
  <2>4. /\ n.at = "VerifyPublicKey" /\ n.id = op[f].id /\ n.promo = NoPromo
        /\ n.batch = op[f].batch
    BY DEF To, Idle
  <2>5. GetPromotion(f, n)
    BY <1>3
  <2> HIDE DEF n
  <2>6. OpGood(n, batch, tokens, claimed)
    BY <1>1, <1>3, <2>4, Held DEF OpGood, NoPromo
  <2> QED
    BY <1>1, <2>1, <2>3, <2>4, <2>5, <2>6, GetPromotionGood
<1> QED
  BY <1>2, <1>3 DEF Unblind

\* Signed creds that are the blinded ones are the creds the server accepted.
LEMMA VerifyPublicKeyGood ==
  ASSUME Core, NEW f \in Flows, VerifyPublicKey(f)
  PROVE  Core'
<1> DEFINE p == op[f].id
           b == op[f].batch
<1>1. op[f].at = "VerifyPublicKey" /\ op[f].at \notin Unheld /\ op[f].at \in Blinded
      /\ UNCHANGED claimed
  BY DEF VerifyPublicKey, At, Unheld, Blinded, world
<1>2. /\ op[f] \in Op /\ p \in Promotions /\ b # NoBatch /\ b.creds # NoCreds
      /\ b.signed \in {NoCreds, claimed[p]} /\ batch[p].creds # NoCreds
  BY <1>1, Held
<1>3. CASE CredentialsProcessed(f, "LEDGER_ERROR")
  BY <1>1, <1>2, <1>3, ResultsType, CredentialsProcessedGood
<1>4. CASE /\ UnBlindCreds(b)
           /\ \E ok \in BOOLEAN :
                /\ Transaction(ok)
                /\ Continue(f, [To(f, "OnSaveUnblindedCreds") EXCEPT !.ok = ok])
                /\ tokens' = IF ok THEN [tokens EXCEPT ![p] = @ \cup {b.creds}] ELSE tokens
           /\ UNCHANGED <<promo, batch, timer>>
  <2>1. PICK ok \in BOOLEAN :
          /\ Transaction(ok)
          /\ Continue(f, [To(f, "OnSaveUnblindedCreds") EXCEPT !.ok = ok])
          /\ tokens' = IF ok THEN [tokens EXCEPT ![p] = @ \cup {b.creds}] ELSE tokens
    BY <1>4
  <2>2. b.creds = claimed[p] /\ b.creds \in Creds
    BY <1>2, <1>4 DEF UnBlindCreds, Op, Batch
  <2>3. tokens' \in [Promotions -> SUBSET Creds]
    BY <1>2, <2>1, <2>2 DEF Core, TablesType
  <2>4. Grows(batch, tokens, claimed, batch', tokens', claimed')
    BY <1>1, <1>2, <1>4, <2>1 DEF Grows, Core, TablesType
  <2> DEFINE n == [To(f, "OnSaveUnblindedCreds") EXCEPT !.ok = ok]
  <2>5. n \in Op
    <3>1. op[f].attest \in BOOLEAN
      BY <1>2 DEF Op
    <3> QED
      BY <1>2, <3>1, IdleType, WaitsType DEF To, Op
  <2>6. /\ n.at = "OnSaveUnblindedCreds" /\ n.id = p /\ n.promo = NoPromo
        /\ n.batch = NoBatch /\ n.ok = ok
    BY DEF To, Idle
  <2>7. Continue(f, n) /\ batch' = batch /\ promo' = promo
    BY <1>4, <2>1
  <2> HIDE DEF n
  <2>8. ok => tokens'[p] # {}
    BY <1>2, <2>1 DEF Core, TablesType
  <2>9. OpGood(n, batch', tokens', claimed')
    BY <1>2, <2>6, <2>7, <2>8 DEF OpGood, NoPromo, NoBatch
  <2>10. OpsGood'
    BY <2>4, <2>5, <2>7, <2>9, ContinueGood
  <2>11. ASSUME NEW q \in Promotions
         PROVE  RowGood(promo[q], batch[q], tokens'[q], claimed[q])
    <3>1. RowGood(promo[q], batch[q], tokens[q], claimed[q])
      BY DEF Core, RowsGood
    <3>2. \/ tokens'[q] = tokens[q]
          \/ tokens'[q] = tokens[q] \cup {claimed[q]} /\ claimed[q] # NoCreds
      BY <1>2, <2>1, <2>2 DEF Core, TablesType
    <3> QED
      BY <3>1, <3>2 DEF RowGood
  <2>12. RowsGood'
    BY <1>1, <2>7, <2>11 DEF RowsGood
  <2> QED
    BY <1>1, <2>1, <2>3, <2>7, <2>10, <2>12, TransactionType DEF Core, TablesType
<1> QED
  BY <1>3, <1>4 DEF VerifyPublicKey

LEMMA OnSaveUnblindedCredsGood ==
  ASSUME Core, NEW f \in Flows, OnSaveUnblindedCreds(f)
  PROVE  Core'
<1>1. op[f].at = "OnSaveUnblindedCreds" /\ op[f].at \notin Unheld /\ op[f].at \in Blinded
      /\ UNCHANGED claimed
  BY DEF OnSaveUnblindedCreds, At, Unheld, Blinded, world
<1>2. CASE CredentialsProcessed(f, "RETRY")
  BY <1>1, <1>2, Held, ResultsType, CredentialsProcessedGood
<1>3. CASE op[f].ok /\ UpdateCredsBatchStatus(f, "FINISHED", "Completed")
  <2>1. "FINISHED" \in BatchStatuses \ {"NONE"}
    BY DEF BatchStatuses
  <2> QED
    BY <1>1, <1>3, <2>1, Held, WaitsType, UpdateCredsBatchStatusGood
<1> QED
  BY <1>2, <1>3 DEF OnSaveUnblindedCreds

LEMMA CompletedGood ==
  ASSUME Core, NEW f \in Flows, Completed(f)
  PROVE  Core'
<1>1. op[f].at = "Completed" /\ op[f].at \notin Unheld /\ UNCHANGED claimed
  BY DEF Completed, At, Unheld, world
<1>2. CASE CredentialsProcessed(f, "LEDGER_ERROR")
  BY <1>1, <1>2, Held, ResultsType, CredentialsProcessedGood
<1>3. CASE UpdatePromotionStatus(f, "FINISHED", "CredentialsProcessed")
  <2>1. "FINISHED" \in Statuses \ {"NONE"}
    BY DEF Statuses
  <2> QED
    BY <1>1, <1>3, <2>1, Held, WaitsType, UpdatePromotionStatusGood
<1> QED
  BY <1>2, <1>3 DEF Completed

LEMMA OnCredentialsProcessedGood ==
  ASSUME Core, NEW f \in Flows, OnCredentialsProcessed(f)
  PROVE  Core'
<1>1. op[f].at = "CredentialsProcessed" /\ op[f].at \notin Unheld /\ UNCHANGED claimed
  BY DEF OnCredentialsProcessed, At, Unheld, world
<1>2. \/ CredentialsProcessed(f, "OK") \/ CredentialsProcessed(f, "LEDGER_ERROR")
  BY DEF OnCredentialsProcessed
<1> QED
  BY <1>1, <1>2, Held, ResultsType, CredentialsProcessedGood

LEMMA StatusUpdatedGood ==
  ASSUME Core, NEW f \in Flows, StatusUpdated(f)
  PROVE  Core'
<1>1. op[f].at \notin Unheld /\ UNCHANGED claimed
  BY DEF StatusUpdated, At, Unheld, world
<1>2. \/ Callback(f, "OK") \/ Callback(f, "LEDGER_ERROR")
  BY DEF StatusUpdated
<1> QED
  BY <1>1, <1>2, Held, ResultsType, CallbackGood


(***************************************************************************)
(* Attestation                                                             *)
(***************************************************************************)
LEMMA AttestGood ==
  ASSUME Core, NEW f \in Flows, NEW p \in Promotions, Attest(f, p)
  PROVE  Core'
<1>1. PICK ok \in BOOLEAN :
        /\ Transaction(ok)
        /\ Continue(f, [Idle EXCEPT !.at = "OnAttestPromotion", !.id = p, !.attest = TRUE,
                                    !.promo = IF ok THEN promo[p] ELSE NoPromo])
  BY DEF Attest
<1> DEFINE row == IF ok THEN promo[p] ELSE NoPromo
           n == [Idle EXCEPT !.at = "OnAttestPromotion", !.id = p, !.attest = TRUE,
                             !.promo = row]
<1>2. row \in Promo /\ row.claim \in {NoCreds, claimed[p]}
  BY CredsType DEF Core, TablesType, RowsGood, RowGood, NoPromo
<1> HIDE DEF row
<1>3. "OnAttestPromotion" \in Waits /\ "OnAttestPromotion" \notin Blinded
  BY DEF Waits, Blinded
<1>4. n \in Op
  BY <1>2, <1>3, IdleType DEF Op
<1>5. n.at = "OnAttestPromotion" /\ n.id = p /\ n.promo = row /\ n.batch = NoBatch
  BY DEF Idle
<1>6. Continue(f, n)
  BY <1>1 DEF row
<1> HIDE DEF n
<1>7. OpGood(n, batch, tokens, claimed)
  BY <1>2, <1>3, <1>5 DEF OpGood, NoBatch
<1>8. UNCHANGED <<tables, claimed>>
  BY DEF Attest, world
<1> QED
  BY <1>1, <1>4, <1>6, <1>7, <1>8, TransactionType, ReplyGood

LEMMA OnAttestPromotionGood ==
  ASSUME Core, NEW f \in Flows, OnAttestPromotion(f)
  PROVE  Core'
<1>1. op[f].at \notin Unheld /\ UNCHANGED <<tables, claimed>> /\ dbErrors' = dbErrors
  BY DEF OnAttestPromotion, At, Unheld, world
<1>2. dbErrors' \in 0..MaxDbErrors
  BY <1>1 DEF Core, TablesType
<1>3. CASE Continue(f, Idle)
  BY <1>1, <1>2, <1>3, IdleType, IdleGood, ReplyGood
<1>4. CASE Continue(f, To(f, "OnAttestedPromotion"))
  <2>1. "OnAttestedPromotion" \in Waits /\ "OnAttestedPromotion" \notin Blinded
    BY DEF Waits, Blinded
  <2>2. To(f, "OnAttestedPromotion") \in Op
        /\ OpGood(To(f, "OnAttestedPromotion"), batch, tokens, claimed)
    BY <1>1, <2>1, Held, ToGood DEF Core
  <2> QED
    BY <1>1, <1>2, <1>4, <2>2, ReplyGood
<1> QED
  BY <1>3, <1>4 DEF OnAttestPromotion

LEMMA OnAttestedPromotionGood ==
  ASSUME Core, NEW f \in Flows, OnAttestedPromotion(f)
  PROVE  Core'
<1>1. op[f].at \notin Unheld /\ UNCHANGED claimed
  BY DEF OnAttestedPromotion, At, Unheld, world
<1>2. CASE GetPromotion(f, To(f, "OnCompletedAttestation"))
  BY <1>1, <1>2, Held, WaitsType, ReadPromotion
<1>3. CASE Quit(f)
  BY <1>1, <1>3, QuitGood
<1> QED
  BY <1>2, <1>3 DEF OnAttestedPromotion

\* The row saved again loses its claim id, and with it nothing it promises.
LEMMA OnCompletedAttestationGood ==
  ASSUME Core, NEW f \in Flows, OnCompletedAttestation(f)
  PROVE  Core'
<1>1. op[f].at \notin Unheld /\ UNCHANGED claimed
  BY DEF OnCompletedAttestation, At, Unheld, world
<1>2. op[f].id \in Promotions
  BY <1>1, Held
<1>3. CASE Quit(f)
  BY <1>1, <1>3, QuitGood
<1>4. CASE SetPromo(f, To(f, "AttestedSaved"), SavedAs("ATTESTED"))
  <2>1. SavedAs("ATTESTED") \in Promo
    BY CredsType DEF SavedAs, Promo, Statuses
  <2>2. SavedAs("ATTESTED").claim = NoCreds /\ SavedAs("ATTESTED").status = "ATTESTED"
    BY DEF SavedAs
  <2>3. LET p == op[f].id IN RowGood(promo[p], batch[p], tokens[p], claimed[p])
    BY <1>2 DEF Core, RowsGood
  <2>4. LET p == op[f].id IN RowGood(SavedAs("ATTESTED"), batch[p], tokens[p], claimed[p])
    BY <2>2, <2>3 DEF RowGood
  <2>5. /\ To(f, "AttestedSaved") \in Op /\ To(f, "AttestedSaved").at = "AttestedSaved"
        /\ OpGood(To(f, "AttestedSaved"), batch, tokens, claimed)
    BY <1>2, WaitsType, ToGood DEF Core
  <2> QED
    BY <1>1, <1>2, <1>4, <2>1, <2>4, <2>5, SetPromoGood
<1> QED
  BY <1>3, <1>4 DEF OnCompletedAttestation

LEMMA AttestedSavedGood ==
  ASSUME Core, NEW f \in Flows, AttestedSaved(f)
  PROVE  Core'
<1>1. op[f].at \notin Unheld /\ UNCHANGED claimed
  BY DEF AttestedSaved, At, Unheld, world
<1>2. CASE GetCredentials(f)
  <2>1. GetCredsBatchByTrigger(f, To(f, "OnStart"))
    BY <1>2 DEF GetCredentials
  <2> QED
    BY <1>1, <2>1, Held, WaitsType, ReadBatch
<1>3. CASE Quit(f)
  BY <1>1, <1>3, QuitGood
<1> QED
  BY <1>2, <1>3 DEF AttestedSaved

LEMMA OnCompleteGood ==
  ASSUME Core, NEW f \in Flows, OnComplete(f)
  PROVE  Core'
<1>1. /\ Continue(f, Idle) /\ UNCHANGED <<tables, claimed>>
      /\ dbErrors' = dbErrors \/ \E ok \in BOOLEAN : Transaction(ok)
  BY DEF OnComplete, world
<1>2. dbErrors' \in 0..MaxDbErrors
  BY <1>1, TransactionType DEF Core, TablesType
<1> QED
  BY <1>1, <1>2, IdleType, IdleGood, ReplyGood


(***************************************************************************)
(* The list of promotions                                                  *)
(***************************************************************************)
\* A flow without a promotion of its own holds nothing the tables bound.
LEMMA UnheldGood ==
  ASSUME NEW x, x.at \in Unheld, x.id = 0, NEW b, NEW t, NEW c
  PROVE  OpGood(x, b, t, c)
<1>1. x.id \notin Promotions
  BY ConstantsAssumption DEF Promotions
<1> QED
  BY <1>1 DEF OpGood

LEMMA GetAllPromotionsGood ==
  ASSUME Core, NEW f \in Flows, NEW next \in Op, GetAllPromotions(f, next),
         next.at \in Unheld, next.id = 0, UNCHANGED claimed
  PROVE  Core'
<1>1. PICK ok \in BOOLEAN :
        /\ Transaction(ok)
        /\ Continue(f, [next EXCEPT !.seen = [p \in Promotions |->
                                      IF ok THEN promo[p].status ELSE "NONE"]])
        /\ UNCHANGED tables
  BY DEF GetAllPromotions
<1> DEFINE row == [p \in Promotions |-> IF ok THEN promo[p].status ELSE "NONE"]
           n == [next EXCEPT !.seen = row]
<1>2. row \in [Promotions -> Statuses]
  BY DEF Core, TablesType, Promo, Statuses
<1> HIDE DEF row
<1>3. n \in Op /\ n.at = next.at /\ n.id = next.id
  BY <1>2 DEF Op
<1>4. Continue(f, n)
  BY <1>1 DEF row
<1> HIDE DEF n
<1>5. OpGood(n, batch, tokens, claimed)
  BY <1>3, UnheldGood
<1> QED
  BY <1>1, <1>3, <1>4, <1>5, TransactionType, ReplyGood

LEMMA PromotionSets ==
  ASSUME NEW S \in SUBSET Promotions
  PROVE  IsFiniteSet(S) /\ Cardinality(S) \in Nat
<1>1. IsFiniteSet(Promotions)
  BY ConstantsAssumption, FS_Interval DEF Promotions
<1>2. IsFiniteSet(S)
  BY <1>1, FS_Subset
<1> QED
  BY <1>2, FS_CardinalityType

\* Every flow that a list sets off holds what it was given.
LEMMA SpawnGood ==
  ASSUME NEW f \in Flows, NEW P \in SUBSET Promotions, NEW next \in [P -> Op],
         NEW b, NEW t, NEW c, \A p \in P : OpGood(next[p], b, t, c),
         op \in [Flows -> Op], \A g \in Flows : OpGood(op[g], b, t, c),
         Spawn(f, P, next)
  PROVE  op' \in [Flows -> Op] /\ \A g \in Flows : OpGood(op'[g], b, t, c)
<1>1. PICK slot \in [P -> IdleFlows \cup {f}] :
        op' = [g \in Flows |->
                 IF \E p \in P : slot[p] = g
                 THEN next[CHOOSE p \in P : slot[p] = g]
                 ELSE IF g = f THEN Idle ELSE op[g]]
  BY DEF Spawn
<1>2. ASSUME NEW g \in Flows
      PROVE  op'[g] \in Op /\ OpGood(op'[g], b, t, c)
  <2>1. CASE \E p \in P : slot[p] = g
    <3> DEFINE q == CHOOSE p \in P : slot[p] = g
    <3>1. q \in P
      BY <2>1
    <3>2. op'[g] = next[q]
      BY <1>1, <2>1
    <3> HIDE DEF q
    <3> QED
      BY <3>1, <3>2
  <2>2. CASE ~\E p \in P : slot[p] = g
    BY <1>1, <2>2, IdleType, IdleGood
  <2> QED
    BY <2>1, <2>2
<1>3. op' \in [Flows -> Op]
  BY <1>1, <1>2
<1> QED
  BY <1>2, <1>3

LEMMA OverGood ==
  ASSUME NEW table \in [Promotions -> Promo], NEW P \in SUBSET Promotions,
         NEW b, NEW t, NEW c, \A p \in Promotions : RowGood(table[p], b[p], t[p], c[p])
  PROVE  /\ Over(P, table) \in [Promotions -> Promo]
         /\ \A p \in Promotions : RowGood(Over(P, table)[p], b[p], t[p], c[p])
<1>1. ASSUME NEW p \in Promotions
      PROVE  Over(P, table)[p] \in Promo /\ RowGood(Over(P, table)[p], b[p], t[p], c[p])
  <2>1. CASE p \in P
    <3> DEFINE row == [table[p] EXCEPT !.status = "OVER"]
    <3>1. table[p] \in Promo /\ Over(P, table)[p] = row
      BY <2>1 DEF Over
    <3>2. row \in Promo /\ row.claim = table[p].claim /\ row.status = "OVER"
      BY <3>1 DEF Promo, Statuses
    <3> QED
      BY <3>1, <3>2 DEF RowGood
  <2>2. CASE p \notin P
    BY <2>2 DEF Over
  <2> QED
    BY <2>1, <2>2
<1>2. Over(P, table) \in [Promotions -> Promo]
  BY <1>1 DEF Over
<1> QED
  BY <1>1, <1>2

LEMMA RetryGood ==
  ASSUME Core, RestType, NEW f \in Flows, Retry(f)
  PROVE  Core'
<1> DEFINE over == HandleExpiredPromotions(op[f].seen)
           attested == {p \in Promotions : op[f].seen[p] = "ATTESTED"}
<1>1. PICK lost \in SUBSET over, failed \in SUBSET attested :
        /\ Failures(Cardinality(lost) + Cardinality(failed))
        /\ promo' = Over(over \ lost, promo)
        /\ Spawn(f, attested, [p \in attested |->
             [Idle EXCEPT !.at = "OnStart", !.id = p,
                          !.batch = IF p \in failed THEN NoBatch ELSE batch[p]]])
  BY DEF Retry
<1>2. batch' = batch /\ tokens' = tokens /\ claimed' = claimed
  BY DEF Retry, world
<1>3. over \in SUBSET Promotions
  BY DEF HandleExpiredPromotions, RestType
<1> HIDE DEF over
<1>4. dbErrors' \in 0..MaxDbErrors
  <2>1. lost \in SUBSET Promotions /\ failed \in SUBSET Promotions
    BY <1>3
  <2>2. Cardinality(lost) \in Nat /\ Cardinality(failed) \in Nat
    BY <2>1, PromotionSets
  <2>3. Cardinality(lost) + Cardinality(failed) \in Nat
    BY <2>2
  <2> QED
    BY <1>1, <2>3, FailuresType
<1>5. promo' \in [Promotions -> Promo] /\ RowsGood'
  <2>1. over \ lost \in SUBSET Promotions /\ promo \in [Promotions -> Promo]
        /\ \A p \in Promotions : RowGood(promo[p], batch[p], tokens[p], claimed[p])
    BY <1>3 DEF Core, TablesType, RowsGood
  <2> QED
    BY <1>1, <1>2, <2>1, OverGood DEF RowsGood
<1> DEFINE row(p) == IF p \in failed THEN NoBatch ELSE batch[p]
           next == [p \in attested |->
             [Idle EXCEPT !.at = "OnStart", !.id = p, !.batch = row(p)]]
<1>6. ASSUME NEW p \in attested
      PROVE  next[p] \in Op /\ OpGood(next[p], batch, tokens, claimed)
  <2> DEFINE r == row(p)
             n == [Idle EXCEPT !.at = "OnStart", !.id = p, !.batch = r]
  <2>1. /\ p \in Promotions /\ r \in Batch /\ r.signed \in {NoCreds, claimed[p]}
        /\ r # NoBatch => r.creds # NoCreds /\ batch[p].creds # NoCreds
        /\ r.status = "FINISHED" => tokens[p] # {}
    <3>1. p \in Promotions
      OBVIOUS
    <3>2. CASE p \in failed
      BY <3>1, <3>2, CredsType DEF NoBatch
    <3>3. CASE p \notin failed
      BY <3>1, <3>3 DEF Core, TablesType, RowsGood, RowGood
    <3> QED
      BY <3>1, <3>2, <3>3
  <2> HIDE DEF row
  <2>2. next[p] = n
    OBVIOUS
  <2> HIDE DEF r
  <2>3. n \in Op
    BY <2>1, IdleType, WaitsType DEF Op
  <2>4. n.at = "OnStart" /\ n.id = p /\ n.promo = NoPromo /\ n.batch = r
    BY DEF Idle
  <2> HIDE DEF n, next
  <2>5. OpGood(n, batch, tokens, claimed)
    BY <2>1, <2>4 DEF OpGood, NoPromo, Blinded
  <2> QED
    BY <2>2, <2>3, <2>5
<1>7. Spawn(f, attested, next)
  BY <1>1
<1>8. attested \in SUBSET Promotions /\ next \in [attested -> Op]
  BY <1>6
<1> HIDE DEF attested, next
<1>9. op' \in [Flows -> Op] /\ \A g \in Flows : OpGood(op'[g], batch, tokens, claimed)
  BY <1>6, <1>7, <1>8, SpawnGood DEF Core, OpsGood
<1>10. OpsGood'
  BY <1>2, <1>9 DEF OpsGood
<1> QED
  BY <1>2, <1>4, <1>5, <1>10 DEF Core, TablesType


LEMMA OnRetryTimerElapsedGood ==
  ASSUME Core, NEW f \in Flows, OnRetryTimerElapsed(f)
  PROVE  Core'
<1> DEFINE n == [Idle EXCEPT !.at = "Retry"]
<1>1. GetAllPromotions(f, n) /\ UNCHANGED claimed
  BY DEF OnRetryTimerElapsed, world
<1>2. n \in Op /\ n.at \in Unheld /\ n.id = 0
  BY IdleType DEF Op, Waits, Unheld, Idle
<1> QED
  BY <1>1, <1>2, GetAllPromotionsGood

LEMMA FetchGood ==
  ASSUME Core, NEW f \in Flows, Fetch(f)
  PROVE  Core'
<1> DEFINE x == [Idle EXCEPT !.at = "OnGetAllPromotionsFromDatabase"]
           n == [Idle EXCEPT !.at = "OnFetch"]
<1>1. UNCHANGED claimed
  BY DEF Fetch, world
<1>2. /\ x \in Op /\ x.at \in Unheld /\ x.id = 0
      /\ n \in Op /\ n.at \in Unheld /\ n.id = 0
  BY IdleType DEF Op, Waits, Unheld, Idle
<1>3. CASE GetAllPromotions(f, x)
  BY <1>1, <1>2, <1>3, GetAllPromotionsGood
<1>4. CASE Continue(f, n) /\ UNCHANGED <<tables, dbErrors>>
  <2>1. dbErrors' \in 0..MaxDbErrors
    BY <1>4 DEF Core, TablesType
  <2> HIDE DEF n
  <2>2. OpGood(n, batch, tokens, claimed)
    BY <1>2, UnheldGood
  <2> QED
    BY <1>1, <1>2, <1>4, <2>1, <2>2, ReplyGood
<1> QED
  BY <1>3, <1>4 DEF Fetch

LEMMA OnGetAllPromotionsFromDatabaseGood ==
  ASSUME Core, RestType, NEW f \in Flows, OnGetAllPromotionsFromDatabase(f)
  PROVE  Core'
<1> DEFINE over == HandleExpiredPromotions(op[f].seen)
<1>1. PICK lost \in SUBSET over :
        Failures(Cardinality(lost)) /\ promo' = Over(over \ lost, promo)
  BY DEF OnGetAllPromotionsFromDatabase
<1>2. /\ batch' = batch /\ tokens' = tokens /\ claimed' = claimed
      /\ Continue(f, Idle)
  BY DEF OnGetAllPromotionsFromDatabase, world
<1>3. over \in SUBSET Promotions
  BY DEF HandleExpiredPromotions, RestType
<1> HIDE DEF over
<1>4. dbErrors' \in 0..MaxDbErrors
  <2>1. Cardinality(lost) \in Nat
    BY <1>3, PromotionSets
  <2> QED
    BY <1>1, <2>1, FailuresType
<1>5. promo' \in [Promotions -> Promo] /\ RowsGood'
  <2>1. over \ lost \in SUBSET Promotions /\ promo \in [Promotions -> Promo]
        /\ \A p \in Promotions : RowGood(promo[p], batch[p], tokens[p], claimed[p])
    BY <1>3 DEF Core, TablesType, RowsGood
  <2> QED
    BY <1>1, <1>2, <2>1, OverGood DEF RowsGood
<1>6. OpsGood'
  BY <1>2, IdleType, IdleGood, ContinueGood DEF Grows
<1> QED
  BY <1>2, <1>4, <1>5, <1>6 DEF Core, TablesType

LEMMA OnFetchGood ==
  ASSUME Core, NEW f \in Flows, OnFetch(f)
  PROVE  Core'
<1>1. UNCHANGED claimed
  BY DEF OnFetch, world
<1>2. CASE Quit(f)
  BY <1>1, <1>2, QuitGood
<1>3. ASSUME NEW listed \in SUBSET Promotions,
             GetAllPromotions(f, [Idle EXCEPT !.at = "OnGetAllPromotions", !.listed = listed])
      PROVE  Core'
  <2> DEFINE n == [Idle EXCEPT !.at = "OnGetAllPromotions", !.listed = listed]
  <2>1. n \in Op /\ n.at \in Unheld /\ n.id = 0
    BY IdleType DEF Op, Waits, Unheld, Idle
  <2> QED
    BY <1>1, <1>3, <2>1, GetAllPromotionsGood
<1> QED
  BY <1>2, <1>3 DEF OnFetch

\* What is listed is saved anew without its claim id, what is gone is over.
LEMMA OnGetAllPromotionsGood ==
  ASSUME Core, RestType, NEW f \in Flows, OnGetAllPromotions(f)
  PROVE  Core'
<1> DEFINE fresh == {p \in op[f].listed : NewOrActive(op[f].seen, p)}
           expiring == HandleExpiredPromotions(op[f].seen)
           gone == NotListed(f)
           Saved(E, S, L) == [p \in Promotions |->
             IF p \in S THEN SavedAs(IF p \in L THEN "ATTESTED" ELSE "ACTIVE")
                        ELSE Over(E, promo)[p]]
<1>1. PICK notExpired \in SUBSET expiring, notSaved \in SUBSET fresh,
           notGone \in SUBSET gone, legacy \in SUBSET (fresh \cap Legacy) :
        /\ Failures(Cardinality(notExpired) + Cardinality(notSaved) + Cardinality(notGone))
        /\ promo' = Over(gone \ notGone,
                         Saved(expiring \ notExpired, fresh \ notSaved, legacy))
        /\ Spawn(f, legacy, [p \in legacy |->
             [Idle EXCEPT !.at = "LegacyClaimedSaved", !.id = p, !.ok = p \notin notSaved]])
  BY DEF OnGetAllPromotions
<1>2. batch' = batch /\ tokens' = tokens /\ claimed' = claimed
  BY DEF OnGetAllPromotions, world
<1>3. /\ expiring \in SUBSET Promotions /\ gone \in SUBSET Promotions
      /\ fresh \in SUBSET Promotions
  BY DEF HandleExpiredPromotions, NotListed, RestType, Core, OpsGood, Op
<1> HIDE DEF expiring, gone, fresh
<1>4. dbErrors' \in 0..MaxDbErrors
  <2>1. /\ notExpired \in SUBSET Promotions /\ notSaved \in SUBSET Promotions
        /\ notGone \in SUBSET Promotions
    BY <1>3
  <2>2. /\ Cardinality(notExpired) \in Nat /\ Cardinality(notSaved) \in Nat
        /\ Cardinality(notGone) \in Nat
    BY <2>1, PromotionSets
  <2>3. Cardinality(notExpired) + Cardinality(notSaved) + Cardinality(notGone) \in Nat
    BY <2>2
  <2> QED
    BY <1>1, <2>3, FailuresType
<1> DEFINE saved == Saved(expiring \ notExpired, fresh \ notSaved, legacy)
<1>5. saved \in [Promotions -> Promo]
      /\ \A p \in Promotions : RowGood(saved[p], batch[p], tokens[p], claimed[p])
  <2> DEFINE kept == Over(expiring \ notExpired, promo)
  <2>1. /\ expiring \ notExpired \in SUBSET Promotions /\ promo \in [Promotions -> Promo]
        /\ \A p \in Promotions : RowGood(promo[p], batch[p], tokens[p], claimed[p])
    BY <1>3 DEF Core, TablesType, RowsGood
  <2>2. /\ kept \in [Promotions -> Promo]
        /\ \A p \in Promotions : RowGood(kept[p], batch[p], tokens[p], claimed[p])
    BY <2>1, OverGood
  <2> HIDE DEF kept
  <2>3. ASSUME NEW status \in {"ATTESTED", "ACTIVE"}, NEW p \in Promotions
        PROVE  /\ SavedAs(status) \in Promo
               /\ RowGood(SavedAs(status), batch[p], tokens[p], claimed[p])
    <3>1. SavedAs(status) \in Promo
      BY CredsType DEF SavedAs, Promo, Statuses
    <3>2. SavedAs(status).claim = NoCreds /\ SavedAs(status).status # "FINISHED"
      BY DEF SavedAs
    <3> QED
      BY <2>1, <3>1, <3>2 DEF RowGood
  <2>4. ASSUME NEW p \in Promotions
        PROVE  /\ saved[p] \in Promo
               /\ RowGood(saved[p], batch[p], tokens[p], claimed[p])
    <3>1. \/ saved[p] = SavedAs("ATTESTED") \/ saved[p] = SavedAs("ACTIVE")
          \/ saved[p] = kept[p]
      BY DEF kept
    <3> QED
      BY <2>2, <2>3, <3>1
  <2>5. saved = [p \in Promotions |-> saved[p]]
    OBVIOUS
  <2> HIDE DEF saved
  <2> QED
    BY <2>4, <2>5
<1>6. promo' \in [Promotions -> Promo] /\ RowsGood'
  <2>1. gone \ notGone \in SUBSET Promotions /\ promo' = Over(gone \ notGone, saved)
    BY <1>1, <1>3
  <2> HIDE DEF saved
  <2> QED
    BY <1>2, <1>5, <2>1, OverGood DEF RowsGood
<1> DEFINE next == [p \in legacy |->
             [Idle EXCEPT !.at = "LegacyClaimedSaved", !.id = p, !.ok = p \notin notSaved]]
<1>7. legacy \in SUBSET Promotions
  BY <1>3
<1>8. ASSUME NEW p \in legacy
      PROVE  next[p] \in Op /\ OpGood(next[p], batch, tokens, claimed)
  <2> DEFINE ok == p \notin notSaved
             n == [Idle EXCEPT !.at = "LegacyClaimedSaved", !.id = p, !.ok = ok]
  <2>1. p \in Promotions /\ next[p] = n /\ ok \in BOOLEAN
    BY <1>7
  <2>2. "LegacyClaimedSaved" \in Waits /\ "LegacyClaimedSaved" \notin Blinded
    BY DEF Waits, Blinded
  <2> HIDE DEF ok
  <2>3. n \in Op
    BY <2>1, <2>2, IdleType DEF Op
  <2>4. /\ n.at = "LegacyClaimedSaved" /\ n.id = p /\ n.promo = NoPromo
        /\ n.batch = NoBatch
    BY DEF Idle
  <2> HIDE DEF n, next
  <2>5. OpGood(n, batch, tokens, claimed)
    BY <2>1, <2>2, <2>4 DEF OpGood, NoPromo, NoBatch
  <2> QED
    BY <2>1, <2>3, <2>5
<1>9. Spawn(f, legacy, next) /\ next \in [legacy -> Op]
  BY <1>1, <1>8
<1> HIDE DEF next
<1>10. op' \in [Flows -> Op] /\ \A g \in Flows : OpGood(op'[g], batch, tokens, claimed)
  BY <1>7, <1>8, <1>9, SpawnGood DEF Core, OpsGood
<1>11. OpsGood'
  BY <1>2, <1>10 DEF OpsGood
<1> QED
  BY <1>2, <1>4, <1>6, <1>11 DEF Core, TablesType

\* Nothing in memory survives; the tables do.
LEMMA RestartGood ==
  ASSUME Core, NEW f \in Flows, Restart(f)
  PROVE  Core'
<1>1. PICK ok \in BOOLEAN :
        /\ Transaction(ok)
        /\ op' = [g \in Flows |-> IF g # f THEN Idle ELSE
                   [Idle EXCEPT !.at = "Retry",
                                !.seen = [p \in Promotions |->
                                           IF ok THEN promo[p].status ELSE "NONE"]]]
  BY DEF Restart
<1>2. UNCHANGED <<tables, claimed>>
  BY DEF Restart, world
<1> DEFINE seen == [p \in Promotions |-> IF ok THEN promo[p].status ELSE "NONE"]
           n == [Idle EXCEPT !.at = "Retry", !.seen = seen]
<1>3. seen \in [Promotions -> Statuses]
  BY DEF Core, TablesType, Promo, Statuses
<1>4. op' = [g \in Flows |-> IF g # f THEN Idle ELSE n]
  BY <1>1
<1> HIDE DEF seen
<1>5. n \in Op /\ n.at \in Unheld /\ n.id = 0
  BY <1>3, IdleType DEF Op, Waits, Unheld, Idle
<1> HIDE DEF n
<1>6. op' \in [Flows -> Op]
  BY <1>4, <1>5, IdleType
<1>7. \A g \in Flows : OpGood(op'[g], batch, tokens, claimed)
  BY <1>4, <1>5, IdleGood, UnheldGood
<1>8. OpsGood'
  BY <1>2, <1>6, <1>7 DEF OpsGood, tables
<1> QED
  BY <1>1, <1>2, <1>8, TransactionType DEF Core, TablesType, RowsGood, tables


(***************************************************************************)
(* What the core does not speak of                                         *)
(***************************************************************************)
LEMMA TimerType ==
  ASSUME timer \in BOOLEAN, NEW f \in Flows, NEW res, CredentialsProcessed(f, res)
  PROVE  timer' \in BOOLEAN
BY DEF CredentialsProcessed

CounterType ==
  /\ reports \in [Promotions -> Nat]
  /\ blinds \in [Promotions -> Creds]
  /\ attests \in 0..MaxAttests /\ fetches \in 0..MaxFetches
  /\ crashes \in 0..MaxCrashes
  /\ httpErrors \in 0..MaxHttpErrors

LEMMA HttpErrorType ==
  ASSUME CounterType, HttpError
  PROVE  httpErrors' \in 0..MaxHttpErrors
BY ConstantsAssumption DEF CounterType, HttpError

LEMMA BlindType ==
  ASSUME CounterType, NEW f \in Flows, op[f].id \in Promotions, Blind(f)
  PROVE  blinds' \in [Promotions -> Creds]
BY ConstantsAssumption DEF CounterType, Blind, Creds

LEMMA HandlerTimer ==
  ASSUME timer \in BOOLEAN, NEW f \in Flows, Handler(f)
  PROVE  timer' \in BOOLEAN
<1>1. CASE UNCHANGED timer
  BY <1>1
<1>2. ASSUME NEW res, CredentialsProcessed(f, res)
      PROVE  timer' \in BOOLEAN
  BY <1>2, TimerType
<1>3. ASSUME OnStart(f) \/ OnBlind(f) \/ Claim(f) \/ PostCreds(f) \/ OnClaim(f)
             \/ ClaimedSaved(f) \/ ClaimStatusSaved(f) \/ FetchSignedCreds(f)
             \/ RetryPreviousStepSaved(f) \/ OnFetchSignedCreds(f)
      PROVE  UNCHANGED timer \/ \E res : CredentialsProcessed(f, res)
  BY <1>3 DEF OnStart, OnBlind, Claim, PostCreds, OnClaim, ClaimedSaved,
     ClaimStatusSaved, FetchSignedCreds, RetryPreviousStepSaved,
     OnFetchSignedCreds, SignedCreds
<1>4. ASSUME SignedCredsSaved(f) \/ Unblind(f) \/ VerifyPublicKey(f)
             \/ OnSaveUnblindedCreds(f) \/ Completed(f) \/ OnCredentialsProcessed(f)
      PROVE  UNCHANGED timer \/ \E res : CredentialsProcessed(f, res)
  BY <1>4 DEF SignedCredsSaved, Unblind, VerifyPublicKey, OnSaveUnblindedCreds,
     Completed, OnCredentialsProcessed
<1>5. ASSUME StatusUpdated(f) \/ OnAttestPromotion(f) \/ OnAttestedPromotion(f)
             \/ OnCompletedAttestation(f) \/ AttestedSaved(f) \/ OnComplete(f)
             \/ Retry(f) \/ OnFetch(f) \/ OnGetAllPromotions(f)
             \/ OnGetAllPromotionsFromDatabase(f)
      PROVE  UNCHANGED timer
  BY <1>5 DEF StatusUpdated, OnAttestPromotion, OnAttestedPromotion,
     OnCompletedAttestation, AttestedSaved, OnComplete, Retry, OnFetch,
     OnGetAllPromotions, OnGetAllPromotionsFromDatabase
<1> QED
  BY <1>1, <1>2, <1>3, <1>4, <1>5 DEF Handler

LEMMA HandlerCounters ==
  ASSUME Core, CounterType, NEW f \in Flows, Handler(f)
  PROVE  CounterType' /\ UNCHANGED expired
<1> USE DEF CounterType
<1>1. CASE OnStart(f)
  <2>1. op[f].id \in Promotions
    BY <1>1, Held DEF OnStart, At, Unheld
  <2>2. blinds' = blinds \/ Blind(f)
    BY <1>1 DEF OnStart
  <2>3. blinds' \in [Promotions -> Creds]
    BY <2>1, <2>2, BlindType
  <2> QED
    BY <1>1, <2>3 DEF OnStart, world
<1>2. ASSUME UNCHANGED <<world, history>>
      PROVE  CounterType' /\ UNCHANGED expired
  BY <1>2 DEF world, history
<1>3. CASE OnBlind(f) \/ Claim(f) \/ OnClaim(f) \/ ClaimedSaved(f)
           \/ ClaimStatusSaved(f) \/ FetchSignedCreds(f) \/ RetryPreviousStepSaved(f)
           \/ SignedCreds(f) \/ SignedCredsSaved(f) \/ Unblind(f)
           \/ VerifyPublicKey(f)
  <2>1. UNCHANGED <<world, history>>
    BY <1>3 DEF OnBlind, Claim, OnClaim, ClaimedSaved, ClaimStatusSaved,
       FetchSignedCreds, RetryPreviousStepSaved, SignedCreds, SignedCredsSaved,
       Unblind, VerifyPublicKey
  <2> QED
    BY <1>2, <2>1
<1>4. CASE OnSaveUnblindedCreds(f) \/ Completed(f) \/ OnCredentialsProcessed(f)
           \/ StatusUpdated(f) \/ OnAttestPromotion(f) \/ OnCompletedAttestation(f)
           \/ AttestedSaved(f) \/ Retry(f) \/ OnFetch(f) \/ OnGetAllPromotions(f)
           \/ OnGetAllPromotionsFromDatabase(f)
  <2>1. UNCHANGED <<world, history>>
    BY <1>4 DEF OnSaveUnblindedCreds, Completed, OnCredentialsProcessed,
       StatusUpdated, OnAttestPromotion, OnCompletedAttestation, AttestedSaved,
       Retry, OnFetch, OnGetAllPromotions, OnGetAllPromotionsFromDatabase
  <2> QED
    BY <1>2, <2>1
<1>5. CASE PostCreds(f)
  <2>1. httpErrors' = httpErrors \/ HttpError
    BY <1>5 DEF PostCreds
  <2>2. httpErrors' \in 0..MaxHttpErrors
    BY <2>1, HttpErrorType
  <2> QED
    BY <1>5, <2>2 DEF PostCreds
<1>6. CASE OnFetchSignedCreds(f) /\ ~SignedCreds(f)
  <2>1. httpErrors' = httpErrors \/ HttpError
    BY <1>6 DEF OnFetchSignedCreds
  <2>2. httpErrors' \in 0..MaxHttpErrors
    BY <2>1, HttpErrorType
  <2> QED
    BY <1>6, <2>2 DEF OnFetchSignedCreds, world
<1>7. CASE OnAttestedPromotion(f)
  <2>1. httpErrors' = httpErrors \/ HttpError
    BY <1>7 DEF OnAttestedPromotion
  <2>2. httpErrors' \in 0..MaxHttpErrors
    BY <2>1, HttpErrorType
  <2> QED
    BY <1>7, <2>2 DEF OnAttestedPromotion, world
<1>8. CASE OnComplete(f)
  <2>1. \/ reports' = reports
        \/ \E ok \in BOOLEAN :
             reports' = [reports EXCEPT ![op[f].id] = IF ok THEN @ + 1 ELSE @]
    BY <1>8 DEF OnComplete
  <2>2. reports' \in [Promotions -> Nat]
    BY <2>1
  <2> QED
    BY <1>8, <2>2 DEF OnComplete, world
<1> QED
  BY <1>1, <1>3, <1>4, <1>5, <1>6, <1>7, <1>8 DEF Handler

LEMMA ObserveType ==
  ASSUME Observe, overlapped \subseteq contended, contended \subseteq Promotions
  PROVE  overlapped' \subseteq contended' /\ contended' \subseteq Promotions
<1>1. AtOnce(Working) \subseteq AtOnce(Concerned)
  BY DEF AtOnce, Working, Concerned
<1>2. AtOnce(Concerned) \subseteq Promotions
  BY DEF AtOnce
<1> QED
  BY <1>1, <1>2 DEF Observe

LEMMA StepRest ==
  ASSUME CoreInv, Step, Observe
  PROVE  RestType'
<1>1. CounterType /\ timer \in BOOLEAN /\ expired \subseteq Promotions
      /\ overlapped \subseteq contended /\ contended \subseteq Promotions
  BY DEF CoreInv, RestType, CounterType
<1>2. overlapped' \subseteq contended' /\ contended' \subseteq Promotions
  BY <1>1, ObserveType
<1>3. SUFFICES CounterType' /\ timer' \in BOOLEAN /\ expired' \subseteq Promotions
  BY <1>2 DEF RestType, CounterType
<1>4. ASSUME NEW f \in Flows, Handler(f)
      PROVE  CounterType' /\ timer' \in BOOLEAN /\ expired' \subseteq Promotions
  BY <1>1, <1>4, HandlerTimer, HandlerCounters DEF CoreInv
<1>5. ASSUME NEW f \in Flows, OnRetryTimerElapsed(f)
      PROVE  CounterType' /\ timer' \in BOOLEAN /\ expired' \subseteq Promotions
  BY <1>1, <1>5 DEF OnRetryTimerElapsed, CounterType, world, history
<1>6. ASSUME NEW f \in Flows, Fetch(f)
      PROVE  CounterType' /\ timer' \in BOOLEAN /\ expired' \subseteq Promotions
  <2>1. fetches' \in 0..MaxFetches
    BY <1>1, <1>6, ConstantsAssumption DEF Fetch, CounterType
  <2> QED
    BY <1>1, <1>6, <2>1 DEF Fetch, CounterType, world
<1>7. ASSUME NEW f \in Flows, Restart(f)
      PROVE  CounterType' /\ timer' \in BOOLEAN /\ expired' \subseteq Promotions
  <2>1. crashes' \in 0..MaxCrashes
    <3>1. crashes < MaxCrashes /\ crashes' = crashes + 1
      BY <1>7 DEF Restart
    <3> QED
      BY <1>1, <3>1, ConstantsAssumption DEF CounterType
  <2> QED
    BY <1>1, <1>7, <2>1 DEF Restart, CounterType, world
<1>8. ASSUME NEW f \in Flows, NEW p \in Promotions, Attest(f, p)
      PROVE  CounterType' /\ timer' \in BOOLEAN /\ expired' \subseteq Promotions
  <2>1. attests' \in 0..MaxAttests
    BY <1>1, <1>8, ConstantsAssumption DEF Attest, CounterType
  <2> QED
    BY <1>1, <1>8, <2>1 DEF Attest, CounterType, world
<1>9. ASSUME NEW p \in Expirable, Expire(p)
      PROVE  CounterType' /\ timer' \in BOOLEAN /\ expired' \subseteq Promotions
  BY <1>1, <1>9, ConstantsAssumption DEF Expire, CounterType, history
<1> QED
  BY <1>4, <1>5, <1>6, <1>7, <1>8, <1>9 DEF Step

LEMMA HandlerCore ==
  ASSUME CoreInv, NEW f \in Flows, Handler(f)
  PROVE  Core'
<1>1. Core /\ RestType
  BY DEF CoreInv
<1> QED
  BY <1>1, OnStartGood, OnBlindGood, ClaimGood, PostCredsGood, OnClaimGood,
     ClaimedSavedGood, ClaimStatusSavedGood, FetchSignedCredsGood,
     RetryPreviousStepSavedGood, OnFetchSignedCredsGood, SignedCredsSavedGood,
     UnblindGood, VerifyPublicKeyGood, OnSaveUnblindedCredsGood, CompletedGood,
     OnCredentialsProcessedGood, StatusUpdatedGood, OnAttestPromotionGood,
     OnAttestedPromotionGood, OnCompletedAttestationGood, AttestedSavedGood,
     OnCompleteGood, RetryGood, OnFetchGood, OnGetAllPromotionsGood,
     OnGetAllPromotionsFromDatabaseGood
  DEF Handler

LEMMA StepCore ==
  ASSUME CoreInv, Step
  PROVE  Core'
<1>1. Core /\ RestType
  BY DEF CoreInv
<1>2. ASSUME NEW p \in Expirable, Expire(p)
      PROVE  Core'
  BY <1>1, <1>2 DEF Expire, Core, TablesType, RowsGood, OpsGood, tables
<1> QED
  BY <1>1, <1>2, HandlerCore, OnRetryTimerElapsedGood, FetchGood, RestartGood,
     AttestGood
  DEF Step

LEMMA InitCore == Init => CoreInv
<1> SUFFICES ASSUME Init
             PROVE  CoreInv
  OBVIOUS
<1>1. TablesType
  BY CredsType, ConstantsAssumption DEF Init, TablesType, Promo, Batch, Statuses, BatchStatuses
<1>2. RowsGood
  BY DEF Init, RowsGood, RowGood, NoPromo, NoBatch
<1>3. OpsGood
  BY IdleType, IdleGood DEF Init, OpsGood
<1>4. RestType
  <2>1. reports \in [Promotions -> Nat] /\ blinds \in [Promotions -> Creds]
    BY CredsType DEF Init, NoCreds
  <2>2. timer \in BOOLEAN /\ overlapped \subseteq contended
        /\ expired \subseteq Promotions /\ contended \subseteq Promotions
    BY DEF Init
  <2>3. /\ attests \in 0..MaxAttests /\ fetches \in 0..MaxFetches
        /\ crashes \in 0..MaxCrashes /\ httpErrors \in 0..MaxHttpErrors
    BY ConstantsAssumption DEF Init
  <2> QED
    BY <2>1, <2>2, <2>3 DEF RestType
<1> QED
  BY <1>1, <1>2, <1>3, <1>4 DEF CoreInv, Core

LEMMA NextCore == CoreInv /\ [Next]_vars => CoreInv'
<1>1. CASE CoreInv /\ Next
  BY <1>1, StepCore, StepRest DEF Next, CoreInv
<1>2. CASE CoreInv /\ UNCHANGED vars
  BY <1>2 DEF vars, tables, world, history, CoreInv, Core, TablesType, RowsGood,
     OpsGood, RestType
<1> QED
  BY <1>1, <1>2

\* The core invariant holds in every state of every behaviour.
THEOREM CoreInvariant == Spec => []CoreInv
<1> QED
  BY InitCore, NextCore, PTL DEF Spec

\* PromotionConsistent: tables and flows are well typed, and a promotion or its
\* batch is finished only when its tokens are in the table, whatever fails,
\* crashes or overlaps.
THEOREM PromotionSafety == Spec => []PromotionConsistent
<1>1. CoreInv => PromotionConsistent
  BY CoreInvTypeOK DEF CoreInv, Core, RowsGood, RowGood, PromotionConsistent,
     FinishedHasTokens
<1> QED
  BY <1>1, CoreInvariant, PTL

\* OneSetOfTokens: only the creds the server accepted become tokens, though
\* flows that overlap replace the batch and the claim under each other.
THEOREM OneSet == Spec => []OneSetOfTokens
<1>1. CoreInv => OneSetOfTokens
  BY DEF CoreInv, Core, RowsGood, RowGood, OneSetOfTokens
<1> QED
  BY <1>1, CoreInvariant, PTL


(***************************************************************************)
(* What one step does when no transaction has failed                       *)
(***************************************************************************)
(* Flow f moves on to one of the waits ats, or ends; the others stay.      *)
Goes(f, ats) ==
  /\ \A g \in Flows \ {f} : op'[g] = op[g]
  /\ \/ op'[f] = Idle
     \/ /\ op'[f].at \in ats /\ op'[f].id = op[f].id /\ op'[f].attest = op[f].attest
        /\ op'[f].at = "OnComplete" => op'[f].attest

(* A status is left alone or set to one that is neither new nor active.    *)
Settles ==
  \A p \in Promotions : \/ promo'[p].status = promo[p].status
                        \/ promo'[p].status \notin {"NONE", "ACTIVE"}

LEMMA NoErrors ==
  ASSUME Core, NEW n \in Nat, Failures(n), dbErrors' = 0
  PROVE  n = 0 /\ dbErrors = 0
BY ConstantsAssumption DEF Core, TablesType, Failures

LEMMA TransactionOk ==
  ASSUME Core, NEW ok \in BOOLEAN, Transaction(ok), dbErrors' = 0
  PROVE  ok = TRUE /\ dbErrors = 0
<1>1. CASE ok
  BY <1>1, NoErrors DEF Transaction
<1>2. CASE ~ok
  <2>1. Failures(1)
    BY <1>2 DEF Transaction
  <2> QED
    BY <2>1, NoErrors
<1> QED
  BY <1>1, <1>2

LEMMA ToFields ==
  ASSUME Core, NEW f \in Flows, op[f].at \notin Unheld, NEW at \in Waits
  PROVE  /\ To(f, at) \in Op /\ To(f, at).at = at /\ To(f, at).id = op[f].id
         /\ To(f, at).attest = op[f].attest
<1>1. op[f].id \in Promotions /\ op[f].attest \in BOOLEAN
  BY Held DEF Op
<1> QED
  BY <1>1, IdleType DEF To, Op, Idle

LEMMA ContinueMoves ==
  ASSUME Core, NEW f \in Flows, NEW n \in Op, Continue(f, n)
  PROVE  op'[f] = n /\ \A g \in Flows \ {f} : op'[g] = op[g]
BY DEF Core, OpsGood, Continue

LEMMA QuitMoves ==
  ASSUME Core, NEW f \in Flows, Quit(f), dbErrors' = 0
  PROVE  dbErrors = 0 /\ UNCHANGED tables /\ Settles /\ \A ats : Goes(f, ats)
<1>1. op'[f] = Idle /\ \A g \in Flows \ {f} : op'[g] = op[g]
  BY ContinueMoves, IdleType DEF Quit
<1> QED
  BY <1>1 DEF Quit, Goes, Settles, tables

LEMMA GetPromotionMoves ==
  ASSUME Core, NEW f \in Flows, NEW next \in Op, GetPromotion(f, next), dbErrors' = 0,
         op[f].id \in Promotions
  PROVE  /\ dbErrors = 0 /\ UNCHANGED tables /\ Settles
         /\ \A g \in Flows \ {f} : op'[g] = op[g]
         /\ op'[f].at = next.at /\ op'[f].id = next.id /\ op'[f].attest = next.attest
         /\ op'[f].res = next.res /\ op'[f].promo = promo[op[f].id]
<1>1. PICK ok \in BOOLEAN :
        /\ Transaction(ok)
        /\ Continue(f, [next EXCEPT !.promo = IF ok THEN promo[op[f].id] ELSE NoPromo])
        /\ UNCHANGED tables
  BY DEF GetPromotion
<1>2. ok = TRUE /\ dbErrors = 0
  BY <1>1, TransactionOk
<1> DEFINE n == [next EXCEPT !.promo = promo[op[f].id]]
<1>3. Continue(f, n)
  BY <1>1, <1>2
<1>4. promo[op[f].id] \in Promo
  BY DEF Core, TablesType
<1>5. /\ n \in Op /\ n.at = next.at /\ n.id = next.id /\ n.attest = next.attest
      /\ n.res = next.res /\ n.promo = promo[op[f].id]
  BY <1>4 DEF Op
<1> HIDE DEF n
<1>6. op'[f] = n /\ \A g \in Flows \ {f} : op'[g] = op[g]
  BY <1>3, <1>5, ContinueMoves
<1> QED
  BY <1>1, <1>2, <1>5, <1>6 DEF Settles, tables

LEMMA GetBatchMoves ==
  ASSUME Core, NEW f \in Flows, op[f].at \notin Unheld, NEW at \in Waits \ {"OnComplete"},
         GetCredsBatchByTrigger(f, To(f, at)), dbErrors' = 0
  PROVE  /\ dbErrors = 0 /\ UNCHANGED tables /\ Settles /\ Goes(f, {at})
         /\ op'[f].at = at /\ op'[f].id = op[f].id /\ op'[f].batch = batch[op[f].id]
<1>1. PICK ok \in BOOLEAN :
        /\ Transaction(ok)
        /\ Continue(f, [To(f, at) EXCEPT !.batch = IF ok THEN batch[op[f].id] ELSE NoBatch])
        /\ UNCHANGED tables
  BY DEF GetCredsBatchByTrigger
<1>2. ok = TRUE /\ dbErrors = 0
  BY <1>1, TransactionOk
<1> DEFINE x == To(f, at)
           n == [x EXCEPT !.batch = batch[op[f].id]]
<1>3. Continue(f, n)
  BY <1>1, <1>2
<1>4. batch[op[f].id] \in Batch
  BY Held DEF Core, TablesType
<1>5. x \in Op /\ x.at = at /\ x.id = op[f].id /\ x.attest = op[f].attest
  BY ToFields
<1> HIDE DEF x
<1>6. /\ n \in Op /\ n.at = at /\ n.id = op[f].id /\ n.attest = op[f].attest
      /\ n.batch = batch[op[f].id]
  BY <1>4, <1>5 DEF Op
<1> HIDE DEF n
<1>7. op'[f] = n /\ \A g \in Flows \ {f} : op'[g] = op[g]
  BY <1>3, <1>6, ContinueMoves
<1> QED
  BY <1>1, <1>2, <1>6, <1>7 DEF Settles, Goes, tables

LEMMA SetMoves ==
  ASSUME Core, NEW f \in Flows, op[f].at \notin Unheld, NEW at \in Waits \ {"OnComplete"},
         Continue(f, [To(f, at) EXCEPT !.ok = TRUE])
  PROVE  Goes(f, {at}) /\ op'[f].at = at /\ op'[f].id = op[f].id
<1> DEFINE x == To(f, at)
           n == [x EXCEPT !.ok = TRUE]
<1>1. x \in Op /\ x.at = at /\ x.id = op[f].id /\ x.attest = op[f].attest
  BY ToFields
<1>2. Continue(f, n)
  OBVIOUS
<1> HIDE DEF x
<1>3. n \in Op /\ n.at = at /\ n.id = op[f].id /\ n.attest = op[f].attest
  BY <1>1 DEF Op
<1> HIDE DEF n
<1>4. op'[f] = n /\ \A g \in Flows \ {f} : op'[g] = op[g]
  BY <1>2, <1>3, ContinueMoves
<1> QED
  BY <1>3, <1>4 DEF Goes

LEMMA SetPromoMoves ==
  ASSUME Core, NEW f \in Flows, op[f].at \notin Unheld, NEW at \in Waits \ {"OnComplete"},
         NEW value \in Promo, SetPromo(f, To(f, at), value), dbErrors' = 0
  PROVE  /\ dbErrors = 0 /\ batch' = batch /\ tokens' = tokens
         /\ promo' = [promo EXCEPT ![op[f].id] = value]
         /\ Goes(f, {at}) /\ op'[f].at = at /\ op'[f].id = op[f].id
<1>1. PICK ok \in BOOLEAN :
        /\ Transaction(ok)
        /\ Continue(f, [To(f, at) EXCEPT !.ok = ok])
        /\ promo' = IF ok THEN [promo EXCEPT ![op[f].id] = value] ELSE promo
        /\ UNCHANGED <<batch, tokens>>
  BY DEF SetPromo
<1>2. ok = TRUE /\ dbErrors = 0
  BY <1>1, TransactionOk
<1>3. Continue(f, [To(f, at) EXCEPT !.ok = TRUE])
  BY <1>1, <1>2
<1> QED
  BY <1>1, <1>2, <1>3, SetMoves

LEMMA SetBatchMoves ==
  ASSUME Core, NEW f \in Flows, op[f].at \notin Unheld, NEW at \in Waits \ {"OnComplete"},
         NEW value \in Batch, SetBatch(f, To(f, at), value), dbErrors' = 0
  PROVE  /\ dbErrors = 0 /\ promo' = promo /\ tokens' = tokens /\ Settles
         /\ batch' = [batch EXCEPT ![op[f].id] = value]
         /\ Goes(f, {at}) /\ op'[f].at = at /\ op'[f].id = op[f].id
<1>1. PICK ok \in BOOLEAN :
        /\ Transaction(ok)
        /\ Continue(f, [To(f, at) EXCEPT !.ok = ok])
        /\ batch' = IF ok THEN [batch EXCEPT ![op[f].id] = value] ELSE batch
        /\ UNCHANGED <<promo, tokens>>
  BY DEF SetBatch
<1>2. ok = TRUE /\ dbErrors = 0
  BY <1>1, TransactionOk
<1>3. Continue(f, [To(f, at) EXCEPT !.ok = TRUE])
  BY <1>1, <1>2
<1> QED
  BY <1>1, <1>2, <1>3, SetMoves DEF Settles


LEMMA UpdatePromotionStatusMoves ==
  ASSUME Core, NEW f \in Flows, op[f].at \notin Unheld, NEW at \in Waits \ {"OnComplete"},
         NEW status \in Statuses \ {"NONE", "ACTIVE"},
         UpdatePromotionStatus(f, status, at), dbErrors' = 0
  PROVE  /\ dbErrors = 0 /\ batch' = batch /\ Settles /\ Goes(f, {at})
<1> DEFINE row == promo[op[f].id]
           value == [row EXCEPT !.status = status]
<1>1. op[f].id \in Promotions /\ promo \in [Promotions -> Promo] /\ row \in Promo
  BY Held DEF Core, TablesType
<1>2. value \in Promo /\ value.status = status /\ SetPromo(f, To(f, at), value)
  BY <1>1 DEF Promo, UpdatePromotionStatus
<1> HIDE DEF value
<1>3. /\ dbErrors = 0 /\ batch' = batch /\ Goes(f, {at})
      /\ promo' = [promo EXCEPT ![op[f].id] = value]
  BY <1>2, SetPromoMoves
<1> QED
  BY <1>1, <1>2, <1>3 DEF Settles

LEMMA UpdateCredsBatchStatusMoves ==
  ASSUME Core, NEW f \in Flows, op[f].at \notin Unheld, NEW at \in Waits \ {"OnComplete"},
         NEW status \in BatchStatuses, UpdateCredsBatchStatus(f, status, at), dbErrors' = 0
  PROVE  /\ dbErrors = 0 /\ Settles /\ Goes(f, {at}) /\ op'[f].at = at
         /\ \A p \in Promotions : batch'[p].creds = batch[p].creds
         /\ \A p \in Promotions \ {op[f].id} : batch'[p] = batch[p]
<1> DEFINE row == batch[op[f].id]
           value == [row EXCEPT !.status = status]
<1>1. op[f].id \in Promotions /\ batch \in [Promotions -> Batch] /\ row \in Batch
  BY Held DEF Core, TablesType
<1>2. value \in Batch /\ value.creds = row.creds /\ SetBatch(f, To(f, at), value)
  BY <1>1 DEF Batch, UpdateCredsBatchStatus
<1> HIDE DEF value
<1>3. /\ dbErrors = 0 /\ Settles /\ Goes(f, {at}) /\ op'[f].at = at
      /\ batch' = [batch EXCEPT ![op[f].id] = value]
  BY <1>2, SetBatchMoves
<1> QED
  BY <1>1, <1>2, <1>3

Ending == {"StatusUpdated", "OnComplete"}

LEMMA CallbackMoves ==
  ASSUME Core, NEW f \in Flows, op[f].at \notin Unheld, NEW res \in Results,
         Callback(f, res), dbErrors' = 0
  PROVE  dbErrors = 0 /\ batch' = batch /\ Settles /\ Goes(f, Ending)
<1>1. CASE op[f].attest
  <2> DEFINE x == To(f, "OnComplete")
             n == [x EXCEPT !.res = res]
  <2>1. "OnComplete" \in Waits /\ op[f].id \in Promotions
    BY Held DEF Waits
  <2>2. x \in Op /\ x.at = "OnComplete" /\ x.id = op[f].id /\ x.attest = op[f].attest
    BY <2>1, ToFields
  <2>3. GetPromotion(f, n)
    BY <1>1 DEF Callback
  <2> HIDE DEF x
  <2>4. n \in Op /\ n.at = "OnComplete" /\ n.id = op[f].id /\ n.attest = op[f].attest
    BY <2>2 DEF Op
  <2> HIDE DEF n
  <2>5. /\ dbErrors = 0 /\ UNCHANGED tables /\ Settles
        /\ \A g \in Flows \ {f} : op'[g] = op[g]
        /\ op'[f].at = n.at /\ op'[f].id = n.id /\ op'[f].attest = n.attest
    BY <2>1, <2>3, <2>4, GetPromotionMoves
  <2> QED
    BY <1>1, <2>4, <2>5 DEF Goes, Ending, tables
<1>2. CASE ~op[f].attest
  <2>1. Quit(f)
    BY <1>2 DEF Callback
  <2> QED
    BY <2>1, QuitMoves DEF tables
<1> QED
  BY <1>1, <1>2

LEMMA CredentialsProcessedMoves ==
  ASSUME Core, NEW f \in Flows, op[f].at \notin Unheld, NEW res \in Results,
         CredentialsProcessed(f, res), dbErrors' = 0
  PROVE  dbErrors = 0 /\ batch' = batch /\ Settles /\ Goes(f, Ending)
<1>1. /\ "OK" \in Results /\ "StatusUpdated" \in Waits \ {"OnComplete"}
      /\ {"OVER", "FINISHED"} \subseteq Statuses \ {"NONE", "ACTIVE"}
  BY DEF Results, Waits, Statuses
<1>2. CASE Callback(f, "OK") \/ Callback(f, res)
  BY <1>1, <1>2, CallbackMoves
<1>3. CASE \/ UpdatePromotionStatus(f, "OVER", "StatusUpdated")
           \/ UpdatePromotionStatus(f, "FINISHED", "StatusUpdated")
  BY <1>1, <1>3, UpdatePromotionStatusMoves DEF Goes, Ending
<1> QED
  BY <1>2, <1>3 DEF CredentialsProcessed

(***************************************************************************)
(* The batch the server accepted                                           *)
(***************************************************************************)
(* The waits that hold the batch they will act upon.                       *)
Reading == {"OnStart", "Claim", "PostCreds"}

AloneWorking ==
  \A p \in Promotions \ overlapped, f, g \in Flows :
    Working(op, f, p) /\ Working(op, g, p) => f = g

BatchHeld ==
  \A f \in Flows :
    op[f].at \in Reading /\ op[f].id \notin overlapped => op[f].batch = batch[op[f].id]

KeptInv == AloneWorking /\ (dbErrors = 0 => ClaimedCredsKept /\ BatchHeld)

(* What a handler of f does to the batch and to the server's creds: nothing, *)
(* or it writes the row of its promotion, or it posts the creds it holds.    *)
KeptStep(f) ==
  \/ /\ batch' = batch /\ claimed' = claimed
     /\ op'[f].at \in Reading =>
          \/ op'[f].batch = batch[op'[f].id]
          \/ op[f].at \in Reading /\ op'[f].id = op[f].id /\ op'[f].batch = op[f].batch
  \/ /\ op[f].at \in CredentialWaits /\ claimed' = claimed /\ op'[f].at \notin Reading
     /\ \A p \in Promotions \ {op[f].id} : batch'[p] = batch[p]
     /\ \/ batch'[op[f].id].creds = batch[op[f].id].creds
        \/ op[f].at = "OnStart" /\ op[f].batch.status = "NONE"
  \/ /\ op[f].at = "PostCreds" /\ batch' = batch /\ op'[f].at \notin Reading
     /\ \/ claimed' = claimed
        \/ claimed' = [claimed EXCEPT ![op[f].id] = op[f].batch.creds]

(* A handler that runs after the attestation was saved.                    *)
Late == CredentialWaits \cup {"StatusUpdated", "AttestedSaved", "LegacyClaimedSaved"}
LateStep(f) ==
  /\ op[f].at \in Late /\ Goes(f, Late \cup {"OnComplete"})
  /\ Settles /\ UNCHANGED reports

LEMMA LateHeld == Late \cap Unheld = {} /\ Late \subseteq Waits \ {"OnComplete"}
BY DEF Late, Unheld, CredentialWaits, Waits

LEMMA EndingStep ==
  ASSUME Core, NEW f \in Flows, op[f].at \in Late, NEW res \in Results,
         CredentialsProcessed(f, res) \/ Callback(f, res),
         UNCHANGED <<claimed, reports>>, dbErrors' = 0
  PROVE  dbErrors = 0 /\ KeptStep(f) /\ LateStep(f)
<1>1. op[f].at \notin Unheld
  BY LateHeld
<1>2. dbErrors = 0 /\ batch' = batch /\ Settles /\ Goes(f, Ending)
  BY <1>1, CredentialsProcessedMoves, CallbackMoves
<1>3. op'[f].at \notin Reading
  BY <1>2 DEF Goes, Ending, Reading, Idle
<1>4. Goes(f, Late \cup {"OnComplete"})
  BY <1>2 DEF Goes, Ending, Late
<1> QED
  BY <1>2, <1>3, <1>4 DEF KeptStep, LateStep

LEMMA QuitStep ==
  ASSUME Core, NEW f \in Flows, op[f].at \in Late, Quit(f),
         UNCHANGED <<claimed, reports>>, dbErrors' = 0
  PROVE  dbErrors = 0 /\ KeptStep(f) /\ LateStep(f)
<1>1. dbErrors = 0 /\ UNCHANGED tables /\ Settles /\ Goes(f, {"StatusUpdated"})
      /\ op'[f] = Idle
  BY QuitMoves, ContinueMoves, IdleType DEF Quit
<1> QED
  BY <1>1 DEF KeptStep, LateStep, Goes, Reading, Idle, Late, tables

LEMMA ReadBatchStep ==
  ASSUME Core, NEW f \in Flows, op[f].at \in Late, NEW at \in CredentialWaits,
         GetCredsBatchByTrigger(f, To(f, at)),
         UNCHANGED <<claimed, reports>>, dbErrors' = 0
  PROVE  dbErrors = 0 /\ KeptStep(f) /\ LateStep(f)
<1>1. op[f].at \notin Unheld /\ at \in Late /\ at \in Waits \ {"OnComplete"}
  BY LateHeld DEF Late
<1>2. /\ dbErrors = 0 /\ UNCHANGED tables /\ Settles /\ Goes(f, {at})
      /\ op'[f].at = at /\ op'[f].id = op[f].id /\ op'[f].batch = batch[op[f].id]
  BY <1>1, GetBatchMoves
<1>3. Goes(f, Late \cup {"OnComplete"})
  BY <1>1, <1>2 DEF Goes
<1> QED
  BY <1>2, <1>3 DEF KeptStep, LateStep, tables

LEMMA ReadPromotionStep ==
  ASSUME Core, NEW f \in Flows, op[f].at \in Late, NEW next \in Op,
         next.at \in CredentialWaits \ Reading, next.id = op[f].id,
         next.attest = op[f].attest, GetPromotion(f, next),
         UNCHANGED <<claimed, reports>>, dbErrors' = 0
  PROVE  dbErrors = 0 /\ KeptStep(f) /\ LateStep(f)
<1>1. op[f].id \in Promotions /\ next.at \in Late /\ next.at # "OnComplete"
  BY LateHeld, Held DEF Late
<1>2. /\ dbErrors = 0 /\ UNCHANGED tables /\ Settles
      /\ \A g \in Flows \ {f} : op'[g] = op[g]
      /\ op'[f].at = next.at /\ op'[f].id = next.id /\ op'[f].attest = next.attest
  BY <1>1, GetPromotionMoves
<1>3. Goes(f, Late \cup {"OnComplete"})
  BY <1>1, <1>2 DEF Goes
<1> QED
  BY <1>2, <1>3 DEF KeptStep, LateStep, tables

LEMMA UpdateBatchStep ==
  ASSUME Core, NEW f \in Flows, op[f].at \in CredentialWaits,
         NEW status \in BatchStatuses, NEW at \in CredentialWaits \ Reading,
         UpdateCredsBatchStatus(f, status, at),
         UNCHANGED <<claimed, reports>>, dbErrors' = 0
  PROVE  dbErrors = 0 /\ KeptStep(f) /\ LateStep(f)
<1>1. op[f].at \in Late /\ op[f].at \notin Unheld /\ at \in Late /\ at \in Waits \ {"OnComplete"}
      /\ op[f].id \in Promotions
  BY LateHeld, Held DEF Late
<1>2. /\ dbErrors = 0 /\ Settles /\ Goes(f, {at}) /\ op'[f].at = at
      /\ \A p \in Promotions : batch'[p].creds = batch[p].creds
      /\ \A p \in Promotions \ {op[f].id} : batch'[p] = batch[p]
  BY <1>1, UpdateCredsBatchStatusMoves
<1>3. Goes(f, Late \cup {"OnComplete"})
  BY <1>1, <1>2 DEF Goes
<1> QED
  BY <1>1, <1>2, <1>3 DEF KeptStep, LateStep

LEMMA ContinueStep ==
  ASSUME Core, NEW f \in Flows, op[f].at \in CredentialWaits, NEW n \in Op,
         n.at \in CredentialWaits, n.id = op[f].id, n.attest = op[f].attest,
         n.at \in Reading => op[f].at \in Reading /\ n.batch = op[f].batch,
         Continue(f, n), UNCHANGED <<tables, dbErrors, claimed, reports>>, dbErrors' = 0
  PROVE  dbErrors = 0 /\ KeptStep(f) /\ LateStep(f)
<1>1. op[f].at \in Late /\ n.at \in Late /\ n.at # "OnComplete"
  BY LateHeld DEF Late
<1>2. op'[f] = n /\ \A g \in Flows \ {f} : op'[g] = op[g]
  BY ContinueMoves
<1>3. Goes(f, Late \cup {"OnComplete"})
  BY <1>1, <1>2 DEF Goes
<1> QED
  BY <1>1, <1>2, <1>3 DEF KeptStep, LateStep, Settles, tables


(***************************************************************************)
(* The handlers, once the attestation was saved                            *)
(***************************************************************************)
LEMMA CredentialLate == CredentialWaits \subseteq Late /\ CredentialWaits \subseteq Waits
BY DEF Late, Waits

LEMMA OnStartStep ==
  ASSUME Core, RestType, NEW f \in Flows, OnStart(f), dbErrors' = 0
  PROVE  dbErrors = 0 /\ KeptStep(f) /\ LateStep(f)
<1>1. /\ op[f].at = "OnStart" /\ op[f].at \in CredentialWaits /\ op[f].at \in Late
      /\ UNCHANGED <<claimed, reports>>
  BY DEF OnStart, At, CredentialWaits, Late, world
<1>2. op[f].at \notin Unheld /\ op[f].id \in Promotions
  BY <1>1, LateHeld, Held
<1>3. CASE op[f].batch.status = "NONE" /\ Blind(f)
  <2> DEFINE p == op[f].id
             value == [status |-> "BLINDED", creds |-> blinds[p] + 1, signed |-> NoCreds]
  <2>1. blinds[p] \in 0..MaxBlinds /\ blinds[p] < MaxBlinds
    BY <1>2, <1>3 DEF RestType, Creds, Blind
  <2>2. blinds[p] + 1 \in Creds
    BY <2>1, ConstantsAssumption DEF Creds
  <2>3. value \in Batch
    BY <2>2, CredsType DEF Batch, BatchStatuses
  <2>4. SetBatch(f, To(f, "BlindedCredsSaved"), value)
    BY <1>3 DEF Blind
  <2> HIDE DEF value
  <2>5. "BlindedCredsSaved" \in Waits \ {"OnComplete"}
        /\ "BlindedCredsSaved" \in Late /\ "BlindedCredsSaved" \notin Reading
    BY DEF Waits, CredentialWaits, Late, Reading
  <2>6. /\ dbErrors = 0 /\ Settles /\ batch' = [batch EXCEPT ![p] = value]
        /\ Goes(f, {"BlindedCredsSaved"}) /\ op'[f].at = "BlindedCredsSaved"
    BY <1>2, <2>3, <2>4, <2>5, SetBatchMoves
  <2>7. \A q \in Promotions \ {p} : batch'[q] = batch[q]
    BY <2>6 DEF Core, TablesType
  <2>8. KeptStep(f)
    BY <1>1, <1>3, <2>5, <2>6, <2>7 DEF KeptStep
  <2>9. LateStep(f)
    BY <1>1, <2>5, <2>6 DEF LateStep, Goes
  <2> QED
    BY <2>6, <2>8, <2>9
<1>4. CASE GetCredsBatchByTrigger(f, To(f, "Claim"))
           \/ GetCredsBatchByTrigger(f, To(f, "Unblind"))
  <2>1. "Claim" \in CredentialWaits /\ "Unblind" \in CredentialWaits
    BY DEF CredentialWaits
  <2> QED
    BY <1>1, <1>4, <2>1, ReadBatchStep
<1>5. CASE GetPromotion(f, To(f, "FetchSignedCreds"))
  <2>1. "FetchSignedCreds" \in CredentialWaits \ Reading /\ "FetchSignedCreds" \in Waits
    BY DEF CredentialWaits, Reading, Waits
  <2>2. /\ To(f, "FetchSignedCreds") \in Op
        /\ To(f, "FetchSignedCreds").at = "FetchSignedCreds"
        /\ To(f, "FetchSignedCreds").id = op[f].id
        /\ To(f, "FetchSignedCreds").attest = op[f].attest
    BY <1>2, <2>1, ToFields
  <2> QED
    BY <1>1, <1>5, <2>1, <2>2, ReadPromotionStep
<1>6. CASE CredentialsProcessed(f, "OK")
  BY <1>1, <1>6, ResultsType, EndingStep
<1> QED
  BY <1>3, <1>4, <1>5, <1>6 DEF OnStart

LEMMA ClaimStep ==
  ASSUME Core, NEW f \in Flows, Claim(f), dbErrors' = 0
  PROVE  dbErrors = 0 /\ KeptStep(f) /\ LateStep(f)
<1>1. /\ op[f].at = "Claim" /\ op[f].at \in CredentialWaits /\ op[f].at \in Late
      /\ UNCHANGED <<claimed, reports>>
  BY DEF Claim, At, CredentialWaits, Late, world, history
<1>2. op[f] \in Op /\ op[f].at \notin Unheld
  BY <1>1, LateHeld DEF Core, OpsGood
<1>3. CASE CredentialsProcessed(f, "LEDGER_ERROR")
  BY <1>1, <1>3, ResultsType, EndingStep
<1>4. CASE /\ Continue(f, [To(f, "PostCreds") EXCEPT !.batch = op[f].batch])
           /\ UNCHANGED <<tables, dbErrors, timer>>
  <2> DEFINE x == To(f, "PostCreds")
             n == [x EXCEPT !.batch = op[f].batch]
  <2>1. "PostCreds" \in CredentialWaits /\ "PostCreds" \in Waits
    BY DEF CredentialWaits, Waits
  <2>2. x \in Op /\ x.at = "PostCreds" /\ x.id = op[f].id /\ x.attest = op[f].attest
    BY <1>2, <2>1, ToFields
  <2>3. Continue(f, n) /\ UNCHANGED <<tables, dbErrors>>
    BY <1>4
  <2> HIDE DEF x
  <2>4. /\ n \in Op /\ n.at = "PostCreds" /\ n.id = op[f].id
        /\ n.attest = op[f].attest /\ n.batch = op[f].batch
    BY <1>2, <2>2 DEF Op
  <2> HIDE DEF n
  <2>5. op[f].at \in Reading
    BY <1>1 DEF Reading
  <2> QED
    BY <1>1, <2>1, <2>3, <2>4, <2>5, ContinueStep
<1> QED
  BY <1>3, <1>4 DEF Claim

LEMMA PostCredsStep ==
  ASSUME Core, NEW f \in Flows, PostCreds(f), dbErrors' = 0
  PROVE  dbErrors = 0 /\ KeptStep(f) /\ LateStep(f)
<1> DEFINE p == op[f].id
           creds == op[f].batch.creds
<1>1. /\ op[f].at = "PostCreds" /\ op[f].at \in Late /\ UNCHANGED <<tables, reports, dbErrors>>
  BY DEF PostCreds, At, CredentialWaits, Late
<1>2. op[f] \in Op /\ op[f].at \notin Unheld
  BY <1>1, LateHeld DEF Core, OpsGood
<1>3. PICK res \in Results, claim \in Creds :
        /\ Continue(f, [To(f, "OnClaim") EXCEPT !.res = res, !.promo.claim = claim])
        /\ \/ claimed' = claimed
           \/ claimed' = [claimed EXCEPT ![p] = creds]
  <2>1. creds \in Creds
    BY <1>2 DEF Op, Batch
  <2> QED
    BY <2>1, CredsType, ResultsType DEF PostCreds
<1> DEFINE n == [To(f, "OnClaim") EXCEPT !.res = res, !.promo.claim = claim]
<1>4. [NoPromo EXCEPT !.claim = claim] \in Promo
  BY <1>3, CredsType DEF Promo
<1>5. "OnClaim" \in Waits /\ "OnClaim" \in Late /\ "OnClaim" \notin Reading
  BY DEF Waits, CredentialWaits, Late, Reading
<1>6. n \in Op /\ n.at = "OnClaim" /\ n.id = p /\ n.attest = op[f].attest
  BY <1>2, <1>4, <1>5, IdleType DEF To, Op, Idle
<1> HIDE DEF n
<1>7. op'[f] = n /\ \A g \in Flows \ {f} : op'[g] = op[g]
  BY <1>3, <1>6, ContinueMoves DEF n
<1>8. KeptStep(f)
  BY <1>1, <1>3, <1>5, <1>6, <1>7 DEF KeptStep, tables
<1>9. LateStep(f)
  BY <1>1, <1>5, <1>6, <1>7 DEF LateStep, Goes, Settles, tables
<1> QED
  BY <1>1, <1>8, <1>9

LEMMA SetPromoStep ==
  ASSUME Core, NEW f \in Flows, op[f].at \in Late,
         NEW at \in CredentialWaits \ Reading, NEW value \in Promo,
         value.status \notin {"NONE", "ACTIVE"} \/ value.status = promo[op[f].id].status,
         SetPromo(f, To(f, at), value), UNCHANGED <<claimed, reports>>, dbErrors' = 0
  PROVE  dbErrors = 0 /\ KeptStep(f) /\ LateStep(f)
<1>1. op[f].at \notin Unheld /\ op[f].id \in Promotions
      /\ at \in Late /\ at \in Waits \ {"OnComplete"}
  BY LateHeld, Held, CredentialLate
<1>2. /\ dbErrors = 0 /\ batch' = batch /\ promo' = [promo EXCEPT ![op[f].id] = value]
      /\ Goes(f, {at}) /\ op'[f].at = at
  BY <1>1, SetPromoMoves
<1>3. Settles
  BY <1>1, <1>2 DEF Settles, Core, TablesType
<1>4. Goes(f, Late \cup {"OnComplete"})
  BY <1>1, <1>2 DEF Goes
<1> QED
  BY <1>2, <1>3, <1>4 DEF KeptStep, LateStep

LEMMA OnClaimStep ==
  ASSUME Core, NEW f \in Flows, OnClaim(f), dbErrors' = 0
  PROVE  dbErrors = 0 /\ KeptStep(f) /\ LateStep(f)
<1>1. /\ op[f].at \in CredentialWaits /\ op[f].at \in Late /\ UNCHANGED <<claimed, reports>>
  BY DEF OnClaim, At, CredentialWaits, Late, world, history
<1>2. op[f] \in Op /\ op[f].id \in Promotions
  BY <1>1, LateHeld, Held
<1>3. CASE CredentialsProcessed(f, op[f].res)
  BY <1>1, <1>2, <1>3, EndingStep DEF Op
<1>4. CASE SetPromo(f, To(f, "ClaimedSaved"),
                    [promo[op[f].id] EXCEPT !.claim = op[f].promo.claim])
  <2> DEFINE row == promo[op[f].id]
             value == [row EXCEPT !.claim = op[f].promo.claim]
  <2>1. row \in Promo /\ op[f].promo.claim \in Creds
    BY <1>2 DEF Core, TablesType, Op, Promo
  <2>2. value \in Promo /\ value.status = row.status
    BY <2>1 DEF Promo
  <2>3. "ClaimedSaved" \in CredentialWaits \ Reading
    BY DEF CredentialWaits, Reading
  <2> QED
    BY <1>1, <1>4, <2>2, <2>3, SetPromoStep
<1> QED
  BY <1>3, <1>4 DEF OnClaim

LEMMA FetchSignedCredsStep ==
  ASSUME Core, NEW f \in Flows, FetchSignedCreds(f), dbErrors' = 0
  PROVE  dbErrors = 0 /\ KeptStep(f) /\ LateStep(f)
<1>1. /\ op[f].at \in CredentialWaits /\ op[f].at \in Late /\ UNCHANGED <<claimed, reports>>
  BY DEF FetchSignedCreds, At, CredentialWaits, Late, world, history
<1>2. op[f] \in Op /\ op[f].at \notin Unheld
  BY <1>1, LateHeld DEF Core, OpsGood
<1>3. CASE CredentialsProcessed(f, "LEDGER_ERROR")
  BY <1>1, <1>3, ResultsType, EndingStep
<1>4. CASE UpdateCredsBatchStatus(f, "BLINDED", "RetryPreviousStepSaved")
  <2>1. "BLINDED" \in BatchStatuses /\ "RetryPreviousStepSaved" \in CredentialWaits \ Reading
    BY DEF BatchStatuses, CredentialWaits, Reading
  <2> QED
    BY <1>1, <1>4, <2>1, UpdateBatchStep
<1>5. CASE /\ Continue(f, [To(f, "OnFetchSignedCreds") EXCEPT !.promo = op[f].promo])
           /\ UNCHANGED <<tables, dbErrors>>
  <2> DEFINE x == To(f, "OnFetchSignedCreds")
             n == [x EXCEPT !.promo = op[f].promo]
  <2>1. /\ "OnFetchSignedCreds" \in CredentialWaits /\ "OnFetchSignedCreds" \in Waits
        /\ "OnFetchSignedCreds" \notin Reading
    BY DEF CredentialWaits, Waits, Reading
  <2>2. /\ x \in Op /\ x.at = "OnFetchSignedCreds" /\ x.id = op[f].id
        /\ x.attest = op[f].attest
    BY <1>2, <2>1, ToFields
  <2>3. Continue(f, n) /\ UNCHANGED <<tables, dbErrors>>
    BY <1>5
  <2> HIDE DEF x
  <2>4. /\ n \in Op /\ n.at = "OnFetchSignedCreds" /\ n.id = op[f].id
        /\ n.attest = op[f].attest
    BY <1>2, <2>2 DEF Op
  <2> HIDE DEF n
  <2> QED
    BY <1>1, <2>1, <2>3, <2>4, ContinueStep
<1> QED
  BY <1>3, <1>4, <1>5 DEF FetchSignedCreds

LEMMA SignedCredsStep ==
  ASSUME Core, NEW f \in Flows, SignedCreds(f), dbErrors' = 0
  PROVE  dbErrors = 0 /\ KeptStep(f) /\ LateStep(f)
<1> DEFINE row == batch[op[f].id]
           value == [row EXCEPT !.status = "SIGNED", !.signed = op[f].promo.claim]
<1>1. /\ op[f].at \in CredentialWaits /\ op[f].at \in Late /\ UNCHANGED <<claimed, reports>>
      /\ SetBatch(f, To(f, "SignedCredsSaved"), value)
  BY DEF SignedCreds, At, CredentialWaits, Late, world, history
<1>2. op[f] \in Op /\ op[f].at \notin Unheld /\ op[f].id \in Promotions
  BY <1>1, LateHeld, Held
<1>3. row \in Batch /\ op[f].promo.claim \in Creds /\ "SIGNED" \in BatchStatuses
  BY <1>2 DEF Core, TablesType, Op, Promo, BatchStatuses
<1>4. value \in Batch /\ value.creds = row.creds
  BY <1>3 DEF Batch
<1> HIDE DEF value
<1>5. /\ "SignedCredsSaved" \in Late /\ "SignedCredsSaved" \notin Reading
      /\ "SignedCredsSaved" \in Waits \ {"OnComplete"}
  BY DEF Late, CredentialWaits, Waits, Reading
<1>6. /\ dbErrors = 0 /\ Settles /\ batch' = [batch EXCEPT ![op[f].id] = value]
      /\ Goes(f, {"SignedCredsSaved"}) /\ op'[f].at = "SignedCredsSaved"
  BY <1>1, <1>2, <1>4, <1>5, SetBatchMoves
<1>7. /\ batch'[op[f].id].creds = batch[op[f].id].creds
      /\ \A p \in Promotions \ {op[f].id} : batch'[p] = batch[p]
  BY <1>2, <1>4, <1>6 DEF Core, TablesType
<1>8. Goes(f, Late \cup {"OnComplete"})
  BY <1>5, <1>6 DEF Goes
<1> QED
  BY <1>1, <1>5, <1>6, <1>7, <1>8 DEF KeptStep, LateStep

LEMMA UnblindStep ==
  ASSUME Core, NEW f \in Flows, Unblind(f), dbErrors' = 0
  PROVE  dbErrors = 0 /\ KeptStep(f) /\ LateStep(f)
<1>1. /\ op[f].at \in CredentialWaits /\ op[f].at \in Late /\ UNCHANGED <<claimed, reports>>
  BY DEF Unblind, At, CredentialWaits, Late, world, history
<1>2. op[f] \in Op /\ op[f].at \notin Unheld
  BY <1>1, LateHeld DEF Core, OpsGood
<1>3. CASE CredentialsProcessed(f, "LEDGER_ERROR")
  BY <1>1, <1>3, ResultsType, EndingStep
<1>4. CASE GetPromotion(f, [To(f, "VerifyPublicKey") EXCEPT !.batch = op[f].batch])
  <2> DEFINE x == To(f, "VerifyPublicKey")
             n == [x EXCEPT !.batch = op[f].batch]
  <2>1. "VerifyPublicKey" \in CredentialWaits \ Reading /\ "VerifyPublicKey" \in Waits
    BY DEF CredentialWaits, Waits, Reading
  <2>2. /\ x \in Op /\ x.at = "VerifyPublicKey" /\ x.id = op[f].id
        /\ x.attest = op[f].attest
    BY <1>2, <2>1, ToFields
  <2>3. GetPromotion(f, n)
    BY <1>4
  <2> HIDE DEF x
  <2>4. /\ n \in Op /\ n.at = "VerifyPublicKey" /\ n.id = op[f].id
        /\ n.attest = op[f].attest
    BY <1>2, <2>2 DEF Op
  <2> HIDE DEF n
  <2> QED
    BY <1>1, <2>1, <2>3, <2>4, ReadPromotionStep
<1> QED
  BY <1>3, <1>4 DEF Unblind

LEMMA VerifyPublicKeyStep ==
  ASSUME Core, NEW f \in Flows, VerifyPublicKey(f), dbErrors' = 0
  PROVE  dbErrors = 0 /\ KeptStep(f) /\ LateStep(f)
<1>1. /\ op[f].at \in CredentialWaits /\ op[f].at \in Late /\ UNCHANGED <<claimed, reports>>
  BY DEF VerifyPublicKey, At, CredentialWaits, Late, world, history
<1>2. op[f].at \notin Unheld
  BY <1>1, LateHeld
<1>3. CASE CredentialsProcessed(f, "LEDGER_ERROR")
  BY <1>1, <1>3, ResultsType, EndingStep
<1>4. CASE /\ UNCHANGED <<promo, batch, timer>>
           /\ \E ok \in BOOLEAN :
                /\ Transaction(ok)
                /\ Continue(f, [To(f, "OnSaveUnblindedCreds") EXCEPT !.ok = ok])
  <2>1. PICK ok \in BOOLEAN :
          Transaction(ok) /\ Continue(f, [To(f, "OnSaveUnblindedCreds") EXCEPT !.ok = ok])
    BY <1>4
  <2>2. ok = TRUE /\ dbErrors = 0
    BY <2>1, TransactionOk
  <2>3. Continue(f, [To(f, "OnSaveUnblindedCreds") EXCEPT !.ok = TRUE])
    BY <2>1, <2>2
  <2>4. /\ "OnSaveUnblindedCreds" \in Waits \ {"OnComplete"}
        /\ "OnSaveUnblindedCreds" \in Late /\ "OnSaveUnblindedCreds" \notin Reading
    BY DEF Waits, CredentialWaits, Late, Reading
  <2>5. Goes(f, {"OnSaveUnblindedCreds"}) /\ op'[f].at = "OnSaveUnblindedCreds"
    BY <1>2, <2>3, <2>4, SetMoves
  <2>6. Goes(f, Late \cup {"OnComplete"})
    BY <2>4, <2>5 DEF Goes
  <2> QED
    BY <1>1, <1>4, <2>2, <2>4, <2>5, <2>6 DEF KeptStep, LateStep, Settles
<1> QED
  BY <1>3, <1>4 DEF VerifyPublicKey


LEMMA OnBlindStep ==
  ASSUME Core, NEW f \in Flows, OnBlind(f), dbErrors' = 0
  PROVE  dbErrors = 0 /\ KeptStep(f) /\ LateStep(f)
<1>1. /\ op[f].at \in CredentialWaits /\ op[f].at \in Late /\ UNCHANGED <<claimed, reports>>
  BY DEF OnBlind, At, CredentialWaits, Late, world, history
<1>2. CASE CredentialsProcessed(f, "RETRY")
  BY <1>1, <1>2, ResultsType, EndingStep
<1>3. CASE GetCredsBatchByTrigger(f, To(f, "Claim"))
  BY <1>1, <1>3, ReadBatchStep DEF CredentialWaits
<1> QED
  BY <1>2, <1>3 DEF OnBlind

LEMMA ClaimedSavedStep ==
  ASSUME Core, NEW f \in Flows, ClaimedSaved(f), dbErrors' = 0
  PROVE  dbErrors = 0 /\ KeptStep(f) /\ LateStep(f)
<1>1. /\ op[f].at \in CredentialWaits /\ op[f].at \in Late /\ UNCHANGED <<claimed, reports>>
  BY DEF ClaimedSaved, At, CredentialWaits, Late, world, history
<1>2. CASE CredentialsProcessed(f, "LEDGER_ERROR")
  BY <1>1, <1>2, ResultsType, EndingStep
<1>3. CASE UpdateCredsBatchStatus(f, "CLAIMED", "ClaimStatusSaved")
  <2>1. "CLAIMED" \in BatchStatuses /\ "ClaimStatusSaved" \in CredentialWaits \ Reading
    BY DEF BatchStatuses, CredentialWaits, Reading
  <2> QED
    BY <1>1, <1>3, <2>1, UpdateBatchStep
<1> QED
  BY <1>2, <1>3 DEF ClaimedSaved

LEMMA ClaimStatusSavedStep ==
  ASSUME Core, NEW f \in Flows, ClaimStatusSaved(f), dbErrors' = 0
  PROVE  dbErrors = 0 /\ KeptStep(f) /\ LateStep(f)
<1>1. /\ op[f].at \in CredentialWaits /\ op[f].at \in Late /\ UNCHANGED <<claimed, reports>>
  BY DEF ClaimStatusSaved, At, CredentialWaits, Late, world, history
<1>2. CASE CredentialsProcessed(f, "LEDGER_ERROR")
  BY <1>1, <1>2, ResultsType, EndingStep
<1>3. CASE GetPromotion(f, To(f, "FetchSignedCreds"))
  <2>1. "FetchSignedCreds" \in CredentialWaits \ Reading /\ "FetchSignedCreds" \in Waits
        /\ op[f].at \notin Unheld
    BY <1>1, LateHeld DEF CredentialWaits, Reading, Waits
  <2>2. /\ To(f, "FetchSignedCreds") \in Op
        /\ To(f, "FetchSignedCreds").at = "FetchSignedCreds"
        /\ To(f, "FetchSignedCreds").id = op[f].id
        /\ To(f, "FetchSignedCreds").attest = op[f].attest
    BY <2>1, ToFields
  <2> QED
    BY <1>1, <1>3, <2>1, <2>2, ReadPromotionStep
<1> QED
  BY <1>2, <1>3 DEF ClaimStatusSaved

LEMMA RetryPreviousStepSavedStep ==
  ASSUME Core, NEW f \in Flows, RetryPreviousStepSaved(f), dbErrors' = 0
  PROVE  dbErrors = 0 /\ KeptStep(f) /\ LateStep(f)
<1>1. /\ op[f].at \in CredentialWaits /\ op[f].at \in Late /\ UNCHANGED <<claimed, reports>>
  BY DEF RetryPreviousStepSaved, At, CredentialWaits, Late, world, history
<1>2. \/ CredentialsProcessed(f, "RETRY") \/ CredentialsProcessed(f, "LEDGER_ERROR")
  BY DEF RetryPreviousStepSaved
<1> QED
  BY <1>1, <1>2, ResultsType, EndingStep

LEMMA OnFetchSignedCredsStep ==
  ASSUME Core, NEW f \in Flows, OnFetchSignedCreds(f), dbErrors' = 0
  PROVE  dbErrors = 0 /\ KeptStep(f) /\ LateStep(f)
<1>1. CASE SignedCreds(f)
  BY <1>1, SignedCredsStep
<1>2. CASE /\ At(f, "OnFetchSignedCreds") /\ UNCHANGED <<world, reports>>
           /\ CredentialsProcessed(f, "RETRY") \/ CredentialsProcessed(f, "LEDGER_ERROR")
  <2>1. op[f].at \in Late /\ UNCHANGED <<claimed, reports>>
    BY <1>2 DEF At, CredentialWaits, Late, world
  <2> QED
    BY <1>2, <2>1, ResultsType, EndingStep
<1> QED
  BY <1>1, <1>2 DEF OnFetchSignedCreds

LEMMA SignedCredsSavedStep ==
  ASSUME Core, NEW f \in Flows, SignedCredsSaved(f), dbErrors' = 0
  PROVE  dbErrors = 0 /\ KeptStep(f) /\ LateStep(f)
<1>1. /\ op[f].at \in CredentialWaits /\ op[f].at \in Late /\ UNCHANGED <<claimed, reports>>
  BY DEF SignedCredsSaved, At, CredentialWaits, Late, world, history
<1>2. CASE CredentialsProcessed(f, "LEDGER_ERROR")
  BY <1>1, <1>2, ResultsType, EndingStep
<1>3. CASE GetCredsBatchByTrigger(f, To(f, "Unblind"))
  BY <1>1, <1>3, ReadBatchStep DEF CredentialWaits
<1> QED
  BY <1>2, <1>3 DEF SignedCredsSaved

LEMMA OnSaveUnblindedCredsStep ==
  ASSUME Core, NEW f \in Flows, OnSaveUnblindedCreds(f), dbErrors' = 0
  PROVE  dbErrors = 0 /\ KeptStep(f) /\ LateStep(f)
<1>1. /\ op[f].at \in CredentialWaits /\ op[f].at \in Late /\ UNCHANGED <<claimed, reports>>
  BY DEF OnSaveUnblindedCreds, At, CredentialWaits, Late, world, history
<1>2. CASE CredentialsProcessed(f, "RETRY")
  BY <1>1, <1>2, ResultsType, EndingStep
<1>3. CASE UpdateCredsBatchStatus(f, "FINISHED", "Completed")
  <2>1. "FINISHED" \in BatchStatuses /\ "Completed" \in CredentialWaits \ Reading
    BY DEF BatchStatuses, CredentialWaits, Reading
  <2> QED
    BY <1>1, <1>3, <2>1, UpdateBatchStep
<1> QED
  BY <1>2, <1>3 DEF OnSaveUnblindedCreds

LEMMA CompletedStep ==
  ASSUME Core, NEW f \in Flows, Completed(f), dbErrors' = 0
  PROVE  dbErrors = 0 /\ KeptStep(f) /\ LateStep(f)
<1>1. /\ op[f].at \in CredentialWaits /\ op[f].at \in Late /\ UNCHANGED <<claimed, reports>>
  BY DEF Completed, At, CredentialWaits, Late, world, history
<1>2. CASE CredentialsProcessed(f, "LEDGER_ERROR")
  BY <1>1, <1>2, ResultsType, EndingStep
<1>3. CASE UpdatePromotionStatus(f, "FINISHED", "CredentialsProcessed")
  <2>1. /\ "FINISHED" \in Statuses \ {"NONE", "ACTIVE"}
        /\ "CredentialsProcessed" \in Late /\ "CredentialsProcessed" \notin Reading
        /\ "CredentialsProcessed" \in Waits \ {"OnComplete"} /\ op[f].at \notin Unheld
    BY <1>1, LateHeld DEF Statuses, CredentialWaits, Late, Waits, Reading
  <2>2. dbErrors = 0 /\ batch' = batch /\ Settles /\ Goes(f, {"CredentialsProcessed"})
    BY <1>3, <2>1, UpdatePromotionStatusMoves
  <2>3. Goes(f, Late \cup {"OnComplete"}) /\ op'[f].at \notin Reading
    BY <2>1, <2>2 DEF Goes, Idle, Reading
  <2> QED
    BY <1>1, <2>2, <2>3 DEF KeptStep, LateStep
<1> QED
  BY <1>2, <1>3 DEF Completed

LEMMA OnCredentialsProcessedStep ==
  ASSUME Core, NEW f \in Flows, OnCredentialsProcessed(f), dbErrors' = 0
  PROVE  dbErrors = 0 /\ KeptStep(f) /\ LateStep(f)
<1>1. /\ op[f].at \in CredentialWaits /\ op[f].at \in Late /\ UNCHANGED <<claimed, reports>>
  BY DEF OnCredentialsProcessed, At, CredentialWaits, Late, world, history
<1>2. \/ CredentialsProcessed(f, "OK") \/ CredentialsProcessed(f, "LEDGER_ERROR")
  BY DEF OnCredentialsProcessed
<1> QED
  BY <1>1, <1>2, ResultsType, EndingStep

LEMMA StatusUpdatedStep ==
  ASSUME Core, NEW f \in Flows, StatusUpdated(f), dbErrors' = 0
  PROVE  dbErrors = 0 /\ KeptStep(f) /\ LateStep(f)
<1>1. /\ op[f].at \in Late /\ UNCHANGED <<claimed, reports>>
  BY DEF StatusUpdated, At, CredentialWaits, Late, world, history
<1>2. \/ Callback(f, "OK") \/ Callback(f, "LEDGER_ERROR")
  BY DEF StatusUpdated
<1> QED
  BY <1>1, <1>2, ResultsType, EndingStep

LEMMA AttestedSavedStep ==
  ASSUME Core, NEW f \in Flows, AttestedSaved(f), dbErrors' = 0
  PROVE  dbErrors = 0 /\ KeptStep(f) /\ LateStep(f)
<1>1. /\ op[f].at \in Late /\ UNCHANGED <<claimed, reports>>
  BY DEF AttestedSaved, At, CredentialWaits, Late, world, history
<1>2. CASE GetCredentials(f)
  BY <1>1, <1>2, ReadBatchStep DEF GetCredentials, CredentialWaits
<1>3. CASE Quit(f)
  BY <1>1, <1>3, QuitStep
<1> QED
  BY <1>2, <1>3 DEF AttestedSaved

(* The handlers that run once the attestation was saved.                   *)
LateHandler(f) ==
  \/ OnStart(f) \/ OnBlind(f) \/ Claim(f) \/ PostCreds(f) \/ OnClaim(f)
  \/ ClaimedSaved(f) \/ ClaimStatusSaved(f) \/ FetchSignedCreds(f)
  \/ RetryPreviousStepSaved(f) \/ OnFetchSignedCreds(f) \/ SignedCredsSaved(f)
  \/ Unblind(f) \/ VerifyPublicKey(f) \/ OnSaveUnblindedCreds(f) \/ Completed(f)
  \/ OnCredentialsProcessed(f) \/ StatusUpdated(f) \/ AttestedSaved(f)

LEMMA LateHandlerStep ==
  ASSUME Core, RestType, NEW f \in Flows, LateHandler(f), dbErrors' = 0
  PROVE  dbErrors = 0 /\ KeptStep(f) /\ LateStep(f)
BY OnStartStep, OnBlindStep, ClaimStep, PostCredsStep, OnClaimStep,
   ClaimedSavedStep, ClaimStatusSavedStep, FetchSignedCredsStep,
   RetryPreviousStepSavedStep, OnFetchSignedCredsStep, SignedCredsSavedStep,
   UnblindStep, VerifyPublicKeyStep, OnSaveUnblindedCredsStep, CompletedStep,
   OnCredentialsProcessedStep, StatusUpdatedStep, AttestedSavedStep
DEF LateHandler


(***************************************************************************)
(* The attestation, the list, the timer and the restart                    *)
(***************************************************************************)
(* Nothing is done to the batches, and a flow that is set off holds the    *)
(* batch of its promotion.                                                 *)
QuietStep ==
  /\ batch' = batch /\ claimed' = claimed
  /\ \A g \in Flows : op'[g].at \in Reading =>
       op'[g] = op[g] \/ op'[g].batch = batch[op'[g].id]

Early == {"OnAttestedPromotion", "OnCompletedAttestation"}
Settled(p) == promo[p].status \notin {"NONE", "ACTIVE"}
SettledNext(p) == promo'[p].status \notin {"NONE", "ACTIVE"}

(* A flow goes on only with a promotion that was active, until it has      *)
(* saved the attestation.                                                  *)
EarlyStep(f) ==
  /\ op[f].at \in Early \cup {"OnAttestPromotion"} /\ op[f].id \in Promotions
  /\ Goes(f, Early \cup {"AttestedSaved"})
  /\ op'[f] # Idle =>
       /\ op[f].at = "OnAttestPromotion" => op[f].promo.status = "ACTIVE"
       /\ op'[f].at \notin Early => SettledNext(op[f].id)
  /\ Settles /\ UNCHANGED reports

(* A flow that is new has attested nothing, and has read the table as it is. *)
NewFlow(x) ==
  /\ x.attest = FALSE /\ x.at # "OnComplete"
  /\ x.at = "OnGetAllPromotions" =>
       promo' = promo /\ \A p \in Promotions : x.seen[p] = promo[p].status

(* The handler of a list; only a list makes a promotion new or active again. *)
ListStep ==
  /\ UNCHANGED reports
  /\ \A g \in Flows : op'[g] = op[g] \/ NewFlow(op'[g])
  /\ \/ Settles
     \/ \E f \in Flows :
          /\ op[f].at = "OnGetAllPromotions"
          /\ \A p \in Promotions : \/ promo'[p].status = promo[p].status
                                   \/ SettledNext(p)
                                   \/ op[f].seen[p] \in {"NONE", "ACTIVE"}

LEMMA IdleNew == NewFlow(Idle) /\ Idle.at \notin Reading /\ Idle.attest = FALSE
BY DEF NewFlow, Idle, Reading

LEMMA OnAttestPromotionStep ==
  ASSUME Core, NEW f \in Flows, OnAttestPromotion(f), dbErrors' = 0
  PROVE  dbErrors = 0 /\ QuietStep /\ EarlyStep(f)
<1>1. /\ op[f].at = "OnAttestPromotion" /\ op[f].at \notin Unheld
      /\ UNCHANGED <<tables, dbErrors, claimed, reports>>
  BY DEF OnAttestPromotion, At, Unheld, world, history
<1>2. op[f].id \in Promotions
  BY <1>1, Held
<1>3. CASE Continue(f, Idle)
  <2>1. op'[f] = Idle /\ \A g \in Flows \ {f} : op'[g] = op[g]
    BY <1>3, IdleType, ContinueMoves
  <2> QED
    BY <1>1, <1>2, <2>1, IdleNew DEF QuietStep, EarlyStep, Goes, Settles, tables
<1>4. CASE op[f].promo.status = "ACTIVE" /\ Continue(f, To(f, "OnAttestedPromotion"))
  <2>1. /\ "OnAttestedPromotion" \in Waits /\ "OnAttestedPromotion" \notin Reading
        /\ "OnAttestedPromotion" \in Early
    BY DEF Waits, Reading, Early
  <2>2. /\ To(f, "OnAttestedPromotion") \in Op
        /\ To(f, "OnAttestedPromotion").at = "OnAttestedPromotion"
        /\ To(f, "OnAttestedPromotion").id = op[f].id
        /\ To(f, "OnAttestedPromotion").attest = op[f].attest
    BY <1>1, <2>1, ToFields
  <2>3. op'[f] = To(f, "OnAttestedPromotion") /\ \A g \in Flows \ {f} : op'[g] = op[g]
    BY <1>4, <2>2, ContinueMoves
  <2> QED
    BY <1>1, <1>2, <1>4, <2>1, <2>2, <2>3 DEF QuietStep, EarlyStep, Goes, Settles, tables
<1> QED
  BY <1>3, <1>4 DEF OnAttestPromotion

LEMMA OnAttestedPromotionStep ==
  ASSUME Core, NEW f \in Flows, OnAttestedPromotion(f), dbErrors' = 0
  PROVE  dbErrors = 0 /\ QuietStep /\ EarlyStep(f)
<1>1. /\ op[f].at \in Early /\ op[f].at # "OnAttestPromotion" /\ op[f].at \notin Unheld
      /\ UNCHANGED <<claimed, reports>>
  BY DEF OnAttestedPromotion, At, Unheld, world, Early
<1>2. op[f].id \in Promotions
  BY <1>1, Held
<1>3. CASE Quit(f)
  <2>1. op'[f] = Idle /\ \A g \in Flows \ {f} : op'[g] = op[g]
    BY <1>3, IdleType, ContinueMoves DEF Quit
  <2>2. dbErrors = 0 /\ UNCHANGED tables /\ Settles /\ Goes(f, Early \cup {"AttestedSaved"})
    BY <1>3, QuitMoves
  <2> QED
    BY <1>1, <1>2, <2>1, <2>2, IdleNew DEF QuietStep, EarlyStep, tables
<1>4. CASE GetPromotion(f, To(f, "OnCompletedAttestation"))
  <2>1. /\ "OnCompletedAttestation" \in Waits /\ "OnCompletedAttestation" \notin Reading
        /\ "OnCompletedAttestation" \in Early
    BY DEF Waits, Reading, Early
  <2> DEFINE n == To(f, "OnCompletedAttestation")
  <2>2. /\ n \in Op /\ n.at = "OnCompletedAttestation" /\ n.id = op[f].id
        /\ n.attest = op[f].attest
    BY <1>1, <2>1, ToFields
  <2> HIDE DEF n
  <2>3. /\ dbErrors = 0 /\ UNCHANGED tables /\ Settles
        /\ \A g \in Flows \ {f} : op'[g] = op[g]
        /\ op'[f].at = n.at /\ op'[f].id = n.id /\ op'[f].attest = n.attest
    BY <1>2, <1>4, <2>2, GetPromotionMoves DEF n
  <2> QED
    BY <1>1, <1>2, <2>1, <2>2, <2>3 DEF QuietStep, EarlyStep, Goes, tables
<1> QED
  BY <1>3, <1>4 DEF OnAttestedPromotion

LEMMA OnCompletedAttestationStep ==
  ASSUME Core, NEW f \in Flows, OnCompletedAttestation(f), dbErrors' = 0
  PROVE  dbErrors = 0 /\ QuietStep /\ EarlyStep(f)
<1>1. /\ op[f].at \in Early /\ op[f].at # "OnAttestPromotion" /\ op[f].at \notin Unheld
      /\ UNCHANGED <<claimed, reports>>
  BY DEF OnCompletedAttestation, At, Unheld, world, history, Early
<1>2. op[f].id \in Promotions
  BY <1>1, Held
<1>3. CASE Quit(f)
  <2>1. op'[f] = Idle /\ \A g \in Flows \ {f} : op'[g] = op[g]
    BY <1>3, IdleType, ContinueMoves DEF Quit
  <2>2. dbErrors = 0 /\ UNCHANGED tables /\ Settles /\ Goes(f, Early \cup {"AttestedSaved"})
    BY <1>3, QuitMoves
  <2> QED
    BY <1>1, <1>2, <2>1, <2>2, IdleNew DEF QuietStep, EarlyStep, tables
<1>4. CASE SetPromo(f, To(f, "AttestedSaved"), SavedAs("ATTESTED"))
  <2>1. SavedAs("ATTESTED") \in Promo /\ SavedAs("ATTESTED").status = "ATTESTED"
    BY CredsType DEF SavedAs, Promo, Statuses
  <2>2. "AttestedSaved" \in Waits \ {"OnComplete"} /\ "AttestedSaved" \notin Reading
    BY DEF Waits, Reading
  <2>3. /\ dbErrors = 0 /\ batch' = batch
        /\ promo' = [promo EXCEPT ![op[f].id] = SavedAs("ATTESTED")]
        /\ Goes(f, {"AttestedSaved"}) /\ op'[f].at = "AttestedSaved"
    BY <1>1, <1>4, <2>1, <2>2, SetPromoMoves
  <2>4. Settles /\ SettledNext(op[f].id)
    BY <1>2, <2>1, <2>3 DEF Settles, SettledNext, Core, TablesType
  <2>5. Goes(f, Early \cup {"AttestedSaved"})
    BY <2>3 DEF Goes
  <2>6. QuietStep
    BY <1>1, <2>2, <2>3 DEF QuietStep, Goes
  <2> QED
    BY <1>1, <1>2, <2>3, <2>4, <2>5, <2>6 DEF EarlyStep
<1> QED
  BY <1>3, <1>4 DEF OnCompletedAttestation

LEMMA AttestStep ==
  ASSUME Core, NEW f \in Flows, NEW p \in Promotions, Attest(f, p), dbErrors' = 0
  PROVE  /\ dbErrors = 0 /\ QuietStep /\ promo' = promo /\ UNCHANGED reports
         /\ \A g \in Flows \ {f} : op'[g] = op[g]
         /\ op'[f].at = "OnAttestPromotion" /\ op'[f].id = p /\ op'[f].attest = TRUE
         /\ op'[f].promo = promo[p]
<1>1. PICK ok \in BOOLEAN :
        /\ Transaction(ok)
        /\ Continue(f, [Idle EXCEPT !.at = "OnAttestPromotion", !.id = p, !.attest = TRUE,
                                    !.promo = IF ok THEN promo[p] ELSE NoPromo])
  BY DEF Attest
<1>2. UNCHANGED <<tables, claimed, reports>>
  BY DEF Attest, world
<1>3. ok = TRUE /\ dbErrors = 0
  BY <1>1, TransactionOk
<1> DEFINE row == promo[p]
           n == [Idle EXCEPT !.at = "OnAttestPromotion", !.id = p, !.attest = TRUE,
                             !.promo = row]
<1>4. Continue(f, n) /\ row \in Promo
  BY <1>1, <1>3 DEF Core, TablesType
<1> HIDE DEF row
<1>5. "OnAttestPromotion" \in Waits /\ "OnAttestPromotion" \notin Reading
  BY DEF Waits, Reading
<1>6. /\ n \in Op /\ n.at = "OnAttestPromotion" /\ n.id = p /\ n.promo = row
      /\ n.attest = TRUE
  BY <1>4, <1>5, IdleType DEF Op, Idle
<1> HIDE DEF n
<1>7. op'[f] = n /\ \A g \in Flows \ {f} : op'[g] = op[g]
  BY <1>4, <1>6, ContinueMoves
<1> QED
  BY <1>2, <1>3, <1>5, <1>6, <1>7 DEF QuietStep, tables, row

LEMMA OnCompleteStep ==
  ASSUME Core, NEW f \in Flows, OnComplete(f), dbErrors' = 0
  PROVE  /\ dbErrors = 0 /\ QuietStep /\ promo' = promo
         /\ op[f].at = "OnComplete" /\ op[f].id \in Promotions
         /\ op'[f] = Idle /\ \A g \in Flows \ {f} : op'[g] = op[g]
         /\ \/ reports' = reports
            \/ reports' = [reports EXCEPT ![op[f].id] = @ + 1]
<1>1. op[f].at = "OnComplete" /\ op[f].at \notin Unheld /\ UNCHANGED <<tables, claimed>>
  BY DEF OnComplete, At, Unheld, world
<1>2. op'[f] = Idle /\ \A g \in Flows \ {f} : op'[g] = op[g]
  BY IdleType, ContinueMoves DEF OnComplete
<1>3. QuietStep
  BY <1>1, <1>2, IdleNew DEF QuietStep, tables
<1>4. CASE UNCHANGED <<reports, dbErrors>>
  BY <1>1, <1>2, <1>3, <1>4, Held DEF tables
<1>5. CASE \E ok \in BOOLEAN :
             /\ Transaction(ok)
             /\ reports' = [reports EXCEPT ![op[f].id] = IF ok THEN @ + 1 ELSE @]
  <2>1. PICK ok \in BOOLEAN :
          /\ Transaction(ok)
          /\ reports' = [reports EXCEPT ![op[f].id] = IF ok THEN @ + 1 ELSE @]
    BY <1>5
  <2>2. ok = TRUE /\ dbErrors = 0
    BY <2>1, TransactionOk
  <2> QED
    BY <1>1, <1>2, <1>3, <2>1, <2>2, Held DEF tables
<1> QED
  BY <1>4, <1>5 DEF OnComplete


\* A flow that reads the list of promotions.
LEMMA GetAllPromotionsStep ==
  ASSUME Core, NEW f \in Flows, NEW next \in Op, GetAllPromotions(f, next),
         next.at \in Unheld, next.attest = FALSE,
         UNCHANGED <<claimed, reports>>, dbErrors' = 0
  PROVE  dbErrors = 0 /\ QuietStep /\ ListStep
<1>1. PICK ok \in BOOLEAN :
        /\ Transaction(ok)
        /\ Continue(f, [next EXCEPT !.seen = [p \in Promotions |->
                                      IF ok THEN promo[p].status ELSE "NONE"]])
        /\ UNCHANGED tables
  BY DEF GetAllPromotions
<1>2. ok = TRUE /\ dbErrors = 0
  BY <1>1, TransactionOk
<1> DEFINE row == [p \in Promotions |-> promo[p].status]
           n == [next EXCEPT !.seen = row]
<1>3. Continue(f, n)
  BY <1>1, <1>2
<1>4. row \in [Promotions -> Statuses] /\ \A p \in Promotions : row[p] = promo[p].status
  BY DEF Core, TablesType, Promo
<1> HIDE DEF row
<1>5. n \in Op /\ n.at = next.at /\ n.attest = FALSE /\ n.seen = row
  BY <1>4 DEF Op
<1> HIDE DEF n
<1>6. op'[f] = n /\ \A g \in Flows \ {f} : op'[g] = op[g]
  BY <1>3, <1>5, ContinueMoves
<1>7. n.at \notin Reading /\ n.at # "OnComplete"
  BY <1>5 DEF Unheld, Reading
<1>8. NewFlow(n)
  BY <1>1, <1>4, <1>5, <1>7 DEF NewFlow, tables
<1>9. \A g \in Flows : op'[g] = op[g] \/ (op'[g] = n)
  BY <1>6
<1>10. QuietStep
  BY <1>1, <1>7, <1>9 DEF QuietStep, tables
<1>11. Settles
  BY <1>1 DEF Settles, tables
<1>12. \A g \in Flows : op'[g] = op[g] \/ NewFlow(op'[g])
  BY <1>8, <1>9
<1> QED
  BY <1>2, <1>10, <1>11, <1>12 DEF ListStep

LEMMA OnRetryTimerElapsedStep ==
  ASSUME Core, NEW f \in Flows, OnRetryTimerElapsed(f), dbErrors' = 0
  PROVE  dbErrors = 0 /\ QuietStep /\ ListStep
<1> DEFINE n == [Idle EXCEPT !.at = "Retry"]
<1>1. GetAllPromotions(f, n) /\ UNCHANGED <<claimed, reports>>
  BY DEF OnRetryTimerElapsed, world, history
<1>2. n \in Op /\ n.at \in Unheld /\ n.attest = FALSE
  BY IdleType DEF Op, Waits, Unheld, Idle
<1> QED
  BY <1>1, <1>2, GetAllPromotionsStep

LEMMA IdleFlowStep ==
  ASSUME Core, NEW f \in Flows, NEW n \in {Idle, [Idle EXCEPT !.at = "OnFetch"]},
         Continue(f, n), UNCHANGED <<tables, dbErrors, claimed, reports>>, dbErrors' = 0
  PROVE  dbErrors = 0 /\ QuietStep /\ ListStep
<1>1. n \in Op /\ n.at \notin Reading /\ NewFlow(n)
  <2>1. CASE n = Idle
    BY <2>1, IdleType, IdleNew
  <2>2. CASE n = [Idle EXCEPT !.at = "OnFetch"]
    <3>1. n \in Op
      BY <2>2, IdleType DEF Op, Waits
    <3>2. n.at = "OnFetch" /\ n.attest = FALSE
      BY <2>2 DEF Idle
    <3> QED
      BY <3>1, <3>2 DEF Reading, NewFlow
  <2> QED
    BY <2>1, <2>2
<1>2. op'[f] = n /\ \A g \in Flows \ {f} : op'[g] = op[g]
  BY <1>1, ContinueMoves
<1>3. \A g \in Flows : op'[g] = op[g] \/ op'[g] = n
  BY <1>2
<1>4. QuietStep
  BY <1>1, <1>3 DEF QuietStep, tables
<1>5. \A g \in Flows : op'[g] = op[g] \/ NewFlow(op'[g])
  BY <1>1, <1>3
<1>6. Settles
  BY DEF Settles, tables
<1> QED
  BY <1>4, <1>5, <1>6 DEF ListStep

LEMMA FetchStep ==
  ASSUME Core, NEW f \in Flows, Fetch(f), dbErrors' = 0
  PROVE  dbErrors = 0 /\ QuietStep /\ ListStep
<1> DEFINE x == [Idle EXCEPT !.at = "OnGetAllPromotionsFromDatabase"]
           n == [Idle EXCEPT !.at = "OnFetch"]
<1>1. UNCHANGED <<claimed, reports>>
  BY DEF Fetch, world
<1>2. CASE GetAllPromotions(f, x)
  <2>1. x \in Op /\ x.at \in Unheld /\ x.attest = FALSE
    BY IdleType DEF Op, Waits, Unheld, Idle
  <2> QED
    BY <1>1, <1>2, <2>1, GetAllPromotionsStep
<1>3. CASE Continue(f, n) /\ UNCHANGED <<tables, dbErrors>>
  BY <1>1, <1>3, IdleFlowStep
<1> QED
  BY <1>2, <1>3 DEF Fetch

LEMMA OnFetchStep ==
  ASSUME Core, NEW f \in Flows, OnFetch(f), dbErrors' = 0
  PROVE  dbErrors = 0 /\ QuietStep /\ ListStep
<1>1. UNCHANGED <<claimed, reports>>
  BY DEF OnFetch, world, history
<1>2. CASE Quit(f)
  BY <1>1, <1>2, IdleFlowStep DEF Quit
<1>3. ASSUME NEW listed \in SUBSET Promotions,
             GetAllPromotions(f, [Idle EXCEPT !.at = "OnGetAllPromotions", !.listed = listed])
      PROVE  dbErrors = 0 /\ QuietStep /\ ListStep
  <2> DEFINE n == [Idle EXCEPT !.at = "OnGetAllPromotions", !.listed = listed]
  <2>1. n \in Op /\ n.at \in Unheld /\ n.attest = FALSE
    BY IdleType DEF Op, Waits, Unheld, Idle
  <2> QED
    BY <1>1, <1>3, <2>1, GetAllPromotionsStep
<1> QED
  BY <1>2, <1>3 DEF OnFetch

\* What is over is settled.
LEMMA OverSettles ==
  ASSUME NEW table \in [Promotions -> Promo], NEW P, NEW p \in Promotions
  PROVE  \/ Over(P, table)[p].status = table[p].status
         \/ Over(P, table)[p].status \notin {"NONE", "ACTIVE"}
<1>1. CASE p \in P
  <2>1. [table[p] EXCEPT !.status = "OVER"].status = "OVER"
    BY DEF Promo
  <2> QED
    BY <1>1, <2>1 DEF Over
<1>2. CASE p \notin P
  BY <1>2 DEF Over
<1> QED
  BY <1>1, <1>2

LEMMA OnGetAllPromotionsFromDatabaseStep ==
  ASSUME Core, RestType, NEW f \in Flows, OnGetAllPromotionsFromDatabase(f), dbErrors' = 0
  PROVE  dbErrors = 0 /\ QuietStep /\ ListStep
<1> DEFINE over == HandleExpiredPromotions(op[f].seen)
<1>1. PICK lost \in SUBSET over :
        Failures(Cardinality(lost)) /\ promo' = Over(over \ lost, promo)
  BY DEF OnGetAllPromotionsFromDatabase
<1>2. /\ batch' = batch /\ claimed' = claimed /\ UNCHANGED reports
      /\ Continue(f, Idle)
  BY DEF OnGetAllPromotionsFromDatabase, world, history
<1>3. over \in SUBSET Promotions
  BY DEF HandleExpiredPromotions, RestType
<1> HIDE DEF over
<1>4. dbErrors = 0
  <2>1. Cardinality(lost) \in Nat
    BY <1>3, PromotionSets
  <2> QED
    BY <1>1, <2>1, NoErrors
<1>5. Settles
  BY <1>1, OverSettles DEF Settles, Core, TablesType
<1>6. op'[f] = Idle /\ \A g \in Flows \ {f} : op'[g] = op[g]
  BY <1>2, IdleType, ContinueMoves
<1> QED
  BY <1>2, <1>4, <1>5, <1>6, IdleNew DEF QuietStep, ListStep

\* A flow that a list sets off is new, the others are as they were.
LEMMA SpawnMoves ==
  ASSUME NEW f \in Flows, NEW P, NEW next, op \in [Flows -> Op], Spawn(f, P, next),
         NEW g \in Flows
  PROVE  op'[g] \in {op[g], Idle} \/ \E p \in P : op'[g] = next[p]
<1>1. PICK slot \in [P -> IdleFlows \cup {f}] :
        op' = [h \in Flows |->
                 IF \E p \in P : slot[p] = h
                 THEN next[CHOOSE p \in P : slot[p] = h]
                 ELSE IF h = f THEN Idle ELSE op[h]]
  BY DEF Spawn
<1>2. CASE \E p \in P : slot[p] = g
  <2> DEFINE q == CHOOSE p \in P : slot[p] = g
  <2>1. q \in P
    BY <1>2
  <2>2. op'[g] = next[q]
    BY <1>1, <1>2
  <2> HIDE DEF q
  <2> QED
    BY <2>1, <2>2
<1>3. CASE ~\E p \in P : slot[p] = g
  BY <1>1, <1>3
<1> QED
  BY <1>2, <1>3

LEMMA NoneLost ==
  ASSUME Core, NEW A \in SUBSET Promotions, NEW B \in SUBSET Promotions,
         NEW C \in SUBSET Promotions,
         Failures(Cardinality(A) + Cardinality(B) + Cardinality(C)), dbErrors' = 0
  PROVE  dbErrors = 0 /\ A = {} /\ B = {} /\ C = {}
<1>1. /\ Cardinality(A) \in Nat /\ Cardinality(B) \in Nat /\ Cardinality(C) \in Nat
      /\ IsFiniteSet(A) /\ IsFiniteSet(B) /\ IsFiniteSet(C)
  BY PromotionSets
<1> DEFINE n == Cardinality(A) + Cardinality(B) + Cardinality(C)
<1>2. n \in Nat
  BY <1>1
<1>3. n = 0 /\ dbErrors = 0
  BY <1>2, NoErrors
<1>4. Cardinality(A) = 0 /\ Cardinality(B) = 0 /\ Cardinality(C) = 0
  BY <1>1, <1>3
<1> QED
  BY <1>1, <1>3, <1>4, FS_EmptySet

LEMMA RetryStep ==
  ASSUME Core, RestType, NEW f \in Flows, Retry(f), dbErrors' = 0
  PROVE  dbErrors = 0 /\ QuietStep /\ ListStep
<1> DEFINE over == HandleExpiredPromotions(op[f].seen)
           attested == {p \in Promotions : op[f].seen[p] = "ATTESTED"}
<1>1. PICK lost \in SUBSET over, failed \in SUBSET attested :
        /\ Failures(Cardinality(lost) + Cardinality(failed))
        /\ promo' = Over(over \ lost, promo)
        /\ Spawn(f, attested, [p \in attested |->
             [Idle EXCEPT !.at = "OnStart", !.id = p,
                          !.batch = IF p \in failed THEN NoBatch ELSE batch[p]]])
  BY DEF Retry
<1>2. batch' = batch /\ claimed' = claimed /\ UNCHANGED reports
  BY DEF Retry, world, history
<1>3. over \in SUBSET Promotions /\ attested \in SUBSET Promotions
  BY DEF HandleExpiredPromotions, RestType
<1> HIDE DEF over
<1>4. dbErrors = 0 /\ failed = {}
  <2>1. lost \in SUBSET Promotions /\ failed \in SUBSET Promotions
        /\ {} \in SUBSET Promotions
    BY <1>3
  <2>2. Cardinality({}) = 0 /\ Cardinality(lost) \in Nat /\ Cardinality(failed) \in Nat
    BY <2>1, PromotionSets, FS_EmptySet
  <2>3. Cardinality(lost) + Cardinality(failed) + Cardinality({})
          = Cardinality(lost) + Cardinality(failed)
    BY <2>2
  <2>4. Failures(Cardinality(lost) + Cardinality(failed) + Cardinality({}))
    BY <1>1, <2>3
  <2> QED
    BY <2>1, <2>4, NoneLost
<1>5. Settles
  BY <1>1, OverSettles DEF Settles, Core, TablesType
<1> DEFINE next == [p \in attested |->
             [Idle EXCEPT !.at = "OnStart", !.id = p,
                          !.batch = IF p \in failed THEN NoBatch ELSE batch[p]]]
<1>6. ASSUME NEW p \in attested
      PROVE  NewFlow(next[p]) /\ next[p].batch = batch[next[p].id]
  <2>1. next[p] = [Idle EXCEPT !.at = "OnStart", !.id = p, !.batch = batch[p]]
    BY <1>4
  <2>2. /\ next[p].at = "OnStart" /\ next[p].id = p /\ next[p].batch = batch[p]
        /\ next[p].attest = FALSE
    BY <2>1 DEF Idle
  <2> HIDE DEF next
  <2> QED
    BY <2>2 DEF NewFlow
<1>7. Spawn(f, attested, next)
  BY <1>1
<1> HIDE DEF next
<1>8. \A g \in Flows : op'[g] \in {op[g], Idle} \/ \E p \in attested : op'[g] = next[p]
  BY <1>7, SpawnMoves DEF Core, OpsGood
<1> HIDE DEF attested
<1>9. QuietStep
  BY <1>2, <1>6, <1>8, IdleNew DEF QuietStep
<1>10. \A g \in Flows : op'[g] = op[g] \/ NewFlow(op'[g])
  BY <1>6, <1>8, IdleNew
<1> QED
  BY <1>2, <1>4, <1>5, <1>9, <1>10 DEF ListStep

LEMMA OnGetAllPromotionsStep ==
  ASSUME Core, RestType, NEW f \in Flows, OnGetAllPromotions(f), dbErrors' = 0
  PROVE  dbErrors = 0 /\ QuietStep /\ ListStep
<1> DEFINE fresh == {p \in op[f].listed : NewOrActive(op[f].seen, p)}
           expiring == HandleExpiredPromotions(op[f].seen)
           gone == NotListed(f)
           Saved(E, S, L) == [p \in Promotions |->
             IF p \in S THEN SavedAs(IF p \in L THEN "ATTESTED" ELSE "ACTIVE")
                        ELSE Over(E, promo)[p]]
<1>1. PICK notExpired \in SUBSET expiring, notSaved \in SUBSET fresh,
           notGone \in SUBSET gone, legacy \in SUBSET (fresh \cap Legacy) :
        /\ Failures(Cardinality(notExpired) + Cardinality(notSaved) + Cardinality(notGone))
        /\ promo' = Over(gone \ notGone,
                         Saved(expiring \ notExpired, fresh \ notSaved, legacy))
        /\ Spawn(f, legacy, [p \in legacy |->
             [Idle EXCEPT !.at = "LegacyClaimedSaved", !.id = p, !.ok = p \notin notSaved]])
  BY DEF OnGetAllPromotions
<1>2. /\ batch' = batch /\ claimed' = claimed /\ UNCHANGED reports
      /\ op[f].at = "OnGetAllPromotions"
  BY DEF OnGetAllPromotions, world, history, At
<1>3. /\ expiring \in SUBSET Promotions /\ gone \in SUBSET Promotions
      /\ fresh \in SUBSET Promotions
  BY DEF HandleExpiredPromotions, NotListed, RestType, Core, OpsGood, Op
<1>4. \A p \in fresh : op[f].seen[p] \in {"NONE", "ACTIVE"}
  BY DEF NewOrActive
<1> HIDE DEF expiring, gone, fresh
<1>5. dbErrors = 0
  <2>1. /\ notExpired \in SUBSET Promotions /\ notSaved \in SUBSET Promotions
        /\ notGone \in SUBSET Promotions
    BY <1>3
  <2> QED
    BY <1>1, <2>1, NoneLost
<1> DEFINE saved == Saved(expiring \ notExpired, fresh \ notSaved, legacy)
<1>6. ASSUME NEW p \in Promotions
      PROVE  \/ promo'[p].status = promo[p].status
             \/ SettledNext(p)
             \/ op[f].seen[p] \in {"NONE", "ACTIVE"}
  <2>1. CASE p \in fresh
    BY <1>4, <2>1
  <2>2. CASE p \notin fresh
    <3> DEFINE kept == Over(expiring \ notExpired, promo)
    <3>1. saved[p] = kept[p]
      BY <2>2
    <3>2. promo'[p] = Over(gone \ notGone, saved)[p] /\ promo \in [Promotions -> Promo]
      BY <1>1 DEF Core, TablesType
    <3>3. kept \in [Promotions -> Promo] /\ kept[p] \in Promo
      <4>1. ASSUME NEW q \in Promotions
            PROVE  kept[q] \in Promo
        <5>1. promo[q] \in Promo
          BY <3>2
        <5>2. [promo[q] EXCEPT !.status = "OVER"] \in Promo
          BY <5>1 DEF Promo, Statuses
        <5> QED
          BY <5>1, <5>2 DEF Over
      <4> QED
        BY <4>1 DEF Over
    <3>4. \/ kept[p].status = promo[p].status
          \/ kept[p].status \notin {"NONE", "ACTIVE"}
      BY <3>2, OverSettles
    <3> HIDE DEF kept
    <3>5. promo'[p] = kept[p] \/ promo'[p] = [kept[p] EXCEPT !.status = "OVER"]
      BY <3>1, <3>2 DEF Over
    <3>6. promo'[p].status = kept[p].status \/ promo'[p].status = "OVER"
      BY <3>3, <3>5 DEF Promo
    <3> QED
      BY <3>4, <3>6 DEF SettledNext
  <2> QED
    BY <2>1, <2>2
<1> DEFINE next == [p \in legacy |->
             [Idle EXCEPT !.at = "LegacyClaimedSaved", !.id = p, !.ok = p \notin notSaved]]
<1>7. ASSUME NEW p \in legacy
      PROVE  NewFlow(next[p]) /\ next[p].at \notin Reading
  <2>1. next[p].at = "LegacyClaimedSaved" /\ next[p].attest = FALSE
    BY DEF Idle
  <2> HIDE DEF next
  <2> QED
    BY <2>1 DEF NewFlow, Reading
<1>8. Spawn(f, legacy, next)
  BY <1>1
<1> HIDE DEF next
<1>9. \A g \in Flows : op'[g] \in {op[g], Idle} \/ \E p \in legacy : op'[g] = next[p]
  BY <1>8, SpawnMoves DEF Core, OpsGood
<1>10. QuietStep
  BY <1>2, <1>7, <1>9, IdleNew DEF QuietStep
<1>11. \A g \in Flows : op'[g] = op[g] \/ NewFlow(op'[g])
  BY <1>7, <1>9, IdleNew
<1>12. ListStep
  BY <1>2, <1>6, <1>11 DEF ListStep
<1> QED
  BY <1>5, <1>10, <1>12

LEMMA RestartStep ==
  ASSUME Core, NEW f \in Flows, Restart(f), dbErrors' = 0
  PROVE  dbErrors = 0 /\ QuietStep /\ ListStep
<1>1. PICK ok \in BOOLEAN :
        /\ Transaction(ok)
        /\ op' = [g \in Flows |-> IF g # f THEN Idle ELSE
                   [Idle EXCEPT !.at = "Retry",
                                !.seen = [p \in Promotions |->
                                           IF ok THEN promo[p].status ELSE "NONE"]]]
  BY DEF Restart
<1>2. UNCHANGED <<tables, claimed, reports>>
  BY DEF Restart, world
<1>3. dbErrors = 0
  BY <1>1, TransactionOk
<1> DEFINE seen == [p \in Promotions |-> IF ok THEN promo[p].status ELSE "NONE"]
           n == [Idle EXCEPT !.at = "Retry", !.seen = seen]
<1>4. \A g \in Flows : op'[g] = Idle \/ op'[g] = n
  BY <1>1
<1>5. n.at = "Retry" /\ n.attest = FALSE
  BY DEF Idle
<1> HIDE DEF n
<1>6. NewFlow(n) /\ n.at \notin Reading
  BY <1>5 DEF NewFlow, Reading
<1>7. Settles
  BY <1>2 DEF Settles, tables
<1> QED
  BY <1>2, <1>3, <1>4, <1>6, <1>7, IdleNew DEF QuietStep, ListStep, tables

LEMMA ExpireStep ==
  ASSUME NEW p \in Expirable, Expire(p), dbErrors' = 0
  PROVE  dbErrors = 0 /\ QuietStep /\ ListStep
BY DEF Expire, QuietStep, ListStep, Settles, tables, history

(* Every step that is not of a handler after the attestation.              *)
OtherStep ==
  /\ QuietStep
  /\ \/ \E f \in Flows : EarlyStep(f)
     \/ ListStep
     \/ \E f \in Flows : OnComplete(f)
     \/ \E f \in Flows, p \in Promotions : Attest(f, p)

LEMMA StepCases ==
  ASSUME CoreInv, Step, dbErrors' = 0
  PROVE  /\ dbErrors = 0
         /\ \/ \E f \in Flows : KeptStep(f) /\ LateStep(f)
            \/ OtherStep
<1>1. Core /\ RestType
  BY DEF CoreInv
<1>2. ASSUME NEW f \in Flows, LateHandler(f)
      PROVE  dbErrors = 0 /\ KeptStep(f) /\ LateStep(f)
  BY <1>1, <1>2, LateHandlerStep
<1>3. ASSUME NEW f \in Flows,
             OnAttestPromotion(f) \/ OnAttestedPromotion(f) \/ OnCompletedAttestation(f)
      PROVE  dbErrors = 0 /\ QuietStep /\ EarlyStep(f)
  BY <1>1, <1>3, OnAttestPromotionStep, OnAttestedPromotionStep,
     OnCompletedAttestationStep
<1>4. ASSUME NEW f \in Flows,
             Retry(f) \/ OnFetch(f) \/ OnGetAllPromotions(f)
             \/ OnGetAllPromotionsFromDatabase(f) \/ OnRetryTimerElapsed(f)
             \/ Fetch(f) \/ Restart(f)
      PROVE  dbErrors = 0 /\ QuietStep /\ ListStep
  BY <1>1, <1>4, RetryStep, OnFetchStep, OnGetAllPromotionsStep,
     OnGetAllPromotionsFromDatabaseStep, OnRetryTimerElapsedStep, FetchStep,
     RestartStep
<1>5. ASSUME NEW f \in Flows, OnComplete(f)
      PROVE  dbErrors = 0 /\ QuietStep
  BY <1>1, <1>5, OnCompleteStep
<1>6. ASSUME NEW f \in Flows, NEW p \in Promotions, Attest(f, p)
      PROVE  dbErrors = 0 /\ QuietStep
  BY <1>1, <1>6, AttestStep
<1>7. ASSUME NEW f \in Flows, Handler(f)
      PROVE  \/ LateHandler(f)
             \/ OnAttestPromotion(f) \/ OnAttestedPromotion(f) \/ OnCompletedAttestation(f)
             \/ Retry(f) \/ OnFetch(f) \/ OnGetAllPromotions(f)
             \/ OnGetAllPromotionsFromDatabase(f) \/ OnComplete(f)
  BY <1>7 DEF Handler, LateHandler
<1> QED
  BY <1>2, <1>3, <1>4, <1>5, <1>6, <1>7, ExpireStep DEF Step, OtherStep


(***************************************************************************)
(* The invariant of the batch                                              *)
(***************************************************************************)
LEMMA AloneWorkingNext ==
  ASSUME Observe
  PROVE  AloneWorking'
BY DEF Observe, AtOnce, AloneWorking, Working

\* One flow writes the row of its promotion; a second one that holds the row
\* would make two of them.
LEMMA KeptStepKept ==
  ASSUME CoreInv, KeptInv, Observe, dbErrors = 0, NEW f \in Flows, KeptStep(f),
         \A g \in Flows \ {f} : op'[g] = op[g]
  PROVE  ClaimedCredsKept' /\ BatchHeld'
<1> DEFINE p == op[f].id
<1>1. /\ overlapped \subseteq overlapped'
      /\ \A q \in Promotions \ overlapped : claimed[q] # NoCreds => batch[q].creds = claimed[q]
      /\ BatchHeld /\ AloneWorking
  BY DEF Observe, KeptInv, ClaimedCredsKept
<1>2. Core
  BY DEF CoreInv
<1>3. ASSUME NEW q \in Promotions \ overlapped', claimed'[q] # NoCreds
      PROVE  batch'[q].creds = claimed'[q]
  <2>1. claimed[q] # NoCreds => batch[q].creds = claimed[q]
    BY <1>1
  <2>2. CASE batch' = batch /\ claimed' = claimed
    BY <1>3, <2>1, <2>2
  <2>3. CASE /\ op[f].at \in CredentialWaits /\ claimed' = claimed
             /\ \A r \in Promotions \ {p} : batch'[r] = batch[r]
             /\ \/ batch'[p].creds = batch[p].creds
                \/ op[f].at = "OnStart" /\ op[f].batch.status = "NONE"
    <3>1. CASE q # p \/ batch'[p].creds = batch[p].creds
      BY <1>3, <2>1, <2>3, <3>1
    <3>2. CASE q = p /\ op[f].at = "OnStart" /\ op[f].batch.status = "NONE"
      <4>1. op[f].batch = batch[p]
        BY <1>1, <3>2 DEF BatchHeld, Reading
      <4>2. batch[p] = NoBatch
        BY <1>2, <3>2, <4>1 DEF Core, RowsGood, RowGood
      <4>3. claimed[p] = NoCreds
        BY <2>1, <3>2, <4>2 DEF NoBatch
      <4> QED
        BY <1>3, <2>3, <3>2, <4>3
    <3> QED
      BY <2>3, <3>1, <3>2
  <2>4. CASE /\ op[f].at = "PostCreds" /\ batch' = batch
             /\ \/ claimed' = claimed
                \/ claimed' = [claimed EXCEPT ![p] = op[f].batch.creds]
    <3>1. CASE claimed'[q] = claimed[q]
      BY <1>3, <2>1, <2>4, <3>1
    <3>2. CASE claimed'[q] # claimed[q]
      <4>1. q = p /\ claimed'[q] = op[f].batch.creds
        BY <1>2, <2>4, <3>2 DEF Core, TablesType
      <4>2. op[f].batch = batch[p]
        BY <1>1, <2>4, <4>1 DEF BatchHeld, Reading
      <4> QED
        BY <2>4, <4>1, <4>2
    <3> QED
      BY <3>1, <3>2
  <2> QED
    BY <2>2, <2>3, <2>4 DEF KeptStep
<1>4. ASSUME NEW g \in Flows, op'[g].at \in Reading, op'[g].id \notin overlapped'
      PROVE  op'[g].batch = batch'[op'[g].id]
  <2>1. CASE g = f
    <3>1. /\ batch' = batch
          /\ \/ op'[f].batch = batch[op'[f].id]
             \/ op[f].at \in Reading /\ op'[f].id = op[f].id /\ op'[f].batch = op[f].batch
      BY <1>4, <2>1 DEF KeptStep
    <3> QED
      BY <1>1, <1>4, <2>1, <3>1 DEF BatchHeld
  <2>2. CASE g # f
    <3>1. op'[g] = op[g] /\ op[g].batch = batch[op[g].id]
      BY <1>1, <1>4, <2>2 DEF BatchHeld
    <3>2. op[g].at \notin Unheld /\ op[g].at \in CredentialWaits
      BY <1>4, <3>1 DEF Reading, Unheld, CredentialWaits
    <3>3. op[g].id \in Promotions
      BY <1>2, <3>2, Held
    <3>4. op[f].at \in CredentialWaits => op[g].id # p
      <4> SUFFICES ASSUME op[f].at \in CredentialWaits, op[g].id = p
                   PROVE  FALSE
        OBVIOUS
      <4>1. Working(op, f, p) /\ Working(op, g, p) /\ p \in Promotions \ overlapped
        BY <1>1, <1>4, <3>1, <3>2, <3>3 DEF Working
      <4> QED
        BY <1>1, <2>2, <4>1 DEF AloneWorking
    <3>5. batch'[op[g].id] = batch[op[g].id]
      BY <3>3, <3>4 DEF KeptStep
    <3> QED
      BY <3>1, <3>5
  <2> QED
    BY <2>1, <2>2
<1> QED
  BY <1>3, <1>4 DEF ClaimedCredsKept, BatchHeld

LEMMA QuietStepKept ==
  ASSUME CoreInv, KeptInv, Observe, dbErrors = 0, QuietStep
  PROVE  ClaimedCredsKept' /\ BatchHeld'
<1>1. /\ overlapped \subseteq overlapped'
      /\ \A q \in Promotions \ overlapped : claimed[q] # NoCreds => batch[q].creds = claimed[q]
      /\ BatchHeld
  BY DEF Observe, KeptInv, ClaimedCredsKept
<1>2. ClaimedCredsKept'
  BY <1>1 DEF ClaimedCredsKept, QuietStep
<1>3. BatchHeld'
  BY <1>1 DEF BatchHeld, QuietStep
<1> QED
  BY <1>2, <1>3

LEMMA NextKept == CoreInv /\ KeptInv /\ [Next]_vars => KeptInv'
<1> SUFFICES ASSUME CoreInv, KeptInv, [Next]_vars
             PROVE  KeptInv'
  OBVIOUS
<1>1. CASE Next
  <2>1. AloneWorking'
    BY <1>1, AloneWorkingNext DEF Next
  <2>2. ASSUME dbErrors' = 0
        PROVE  ClaimedCredsKept' /\ BatchHeld'
    <3>1. CASE \E f \in Flows : KeptStep(f) /\ LateStep(f)
      <4>1. PICK f \in Flows : KeptStep(f) /\ \A g \in Flows \ {f} : op'[g] = op[g]
        BY <3>1 DEF LateStep, Goes
      <4> QED
        BY <1>1, <2>2, <4>1, StepCases, KeptStepKept DEF Next
    <3>2. CASE OtherStep
      BY <1>1, <2>2, <3>2, StepCases, QuietStepKept DEF Next, OtherStep
    <3> QED
      BY <1>1, <2>2, <3>1, <3>2, StepCases DEF Next
  <2> QED
    BY <2>1, <2>2 DEF KeptInv
<1>2. CASE UNCHANGED vars
  BY <1>2 DEF vars, tables, world, history, KeptInv, AloneWorking, Working,
     ClaimedCredsKept, BatchHeld
<1> QED
  BY <1>1, <1>2

LEMMA InitKept == Init => KeptInv
<1> SUFFICES ASSUME Init
             PROVE  KeptInv
  OBVIOUS
<1>1. \A f \in Flows : op[f] = Idle
  BY DEF Init
<1>2. Idle.at \notin CredentialWaits /\ Idle.at \notin Reading
  BY DEF Idle, CredentialWaits, Reading
<1>3. AloneWorking /\ BatchHeld
  BY <1>1, <1>2 DEF AloneWorking, Working, BatchHeld
<1>4. ClaimedCredsKept
  BY DEF Init, ClaimedCredsKept
<1> QED
  BY <1>3, <1>4 DEF KeptInv

\* ClaimedCredsKept: the creds the server accepted stay in the batch of a
\* promotion whose flows do not overlap, as long as the database does not fail.
THEOREM ClaimedKept == Spec => []ClaimedCredsKept
<1>1. KeptInv => ClaimedCredsKept
  BY DEF KeptInv, ClaimedCredsKept
<1>2. CoreInv /\ KeptInv /\ [Next]_vars => (CoreInv /\ KeptInv)'
  BY NextCore, NextKept
<1> QED
  BY <1>1, <1>2, InitCore, InitKept, PTL DEF Spec


(***************************************************************************)
(* The invariant of the balance report                                     *)
(***************************************************************************)
AloneConcerned ==
  \A p \in Promotions \ contended, f, g \in Flows :
    Concerned(op, f, p) /\ Concerned(op, g, p) => f = g

(* What a flow still has to do with promotion p rules out that it was       *)
(* reported: an attestation that has not ended, a list that read it as new. *)
FlowReport(f, p) ==
  /\ op[f].id = p /\ op[f].attest =>
       /\ op[f].at # "OnAttestPromotion" \/ op[f].promo.status = "ACTIVE" => reports[p] = 0
       /\ op[f].at \notin Early \cup {"OnAttestPromotion"} => Settled(p)
  /\ op[f].at = "OnGetAllPromotions" /\ op[f].seen[p] \in {"NONE", "ACTIVE"}
       => reports[p] = 0

(* Only a flow that attests waits for OnComplete.                          *)
Attesting(f) ==
  /\ op[f].at = "OnComplete" => op[f].attest
  /\ op[f].attest => op[f].at \notin Unheld

PromotionReport(p) ==
  /\ reports[p] <= 1
  /\ reports[p] # 0 => Settled(p)
  /\ \A f \in Flows : FlowReport(f, p)

ReportInv ==
  /\ AloneConcerned
  /\ dbErrors = 0 =>
       /\ \A f \in Flows : Attesting(f)
       /\ \A p \in Promotions \ contended : PromotionReport(p)

LEMMA AloneConcernedNext ==
  ASSUME Observe
  PROVE  AloneConcerned'
BY DEF Observe, AtOnce, AloneConcerned, Concerned

LEMMA LateReport ==
  ASSUME CoreInv, ReportInv, dbErrors = 0, NEW f \in Flows, LateStep(f)
  PROVE  /\ \A g \in Flows : Attesting(g)'
         /\ \A p \in Promotions \ contended : PromotionReport(p)'
<1>1. /\ \A g \in Flows : Attesting(g)
      /\ \A p \in Promotions \ contended : PromotionReport(p)
  BY DEF ReportInv
<1>2. /\ op[f].at \in Late /\ op[f].at \notin Early \cup {"OnAttestPromotion"}
      /\ \A g \in Flows \ {f} : op'[g] = op[g]
      /\ reports' = reports
  BY DEF LateStep, Goes, Late, CredentialWaits, Early
<1>3. \/ op'[f] = Idle
      \/ /\ op'[f].at \in Late \cup {"OnComplete"} /\ op'[f].id = op[f].id
         /\ op'[f].attest = op[f].attest
         /\ op'[f].at = "OnComplete" => op'[f].attest
  BY DEF LateStep, Goes
<1>4. \A at \in Late \cup {"OnComplete"} :
        at \notin Unheld /\ at # "OnAttestPromotion" /\ at # "OnGetAllPromotions"
  BY DEF Late, CredentialWaits, Unheld
<1>5. Idle.attest = FALSE /\ Idle.at = "idle"
  BY DEF Idle
<1>6. ASSUME NEW g \in Flows
      PROVE  Attesting(g)'
  <2>1. CASE g = f
    BY <1>3, <1>4, <1>5, <2>1 DEF Attesting
  <2>2. CASE g # f
    BY <1>1, <1>2, <2>2 DEF Attesting
  <2> QED
    BY <2>1, <2>2
<1>7. ASSUME NEW p \in Promotions \ contended
      PROVE  PromotionReport(p)'
  <2>1. PromotionReport(p)
    BY <1>1
  <2>2. reports'[p] <= 1
    BY <1>2, <2>1 DEF PromotionReport
  <2>3. Settled(p) => Settled(p)'
    BY DEF LateStep, Settles, Settled
  <2>4. reports'[p] # 0 => Settled(p)'
    BY <1>2, <2>1, <2>3 DEF PromotionReport
  <2>5. ASSUME NEW g \in Flows
        PROVE  FlowReport(g, p)'
    <3>1. FlowReport(g, p)
      BY <2>1 DEF PromotionReport
    <3>2. CASE g = f
      BY <1>2, <1>3, <1>4, <1>5, <2>3, <3>1, <3>2 DEF FlowReport
    <3>3. CASE g # f
      BY <1>2, <2>3, <3>1, <3>3 DEF FlowReport
    <3> QED
      BY <3>2, <3>3
  <2> QED
    BY <2>2, <2>4, <2>5 DEF PromotionReport
<1> QED
  BY <1>6, <1>7

LEMMA EarlyReport ==
  ASSUME CoreInv, ReportInv, dbErrors = 0, NEW f \in Flows, EarlyStep(f)
  PROVE  /\ \A g \in Flows : Attesting(g)'
         /\ \A p \in Promotions \ contended : PromotionReport(p)'
<1>1. /\ \A g \in Flows : Attesting(g)
      /\ \A p \in Promotions \ contended : PromotionReport(p)
  BY DEF ReportInv
<1>2. /\ \A g \in Flows \ {f} : op'[g] = op[g]
      /\ reports' = reports
      /\ op[f].at = "OnAttestPromotion" /\ op'[f] # Idle => op[f].promo.status = "ACTIVE"
      /\ op'[f] # Idle /\ op'[f].at \notin Early => SettledNext(op[f].id)
  BY DEF EarlyStep, Goes
<1>3. \/ op'[f] = Idle
      \/ /\ op'[f].at \in Early \cup {"AttestedSaved"} /\ op'[f].id = op[f].id
         /\ op'[f].attest = op[f].attest
  BY DEF EarlyStep, Goes
<1>4. \A at \in Early \cup {"AttestedSaved"} :
        /\ at \notin Unheld /\ at # "OnAttestPromotion" /\ at # "OnGetAllPromotions"
        /\ at # "OnComplete"
  BY DEF Early, Unheld
<1>5. Idle.attest = FALSE /\ Idle.at = "idle"
  BY DEF Idle
<1>6. ASSUME NEW g \in Flows
      PROVE  Attesting(g)'
  <2>1. CASE g = f
    BY <1>3, <1>4, <1>5, <2>1 DEF Attesting
  <2>2. CASE g # f
    BY <1>1, <1>2, <2>2 DEF Attesting
  <2> QED
    BY <2>1, <2>2
<1>7. ASSUME NEW p \in Promotions \ contended
      PROVE  PromotionReport(p)'
  <2>1. PromotionReport(p)
    BY <1>1
  <2>2. reports'[p] <= 1
    BY <1>2, <2>1 DEF PromotionReport
  <2>3. Settled(p) => Settled(p)'
    BY DEF EarlyStep, Settles, Settled
  <2>4. reports'[p] # 0 => Settled(p)'
    BY <1>2, <2>1, <2>3 DEF PromotionReport
  <2>5. ASSUME NEW g \in Flows
        PROVE  FlowReport(g, p)'
    <3>1. FlowReport(g, p)
      BY <2>1 DEF PromotionReport
    <3>2. CASE g = f /\ op'[f] = Idle
      BY <1>5, <3>2 DEF FlowReport
    <3>3. CASE g = f /\ op'[f] # Idle
      <4>1. op'[f].id = p /\ op'[f].attest => reports'[p] = 0
        BY <1>2, <1>3, <3>1, <3>3 DEF FlowReport
      <4>2. op'[f].id = p /\ op'[f].at \notin Early => Settled(p)'
        BY <1>2, <1>3, <3>3 DEF SettledNext, Settled
      <4> QED
        BY <1>3, <1>4, <3>3, <4>1, <4>2 DEF FlowReport
    <3>4. CASE g # f
      BY <1>2, <2>3, <3>1, <3>4 DEF FlowReport
    <3> QED
      BY <3>2, <3>3, <3>4
  <2> QED
    BY <2>2, <2>4, <2>5 DEF PromotionReport
<1> QED
  BY <1>6, <1>7

\* A promotion that was active when it was read has not been reported.
LEMMA AttestReport ==
  ASSUME CoreInv, ReportInv, dbErrors = 0, dbErrors' = 0,
         NEW f \in Flows, NEW q \in Promotions, Attest(f, q)
  PROVE  /\ \A g \in Flows : Attesting(g)'
         /\ \A p \in Promotions \ contended : PromotionReport(p)'
<1>1. /\ \A g \in Flows : Attesting(g)
      /\ \A p \in Promotions \ contended : PromotionReport(p)
  BY DEF ReportInv
<1>2. /\ promo' = promo /\ reports' = reports
      /\ \A g \in Flows \ {f} : op'[g] = op[g]
      /\ op'[f].at = "OnAttestPromotion" /\ op'[f].id = q
      /\ op'[f].promo = promo[q]
  BY AttestStep DEF CoreInv
<1>3. ASSUME NEW g \in Flows
      PROVE  Attesting(g)'
  <2>1. CASE g = f
    BY <1>2, <2>1 DEF Attesting, Unheld
  <2>2. CASE g # f
    BY <1>1, <1>2, <2>2 DEF Attesting
  <2> QED
    BY <2>1, <2>2
<1>4. ASSUME NEW p \in Promotions \ contended
      PROVE  PromotionReport(p)'
  <2>1. PromotionReport(p)
    BY <1>1
  <2>2. Settled(p)' = Settled(p) /\ reports'[p] <= 1 /\ (reports'[p] # 0 => Settled(p)')
    BY <1>2, <2>1 DEF Settled, PromotionReport
  <2>3. ASSUME NEW g \in Flows
        PROVE  FlowReport(g, p)'
    <3>1. CASE g = f
      <4>1. promo[p].status = "ACTIVE" => reports'[p] = 0
        BY <2>2, <1>2 DEF Settled
      <4> QED
        BY <1>2, <3>1, <4>1 DEF FlowReport
    <3>2. CASE g # f
      BY <1>2, <2>1, <2>2, <3>2 DEF FlowReport, PromotionReport
    <3> QED
      BY <3>1, <3>2
  <2> QED
    BY <2>2, <2>3 DEF PromotionReport
<1> QED
  BY <1>3, <1>4

\* The report is written once: no other flow is concerned with the promotion.
LEMMA CompleteReport ==
  ASSUME CoreInv, ReportInv, dbErrors = 0, dbErrors' = 0,
         NEW f \in Flows, OnComplete(f)
  PROVE  /\ \A g \in Flows : Attesting(g)'
         /\ \A p \in Promotions \ contended : PromotionReport(p)'
<1> DEFINE q == op[f].id
<1>1. /\ \A g \in Flows : Attesting(g)
      /\ \A p \in Promotions \ contended : PromotionReport(p)
      /\ AloneConcerned
  BY DEF ReportInv
<1>2. /\ promo' = promo /\ op[f].at = "OnComplete" /\ q \in Promotions
      /\ op'[f] = Idle /\ \A g \in Flows \ {f} : op'[g] = op[g]
      /\ reports' = reports \/ reports' = [reports EXCEPT ![q] = @ + 1]
  BY OnCompleteStep DEF CoreInv
<1>3. Idle.attest = FALSE /\ Idle.at = "idle"
  BY DEF Idle
<1>4. op[f].attest
  BY <1>1, <1>2 DEF Attesting
<1>5. \A g \in Flows : Attesting(g)'
  BY <1>1, <1>2, <1>3 DEF Attesting
<1>6. ASSUME NEW p \in Promotions \ contended
      PROVE  PromotionReport(p)'
  <2>1. PromotionReport(p) /\ reports[p] \in Nat
    BY <1>1 DEF CoreInv, RestType
  <2>2. Settled(p)' = Settled(p)
    BY <1>2 DEF Settled
  <2>3. CASE reports'[p] = reports[p]
    <3>1. ASSUME NEW g \in Flows
          PROVE  FlowReport(g, p)'
      <4>1. FlowReport(g, p)
        BY <2>1 DEF PromotionReport
      <4>2. CASE g = f
        BY <1>2, <1>3, <4>2 DEF FlowReport
      <4>3. CASE g # f
        BY <1>2, <2>2, <2>3, <4>1, <4>3 DEF FlowReport
      <4> QED
        BY <4>2, <4>3
    <3> QED
      BY <2>1, <2>2, <2>3, <3>1 DEF PromotionReport
  <2>4. CASE reports'[p] # reports[p]
    <3>1. p = q /\ reports'[p] = reports[p] + 1
      BY <1>2, <2>4 DEF CoreInv, RestType
    <3>2. FlowReport(f, p)
      BY <2>1 DEF PromotionReport
    <3>3. reports[p] = 0 /\ Settled(p)
      BY <1>2, <1>4, <3>1, <3>2 DEF FlowReport, Early
    <3>4. reports'[p] <= 1
      BY <3>1, <3>3
    <3>5. ASSUME NEW g \in Flows
          PROVE  FlowReport(g, p)'
      <4>1. CASE g = f
        BY <1>2, <1>3, <4>1 DEF FlowReport
      <4>2. CASE g # f
        <5>1. Concerned(op, f, p)
          BY <3>1 DEF Concerned
        <5>2. ~Concerned(op, g, p)
          BY <1>1, <4>2, <5>1 DEF AloneConcerned
        <5>3. /\ op'[g].id # p
              /\ ~(op'[g].at = "OnGetAllPromotions" /\ op'[g].seen[p] \in {"NONE", "ACTIVE"})
          BY <1>2, <4>2, <5>2 DEF Concerned
        <5> QED
          BY <5>3 DEF FlowReport
      <4> QED
        BY <4>1, <4>2
    <3> QED
      BY <2>2, <3>3, <3>4, <3>5 DEF PromotionReport
  <2> QED
    BY <2>3, <2>4
<1> QED
  BY <1>5, <1>6

\* A list makes a promotion active again only if it was so when it was read,
\* and then no other flow attests it.
LEMMA ListReport ==
  ASSUME CoreInv, ReportInv, dbErrors = 0, ListStep
  PROVE  /\ \A g \in Flows : Attesting(g)'
         /\ \A p \in Promotions \ contended : PromotionReport(p)'
<1>1. /\ \A g \in Flows : Attesting(g)
      /\ \A p \in Promotions \ contended : PromotionReport(p)
      /\ AloneConcerned
  BY DEF ReportInv
<1>2. reports' = reports /\ \A g \in Flows : op'[g] = op[g] \/ NewFlow(op'[g])
  BY DEF ListStep
<1>3. \A g \in Flows : Attesting(g)'
  BY <1>1, <1>2 DEF Attesting, NewFlow
<1>4. ASSUME NEW p \in Promotions \ contended
      PROVE  PromotionReport(p)'
  <2>1. PromotionReport(p)
    BY <1>1
  <2>2. CASE Settled(p) => Settled(p)'
    <3>1. ASSUME NEW g \in Flows
          PROVE  FlowReport(g, p)'
      <4>1. FlowReport(g, p)
        BY <2>1 DEF PromotionReport
      <4>2. CASE op'[g] = op[g]
        BY <1>2, <2>2, <4>1, <4>2 DEF FlowReport
      <4>3. CASE NewFlow(op'[g])
        <5>1. op'[g].attest = FALSE
          BY <4>3 DEF NewFlow
        <5>2. ASSUME op'[g].at = "OnGetAllPromotions", op'[g].seen[p] \in {"NONE", "ACTIVE"}
              PROVE  reports'[p] = 0
          <6>1. promo[p].status \in {"NONE", "ACTIVE"}
            BY <4>3, <5>2 DEF NewFlow
          <6> QED
            BY <1>2, <2>1, <6>1 DEF PromotionReport, Settled
        <5> QED
          BY <5>1, <5>2 DEF FlowReport
      <4> QED
        BY <1>2, <4>2, <4>3
    <3> QED
      BY <1>2, <2>1, <2>2, <3>1 DEF PromotionReport
  <2>3. CASE Settled(p) /\ ~Settled(p)'
    <3>1. PICK f \in Flows :
            op[f].at = "OnGetAllPromotions" /\ op[f].seen[p] \in {"NONE", "ACTIVE"}
      BY <2>3 DEF ListStep, Settles, Settled, SettledNext
    <3>2. reports'[p] = 0
      BY <1>2, <2>1, <3>1 DEF PromotionReport, FlowReport
    <3>3. ASSUME NEW g \in Flows
          PROVE  FlowReport(g, p)'
      <4>1. CASE op'[g] = op[g]
        <5>1. ~(op[g].attest /\ op[g].id = p)
          <6> SUFFICES ASSUME op[g].attest, op[g].id = p
                       PROVE  FALSE
            OBVIOUS
          <6>1. Concerned(op, f, p) /\ Concerned(op, g, p)
            BY <3>1 DEF Concerned
          <6>2. f = g
            BY <1>1, <6>1 DEF AloneConcerned
          <6> QED
            BY <1>1, <3>1, <6>2 DEF Attesting, Unheld
        <5> QED
          BY <3>2, <4>1, <5>1 DEF FlowReport
      <4>2. CASE NewFlow(op'[g])
        BY <3>2, <4>2 DEF FlowReport, NewFlow
      <4> QED
        BY <1>2, <4>1, <4>2
    <3> QED
      BY <3>2, <3>3 DEF PromotionReport
  <2> QED
    BY <2>2, <2>3
<1> QED
  BY <1>3, <1>4

LEMMA NextReport == CoreInv /\ ReportInv /\ [Next]_vars => ReportInv'
<1> SUFFICES ASSUME CoreInv, ReportInv, [Next]_vars
             PROVE  ReportInv'
  OBVIOUS
<1>1. CASE Next
  <2>1. AloneConcerned' /\ contended \subseteq contended'
    BY <1>1, AloneConcernedNext DEF Next, Observe
  <2>2. ASSUME dbErrors' = 0
        PROVE  /\ \A g \in Flows : Attesting(g)'
               /\ \A p \in Promotions \ contended : PromotionReport(p)'
    BY <1>1, <2>2, StepCases, LateReport, EarlyReport, ListReport, CompleteReport,
       AttestReport DEF Next, OtherStep
  <2>3. ASSUME dbErrors' = 0
        PROVE  \A p \in Promotions \ contended' : PromotionReport(p)'
    BY <2>1, <2>2, <2>3
  <2> QED
    BY <2>1, <2>2, <2>3 DEF ReportInv
<1>2. CASE UNCHANGED vars
  BY <1>2 DEF vars, tables, world, history, ReportInv, AloneConcerned, Concerned,
     Attesting, PromotionReport, FlowReport, Settled
<1> QED
  BY <1>1, <1>2

LEMMA InitReport == Init => ReportInv
<1> SUFFICES ASSUME Init
             PROVE  ReportInv
  OBVIOUS
<1>1. \A f \in Flows : op[f] = Idle
  BY DEF Init
<1>2. Idle.at = "idle" /\ Idle.id \notin Promotions /\ Idle.attest = FALSE
  BY ConstantsAssumption DEF Idle, Promotions
<1>3. AloneConcerned
  BY <1>1, <1>2 DEF AloneConcerned, Concerned
<1>4. \A f \in Flows : Attesting(f)
  BY <1>1, <1>2 DEF Attesting
<1>5. \A p \in Promotions : PromotionReport(p)
  BY <1>1, <1>2 DEF Init, PromotionReport, FlowReport
<1> QED
  BY <1>3, <1>4, <1>5 DEF ReportInv

\* PromotionReportedOnce: a promotion enters the balance report at most once,
\* unless two flows are concerned with it at the same time or the database
\* fails.
THEOREM ReportedOnce == Spec => []PromotionReportedOnce
<1>1. ReportInv => PromotionReportedOnce
  BY DEF ReportInv, PromotionReport, PromotionReportedOnce
<1>2. CoreInv /\ ReportInv /\ [Next]_vars => (CoreInv /\ ReportInv)'
  BY NextCore, NextReport
<1> QED
  BY <1>1, <1>2, InitCore, InitReport, PTL DEF Spec


=============================================================================
