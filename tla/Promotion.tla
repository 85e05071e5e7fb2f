----------------------------- MODULE Promotion -----------------------------
(***************************************************************************)
(* How a promotion becomes tokens (bat-native-ledger,                      *)
(* promotion/promotion.cc with credentials/credentials_promotion.cc and    *)
(* credentials_common.cc).  The user attests a promotion; credentials are  *)
(* blinded, claimed at the server, signed by it, unblinded and saved in    *)
(* the table that UnblindedContribution spends from.                       *)
(*                                                                         *)
(* Each chain of callbacks is a flow, op[f]: the reply it waits for, named *)
(* after the handler it will invoke, with the values bound into the        *)
(* callback.  Several flows may work on one promotion.  As in              *)
(* UnblindedContribution a transaction takes effect in the step that       *)
(* issues it and its reply, with what it read then, comes later.           *)
(*                                                                         *)
(* The creds of a batch are random, so a batch blinded again is another    *)
(* one: they are numbered.  The claim id the server gives out stands for   *)
(* the creds it was given for and has their number.                        *)
(***************************************************************************)
EXTENDS Naturals, FiniteSets

CONSTANTS
  Flows,           \* bound: chains of callbacks at the same time
  NumPromotions,   \* promotion ids 1..NumPromotions, in the map's order
  Legacy,          \* promotions the server may list as legacy_claimed
  Expirable,       \* promotions not of type ADS, with expires_at > 0
  MaxBlinds,       \* bound: batches saved for a promotion
  MaxAttests,      \* bound: solutions the user submits
  MaxFetches,      \* bound: fetches of the promotion list
  MaxCrashes,      \* bound: process crashes
  MaxDbErrors,     \* bound: database transactions that fail
  MaxHttpErrors    \* bound: requests that fail or whose answer is lost

Promotions == 1..NumPromotions

ASSUME ConstantsAssumption ==
  /\ NumPromotions \in Nat
  /\ Legacy \subseteq Promotions /\ Expirable \subseteq Promotions
  /\ MaxBlinds \in Nat /\ MaxAttests \in Nat /\ MaxFetches \in Nat
  /\ MaxCrashes \in Nat /\ MaxDbErrors \in Nat /\ MaxHttpErrors \in Nat

VARIABLES
  promo,       \* table promotion: status and claim_id
  batch,       \* table creds_batch, one row per promotion (creds_batch_unique)
  tokens,      \* table unblinded_tokens: creds of each promotion saved there
  op,          \* the flows
  timer,       \* retry_timer_ is running
  claimed,     \* server: the creds it accepted for each promotion
  expired,     \* promotions with expires_at in the past
  reports,     \* history: items saved in the balance report, per promotion
  overlapped,  \* history: promotions whose batch two flows worked on at once
  contended,   \* history: promotions two flows were concerned with at once
  blinds, attests, fetches, crashes, dbErrors, httpErrors

tables == <<promo, batch, tokens>>
history == <<blinds, attests, fetches, crashes, httpErrors, reports>>
world == <<claimed, expired>>
vars == <<tables, op, timer, world, history, overlapped, contended, dbErrors>>

Creds == 0..MaxBlinds
NoCreds == 0

Statuses == {"NONE", "ACTIVE", "ATTESTED", "FINISHED", "OVER"}
BatchStatuses == {"NONE", "BLINDED", "CLAIMED", "SIGNED", "FINISHED"}
Results == {"OK", "LEDGER_ERROR", "NOT_FOUND", "RETRY"}

(* Status NONE: no such row, or the query failed; the code sees no difference. *)
Promo == [status : Statuses, claim : Creds]
NoPromo == [status |-> "NONE", claim |-> NoCreds]
Batch == [status : BatchStatuses, creds : Creds, signed : Creds]
NoBatch == [status |-> "NONE", creds |-> NoCreds, signed |-> NoCreds]
NoneSeen == [p \in Promotions |-> "NONE"]

CredentialWaits ==
  {"OnStart", "BlindedCredsSaved", "Claim", "PostCreds", "OnClaim",
   "ClaimedSaved", "ClaimStatusSaved", "FetchSignedCreds", "OnFetchSignedCreds",
   "RetryPreviousStepSaved", "SignedCredsSaved", "Unblind", "VerifyPublicKey",
   "OnSaveUnblindedCreds", "Completed", "CredentialsProcessed"}
Waits == CredentialWaits \cup
  {"idle", "OnAttestPromotion", "OnAttestedPromotion", "OnCompletedAttestation",
   "AttestedSaved", "LegacyClaimedSaved", "StatusUpdated", "OnComplete",
   "OnFetch", "OnGetAllPromotions", "OnGetAllPromotionsFromDatabase", "Retry"}

(* attest: the result goes to Complete, the others' callbacks ignore it. *)
Op == [at : Waits, id : Promotions \cup {0}, attest : BOOLEAN, ok : BOOLEAN,
       res : Results, promo : Promo, batch : Batch,
       seen : [Promotions -> Statuses], listed : SUBSET Promotions]
Idle == [at |-> "idle", id |-> 0, attest |-> FALSE, ok |-> TRUE,
         res |-> "OK", promo |-> NoPromo, batch |-> NoBatch,
         seen |-> NoneSeen, listed |-> {}]

IdleFlows == {f \in Flows : op[f].at = "idle"}
At(f, at) == op[f].at = at
To(f, at) == [Idle EXCEPT !.at = at, !.id = op[f].id, !.attest = op[f].attest]
Continue(f, next) == op' = [op EXCEPT ![f] = next]

TypeOK ==
  /\ promo \in [Promotions -> Promo]
  /\ batch \in [Promotions -> Batch]
  /\ tokens \in [Promotions -> SUBSET Creds]
  /\ op \in [Flows -> Op]
  /\ timer \in BOOLEAN
  /\ claimed \in [Promotions -> Creds]
  /\ expired \subseteq Promotions
  /\ reports \in [Promotions -> Nat]
  /\ overlapped \subseteq contended /\ contended \subseteq Promotions
  /\ blinds \in [Promotions -> Creds]
  /\ attests \in 0..MaxAttests /\ fetches \in 0..MaxFetches
  /\ crashes \in 0..MaxCrashes /\ dbErrors \in 0..MaxDbErrors
  /\ httpErrors \in 0..MaxHttpErrors

Init ==
  /\ promo = [p \in Promotions |-> NoPromo]
  /\ batch = [p \in Promotions |-> NoBatch]
  /\ tokens = [p \in Promotions |-> {}]
  /\ op = [f \in Flows |-> Idle]
  /\ timer = FALSE
  /\ claimed = [p \in Promotions |-> NoCreds]
  /\ expired = {} /\ overlapped = {} /\ contended = {}
  /\ reports = [p \in Promotions |-> 0]
  /\ blinds = [p \in Promotions |-> 0]
  /\ attests = 0 /\ fetches = 0 /\ crashes = 0 /\ dbErrors = 0 /\ httpErrors = 0

-----------------------------------------------------------------------------
(* Transactions of a flow; next is what it waits for.                      *)

Failures(n) == dbErrors + n <= MaxDbErrors /\ dbErrors' = dbErrors + n
Transaction(ok) == Failures(IF ok THEN 0 ELSE 1)

GetPromotion(f, next) ==
  \E ok \in BOOLEAN :
    /\ Transaction(ok)
    /\ Continue(f, [next EXCEPT !.promo = IF ok THEN promo[op[f].id] ELSE NoPromo])
    /\ UNCHANGED tables

GetCredsBatchByTrigger(f, next) ==
  \E ok \in BOOLEAN :
    /\ Transaction(ok)
    /\ Continue(f, [next EXCEPT !.batch = IF ok THEN batch[op[f].id] ELSE NoBatch])
    /\ UNCHANGED tables

GetAllPromotions(f, next) ==
  \E ok \in BOOLEAN :
    /\ Transaction(ok)
    /\ Continue(f, [next EXCEPT !.seen = [p \in Promotions |->
                                  IF ok THEN promo[p].status ELSE "NONE"]])
    /\ UNCHANGED tables

SetPromo(f, next, value) ==
  \E ok \in BOOLEAN :
    /\ Transaction(ok)
    /\ Continue(f, [next EXCEPT !.ok = ok])
    /\ promo' = IF ok THEN [promo EXCEPT ![op[f].id] = value] ELSE promo
    /\ UNCHANGED <<batch, tokens>>

SetBatch(f, next, value) ==
  \E ok \in BOOLEAN :
    /\ Transaction(ok)
    /\ Continue(f, [next EXCEPT !.ok = ok])
    /\ batch' = IF ok THEN [batch EXCEPT ![op[f].id] = value] ELSE batch
    /\ UNCHANGED <<promo, tokens>>

(* INSERT OR REPLACE without the column claim_id: the replaced row loses it. *)
SavedAs(status) == [status |-> status, claim |-> NoCreds]
UpdatePromotionStatus(f, status, at) ==
  SetPromo(f, To(f, at), [promo[op[f].id] EXCEPT !.status = status])
UpdateCredsBatchStatus(f, status, at) ==
  SetBatch(f, To(f, at), [batch[op[f].id] EXCEPT !.status = status])

Quit(f) == Continue(f, Idle) /\ UNCHANGED <<tables, dbErrors>>

(* Credentials::Start; the batch read decides where it resumes. *)
GetCredentials(f) == GetCredsBatchByTrigger(f, To(f, "OnStart"))

Callback(f, res) ==
  IF op[f].attest
  THEN GetPromotion(f, [To(f, "OnComplete") EXCEPT !.res = res])
  ELSE Quit(f)

\* Mutant of CredentialsProcessed: a retry is answered but not scheduled.
CredentialsProcessedOnce(f, res) ==
  /\ \/ res = "RETRY" /\ Callback(f, "OK")
     \/ res = "NOT_FOUND" /\ UpdatePromotionStatus(f, "OVER", "StatusUpdated")
     \/ res = "OK" /\ UpdatePromotionStatus(f, "FINISHED", "StatusUpdated")
     \/ res = "LEDGER_ERROR" /\ Callback(f, res)
  /\ UNCHANGED timer

CredentialsProcessed(f, res) ==
  /\ \/ res = "RETRY" /\ Callback(f, "OK")
     \/ res = "NOT_FOUND" /\ UpdatePromotionStatus(f, "OVER", "StatusUpdated")
     \/ res = "OK" /\ UpdatePromotionStatus(f, "FINISHED", "StatusUpdated")
     \/ res = "LEDGER_ERROR" /\ Callback(f, res)
  /\ timer' = (timer \/ res = "RETRY")

-----------------------------------------------------------------------------
(* CredentialsPromotion: blind, claim, fetch the signature, unblind.       *)

Blind(f) ==
  LET p == op[f].id
  IN /\ blinds[p] < MaxBlinds
     /\ blinds' = [blinds EXCEPT ![p] = @ + 1]
     /\ SetBatch(f, To(f, "BlindedCredsSaved"),
                 [status |-> "BLINDED", creds |-> blinds[p] + 1, signed |-> NoCreds])

\* Mutant of OnStart: the batch is blinded again at each start.
OnStartBlindsAgain(f) ==
  /\ At(f, "OnStart")
  /\ Blind(f)
  /\ UNCHANGED <<timer, world, attests, fetches, crashes, httpErrors, reports>>

OnStart(f) ==
  /\ At(f, "OnStart")
  /\ LET status == op[f].batch.status
     IN \/ status = "NONE" /\ Blind(f) /\ UNCHANGED timer
        \/ /\ \/ /\ status = "BLINDED"
                 /\ GetCredsBatchByTrigger(f, To(f, "Claim")) /\ UNCHANGED timer
              \/ /\ status = "CLAIMED"
                 /\ GetPromotion(f, To(f, "FetchSignedCreds")) /\ UNCHANGED timer
              \/ /\ status = "SIGNED"
                 /\ GetCredsBatchByTrigger(f, To(f, "Unblind")) /\ UNCHANGED timer
              \/ status = "FINISHED" /\ CredentialsProcessed(f, "OK")
           /\ UNCHANGED blinds
  /\ UNCHANGED <<world, attests, fetches, crashes, httpErrors, reports>>

(* BlindedCredsSaved and OnBlind *)
OnBlind(f) ==
  /\ At(f, "BlindedCredsSaved")
  /\ \/ ~op[f].ok /\ CredentialsProcessed(f, "RETRY")
     \/ op[f].ok /\ GetCredsBatchByTrigger(f, To(f, "Claim")) /\ UNCHANGED timer
  /\ UNCHANGED <<world, history>>

Claim(f) ==
  /\ At(f, "Claim")
  /\ \/ op[f].batch = NoBatch /\ CredentialsProcessed(f, "LEDGER_ERROR")
     \/ /\ op[f].batch # NoBatch
        /\ Continue(f, [To(f, "PostCreds") EXCEPT !.batch = op[f].batch])
        /\ UNCHANGED <<tables, dbErrors, timer>>
  /\ UNCHANGED <<world, history>>

HttpError == httpErrors < MaxHttpErrors /\ httpErrors' = httpErrors + 1

(* The server: it takes one set of creds per promotion, gives the same     *)
(* claim id when it is sent again, refuses another set (409) and every set *)
(* once the promotion is gone (410).                                       *)
PostCreds(f) ==
  LET p == op[f].id
      creds == op[f].batch.creds
      Answer(res, claim) ==
        Continue(f, [To(f, "OnClaim") EXCEPT !.res = res, !.promo.claim = claim])
  IN /\ At(f, "PostCreds")
     /\ \/ /\ claimed[p] \in {NoCreds, creds}
           /\ claimed' = [claimed EXCEPT ![p] = creds]
           /\ \/ Answer("OK", creds) /\ UNCHANGED httpErrors
              \/ Answer("LEDGER_ERROR", NoCreds) /\ HttpError
        \/ /\ claimed[p] \notin {NoCreds, creds}
           /\ Answer("LEDGER_ERROR", NoCreds)
           /\ UNCHANGED <<claimed, httpErrors>>
        \/ /\ claimed[p] = NoCreds
           /\ Answer("NOT_FOUND", NoCreds)
           /\ UNCHANGED <<claimed, httpErrors>>
        \/ /\ Answer("LEDGER_ERROR", NoCreds)
           /\ HttpError
           /\ UNCHANGED claimed
     /\ UNCHANGED <<tables, timer, expired, blinds, attests, fetches, crashes,
                    reports, dbErrors>>

OnClaim(f) ==
  /\ At(f, "OnClaim")
  /\ \/ op[f].res # "OK" /\ CredentialsProcessed(f, op[f].res)
     \/ /\ op[f].res = "OK"
        /\ SetPromo(f, To(f, "ClaimedSaved"),
                    [promo[op[f].id] EXCEPT !.claim = op[f].promo.claim])
        /\ UNCHANGED timer
  /\ UNCHANGED <<world, history>>

ClaimedSaved(f) ==
  /\ At(f, "ClaimedSaved")
  /\ \/ ~op[f].ok /\ CredentialsProcessed(f, "LEDGER_ERROR")
     \/ op[f].ok /\ UpdateCredsBatchStatus(f, "CLAIMED", "ClaimStatusSaved") /\ UNCHANGED timer
  /\ UNCHANGED <<world, history>>

ClaimStatusSaved(f) ==
  /\ At(f, "ClaimStatusSaved")
  /\ \/ ~op[f].ok /\ CredentialsProcessed(f, "LEDGER_ERROR")
     \/ op[f].ok /\ GetPromotion(f, To(f, "FetchSignedCreds")) /\ UNCHANGED timer
  /\ UNCHANGED <<world, history>>

FetchSignedCreds(f) ==
  /\ At(f, "FetchSignedCreds")
  /\ \/ op[f].promo.status = "NONE" /\ CredentialsProcessed(f, "LEDGER_ERROR")
     \/ /\ op[f].promo.status # "NONE"
        /\ UNCHANGED timer
        /\ \/ /\ op[f].promo.claim = NoCreds
              /\ UpdateCredsBatchStatus(f, "BLINDED", "RetryPreviousStepSaved")
           \/ /\ op[f].promo.claim # NoCreds
              /\ Continue(f, [To(f, "OnFetchSignedCreds") EXCEPT !.promo = op[f].promo])
              /\ UNCHANGED <<tables, dbErrors>>
  /\ UNCHANGED <<world, history>>

RetryPreviousStepSaved(f) ==
  /\ At(f, "RetryPreviousStepSaved")
  /\ CredentialsProcessed(f, IF op[f].ok THEN "RETRY" ELSE "LEDGER_ERROR")
  /\ UNCHANGED <<world, history>>

(* The server signs the creds of the claim.                                *)
SignedCreds(f) ==
  /\ At(f, "OnFetchSignedCreds")
  /\ SetBatch(f, To(f, "SignedCredsSaved"),
              [batch[op[f].id] EXCEPT !.status = "SIGNED", !.signed = op[f].promo.claim])
  /\ UNCHANGED <<timer, world, history>>

(* The server answers that the creds are not signed yet (202), or fails.   *)
OnFetchSignedCreds(f) ==
  \/ SignedCreds(f)
  \/ /\ At(f, "OnFetchSignedCreds")
     /\ \/ CredentialsProcessed(f, "RETRY") /\ UNCHANGED httpErrors
        \/ CredentialsProcessed(f, "LEDGER_ERROR") /\ HttpError
     /\ UNCHANGED <<world, blinds, attests, fetches, crashes, reports>>

SignedCredsSaved(f) ==
  /\ At(f, "SignedCredsSaved")
  /\ \/ ~op[f].ok /\ CredentialsProcessed(f, "LEDGER_ERROR")
     \/ op[f].ok /\ GetCredsBatchByTrigger(f, To(f, "Unblind")) /\ UNCHANGED timer
  /\ UNCHANGED <<world, history>>

Unblind(f) ==
  /\ At(f, "Unblind")
  /\ \/ op[f].batch = NoBatch /\ CredentialsProcessed(f, "LEDGER_ERROR")
     \/ /\ op[f].batch # NoBatch
        /\ GetPromotion(f, [To(f, "VerifyPublicKey") EXCEPT !.batch = op[f].batch])
        /\ UNCHANGED timer
  /\ UNCHANGED <<world, history>>

\* Mutant of UnBlindCreds: the proof is not verified.
UnBlindAnyCreds(b) == b.signed # NoCreds

(* UnBlindCreds checks the proof of the signature against the creds; the   *)
(* tokens are inserted OR IGNOREd.  (That the columns written here or the  *)
(* public keys do not parse, or do not match, is left out.)                *)
UnBlindCreds(b) == b.signed = b.creds

VerifyPublicKey(f) ==
  LET b == op[f].batch
  IN /\ At(f, "VerifyPublicKey")
     /\ \/ /\ op[f].promo.status = "NONE" \/ ~UnBlindCreds(b)
           /\ CredentialsProcessed(f, "LEDGER_ERROR")
        \/ /\ op[f].promo.status # "NONE" /\ UnBlindCreds(b)
           /\ \E ok \in BOOLEAN :
                /\ Transaction(ok)
                /\ Continue(f, [To(f, "OnSaveUnblindedCreds") EXCEPT !.ok = ok])
                /\ tokens' = IF ok THEN [tokens EXCEPT ![op[f].id] = @ \cup {b.creds}]
                                   ELSE tokens
           /\ UNCHANGED <<promo, batch, timer>>
     /\ UNCHANGED <<world, history>>

\* Mutant of OnSaveUnblindedCreds: the batch is finished whatever the result.
OnSaveUnblindedCredsAnyway(f) ==
  /\ At(f, "OnSaveUnblindedCreds")
  /\ UpdateCredsBatchStatus(f, "FINISHED", "Completed") /\ UNCHANGED timer
  /\ UNCHANGED <<world, history>>

OnSaveUnblindedCreds(f) ==
  /\ At(f, "OnSaveUnblindedCreds")
  /\ \/ ~op[f].ok /\ CredentialsProcessed(f, "RETRY")
     \/ op[f].ok /\ UpdateCredsBatchStatus(f, "FINISHED", "Completed") /\ UNCHANGED timer
  /\ UNCHANGED <<world, history>>

(* PromotionCredentialCompleted *)
Completed(f) ==
  /\ At(f, "Completed")
  /\ \/ ~op[f].ok /\ CredentialsProcessed(f, "LEDGER_ERROR")
     \/ /\ op[f].ok
        /\ UpdatePromotionStatus(f, "FINISHED", "CredentialsProcessed")
        /\ UNCHANGED timer
  /\ UNCHANGED <<world, history>>

OnCredentialsProcessed(f) ==
  /\ At(f, "CredentialsProcessed")
  /\ CredentialsProcessed(f, IF op[f].ok THEN "OK" ELSE "LEDGER_ERROR")
  /\ UNCHANGED <<world, history>>

StatusUpdated(f) ==
  /\ At(f, "StatusUpdated")
  /\ Callback(f, IF op[f].ok THEN "OK" ELSE "LEDGER_ERROR")
  /\ UNCHANGED <<timer, world, history>>

-----------------------------------------------------------------------------
(* Promotion: attestation by the user.                                     *)

(* Attest: any promotion the user was shown, which may have moved since. *)
Attest(f, p) ==
  /\ At(f, "idle") /\ promo[p].status # "NONE"
  /\ attests < MaxAttests /\ attests' = attests + 1
  /\ \E ok \in BOOLEAN :
       /\ Transaction(ok)
       /\ Continue(f, [Idle EXCEPT !.at = "OnAttestPromotion", !.id = p, !.attest = TRUE,
                                   !.promo = IF ok THEN promo[p] ELSE NoPromo])
  /\ UNCHANGED <<tables, timer, world, blinds, fetches, crashes, httpErrors, reports>>

\* Mutant of OnAttestPromotion: a promotion in progress is attested again.
OnAttestPromotionAgain(f) ==
  /\ At(f, "OnAttestPromotion")
  /\ Continue(f, IF op[f].promo.status # "NONE" THEN To(f, "OnAttestedPromotion") ELSE Idle)
  /\ UNCHANGED <<tables, dbErrors, timer, world, history>>

OnAttestPromotion(f) ==
  /\ At(f, "OnAttestPromotion")
  /\ Continue(f, IF op[f].promo.status = "ACTIVE" THEN To(f, "OnAttestedPromotion") ELSE Idle)
  /\ UNCHANGED <<tables, dbErrors, timer, world, history>>

(* The server confirms the solution, or does not. *)
OnAttestedPromotion(f) ==
  /\ At(f, "OnAttestedPromotion")
  /\ \/ GetPromotion(f, To(f, "OnCompletedAttestation")) /\ UNCHANGED httpErrors
     \/ Quit(f) /\ HttpError
  /\ UNCHANGED <<timer, world, blinds, attests, fetches, crashes, reports>>

OnCompletedAttestation(f) ==
  /\ At(f, "OnCompletedAttestation")
  /\ \/ op[f].promo.status \in {"NONE", "FINISHED"} /\ Quit(f)
     \/ /\ op[f].promo.status \notin {"NONE", "FINISHED"}
        /\ SetPromo(f, To(f, "AttestedSaved"), SavedAs("ATTESTED"))
  /\ UNCHANGED <<timer, world, history>>

(* AttestedSaved and LegacyClaimedSaved *)
AttestedSaved(f) ==
  /\ At(f, "AttestedSaved") \/ At(f, "LegacyClaimedSaved")
  /\ IF op[f].ok THEN GetCredentials(f) ELSE Quit(f)
  /\ UNCHANGED <<timer, world, history>>

OnComplete(f) ==
  /\ At(f, "OnComplete")
  /\ \/ /\ op[f].promo.status # "NONE" /\ op[f].res = "OK"
        /\ \E ok \in BOOLEAN :
             /\ Transaction(ok)
             /\ reports' = [reports EXCEPT ![op[f].id] = IF ok THEN @ + 1 ELSE @]
     \/ /\ op[f].promo.status = "NONE" \/ op[f].res # "OK"
        /\ UNCHANGED <<reports, dbErrors>>
  /\ Continue(f, Idle)
  /\ UNCHANGED <<tables, timer, world, blinds, attests, fetches, crashes, httpErrors>>

-----------------------------------------------------------------------------
(* Promotion: the list of the server, expiry, retries.                     *)

HandleExpiredPromotions(seen) ==
  {p \in expired : seen[p] \notin {"NONE", "OVER"}}

(* Flow f goes on as next[p] for every p in P: the callbacks of one handler *)
(* that runs through a list.                                                *)
Spawn(f, P, next) ==
  \E slot \in [P -> IdleFlows \cup {f}] :
    /\ \A p, q \in P : p # q => slot[p] # slot[q]
    /\ op' = [g \in Flows |->
               IF \E p \in P : slot[p] = g
               THEN next[CHOOSE p \in P : slot[p] = g]
               ELSE IF g = f THEN Idle ELSE op[g]]

Over(P, table) == [p \in Promotions |->
                    IF p \in P THEN [table[p] EXCEPT !.status = "OVER"] ELSE table[p]]

(* Retry of the attested promotions; the ones just found expired included. *)
Retry(f) ==
  LET over == HandleExpiredPromotions(op[f].seen)
      attested == {p \in Promotions : op[f].seen[p] = "ATTESTED"}
  IN /\ At(f, "Retry")
     /\ \E lost \in SUBSET over, failed \in SUBSET attested :
          /\ Failures(Cardinality(lost) + Cardinality(failed))
          /\ promo' = Over(over \ lost, promo)
          /\ Spawn(f, attested, [p \in attested |->
               [Idle EXCEPT !.at = "OnStart", !.id = p,
                            !.batch = IF p \in failed THEN NoBatch ELSE batch[p]]])
     /\ UNCHANGED <<batch, tokens, timer, world, history>>

OnRetryTimerElapsed(f) ==
  /\ At(f, "idle") /\ timer
  /\ timer' = FALSE
  /\ GetAllPromotions(f, [Idle EXCEPT !.at = "Retry"])
  /\ UNCHANGED <<world, history>>

(* Fetch: from the database if the last one was less than ten minutes ago. *)
Fetch(f) ==
  /\ At(f, "idle")
  /\ fetches < MaxFetches /\ fetches' = fetches + 1
  /\ \/ GetAllPromotions(f, [Idle EXCEPT !.at = "OnGetAllPromotionsFromDatabase"])
     \/ Continue(f, [Idle EXCEPT !.at = "OnFetch"]) /\ UNCHANGED <<tables, dbErrors>>
  /\ UNCHANGED <<timer, world, blinds, attests, crashes, httpErrors, reports>>

OnGetAllPromotionsFromDatabase(f) ==
  LET over == HandleExpiredPromotions(op[f].seen)
  IN /\ At(f, "OnGetAllPromotionsFromDatabase")
     /\ \E lost \in SUBSET over :
          /\ Failures(Cardinality(lost))
          /\ promo' = Over(over \ lost, promo)
     /\ Continue(f, Idle)
     /\ UNCHANGED <<batch, tokens, timer, world, history>>

(* The server lists any promotions, or fails. *)
OnFetch(f) ==
  /\ At(f, "OnFetch")
  /\ \/ \E listed \in SUBSET Promotions :
          GetAllPromotions(f, [Idle EXCEPT !.at = "OnGetAllPromotions", !.listed = listed])
     \/ Quit(f)
  /\ UNCHANGED <<timer, world, history>>

NewOrActive(seen, p) == seen[p] \in {"NONE", "ACTIVE"}

(* What the loop over the promotions that are not listed marks as over: it *)
(* breaks at the first one that is not active.                             *)
NotListed(f) ==
  LET rest == {p \in Promotions : op[f].seen[p] # "NONE" /\ p \notin op[f].listed}
  IN {p \in rest : \A q \in rest : q <= p => op[f].seen[q] = "ACTIVE"}

(* OnGetAllPromotions: what is listed and new or active is saved again, as *)
(* active or, if legacy_claimed, as attested.                              *)
OnGetAllPromotions(f) ==
  LET fresh == {p \in op[f].listed : NewOrActive(op[f].seen, p)}
      expiring == HandleExpiredPromotions(op[f].seen)
      gone == NotListed(f)
  IN /\ At(f, "OnGetAllPromotions")
     /\ \E notExpired \in SUBSET expiring, notSaved \in SUBSET fresh, notGone \in SUBSET gone,
           legacy \in SUBSET (fresh \cap Legacy) :
          /\ Failures(Cardinality(notExpired) + Cardinality(notSaved) + Cardinality(notGone))
          /\ LET saved == [p \in Promotions |->
                    IF p \in fresh \ notSaved
                    THEN SavedAs(IF p \in legacy THEN "ATTESTED" ELSE "ACTIVE")
                    ELSE Over(expiring \ notExpired, promo)[p]]
             IN promo' = Over(gone \ notGone, saved)
          /\ Spawn(f, legacy, [p \in legacy |->
               [Idle EXCEPT !.at = "LegacyClaimedSaved", !.id = p, !.ok = p \notin notSaved]])
     /\ UNCHANGED <<batch, tokens, timer, world, history>>

Expire(p) ==
  /\ p \notin expired
  /\ expired' = expired \cup {p}
  /\ UNCHANGED <<tables, op, timer, claimed, history, dbErrors>>

(* The process dies; Initialize retries the promotions of the database. *)
Restart(f) ==
  /\ crashes < MaxCrashes /\ crashes' = crashes + 1
  /\ \E ok \in BOOLEAN :
       /\ Transaction(ok)
       /\ op' = [g \in Flows |-> IF g # f THEN Idle ELSE
                  [Idle EXCEPT !.at = "Retry",
                               !.seen = [p \in Promotions |->
                                          IF ok THEN promo[p].status ELSE "NONE"]]]
  /\ timer' = FALSE
  /\ UNCHANGED <<tables, world, blinds, attests, fetches, httpErrors, reports>>

-----------------------------------------------------------------------------
Handler(f) ==
  \/ OnStart(f) \/ OnBlind(f) \/ Claim(f) \/ PostCreds(f) \/ OnClaim(f)
  \/ ClaimedSaved(f) \/ ClaimStatusSaved(f) \/ FetchSignedCreds(f)
  \/ RetryPreviousStepSaved(f) \/ OnFetchSignedCreds(f) \/ SignedCredsSaved(f)
  \/ Unblind(f) \/ VerifyPublicKey(f) \/ OnSaveUnblindedCreds(f) \/ Completed(f)
  \/ OnCredentialsProcessed(f) \/ StatusUpdated(f)
  \/ OnAttestPromotion(f) \/ OnAttestedPromotion(f) \/ OnCompletedAttestation(f)
  \/ AttestedSaved(f) \/ OnComplete(f)
  \/ Retry(f) \/ OnFetch(f) \/ OnGetAllPromotions(f)
  \/ OnGetAllPromotionsFromDatabase(f)

Step ==
  \/ \E f \in Flows :
       \/ Handler(f)
       \/ OnRetryTimerElapsed(f) \/ Fetch(f) \/ Restart(f)
       \/ \E p \in Promotions : Attest(f, p)
  \/ \E p \in Expirable : Expire(p)

(* Two flows of one promotion between OnStart and CredentialsProcessed. *)
Working(o, f, p) == o[f].at \in CredentialWaits /\ o[f].id = p

(* A flow is concerned with the promotion it works on, and with those whose *)
(* status it has read and will act upon.                                    *)
Concerned(o, f, p) ==
  \/ o[f].id = p
  \/ o[f].at = "Retry" /\ o[f].seen[p] = "ATTESTED"
  \/ o[f].at = "OnGetAllPromotions" /\ o[f].seen[p] \in {"NONE", "ACTIVE"}

AtOnce(Doing(_, _, _)) ==
  {p \in Promotions : \E f, g \in Flows : f # g /\ Doing(op', f, p) /\ Doing(op', g, p)}

Observe ==
  /\ overlapped' = overlapped \cup AtOnce(Working)
  /\ contended' = contended \cup AtOnce(Concerned)

Next == Step /\ Observe

Spec == Init /\ [][Next]_vars

(* Replies arrive and the timer elapses; a server that is asked again and   *)
(* again signs in the end.  The user owes nothing.                          *)
Fairness ==
  /\ \A f \in Flows : WF_vars(Handler(f) /\ Observe)
  /\ WF_vars((\E f \in Flows : OnRetryTimerElapsed(f)) /\ Observe)
  /\ SF_vars((\E f \in Flows : SignedCreds(f)) /\ Observe)

FairSpec == Spec /\ Fairness

-----------------------------------------------------------------------------
(* Properties.                                                             *)

(* A promotion, or its batch, is finished only when its tokens are in the  *)
(* table, whatever fails, crashes or overlaps: nothing would ever start    *)
(* the credentials of a finished promotion again.                          *)
FinishedHasTokens ==
  \A p \in Promotions :
    promo[p].status = "FINISHED" \/ batch[p].status = "FINISHED" => tokens[p] # {}

(* The tables and flows are well formed, and a finished promotion is paid. *)
PromotionConsistent == TypeOK /\ FinishedHasTokens

(* Only creds the server accepted become tokens: at most one set for each  *)
(* promotion, though flows that overlap replace the batch under each other.*)
OneSetOfTokens == \A p \in Promotions : tokens[p] \subseteq {claimed[p]} \ {NoCreds}

(* The creds the server accepted stay in the batch: no others can be made  *)
(* of the promotion.  True of a promotion whose flows do not overlap, if   *)
(* the database does not fail: a batch that cannot be read is blinded anew.*)
ClaimedCredsKept ==
  dbErrors = 0 =>
    \A p \in Promotions \ overlapped :
      claimed[p] # NoCreds => batch[p].creds = claimed[p]

(* A promotion enters the balance report once, though the report is written *)
(* when the credentials are first waited for and not when they arrive.      *)
PromotionReportedOnce ==
  dbErrors = 0 => \A p \in Promotions \ contended : reports[p] <= 1

(* Creds the server accepted become tokens, through crashes and retries,    *)
(* unless the promotion expires first (HandleExpiredPromotions takes it out *)
(* of the retries), a second flow interferes, or a failure ends the flow    *)
(* without a timer.                                                        *)
ClaimedBecomesTokens ==
  \A p \in Promotions :
    claimed[p] # NoCreds ~>
      \/ tokens[p] # {}
      \/ p \in expired \cup contended
      \/ dbErrors + httpErrors > 0

(* promotion.cc:223: "mark as over promotions that are in db with status   *)
(* active, but are not available on the server anymore".                   *)
GoneIsOver ==
  [][\A f \in Flows : OnGetAllPromotions(f) =>
       \A p \in Promotions \ op[f].listed :
         op[f].seen[p] = "ACTIVE" => promo'[p].status = "OVER"]_vars

=============================================================================
