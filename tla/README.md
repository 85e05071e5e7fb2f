# brave-core: rewards, ads, private analytics and Tor, modelled and proved

This directory holds TLA+ modules for the parts of brave-core that have a logic
of their own over time: the library behind Brave Rewards,
`src/vendor/bat-native-ledger`, where a user's tokens become contributions to
publishers, and three services of the browser itself under `src/components`, the
private analytics (P3A), the ads service and the Tor launcher with its control
connection.  Paths below are relative to
`src/vendor/bat-native-ledger/src/bat/ledger/internal/` (written `L/`) or to
`src/components/` (written `C/`), unless they start with `src/`.

Contents: 1 inventory, 2 the modules and the code, 3 the runs, 4 the proofs,
5 what was found, 6 what is not modelled, 7 plan.

## 1. Inventory

brave-core is Chromium plus patches, resources and a number of services.  Most
of it is browser plumbing.  Two libraries carry logic of their own over time:
`bat-native-ledger` (about 60 database, promotion, contribution and wallet
classes driven by callbacks) and `bat-native-ads` (ad serving, confirmations).
Under `C/` a handful of services do: they keep a process, a connection or a
schedule alive through crashes and changes of a setting.

### The ledger

| part | state it keeps | operations | talks to |
| --- | --- | --- | --- |
| Contribution driver, `L/contribution/contribution.cc` | `queue_in_progress_`, `queue_timer_`, `retry_timers_` | queue flow, `Result`, `OnResult`, `SetRetryTimer`, `SetRetryCounter`, `Retry`, `ContributionCompleted` | every other part of this table |
| Makers of entries, `contribution_tip.cc`, `contribution_monthly.cc`, `contribution_ac.cc`, `unverified.cc` | a timer (unverified) | save an entry, then poke the driver or start its timer | queue tables, driver |
| Contributions paid with tokens, `contribution_unblinded.cc` | none in memory: what a callback binds | `Start`, `PrepareTokens`, `PreparePublishers`, `ProcessTokens`, `TokenProcessed`, `Retry` | token table, contribution tables, credentials |
| Contributions paid by order or by wallet, `contribution_sku.cc`, `contribution_external_wallet.cc`, `L/sku/`, `L/uphold/` | orders and transactions in the database | order, external transaction, then the token steps; one transfer | HTTP endpoints, credentials |
| Credentials, `L/credentials/` | `creds_batch` rows | blind, claim, fetch, unblind; redeem | HTTP endpoints, token table |
| Promotions, `L/promotion/` | `promotion` rows, timers | fetch, claim, attestation, transfer | credentials, token table |
| Publisher lists, `L/publisher/` | in-memory fetch cache, timers | shared fetch, prefix list refresh | HTTP, database |
| Database, `L/database/` and `src/vendor/bat-native-ledger/src/bat/ledger/internal/ledger_database_impl.cc` | the tables | one transaction per call, run in order on a sequence of its own (`src/components/brave_rewards/browser/rewards_service_impl.cc`) | answers by callback |
| Wallet, state, reports, recovery, endpoints | preferences | sequential | HTTP, preferences |

Everything in the ledger runs on one sequence, so there are no data races.  Its
concurrency is that of callbacks: each database call, HTTP request and timer is
a continuation holding values that were read earlier, and between two of them
any other continuation may run, the process may die, or the user may change a
preference.  What is hard, and what the properties are for:

* state read in one transaction and used in a later one: the spendable list and
  the reservation, the copy of the contribution that is saved with the drawn
  publishers, `queue_in_progress_`;
* several transactions that belong together: votes accepted / tokens spent /
  amount recorded; report item / final step / release of the tokens; queue row /
  its publishers; contribution saved / queue row marked;
* answers that are lost after the server acted, and retries with counters that
  some steps are exempt from;
* restarts that retry whatever the tables say is open.

### The browser's services

| part | state it keeps | operations | talks to |
| --- | --- | --- | --- |
| P3A service, `C/p3a/brave_p3a_service.cc` | `histogram_values_`, `initialized_`, the rotation timer | sample, scheduled upload, rotation, start | log store, scheduler, uploader, preferences |
| P3A log store, `C/p3a/brave_p3a_log_store.cc` | `log_`, `unsent_entries_`, `staged_entry_key_`, and their mirror in the preferences | update, remove, stage, discard, reset, load | preferences |
| Ads service, `C/brave_ads/browser/ads_service_impl.cc` | two mojo remotes, `is_initialized_`, the click to retry | start, stop, reset, change of the wallet, restart after a crash, click | the service process (`C/services/bat_ads`), rewards, notifications |
| Tor control, `C/tor/tor_control.cc` | the watcher and the poll, the socket, the command queue, the subscriptions | start, stop, poll, connect, commands, replies, error | tor, the launcher; tasks on three sequences |
| Tor launcher, `C/tor/tor_launcher_factory.cc` | `is_starting_`, `is_connected_`, `tor_pid_`, the proxy address | launch, kill, relaunch after a crash | the launcher process (`C/services/tor`), Tor control, windows |

These do have concurrency between sequences and processes.  What is hard: a
setting or a window that changes while a chain of asynchronous steps is on its way
(only its first step looked); a process that dies between any two of its answers; work
posted to another sequence that runs after the state it was posted for is gone;
flags (`polling_`, `is_starting_`, the staged entry) that exactly one party must clear;
and preferences that reach the disk later than the state they mirror.

`PROJECT.json` lists each of these hazards at its line, with the properties that
watch it, or the reason no property does.  Beyond those listed there, these are
known and no property covers them: `QueueSaved` answers `LEDGER_OK` though the entry was not
saved (`contribution_tip.cc:102`); the reconcile stamp moves on before the month's
entries are saved (`contribution.cc:146`); a pending tip may be queued twice
(`unverified.cc:138`); `RetryStartStep` drops an Uphold auto contribution
(`contribution_sku.cc:457`); `Unblinded::Retry` has no case for `STEP_CREDS`
(`contribution_unblinded.cc:577`); the transfer of promotion tokens does not reserve
them (`promotion_transfer.cc:94`); a confirmation leaves the saved queue before it
is redeemed (`src/vendor/bat-native-ads/src/bat/ads/internal/account/confirmations/confirmations.cc:204`).

### The rest of the repository

`bat-native-ads` keeps one saved state with confirmations to retry, tokens to
refill and payments to redeem, each with a timer; frequency capping computes over
an event history.  `C/` also holds the IPFS node service, shields, referrals,
Speedreader, the crypto wallet's pages, sync and the user interface.  None of them
shares state with the contributions.

### What makes each component correct

* Token table and contributions paid with tokens: a token is held by at most one
  contribution; it votes once; a vote is sent only with tokens held; publishers
  and contributions are not paid more than they were promised; a completed
  contribution is paid; a final step is final; the balance report counts once;
  no reservation outlives its contribution; every contribution ends.
* Queue: the flag is lowered by somebody; an entry commits its amount once; a
  tip is paid whole or refused; nothing is completed unserved or reopened; every
  row is completed in the end.
* Promotions and their credentials: the creds the server accepted are kept until
  they are tokens; a promotion yields one set of tokens, is not finished without
  them and is reported once; what is claimed arrives.
* P3A: what is marked as sent was received; nothing is reported twice without a
  reason; what is recorded survives a restart and is sent in the end.
* Ads service: the process runs while the ads are enabled, is stopped when they
  are not, is never used unbound, and no click is lost.
* Tor: no assertion fails; the directory is polled by exactly one party; after a
  stop nothing is open; one tor runs, its pid is that of a live process, its proxy is
  found, and it ends with the last window.
* Orders, transfers (not modelled yet): an order is paid once; only one of several
  users of the token table spends a token.

## 2. The modules and the code

### UnblindedContribution

A contribution of processor `BRAVE_TOKENS` from `CreateNewEntry` to its final
step.  Several contributions share one token table.

State: `info` and `rows` are the tables `contribution_info` and
`contribution_info_publishers`; `redeemId`, `reserved`, `redeemed` and `expired`
are the columns of `unblinded_tokens`; `acEnabled` is the preference; `op[c]` is
the one continuation outstanding for contribution `c`: the handler its answer
will call, and the values bound into the callback.  `posted` (votes sent) and
`reports` are history.  Negative steps are final, as in the code.

Actions: one per callback, named after it.  `Handler(c)` lists them in the order
of the flow: `OnEntrySaved`, `PrepareTokens`,
`OnMarkUnblindedTokensAsReserved`, `OnReservedUnblindedTokensForRetryAttempt`,
`OnPrepareAutoContribution`, `PrepareStepSaved`, `OnProcessTokens`,
`OnRedeemTokens`, `TokenProcessed`, `ContributionAmountSaved`, `OnResult`,
`ContributionCompletedSaved`, `OnRetryTimerElapsed`, `SetRetryCounter`, `Retry`.
Around them: `CreateNewEntry`, `Restart` (with
`CheckNotCompletedContributions`), `SetAutoContributeEnabled`, `Expire`.

Abstractions:

* A transaction takes effect in the step that issues it and its answer comes
  later, in any order with the answers for other contributions.  The code
  executes it between these two moments and answers first-in first-out; since
  transactions of all contributions are executed in issue order, the effect
  can be moved to the issue, and any order of answers contains the real one.
  A crash after the issue and before the execution is the crash before the step.
* Amounts are whole numbers and a token is worth `TokenValue` of them.  The code
  computes in doubles; rounding is not modelled.
* The draw of `PreparePublishers` is any assignment of the votes to publishers.
* Tokens do not arrive during a behaviour.
* A failed transaction changes nothing and answers an error; each costs one of
  `MaxDbErrors`.  A failed read of the publishers is, as in the code, taken for
  an empty list.
* `retry_count` stops at 4: the code only compares it with 3.

### TokenLedger

What the token table promises to whoever shares it, in four actions: `Reserve`
takes free tokens, `Vote` and `Spend` use held ones, `Release` frees the held,
unspent ones.  `UnblindedContribution` implements it with `holder <- redeemId`,
`spent <- redeemed`, `votes <- posted`; this is checked (`restart`) and proved.

### ContributionQueue

What comes before: the rows of `contribution_queue`, who saves them, and the flow
that turns the oldest open row into one saved contribution per wallet.

State: `rows` (in `created_at` order, so a row saved again moves to the end),
`shares` (entries with rows in `contribution_queue_publishers`), `inProgress`,
`timer`, and the two first-in first-out channels between the ledger and the
database's task runner: `requests` and `replies`.  `fetches` holds the jobs
waiting for a balance, answered in any order and with any balance in `Balances`.
A job carries what the callbacks bind: the entry, its amount, the balance read at
the start and the wallet it stands at.

Here the order of answers matters (a row and its publishers are two
transactions), so the channels are explicit; `RunDBTransaction` executes the
oldest request and `OnRunDBTransaction` delivers the oldest answer to its handler.
`SaveTip`, `PrepareTipList` and `SaveAutoContribution` are the makers;
`QueueTimerFires`, `OnBalance`, `OnBalanceError` and `Restart` the rest.
`asked`, `paid`, `passes`, `refused` and `overlapped` are history; `paid` counts
an entry's share when its contribution is saved, because a saved contribution is
resumed after a crash.

Abstractions: rows with the same `created_at` (it counts seconds) are taken in
insertion order; the publishers of an entry are one bit; the
auto contribution follows the monthly tips of the same month; the monthly list is
finite (`EntriesAssumption`); an entry has one row, its primary key
(`L/database/migration/migration_v23.h:17`); the pending list
appears only as the tips it turns into; the balance is a number per wallet
and its total is their sum.

### Promotion

Where the tokens come from: the list of promotions, the user's attestation, and
the batch of credentials that becomes tokens.

State: `promo` (status and claim id), `batch` (`creds_batch`) and `tokens` (whose
creds have been inserted) are the tables; `op[f]` is a flow, one chain of
callbacks, with the handler it waits for and what the callback binds; `timer` is
`retry_timer_`.  `claimed` is what the server has accepted for a promotion.
`reports`, `overlapped` and `contended` are history.  Creds are numbered in the
order they were blinded; a claim id and a signature carry the number of the creds
they were given for, so that a batch replaced under a flow is noticed as
`UnBlindCreds` notices it.

Actions: `OnStart` to `Completed` are `CredentialsPromotion` and
`CredentialsCommon`; `Attest` to `OnComplete`, `Fetch`, `OnFetch`,
`OnGetAllPromotions`, `OnGetAllPromotionsFromDatabase`, `Retry` and
`OnRetryTimerElapsed` are `Promotion`.  `CredentialsProcessed` ends each flow of
credentials.  A handler that loops over promotions continues as one flow for each
of them (`Spawn`).  `PostCreds` and `OnFetchSignedCreds` contain the server: it
takes one set of creds per promotion and gives the same answer when they are sent
again; it may lose an answer, say gone before it has taken any, or not have signed
yet.

The code's details this rests on: saving a promotion is INSERT OR REPLACE without the column
`claim_id`, which is lost; a row that cannot be read looks like no row; a retry
answers `LEDGER_OK`, so the report is written before the tokens arrive.

Abstractions: transactions and their answers as in `UnblindedContribution`;
texts that do not parse and keys that do not match are left out, since the code
wrote them itself; the migration of corrupted promotions is left out, since a new
wallet has it done; the list from the server is any set of promotions; whether the last fetch
was less than ten minutes ago is a free choice.

### P3A

State: `tasks` (samples posted to the UI thread), `early` (those before `Init`),
`store` (the log store's collections), `prefs` and `disk` (the dictionary in the
preferences, in memory and as last written), `busy` (the scheduler waits for an
answer), `upload`, the setting, the calendar.  `received`, `excused` and `left` (how often
each metric was suspended while it was in the log) are history.

Actions: `Record`, `OnHistogramChangedOnUI`, `StartService` (which loads),
`StartScheduledUpload`, `OnLogUploadComplete`, `DoRotation`, `SetP3AEnabled`; around them the server, the
calendar, `CommitPrefs` and `Restart`, after which a later version may have
dropped a metric.  Each operation of the log store is a pair of operators, one for
the log and one for the preferences (`UpdateLog`, `UpdatePrefs`, and so on), since
the two must agree and do not change in the same way.  A suspension has only the first
(`RemoveLog`): `RemovePath` (`brave_p3a_log_store.cc:75`) reads the dots of a histogram's
name as a path, while the entry is saved under the name as one key, so that it stays in
the dictionary.  The metrics that can be suspended are those of the ads (`P2A`).

Abstractions: a value is known by its metric; the upload interval and the back-off
are any delay; the removal of a dictionary entry while the dictionary is iterated
may skip any of the entries behind it.

### AdsService

State: the setting, `service` and `connected` (the two remotes), `initialized`,
`starting` (the callbacks of a start under way, by name), `wallet` (questions under
way), the messages both ways, the ads in the process, the click kept for later, `failed` (an assertion
or a call on an unbound remote) and `hasty` (which kinds of work a change has overtaken).

Actions: `SetEnabled`, `OnWalletUpdated`, `ResetAllState`, `OnClick` from outside; `Start`,
`OnGetHardwareInfo`, `OnEnsureBaseDirectoryExists`, `OnGetBraveWallet`, `OnCreate`,
`OnInitialize`, `OnShutdownBatAds`, `OnDisconnect`, `OnViewAdNotification` in the
browser; `HandleRequest`, `AdsInitialized` in the process; `ServiceCrash`.  Of the three
branches of `OnPrefsChanged`, `SetEnabled` and `OnWalletUpdated` are two; the third restarts
the timer that looks for an idle user, and touches nothing the model has.

Abstractions: the calls that only forward to a bound remote keep no state and are left
out; so is the path for a locale without ads, which never changes in a session.

### TorControl and TorLauncher

`TorControl` is the control connection, on three sequences: the delegate's
(`uiq`), the one that watches the directory (`watchq`) and the one that does I/O
(`ioq`).  A queue holds the tasks posted to its sequence; a task is one action,
except that `PollThen`, `DoneThen` and `ErrorThen` are the bodies several tasks
share.  `conn` is the socket with what tor knows of it, `cmdq` the commands waiting for
a reply, `depth` the entry of `async_events_`, `files` what tor has written to the
directory, `fresh` whether the cookie looks younger than the port.

`TorLauncher` extends it with the delegate and the process that launches tor:
`LaunchTorProcess`, `KillTorProcess` (the last window is closed), `OnTorControlCheckComplete`,
`OnTorControlReady`, `GotSOCKSListeners`, `OnTorEvent`, `OnTorLaunched`,
`OnTorCrashed`, `OnTorLauncherCrashed`, `RelaunchTor` in the browser; `Launch`,
`TorCrashes`, `TorEnds`, `LauncherCrashes` outside it.  `mojo` holds the answers of the launcher
process in order.

`hasty` is a history variable.  The code has no protection against some pairs of
events; `Hazardous` names them, and `Comes(event, found)` raises `hasty` when one
happens.  Every property of `TorLauncher` is about behaviours before that, and
`MCTor` cuts the search there with `CONSTRAINT NotHasty` (a liveness property
then holds of the kept states trivially only where it says `hasty`: a behaviour
that turns hasty satisfies every one of them).  The pairs were found with TLC: with
any one of them removed `AssertionsHold` is violated.  They are

| event | while |
| --- | --- |
| a launch | the tasks of a stop, a launch, a relaunch, the end of a tor are under way, or the control runs |
| tor dies, closes the connection or ends, or its launcher dies | a command is being sent |
| the relaunch after a crash | the tasks of a stop, or a poll, are under way |
| the last window is closed | a poll is under way |

Abstractions: one subscription stands for four, one question for two; a
write completes or fails at once; lines are not parsed.

### How they compose

The contribution that `ContributionQueue` saves for the first wallet is the one
that `UnblindedContribution` starts with `CreateNewEntry`.  The two share no other
state: a queue flow never waits for a contribution to finish.  The tokens that
`Promotion` inserts are those `UnblindedContribution` starts with; new ones only
add to the spendable list, and none arrive during its behaviours.

`TorLauncher` is the composition of the factory, the launcher process and the
control connection.  P3A, the ads service and Tor share no state with one another or
with the ledger.

## 3. The runs

The MC modules add the symmetry sets, the balances and, for Tor, the constraint.
Every bound is a constant in the cfg.

| run | instance | question |
| --- | --- | --- |
| `tip_contention` | 2 tips, 3 tokens worth 2, amounts 2 and 3, one token may expire, 1 crash, 1 failing transaction | can a contribution vote with tokens it does not hold? |
| `restart` | 2 contributions of either kind, 2 tokens, 2 publishers, auto contribute switched, 1 crash | is every vote cast once, anybody overpaid, completed unpaid or left holding tokens? is the token ledger implemented? |
| `db_failures` | 1 contribution to 1 publisher, 3 tokens of which 2 may expire, amounts 1 to 4, 4 failing transactions, 2 crashes | do reports, recorded amounts and final steps survive partial failure? without one, does the contribution always end? |
| `auto_contribution_stuck` | 1 auto contribution, 2 tokens, 3 publishers | does it always end? It does not (section 5). |
| `queue_tips` | 2 tips, five balances over three wallets | paid once, whole, and never completed unserved? |
| `queue_restart` | a recurring tip and an auto contribution, 1 crash, 1 failing transaction, 1 failing fetch | does a pass commit more than the amount, is a completed row reopened, is a raised flag always lowered, is every row completed in the end? |
| `queue_paid_twice` | 2 tips, balances that suffice | is a tip committed once? It is not (section 5). |
| `promotion_failures` | 1 legacy promotion that may expire, 2 flows, 2 attestations, 1 fetch, 2 batches, 1 crash, 1 failing transaction, 1 failing request | is anything finished without tokens, or paid out twice? are accepted creds kept, and do they become tokens? is a promotion reported once? |
| `promotion_gone` | 2 promotions, 3 fetches | is every promotion that is gone marked over? It is not (section 5). |
| `p3a` | 2 metrics, one of which may become obsolete and may be suspended, 2 values, 1 suspension, 2 weeks, 1 failing upload, 1 change of the setting, 1 restart | is the store consistent with itself, with the server and with the preferences? is every value sent? |
| `ads_service` | 2 notifications, 2 changes of the setting, 1 change of the wallet or reset, 1 crash, 1 failing step | does an assertion fail? does the process follow the setting? is a click lost? |
| `tor` | 2 launches, 1 kill, 3 tors, 1 dropped connection, 1 death each of tor and of its launcher, 1 failing launch, 1 directory that cannot be watched | does an assertion fail? who polls? how many tors run? is the proxy found, are the events asked for, does tor end? |

`TypeOK` is checked with the invariant it is a conjunct of (`QueueConsistent`,
`PromotionConsistent`, `ServiceConsistent`, `ControlConsistent`); for
`UnblindedContribution` and `P3A`, whose runs leave it out, it is proved (section 4).

Why these bounds are enough to meet the interesting cases:

* Two contributions are enough for every race about tokens: a token has one
  holder, and a third contender meets each of the others in a race of two.
* Two or three tokens give the cases too few, exactly enough, one too many, and
  with `TokenValue = 2` an amount that is not a multiple of a token.
* Three publishers are the fewest with two tokens for which a publisher without
  a vote precedes one that has a vote.
* One crash reaches every point of a flow and the retry after it; a second one
  (`db_failures`) also reaches the retry itself.  Four failing transactions with
  one contribution reach four retries of the same step, past the limit of three.
* Two entries are the fewest that reorder when one is saved again, three
  wallets are all there are, and `<<1, 0, 1>>` makes the flow skip a wallet.
* Two metrics let a report be under way for one while the other changes or is
  suspended, and one of them be read behind the other; two weeks give one rotation while
  something is sent and one that a restart finds due; one restart of each kind lets every
  unwritten preference be lost.  One suspension leaves the entry that a rotation misses, a
  restart loads and a value sampled after it spoils.  The properties also held with both
  metrics suspendable (1.6 million states).
* Two changes of the setting are off and on again, one inside a chain of callbacks
  that the other began; a reset stops and starts the service by another route.  A change
  of the wallet and a reset share a bound, as each only adds its own overlap; with two of
  them and one notification the invariants held too (1.1 million states).
* Two launches with a kill between them give a second session after the first;
  three tors are two launches and a relaunch.  `AssertionsHold` also held on an
  instance with 3 launches, 2 kills, 5 tors, 2 drops and 2 deaths (8.6 million states).
* Two flows meet in every pair of handlers; two batches are what it takes to lose
  the first; a second attestation is the one that could report again.

The runs of `Promotion` have `CHECK_DEADLOCK FALSE`: once the user's attestations
and fetches are used up and the timer is off, nothing is left to do.
`p3a`, `ads_service` and `tor` have it because their outside events are bounded,
and because a failed assertion ends the browser.
The queue runs have `CHECK_DEADLOCK FALSE`: when all rows are completed, no timer
runs and every entry was made, nothing is left to do, and with
a failed fetch that may come sooner.  The runs of `UnblindedContribution` check
deadlock; the user can always switch auto contribute.

Properties with premises say which failure would break them:
`RaisedFlagIsLowered` (no failed transaction), `CompletedWasServed` and
`TipsAllOrNothing` (no failed transaction, no crash), `NoOrphanReservation` and
`PublisherNotOverpaid` (the same), `VoteCastOnce` (no failed transaction, and not
for contributions that
were given up, whose tokens the code releases though their votes may have
counted), `SpentWithinAmount` and the amount in `CompletedIsPaid` (for an auto
contribution, that no token expired), `PaidOnceUnlessOverlapped` and `CompletedStaysCompleted` (no two flows
at once), `ClaimedCredsKept` (no failed transaction, no two flows in the batch
at once), `PromotionReportedOnce` (the same, for flows concerned with the
promotion at all), `ClaimedBecomesTokens` (moreover not expired). Those of the
last three are needed: TLC refutes the properties without them.  So are those of
the properties of `UnblindedContribution`, which the attempt to prove them turned
up: none of its runs has both the crash or the failure and the auto contribution that it
takes, and an instance that has them refutes each property without its premise.
A failed transaction keeps the final step of a contribution from being saved while its
tokens are released, leaves a payment unrecorded, or ends the retries with tokens held; and an auto contribution that
starts over after a token it had reserved expired reserves others and keeps both.
`EventuallyFinal` has the premises that no transaction failed (the contribution
then waits for the next start) and that there was no crash, which is needed too:
a crash between spending the votes of a publisher and recording its amount leaves
a publisher unpaid and no token to pay it with, and `STEP_PREPARE` is
retried for ever.  `EveryEntryCompletes` has the premise that neither a transaction nor a
balance fetch failed, `ClaimedBecomesTokens` also that no request did.
`SentWasReceived` and `NothingForgotten` speak of the metrics in front of the first one, in
the order of their names, that was suspended or has become obsolete (`Spared`): TLC refutes both
when a suspended or skipped metric is included, and `NothingForgotten` when those behind it are
(section 5).  `ReportedOnce` has no such premise but allows a report more for each
suspension of the metric, and needs it.  `EveryValueIsSent` holds if the setting was never off; the properties of
`AdsService` and `TorLauncher` name the events that void them. Of the premises of
`TorAccountedFor`, `ProxyIsFound`, `EventsAsked` and `ClosedEnds` each was removed in
turn and TLC refuted the property; so were the five kinds of `hasty` in
`AdsService!AssertionsHold`, the fifth of which is a wallet that changes during a stop or a
death. `db_failures`
checks `TipRecordedIsSpent` for tips only: an auto contribution draws its
publishers again at every retry of the reservation.

### Fairness

`UnblindedContribution!FairSpec`: weak fairness of every handler, since a task
runner runs what is posted, a started timer fires and a request is answered or
times out; and strong fairness of an accepted vote, since a server asked again and
again accepts at some point.  Nothing is assumed of the user, of crashes, of
expiry or of which publisher a draw picks.  `EventuallyFinal` holds because, with one
publisher, no step that is exempt from the retry limit can go on forever.

`ContributionQueue!FairSpec`: weak fairness of the two channels, of the timer and
of the successful answer to a balance fetch.  Nothing is assumed of the makers.
A failed fetch ends the flow
without a timer: the entry then waits for the next poke.

`Promotion!FairSpec`: weak fairness of the handlers of each flow and of the retry
timer, and strong fairness of the signature: a server that is asked again every
five seconds signs in the end.  Nothing is assumed of the user, of fetches, crashes
or expiry.  A failing request ends the flow without a timer; the next start picks it
up.

`P3A!FairSpec`: weak fairness of the posted tasks, of the start, of the scheduler's timer
and of the server's answer, which fails `MaxFailures` times at most.  Nothing is assumed
of samples, the setting, the calendar, the writing of preferences or of restarts.

`AdsService!FairSpec` and `TorLauncher!FairSpec`: weak fairness of every task, callback,
timer and message that is under way, while no assertion has failed; tor writes its
files and a process told to end does.  Nothing is assumed of the user, of deaths, of
dropped connections or of circuits.

## 4. The proofs

`UnblindedContributionProofs` proves, for any contributions, tokens, publishers,
amounts and bounds allowed by `ConstantsAssumption`:

* `TypeCorrect`: `Spec => []TypeOK`;
* `Inductive`: `Spec => []IInv`;
* `TokensHeldWhileInFlight`: `Spec => []InFlightTokensHeld`;
* `ReportedOnce`: `Spec => []ReportedOncePerRun`;
* `FinalStepsAreFinal`: `Spec => FinalIsFinal`;
* `RefinesTokenLedger`: `Spec => ImplementsTokenLedger`.

Why an inductive invariant is needed.  `InFlightTokensHeld` speaks of the moment
between reading a list of reserved tokens and acting on the server's answer.
Another contribution could take one of these tokens only by a reservation, which
takes tokens with `reserved_at = 0`, so one must know that a token has a
`redeem_id` exactly while it is reserved (`HolderIffReserved`).  The holder itself
could release them only by completing, so one must know that a contribution in
a final step has nothing in flight (`ContinuationMatchesStep`), and that the copy
a callback writes back was read while the contribution was in progress
(`CopyInProgress`).  Spending needs that the votes awaited were sent
(`InFlightVoted`).  `IInv` is the conjunction of these with `TypeOK`.

How the proof is laid out.  First typing: one lemma per handler.  Then, instead
of one proof per handler and conjunct, one lemma per handler says which of five
effects on the token table the step has (leaves it alone, reserves free tokens,
votes with held ones, spends the ones voted with, releases its own), that no other
contribution changes, and whether the contribution goes on or winds up
(`Effect`).  `HandlerEffect` collects them.  From an effect, `HolderStep`,
`InFlightHeldStep`, `VotedStep` and `ControlStep` prove the conjuncts of `IInv`
once for all handlers; `CreateNewEntry`, `Restart` and the steps of user and clock
are treated separately.  Refinement uses the same effects: each one is an action
of `TokenLedger` or a stuttering step.

`UnblindedPaymentProofs` extends it to what is paid, and proves:

* `Payments`: `Spec => []PayInv`;
* `VotesOnce`: `Spec => []VoteCastOnce`;
* `NotOverpaid`: `Spec => []PublisherNotOverpaid`;
* `SpendingBounded`: `Spec => []SpentWithinAmount`;
* `CompletedPaid`: `Spec => []CompletedIsPaid`;
* `TipRecordedSpent`: `Spec => []TipRecordedIsSpent`;
* `NoOrphans`: `Spec => []NoOrphanReservation`.

`PayInv` is `IInv` with six parts, each under the failures it survives.  `FlowInv`, which
survives all of them, is the course of a contribution: nothing is spent before its tokens
are all reserved; tokens still held are, with those spent, worth the amount; what is
recorded as paid is covered by spent tokens; and what a continuation carries fits the step
the table has.  `VoteInv` is why a lost answer does no harm: a vote whose token is not spent is
for the publisher in turn, with one of the tokens the next attempt takes again
(`TakeUntil` of the tokens held is the same until they are spent).  `RepayInv` says that no token
is spent on a publisher that is not recorded as paid, except while it is being recorded, which is where a
crash or a failure pays twice.  `TipInv` and `OnceInv` are why a contribution keeps one
reservation: a tip reserves in `STEP_START` only while it holds nothing, and an auto
contribution that starts over finds its own first token again, since every token before is
spent, so a second reservation fails its count.  `SettledInv` says that a contribution waiting for nothing holds
nothing.

The invariants are about one contribution with all that belongs to it, its `View`: record,
rows, continuation, tokens held and spent, votes.  Lemmas say which move of its view
each handler makes, and that it leaves the others'; each part is then proved about
moves, not handlers.  What the publishers of a contribution cost is a
cardinality (of the units of the amount meant for them), not a recursive sum, and
what a loop takes from a list of tokens is characterised by the least number of tokens whose
value reaches the amount (`TokensFor`).

`ContributionQueueProofs` proves, for any entries, amounts, balances and bounds:

* `Queue`: `Spec => []QueueInv`;
* `PaidOnce`: `Spec => []QueueConsistent`;
* `PaidWithin`: `Spec => []PaidWithinPasses`;
* `FlagLowered`: `Spec => []RaisedFlagIsLowered`;
* `TipsWhole`: `Spec => []TipsAllOrNothing`;
* `CompletedServed`: `Spec => []CompletedWasServed`;
* `CompletedStays`: `Spec => CompletedStaysCompleted`.

None of these is inductive, since what will be paid and marked is in the messages of the
two channels, which may hold any number of them.  `QueueInv` says what a message carries
(`ShapeInv`: the part of an amount under way is covered by the wallets the job has left) and
what it is worth: `Owed` adds up what the messages about an entry still commit, `Awaited` what its
balance fetches may, and `Flows` counts the flows.  The sum over a channel is again a
cardinality, of the pairs of a place and a unit (`SumOf`), so no recursion is
needed; lemmas say that it falls by the worth of a message taken out and rises by
that of one put in.  `PassInv` bounds paid, owed and awaited together, whatever fails.
`MakerInv`: until an entry's row is saved nothing else is known of it.
`FlagInv`: a raised flag has a flow behind it.
`FlowInv`: unless two flows ran at once there is one, and its entry is open.
`OnceInv`: then nothing is committed for an entry that waits in the queue or was just
read.  `TipsInv`: an entry that is a tip has committed its whole amount, or nothing
and every message carries the whole amount.  `ServedInv` and `OrderInv`: the publishers of
an entry are saved before anything that reads its row is answered, because the two
transactions and the read stand in this order in the channels.  A step is first reduced to a
move between the channels (take the oldest message, put at most one), and each part
is proved about the moves.

`PromotionProofs` proves, for any promotions, flows and bounds:

* `CoreInvariant`: `Spec => []CoreInv`;
* `PromotionSafety`: `Spec => []PromotionConsistent`;
* `OneSet`: `Spec => []OneSetOfTokens`;
* `ClaimedKept`: `Spec => []ClaimedCredsKept`;
* `ReportedOnce`: `Spec => []PromotionReportedOnce`.

Three inductive invariants stand on top of one another.  `CoreInv` holds whatever fails: typing,
that the rows of a promotion and the server agree (a claim id and a signature are for the
creds the server accepted, a finished batch has tokens), and that the same is true of the
copies the callbacks hold, which may be older than the tables.  `KeptInv` adds that,
unless two flows were in a batch at once, a flow that is about to act on the batch holds
what the table has, so that accepted creds are never blinded again.  `ReportInv` adds what
a flow may still do with a promotion that has been reported: an attestation that has not
ended, or a list that read it as new, excludes it.  Each part is kept by a handful of moves
(a flow goes on, saves a row, ends), to which lemmas reduce the handlers.

`P3AProofs` proves, for any number of metrics and any bounds allowed by
`P3AConstants`:

* `TypeCorrect`: `Spec => []TypeOK`;
* `AssertionsHold`: `Spec => []StoreConsistent`;
* `MarkedIsReceived`: `Spec => []SentWasReceived`;
* `NoNeedlessReport`: `Spec => []ReportedOnce`;
* `SavedIsLoaded`: `Spec => []NothingForgotten`.

Its inductive invariant adds to these: no upload is under way while the scheduler does not wait
for one (`Idle`); a report under way is that of the staged entry, unless that one was suspended, and then
nothing is staged until the report is answered (`UploadOfStaged`); the server's reports of a
metric are bounded by whether it is sent, being sent, neither, or suspended with its report
still to arrive (`ReceivedBound`, stronger than `ReportedOnce`, which
forgets the difference); no record is of a later week than the calendar's (`Weeks`); for
every spared metric, the log agrees with the preferences, and its entry there and on the disk can
be loaded (`Saved`); and what is marked as
sent in the log, in the preferences or on the disk was received, each with its own
excuse (`SentIsGot`): a restart replaces the log by what the disk says, so the disk must be
covered by the invariant.  That the load reads the entry of a spared metric needs the same of
all those in front of it (`LoadOps`), since it ends at the first one that cannot be loaded: hence a premise
about them too.  A metric that is spared has been spared all along (`SparedBefore`).  The proof states first, as lemmas, what each operation of the
log store returns, then takes the actions one by one.

`AdsServiceProofs` proves, for any notifications and any bounds:

* `TypeCorrect`: `Spec => []TypeOK`;
* `InitializedServiceRuns`: `Spec => []ServiceConsistent`;
* `NoAssertionFails`: `Spec => []AssertionsHold`.

`AssertionsHold` is far from inductive: that an assertion fails depends on every message
and callback under way.  The inductive invariant says what these can be.  At any
time there is one step between `Create` and `OnInitialize`, only while the service
waits for it (`OneStart`), and a process that is gone or not connected has only
environment messages, whose reason is that the setters are sent before the endpoints
are bound (`Process`).  As long as nothing was overtaken (`Calm`), moreover
(`InOrder`): the callbacks of a start are one at most and then nothing is connected, a
stop under way belongs to a service that is initialized and waits for no wallet (nor does
the wallet change until it has ended, or the service is not calm), the process refuses none, and what is connected while the ads are off is being
stopped.  `NothingOvertaken` says that an event that leaves the service calm finds
nothing under way; with it each action keeps `InOrder` or ends in an assertion only
when not calm.  The proof states first what appending, taking and concatenating do to the
kinds of messages in a sequence, then takes the actions one by one.

`TorProofs` proves, for any number of windows, tors and deaths:

* `SessionInOrder`: `Spec => []TorInv`;
* `NoAssertionFails`: `Spec => []AssertionsHold`;
* `StopCloses`: `Spec => []StoppedIsClosed`;
* `ControlIsConsistent`: `Spec => []ControlConsistent`;
* `EveryTorAccountedFor`: `Spec => []TorAccountedFor`.

`TorInv` is `ShapeInv`, the types and what holds whatever comes when (only a
directory that is watched is polled again, a connection that is open and was not closed leads to a tor that lives, a launcher
that is gone has nothing under way), and, as long as nothing was hasty, `Calm`.  Its parts
need one another:

* `LaunchInv`: a launch is in one place, the check of the old tor, its notice, the
  launcher process or the answer, and excludes another launch, a tor that died and a
  relaunch.  That no second session starts, which the assertion in `Start` is about, follows.
* `TorsInv`: no tor is up while one is on its way, so the next one is alone; and
  the factory names the one there is, or a message will say which or that it died.
* `StopInv`: while the tasks of a stop are under way nothing prepares a session; once they
  have run, nothing that polls or connects is left but a `PollDone` that stands before the check of the next
  launch, so that the next `StartWatching` finds no watcher and no poll.  The order of the tasks in the queue
  matters: `Followed` and `Preceded` say it, and lemmas say what posting and
  taking a task do to them.
* `PollInv`: the owners of `polling_` (`Looking`) are one at most.  `StoppedIsClosed`
  and `ControlConsistent` follow from these two.
* `CmdInv`: commands are under way only for a connection that is open and not closed,
  and the first of them is the authentication; without it a command could reach a socket
  that is not there.

`Unhurried` turns `~hasty'` into what an event from outside did not find; the proof then takes
each action, first for `ShapeInv`, then for `Calm`.  It asked for two parts
that a check of the reachable states does not: nothing runs while a relaunch is delayed, and a
connection that is being opened is neither closed nor authenticated.  TLC was asked first whether
`TorInv` holds of the states of `MCTor`.

What stays with TLC: liveness (`EventuallyFinal`, `EveryEntryCompletes`,
`ClaimedBecomesTokens`, `EveryValueIsSent`, and `DisabledStops`, `EnabledRuns`, `KeptClickIsOpened`,
`ProxyIsFound`, `EventsAsked` and `ClosedEnds` of the ads service and Tor), which
needs fairness and ENABLED, out of the prover's reach.  Every invariant and every action
property of a passing run is proved.  Proofs by
induction over data and about RECURSIVE operators are out of reach too; the
modules use neither.

## 5. What was found

* An auto contribution may never end (`auto_contribution_stuck`).
  `PreparePublishers` (`contribution_unblinded.cc:314`) saves the publishers that
  were drawn over the rows `CreateNewEntry` wrote, by INSERT OR REPLACE.
  The row of a publisher that got no vote keeps its first share, is paid like the
  others, and uses up tokens of the publishers that were drawn.  The last row then
  finds no token, and the contribution retries `STEP_PREPARE`, the one step without
  a limit of retries.  The test at
  `src/components/brave_rewards/browser/test/rewards_contribution_browsertest.cc:186`
  expects `LEDGER_OK`.
* A tip may be contributed twice (`queue_paid_twice`).  `ProcessContributionQueue`
  (`contribution.cc:96`) tests `queue_in_progress_`, which is raised only after two
  database reads, in `OnProcessContributionQueue`, where it is not tested again.  A
  second poke in between takes the same row.  The test at
  `rewards_contribution_browsertest.cc:425` expects the balance to fall by the sum
  of the tips.  `PaidOnceUnlessOverlapped` shows that no other interleaving does it.
* A promotion that is gone may stay active (`promotion_gone`).  The loop at
  `promotion.cc:225` breaks at the first promotion that is not active; the comment
  above it says that promotions with status active that are not available any more
  are marked as over.

Other things the models show, each at a premise of a property or as a hazard in
`PROJECT.json`:

P3A

* An upload that comes due while the setting is off is neither sent nor ended
  (`brave_p3a_service.cc:392`): no upload happens again before the next start, also
  when the setting is switched on again.
* Dropping an obsolete metric while the dictionary is iterated may skip entries behind it
  (`brave_p3a_log_store.cc:203`).  A skipped entry misses a rotation; a later start loads
  it as sent, if there are two restarts; or, recorded again, it is saved in a form at which
  the load ends, so that it and the entries behind it are forgotten.
* A suspended metric leaves the log but not the saved dictionary
  (`brave_p3a_log_store.cc:75`: `RemovePath` splits the name, which the entry has as one
  key).  The next start loads and sends it, although the comment at
  `brave_p3a_service.cc:45` says of the value that suspends it "Receiving this value will effectively
  prevent the metric from transmission to the backend", and `ads_service_impl.cc:1682` that
  it is recorded "to prevent sending this week's data to P2A server".  A flag `sent` it has there misses
  the rotation, which goes over the log, and a later start takes it as sent.  Recorded
  again, it is saved as not sent beside its old timestamp; the load stops at such an entry,
  and those behind it are forgotten.
* A rotation leaves the staged entry staged, so that the answer to last week's report
  marks this week's entry as sent.
* `ReportedOnce` is tight: a failure, a restart and a suspension each allow one more report.
* P2A values follow the setting of P3A, `kP3AEnabled`, alone.

Ads service

* A change of the setting during a start is not seen by its later steps: the process
  runs with ads disabled, or is connected twice, which asserts.  The same for a reset, for a
  crash before the start has finished, and for a question to the wallet that is answered after
  a stop (a call on an unbound remote).
* A wallet that changes between a stop and its end, or between a death and its notice, is
  asked for, as the remote is still bound; the answer then calls an unbound remote
  (`ads_service_impl.cc:394`), with no change of the setting in between.
* The answer to a shutdown tears down a service that was enabled again; a shutdown
  before the initialization asserts (`ads_service_impl.cc:686`).
* A process that dies while the ads are disabled leaves its dead remote bound; the start delayed by a
  second after a crash does not look at the setting.
* A second click before the service is ready overwrites the first.

Tor

* The pairs of section 2, each of which fails an assertion.
* The time of the cookie is its last access: reading the cookie of a dead tor makes it
  younger than the next one's port (`tor_control.cc:309`).  Tor refuses it, and
  since `Authenticated` only logs and nothing is read any more, the connection stays, although
  the comment at `tor_control.cc:486` says "kill the connection and start over".
* After a reconnection `Subscribe` counts the subscription and does not send it.  `Stop`
  clears `async_events_` before the callbacks of `Error` decrement it, which wraps below zero.
* A failed launch starts the control all the same, and leaves `is_starting_` up; so do
  a kill during a launch and a launcher that died: no later launch is attempted.
* Closing the last window does not cancel the relaunch delayed after a crash, so tor may
  run without a window.  The death of the launcher leaves `tor_pid_` and
  `is_connected_`; an event that was posted before a kill sets `is_connected_` after it.

## 6. What is not modelled

* Not yet, see the plan: orders and transactions, Uphold, promotion transfers, pending contributions, publisher lists, the reconcile
  timer, ads confirmations, frequency capping.
* Sequential or pure data: wallet creation and recovery, reports, preferences,
  endpoints, parsing of responses, import of old state, schema migrations.
* Outside the model checker's subject: the SQL engine, cryptography of the
  tokens, doubles, the distribution of the draw, time in seconds.
* Of the modelled services: command line switches, the meta data and the wire format of
  reports, migrations of preferences, forwarding calls, the parsing of tor's replies,
  `Unsubscribe` (which nothing calls), proxy configuration and new circuits.
* Browser code that is mostly one call after the other into Chromium: IPFS, shields,
  referrals, Speedreader, wallet pages, sync, user interface, Android, patches and builds.  The
  Rewards service forwards between the ledger and the user interface; its database task runner is
  modelled as the channels of `ContributionQueue`.
* What follows a failed assertion or a `hasty` event in Tor.

## 7. Plan

Done: `TokenLedger`; `UnblindedContribution`, `ContributionQueue`,
`Promotion`, `P3A`, `AdsService`, `TorControl` and `TorLauncher` with their proofs.

1. For `Promotion`, an abstract claim (granted, signed, paid out) for it to
   implement, and its tokens arriving in `UnblindedContribution`.
2. Pending contributions, as further makers of `ContributionQueue`: the same tip
   queued twice by two rounds of `Contribute`.
3. Orders and external transactions (`contribution_sku.cc`, `sku_order.cc`,
   `sku_transaction.cc`) and the transfer of an external wallet: an order is paid
   once; which steps `Retry` can be asked for.
4. A second user of the token table (promotion transfer), beside
   `UnblindedContribution`, against `TokenLedger`.
5. A composition of `ContributionQueue` and `UnblindedContribution`, with an
   abstract specification of an entry: asked, committed, settled.
6. The batches of orders (`credentials_sku.cc`), Uphold wallet states, the shared publisher
   fetch.
7. `bat-native-ads`: confirmation retries, refill and payout over the saved state;
   frequency capping as operators against a reference definition.
8. The start and stop of the IPFS node, and the download of the shields' lists.

Runs keep to two actors of a kind and one failure of each kind, as above.

Theorems to come: the refinements of 1, 4 and 5.
