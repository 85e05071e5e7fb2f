------------------------- MODULE ContributionQueue -------------------------
(***************************************************************************)
(* The queue in front of every contribution (bat-native-ledger,            *)
(* contribution/contribution.cc).  One-time tips, the monthly recurring    *)
(* tips and the monthly auto contribution are rows of contribution_queue;  *)
(* Contribution takes the oldest row that is not completed, asks for the   *)
(* wallet balances, and turns the row into one contribution per wallet     *)
(* until the amount is covered.  What a contribution does afterwards is    *)
(* UnblindedContribution's subject.                                        *)
(*                                                                         *)
(* The ledger runs on one sequence, the database on another.  A database   *)
(* call is posted to the sequenced file task runner ("requests"), which    *)
(* runs one transaction at a time and posts its answer back ("replies"):   *)
(* both are first-in first-out.  A balance fetch may involve HTTP requests *)
(* and is answered at any later time.                                      *)
(***************************************************************************)
EXTENDS Naturals, Sequences, SequencesExt, FiniteSets

CONSTANTS
  Tips,               \* queue ids OneTimeTip makes (pending tips included)
  RecurringTips,      \* queue ids the monthly tip list makes
  AutoContributions,  \* queue ids the monthly auto contribution makes
  Amounts,            \* amounts an entry may be made with
  Balances,           \* balances a fetch may answer: one number per wallet
  MaxCrashes,         \* bound on crashes of the ledger process
  MaxDbErrors,        \* bound on failed database transactions
  MaxFetchErrors      \* bound on failed balance fetches

Entries == Tips \cup RecurringTips \cup AutoContributions

(* wallet types in the order of GetNextProcessor: unblinded tokens,        *)
(* anonymous card, Uphold; 0 is the empty string of the code               *)
Wallets == 1..3
NoWallet == 0

ASSUME EntriesAssumption ==
  /\ Tips \cap RecurringTips = {}
  /\ Tips \cap AutoContributions = {}
  /\ RecurringTips \cap AutoContributions = {}
  /\ IsFiniteSet(RecurringTips)
ASSUME AmountsAssumption == Amounts \subseteq Nat \ {0}
ASSUME BalancesAssumption == Balances \subseteq [Wallets -> Nat]
ASSUME BoundsAssumption ==
  MaxCrashes \in Nat /\ MaxDbErrors \in Nat /\ MaxFetchErrors \in Nat

VARIABLES
  rows,          \* contribution_queue in created_at order
  shares,        \* entries that have rows in contribution_queue_publishers
  requests,      \* transactions posted to the file task runner
  replies,       \* answers posted back to the ledger
  fetches,       \* jobs waiting for a balance
  inProgress,    \* queue_in_progress_
  timer,         \* queue_timer_ is running
  crashes, dbErrors, fetchErrors,
  asked,         \* history: amount each entry was made with, 0 if not made
  paid,          \* history: sum of the contributions saved for each entry
  passes,        \* history: times each entry was taken from the queue
  refused,       \* history: entries turned down for lack of funds
  overlapped     \* history: an entry was read while one was being processed

tables  == <<rows, shares, paid>>
bounds  == <<crashes, dbErrors, fetchErrors>>
history == <<asked, passes, refused, overlapped>>
vars == <<tables, requests, replies, fetches, inProgress, timer, bounds, history>>

Callers == {"ContributionTip", "ContributionMonthly", "ContributionAC", "Contribution"}
Operations == {"save_row", "save_publishers", "first", "publishers",
               "save_contribution", "mark"}
NoBalance == [w \in Wallets |-> 0]

(* A queue entry on its way through the code, with what the callbacks bind: *)
(* amount is queue->amount, wallet the one contributed from last.           *)
Job == [entry : Entries, amount : Nat, caller : Callers, listed : BOOLEAN,
        wallet : Wallets \cup {NoWallet}, balance : Balances \cup {NoBalance}]
NoJob == [entry |-> "none"]

NewJob(e, a, caller) ==
  [entry |-> e, amount |-> a, caller |-> caller, listed |-> TRUE,
   wallet |-> NoWallet, balance |-> NoBalance]

Request(op, job) == [op |-> op, job |-> job]
Reply(op, job, ok) == [op |-> op, job |-> job, ok |-> ok]

Post(op, job) == requests' = Append(requests, Request(op, job))

TypeOK ==
  /\ rows \in Seq([entry : Entries, amount : Nat, done : BOOLEAN])
  /\ shares \subseteq Entries
  /\ requests \in Seq([op : Operations, job : Job \cup {NoJob}])
  /\ replies \in Seq([op : Operations, job : Job \cup {NoJob}, ok : BOOLEAN])
  /\ fetches \in Seq(Job)
  /\ inProgress \in BOOLEAN
  /\ timer \in BOOLEAN
  /\ crashes \in 0..MaxCrashes
  /\ dbErrors \in 0..MaxDbErrors
  /\ fetchErrors \in 0..MaxFetchErrors
  /\ asked \in [Entries -> Amounts \cup {0}]
  /\ paid \in [Entries -> Nat]
  /\ passes \in [Entries -> Nat]
  /\ refused \subseteq Entries
  /\ overlapped \in BOOLEAN

(* Initialize: CheckContributionQueue starts the timer. *)
Init ==
  /\ rows = <<>> /\ shares = {} /\ paid = [e \in Entries |-> 0]
  /\ requests = <<>> /\ replies = <<>> /\ fetches = <<>>
  /\ inProgress = FALSE /\ timer = TRUE
  /\ crashes = 0 /\ dbErrors = 0 /\ fetchErrors = 0
  /\ asked = [e \in Entries |-> 0]
  /\ passes = [e \in Entries |-> 0]
  /\ refused = {} /\ overlapped = FALSE

-----------------------------------------------------------------------------
(* The database: one transaction at a time, in the order posted.           *)

(* contribution_queue_id is the primary key: an entry has at most one row. *)
OtherRows(e) ==
  IF \E i \in DOMAIN rows : rows[i].entry = e
  THEN RemoveAt(rows, CHOOSE i \in DOMAIN rows : rows[i].entry = e)
  ELSE rows

(* INSERT OR REPLACE: a row saved again is a new row, not completed, with a *)
(* new created_at.                                                          *)
InsertOrUpdate(job) ==
  /\ rows' = Append(OtherRows(job.entry),
                    [entry |-> job.entry, amount |-> job.amount, done |-> FALSE])
  /\ replies' = Append(replies, Reply("save_row", job, TRUE))
  /\ UNCHANGED <<shares, paid>>

InsertPublishers(job) ==
  /\ shares' = shares \cup {job.entry}
  /\ replies' = Append(replies, Reply("save_publishers", job, TRUE))
  /\ UNCHANGED <<rows, paid>>

Open == {i \in DOMAIN rows : ~rows[i].done}
Oldest == rows[CHOOSE i \in Open : \A j \in Open : i <= j]

(* No open row and a failed query are answered alike. *)
GetFirstRecord ==
  /\ replies' = Append(replies,
       IF Open = {}
       THEN Reply("first", NoJob, FALSE)
       ELSE Reply("first", NewJob(Oldest.entry, Oldest.amount, "Contribution"), TRUE))
  /\ UNCHANGED tables

GetRecordsByQueueId(job) ==
  /\ replies' = Append(replies, Reply("publishers", job, job.entry \in shares))
  /\ UNCHANGED tables

(* CreateNewEntry: what the wallet contributes, what is left to contribute. *)
Left(job) == IF job.balance[job.wallet] < job.amount
             THEN job.amount - job.balance[job.wallet]
             ELSE 0
SaveContributionInfo(job) ==
  /\ paid' = [paid EXCEPT ![job.entry] = @ + (job.amount - Left(job))]
  /\ replies' = Append(replies, Reply("save_contribution", job, TRUE))
  /\ UNCHANGED <<rows, shares>>

MarkRecordAsComplete(job) ==
  /\ rows' = [i \in DOMAIN rows |->
               IF rows[i].entry = job.entry THEN [rows[i] EXCEPT !.done = TRUE] ELSE rows[i]]
  /\ replies' = Append(replies, Reply("mark", job, TRUE))
  /\ UNCHANGED <<shares, paid>>

RunTransaction(r) ==
  \/ r.op = "save_row" /\ InsertOrUpdate(r.job)
  \/ r.op = "save_publishers" /\ InsertPublishers(r.job)
  \/ r.op = "first" /\ GetFirstRecord
  \/ r.op = "publishers" /\ GetRecordsByQueueId(r.job)
  \/ r.op = "save_contribution" /\ SaveContributionInfo(r.job)
  \/ r.op = "mark" /\ MarkRecordAsComplete(r.job)

FailTransaction(r) ==
  /\ dbErrors < MaxDbErrors
  /\ dbErrors' = dbErrors + 1
  /\ replies' = Append(replies, Reply(r.op, r.job, FALSE))
  /\ UNCHANGED tables

(* An entry is being processed from the query that finds it to the end of  *)
(* MarkContributionQueueAsComplete.                                        *)
InFlow(m) ==
  \/ m.op \in {"publishers", "save_contribution", "mark"}
  \/ m.op \in {"save_row", "save_publishers"} /\ m.job.caller = "Contribution"
Processing ==
  \/ fetches # <<>>
  \/ \E i \in DOMAIN requests : InFlow(requests[i])
  \/ \E i \in DOMAIN replies :
       InFlow(replies[i]) \/ (replies[i].op = "first" /\ replies[i].ok)

RunDBTransaction ==
  /\ requests # <<>>
  /\ requests' = Tail(requests)
  /\ \/ /\ RunTransaction(Head(requests))
        /\ overlapped' = (overlapped \/ (Head(requests).op = "first" /\ Open # {} /\ Processing))
        /\ UNCHANGED dbErrors
     \/ FailTransaction(Head(requests)) /\ UNCHANGED overlapped
  /\ UNCHANGED <<fetches, inProgress, timer, crashes, fetchErrors, asked, passes, refused>>

-----------------------------------------------------------------------------
(* The flow of an entry.  Each operator says what a handler posts next and *)
(* what becomes of the flag; the handlers below say what they read.        *)

SaveContributionQueue(job) == Post("save_row", job)
MarkContributionQueueAsComplete(job) == Post("mark", job)

(* The flag is read here, and raised only once the entry has been read. *)
ProcessContributionQueue ==
  IF inProgress THEN UNCHANGED requests ELSE Post("first", NoJob)

(* CreateNewEntry, with its calls to itself past the empty wallets. *)
Funded(job) == {w \in Wallets : w > job.wallet /\ job.balance[w] > 0}
GetNextProcessor(job) == CHOOSE w \in Funded(job) : \A v \in Funded(job) : w <= v
CreateNewEntry(job) ==
  IF Funded(job) = {}
  THEN MarkContributionQueueAsComplete(job)
  ELSE Post("save_contribution", [job EXCEPT !.wallet = GetNextProcessor(job)])

Total(balance) == balance[1] + balance[2] + balance[3]
IsPartial(job) == job.entry \in AutoContributions

\* Mutant of HaveEnoughFundsToContribute: partial is taken to be true.
HaveSomeFunds(job, total) == total > 0

HaveEnoughFundsToContribute(job, total) ==
  IF IsPartial(job) THEN total > 0 ELSE job.amount <= total

\* Mutant of AmountWithin: *amount = balance whatever the amount.
WholeBalance(job, total) == IF IsPartial(job) THEN total ELSE job.amount

AmountWithin(job, total) ==
  IF IsPartial(job) /\ job.amount > total THEN total ELSE job.amount

Process(job, balance) ==
  IF job.amount = 0 \/ ~job.listed
  THEN MarkContributionQueueAsComplete(job) /\ UNCHANGED refused
  ELSE IF ~HaveEnoughFundsToContribute(job, Total(balance))
  THEN MarkContributionQueueAsComplete(job) /\ refused' = refused \cup {job.entry}
  ELSE /\ CreateNewEntry([job EXCEPT !.amount = AmountWithin(job, Total(balance)),
                                     !.balance = balance])
       /\ UNCHANGED refused

-----------------------------------------------------------------------------
(* Where entries come from.                                                *)

(* ContributionTip::ServerPublisher for a publisher that is verified, and  *)
(* Unverified once a pending one becomes so.                               *)
SaveTip(e) ==
  /\ e \in Tips /\ asked[e] = 0
  /\ \E a \in Amounts :
       /\ asked' = [asked EXCEPT ![e] = a]
       /\ SaveContributionQueue(NewJob(e, a, "ContributionTip"))
  /\ UNCHANGED <<tables, replies, fetches, inProgress, timer, bounds,
                 passes, refused, overlapped>>

(* ContributionMonthly::PrepareTipList: all the rows are posted at once, in *)
(* the order of the list, and the queue timer is started.                   *)
PrepareTipList ==
  /\ RecurringTips # {}
  /\ \A e \in RecurringTips : asked[e] = 0
  /\ \E list \in [1..Cardinality(RecurringTips) -> RecurringTips],
        weight \in [RecurringTips -> Amounts] :
       /\ \A i, j \in DOMAIN list : i # j => list[i] # list[j]
       /\ asked' = [e \in Entries |-> IF e \in RecurringTips THEN weight[e] ELSE asked[e]]
       /\ requests' = requests \o
            [i \in DOMAIN list |->
               Request("save_row", NewJob(list[i], weight[list[i]], "ContributionMonthly"))]
  /\ timer' = TRUE
  /\ UNCHANGED <<tables, replies, fetches, inProgress, bounds,
                 passes, refused, overlapped>>

(* ContributionAC::PreparePublisherList, which the monthly tips precede. *)
SaveAutoContribution(e) ==
  /\ e \in AutoContributions /\ asked[e] = 0
  /\ \A t \in RecurringTips : asked[t] # 0
  /\ \E a \in Amounts :
       /\ asked' = [asked EXCEPT ![e] = a]
       /\ SaveContributionQueue(NewJob(e, a, "ContributionAC"))
  /\ UNCHANGED <<tables, replies, fetches, inProgress, timer, bounds,
                 passes, refused, overlapped>>

-----------------------------------------------------------------------------
(* The replies of the database.                                            *)

(* DatabaseContributionQueue::OnInsertOrUpdate: a second transaction saves *)
(* the publishers.  An error ends in the caller's QueueSaved, which only   *)
(* logs it.                                                                *)
OnInsertOrUpdate(reply) ==
  /\ reply.op = "save_row"
  /\ IF reply.ok THEN Post("save_publishers", reply.job) ELSE UNCHANGED requests
  /\ UNCHANGED <<fetches, inProgress, timer, passes>>

(* QueueSaved of ContributionTip and Unverified, the lambda of             *)
(* ContributionMonthly, QueueSaved of ContributionAC, and OnQueueSaved.    *)
OnQueueSaved(reply) ==
  /\ reply.op = "save_publishers"
  /\ \/ /\ ~reply.ok \/ reply.job.caller = "ContributionMonthly"
        /\ UNCHANGED <<requests, timer>>
     \/ /\ reply.ok /\ reply.job.caller = "ContributionTip"
        /\ ProcessContributionQueue
        /\ UNCHANGED timer
     \/ /\ reply.ok /\ reply.job.caller = "ContributionAC"
        /\ timer' = TRUE
        /\ UNCHANGED requests
     \/ /\ reply.ok /\ reply.job.caller = "Contribution"
        /\ CreateNewEntry(reply.job)
        /\ UNCHANGED timer
  /\ UNCHANGED <<fetches, inProgress, passes>>

(* DatabaseContributionQueue::OnGetFirstRecord: without a row the queue is *)
(* taken to be idle.                                                       *)
OnGetFirstRecord(reply) ==
  /\ reply.op = "first"
  /\ IF reply.ok
     THEN Post("publishers", reply.job) /\ UNCHANGED inProgress
     ELSE inProgress' = FALSE /\ UNCHANGED requests
  /\ UNCHANGED <<fetches, timer, passes>>

(* OnGetPublishers, OnProcessContributionQueue, Start. *)
OnProcessContributionQueue(reply) ==
  /\ reply.op = "publishers"
  /\ inProgress' = TRUE
  /\ fetches' = Append(fetches, [reply.job EXCEPT !.listed = reply.ok])
  /\ passes' = [passes EXCEPT ![reply.job.entry] = @ + 1]
  /\ UNCHANGED <<requests, timer>>

\* Mutants of OnEntrySaved: the whole amount is saved again; the row is marked
\* complete in any case, then what is left is saved.
OnEntrySavedKeepsAmount(reply) ==
  /\ reply.op = "save_contribution"
  /\ IF ~reply.ok THEN UNCHANGED requests
     ELSE IF Left(reply.job) > 0
          THEN SaveContributionQueue(reply.job)
          ELSE MarkContributionQueueAsComplete(reply.job)
  /\ UNCHANGED <<fetches, inProgress, timer, passes>>

OnEntrySavedMarksFirst(reply) ==
  /\ reply.op = "save_contribution"
  /\ IF ~reply.ok THEN UNCHANGED requests
     ELSE requests' = requests \o <<Request("mark", reply.job)>> \o
            (IF Left(reply.job) > 0
             THEN <<Request("save_row", [reply.job EXCEPT !.amount = Left(reply.job)])>>
             ELSE <<>>)
  /\ UNCHANGED <<fetches, inProgress, timer, passes>>

(* OnEntrySaved: the contribution is started; the row is saved again with  *)
(* what is left, or is complete.                                           *)
OnEntrySaved(reply) ==
  /\ reply.op = "save_contribution"
  /\ IF ~reply.ok THEN UNCHANGED requests
     ELSE IF Left(reply.job) > 0
          THEN SaveContributionQueue([reply.job EXCEPT !.amount = Left(reply.job)])
          ELSE MarkContributionQueueAsComplete(reply.job)
  /\ UNCHANGED <<fetches, inProgress, timer, passes>>

\* Mutant of OnMarkContributionQueueAsComplete: the timer is not started.
OnMarkCompleteOnly(reply) ==
  /\ reply.op = "mark"
  /\ inProgress' = FALSE
  /\ UNCHANGED <<requests, fetches, timer, passes>>

(* The result of the update is not looked at. *)
OnMarkContributionQueueAsComplete(reply) ==
  /\ reply.op = "mark"
  /\ inProgress' = FALSE
  /\ timer' = TRUE
  /\ UNCHANGED <<requests, fetches, passes>>

Handle(reply) ==
  \/ OnInsertOrUpdate(reply)
  \/ OnQueueSaved(reply)
  \/ OnGetFirstRecord(reply)
  \/ OnProcessContributionQueue(reply)
  \/ OnEntrySaved(reply)
  \/ OnMarkContributionQueueAsComplete(reply)

\* Mutant of OnRunDBTransaction: a task runner without an order.
OnRunDBTransactionInAnyOrder ==
  \E i \in DOMAIN replies :
    /\ Handle(replies[i])
    /\ replies' = RemoveAt(replies, i)
    /\ UNCHANGED <<tables, bounds, asked, refused, overlapped>>

OnRunDBTransaction ==
  /\ replies # <<>>
  /\ Handle(Head(replies))
  /\ replies' = Tail(replies)
  /\ UNCHANGED <<tables, bounds, asked, refused, overlapped>>

-----------------------------------------------------------------------------
(* Balances, the timer, restarts.                                          *)

Answered(i) == fetches' = RemoveAt(fetches, i)

OnBalance(i) ==
  /\ i \in DOMAIN fetches
  /\ \E balance \in Balances : Process(fetches[i], balance)
  /\ Answered(i)
  /\ UNCHANGED <<tables, replies, inProgress, timer, bounds, asked, passes, overlapped>>

\* Mutant of OnBalanceError: the flag stays up.
OnBalanceErrorReturns(i) ==
  /\ i \in DOMAIN fetches
  /\ fetchErrors < MaxFetchErrors
  /\ fetchErrors' = fetchErrors + 1
  /\ Answered(i)
  /\ UNCHANGED <<tables, requests, replies, inProgress, timer, crashes, dbErrors, history>>

(* OnBalance with an error: the flag falls and no timer is started. *)
OnBalanceError(i) ==
  /\ i \in DOMAIN fetches
  /\ fetchErrors < MaxFetchErrors
  /\ fetchErrors' = fetchErrors + 1
  /\ inProgress' = FALSE
  /\ Answered(i)
  /\ UNCHANGED <<tables, requests, replies, timer, crashes, dbErrors, history>>

QueueTimerFires ==
  /\ timer
  /\ timer' = FALSE
  /\ ProcessContributionQueue
  /\ UNCHANGED <<tables, replies, fetches, inProgress, bounds, history>>

(* The process dies and Initialize runs again: what was posted and not yet *)
(* executed, and every callback, is gone.                                  *)
Restart ==
  /\ crashes < MaxCrashes
  /\ crashes' = crashes + 1
  /\ requests' = <<>> /\ replies' = <<>> /\ fetches' = <<>>
  /\ inProgress' = FALSE /\ timer' = TRUE
  /\ UNCHANGED <<tables, dbErrors, fetchErrors, history>>

Next ==
  \/ \E e \in Entries : SaveTip(e) \/ SaveAutoContribution(e)
  \/ PrepareTipList
  \/ RunDBTransaction
  \/ OnRunDBTransaction
  \/ \E i \in DOMAIN fetches : OnBalance(i) \/ OnBalanceError(i)
  \/ QueueTimerFires
  \/ Restart

Spec == Init /\ [][Next]_vars

(* The two sequences run what is posted to them, a timer that runs fires,  *)
(* and a balance fetch is answered.                                        *)
Fairness ==
  /\ WF_vars(RunDBTransaction)
  /\ WF_vars(OnRunDBTransaction)
  /\ WF_vars(QueueTimerFires)
  /\ WF_vars(\E i \in DOMAIN fetches : OnBalance(i))

FairSpec == Spec /\ Fairness

-----------------------------------------------------------------------------
(* Properties.                                                             *)

Done(e) == \E i \in DOMAIN rows : rows[i].entry = e /\ rows[i].done
NoFailure == dbErrors = 0 /\ fetchErrors = 0

(* While queue_in_progress_ is raised some entry is still being processed  *)
(* and will lower it, so the queue is never shut for good, whatever pokes, *)
(* crashes and balance failures come together; a failed transaction can    *)
(* leave it raised with nobody behind (see the README).                    *)
RaisedFlagIsLowered == dbErrors = 0 /\ inProgress => Processing

(* Each time an entry is taken from the queue, its split over the wallets  *)
(* never commits more than the amount it was made with, whatever fails in  *)
(* between: CreateNewEntry, OnEntrySaved and the row saved again agree on  *)
(* what is left.                                                           *)
PaidWithinPasses == \A e \in Entries : paid[e] <= asked[e] * passes[e]

(* Without failed transactions, and unless two flows ran at once, an entry *)
(* is committed at most once: the wait between reading the entry and       *)
(* raising the flag is the only way to pay it twice.                       *)
PaidOnceUnlessOverlapped ==
  dbErrors = 0 /\ crashes = 0 /\ ~overlapped => \A e \in Entries : paid[e] <= asked[e]

(* The tables and channels are well formed, and an entry is paid once.     *)
QueueConsistent == TypeOK /\ PaidOnceUnlessOverlapped

(* A completed tip is paid in full or not at all: the balance is checked   *)
(* against the whole amount and the split spends that same balance.  A     *)
(* crash may leave it half paid, the rest refused later.                   *)
TipsAllOrNothing ==
  dbErrors = 0 /\ crashes = 0 /\ ~Processing =>
    \A e \in Tips \cup RecurringTips :
      Done(e) => paid[e] = 0 \/ paid[e] >= asked[e]

(* An entry is completed only after a contribution was saved for it or the *)
(* funds did not suffice.  In particular it is never read between its row  *)
(* and its publishers, which are saved by two transactions: this rests on  *)
(* the order of the file task runner, and a crash there loses the entry.   *)
CompletedWasServed ==
  dbErrors = 0 /\ crashes = 0 =>
    \A e \in Entries : Done(e) => paid[e] > 0 \/ e \in refused

(* A completed entry is not opened again: the row saved again for a split  *)
(* always precedes the mark, unless two flows ran at once.                 *)
CompletedStaysCompleted ==
  [][~overlapped' => \A e \in Entries : Done(e) => Done(e)']_vars

(* Every row of the queue is completed in the end, and stays so, whatever  *)
(* the interleaving of pokes and crashes, when no transaction and no       *)
(* balance fetch fails.                                                    *)
EveryEntryCompletes ==
  \A e \in Entries :
    (\E i \in DOMAIN rows : rows[i].entry = e) ~> ~NoFailure \/ [](Done(e))

(* What the browser test of pending tips expects of the balance: each tip  *)
(* is committed once.                                                      *)
EntryContributedOnce == \A e \in Entries : paid[e] <= asked[e]
=============================================================================
