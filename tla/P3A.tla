-------------------------------- MODULE P3A --------------------------------
(* Privacy-preserving analytics, src/components/p3a: the values recorded in *)
(* histograms become entries of the log store; a scheduler uploads one entry *)
(* at a time, and every week all of them once more. The prefs (Local State)  *)
(* mirror the log; they reach the disk later than the change that made them. *)
(*                                                                           *)
(* A value is only known by its metric: which bucket it is, and the message  *)
(* built from it, are abstracted. Metrics are numbered in the order of their *)
(* names, the order in which the persisted dictionary is read.               *)
(*                                                                           *)
(* The saved entries are kept under the metric's name as one key. A metric   *)
(* that is suspended leaves the log, but not the prefs: RemoveValueIfExists  *)
(* asks to remove the *path* of that name (brave_p3a_log_store.cc:75), and   *)
(* every name has dots, which separate the keys of a path.                   *)
EXTENDS Naturals, Sequences

CONSTANTS
    NumMetrics,     \* histograms the service collects
    Answers,        \* the metric Brave.P3A.SentAnswersCount
    P2A,            \* metrics of the ads, which suspend them (SuspendP2AHistograms)
    Dropped,        \* metrics a later version no longer collects
    MaxRecords,     \* bounds: values recorded,
    MaxSuspensions, \*   samples that suspend a metric,
    MaxWeeks,       \*   Mondays,
    MaxFailures,    \*   uploads without a successful answer,
    MaxToggles,     \*   changes of the user's setting,
    MaxRestarts     \*   ends of the process

Metrics == 1 .. NumMetrics

(* Metrics are numbered from 1, so that 0 says that nothing is staged.       *)
ASSUME P3AConstants ==
    /\ NumMetrics \in Nat
    /\ Answers \in Metrics
    /\ P2A \subseteq Metrics
    /\ Dropped \subseteq Metrics \ {Answers}
    /\ {MaxRecords, MaxSuspensions, MaxWeeks, MaxFailures, MaxToggles, MaxRestarts} \subseteq Nat

VARIABLES
    tasks,          \* OnHistogramChangedOnUI tasks posted to the UI thread
    initialized,    \* BraveP3AService::initialized_
    early,          \* histogram_values_, recorded before Init
    store,          \* BraveP3ALogStore: log_, unsent_entries_, staged_entry_key_
    prefs,          \* p3a.logs and the time of the last rotation, in memory
    disk,           \* the same, as Local State last reached the disk
    actual,         \* kCollectedHistograms of the running version
    enabled,        \* brave.p3a.enabled
    busy,           \* the scheduler waits for UploadFinished
    upload,         \* the request of BraveP3AUploader
    week,           \* the calendar
    received,       \* reports of each metric the server took since the rotation
    excused,        \* the metric that was staged at the rotation, if any
    left,           \* how often each metric was suspended while in the log
    wasDisabled,    \* the setting was off at some time of this session
    records, failures, toggles, restarts

vars == <<tasks, initialized, early, store, prefs, disk, actual, enabled, busy,
          upload, week, received, excused, left, wasDisabled,
          records, failures, toggles, restarts>>

Kinds == {"value", "suspended"}
Log == [known: SUBSET Metrics, sent: SUBSET Metrics, unsent: SUBSET Metrics,
        staged: Metrics \cup {0}]
Prefs == [known: SUBSET Metrics, sent: SUBSET Metrics, stamped: SUBSET Metrics,
          week: Nat]
Upload == [metric: Metrics \cup {0}, accepted: BOOLEAN]

EmptyLog == [known |-> {}, sent |-> {}, unsent |-> {}, staged |-> 0]
EmptyPrefs == [known |-> {}, sent |-> {}, stamped |-> {}, week |-> 0]
NoUpload == [metric |-> 0, accepted |-> FALSE]
NoEarly == [value |-> {}, suspended |-> {}]

Init ==
    /\ tasks = << >>
    /\ initialized = FALSE
    /\ early = NoEarly
    /\ store = EmptyLog
    /\ prefs = EmptyPrefs
    /\ disk = EmptyPrefs
    /\ actual = Metrics
    /\ enabled = TRUE
    /\ busy = FALSE
    /\ upload = NoUpload
    /\ week = 1
    /\ received = [k \in Metrics |-> 0]
    /\ excused = {}
    /\ left = [k \in Metrics |-> 0]
    /\ wasDisabled = FALSE
    /\ records = [kind \in Kinds |-> 0]
    /\ failures = 0 /\ toggles = 0 /\ restarts = 0

-----------------------------------------------------------------------------
(* The log store. Each operation gives the log and, next to it, the prefs.   *)

(* MUTANT of UpdateLog: a changed value is sent again.                       *)
UpdateLogSendsAgain(s, K) ==
    [known |-> s.known \cup K, sent |-> s.sent \ K,
     unsent |-> s.unsent \cup K, staged |-> s.staged]

(* UpdateValue for the metrics K. The timestamp is not written.              *)
UpdateLog(s, K) ==
    [known |-> s.known \cup K, sent |-> s.sent,
     unsent |-> s.unsent \cup (K \ s.sent), staged |-> s.staged]
UpdatePrefs(p, s, K) ==
    [known |-> p.known \cup K, sent |-> (p.sent \ K) \cup (K \cap s.sent),
     stamped |-> p.stamped, week |-> p.week]

(* MUTANT of RemoveLog: a staged metric stays staged.                        *)
RemoveLogKeepsStaged(s, K) ==
    [s EXCEPT !.known = @ \ K, !.sent = @ \ K, !.unsent = @ \ K]

(* RemoveValueIfExists for the metrics K; a staged one is unstaged. The      *)
(* prefs keep their entries.                                                 *)
RemoveLog(s, K) ==
    [known |-> s.known \ K, sent |-> s.sent \ K, unsent |-> s.unsent \ K,
     staged |-> IF s.staged \in K THEN 0 ELSE s.staged]
(* MUTANTS of ResetPrefs: the flag, or the timestamp, is not written.        *)
ResetPrefsTimestamp(p, s) == [p EXCEPT !.stamped = @ \ s.sent]
ResetPrefsFlag(p, s) == [p EXCEPT !.sent = @ \ s.sent]

(* ResetUploadStamps: every entry is unsent again; a staged one stays staged.*)
ResetLog(s) ==
    [known |-> s.known, sent |-> {}, unsent |-> s.known, staged |-> s.staged]
ResetPrefs(p, s) ==
    [known |-> p.known, sent |-> p.sent \ s.sent, stamped |-> p.stamped \ s.sent,
     week |-> p.week]

(* DoRotation writes the flags and when it ran.                              *)
RotatePrefs(p, s, w) == [ResetPrefs(p, s) EXCEPT !.week = w]

(* DiscardStagedLog: the staged entry, if any, is marked as sent.            *)
DiscardLog(s) ==
    LET K == {s.staged} \ {0} IN
    [known |-> s.known, sent |-> s.sent \cup K, unsent |-> s.unsent \ K, staged |-> 0]
DiscardPrefs(p, s) ==
    LET K == {s.staged} \ {0} IN
    [known |-> p.known, sent |-> p.sent \cup K, stamped |-> p.stamped \cup K,
     week |-> p.week]

(* A persisted entry that is not sent but has a timestamp ends the load.     *)
Malformed(p) == p.stamped \ p.sent

(* LoadPersistedUnsentLogs. Obsolete entries are erased from the dictionary  *)
(* the loop iterates over: which of the entries behind one are still read    *)
(* (all but `skipped`) is undefined. Read(p, a, skipped) are the entries up  *)
(* to the first malformed one that the version collecting a reads.           *)
Obsolete(p, a) == p.known \ a
Skippable(p, a) == {k \in p.known : \E j \in Obsolete(p, a) : j < k}
Read(p, a, skipped) ==
    {k \in p.known \ skipped :
        \A j \in (Malformed(p) \cap a) \ skipped : k < j}
LoadedLog(p, a, skipped) ==
    LET K == Read(p, a, skipped) \cap a IN
    [known |-> K, sent |-> K \cap p.sent, unsent |-> K \ p.sent, staged |-> 0]
LoadedPrefs(p, a, skipped) ==
    LET K == Read(p, a, skipped) \ a IN
    [known |-> p.known \ K, sent |-> p.sent \ K, stamped |-> p.stamped \ K,
     week |-> p.week]

-----------------------------------------------------------------------------
(* Any thread records a sample of a collected histogram: OnHistogramChanged  *)
(* posts its value, or that the metric is suspended, to the UI thread.       *)
Record(k, kind) ==
    /\ records[kind] < IF kind = "value" THEN MaxRecords ELSE MaxSuspensions
    /\ k \in actual
    /\ kind = "suspended" => k \in P2A
    /\ tasks' = Append(tasks, [metric |-> k, kind |-> kind])
    /\ records' = [records EXCEPT ![kind] = @ + 1]
    /\ UNCHANGED <<initialized, early, store, prefs, disk, actual, enabled, busy,
                   upload, week, received, excused, left, wasDisabled,
                   failures, toggles, restarts>>

(* The metrics K of the log s are suspended.                                 *)
Left(s, K) == [k \in Metrics |-> IF k \in K \cap s.known THEN left[k] + 1 ELSE left[k]]

(* OnHistogramChangedOnUI: kept until Init, or handled.                      *)
OnHistogramChangedOnUI ==
    /\ tasks # << >>
    /\ tasks' = Tail(tasks)
    /\ LET k == Head(tasks).metric
           suspended == Head(tasks).kind = "suspended"
       IN \/ /\ ~initialized
             /\ early' = IF suspended
                         THEN [value |-> early.value \ {k}, suspended |-> early.suspended \cup {k}]
                         ELSE [value |-> early.value \cup {k}, suspended |-> early.suspended \ {k}]
             /\ UNCHANGED <<store, prefs, left>>
          \/ /\ initialized /\ suspended
             /\ store' = RemoveLog(store, {k})
             /\ left' = Left(store, {k})
             /\ UNCHANGED <<early, prefs>>
          \/ /\ initialized /\ ~suspended
             /\ store' = UpdateLog(store, {k})
             /\ prefs' = UpdatePrefs(prefs, store, {k})
             /\ UNCHANGED <<early, left>>
    /\ UNCHANGED <<initialized, disk, actual, enabled, busy, upload, week, received, excused,
                   wasDisabled, records, failures, toggles, restarts>>

(* Init: the persisted entries, then the early values, then the rotation if  *)
(* a Monday has passed since the last one, whose answer count is recorded.   *)
StartService ==
    /\ ~initialized
    /\ initialized' = TRUE
    /\ early' = NoEarly
    /\ \E skipped \in SUBSET Skippable(prefs, actual) :
         LET s0 == LoadedLog(prefs, actual, skipped)
             p0 == LoadedPrefs(prefs, actual, skipped)
             s1 == UpdateLog(s0, early.value)
             p1 == UpdatePrefs(p0, s0, early.value)
             s2 == RemoveLog(s1, early.suspended)
             rotate == prefs.week < week
         IN /\ store' = IF rotate THEN ResetLog(s2) ELSE s2
            /\ prefs' = IF rotate THEN RotatePrefs(p1, s2, week) ELSE p1
            /\ tasks' = IF rotate THEN Append(tasks, [metric |-> Answers, kind |-> "value"])
                        ELSE tasks
            /\ received' = IF rotate THEN [k \in Metrics |-> 0] ELSE received
            /\ excused' = IF rotate THEN {} ELSE excused
            /\ left' = Left(s1, early.suspended)
    /\ UNCHANGED <<disk, actual, enabled, busy, upload, week, wasDisabled,
                   records, failures, toggles, restarts>>

(* DoRotation when the timer fires, some time after Monday's midnight.       *)
DoRotation ==
    /\ initialized
    /\ prefs.week < week
    /\ store' = ResetLog(store)
    /\ prefs' = RotatePrefs(prefs, store, week)
    /\ tasks' = Append(tasks, [metric |-> Answers, kind |-> "value"])
    /\ received' = [k \in Metrics |-> 0]
    /\ excused' = {store.staged} \ {0}
    /\ UNCHANGED <<initialized, early, disk, actual, enabled, busy, upload, week,
                   left, wasDisabled, records, failures, toggles, restarts>>

(* StartScheduledUpload: the entry staged before, or one of the unsent ones. *)
(* With nothing to stage it schedules the next call and changes nothing.     *)
(* While the service is disabled nobody tells the scheduler it has finished. *)
StartScheduledUpload ==
    /\ initialized
    /\ ~busy
    /\ store.unsent # {}
    /\ busy' = TRUE
    /\ \E k \in IF store.staged = 0 THEN store.unsent ELSE {store.staged} :
         /\ store' = [store EXCEPT !.staged = k]
         /\ upload' = IF enabled
                      THEN [metric |-> k, accepted |-> FALSE] ELSE upload
    /\ UNCHANGED <<tasks, initialized, early, prefs, disk, actual, enabled, week, received,
                   excused, left, wasDisabled, records, failures, toggles, restarts>>

(* The server takes the report.                                              *)
ServerAccepts ==
    /\ upload.metric # 0
    /\ ~upload.accepted
    /\ upload' = [upload EXCEPT !.accepted = TRUE]
    /\ received' = [received EXCEPT ![upload.metric] = @ + 1]
    /\ UNCHANGED <<tasks, initialized, early, store, prefs, disk, actual, enabled, busy,
                   week, excused, left, wasDisabled, records, failures, toggles, restarts>>

(* MUTANT of UploadFinished: not told of a failed upload.                    *)
UploadFinishedIfOk(ok) == busy' = ~ok

(* UploadFinished: the scheduler may run again, at once or after the backoff.*)
UploadFinished(ok) == busy' = FALSE

(* OnUploadComplete, OnLogUploadComplete: after a status of 200 the staged    *)
(* log is discarded; a failed upload, whose report may have arrived, is      *)
(* repeated.                                                                 *)
OnLogUploadComplete(ok) ==
    /\ upload.metric # 0
    /\ IF ok
       THEN /\ upload.accepted
            /\ store' = DiscardLog(store)
            /\ prefs' = DiscardPrefs(prefs, store)
            /\ UNCHANGED failures
       ELSE /\ failures < MaxFailures
            /\ failures' = failures + 1
            /\ UNCHANGED <<store, prefs>>
    /\ UploadFinished(ok)
    /\ upload' = NoUpload
    /\ UNCHANGED <<tasks, initialized, early, disk, actual, enabled, week, received,
                   excused, left, wasDisabled, records, toggles, restarts>>

(* The user's switch, brave://settings/privacy.                              *)
SetP3AEnabled ==
    /\ toggles < MaxToggles
    /\ toggles' = toggles + 1
    /\ enabled' = ~enabled
    /\ wasDisabled' = TRUE
    /\ UNCHANGED <<tasks, initialized, early, store, prefs, disk, actual, busy, upload,
                   week, received, excused, left, records, failures, restarts>>

NextWeek ==
    /\ week < MaxWeeks
    /\ week' = week + 1
    /\ UNCHANGED <<tasks, initialized, early, store, prefs, disk, actual, enabled, busy, upload,
                   received, excused, left, wasDisabled, records, failures, toggles, restarts>>

(* Local State is written some time after it changed.                        *)
CommitPrefs ==
    /\ disk # prefs
    /\ disk' = prefs
    /\ UNCHANGED <<tasks, initialized, early, store, prefs, actual, enabled, busy, upload,
                   week, received, excused, left, wasDisabled, records, failures, toggles, restarts>>

(* The process ends, after writing the prefs or, in a crash, without; the    *)
(* next one may be a version that collects fewer metrics.                    *)
Restart(crash) ==
    /\ restarts < MaxRestarts
    /\ restarts' = restarts + 1
    /\ IF crash
       THEN prefs' = disk /\ UNCHANGED disk
       ELSE disk' = prefs /\ UNCHANGED prefs
    /\ actual' \in {actual, actual \ Dropped}
    /\ tasks' = << >>
    /\ initialized' = FALSE
    /\ early' = NoEarly
    /\ store' = EmptyLog
    /\ busy' = FALSE
    /\ upload' = NoUpload
    /\ wasDisabled' = ~enabled
    /\ UNCHANGED <<enabled, week, received, excused, left, records, failures, toggles>>

Next ==
    \/ \E k \in Metrics, kind \in Kinds : Record(k, kind)
    \/ OnHistogramChangedOnUI
    \/ StartService
    \/ DoRotation
    \/ StartScheduledUpload
    \/ ServerAccepts
    \/ \E ok \in BOOLEAN : OnLogUploadComplete(ok)
    \/ SetP3AEnabled
    \/ NextWeek
    \/ CommitPrefs
    \/ \E crash \in BOOLEAN : Restart(crash)

Spec == Init /\ [][Next]_vars

(* The browser's tasks and timers run; the server answers in the end: an     *)
(* upload fails MaxFailures times at most.                                   *)
FairSpec ==
    /\ Spec
    /\ WF_vars(OnHistogramChangedOnUI)
    /\ WF_vars(StartService)
    /\ WF_vars(StartScheduledUpload)
    /\ WF_vars(ServerAccepts)
    /\ WF_vars(OnLogUploadComplete(TRUE))

-----------------------------------------------------------------------------
(* The variables have the values their declarations describe.                *)
TypeOK ==
    /\ tasks \in Seq([metric: Metrics, kind: Kinds])
    /\ initialized \in BOOLEAN
    /\ early \in [value: SUBSET Metrics, suspended: SUBSET Metrics]
    /\ store \in Log
    /\ prefs \in Prefs
    /\ disk \in Prefs
    /\ actual \in SUBSET Metrics
    /\ enabled \in BOOLEAN
    /\ busy \in BOOLEAN
    /\ upload \in Upload
    /\ week \in Nat
    /\ received \in [Metrics -> Nat]
    /\ excused \in SUBSET Metrics
    /\ left \in [Metrics -> Nat]
    /\ wasDisabled \in BOOLEAN
    /\ records \in [Kinds -> Nat]
    /\ failures \in Nat /\ toggles \in Nat /\ restarts \in Nat

(* The assertions of the log store (brave_p3a_log_store.cc:89-90, 152,       *)
(* 167, 180): an entry is unsent or sent, and the staged one is in the log   *)
(* and unsent, whatever is recorded, suspended or rotated while it is        *)
(* uploaded.                                                                 *)
StoreConsistent ==
    /\ store.sent \subseteq store.known
    /\ store.unsent = store.known \ store.sent
    /\ store.staged \in store.unsent \cup {0}

(* No metric up to k has been suspended or has become obsolete. What either  *)
(* does to the saved entries reaches its own and those behind it.            *)
Spared(k) == \A j \in 1 .. k : j \in actual /\ left[j] = 0

(* An entry marked as sent was taken by the server since the rotation, or it *)
(* was already staged at the rotation (the report is last week's): as long   *)
(* as the metric is spared. The saved entry of one that was suspended after  *)
(* it was sent misses the rotation, which goes over the log, and the next    *)
(* start loads it as sent; so does one that the load passed over.            *)
SentWasReceived ==
    \A k \in store.sent : Spared(k) => received[k] > 0 \/ k \in excused

(* The server takes a metric once per rotation, and once more for each       *)
(* failed upload, each time it is suspended and each end of the process, no  *)
(* more often.                                                               *)
ReportedOnce ==
    \A k \in Metrics : received[k] <= 1 + failures + restarts + left[k]

(* Every saved entry of a spared metric is loaded and can be loaded again,   *)
(* whatever becomes of the entries behind it. (One that is recorded again    *)
(* after a suspension, or after the load has skipped it, is saved as not     *)
(* sent beside its old timestamp. The load ends there: that entry and those  *)
(* behind it are forgotten.)                                                 *)
NothingForgotten ==
    initialized =>
        \A k \in Metrics : Spared(k) =>
            /\ k \in store.known <=> k \in prefs.known
            /\ k \in store.sent <=> k \in prefs.sent
            /\ k \notin Malformed(prefs)

(* A value in the log is sent, or suspended, in the end: unless the process  *)
(* ended or the setting was off at some time. (Once StartScheduledUpload has *)
(* run with the setting off, the scheduler waits for an UploadFinished that  *)
(* never comes, and turning the setting on again does not help: without this *)
(* exception TLC refutes the property.)                                      *)
EveryValueIsSent ==
    \A k \in Metrics :
        k \in store.unsent ~> k \notin store.unsent \/ wasDisabled

=============================================================================
