----------------------------- MODULE P3AProofs -----------------------------
(* Proofs about the analytics service, for every number of metrics and every *)
(* value of the bounds: type correctness, the assertions of the log store,   *)
(* the number of reports, what is loaded again, and that what is marked as   *)
(* sent has been received.                                                   *)
EXTENDS P3A, SequenceTheorems, TLAPS

(* The server took the metric since the rotation, or it is excused.          *)
Got(k) == received[k] > 0 \/ k \in excused

(* Nothing runs before Init.                                                 *)
Idle == ~initialized => store = EmptyLog /\ upload = NoUpload /\ ~busy

(* The upload under way is that of the staged metric, unless that one was    *)
(* suspended, and then nothing is staged until the upload has ended.         *)
UploadOfStaged ==
    upload.metric # 0 =>
        /\ busy
        /\ store.staged \in {0, upload.metric}
        /\ upload.accepted /\ store.staged = upload.metric => Got(upload.metric)

(* A metric that is neither marked as sent nor just taken was received once  *)
(* per failure, suspension or end of the process at most; one that was       *)
(* suspended while its report is on its way once less.                       *)
Excess(k) == failures + restarts + left[k]
JustTaken(k) == upload.metric = k /\ upload.accepted /\ store.staged = k
Astray(k) == upload.metric = k /\ ~upload.accepted /\ store.staged # k
BoundOf(k) ==
    /\ received[k] <= 1 + Excess(k)
    /\ k \notin store.sent /\ ~JustTaken(k) => received[k] <= Excess(k)
    /\ Astray(k) => received[k] + 1 <= Excess(k)
ReceivedBound == \A k \in Metrics : BoundOf(k)

(* The saved entry of k can be loaded.                                       *)
Loadable(p, k) == (k \in p.sent => k \in p.known) /\ (k \in p.stamped => k \in p.sent)

(* The log and the prefs agree on k.                                         *)
Mirrored(s, p, k) == (k \in s.known <=> k \in p.known) /\ (k \in s.sent <=> k \in p.sent)

Weeks == disk.week <= prefs.week /\ prefs.week <= week

Saved ==
    \A k \in Metrics : Spared(k) =>
        /\ Loadable(prefs, k) /\ Loadable(disk, k)
        /\ initialized => Mirrored(store, prefs, k)

(* What the log, and the prefs and the disk of this week, say is sent is so. *)
SentIsGot ==
    \A k \in Metrics : Spared(k) =>
        /\ k \in store.sent => Got(k)
        /\ prefs.week = week /\ k \in prefs.sent => Got(k)
        /\ disk.week = week /\ k \in disk.sent => Got(k)

IInv ==
    /\ TypeOK
    /\ StoreConsistent
    /\ Idle
    /\ UploadOfStaged
    /\ ReceivedBound
    /\ Weeks
    /\ Saved
    /\ SentIsGot

-----------------------------------------------------------------------------
(* What is spared, and that it was spared before.                            *)
LEMMA SparedFacts ==
    ASSUME NEW k \in Metrics, Spared(k)
    PROVE  /\ k \in actual /\ left[k] = 0
           /\ \A j \in Metrics : j <= k => Spared(j) /\ j \in actual
<1>1. k \in Nat /\ k \in 1 .. k
  BY P3AConstants DEF Metrics
<1>2. ASSUME NEW j \in Metrics, j <= k
      PROVE  Spared(j) /\ j \in actual
  <2>1. j \in Nat /\ j \in 1 .. k /\ \A i \in 1 .. j : i \in 1 .. k
    BY <1>1, <1>2, P3AConstants DEF Metrics
  <2> QED
    BY <2>1 DEF Spared
<1> QED
  BY <1>1, <1>2 DEF Spared

LEMMA SparedBefore ==
    ASSUME NEW k \in Metrics, Spared(k)', actual' \subseteq actual,
           \A j \in Metrics : left'[j] = 0 => left[j] = 0
    PROVE  Spared(k) /\ left'[k] = 0
<1>1. \A j \in 1 .. k : j \in Metrics
  BY P3AConstants DEF Metrics
<1>2. k \in 1 .. k
  BY P3AConstants DEF Metrics
<1> QED
  BY <1>1, <1>2 DEF Spared

LEMMA SparedSame ==
    ASSUME UNCHANGED <<actual, left>>, NEW k \in Metrics
    PROVE  Spared(k)' <=> Spared(k)
BY DEF Spared

-----------------------------------------------------------------------------
(* What the operations of the log store return.                              *)
Consistent(s) ==
    /\ s.sent \subseteq s.known
    /\ s.unsent = s.known \ s.sent
    /\ s.staged \in s.unsent \cup {0}

LEMMA UpdateLogOp ==
    ASSUME NEW s \in Log, Consistent(s), NEW K \in SUBSET Metrics
    PROVE  UpdateLog(s, K) \in Log /\ Consistent(UpdateLog(s, K))
BY DEF Log, UpdateLog, Metrics, Consistent

LEMMA RemoveLogOp ==
    ASSUME NEW s \in Log, Consistent(s), NEW K \in SUBSET Metrics
    PROVE  RemoveLog(s, K) \in Log /\ Consistent(RemoveLog(s, K))
BY DEF Log, RemoveLog, Metrics, Consistent

LEMMA ResetLogOp ==
    ASSUME NEW s \in Log, Consistent(s)
    PROVE  ResetLog(s) \in Log /\ Consistent(ResetLog(s))
BY DEF Log, ResetLog, Metrics, Consistent

LEMMA DiscardLogOp ==
    ASSUME NEW s \in Log, Consistent(s)
    PROVE  /\ DiscardLog(s) \in Log
           /\ Consistent(DiscardLog(s))
           /\ DiscardLog(s).known = s.known
           /\ DiscardLog(s).sent = s.sent \cup ({s.staged} \ {0})
           /\ DiscardLog(s).staged = 0
<1>1. ({s.staged} \ {0}) \in SUBSET Metrics
  BY DEF Log, Metrics
<1> QED
  BY <1>1 DEF Log, DiscardLog, Consistent

LEMMA PrefsOps ==
    ASSUME NEW p \in Prefs, NEW s \in Log, NEW K \in SUBSET Metrics
    PROVE  /\ UpdatePrefs(p, s, K) \in Prefs
           /\ UpdatePrefs(p, s, K).known = p.known \cup K
           /\ UpdatePrefs(p, s, K).sent = (p.sent \ K) \cup (K \cap s.sent)
           /\ UpdatePrefs(p, s, K).stamped = p.stamped
           /\ UpdatePrefs(p, s, K).week = p.week
           /\ ResetPrefs(p, s) \in Prefs
           /\ ResetPrefs(p, s).known = p.known
           /\ ResetPrefs(p, s).sent = p.sent \ s.sent
           /\ ResetPrefs(p, s).stamped = p.stamped \ s.sent
           /\ ResetPrefs(p, s).week = p.week
           /\ DiscardPrefs(p, s) \in Prefs
           /\ DiscardPrefs(p, s).known = p.known
           /\ DiscardPrefs(p, s).sent = p.sent \cup ({s.staged} \ {0})
           /\ DiscardPrefs(p, s).stamped = p.stamped \cup ({s.staged} \ {0})
           /\ DiscardPrefs(p, s).week = p.week
BY DEF Log, Prefs, UpdatePrefs, ResetPrefs, DiscardPrefs, Metrics

(* The load gives a consistent log, and the entry of k when it and all those *)
(* before it can be loaded and none is obsolete.                             *)
LEMMA LoadOps ==
    ASSUME NEW p \in Prefs, NEW a \in SUBSET Metrics, NEW skipped \in SUBSET Skippable(p, a)
    PROVE  /\ LoadedLog(p, a, skipped) \in Log
           /\ Consistent(LoadedLog(p, a, skipped))
           /\ LoadedLog(p, a, skipped).staged = 0
           /\ LoadedPrefs(p, a, skipped) \in Prefs
           /\ LoadedPrefs(p, a, skipped).week = p.week
           /\ \A k \in Metrics :
                (\A j \in Metrics : j <= k => j \in a /\ Loadable(p, j)) =>
                  /\ Mirrored(LoadedLog(p, a, skipped), p, k)
                  /\ Mirrored(LoadedPrefs(p, a, skipped), p, k)
                  /\ k \in LoadedPrefs(p, a, skipped).stamped <=> k \in p.stamped
<1> DEFINE L == LoadedLog(p, a, skipped)
           Q == LoadedPrefs(p, a, skipped)
           R == Read(p, a, skipped)
           K == R \cap a
<1>1. K \in SUBSET Metrics /\ R \in SUBSET Metrics /\ p.known \in SUBSET Metrics
  BY DEF Read, Prefs
<1>2. L = [known |-> K, sent |-> K \cap p.sent, unsent |-> K \ p.sent, staged |-> 0]
  BY DEF LoadedLog
<1>3. Q = [known |-> p.known \ (R \ a), sent |-> p.sent \ (R \ a),
           stamped |-> p.stamped \ (R \ a), week |-> p.week]
  BY DEF LoadedPrefs
<1>4. Q \in Prefs
  BY <1>3 DEF Prefs
<1>5. L \in Log
  <2>1. p.sent \in SUBSET Metrics
    BY DEF Prefs
  <2> QED
    BY <1>1, <1>2, <2>1 DEF Log
<1>6. Consistent(L)
  BY <1>2 DEF Consistent
<1>7. ASSUME NEW k \in Metrics, \A j \in Metrics : j <= k => j \in a /\ Loadable(p, j)
      PROVE  Mirrored(L, p, k) /\ Mirrored(Q, p, k) /\ (k \in Q.stamped <=> k \in p.stamped)
  <2>1. k <= k /\ k \in Nat
    BY P3AConstants DEF Metrics
  <2>2. k \in a /\ Loadable(p, k)
    BY <1>7, <2>1
  <2>3. \A j \in Metrics : j \in Nat /\ (~(k < j) => j <= k)
    BY <2>1, P3AConstants DEF Metrics
  <2>4. k \notin skipped
    <3>1. ASSUME k \in Skippable(p, a) PROVE FALSE
      <4>1. PICK j \in Obsolete(p, a) : j < k
        BY <3>1 DEF Skippable
      <4>2. j \in Metrics /\ j \notin a
        BY <1>1 DEF Obsolete
      <4>3. j <= k
        BY <4>1, <4>2, <2>1, <2>3
      <4> QED
        BY <4>2, <4>3, <1>7
    <3> QED
      BY <3>1
  <2>5. \A j \in Malformed(p) \cap a : k < j
    <3>1. \A j \in Malformed(p) : j \in Metrics /\ ~Loadable(p, j)
      BY DEF Malformed, Loadable, Prefs
    <3> QED
      BY <3>1, <2>3, <1>7
  <2>6. k \in R <=> k \in p.known
    BY <2>4, <2>5 DEF Read
  <2> QED
    BY <1>2, <1>3, <2>2, <2>6 DEF Mirrored, Loadable
<1>8. L.staged = 0 /\ Q.week = p.week
  BY <1>2, <1>3
<1> QED
  BY <1>4, <1>5, <1>6, <1>7, <1>8

-----------------------------------------------------------------------------
LEMMA EmptyTypes ==
    /\ EmptyLog \in Log
    /\ EmptyPrefs \in Prefs
    /\ NoUpload \in Upload
    /\ NoEarly \in [value: SUBSET Metrics, suspended: SUBSET Metrics]
BY DEF EmptyLog, Log, EmptyPrefs, Prefs, NoUpload, Upload, NoEarly

THEOREM InitInvariant == Init => IInv
<1> SUFFICES ASSUME Init PROVE IInv
  OBVIOUS
<1> USE P3AConstants DEF Init
<1>a. EmptyLog \in Log /\ EmptyPrefs \in Prefs /\ NoUpload \in Upload
  BY EmptyTypes
<1>b. early \in [value: SUBSET Metrics, suspended: SUBSET Metrics]
  BY EmptyTypes
<1>c. received \in [Metrics -> Nat]
  OBVIOUS
<1>d. tasks \in Seq([metric: Metrics, kind: Kinds])
  OBVIOUS
<1>e. left \in [Metrics -> Nat] /\ records \in [Kinds -> Nat]
  OBVIOUS
<1>1. TypeOK
  BY <1>a, <1>b, <1>c, <1>d, <1>e DEF TypeOK
<1>2. StoreConsistent /\ Idle /\ UploadOfStaged
  BY DEF StoreConsistent, Idle, UploadOfStaged, EmptyLog, NoUpload
<1>3. ReceivedBound
  BY DEF ReceivedBound, BoundOf, Excess, JustTaken, Astray, EmptyLog, NoUpload, Metrics
<1>4. Weeks /\ Saved /\ SentIsGot
  BY DEF Weeks, Saved, SentIsGot, Loadable, EmptyPrefs, EmptyLog
<1> QED
  BY <1>1, <1>2, <1>3, <1>4 DEF IInv

(* The steps that leave the log store and its prefs alone.                   *)
LEMMA QuietStep ==
    ASSUME IInv, UNCHANGED <<initialized, store, prefs, actual, busy, upload,
                             received, excused, left, failures, restarts>>,
           TypeOK', week' >= week,
           disk' \in {disk, prefs}
    PROVE  IInv'
<1> USE DEF IInv
<1>1. StoreConsistent' /\ Idle' /\ UploadOfStaged'
  BY DEF StoreConsistent, Idle, UploadOfStaged, Got
<1>2. ReceivedBound'
  BY DEF ReceivedBound, BoundOf, Excess, JustTaken, Astray
<1>3. Weeks'
  BY DEF Weeks, TypeOK, Prefs
<1>4. Saved'
  BY SparedSame DEF Saved, Loadable, Mirrored
<1>5. prefs.week = week' => week = week'
  BY DEF Weeks, TypeOK, Prefs
<1>6. disk.week = week' => week = week'
  BY DEF Weeks, TypeOK, Prefs
<1>7. SentIsGot'
  BY <1>5, <1>6, SparedSame DEF SentIsGot, Got
<1> QED
  BY <1>1, <1>2, <1>3, <1>4, <1>7

LEMMA RecordStep ==
    ASSUME IInv, NEW k \in Metrics, NEW kind \in Kinds, Record(k, kind)
    PROVE  IInv'
<1>1. [metric |-> k, kind |-> kind] \in [metric: Metrics, kind: Kinds]
  OBVIOUS
<1>2. tasks' \in Seq([metric: Metrics, kind: Kinds])
  BY <1>1 DEF IInv, TypeOK, Record
<1>4. records' \in [Kinds -> Nat]
  BY DEF IInv, TypeOK, Record
<1>3. TypeOK'
  BY <1>2, <1>4 DEF IInv, TypeOK, Record
<1> QED
  BY <1>3, QuietStep DEF IInv, TypeOK, Record

LEMMA WeekStep ==
    ASSUME IInv, NextWeek
    PROVE  IInv'
<1>1. TypeOK' /\ week' >= week
  BY DEF IInv, TypeOK, NextWeek
<1> QED
  BY <1>1, QuietStep DEF NextWeek

LEMMA EnabledStep ==
    ASSUME IInv, SetP3AEnabled
    PROVE  IInv'
<1>1. TypeOK' /\ week' >= week
  BY DEF IInv, TypeOK, SetP3AEnabled
<1> QED
  BY <1>1, QuietStep DEF SetP3AEnabled

LEMMA CommitStep ==
    ASSUME IInv, CommitPrefs
    PROVE  IInv'
<1>1. TypeOK' /\ week' >= week
  BY DEF IInv, TypeOK, CommitPrefs
<1> QED
  BY <1>1, QuietStep DEF CommitPrefs

LEMMA AcceptStep ==
    ASSUME IInv, ServerAccepts
    PROVE  IInv'
<1> DEFINE k == upload.metric
<1> USE DEF IInv
<1>1. k \in Metrics /\ ~upload.accepted /\ k # 0
  BY DEF ServerAccepts, TypeOK, Upload
<1>2. upload'.metric = k /\ upload'.accepted /\ upload' \in Upload
  BY DEF ServerAccepts, TypeOK, Upload
<1>3. /\ received' \in [Metrics -> Nat]
      /\ received'[k] = received[k] + 1
      /\ \A j \in Metrics : j # k => received'[j] = received[j]
  BY <1>1 DEF ServerAccepts, TypeOK
<1>4. TypeOK'
  BY <1>2, <1>3 DEF TypeOK, ServerAccepts
<1>5. \A j \in Metrics : Got(j) => Got(j)'
  BY <1>3 DEF Got, TypeOK, ServerAccepts
<1>6. StoreConsistent' /\ Weeks'
  BY DEF StoreConsistent, Weeks, ServerAccepts
<1>7. Idle'
  BY <1>1 DEF Idle, NoUpload, ServerAccepts
<1>8. UploadOfStaged'
  BY <1>1, <1>2, <1>3 DEF UploadOfStaged, ServerAccepts, Got, TypeOK
<1>9. ReceivedBound'
  <2> SUFFICES ASSUME NEW j \in Metrics
               PROVE  BoundOf(j)'
    BY DEF ReceivedBound
  <2>1. received[j] \in Nat /\ Excess(j) \in Nat /\ Excess(j)' = Excess(j) /\ BoundOf(j)
    BY DEF TypeOK, Excess, ServerAccepts, ReceivedBound
  <2>2. CASE j = k /\ store.staged = k
    <3>1. j \notin store.sent /\ ~JustTaken(j)
      BY <1>1, <2>2 DEF StoreConsistent, JustTaken
    <3>2. received[j] <= Excess(j)
      BY <2>1, <3>1 DEF BoundOf
    <3>3. JustTaken(j)' /\ ~Astray(j)'
      BY <1>2, <2>2 DEF JustTaken, Astray, ServerAccepts
    <3> QED
      BY <1>3, <2>1, <2>2, <3>2, <3>3 DEF BoundOf
  <2>3. CASE j = k /\ store.staged # k
    <3>1. Astray(j)
      BY <1>1, <2>3 DEF Astray
    <3>2. received[j] + 1 <= Excess(j)
      BY <2>1, <3>1 DEF BoundOf
    <3>3. ~Astray(j)'
      BY <1>2, <2>3 DEF Astray
    <3> QED
      BY <1>3, <2>1, <2>3, <3>2, <3>3 DEF BoundOf
  <2>4. CASE j # k
    BY <1>2, <1>3, <2>1, <2>4 DEF BoundOf, JustTaken, Astray, ServerAccepts
  <2> QED
    BY <2>2, <2>3, <2>4
<1>10. Saved'
  BY SparedSame DEF Saved, Loadable, Mirrored, ServerAccepts
<1>11. SentIsGot'
  BY <1>5, SparedSame DEF SentIsGot, ServerAccepts
<1> QED
  BY <1>4, <1>6, <1>7, <1>8, <1>9, <1>10, <1>11

LEMMA UploadStep ==
    ASSUME IInv, StartScheduledUpload
    PROVE  IInv'
<1> USE DEF IInv
<1>1. PICK k \in IF store.staged = 0 THEN store.unsent ELSE {store.staged} :
        /\ store' = [store EXCEPT !.staged = k]
        /\ upload' = IF enabled THEN [metric |-> k, accepted |-> FALSE] ELSE upload
  BY DEF StartScheduledUpload
<1>2. k \in store.unsent /\ k \in Metrics /\ k # 0
  BY <1>1 DEF StoreConsistent, TypeOK, Log, Metrics
<1>3. /\ store'.known = store.known /\ store'.sent = store.sent
      /\ store'.unsent = store.unsent /\ store'.staged = k /\ store' \in Log
  BY <1>1, <1>2 DEF TypeOK, Log
<1>4. upload = NoUpload \/ upload.metric = 0
  BY DEF StartScheduledUpload, UploadOfStaged
<1>5. upload' \in Upload
  BY <1>1, <1>2 DEF TypeOK, Upload
<1>6. TypeOK'
  BY <1>3, <1>5 DEF TypeOK, StartScheduledUpload
<1>7. StoreConsistent' /\ Weeks'
  BY <1>2, <1>3 DEF StoreConsistent, Weeks, StartScheduledUpload
<1>8. Idle'
  BY DEF Idle, StartScheduledUpload
<1>9. UploadOfStaged'
  BY <1>1, <1>3, <1>4 DEF UploadOfStaged, StartScheduledUpload, NoUpload
<1>10. ReceivedBound'
  <2> SUFFICES ASSUME NEW j \in Metrics
               PROVE  BoundOf(j)'
    BY DEF ReceivedBound
  <2>1. ~JustTaken(j) /\ ~Astray(j)'
    BY <1>1, <1>3, <1>4 DEF JustTaken, Astray, NoUpload, Metrics
  <2>2. BoundOf(j) /\ Excess(j)' = Excess(j)
    BY DEF ReceivedBound, Excess, StartScheduledUpload
  <2> QED
    BY <2>1, <2>2, <1>3 DEF BoundOf, StartScheduledUpload
<1>11. Saved'
  BY <1>3, SparedSame DEF Saved, Loadable, Mirrored, StartScheduledUpload
<1>12. SentIsGot'
  BY <1>3, SparedSame DEF SentIsGot, Got, StartScheduledUpload
<1> QED
  BY <1>6, <1>7, <1>8, <1>9, <1>10, <1>11, <1>12

LEMMA AnswerStep ==
    ASSUME IInv, NEW ok \in BOOLEAN, OnLogUploadComplete(ok)
    PROVE  IInv'
<1> USE DEF IInv
<1> DEFINE k == upload.metric
           K == {store.staged} \ {0}
<1>1. k \in Metrics /\ k # 0 /\ initialized /\ failures \in Nat /\ failures' \in Nat
  BY DEF OnLogUploadComplete, Idle, NoUpload, TypeOK, Upload
<1>2. Consistent(store) /\ store \in Log /\ prefs \in Prefs /\ NoUpload \in Upload
  BY EmptyTypes DEF StoreConsistent, Consistent, TypeOK
<1>3. CASE ok
  <2>1. /\ upload.accepted /\ store' = DiscardLog(store) /\ prefs' = DiscardPrefs(prefs, store)
        /\ failures' = failures
    BY <1>3 DEF OnLogUploadComplete
  <2>2. /\ store' \in Log /\ Consistent(store') /\ store'.known = store.known
        /\ store'.sent = store.sent \cup K /\ store'.staged = 0
    BY <2>1, <1>2, DiscardLogOp
  <2>3. /\ prefs' \in Prefs /\ prefs'.known = prefs.known /\ prefs'.week = prefs.week
        /\ prefs'.sent = prefs.sent \cup K /\ prefs'.stamped = prefs.stamped \cup K
    BY <2>1, <1>2, PrefsOps
  <2>4. \A j \in K : Got(j) /\ j \in store.known /\ j = k
    BY <2>1, <1>1 DEF UploadOfStaged, StoreConsistent
  <2>5. TypeOK'
    BY <2>1, <2>2, <2>3, <1>2 DEF OnLogUploadComplete, UploadFinished, TypeOK
  <2>6. StoreConsistent' /\ Weeks'
    BY <2>2, <2>3 DEF StoreConsistent, Consistent, Weeks, OnLogUploadComplete
  <2>7. Idle' /\ UploadOfStaged'
    BY <1>1 DEF Idle, UploadOfStaged, OnLogUploadComplete, NoUpload
  <2>8. ReceivedBound'
    <3> SUFFICES ASSUME NEW j \in Metrics
                 PROVE  BoundOf(j)'
      BY DEF ReceivedBound
    <3>1. j \notin store'.sent => ~JustTaken(j) /\ j \notin store.sent
      BY <2>2, <1>1 DEF JustTaken
    <3>2. ~Astray(j)'
      BY DEF Astray, OnLogUploadComplete, NoUpload, Metrics
    <3>3. BoundOf(j) /\ Excess(j)' = Excess(j) /\ received' = received
      BY <2>1 DEF ReceivedBound, Excess, OnLogUploadComplete
    <3> QED
      BY <3>1, <3>2, <3>3 DEF BoundOf
  <2>9. Saved'
    BY <1>1, <2>2, <2>3, <2>4, SparedSame DEF Saved, Loadable, Mirrored, OnLogUploadComplete
  <2>10. SentIsGot'
    BY <2>2, <2>3, <2>4, SparedSame DEF SentIsGot, Got, OnLogUploadComplete
  <2> QED
    BY <2>5, <2>6, <2>7, <2>8, <2>9, <2>10
<1>4. CASE ~ok
  <2>1. store' = store /\ prefs' = prefs /\ failures' = failures + 1
    BY <1>4 DEF OnLogUploadComplete
  <2>2. TypeOK'
    BY <2>1, <1>1, <1>2 DEF OnLogUploadComplete, UploadFinished, TypeOK
  <2>3. StoreConsistent' /\ Weeks' /\ Saved' /\ SentIsGot'
    BY <2>1, SparedSame
       DEF StoreConsistent, Weeks, Saved, Loadable, Mirrored, SentIsGot, Got, OnLogUploadComplete
  <2>4. Idle' /\ UploadOfStaged'
    BY <1>1 DEF Idle, UploadOfStaged, OnLogUploadComplete, NoUpload
  <2>5. ReceivedBound'
    <3> SUFFICES ASSUME NEW j \in Metrics
                 PROVE  BoundOf(j)'
      BY DEF ReceivedBound
    <3>1. Excess(j) \in Nat /\ Excess(j)' = Excess(j) + 1 /\ BoundOf(j) /\ received[j] \in Nat
      BY <2>1 DEF ReceivedBound, Excess, OnLogUploadComplete, TypeOK
    <3>2. ~Astray(j)' /\ received' = received
      BY DEF Astray, OnLogUploadComplete, NoUpload, Metrics
    <3> QED
      BY <3>1, <3>2 DEF BoundOf
  <2> QED
    BY <2>2, <2>3, <2>4, <2>5
<1> QED
  BY <1>3, <1>4

LEMMA AnswersType == [metric |-> Answers, kind |-> "value"] \in [metric: Metrics, kind: Kinds]
BY P3AConstants DEF Kinds

LEMMA RotatePrefsOp ==
    ASSUME NEW p \in Prefs, NEW s \in Log, NEW w \in Nat
    PROVE  /\ RotatePrefs(p, s, w) \in Prefs
           /\ RotatePrefs(p, s, w).known = p.known
           /\ RotatePrefs(p, s, w).sent = p.sent \ s.sent
           /\ RotatePrefs(p, s, w).stamped = p.stamped \ s.sent
           /\ RotatePrefs(p, s, w).week = w
<1>1. RotatePrefs(p, s, w) = [known |-> p.known, sent |-> p.sent \ s.sent,
                              stamped |-> p.stamped \ s.sent, week |-> w]
  BY DEF RotatePrefs, ResetPrefs
<1> QED
  BY <1>1 DEF Prefs

LEMMA RotationStep ==
    ASSUME IInv, DoRotation
    PROVE  IInv'
<1> USE DEF IInv
<1>1. Consistent(store) /\ store \in Log /\ prefs \in Prefs /\ week \in Nat
  BY DEF StoreConsistent, Consistent, TypeOK
<1>2. store' \in Log /\ Consistent(store')
  BY <1>1, ResetLogOp DEF DoRotation
<1>3. store'.known = store.known /\ store'.sent = {} /\ store'.staged = store.staged
  BY DEF DoRotation, ResetLog
<1>4. /\ prefs' \in Prefs /\ prefs'.known = prefs.known /\ prefs'.week = week
      /\ prefs'.sent = prefs.sent \ store.sent /\ prefs'.stamped = prefs.stamped \ store.sent
  BY <1>1, RotatePrefsOp DEF DoRotation
<1>5. excused' = {store.staged} \ {0} /\ excused' \in SUBSET Metrics
  BY <1>1 DEF DoRotation, Log
<1>6. TypeOK'
  <2>1. tasks' \in Seq([metric: Metrics, kind: Kinds])
    BY AnswersType DEF DoRotation, TypeOK
  <2>2. received' \in [Metrics -> Nat]
    BY DEF DoRotation
  <2> QED
    BY <1>2, <1>4, <1>5, <2>1, <2>2 DEF TypeOK, DoRotation
<1>7. StoreConsistent' /\ Idle'
  BY <1>2 DEF StoreConsistent, Consistent, Idle, DoRotation
<1>8. UploadOfStaged'
  BY <1>3, <1>5 DEF UploadOfStaged, Got, DoRotation
<1>9. ReceivedBound'
  <2> SUFFICES ASSUME NEW k \in Metrics
               PROVE  BoundOf(k)'
    BY DEF ReceivedBound
  <2>1. /\ Excess(k) \in Nat /\ Excess(k)' = Excess(k) /\ BoundOf(k)
        /\ received[k] \in Nat /\ received'[k] = 0
    BY DEF ReceivedBound, Excess, DoRotation, TypeOK
  <2>2. Astray(k)' => Astray(k)
    BY <1>3 DEF Astray, DoRotation
  <2> QED
    BY <2>1, <2>2 DEF BoundOf
<1>10. Weeks'
  BY <1>4 DEF Weeks, DoRotation, TypeOK, Prefs
<1>11. Saved'
  BY <1>3, <1>4, SparedSame DEF Saved, Loadable, Mirrored, DoRotation
<1>12. SentIsGot'
  <2>1. disk'.week # week'
    BY DEF DoRotation, Weeks, TypeOK, Prefs
  <2>2. \A k \in Metrics : Spared(k)' => k \notin prefs'.sent
    BY <1>4, SparedSame DEF Saved, Mirrored, DoRotation
  <2> QED
    BY <1>3, <2>1, <2>2 DEF SentIsGot, DoRotation
<1> QED
  BY <1>6, <1>7, <1>8, <1>9, <1>10, <1>11, <1>12

LEMMA HandleStep ==
    ASSUME IInv, OnHistogramChangedOnUI
    PROVE  IInv'
<1> USE DEF IInv
<1> DEFINE k == Head(tasks).metric
<1>a. tasks \in Seq([metric: Metrics, kind: Kinds]) /\ tasks # << >> /\ tasks' = Tail(tasks)
  BY DEF OnHistogramChangedOnUI, TypeOK
<1>b. Head(tasks) \in [metric: Metrics, kind: Kinds] /\ tasks' \in Seq([metric: Metrics, kind: Kinds])
  BY <1>a, HeadTailProperties
<1>1. k \in Metrics /\ {k} \in SUBSET Metrics /\ tasks' \in Seq([metric: Metrics, kind: Kinds])
  BY <1>b
<1>2. Consistent(store) /\ store \in Log /\ prefs \in Prefs
  BY DEF StoreConsistent, Consistent, TypeOK
<1>3. CASE ~initialized
  <2>1. early' \in [value: SUBSET Metrics, suspended: SUBSET Metrics]
    BY <1>1, <1>3 DEF OnHistogramChangedOnUI, TypeOK
  <2>2. UNCHANGED <<store, prefs, left>>
    BY <1>3 DEF OnHistogramChangedOnUI
  <2>3. TypeOK' /\ week' >= week
    BY <1>1, <2>1, <2>2 DEF OnHistogramChangedOnUI, TypeOK
  <2> QED
    BY <2>2, <2>3, QuietStep DEF OnHistogramChangedOnUI
<1>4. CASE initialized /\ Head(tasks).kind = "suspended"
  <2>1. /\ store' = RemoveLog(store, {k}) /\ left' = Left(store, {k})
        /\ early' = early /\ prefs' = prefs
    BY <1>4 DEF OnHistogramChangedOnUI
  <2>2. store' \in Log /\ Consistent(store')
    BY <2>1, <1>1, <1>2, RemoveLogOp
  <2>3. /\ store'.known = store.known \ {k} /\ store'.sent = store.sent \ {k}
        /\ store'.staged = IF store.staged = k THEN 0 ELSE store.staged
    BY <2>1 DEF RemoveLog
  <2>4. /\ left' \in [Metrics -> Nat]
        /\ k \in store.known => left'[k] = left[k] + 1
        /\ k \notin store.known => left'[k] = left[k]
        /\ \A j \in Metrics : j # k => left'[j] = left[j]
    BY <2>1, <1>1 DEF Left, TypeOK
  <2>5. TypeOK'
    BY <1>1, <2>1, <2>2, <2>4 DEF TypeOK, OnHistogramChangedOnUI
  <2>6. StoreConsistent' /\ Idle' /\ Weeks'
    BY <1>4, <2>1, <2>2 DEF StoreConsistent, Consistent, Idle, Weeks, OnHistogramChangedOnUI
  <2>7. UploadOfStaged'
    BY <2>3, <1>1 DEF UploadOfStaged, Got, OnHistogramChangedOnUI, Metrics
  <2>8. ReceivedBound'
    <3> SUFFICES ASSUME NEW j \in Metrics
                 PROVE  BoundOf(j)'
      BY DEF ReceivedBound
    <3>1. /\ received[j] \in Nat /\ Excess(j) \in Nat /\ received'[j] = received[j]
          /\ BoundOf(j) /\ j # 0
      <4>1. received' = received /\ BoundOf(j) /\ j # 0
        BY DEF ReceivedBound, Metrics, OnHistogramChangedOnUI
      <4>2. received[j] \in Nat /\ Excess(j) \in Nat
        BY DEF TypeOK, Excess
      <4> QED
        BY <4>1, <4>2
    <3>2. CASE j = k /\ j \in store.known
      <4>1. Excess(j)' = Excess(j) + 1
        BY <3>2, <2>4 DEF Excess, OnHistogramChangedOnUI, TypeOK
      <4>2. Astray(j)' => received[j] <= Excess(j)
        <5>1. CASE store.staged = j
          <6>1. j \notin store.sent
            BY <5>1, <3>1 DEF StoreConsistent
          <6>2. Astray(j)' => ~JustTaken(j)
            BY DEF Astray, JustTaken, OnHistogramChangedOnUI
          <6> QED
            BY <6>1, <6>2, <3>1 DEF BoundOf
        <5>2. CASE store.staged # j
          <6>1. Astray(j)' => Astray(j)
            BY <5>2 DEF Astray, OnHistogramChangedOnUI
          <6> QED
            BY <6>1, <3>1 DEF BoundOf
        <5> QED
          BY <5>1, <5>2
      <4> QED
        BY <3>1, <4>1, <4>2 DEF BoundOf
    <3>3. CASE ~(j = k /\ j \in store.known)
      <4>1. Excess(j)' = Excess(j)
        BY <3>3, <2>4 DEF Excess, OnHistogramChangedOnUI
      <4>2. j = k => store.staged # j /\ j \notin store.sent
        BY <3>1, <3>3 DEF StoreConsistent
      <4>3. (store'.staged = j <=> store.staged = j) /\ (j \in store'.sent <=> j \in store.sent)
        BY <2>3, <3>1, <4>2
      <4>4. (Astray(j)' <=> Astray(j)) /\ (JustTaken(j)' <=> JustTaken(j))
        BY <4>3 DEF Astray, JustTaken, OnHistogramChangedOnUI
      <4> QED
        BY <3>1, <4>1, <4>3, <4>4 DEF BoundOf
    <3> QED
      BY <3>2, <3>3
  <2>9. ASSUME NEW j \in Metrics, Spared(j)'
        PROVE  /\ Spared(j)
               /\ (j \in store'.known <=> j \in store.known)
               /\ (j \in store'.sent <=> j \in store.sent)
    <3>1. \A i \in Metrics : left'[i] = 0 => left[i] = 0
      BY <2>4 DEF TypeOK
    <3>2. Spared(j) /\ left'[j] = 0
      BY <2>9, <3>1, SparedBefore DEF OnHistogramChangedOnUI
    <3>3. j = k => j \notin store.known
      BY <3>2, <2>4 DEF TypeOK
    <3> QED
      BY <3>2, <3>3, <2>3 DEF StoreConsistent
  <2>10. Saved'
    BY <2>1, <2>9 DEF Saved, Loadable, Mirrored, OnHistogramChangedOnUI
  <2>11. SentIsGot'
    BY <2>1, <2>9 DEF SentIsGot, Got, OnHistogramChangedOnUI
  <2> QED
    BY <2>5, <2>6, <2>7, <2>8, <2>10, <2>11
<1>5. CASE initialized /\ Head(tasks).kind # "suspended"
  <2>1. /\ store' = UpdateLog(store, {k}) /\ prefs' = UpdatePrefs(prefs, store, {k})
        /\ UNCHANGED <<early, left>>
    BY <1>5 DEF OnHistogramChangedOnUI
  <2>2. store' \in Log /\ Consistent(store')
    BY <2>1, <1>1, <1>2, UpdateLogOp
  <2>3. /\ store'.known = store.known \cup {k} /\ store'.sent = store.sent
        /\ store'.staged = store.staged
    BY <2>1 DEF UpdateLog
  <2>4. /\ prefs' \in Prefs /\ prefs'.known = prefs.known \cup {k} /\ prefs'.week = prefs.week
        /\ prefs'.sent = (prefs.sent \ {k}) \cup ({k} \cap store.sent)
        /\ prefs'.stamped = prefs.stamped
    BY <2>1, <1>1, <1>2, PrefsOps
  <2>5. TypeOK'
    BY <1>1, <2>1, <2>2, <2>4 DEF TypeOK, OnHistogramChangedOnUI
  <2>6. StoreConsistent' /\ Idle' /\ Weeks'
    BY <1>5, <2>2, <2>4 DEF StoreConsistent, Consistent, Idle, Weeks, OnHistogramChangedOnUI
  <2>7. UploadOfStaged' /\ ReceivedBound'
    BY <2>1, <2>3
       DEF UploadOfStaged, ReceivedBound, BoundOf, Excess, JustTaken, Astray, Got, OnHistogramChangedOnUI
  <2>8. \A j \in Metrics : Spared(j) => (j \in prefs'.sent <=> j \in prefs.sent)
    BY <1>5, <2>4 DEF Saved, Mirrored
  <2>9. Saved'
    BY <1>5, <2>3, <2>4, <2>8, SparedSame DEF Saved, Loadable, Mirrored, OnHistogramChangedOnUI
  <2>10. SentIsGot'
    BY <2>1, <2>3, <2>4, <2>8, SparedSame DEF SentIsGot, Got, OnHistogramChangedOnUI
  <2> QED
    BY <2>5, <2>6, <2>7, <2>9, <2>10
<1> QED
  BY <1>3, <1>4, <1>5

LEMMA RestartStep ==
    ASSUME IInv, NEW crash \in BOOLEAN, Restart(crash)
    PROVE  IInv'
<1> USE DEF IInv
<1>1. /\ store' = EmptyLog /\ upload' = NoUpload /\ ~busy' /\ ~initialized'
      /\ received' = received /\ failures' = failures /\ restarts' = restarts + 1
      /\ week' = week /\ left' = left /\ excused' = excused
  BY DEF Restart
<1>2. actual' \in SUBSET Metrics /\ actual' \subseteq actual
  BY DEF Restart, TypeOK
<1>9. \A k \in Metrics : Spared(k)' => Spared(k)
  BY <1>1, <1>2, SparedBefore
<1>3. TypeOK'
  <2>1. tasks' \in Seq([metric: Metrics, kind: Kinds])
    BY DEF Restart
  <2>2. early' \in [value: SUBSET Metrics, suspended: SUBSET Metrics]
    BY EmptyTypes DEF Restart
  <2>3. prefs' \in Prefs /\ disk' \in Prefs /\ excused' \in SUBSET Metrics
    BY DEF Restart, TypeOK
  <2>4. store' \in Log /\ upload' \in Upload
    BY <1>1, EmptyTypes
  <2>5. wasDisabled' \in BOOLEAN /\ busy' \in BOOLEAN /\ initialized' \in BOOLEAN
    BY DEF Restart, TypeOK
  <2> QED
    BY <1>1, <1>2, <2>1, <2>2, <2>3, <2>4, <2>5 DEF TypeOK, Restart
<1>4. StoreConsistent' /\ Idle' /\ UploadOfStaged'
  BY <1>1 DEF StoreConsistent, Idle, UploadOfStaged, EmptyLog, NoUpload
<1>5. ReceivedBound'
  <2> SUFFICES ASSUME NEW k \in Metrics
               PROVE  BoundOf(k)'
    BY DEF ReceivedBound
  <2>1. /\ received[k] \in Nat /\ received'[k] = received[k]
        /\ Excess(k) \in Nat /\ Excess(k)' = Excess(k) + 1 /\ BoundOf(k)
    BY <1>1 DEF TypeOK, Excess, ReceivedBound
  <2>2. ~Astray(k)'
    BY <1>1 DEF Astray, NoUpload, Metrics
  <2> QED
    BY <2>1, <2>2 DEF BoundOf
<1>6. Weeks'
  BY <1>1 DEF Weeks, Restart, TypeOK, Prefs
<1>7. Saved'
  BY <1>1, <1>9 DEF Saved, Restart, Loadable, Mirrored
<1>8. SentIsGot'
  <2>1. prefs' \in {prefs, disk} /\ disk' \in {prefs, disk}
    BY DEF Restart
  <2> QED
    BY <1>1, <1>9, <2>1 DEF SentIsGot, Got, EmptyLog
<1> QED
  BY <1>3, <1>4, <1>5, <1>6, <1>7, <1>8

(* Init: what it does to the log, the prefs and the history, whether it      *)
(* rotates or not.                                                           *)
LEMMA StartEffect ==
    ASSUME IInv, StartService
    PROVE  /\ store' \in Log /\ Consistent(store') /\ store'.staged = 0
           /\ prefs' \in Prefs /\ prefs'.week = week
           /\ left' \in [Metrics -> Nat]
           /\ \A k \in Metrics : left'[k] >= left[k]
           /\ \A k \in Metrics : Spared(k)' =>
                /\ Spared(k) /\ Mirrored(store', prefs', k) /\ Loadable(prefs', k)
                /\ prefs.week = week /\ k \in store'.sent => k \in prefs.sent
                /\ prefs.week < week => k \notin store'.sent
<1> USE DEF IInv
<1>1. PICK skipped \in SUBSET Skippable(prefs, actual) :
         LET s0 == LoadedLog(prefs, actual, skipped)
             p0 == LoadedPrefs(prefs, actual, skipped)
             s1 == UpdateLog(s0, early.value)
             p1 == UpdatePrefs(p0, s0, early.value)
             s2 == RemoveLog(s1, early.suspended)
             rotate == prefs.week < week
         IN /\ store' = IF rotate THEN ResetLog(s2) ELSE s2
            /\ prefs' = IF rotate THEN RotatePrefs(p1, s2, week) ELSE p1
            /\ left' = Left(s1, early.suspended)
  BY DEF StartService
<1> DEFINE s0 == LoadedLog(prefs, actual, skipped)
           p0 == LoadedPrefs(prefs, actual, skipped)
           s1 == UpdateLog(s0, early.value)
           p1 == UpdatePrefs(p0, s0, early.value)
           s2 == RemoveLog(s1, early.suspended)
<1>2. /\ prefs \in Prefs /\ actual \in SUBSET Metrics /\ week \in Nat /\ prefs.week \in Nat
      /\ early.value \in SUBSET Metrics /\ early.suspended \in SUBSET Metrics
      /\ prefs.week <= week /\ actual' = actual
  BY DEF TypeOK, Prefs, Weeks, StartService
<1>3. /\ s0 \in Log /\ Consistent(s0) /\ s0.staged = 0 /\ p0 \in Prefs /\ p0.week = prefs.week
  BY <1>2, LoadOps
<1>4. s1 \in Log /\ Consistent(s1)
  BY <1>2, <1>3, UpdateLogOp
<1>5. /\ s1.known = s0.known \cup early.value /\ s1.sent = s0.sent /\ s1.staged = 0
  BY <1>3 DEF UpdateLog
<1>6. /\ p1 \in Prefs /\ p1.known = p0.known \cup early.value /\ p1.stamped = p0.stamped
      /\ p1.sent = (p0.sent \ early.value) \cup (early.value \cap s0.sent) /\ p1.week = p0.week
  BY <1>2, <1>3, PrefsOps
<1>7. s2 \in Log /\ Consistent(s2)
  BY <1>2, <1>4, RemoveLogOp
<1>8. /\ s2.known = s1.known \ early.suspended /\ s2.sent = s1.sent \ early.suspended
      /\ s2.staged = 0
  BY <1>5 DEF RemoveLog
<1>9. /\ left' \in [Metrics -> Nat]
      /\ \A k \in Metrics : left'[k] >= left[k]
      /\ \A k \in early.suspended \cap s1.known : left'[k] # 0
  <2>1. left' = Left(s1, early.suspended) /\ left \in [Metrics -> Nat]
    BY <1>1 DEF TypeOK
  <2> HIDE DEF s1
  <2> QED
    BY <1>2, <2>1 DEF Left
<1>10. ASSUME NEW k \in Metrics, Spared(k)'
       PROVE  /\ Spared(k) /\ Mirrored(s2, p1, k) /\ Loadable(p1, k)
              /\ k \in s2.sent => k \in prefs.sent
  <2>1. Spared(k) /\ left'[k] = 0
    <3>1. \A j \in Metrics : left'[j] = 0 => left[j] = 0
      BY <1>9 DEF TypeOK
    <3> QED
      BY <1>2, <1>10, <3>1, SparedBefore
  <2>2. ~(k \in early.suspended /\ k \in s1.known)
    BY <1>9, <2>1
  <2>3. \A j \in Metrics : j <= k => j \in actual /\ Loadable(prefs, j)
    BY <2>1, SparedFacts DEF Saved
  <2>4. /\ Mirrored(s0, prefs, k) /\ Mirrored(p0, prefs, k)
        /\ k \in p0.stamped <=> k \in prefs.stamped
    BY <1>2, <2>3, LoadOps
  <2>5. Loadable(prefs, k)
    BY <2>1 DEF Saved
  <2>6. s1.sent \subseteq s1.known
    BY <1>4 DEF Consistent
  <2> HIDE DEF s0, s1, s2, p0, p1
  <2>7. Mirrored(s1, p1, k) /\ Loadable(p1, k) /\ (k \in p1.sent => k \in prefs.sent)
    BY <1>5, <1>6, <2>4, <2>5 DEF Mirrored, Loadable
  <2>8. (k \in s2.known <=> k \in s1.known) /\ (k \in s2.sent <=> k \in s1.sent)
    BY <1>8, <2>2, <2>6
  <2> QED
    BY <2>1, <2>7, <2>8 DEF Mirrored
<1>11. CASE prefs.week < week
  <2>1. store' = ResetLog(s2) /\ prefs' = RotatePrefs(p1, s2, week)
    BY <1>1, <1>11
  <2>2. store' \in Log /\ Consistent(store')
    BY <2>1, <1>7, ResetLogOp
  <2>3. store'.known = s2.known /\ store'.sent = {} /\ store'.staged = 0
    BY <2>1, <1>8 DEF ResetLog
  <2>4. /\ prefs' \in Prefs /\ prefs'.known = p1.known /\ prefs'.sent = p1.sent \ s2.sent
        /\ prefs'.stamped = p1.stamped \ s2.sent /\ prefs'.week = week
    BY <2>1, <1>2, <1>6, <1>7, RotatePrefsOp
  <2> HIDE DEF s2, p1
  <2>5. ~(prefs.week = week)
    BY <1>2, <1>11
  <2>6. ASSUME NEW k \in Metrics, Spared(k)'
        PROVE  Spared(k) /\ Mirrored(store', prefs', k) /\ Loadable(prefs', k)
    BY <2>3, <2>4, <2>6, <1>10 DEF Mirrored, Loadable
  <2> QED
    BY <2>2, <2>3, <2>4, <2>5, <2>6, <1>9
<1>12. CASE prefs.week = week
  <2>1. store' = s2 /\ prefs' = p1
    BY <1>1, <1>2, <1>12
  <2>2. ~(prefs.week < week) /\ p1.week = week
    BY <1>2, <1>3, <1>6, <1>12
  <2> HIDE DEF s2, p1
  <2> QED
    BY <2>1, <2>2, <1>6, <1>7, <1>8, <1>9, <1>10
<1> QED
  BY <1>2, <1>11, <1>12

LEMMA StartStep ==
    ASSUME IInv, StartService
    PROVE  IInv'
<1> USE DEF IInv
<1>1. /\ store' \in Log /\ Consistent(store') /\ store'.staged = 0
      /\ prefs' \in Prefs /\ prefs'.week = week
      /\ left' \in [Metrics -> Nat]
      /\ \A k \in Metrics : left'[k] >= left[k]
      /\ \A k \in Metrics : Spared(k)' =>
           /\ Spared(k) /\ Mirrored(store', prefs', k) /\ Loadable(prefs', k)
           /\ prefs.week = week /\ k \in store'.sent => k \in prefs.sent
           /\ prefs.week < week => k \notin store'.sent
  BY StartEffect
<1>2. /\ initialized' /\ early' = NoEarly /\ upload' = upload /\ week' = week
      /\ disk' = disk /\ actual' = actual /\ busy' = busy
      /\ failures' = failures /\ restarts' = restarts /\ upload = NoUpload /\ ~busy
      /\ received' = IF prefs.week < week THEN [k \in Metrics |-> 0] ELSE received
      /\ excused' = IF prefs.week < week THEN {} ELSE excused
  BY DEF StartService, Idle
<1>3. /\ prefs.week \in Nat /\ week \in Nat /\ disk.week \in Nat
      /\ disk.week <= prefs.week /\ prefs.week <= week
  BY DEF TypeOK, Prefs, Weeks
<1>4. prefs.week = week \/ prefs.week < week
  BY <1>3
<1>5. TypeOK'
  <2>1. tasks' \in Seq([metric: Metrics, kind: Kinds])
    <3>1. tasks' \in {tasks, Append(tasks, [metric |-> Answers, kind |-> "value"])}
      BY DEF StartService
    <3>2. CASE tasks' = tasks
      BY <3>2 DEF TypeOK
    <3>3. CASE tasks' = Append(tasks, [metric |-> Answers, kind |-> "value"])
      BY <3>3, AnswersType DEF TypeOK
    <3> QED
      BY <3>1, <3>2, <3>3
  <2>2. received' \in [Metrics -> Nat]
    BY <1>2 DEF TypeOK
  <2>3. excused' \in SUBSET Metrics
    BY <1>2 DEF TypeOK
  <2>4. early' \in [value: SUBSET Metrics, suspended: SUBSET Metrics]
    BY <1>2, EmptyTypes
  <2> QED
    BY <1>1, <2>1, <2>2, <2>3, <2>4 DEF TypeOK, StartService
<1>6. StoreConsistent' /\ Idle'
  BY <1>1, <1>2 DEF StoreConsistent, Consistent, Idle
<1>7. UploadOfStaged'
  BY <1>2 DEF UploadOfStaged, NoUpload
<1>8. ReceivedBound'
  <2> SUFFICES ASSUME NEW k \in Metrics
               PROVE  BoundOf(k)'
    BY DEF ReceivedBound
  <2>1. /\ received[k] \in Nat /\ received'[k] \in {0, received[k]}
        /\ Excess(k) \in Nat /\ Excess(k)' \in Nat /\ Excess(k)' >= Excess(k) /\ BoundOf(k)
    BY <1>1, <1>2 DEF TypeOK, Excess, ReceivedBound
  <2>2. k \notin store.sent /\ ~JustTaken(k) /\ ~Astray(k)'
    BY <1>2 DEF Idle, StartService, EmptyLog, JustTaken, Astray, NoUpload, Metrics
  <2> QED
    BY <2>1, <2>2 DEF BoundOf
<1>9. Weeks'
  BY <1>1, <1>2, <1>3 DEF Weeks
<1>10. Saved'
  BY <1>1, <1>2 DEF Saved
<1>11. SentIsGot'
  <2>1. CASE prefs.week = week
    <3>1. \A k \in Metrics : Got(k) => Got(k)'
      BY <1>2, <1>3, <2>1 DEF Got
    <3> QED
      BY <1>1, <1>2, <2>1, <3>1 DEF SentIsGot, Mirrored
  <2>2. CASE prefs.week < week
    <3>1. disk'.week # week'
      BY <1>2, <1>3, <2>2
    <3> QED
      BY <1>1, <1>2, <2>2, <3>1 DEF SentIsGot, Mirrored
  <2> QED
    BY <1>4, <2>1, <2>2
<1> QED
  BY <1>5, <1>6, <1>7, <1>8, <1>9, <1>10, <1>11

-----------------------------------------------------------------------------
THEOREM StepInvariant == IInv /\ [Next]_vars => IInv'
<1> SUFFICES ASSUME IInv, [Next]_vars PROVE IInv'
  OBVIOUS
<1>1. ASSUME NEW k \in Metrics, NEW kind \in Kinds, Record(k, kind) PROVE IInv'
  BY <1>1, RecordStep
<1>2. CASE OnHistogramChangedOnUI
  BY <1>2, HandleStep
<1>3. CASE StartService
  BY <1>3, StartStep
<1>4. CASE DoRotation
  BY <1>4, RotationStep
<1>5. CASE StartScheduledUpload
  BY <1>5, UploadStep
<1>6. CASE ServerAccepts
  BY <1>6, AcceptStep
<1>7. ASSUME NEW ok \in BOOLEAN, OnLogUploadComplete(ok) PROVE IInv'
  BY <1>7, AnswerStep
<1>8. CASE SetP3AEnabled
  BY <1>8, EnabledStep
<1>9. CASE NextWeek
  BY <1>9, WeekStep
<1>10. CASE CommitPrefs
  BY <1>10, CommitStep
<1>11. ASSUME NEW crash \in BOOLEAN, Restart(crash) PROVE IInv'
  BY <1>11, RestartStep
<1>12. CASE UNCHANGED vars
  BY <1>12, SparedSame
     DEF vars, IInv, TypeOK, StoreConsistent, Idle, UploadOfStaged, ReceivedBound, BoundOf, Excess,
         JustTaken, Astray, Weeks, Saved, SentIsGot, Got, Loadable, Mirrored
<1> QED
  BY <1>1, <1>2, <1>3, <1>4, <1>5, <1>6, <1>7, <1>8, <1>9, <1>10, <1>11, <1>12 DEF Next

THEOREM Invariant == Spec => []IInv
<1>1. Init => IInv
  BY InitInvariant
<1>2. IInv /\ [Next]_vars => IInv'
  BY StepInvariant
<1> QED
  BY <1>1, <1>2, PTL DEF Spec

(* Every variable keeps its type.                                            *)
THEOREM TypeCorrect == Spec => []TypeOK
<1>1. IInv => TypeOK
  BY DEF IInv
<1> QED
  BY <1>1, Invariant, PTL

(* The assertions of the log store never fail, however recordings,           *)
(* suspensions, rotations, uploads, crashes and updates interleave.          *)
THEOREM AssertionsHold == Spec => []StoreConsistent
<1>1. IInv => StoreConsistent
  BY DEF IInv
<1> QED
  BY <1>1, Invariant, PTL

(* The entry of a metric in front of the first one that was suspended or has *)
(* become obsolete is only marked as sent if the server has taken the metric *)
(* since the rotation, or it was staged at the rotation.                     *)
THEOREM MarkedIsReceived == Spec => []SentWasReceived
<1>1. IInv => SentWasReceived
  BY DEF IInv, TypeOK, Log, SentIsGot, SentWasReceived, Got
<1> QED
  BY <1>1, Invariant, PTL

(* No metric is reported more often than once per rotation, failed upload,   *)
(* suspension of its own and end of the process.                             *)
THEOREM NoNeedlessReport == Spec => []ReportedOnce
<1>1. IInv => ReportedOnce
  <2> SUFFICES ASSUME IInv, NEW k \in Metrics
               PROVE  received[k] <= 1 + failures + restarts + left[k]
    BY DEF ReportedOnce
  <2>1. BoundOf(k) /\ left[k] \in Nat /\ failures \in Nat /\ restarts \in Nat /\ received[k] \in Nat
    BY DEF IInv, ReceivedBound, TypeOK
  <2> QED
    BY <2>1 DEF BoundOf, Excess
<1> QED
  BY <1>1, Invariant, PTL

(* Of each metric in front of the first one that was suspended or has become *)
(* obsolete, what is saved is what is in the log, and can be loaded.         *)
THEOREM SavedIsLoaded == Spec => []NothingForgotten
<1>1. IInv => NothingForgotten
  BY DEF IInv, Saved, Loadable, Mirrored, NothingForgotten, Malformed
<1> QED
  BY <1>1, Invariant, PTL

=============================================================================
