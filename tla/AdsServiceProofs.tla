-------------------------- MODULE AdsServiceProofs --------------------------
(* Proofs about the ads service, for any notifications and any bounds: type  *)
(* correctness, that a service that is initialized runs, and that no         *)
(* assertion fails unless a change of the setting, a reset or a death finds  *)
(* a start, a stop, a question to the wallet or another death under way, or  *)
(* a change of the wallet a stop or a death.                                 *)
EXTENDS AdsService, SequenceTheorems, FiniteSetTheorems, TLAPS

-----------------------------------------------------------------------------
(* What sequences of messages contain.                                       *)
None(s, M) == \A i \in DOMAIN s : s[i] \notin M
AtMostOne(s, M) == \A i, j \in DOMAIN s : s[i] \in M /\ s[j] \in M => i = j
ConfigureFirst(s) ==
    \A i, j \in DOMAIN s : i < j /\ s[j] = "Configure" => s[i] = "Configure"

LEMMA AppendFacts ==
    ASSUME NEW X, NEW s \in Seq(X), NEW x \in X, NEW M
    PROVE  /\ Append(s, x) \in Seq(X)
           /\ None(Append(s, x), M) <=> None(s, M) /\ x \notin M
           /\ AtMostOne(s, M) /\ (x \notin M \/ None(s, M)) => AtMostOne(Append(s, x), M)
           /\ ConfigureFirst(s) /\ (x # "Configure" \/ None(s, X \ {"Configure"}))
                => ConfigureFirst(Append(s, x))
<1> DEFINE t == Append(s, x)
<1>1. /\ t \in Seq(X) /\ Len(s) \in Nat /\ Len(t) = Len(s) + 1
      /\ DOMAIN s = 1 .. Len(s) /\ DOMAIN t = 1 .. Len(s) + 1
      /\ t[Len(s) + 1] = x
      /\ \A i \in 1 .. Len(s) : t[i] = s[i] /\ s[i] \in X
  OBVIOUS
<1> HIDE DEF t
<1>2. None(t, M) <=> None(s, M) /\ x \notin M
  BY <1>1 DEF None
<1>3. AtMostOne(s, M) /\ (x \notin M \/ None(s, M)) => AtMostOne(t, M)
  BY <1>1 DEF AtMostOne, None
<1>4. ConfigureFirst(s) /\ (x # "Configure" \/ None(s, X \ {"Configure"})) => ConfigureFirst(t)
  BY <1>1 DEF ConfigureFirst, None
<1> QED
  BY <1>1, <1>2, <1>3, <1>4 DEF t

LEMMA TailFacts ==
    ASSUME NEW X, NEW s \in Seq(X), s # << >>, NEW M
    PROVE  /\ Head(s) \in X /\ Tail(s) \in Seq(X)
           /\ None(s, M) <=> None(Tail(s), M) /\ Head(s) \notin M
           /\ AtMostOne(s, M) => AtMostOne(Tail(s), M)
           /\ AtMostOne(s, M) /\ Head(s) \in M => None(Tail(s), M)
           /\ ConfigureFirst(s) => ConfigureFirst(Tail(s))
           /\ ConfigureFirst(s) /\ Head(s) # "Configure" => None(s, {"Configure"})
<1> DEFINE t == Tail(s)
<1>1. /\ Head(s) = s[1] /\ Head(s) \in X /\ t \in Seq(X)
      /\ Len(s) \in Nat \ {0} /\ DOMAIN s = 1 .. Len(s) /\ DOMAIN t = 1 .. Len(s) - 1
      /\ \A i \in 1 .. Len(s) - 1 : t[i] = s[i + 1]
  OBVIOUS
<1> HIDE DEF t
<1>2. \A i \in DOMAIN t : i + 1 \in DOMAIN s /\ t[i] = s[i + 1]
  BY <1>1
<1>3. \A i \in DOMAIN s : i # 1 => i - 1 \in DOMAIN t /\ t[i - 1] = s[i]
  BY <1>1
<1>4. None(s, M) <=> None(t, M) /\ Head(s) \notin M
  <2>1. None(s, M) => None(t, M)
    BY <1>2 DEF None
  <2>2. None(s, M) => Head(s) \notin M
    BY <1>1 DEF None
  <2>3. None(t, M) /\ Head(s) \notin M => None(s, M)
    BY <1>1, <1>3 DEF None
  <2> QED
    BY <2>1, <2>2, <2>3
<1>5. AtMostOne(s, M) => AtMostOne(t, M)
  BY <1>1, <1>2 DEF AtMostOne
<1>6. AtMostOne(s, M) /\ Head(s) \in M => None(t, M)
  <2> SUFFICES ASSUME AtMostOne(s, M), Head(s) \in M, NEW i \in DOMAIN t, t[i] \in M
               PROVE  FALSE
    BY DEF None
  <2>1. i + 1 \in DOMAIN s /\ 1 \in DOMAIN s /\ s[i + 1] \in M /\ s[1] \in M
    BY <1>1, <1>2
  <2> QED
    BY <2>1, <1>1 DEF AtMostOne
<1>7. ConfigureFirst(s) => ConfigureFirst(t)
  BY <1>1, <1>2 DEF ConfigureFirst
<1>8. ConfigureFirst(s) /\ Head(s) # "Configure" => None(s, {"Configure"})
  BY <1>1 DEF ConfigureFirst, None
<1> QED
  BY <1>1, <1>4, <1>5, <1>6, <1>7, <1>8 DEF t

LEMMA ConcatFacts ==
    ASSUME NEW X, NEW s \in Seq(X), NEW t \in Seq(X), NEW M
    PROVE  /\ s \o t \in Seq(X)
           /\ None(s \o t, M) <=> None(s, M) /\ None(t, M)
           /\ AtMostOne(s, M) /\ None(t, M) => AtMostOne(s \o t, M)
           /\ ConfigureFirst(s) /\ None(t, {"Configure"}) => ConfigureFirst(s \o t)
<1> DEFINE u == s \o t
<1>1. /\ u \in Seq(X) /\ Len(s) \in Nat /\ Len(t) \in Nat
      /\ DOMAIN s = 1 .. Len(s) /\ DOMAIN t = 1 .. Len(t) /\ DOMAIN u = 1 .. Len(s) + Len(t)
      /\ \A i \in 1 .. Len(s) : u[i] = s[i]
      /\ \A i \in Len(s) + 1 .. Len(s) + Len(t) : u[i] = t[i - Len(s)]
  OBVIOUS
<1> HIDE DEF u
<1>2. \A i \in DOMAIN t : i + Len(s) \in DOMAIN u /\ u[i + Len(s)] = t[i]
  BY <1>1
<1>3. \A i \in DOMAIN u :
        \/ i \in DOMAIN s /\ u[i] = s[i]
        \/ i - Len(s) \in DOMAIN t /\ u[i] = t[i - Len(s)] /\ i > Len(s)
  <2> SUFFICES ASSUME NEW i \in DOMAIN u
               PROVE  \/ i \in DOMAIN s /\ u[i] = s[i]
                      \/ i - Len(s) \in DOMAIN t /\ u[i] = t[i - Len(s)] /\ i > Len(s)
    OBVIOUS
  <2>1. i \in Nat /\ 1 <= i /\ i <= Len(s) + Len(t)
    BY <1>1
  <2>2. CASE i <= Len(s)
    BY <2>1, <2>2, <1>1
  <2>3. CASE i > Len(s)
    <3>1. i - Len(s) \in 1 .. Len(t) /\ i \in Len(s) + 1 .. Len(s) + Len(t)
      BY <2>1, <2>3, <1>1
    <3> QED
      BY <3>1, <2>3, <1>1
  <2> QED
    BY <2>1, <2>2, <2>3, <1>1
<1>4. None(u, M) <=> None(s, M) /\ None(t, M)
  <2>1. None(u, M) => None(s, M)
    BY <1>1 DEF None
  <2>2. None(u, M) => None(t, M)
    BY <1>2 DEF None
  <2>3. None(s, M) /\ None(t, M) => None(u, M)
    BY <1>3 DEF None
  <2> QED
    BY <2>1, <2>2, <2>3
<1>5. AtMostOne(s, M) /\ None(t, M) => AtMostOne(u, M)
  BY <1>3 DEF AtMostOne, None
<1>6. ConfigureFirst(s) /\ None(t, {"Configure"}) => ConfigureFirst(u)
  <2> SUFFICES ASSUME ConfigureFirst(s), None(t, {"Configure"}),
                      NEW i \in DOMAIN u, NEW j \in DOMAIN u, i < j, u[j] = "Configure"
               PROVE  u[i] = "Configure"
    BY DEF ConfigureFirst
  <2>1. j \in DOMAIN s /\ u[j] = s[j]
    BY <1>3 DEF None
  <2>2. i \in DOMAIN s /\ u[i] = s[i]
    BY <2>1, <1>1
  <2> QED
    BY <2>1, <2>2 DEF ConfigureFirst
<1> QED
  BY <1>1, <1>4, <1>5, <1>6 DEF u

LEMMA SeqOfMore ==
    ASSUME NEW X, NEW Y, X \subseteq Y, NEW s \in Seq(X)
    PROVE  s \in Seq(Y)
<1>1. s = [i \in 1 .. Len(s) |-> s[i]] /\ Len(s) \in Nat /\ \A i \in 1 .. Len(s) : s[i] \in X
  OBVIOUS
<1> QED
  BY <1>1

LEMMA EmptyFacts ==
    ASSUME NEW M
    PROVE  None(<< >>, M) /\ AtMostOne(<< >>, M) /\ ConfigureFirst(<< >>)
BY DEF None, AtMostOne, ConfigureFirst

LEMMA ConfigureFacts ==
    ASSUME NEW M
    PROVE  /\ None(<<"Configure">>, M) <=> "Configure" \notin M
           /\ AtMostOne(<<"Configure">>, M) /\ ConfigureFirst(<<"Configure">>)
<1>1. <<"Configure">> \in Seq({"Configure"}) /\ DOMAIN <<"Configure">> = {1}
      /\ <<"Configure">>[1] = "Configure"
  OBVIOUS
<1> QED
  BY <1>1 DEF None, AtMostOne, ConfigureFirst

LEMMA SetToSeqType ==
    ASSUME NEW S, IsFiniteSet(S)
    PROVE  SetToSeq(S) \in Seq(S)
<1>1. Cardinality(S) \in Nat /\ ExistsBijection(1 .. Cardinality(S), S)
  BY FS_CardinalityType
<1>2. PICK f \in [1 .. Cardinality(S) -> S] : IsInjective(f)
  BY <1>1 DEF ExistsBijection, Bijection, Injection
<1>3. SetToSeq(S) \in [1 .. Cardinality(S) -> S]
  BY <1>2 DEF SetToSeq
<1> QED
  BY <1>1, <1>3

-----------------------------------------------------------------------------
(* The inductive invariant.                                                  *)
Requests == Messages \cup Notifications
Replies == [to: Answers \cup Notifications, ok: BOOLEAN]

StartRequests == {"Create", "Initialize"}
StopRequests == {"Shutdown", "ShutdownAndReset"}
AnswerTo(names, oks) == [to: names, ok: oks]
StartReplies == AnswerTo({"OnCreate", "OnInitialize"}, BOOLEAN)
StopReplies == AnswerTo({"OnShutdownBatAds", "OnShutdownAndResetBatAds"}, BOOLEAN)
RefusedStops == AnswerTo({"OnShutdownBatAds", "OnShutdownAndResetBatAds"}, {FALSE})
Initializations == AnswerTo({"OnInitialize"}, {TRUE})

(* From Create to OnInitialize there is one message or answer under way, or  *)
(* an initialization, and only while the service waits for it.               *)
OneStart ==
    /\ AtMostOne(requests, StartRequests)
    /\ AtMostOne(replies, StartReplies)
    /\ None(requests, StartRequests) \/ None(replies, StartReplies)
    /\ ads = "initializing" => None(requests, StartRequests) /\ None(replies, StartReplies)
    /\ ~(connected /\ ~initialized) =>
         None(requests, StartRequests) /\ None(replies, StartReplies) /\ ads # "initializing"

(* What is connected is bound. A process that is gone has no messages, one   *)
(* that is not connected is only configured. An answer that the ads are      *)
(* initialized comes from a process that is still there, or has died.        *)
Process ==
    /\ connected => service # "none"
    /\ service # "up" => requests = << >> /\ ads = "none"
    /\ ~connected =>
         None(requests, Requests \ {"Configure"}) /\ replies = << >> /\ ads = "none"
    /\ service = "up" /\ ~None(replies, Initializations) => ads = "initialized"
    /\ service = "dead" => replies = << >>
    /\ watching # "yes" => service = "none" /\ \A c \in Callbacks : starting[c] = 0

Sum(f) == f["Start"] + f["OnGetHardwareInfo"] + f["OnEnsureBaseDirectoryExists"]
Stops == ~None(requests, StopRequests) \/ ~None(replies, StopReplies)
Calm == hasty \cap {"start", "stop", "wallet", "crash", "question"} = {}

(* As long as nothing is overtaken one thing is done at a time: there is one *)
(* start, it ends before a stop begins, and the setting is what the service  *)
(* follows.                                                                  *)
InOrder ==
    /\ Sum(starting) \in {0, 1}
    /\ Sum(starting) = 1 => ~connected /\ enabled /\ service \in {"up", "dead"}
    /\ wallet # 0 => connected
    /\ ConfigureFirst(requests)
    /\ ads # "none" => None(requests, {"Configure"})
    /\ Stops => initialized /\ wallet = 0
    /\ None(replies, RefusedStops)
    /\ connected /\ ~enabled => Stops
    /\ service = "down" => wallet = 0
    /\ service = "dead" => ~initialized

Orderly == OneStart /\ Process /\ (Calm => InOrder)

IInv ==
    /\ TypeOK
    /\ InitializedMeansRunning
    /\ AssertionsHold
    /\ ~failed => Orderly

-----------------------------------------------------------------------------
(* What sending, handling and answering do to what is under way.             *)
LEMMA NotificationNames ==
    \A n \in Notifications : n \notin Messages /\ n \notin Answers /\ n # ""
BY AdsConstants

LEMMA SendFacts ==
    ASSUME NEW q \in Seq(Requests), NEW m \in Requests
    PROVE  LET t == Append(q, m) IN
           /\ t \in Seq(Requests)
           /\ None(t, StartRequests) <=> None(q, StartRequests) /\ m \notin StartRequests
           /\ None(t, StopRequests) <=> None(q, StopRequests) /\ m \notin StopRequests
           /\ None(t, {"Configure"}) <=> None(q, {"Configure"}) /\ m # "Configure"
           /\ None(t, Requests \ {"Configure"})
                <=> None(q, Requests \ {"Configure"}) /\ m = "Configure"
           /\ AtMostOne(q, StartRequests) /\ (m \notin StartRequests \/ None(q, StartRequests))
                => AtMostOne(t, StartRequests)
           /\ ConfigureFirst(q) /\ (m # "Configure" \/ None(q, Requests \ {"Configure"}))
                => ConfigureFirst(t)
<1>1. None(Append(q, m), StartRequests) <=> None(q, StartRequests) /\ m \notin StartRequests
  BY AppendFacts
<1>2. None(Append(q, m), StopRequests) <=> None(q, StopRequests) /\ m \notin StopRequests
  BY AppendFacts
<1>3. None(Append(q, m), {"Configure"}) <=> None(q, {"Configure"}) /\ m \notin {"Configure"}
  BY AppendFacts
<1>4. None(Append(q, m), Requests \ {"Configure"})
        <=> None(q, Requests \ {"Configure"}) /\ m \notin Requests \ {"Configure"}
  BY AppendFacts
<1>5. AtMostOne(q, StartRequests) /\ (m \notin StartRequests \/ None(q, StartRequests))
        => AtMostOne(Append(q, m), StartRequests)
  BY AppendFacts
<1>6. ConfigureFirst(q) /\ (m # "Configure" \/ None(q, Requests \ {"Configure"}))
        => ConfigureFirst(Append(q, m))
  BY AppendFacts
<1>7. Append(q, m) \in Seq(Requests)
  BY AppendFacts
<1> QED
  BY <1>1, <1>2, <1>3, <1>4, <1>5, <1>6, <1>7

LEMMA HandleFacts ==
    ASSUME NEW q \in Seq(Requests), q # << >>
    PROVE  LET t == Tail(q)
               m == Head(q)
           IN
           /\ m \in Requests /\ t \in Seq(Requests)
           /\ None(q, StartRequests) <=> None(t, StartRequests) /\ m \notin StartRequests
           /\ None(q, StopRequests) <=> None(t, StopRequests) /\ m \notin StopRequests
           /\ None(q, {"Configure"}) <=> None(t, {"Configure"}) /\ m # "Configure"
           /\ None(q, Requests \ {"Configure"})
                <=> None(t, Requests \ {"Configure"}) /\ m = "Configure"
           /\ AtMostOne(q, StartRequests) => AtMostOne(t, StartRequests)
           /\ AtMostOne(q, StartRequests) /\ m \in StartRequests => None(t, StartRequests)
           /\ ConfigureFirst(q) => ConfigureFirst(t)
           /\ ConfigureFirst(q) /\ m # "Configure" => None(q, {"Configure"})
<1>1. None(q, StartRequests) <=> None(Tail(q), StartRequests) /\ Head(q) \notin StartRequests
  BY TailFacts
<1>2. None(q, StopRequests) <=> None(Tail(q), StopRequests) /\ Head(q) \notin StopRequests
  BY TailFacts
<1>3. None(q, {"Configure"}) <=> None(Tail(q), {"Configure"}) /\ Head(q) \notin {"Configure"}
  BY TailFacts
<1>4. None(q, Requests \ {"Configure"})
        <=> None(Tail(q), Requests \ {"Configure"}) /\ Head(q) \notin Requests \ {"Configure"}
  BY TailFacts
<1>5. /\ AtMostOne(q, StartRequests) => AtMostOne(Tail(q), StartRequests)
      /\ AtMostOne(q, StartRequests) /\ Head(q) \in StartRequests => None(Tail(q), StartRequests)
  BY TailFacts
<1>6. /\ Head(q) \in Requests /\ Tail(q) \in Seq(Requests)
      /\ ConfigureFirst(q) => ConfigureFirst(Tail(q))
      /\ ConfigureFirst(q) /\ Head(q) # "Configure" => None(q, {"Configure"})
  BY TailFacts
<1> QED
  BY <1>1, <1>2, <1>3, <1>4, <1>5, <1>6

LEMMA ReplyFacts ==
    ASSUME NEW q \in Seq(Replies), NEW r \in Replies
    PROVE  LET t == Append(q, r) IN
           /\ t \in Seq(Replies)
           /\ None(t, StartReplies) <=> None(q, StartReplies) /\ r \notin StartReplies
           /\ None(t, StopReplies) <=> None(q, StopReplies) /\ r \notin StopReplies
           /\ None(t, RefusedStops) <=> None(q, RefusedStops) /\ r \notin RefusedStops
           /\ None(t, Initializations) <=> None(q, Initializations) /\ r \notin Initializations
           /\ AtMostOne(q, StartReplies) /\ (r \notin StartReplies \/ None(q, StartReplies))
                => AtMostOne(t, StartReplies)
<1>1. None(Append(q, r), StartReplies) <=> None(q, StartReplies) /\ r \notin StartReplies
  BY AppendFacts
<1>2. None(Append(q, r), StopReplies) <=> None(q, StopReplies) /\ r \notin StopReplies
  BY AppendFacts
<1>3. None(Append(q, r), RefusedStops) <=> None(q, RefusedStops) /\ r \notin RefusedStops
  BY AppendFacts
<1>4. None(Append(q, r), Initializations)
        <=> None(q, Initializations) /\ r \notin Initializations
  BY AppendFacts
<1>5. AtMostOne(q, StartReplies) /\ (r \notin StartReplies \/ None(q, StartReplies))
        => AtMostOne(Append(q, r), StartReplies)
  BY AppendFacts
<1>6. Append(q, r) \in Seq(Replies)
  BY AppendFacts
<1> QED
  BY <1>1, <1>2, <1>3, <1>4, <1>5, <1>6

LEMMA AnswerFacts ==
    ASSUME NEW q \in Seq(Replies), q # << >>
    PROVE  LET t == Tail(q)
               r == Head(q)
           IN
           /\ r \in Replies /\ t \in Seq(Replies)
           /\ None(q, StartReplies) <=> None(t, StartReplies) /\ r \notin StartReplies
           /\ None(q, StopReplies) <=> None(t, StopReplies) /\ r \notin StopReplies
           /\ None(q, RefusedStops) <=> None(t, RefusedStops) /\ r \notin RefusedStops
           /\ None(q, Initializations) <=> None(t, Initializations) /\ r \notin Initializations
           /\ AtMostOne(q, StartReplies) => AtMostOne(t, StartReplies)
           /\ AtMostOne(q, StartReplies) /\ r \in StartReplies => None(t, StartReplies)
<1>1. None(q, StartReplies) <=> None(Tail(q), StartReplies) /\ Head(q) \notin StartReplies
  BY TailFacts
<1>2. None(q, StopReplies) <=> None(Tail(q), StopReplies) /\ Head(q) \notin StopReplies
  BY TailFacts
<1>3. None(q, RefusedStops) <=> None(Tail(q), RefusedStops) /\ Head(q) \notin RefusedStops
  BY TailFacts
<1>4. None(q, Initializations)
        <=> None(Tail(q), Initializations) /\ Head(q) \notin Initializations
  BY TailFacts
<1>5. /\ Head(q) \in Replies /\ Tail(q) \in Seq(Replies)
      /\ AtMostOne(q, StartReplies) => AtMostOne(Tail(q), StartReplies)
      /\ AtMostOne(q, StartReplies) /\ Head(q) \in StartReplies => None(Tail(q), StartReplies)
  BY TailFacts
<1> QED
  BY <1>1, <1>2, <1>3, <1>4, <1>5

(* Nothing under way, or a process just configured.                          *)
LEMMA FreshFacts ==
    /\ << >> \in Seq(Requests) /\ <<"Configure">> \in Seq(Requests) /\ << >> \in Seq(Replies)
    /\ \A q \in {<< >>, <<"Configure">>} :
         /\ None(q, StartRequests) /\ AtMostOne(q, StartRequests) /\ None(q, StopRequests)
         /\ None(q, Requests \ {"Configure"}) /\ ConfigureFirst(q)
    /\ None(<< >>, {"Configure"})
    /\ None(<< >>, StartReplies) /\ AtMostOne(<< >>, StartReplies) /\ None(<< >>, StopReplies)
    /\ None(<< >>, RefusedStops) /\ None(<< >>, Initializations)
<1>1. << >> \in Seq(Requests) /\ << >> \in Seq(Replies)
  OBVIOUS
<1>2. <<"Configure">> \in Seq(Requests)
  BY DEF Requests, Messages
<1>3. /\ None(<< >>, StartRequests) /\ AtMostOne(<< >>, StartRequests)
      /\ None(<< >>, StopRequests) /\ None(<< >>, Requests \ {"Configure"})
      /\ ConfigureFirst(<< >>) /\ None(<< >>, {"Configure"})
  BY EmptyFacts
<1>4. /\ None(<< >>, StartReplies) /\ AtMostOne(<< >>, StartReplies) /\ None(<< >>, StopReplies)
      /\ None(<< >>, RefusedStops) /\ None(<< >>, Initializations)
  BY EmptyFacts
<1>5. "Configure" \notin StartRequests /\ "Configure" \notin StopRequests
      /\ "Configure" \notin Requests \ {"Configure"}
  BY DEF StartRequests, StopRequests
<1>6. /\ None(<<"Configure">>, StartRequests) /\ AtMostOne(<<"Configure">>, StartRequests)
      /\ None(<<"Configure">>, StopRequests)
      /\ None(<<"Configure">>, Requests \ {"Configure"}) /\ ConfigureFirst(<<"Configure">>)
  BY <1>5, ConfigureFacts
<1> QED
  BY <1>1, <1>2, <1>3, <1>4, <1>6

(* Kinds of answers do not overlap, and a notification's is of none.         *)
LEMMA AnswerKinds ==
    ASSUME NEW r \in Replies
    PROVE  /\ r \in StartReplies <=> r.to \in {"OnCreate", "OnInitialize"}
           /\ r \in StopReplies <=> r.to \in {"OnShutdownBatAds", "OnShutdownAndResetBatAds"}
           /\ r \in RefusedStops
                <=> r.to \in {"OnShutdownBatAds", "OnShutdownAndResetBatAds"} /\ ~r.ok
           /\ r \in Initializations <=> r.to = "OnInitialize" /\ r.ok
BY DEF Replies, AnswerTo, StartReplies, StopReplies, RefusedStops, Initializations

LEMMA TypeFacts == TypeOK => requests \in Seq(Requests) /\ replies \in Seq(Replies)
<1> SUFFICES ASSUME TypeOK
             PROVE  requests \in Seq(Requests) /\ replies \in Seq(Replies)
  OBVIOUS
<1>1. /\ requests \in Seq(Messages \cup clicked) /\ clicked \subseteq Notifications
      /\ replies \in Seq([to: Answers \cup clicked, ok: BOOLEAN])
  BY DEF TypeOK
<1>2. Messages \cup clicked \subseteq Requests
  BY <1>1 DEF Requests
<1>3. [to: Answers \cup clicked, ok: BOOLEAN] \subseteq Replies
  BY <1>1 DEF Replies
<1>4. requests \in Seq(Requests)
  BY <1>1, <1>2, SeqOfMore
<1>5. replies \in Seq(Replies)
  BY <1>1, <1>3, SeqOfMore
<1> QED
  BY <1>4, <1>5

LEMMA CountFacts == TypeOK => starting \in [Callbacks -> Nat] /\ wallet \in Nat
BY DEF TypeOK

LEMMA StoppingIs ==
    ASSUME requests \in Seq(Requests), replies \in Seq(Replies)
    PROVE  Stopping <=> Stops
<1>1. (\E i \in DOMAIN requests : requests[i] \in {"Shutdown", "ShutdownAndReset"})
        <=> ~None(requests, StopRequests)
  BY DEF None, StopRequests
<1>2. \A i \in DOMAIN replies : replies[i] \in Replies
  OBVIOUS
<1>3. (\E i \in DOMAIN replies :
         replies[i].to \in {"OnShutdownBatAds", "OnShutdownAndResetBatAds"})
        <=> ~None(replies, StopReplies)
  BY <1>2, AnswerKinds DEF None
<1> QED
  BY <1>1, <1>3 DEF Stopping, Stops

(* What overtakes nothing finds nothing under way.                           *)
LEMMA NothingOvertaken ==
    ASSUME TypeOK, hasty' = hasty \cup UnderWay
    PROVE  Calm' => /\ Calm /\ ~Stops /\ wallet = 0 /\ service # "down"
                    /\ Sum(starting) = 0 /\ (connected => initialized)
<1> SUFFICES ASSUME Calm'
             PROVE  /\ Calm /\ ~Stops /\ wallet = 0 /\ service # "down"
                    /\ Sum(starting) = 0 /\ (connected => initialized)
  OBVIOUS
<1>1. hasty \subseteq hasty' /\ UnderWay \subseteq hasty'
  OBVIOUS
<1>2. Calm
  BY <1>1 DEF Calm
<1>3. ~Starting
  BY <1>1 DEF Calm, UnderWay
<1>4. ~Stopping
  BY <1>1 DEF Calm, UnderWay
<1>5. ~(wallet > 0) /\ service # "down"
  BY <1>1 DEF Calm, UnderWay
<1>6. ~Stops
  BY <1>4, StoppingIs, TypeFacts
<1>7. /\ \A c \in Callbacks : starting[c] \in Nat /\ ~(starting[c] > 0)
      /\ ~(connected /\ ~initialized)
  BY <1>3 DEF Starting, TypeOK
<1>8. Sum(starting) = 0
  BY <1>7 DEF Callbacks, Sum
<1>9. wallet = 0
  BY <1>5, CountFacts
<1> QED
  BY <1>2, <1>5, <1>6, <1>7, <1>8, <1>9

(* A callback under way, one more, one less, and one after another.          *)
LEMMA StartingFacts ==
    ASSUME starting \in [Callbacks -> Nat], NEW c \in Callbacks
    PROVE  /\ Sum(starting) \in Nat
           /\ Sum(starting) = 0 <=> \A b \in Callbacks : starting[b] = 0
           /\ starting[c] > 0 => Sum(starting) # 0 /\ starting[c] # 0
           /\ After(c, 1) \in [Callbacks -> Nat] /\ Sum(After(c, 1)) = Sum(starting) + 1
           /\ starting[c] > 0 =>
                After(c, 0 - 1) \in [Callbacks -> Nat] /\ Sum(After(c, 0 - 1)) = Sum(starting) - 1
           /\ \A d \in Callbacks \ {c} : starting[c] > 0 =>
                Moved(c, d) \in [Callbacks -> Nat] /\ Sum(Moved(c, d)) = Sum(starting)
<1>1. /\ Sum(starting) \in Nat
      /\ starting[c] > 0 => Sum(starting) # 0 /\ starting[c] # 0
  BY DEF Callbacks, Sum
<1>2. Sum(starting) = 0 <=> \A b \in Callbacks : starting[b] = 0
  <2>1. Sum(starting) = 0 <=> /\ starting["Start"] = 0 /\ starting["OnGetHardwareInfo"] = 0
                              /\ starting["OnEnsureBaseDirectoryExists"] = 0
    BY DEF Callbacks, Sum
  <2> QED
    BY <2>1 DEF Callbacks
<1>3. After(c, 1) \in [Callbacks -> Nat] /\ Sum(After(c, 1)) = Sum(starting) + 1
  BY DEF Callbacks, Sum, After
<1>4. starting[c] > 0 =>
        After(c, 0 - 1) \in [Callbacks -> Nat] /\ Sum(After(c, 0 - 1)) = Sum(starting) - 1
  BY DEF Callbacks, Sum, After
<1>5. \A d \in Callbacks \ {c} : starting[c] > 0 =>
        Moved(c, d) \in [Callbacks -> Nat] /\ Sum(Moved(c, d)) = Sum(starting)
  BY DEF Callbacks, Sum, Moved
<1> QED
  BY <1>1, <1>2, <1>3, <1>4, <1>5

LEMMA CallbackNames ==
    /\ "Start" \in Callbacks
    /\ "OnGetHardwareInfo" \in Callbacks \ {"Start"}
    /\ "OnEnsureBaseDirectoryExists" \in Callbacks \ {"OnGetHardwareInfo"}
BY DEF Callbacks

-----------------------------------------------------------------------------
LEMMA InitInvariant == Init => IInv
<1> SUFFICES ASSUME Init
             PROVE  IInv
  OBVIOUS
<1>1. TypeOK
  <2>1. starting \in [Callbacks -> Nat] /\ wallet \in Nat
    BY DEF Init
  <2>2. requests = << >> /\ replies = << >>
    BY DEF Init
  <2>3. /\ << >> \in Seq(Messages \cup clicked)
        /\ << >> \in Seq([to: Answers \cup clicked, ok: BOOLEAN])
    OBVIOUS
  <2> QED
    BY <2>1, <2>2, <2>3, Zenon DEF Init, TypeOK
<1>2. InitializedMeansRunning /\ AssertionsHold
  BY DEF Init, InitializedMeansRunning, AssertionsHold
<1>3. OneStart /\ Process
  BY FreshFacts DEF Init, OneStart, Process
<1>4. Sum(starting) = 0 /\ wallet = 0
  BY <1>1, CallbackNames, CountFacts, StartingFacts DEF Init
<1>5. InOrder
  <2>1. ~Stops
    BY FreshFacts DEF Init, Stops
  <2>2. requests = << >> /\ replies = << >> /\ ads = "none" /\ service = "none" /\ ~connected
    BY DEF Init
  <2> QED
    BY <1>4, <2>1, <2>2, FreshFacts DEF InOrder
<1> QED
  BY <1>1, <1>2, <1>3, <1>5 DEF IInv, Orderly

(* The setting is followed when nothing is overtaken.                        *)
LEMMA MaybeStartKeeps ==
    ASSUME TypeOK, InitializedMeansRunning, OneStart, Process, ~failed, MaybeStart(enabled'),
           watching' = "yes", wallet' = wallet,
           Calm' => /\ InOrder /\ ~Stops /\ wallet = 0 /\ service # "down"
                    /\ Sum(starting) = 0 /\ (connected => initialized)
                    /\ (enabled' => ~connected)
    PROVE  /\ requests' \in Seq(Messages \cup clicked) /\ replies' = replies
           /\ starting' \in [Callbacks -> Nat]
           /\ service' \in {"none", "up", "down", "dead"} /\ failed' \in BOOLEAN
           /\ ads' \in {"none", "created", "initializing", "initialized"}
           /\ UNCHANGED <<connected, initialized>>
           /\ InitializedMeansRunning'
           /\ OneStart' /\ Process'
           /\ Calm' => InOrder' /\ ~failed'
<1>1. requests \in Seq(Requests) /\ "Configure" \in Requests /\ "Shutdown" \in Requests
  BY TypeFacts DEF Requests, Messages
<1>2. requests \in Seq(Messages \cup clicked) /\ "Configure" \in Messages /\ "Shutdown" \in Messages
  BY DEF TypeOK, Messages
<1>3. CASE ~enabled' /\ UNCHANGED <<service, connected, initialized, replies, ads, starting, failed>>
           /\ requests' = IF connected THEN Sent(requests, "Shutdown") ELSE requests
  <2>1. requests' \in Seq(Messages \cup clicked)
    BY <1>2, <1>3, AppendFacts DEF Sent
  <2>2. InitializedMeansRunning'
    BY <1>3 DEF InitializedMeansRunning
  <2>3. OneStart'
    BY <1>1, <1>3, SendFacts DEF OneStart, Sent, StartRequests
  <2>4. Process'
    <3>1. service # "up" => requests' = << >>
      BY <1>3 DEF Process, Sent
    <3> QED
      BY <1>3, <3>1 DEF Process
  <2>5. Calm' => InOrder' /\ ~failed'
    <3> SUFFICES ASSUME Calm'
                 PROVE  InOrder' /\ ~failed'
      OBVIOUS
    <3>1. CASE connected
      <4>1. initialized /\ service = "up"
        BY <3>1 DEF InOrder, Process, TypeOK
      <4>2. /\ ~None(requests', StopRequests) /\ ConfigureFirst(requests')
            /\ None(requests, {"Configure"}) => None(requests', {"Configure"})
        BY <1>1, <1>3, <3>1, <4>1, SendFacts DEF Sent, StopRequests, InOrder
      <4> QED
        BY <1>3, <3>1, <4>1, <4>2 DEF InOrder, Stops
    <3>2. CASE ~connected
      BY <1>3, <3>2 DEF InOrder, Stops
    <3> QED
      BY <3>1, <3>2
  <2> QED
    BY <1>3, <2>1, <2>2, <2>3, <2>4, <2>5 DEF TypeOK
<1>4. CASE enabled' /\ Launched /\ starting' = After("OnGetHardwareInfo", 1)
  <2>1. starting' \in [Callbacks -> Nat] /\ Sum(starting') = Sum(starting) + 1
    BY <1>4, CallbackNames, CountFacts, StartingFacts
  <2>2. ~connected /\ UNCHANGED <<connected, initialized, replies, failed>>
    BY <1>4 DEF Launched
  <2>3. \/ service' = "up" /\ ads' = "none" /\ requests' = <<"Configure">> /\ service = "none"
        \/ service # "none" /\ requests' = Sent(requests, "Configure") /\ UNCHANGED <<service, ads>>
    BY <1>4 DEF Launched
  <2>4. /\ None(requests, Requests \ {"Configure"}) /\ replies = << >> /\ ads = "none"
        /\ None(requests, StartRequests) /\ None(replies, StartReplies)
    BY <2>2 DEF Process, OneStart
  <2>5. requests' \in Seq(Messages \cup clicked)
    <3>1. <<"Configure">> \in Seq(Messages \cup clicked)
      BY <1>2
    <3>2. Append(requests, "Configure") \in Seq(Messages \cup clicked)
      BY <1>2, AppendFacts
    <3> QED
      BY <1>2, <2>3, <3>1, <3>2 DEF Sent
  <2>6. /\ None(requests', Requests \ {"Configure"}) /\ ads' = "none"
        /\ None(requests', StartRequests) /\ AtMostOne(requests', StartRequests)
        /\ Calm' => ConfigureFirst(requests') /\ None(requests', StopRequests)
    <3>1. CASE requests' = <<"Configure">>
      BY <2>3, <2>4, <3>1, FreshFacts
    <3>2. CASE requests' = Sent(requests, "Configure")
      BY <1>1, <2>3, <2>4, <3>2, SendFacts, FreshFacts
         DEF Sent, StartRequests, StopRequests, OneStart, InOrder, Stops
    <3> QED
      BY <2>3, <3>1, <3>2
  <2>7. InitializedMeansRunning'
    BY <2>2 DEF InitializedMeansRunning
  <2>8. OneStart'
    BY <2>2, <2>4, <2>6 DEF OneStart
  <2>9. Process'
    <3>1. service' # "up" => requests' = << >> /\ replies = << >>
      BY <2>3, <2>4 DEF Process, Sent
    <3>2. None(replies, Initializations)
      BY <2>4, FreshFacts
    <3> QED
      BY <2>2, <2>4, <2>6, <3>1, <3>2 DEF Process
  <2>10. Calm' => InOrder' /\ ~failed'
    <3> SUFFICES ASSUME Calm'
                 PROVE  InOrder' /\ ~failed'
      OBVIOUS
    <3>1. Sum(starting') = 1
      BY <2>1
    <3>2. service' \in {"up", "dead"}
      BY <2>3 DEF TypeOK
    <3>3. ~Stops' /\ ~initialized
      BY <2>2, <2>4, <2>6, FreshFacts DEF Stops, InitializedMeansRunning
    <3>4. wallet' = 0
      OBVIOUS
    <3> QED
      BY <1>4, <2>2, <2>4, <2>6, <3>1, <3>2, <3>3, <3>4, FreshFacts DEF InOrder
  <2>11. /\ service' \in {"none", "up", "down", "dead"}
         /\ ads' \in {"none", "created", "initializing", "initialized"}
    BY <2>3 DEF TypeOK
  <2>12. failed' \in BOOLEAN
    BY <2>2 DEF TypeOK
  <2> QED
    BY <2>1, <2>2, <2>5, <2>7, <2>8, <2>9, <2>10, <2>11, <2>12
<1>5. CASE enabled' /\ connected /\ failed' = TRUE
           /\ UNCHANGED <<service, connected, initialized, requests, replies, ads, starting>>
  <2>1. ~Calm'
    BY <1>5
  <2>2. OneStart'
    BY <1>5 DEF OneStart
  <2>3. Process'
    BY <1>5 DEF Process
  <2>4. InitializedMeansRunning'
    BY <1>5 DEF InitializedMeansRunning
  <2> QED
    BY <1>5, <2>1, <2>2, <2>3, <2>4 DEF TypeOK
<1> QED
  BY <1>3, <1>4, <1>5 DEF MaybeStart

LEMMA OnMigrateConfirmationsStateKeeps ==
    ASSUME IInv, ~failed, NEW success \in BOOLEAN, OnMigrateConfirmationsState(success)
    PROVE  IInv'
<1>1. TypeOK /\ InitializedMeansRunning /\ OneStart /\ Process /\ (Calm => InOrder)
  BY DEF IInv, Orderly
<1>2. /\ service = "none" /\ ~connected /\ \A c \in Callbacks : starting[c] = 0
      /\ requests = << >> /\ replies = << >>
  BY <1>1 DEF OnMigrateConfirmationsState, Process
<1>3. Sum(starting) = 0 /\ ~Stops
  BY <1>1, <1>2, CallbackNames, CountFacts, StartingFacts, FreshFacts DEF Stops
<1>4. /\ UNCHANGED <<enabled, wallet, handler, pending, retry, clicked, opened, hasty>>
      /\ watching' \in {"yes", "no"} /\ (Calm' <=> Calm)
  BY DEF OnMigrateConfirmationsState, clicks, Calm
<1>5. CASE success
  <2>1. MaybeStart(enabled') /\ watching' = "yes"
    BY <1>4, <1>5 DEF OnMigrateConfirmationsState
  <2>2. Calm' => InOrder /\ wallet = 0
    BY <1>1, <1>2, <1>4 DEF InOrder
  <2>3. /\ requests' \in Seq(Messages \cup clicked) /\ replies' = replies
        /\ starting' \in [Callbacks -> Nat]
        /\ service' \in {"none", "up", "down", "dead"} /\ failed' \in BOOLEAN
        /\ ads' \in {"none", "created", "initializing", "initialized"}
        /\ UNCHANGED <<connected, initialized>>
        /\ InitializedMeansRunning' /\ OneStart' /\ Process'
        /\ Calm' => InOrder' /\ ~failed'
    BY <1>1, <1>2, <1>3, <1>4, <2>1, <2>2, MaybeStartKeeps
  <2>4. TypeOK'
    BY <1>1, <1>4, <2>1, <2>3 DEF TypeOK
  <2> QED
    BY <2>3, <2>4 DEF IInv, Orderly, AssertionsHold, Calm
<1>6. CASE ~success
  <2>1. UNCHANGED <<service, connected, initialized, requests, replies, ads, starting, failed>>
    BY <1>6 DEF OnMigrateConfirmationsState
  <2>2. TypeOK'
    BY <1>1, <1>4, <2>1 DEF TypeOK
  <2>3. InitializedMeansRunning' /\ ~failed'
    BY <1>1, <2>1 DEF InitializedMeansRunning
  <2>4. OneStart'
    BY <1>1, <2>1 DEF OneStart
  <2>5. Process'
    BY <1>1, <1>2, <2>1 DEF Process
  <2>6. Calm' => InOrder'
    BY <1>1, <1>4, <2>1 DEF InOrder, Stops
  <2> QED
    BY <2>2, <2>3, <2>4, <2>5, <2>6 DEF IInv, Orderly, AssertionsHold
<1> QED
  BY <1>5, <1>6

LEMMA SetEnabledKeeps ==
    ASSUME IInv, ~failed, SetEnabled
    PROVE  IInv'
<1>1. TypeOK /\ InitializedMeansRunning /\ OneStart /\ Process /\ (Calm => InOrder)
  BY DEF IInv, Orderly
<1>2. /\ UNCHANGED <<watching, wallet, handler, pending, retry, clicked, opened>>
      /\ enabled' = ~enabled /\ hasty' = hasty \cup UnderWay
  BY DEF SetEnabled, clicks
<1>3. Calm' => /\ Calm /\ ~Stops /\ wallet = 0 /\ service # "down"
               /\ Sum(starting) = 0 /\ (connected => initialized)
  BY <1>1, <1>2, NothingOvertaken
<1>4. hasty' \subseteq {"start", "stop", "wallet", "crash", "question", "failure"} /\ enabled' \in BOOLEAN
  BY <1>1, <1>2 DEF TypeOK, UnderWay
<1>5. Calm' => InOrder
  BY <1>1, <1>3
<1>6. CASE watching = "yes"
  <2>1. MaybeStart(enabled') /\ watching' = "yes"
    BY <1>2, <1>6 DEF SetEnabled
  <2>2. Calm' => (enabled' => ~connected)
    BY <1>2, <1>3, <1>5 DEF InOrder
  <2>3. /\ requests' \in Seq(Messages \cup clicked) /\ replies' = replies
        /\ starting' \in [Callbacks -> Nat]
        /\ service' \in {"none", "up", "down", "dead"} /\ failed' \in BOOLEAN
        /\ ads' \in {"none", "created", "initializing", "initialized"}
        /\ UNCHANGED <<connected, initialized>>
        /\ InitializedMeansRunning' /\ OneStart' /\ Process'
        /\ Calm' => InOrder' /\ ~failed'
    BY <1>1, <1>2, <1>3, <1>5, <2>1, <2>2, MaybeStartKeeps
  <2>4. TypeOK'
    BY <1>1, <1>2, <1>4, <2>1, <2>3 DEF TypeOK
  <2> QED
    BY <2>3, <2>4 DEF IInv, Orderly, AssertionsHold, Calm
<1>7. CASE watching # "yes"
  <2>1. UNCHANGED <<service, connected, initialized, requests, replies, ads, starting, failed>>
    BY <1>7 DEF SetEnabled
  <2>2. service = "none" /\ ~connected
    BY <1>1, <1>7 DEF Process
  <2>3. TypeOK'
    BY <1>1, <1>2, <1>4, <2>1 DEF TypeOK
  <2>4. InitializedMeansRunning' /\ ~failed'
    BY <1>1, <2>1 DEF InitializedMeansRunning
  <2>5. OneStart'
    BY <1>1, <2>1 DEF OneStart
  <2>6. Process'
    BY <1>1, <1>2, <2>1 DEF Process
  <2>7. Calm' => InOrder'
    BY <1>2, <1>3, <1>5, <2>1, <2>2 DEF InOrder, Stops
  <2> QED
    BY <2>3, <2>4, <2>5, <2>6, <2>7 DEF IInv, Orderly, AssertionsHold
<1> QED
  BY <1>6, <1>7

LEMMA OnWalletUpdatedKeeps ==
    ASSUME IInv, ~failed, OnWalletUpdated
    PROVE  IInv'
<1>1. TypeOK /\ InitializedMeansRunning /\ OneStart /\ Process /\ (Calm => InOrder)
  BY DEF IInv, Orderly
<1>2. /\ UNCHANGED <<enabled, watching, service, connected, initialized, starting, requests,
                     replies, ads, handler, pending, retry, clicked, opened, failed>>
      /\ wallet' = IF connected THEN wallet + 1 ELSE wallet
      /\ hasty' = hasty \cup IF UnderWay \cap {"stop", "crash"} # {} THEN {"question"} ELSE {}
  BY DEF OnWalletUpdated, clicks
<1>3. wallet' \in Nat /\ (~connected => wallet' = wallet)
  BY <1>1, <1>2, CountFacts
<1>4. TypeOK'
  <2>1. hasty' \subseteq {"start", "stop", "wallet", "crash", "question", "failure"}
    BY <1>1, <1>2 DEF TypeOK
  <2> QED
    BY <1>1, <1>2, <1>3, <2>1 DEF TypeOK
<1>5. InitializedMeansRunning' /\ ~failed'
  BY <1>1, <1>2 DEF InitializedMeansRunning
<1>6. OneStart' /\ Process'
  BY <1>1, <1>2 DEF OneStart, Process
<1>7. Calm' => InOrder'
  <2> SUFFICES ASSUME Calm'
               PROVE  InOrder'
    OBVIOUS
  <2>1. Calm /\ UnderWay \cap {"stop", "crash"} = {}
    BY <1>2 DEF Calm
  <2>2. ~Stops /\ service # "down"
    BY <1>1, <2>1, StoppingIs, TypeFacts DEF UnderWay
  <2> QED
    BY <1>1, <1>2, <1>3, <2>1, <2>2 DEF InOrder, Stops
<1> QED
  BY <1>4, <1>5, <1>6, <1>7 DEF IInv, Orderly, AssertionsHold

LEMMA ResetAllStateKeeps ==
    ASSUME IInv, ~failed, ResetAllState
    PROVE  IInv'
<1>1. TypeOK /\ InitializedMeansRunning /\ OneStart /\ Process /\ (Calm => InOrder)
  BY DEF IInv, Orderly
<1>2. /\ UNCHANGED <<watching, service, connected, initialized, starting, wallet, replies, ads,
                     handler, pending, retry, clicked, opened, failed>>
      /\ hasty' = hasty \cup UnderWay
  BY DEF ResetAllState, clicks
<1>3. Calm' => /\ InOrder /\ ~Stops /\ wallet = 0 /\ service # "down"
               /\ Sum(starting) = 0 /\ (connected => initialized)
  BY <1>1, <1>2, NothingOvertaken
<1>4. hasty' \subseteq {"start", "stop", "wallet", "crash", "question", "failure"}
  BY <1>1, <1>2 DEF TypeOK, UnderWay
<1>5. InitializedMeansRunning' /\ ~failed'
  BY <1>1, <1>2 DEF InitializedMeansRunning
<1>6. CASE connected /\ requests' = Sent(requests, "ShutdownAndReset") /\ enabled' = enabled
  <2>1. requests \in Seq(Requests) /\ "ShutdownAndReset" \in Requests
    BY <1>1, TypeFacts DEF Requests, Messages
  <2>2. requests' \in Seq(Messages \cup clicked)
    BY <1>1, <1>6, AppendFacts DEF Sent, TypeOK, Messages
  <2>3. TypeOK'
    BY <1>1, <1>2, <1>4, <1>6, <2>2 DEF TypeOK
  <2>4. OneStart'
    BY <1>1, <1>2, <1>6, <2>1, SendFacts DEF OneStart, Sent, StartRequests
  <2>5. Process'
    <3>1. service # "up" => requests' = << >>
      BY <1>1, <1>6 DEF Process, Sent
    <3> QED
      BY <1>1, <1>2, <1>6, <3>1 DEF Process
  <2>6. Calm' => InOrder'
    <3> SUFFICES ASSUME Calm'
                 PROVE  InOrder'
      OBVIOUS
    <3>1. initialized /\ service = "up"
      BY <1>1, <1>3, <1>6 DEF InOrder, Process, TypeOK
    <3>2. /\ ~None(requests', StopRequests) /\ ConfigureFirst(requests')
          /\ None(requests, {"Configure"}) => None(requests', {"Configure"})
      BY <1>3, <1>6, <2>1, <3>1, SendFacts DEF Sent, StopRequests, InOrder
    <3> QED
      BY <1>2, <1>3, <1>6, <3>1, <3>2 DEF InOrder, Stops
  <2> QED
    BY <1>5, <2>3, <2>4, <2>5, <2>6 DEF IInv, Orderly, AssertionsHold
<1>7. CASE ~connected /\ requests' = requests /\ enabled' = FALSE
  <2>1. TypeOK'
    BY <1>1, <1>2, <1>4, <1>7 DEF TypeOK
  <2>2. OneStart'
    BY <1>1, <1>2, <1>7 DEF OneStart
  <2>3. Process'
    BY <1>1, <1>2, <1>7 DEF Process
  <2>4. Calm' => InOrder'
    BY <1>2, <1>3, <1>7 DEF InOrder, Stops
  <2> QED
    BY <1>5, <2>1, <2>2, <2>3, <2>4 DEF IInv, Orderly, AssertionsHold
<1> QED
  BY <1>6, <1>7 DEF ResetAllState

LEMMA OnDisconnectKeeps ==
    ASSUME IInv, ~failed, OnDisconnect
    PROVE  IInv'
<1>1. TypeOK /\ InitializedMeansRunning /\ OneStart /\ Process /\ (Calm => InOrder)
  BY DEF IInv, Orderly
<1>2. /\ UNCHANGED <<enabled, watching, wallet, handler, pending, retry, clicked, opened,
                     failed, hasty>>
      /\ service = "down" /\ replies = << >> /\ requests = << >> /\ ads = "none"
      /\ (Calm' <=> Calm)
  BY <1>1 DEF OnDisconnect, clicks, Process, Calm
<1>3. Calm => InOrder /\ Sum(starting) = 0 /\ wallet = 0 /\ ~Stops
  BY <1>1, <1>2, FreshFacts DEF InOrder, Stops
<1>4. CASE enabled
  <2>1. /\ connected' = FALSE /\ initialized' = FALSE /\ replies' = << >>
        /\ service' = "up" /\ ads' = "none" /\ requests' = <<"Configure">>
        /\ starting' = After("Start", 1)
    BY <1>4 DEF OnDisconnect, Disconnected
  <2>2. starting' \in [Callbacks -> Nat] /\ Sum(starting') = Sum(starting) + 1
    BY <1>1, <2>1, CallbackNames, CountFacts, StartingFacts
  <2>3. TypeOK'
    <3>1. /\ <<"Configure">> \in Seq(Messages \cup clicked)
          /\ << >> \in Seq([to: Answers \cup clicked, ok: BOOLEAN])
      BY DEF Messages
    <3> QED
      BY <1>1, <1>2, <2>1, <2>2, <3>1 DEF TypeOK
  <2>4. InitializedMeansRunning' /\ ~failed'
    BY <1>2, <2>1 DEF InitializedMeansRunning
  <2>5. OneStart'
    BY <2>1, FreshFacts DEF OneStart
  <2>6. Process'
    BY <1>1, <1>2, <2>1, FreshFacts DEF Process
  <2>7. Calm' => InOrder'
    <3> SUFFICES ASSUME Calm'
                 PROVE  InOrder'
      OBVIOUS
    <3>1. Sum(starting') = 1 /\ wallet' = 0
      BY <1>2, <1>3, <2>2
    <3>2. ~Stops'
      BY <2>1, FreshFacts DEF Stops
    <3> QED
      BY <1>2, <1>4, <2>1, <3>1, <3>2, FreshFacts DEF InOrder
  <2> QED
    BY <2>3, <2>4, <2>5, <2>6, <2>7 DEF IInv, Orderly, AssertionsHold
<1>5. CASE ~enabled
  <2>1. service' = "dead" /\ UNCHANGED <<connected, initialized, starting, requests, replies, ads>>
    BY <1>5 DEF OnDisconnect
  <2>2. TypeOK'
    BY <1>1, <1>2, <2>1 DEF TypeOK
  <2>3. InitializedMeansRunning' /\ ~failed'
    BY <1>1, <1>2, <2>1 DEF InitializedMeansRunning
  <2>4. OneStart'
    BY <1>1, <2>1 DEF OneStart
  <2>5. Process'
    BY <1>1, <1>2, <2>1 DEF Process
  <2>6. Calm' => InOrder'
    <3> SUFFICES ASSUME Calm'
                 PROVE  InOrder'
      OBVIOUS
    <3>1. ~connected /\ ~initialized
      BY <1>1, <1>2, <1>3, <1>5 DEF InOrder, InitializedMeansRunning
    <3> QED
      BY <1>2, <1>3, <2>1, <3>1 DEF InOrder, Stops
  <2> QED
    BY <2>2, <2>3, <2>4, <2>5, <2>6 DEF IInv, Orderly, AssertionsHold
<1> QED
  BY <1>4, <1>5

LEMMA StartKeeps ==
    ASSUME IInv, ~failed, Start
    PROVE  IInv'
<1>1. TypeOK /\ InitializedMeansRunning /\ OneStart /\ Process /\ (Calm => InOrder)
  BY DEF IInv, Orderly
<1>2. starting' \in [Callbacks -> Nat] /\ Sum(starting') = Sum(starting)
  BY <1>1, CallbackNames, CountFacts, StartingFacts DEF Start
<1>3. starting["Start"] # 0
  BY <1>1, CallbackNames, CountFacts, StartingFacts DEF Start
<1>4. TypeOK'
  BY <1>1, <1>2 DEF Start, clicks, counters, TypeOK
<1>5. InitializedMeansRunning' /\ ~failed'
  BY <1>1 DEF Start, InitializedMeansRunning
<1>6. OneStart'
  BY <1>1 DEF Start, OneStart
<1>7. Process'
  BY <1>1, <1>3, CallbackNames DEF Start, Process
<1>8. Calm' => InOrder'
  BY <1>1, <1>2 DEF Start, Calm, InOrder, Stops
<1> QED
  BY <1>4, <1>5, <1>6, <1>7, <1>8 DEF IInv, Orderly, AssertionsHold

LEMMA OnGetHardwareInfoKeeps ==
    ASSUME IInv, ~failed, OnGetHardwareInfo
    PROVE  IInv'
<1>1. TypeOK /\ InitializedMeansRunning /\ OneStart /\ Process /\ (Calm => InOrder)
  BY DEF IInv, Orderly
<1>2. starting' \in [Callbacks -> Nat] /\ Sum(starting') = Sum(starting)
  BY <1>1, CallbackNames, CountFacts, StartingFacts DEF OnGetHardwareInfo
<1>3. starting["OnGetHardwareInfo"] # 0 /\ Sum(starting) # 0
  BY <1>1, CallbackNames, CountFacts, StartingFacts DEF OnGetHardwareInfo
<1>4. requests' = Sent(requests, "Configure") /\ failed' = (service = "none")
  BY DEF OnGetHardwareInfo
<1>5. TypeOK'
  <2>1. requests' \in Seq(Messages \cup clicked)
    BY <1>1, <1>4, AppendFacts DEF Sent, TypeOK, Messages
  <2> QED
    BY <1>1, <1>2, <2>1 DEF OnGetHardwareInfo, clicks, counters, TypeOK
<1>6. InitializedMeansRunning'
  BY <1>1 DEF OnGetHardwareInfo, InitializedMeansRunning
<1>7. requests \in Seq(Requests) /\ "Configure" \in Requests
  BY <1>1, TypeFacts DEF Requests, Messages
<1>8. OneStart'
  BY <1>1, <1>4, <1>7, SendFacts DEF OnGetHardwareInfo, OneStart, Sent, StartRequests
<1>9. Process'
  <2>1. watching = "yes"
    BY <1>1, <1>3, CallbackNames DEF Process
  <2>2. ~connected => None(requests', Requests \ {"Configure"})
    BY <1>1, <1>4, <1>7, SendFacts DEF Process, Sent
  <2>3. service # "up" => requests' = << >>
    BY <1>1, <1>4 DEF Process, Sent
  <2> QED
    BY <1>1, <2>1, <2>2, <2>3 DEF OnGetHardwareInfo, Process
<1>10. Calm' => InOrder' /\ ~failed'
  <2> SUFFICES ASSUME Calm'
               PROVE  InOrder' /\ ~failed'
    OBVIOUS
  <2>1. InOrder
    BY <1>1 DEF OnGetHardwareInfo, Calm
  <2>2. ~connected /\ service \in {"up", "dead"}
    BY <1>3, <2>1 DEF InOrder
  <2>3. ~failed'
    BY <1>4, <2>2
  <2>4. ConfigureFirst(requests') /\ ads = "none"
    BY <1>1, <1>4, <1>7, <2>1, <2>2, SendFacts DEF Process, InOrder, Sent
  <2>5. None(requests', StopRequests) <=> None(requests, StopRequests)
    BY <1>4, <1>7, SendFacts DEF Sent, StopRequests
  <2> QED
    BY <1>2, <2>1, <2>2, <2>3, <2>4, <2>5 DEF OnGetHardwareInfo, InOrder, Stops
<1> QED
  BY <1>5, <1>6, <1>8, <1>9, <1>10 DEF IInv, Orderly, AssertionsHold, Calm

LEMMA OnEnsureBaseDirectoryExistsKeeps ==
    ASSUME IInv, ~failed, NEW success \in BOOLEAN, OnEnsureBaseDirectoryExists(success)
    PROVE  IInv'
<1>1. TypeOK /\ InitializedMeansRunning /\ OneStart /\ Process /\ (Calm => InOrder)
  BY DEF IInv, Orderly
<1>2. /\ UNCHANGED <<enabled, watching, service, initialized, replies, ads,
                     handler, pending, retry, clicked, opened>>
      /\ starting' = After("OnEnsureBaseDirectoryExists", 0 - 1)
      /\ starting["OnEnsureBaseDirectoryExists"] > 0
  BY DEF OnEnsureBaseDirectoryExists, clicks
<1>3. /\ starting' \in [Callbacks -> Nat] /\ Sum(starting') = Sum(starting) - 1
      /\ Sum(starting) # 0 /\ starting["OnEnsureBaseDirectoryExists"] # 0
  BY <1>1, <1>2, CallbackNames, CountFacts, StartingFacts
<1>4. watching = "yes"
  BY <1>1, <1>3, CallbackNames DEF Process
<1>5. Calm => /\ InOrder /\ Sum(starting') = 0 /\ ~connected /\ ~initialized /\ ~Stops
              /\ wallet = 0 /\ enabled /\ service \in {"up", "dead"}
  <2> SUFFICES ASSUME Calm
               PROVE  /\ InOrder /\ Sum(starting') = 0 /\ ~connected /\ ~initialized /\ ~Stops
                      /\ wallet = 0 /\ enabled /\ service \in {"up", "dead"}
    OBVIOUS
  <2>1. InOrder /\ Sum(starting) = 1
    BY <1>1, <1>3 DEF InOrder
  <2>2. Sum(starting') = 0
    BY <1>3, <2>1
  <2> QED
    BY <1>1, <2>1, <2>2 DEF InOrder, InitializedMeansRunning
<1>6. CASE success
  <2>1. /\ failed' = (connected \/ service = "none") /\ connected' = TRUE
        /\ requests' = Sent(requests, "Create") /\ wallet' = wallet + 1 /\ hasty' = hasty
    BY <1>6 DEF OnEnsureBaseDirectoryExists
  <2>2. requests \in Seq(Requests) /\ "Create" \in Requests
    BY <1>1, TypeFacts DEF Requests, Messages
  <2>3. TypeOK'
    <3>1. Append(requests, "Create") \in Seq(Messages \cup clicked)
      BY <1>1, AppendFacts DEF TypeOK, Messages
    <3>2. requests' \in Seq(Messages \cup clicked)
      BY <1>1, <2>1, <3>1 DEF Sent, TypeOK
    <3>3. wallet' \in Nat
      BY <1>1, <2>1, CountFacts
    <3> QED
      BY <1>1, <1>2, <1>3, <2>1, <3>2, <3>3 DEF TypeOK
  <2>4. InitializedMeansRunning'
    BY <1>1, <1>2, <2>1 DEF InitializedMeansRunning
  <2>5. ~failed' => ~connected /\ ~initialized /\ service # "none"
    BY <1>1, <2>1 DEF InitializedMeansRunning
  <2>6. ~failed' => OneStart'
    BY <1>1, <1>2, <2>1, <2>2, <2>5, SendFacts DEF OneStart, Sent
  <2>7. ~failed' => Process'
    <3>1. service # "up" => requests' = << >>
      BY <1>1, <2>1 DEF Process, Sent
    <3> QED
      BY <1>1, <1>2, <1>4, <2>1, <2>5, <3>1 DEF Process
  <2>8. Calm' => InOrder' /\ ~failed'
    <3> SUFFICES ASSUME Calm'
                 PROVE  InOrder' /\ ~failed'
      OBVIOUS
    <3>1. Calm
      BY <2>1 DEF Calm
    <3>2. ~failed'
      BY <1>5, <2>1, <3>1
    <3>3. ConfigureFirst(requests') /\ ads = "none"
      BY <1>1, <1>5, <2>1, <2>2, <3>1, SendFacts DEF Sent, InOrder, Process
    <3>4. ~Stops'
      BY <1>2, <1>5, <2>1, <2>2, <3>1, SendFacts DEF Stops, Sent, StopRequests
    <3>5. service' # "down"
      BY <1>2, <1>5, <3>1
    <3> QED
      BY <1>2, <1>5, <2>1, <3>1, <3>2, <3>3, <3>4, <3>5 DEF InOrder
  <2> QED
    BY <2>3, <2>4, <2>6, <2>7, <2>8 DEF IInv, Orderly, AssertionsHold, Calm
<1>7. CASE ~success
  <2>1. UNCHANGED <<failed, connected, requests, wallet>> /\ hasty' = hasty \cup {"failure"}
    BY <1>7 DEF OnEnsureBaseDirectoryExists
  <2>2. TypeOK'
    BY <1>1, <1>2, <1>3, <2>1 DEF TypeOK
  <2>3. InitializedMeansRunning' /\ ~failed'
    BY <1>1, <1>2, <2>1 DEF InitializedMeansRunning
  <2>4. OneStart'
    BY <1>1, <1>2, <2>1 DEF OneStart
  <2>5. Process'
    BY <1>1, <1>2, <1>4, <2>1 DEF Process
  <2>6. Calm' => InOrder'
    <3>1. Calm' => Calm
      BY <2>1 DEF Calm
    <3> QED
      BY <1>2, <1>5, <2>1, <3>1 DEF InOrder, Stops
  <2> QED
    BY <2>2, <2>3, <2>4, <2>5, <2>6 DEF IInv, Orderly, AssertionsHold
<1> QED
  BY <1>6, <1>7

LEMMA OnGetBraveWalletKeeps ==
    ASSUME IInv, ~failed, NEW there \in BOOLEAN, OnGetBraveWallet(there)
    PROVE  IInv'
<1>1. TypeOK /\ InitializedMeansRunning /\ OneStart /\ Process /\ (Calm => InOrder)
  BY DEF IInv, Orderly
<1>2. /\ UNCHANGED <<enabled, watching, service, connected, initialized, starting, requests,
                     replies, ads, handler, pending, retry, clicked, opened, hasty>>
      /\ wallet' = wallet - 1 /\ wallet > 0 /\ failed' = (there /\ ~connected)
  BY DEF OnGetBraveWallet, clicks
<1>3. wallet' \in Nat /\ wallet # 0
  BY <1>1, <1>2, CountFacts
<1>4. TypeOK'
  BY <1>1, <1>2, <1>3 DEF TypeOK
<1>5. InitializedMeansRunning'
  BY <1>1, <1>2 DEF InitializedMeansRunning
<1>6. OneStart'
  BY <1>1, <1>2 DEF OneStart
<1>7. Process'
  BY <1>1, <1>2 DEF Process
<1>8. Calm' => InOrder' /\ ~failed'
  <2> SUFFICES ASSUME Calm'
               PROVE  InOrder' /\ ~failed'
    OBVIOUS
  <2>1. InOrder
    BY <1>1, <1>2 DEF Calm
  <2>2. connected /\ ~Stops /\ service # "down"
    BY <1>3, <2>1 DEF InOrder
  <2> QED
    BY <1>2, <2>1, <2>2 DEF InOrder, Stops
<1> QED
  BY <1>4, <1>5, <1>6, <1>7, <1>8 DEF IInv, Orderly, AssertionsHold, Calm

(* Where there is no answer to a start none says the ads are initialized.    *)
LEMMA FewerInitializations ==
    ASSUME NEW q, None(q, StartReplies)
    PROVE  None(q, Initializations)
<1>1. Initializations \subseteq StartReplies
  BY DEF Initializations, StartReplies, AnswerTo
<1> QED
  BY <1>1 DEF None

LEMMA AdsInitializedKeeps ==
    ASSUME IInv, ~failed, NEW ok \in BOOLEAN, AdsInitialized(ok)
    PROVE  IInv'
<1>1. TypeOK /\ InitializedMeansRunning /\ OneStart /\ Process /\ (Calm => InOrder)
  BY DEF IInv, Orderly
<1> DEFINE r == [to |-> "OnInitialize", ok |-> ok]
<1>2. /\ UNCHANGED <<enabled, watching, service, connected, initialized, starting, wallet,
                     requests, handler, pending, retry, clicked, opened, failed>>
      /\ service = "up" /\ ads = "initializing" /\ replies' = Append(replies, r)
      /\ ads' = IF ok THEN "initialized" ELSE "created"
      /\ hasty' \in {hasty, hasty \cup {"failure"}}
  BY DEF AdsInitialized, clicks, Reply
<1>3. /\ r \in Replies /\ r.to = "OnInitialize" /\ r.ok = ok
      /\ r \in [to: Answers \cup clicked, ok: BOOLEAN]
  BY DEF Replies, Answers
<1> HIDE DEF r
<1>4. r \in StartReplies /\ r \notin StopReplies /\ r \notin RefusedStops
      /\ (r \in Initializations <=> ok)
  BY <1>3, AnswerKinds
<1>5. /\ connected /\ ~initialized
      /\ None(requests, StartRequests) /\ None(replies, StartReplies)
      /\ None(replies, Initializations)
  BY <1>1, <1>2, FewerInitializations DEF OneStart
<1>6. /\ AtMostOne(replies', StartReplies)
      /\ None(replies', StopReplies) <=> None(replies, StopReplies)
      /\ None(replies', RefusedStops) <=> None(replies, RefusedStops)
      /\ ~ok => None(replies', Initializations)
  BY <1>1, <1>2, <1>3, <1>4, <1>5, TypeFacts, ReplyFacts DEF OneStart
<1>7. TypeOK'
  <2>1. replies' \in Seq([to: Answers \cup clicked, ok: BOOLEAN])
    BY <1>1, <1>2, <1>3, AppendFacts DEF TypeOK
  <2>2. ads' \in {"none", "created", "initializing", "initialized"}
    BY <1>2
  <2> QED
    BY <1>1, <1>2, <2>1, <2>2 DEF TypeOK
<1>8. InitializedMeansRunning' /\ ~failed'
  BY <1>2, <1>5 DEF InitializedMeansRunning
<1>9. OneStart'
  BY <1>1, <1>2, <1>5, <1>6 DEF OneStart
<1>10. Process'
  BY <1>1, <1>2, <1>5, <1>6 DEF Process
<1>11. Calm' => InOrder'
  <2> SUFFICES ASSUME Calm'
               PROVE  InOrder'
    OBVIOUS
  <2>1. InOrder
    BY <1>1, <1>2 DEF Calm
  <2> QED
    BY <1>2, <1>5, <1>6, <2>1 DEF InOrder, Stops
<1> QED
  BY <1>7, <1>8, <1>9, <1>10, <1>11 DEF IInv, Orderly, AssertionsHold

LEMMA ServiceCrashKeeps ==
    ASSUME IInv, ~failed, ServiceCrash
    PROVE  IInv'
<1>1. TypeOK /\ InitializedMeansRunning /\ OneStart /\ Process /\ (Calm => InOrder)
  BY DEF IInv, Orderly
<1>2. /\ UNCHANGED <<enabled, watching, connected, initialized, starting, wallet, replies,
                     handler, pending, retry, clicked, opened, failed>>
      /\ hasty' = hasty \cup UnderWay /\ service = "up" /\ service' = "down"
      /\ requests' = << >> /\ ads' = "none"
  BY DEF ServiceCrash, clicks
<1>3. Calm' => /\ InOrder /\ ~Stops /\ wallet = 0 /\ Sum(starting) = 0
  BY <1>1, <1>2, NothingOvertaken
<1>4. TypeOK'
  <2>1. hasty' \subseteq {"start", "stop", "wallet", "crash", "question", "failure"}
    BY <1>1, <1>2 DEF TypeOK, UnderWay
  <2>2. << >> \in Seq(Messages \cup clicked)
    OBVIOUS
  <2> QED
    BY <1>1, <1>2, <2>1, <2>2 DEF TypeOK
<1>5. InitializedMeansRunning' /\ ~failed'
  BY <1>1, <1>2 DEF InitializedMeansRunning
<1>6. OneStart'
  BY <1>1, <1>2, FreshFacts DEF OneStart
<1>7. Process'
  BY <1>1, <1>2, FreshFacts DEF Process
<1>8. Calm' => InOrder'
  <2> SUFFICES ASSUME Calm'
               PROVE  InOrder'
    OBVIOUS
  <2>1. ~Stops' /\ ~(connected /\ ~enabled)
    BY <1>2, <1>3, FreshFacts DEF Stops, InOrder
  <2> QED
    BY <1>2, <1>3, <2>1, FreshFacts DEF InOrder
<1> QED
  BY <1>4, <1>5, <1>6, <1>7, <1>8 DEF IInv, Orderly, AssertionsHold

LEMMA HandleRequestKeeps ==
    ASSUME IInv, ~failed, HandleRequest
    PROVE  IInv'
<1>1. TypeOK /\ InitializedMeansRunning /\ OneStart /\ Process /\ (Calm => InOrder)
  BY DEF IInv, Orderly
<1> DEFINE m == Head(requests)
<1>2. /\ UNCHANGED <<enabled, watching, service, connected, initialized, starting, wallet,
                     handler, pending, retry, clicked, opened, hasty>>
      /\ service = "up" /\ requests # << >> /\ requests' = Tail(requests)
      /\ failed' = (m = "Configure" /\ ads # "none") /\ (Calm' <=> Calm)
  BY DEF HandleRequest, clicks, Calm
<1>3. /\ m \in Messages \cup clicked /\ requests' \in Seq(Messages \cup clicked)
      /\ requests \in Seq(Requests) /\ replies \in Seq(Replies)
      /\ replies \in Seq([to: Answers \cup clicked, ok: BOOLEAN])
  BY <1>1, <1>2, TailFacts, TypeFacts DEF TypeOK
<1>4. /\ m \in Notifications =>
           m \notin Messages /\ m \notin Answers
      /\ clicked \subseteq Notifications
  BY <1>1, NotificationNames DEF TypeOK
<1>5. /\ None(requests, StartRequests) <=> None(requests', StartRequests) /\ m \notin StartRequests
      /\ None(requests, StopRequests) <=> None(requests', StopRequests) /\ m \notin StopRequests
      /\ None(requests, {"Configure"}) <=> None(requests', {"Configure"}) /\ m # "Configure"
      /\ None(requests, Requests \ {"Configure"})
           <=> None(requests', Requests \ {"Configure"}) /\ m = "Configure"
      /\ AtMostOne(requests, StartRequests) => AtMostOne(requests', StartRequests)
      /\ AtMostOne(requests, StartRequests) /\ m \in StartRequests => None(requests', StartRequests)
      /\ ConfigureFirst(requests) => ConfigureFirst(requests')
      /\ ConfigureFirst(requests) /\ m # "Configure" => None(requests, {"Configure"})
  BY <1>2, <1>3, HandleFacts
<1>6. Reply("OnCreate", TRUE) \/ Reply("OnShutdownBatAds", ads = "initialized")
      \/ Reply("OnShutdownAndResetBatAds", ads = "initialized") \/ Reply(m, TRUE)
      \/ UNCHANGED replies
  BY <1>3, <1>4 DEF HandleRequest, Messages
<1>7. m \in StartRequests => /\ connected /\ ~initialized /\ None(replies, StartReplies)
                             /\ None(replies, Initializations)
                             /\ None(requests', StartRequests) /\ ads # "initializing"
  BY <1>1, <1>5, FewerInitializations DEF OneStart
<1>8. m # "Configure" => connected
  BY <1>1, <1>5 DEF Process
<1>9. CASE m = "Configure"
  <2>1. UNCHANGED <<ads, replies>>
    BY <1>9, NotificationNames DEF HandleRequest, Messages
  <2>2. TypeOK'
    <3>1. failed' \in BOOLEAN
      BY <1>2
    <3> QED
      BY <1>1, <1>2, <1>3, <2>1, <3>1 DEF TypeOK
  <2>3. InitializedMeansRunning'
    BY <1>1, <1>2, <2>1 DEF InitializedMeansRunning
  <2>4. OneStart'
    BY <1>1, <1>2, <1>5, <1>9, <2>1 DEF OneStart, StartRequests
  <2>5. Process'
    BY <1>1, <1>2, <1>5, <2>1 DEF Process
  <2>6. Calm' => InOrder' /\ ~failed'
    <3> SUFFICES ASSUME Calm'
                 PROVE  InOrder' /\ ~failed'
      OBVIOUS
    <3>1. InOrder /\ m \notin StopRequests
      BY <1>1, <1>2, <1>9 DEF StopRequests
    <3>2. ~failed' /\ ads = "none"
      BY <1>2, <1>5, <1>9, <3>1 DEF InOrder
    <3> QED
      BY <1>2, <1>5, <2>1, <3>1, <3>2 DEF InOrder, Stops
  <2> QED
    BY <2>2, <2>3, <2>4, <2>5, <2>6 DEF IInv, Orderly, AssertionsHold, Calm
<1>10. CASE m \in StartRequests
  <2>1. /\ m = "Create" =>
             ads' = "created" /\ replies' = Append(replies, [to |-> "OnCreate", ok |-> TRUE])
        /\ m = "Initialize" => ads' = "initializing" /\ replies' = replies
        /\ m \in {"Create", "Initialize"}
    BY <1>4, <1>10 DEF HandleRequest, Reply, Messages, StartRequests
  <2> DEFINE r == [to |-> "OnCreate", ok |-> TRUE]
  <2>2. r \in Replies /\ r \in [to: Answers \cup clicked, ok: BOOLEAN]
        /\ r.to = "OnCreate" /\ r.ok = TRUE
    BY DEF Replies, Answers
  <2> HIDE DEF r
  <2>3. r \in StartReplies /\ r \notin StopReplies /\ r \notin RefusedStops
        /\ r \notin Initializations
    BY <2>2, AnswerKinds
  <2>4. /\ AtMostOne(Append(replies, r), StartReplies)
        /\ None(Append(replies, r), StopReplies) <=> None(replies, StopReplies)
        /\ None(Append(replies, r), RefusedStops) <=> None(replies, RefusedStops)
        /\ None(Append(replies, r), Initializations)
    BY <1>1, <1>3, <1>7, <1>10, <2>2, <2>3, ReplyFacts DEF OneStart
  <2>5. replies' \in {replies, Append(replies, r)}
    BY <2>1 DEF r
  <2>6. m = "Initialize" => replies' = replies
    BY <2>1
  <2>7. TypeOK'
    <3>1. Append(replies, r) \in Seq([to: Answers \cup clicked, ok: BOOLEAN])
      BY <1>3, <2>2, AppendFacts
    <3>2. failed' \in BOOLEAN /\ ads' \in {"none", "created", "initializing", "initialized"}
      BY <1>2, <2>1
    <3> QED
      BY <1>1, <1>2, <1>3, <2>5, <3>1, <3>2 DEF TypeOK
  <2>8. InitializedMeansRunning' /\ ~failed'
    BY <1>2, <1>7, <1>10, <2>1 DEF InitializedMeansRunning
  <2>9. OneStart'
    BY <1>1, <1>2, <1>5, <1>7, <1>10, <2>1, <2>4, <2>5, <2>6 DEF OneStart
  <2>10. Process'
    BY <1>1, <1>2, <1>7, <1>10, <2>4, <2>5 DEF Process
  <2>11. Calm' => InOrder'
    <3> SUFFICES ASSUME Calm'
                 PROVE  InOrder'
      OBVIOUS
    <3>1. InOrder /\ m # "Configure" /\ ~Stops
      BY <1>1, <1>2, <1>7, <1>10, <2>1 DEF InOrder
    <3>2. None(replies', StopReplies) /\ None(replies', RefusedStops)
          /\ None(requests', StopRequests)
      BY <1>5, <2>4, <2>5, <3>1 DEF InOrder, Stops
    <3> QED
      BY <1>2, <1>5, <1>7, <1>10, <3>1, <3>2 DEF InOrder, Stops
  <2> QED
    BY <2>7, <2>8, <2>9, <2>10, <2>11 DEF IInv, Orderly, AssertionsHold
<1>11. CASE m \in StopRequests \/ m \in Notifications
  <2> DEFINE to == IF m = "Shutdown" THEN "OnShutdownBatAds"
                   ELSE IF m = "ShutdownAndReset" THEN "OnShutdownAndResetBatAds" ELSE m
             r == [to |-> to, ok |-> m \in Notifications \/ ads = "initialized"]
  <2>1. /\ m # "Configure" /\ m \notin StartRequests /\ ~(m \in StopRequests /\ m \in Notifications)
    BY <1>4, <1>11 DEF Messages, StartRequests, StopRequests
  <2>2. ads' = ads /\ replies' = Append(replies, r)
    <3>1. CASE m = "Shutdown"
      BY <1>4, <3>1 DEF HandleRequest, Reply, Messages
    <3>2. CASE m = "ShutdownAndReset"
      BY <1>4, <3>2 DEF HandleRequest, Reply, Messages
    <3>3. CASE m \in Notifications
      BY <1>4, <3>3 DEF HandleRequest, Reply, Messages
    <3> QED
      BY <1>11, <3>1, <3>2, <3>3 DEF StopRequests
  <2>3. /\ to \in Answers \cup clicked
        /\ to \notin {"OnCreate", "OnInitialize"}
        /\ to \in {"OnShutdownBatAds", "OnShutdownAndResetBatAds"} <=> m \in StopRequests
    BY <1>3, <1>4, <1>11 DEF Answers, StopRequests, Messages
  <2> HIDE DEF to
  <2>4. /\ r \in Replies /\ r \in [to: Answers \cup clicked, ok: BOOLEAN]
        /\ r.to = to /\ (r.ok <=> m \in Notifications \/ ads = "initialized")
    BY <1>4, <2>3 DEF Replies
  <2> HIDE DEF r
  <2>5. /\ r \notin StartReplies /\ r \notin Initializations
        /\ r \in StopReplies <=> m \in StopRequests
        /\ r \in RefusedStops <=> m \in StopRequests /\ ads # "initialized"
    BY <2>1, <2>3, <2>4, AnswerKinds
  <2>6. /\ None(replies', StartReplies) <=> None(replies, StartReplies)
        /\ None(replies', Initializations) <=> None(replies, Initializations)
        /\ None(replies', StopReplies) <=> None(replies, StopReplies) /\ r \notin StopReplies
        /\ None(replies', RefusedStops) <=> None(replies, RefusedStops) /\ r \notin RefusedStops
        /\ AtMostOne(replies, StartReplies) => AtMostOne(replies', StartReplies)
    BY <1>3, <2>2, <2>4, <2>5, ReplyFacts
  <2>7. TypeOK'
    <3>1. Append(replies, r) \in Seq([to: Answers \cup clicked, ok: BOOLEAN])
      BY <1>3, <2>4, AppendFacts
    <3>2. failed' \in BOOLEAN
      BY <1>2
    <3> QED
      BY <1>1, <1>2, <1>3, <2>2, <3>1, <3>2 DEF TypeOK
  <2>8. InitializedMeansRunning' /\ ~failed'
    BY <1>1, <1>2, <2>1, <2>2 DEF InitializedMeansRunning
  <2>9. OneStart'
    BY <1>1, <1>2, <1>5, <2>1, <2>2, <2>6 DEF OneStart
  <2>10. Process'
    BY <1>1, <1>2, <1>8, <2>1, <2>2, <2>6 DEF Process
  <2>11. Calm' => InOrder'
    <3> SUFFICES ASSUME Calm'
                 PROVE  InOrder'
      OBVIOUS
    <3>1. InOrder
      BY <1>1, <1>2
    <3>2. m \in StopRequests => ads = "initialized"
      BY <1>1, <1>2, <1>5, <3>1 DEF InOrder, Stops, InitializedMeansRunning
    <3>3. (Stops' <=> Stops) /\ None(replies', RefusedStops)
      BY <1>5, <2>5, <2>6, <3>1, <3>2 DEF InOrder, Stops
    <3> QED
      BY <1>2, <1>5, <2>2, <3>1, <3>3 DEF InOrder
  <2> QED
    BY <2>7, <2>8, <2>9, <2>10, <2>11 DEF IInv, Orderly, AssertionsHold
<1>12. m = "Configure" \/ m \in StartRequests \/ m \in StopRequests \/ m \in Notifications
  BY <1>3, <1>4 DEF Messages, StartRequests, StopRequests
<1> QED
  BY <1>9, <1>10, <1>11, <1>12

(* An answer taken from those of the process.                                *)
LEMMA AnswerTaken ==
    ASSUME TypeOK, replies # << >>, replies' = Tail(replies)
    PROVE  LET r == Head(replies) IN
           /\ r \in Replies /\ r \in [to: Answers \cup clicked, ok: BOOLEAN]
           /\ replies' \in Seq([to: Answers \cup clicked, ok: BOOLEAN])
           /\ None(replies, StartReplies) <=> None(replies', StartReplies) /\ r \notin StartReplies
           /\ None(replies, StopReplies) <=> None(replies', StopReplies) /\ r \notin StopReplies
           /\ None(replies, RefusedStops) <=> None(replies', RefusedStops) /\ r \notin RefusedStops
           /\ None(replies, Initializations)
                <=> None(replies', Initializations) /\ r \notin Initializations
           /\ AtMostOne(replies, StartReplies) => AtMostOne(replies', StartReplies)
           /\ AtMostOne(replies, StartReplies) /\ r \in StartReplies => None(replies', StartReplies)
<1>1. replies \in Seq([to: Answers \cup clicked, ok: BOOLEAN]) /\ replies \in Seq(Replies)
  BY TypeFacts DEF TypeOK
<1>2. /\ Head(replies) \in [to: Answers \cup clicked, ok: BOOLEAN]
      /\ replies' \in Seq([to: Answers \cup clicked, ok: BOOLEAN])
  BY <1>1, TailFacts
<1> QED
  BY <1>1, <1>2, AnswerFacts

LEMMA OnCreateKeeps ==
    ASSUME IInv, ~failed, OnCreate
    PROVE  IInv'
<1>1. TypeOK /\ InitializedMeansRunning /\ OneStart /\ Process /\ (Calm => InOrder)
  BY DEF IInv, Orderly
<1> DEFINE r == Head(replies)
<1>2. /\ UNCHANGED <<enabled, watching, service, connected, initialized, starting, wallet, ads,
                     handler, pending, retry, clicked, opened, failed, hasty>>
      /\ replies # << >> /\ r.to = "OnCreate" /\ replies' = Tail(replies)
      /\ requests' = IF connected THEN Sent(requests, "Initialize") ELSE requests
  BY DEF OnCreate, Answer, clicks
<1>3. /\ r \in Replies /\ replies' \in Seq([to: Answers \cup clicked, ok: BOOLEAN])
      /\ None(replies, StartReplies) <=> None(replies', StartReplies) /\ r \notin StartReplies
      /\ None(replies, StopReplies) <=> None(replies', StopReplies) /\ r \notin StopReplies
      /\ None(replies, RefusedStops) <=> None(replies', RefusedStops) /\ r \notin RefusedStops
      /\ None(replies, Initializations)
           <=> None(replies', Initializations) /\ r \notin Initializations
      /\ AtMostOne(replies, StartReplies) => AtMostOne(replies', StartReplies)
      /\ AtMostOne(replies, StartReplies) /\ r \in StartReplies => None(replies', StartReplies)
  BY <1>1, <1>2, AnswerTaken
<1>4. r \in StartReplies /\ r \notin StopReplies /\ r \notin Initializations
  BY <1>2, <1>3, AnswerKinds
<1>5. /\ connected /\ ~initialized /\ ads # "initializing"
      /\ None(requests, StartRequests) /\ None(replies', StartReplies)
  BY <1>1, <1>3, <1>4 DEF OneStart
<1>6. requests \in Seq(Requests) /\ "Initialize" \in Requests
  BY <1>1, TypeFacts DEF Requests, Messages
<1>7. /\ AtMostOne(requests', StartRequests)
      /\ None(requests', StopRequests) <=> None(requests, StopRequests)
      /\ None(requests', {"Configure"}) <=> None(requests, {"Configure"})
      /\ ConfigureFirst(requests) => ConfigureFirst(requests')
      /\ service # "up" => requests' = << >>
  BY <1>1, <1>2, <1>5, <1>6, SendFacts DEF Sent, OneStart, StopRequests, Process
<1>8. TypeOK'
  <2>1. Append(requests, "Initialize") \in Seq(Messages \cup clicked)
    BY <1>1, AppendFacts DEF TypeOK, Messages
  <2>2. requests' \in Seq(Messages \cup clicked)
    BY <1>1, <1>2, <2>1 DEF Sent, TypeOK
  <2> QED
    BY <1>1, <1>2, <1>3, <2>2 DEF TypeOK
<1>9. InitializedMeansRunning' /\ ~failed'
  BY <1>2, <1>5 DEF InitializedMeansRunning
<1>10. OneStart'
  BY <1>1, <1>2, <1>3, <1>5, <1>7 DEF OneStart
<1>11. Process'
  <2>1. service # "dead"
    BY <1>1, <1>2 DEF Process
  <2> QED
    BY <1>1, <1>2, <1>3, <1>4, <1>5, <1>7, <2>1 DEF Process
<1>12. Calm' => InOrder'
  <2> SUFFICES ASSUME Calm'
               PROVE  InOrder'
    OBVIOUS
  <2>1. InOrder /\ (Stops' <=> Stops)
    BY <1>1, <1>2, <1>3, <1>4, <1>7 DEF Calm, Stops
  <2> QED
    BY <1>2, <1>3, <1>7, <2>1 DEF InOrder
<1> QED
  BY <1>8, <1>9, <1>10, <1>11, <1>12 DEF IInv, Orderly, AssertionsHold

(* Notifications sent ask for nothing else.                                  *)
LEMMA NotificationsSent ==
    ASSUME TypeOK, NEW S, S \subseteq clicked, NEW q \in Seq(Messages \cup clicked)
    PROVE  LET t == q \o SetToSeq(S) IN
           /\ t \in Seq(Messages \cup clicked)
           /\ None(t, StartRequests) <=> None(q, StartRequests)
           /\ None(t, StopRequests) <=> None(q, StopRequests)
           /\ None(t, {"Configure"}) <=> None(q, {"Configure"})
           /\ AtMostOne(q, StartRequests) => AtMostOne(t, StartRequests)
           /\ ConfigureFirst(q) => ConfigureFirst(t)
<1> DEFINE X == Messages \cup clicked
           s == SetToSeq(S)
<1>1. S \subseteq Notifications /\ S \subseteq X
  BY DEF TypeOK
<1>2. IsFiniteSet(S)
  BY <1>1, AdsConstants, FS_Subset
<1>3. s \in Seq(S)
  BY <1>2, SetToSeqType
<1>4. s \in Seq(X) /\ q \in Seq(X)
  BY <1>1, <1>3, SeqOfMore
<1>5. \A i \in DOMAIN s : s[i] \in Notifications
  <2> SUFFICES ASSUME NEW i \in DOMAIN s
               PROVE  s[i] \in S
    BY <1>1
  <2> HIDE DEF s
  <2> QED
    BY <1>3
<1> HIDE DEF s, X
<1>6. None(s, StartRequests) /\ None(s, StopRequests) /\ None(s, {"Configure"})
  BY <1>5, NotificationNames DEF None, StartRequests, StopRequests, Messages
<1>7. /\ q \o s \in Seq(X)
      /\ None(q \o s, StartRequests) <=> None(q, StartRequests)
      /\ AtMostOne(q, StartRequests) => AtMostOne(q \o s, StartRequests)
      /\ ConfigureFirst(q) => ConfigureFirst(q \o s)
  BY <1>4, <1>6, ConcatFacts
<1>8. None(q \o s, StopRequests) <=> None(q, StopRequests)
  BY <1>4, <1>6, ConcatFacts
<1>9. None(q \o s, {"Configure"}) <=> None(q, {"Configure"})
  BY <1>4, <1>6, ConcatFacts
<1> QED
  BY <1>7, <1>8, <1>9 DEF s, X

LEMMA OnInitializeKeeps ==
    ASSUME IInv, ~failed, OnInitialize
    PROVE  IInv'
<1>1. TypeOK /\ InitializedMeansRunning /\ OneStart /\ Process /\ (Calm => InOrder)
  BY DEF IInv, Orderly
<1> DEFINE r == Head(replies)
           s == SetToSeq(pending)
           t == SetToSeq({retry} \ {""})
<1>2. /\ UNCHANGED <<enabled, watching, service, connected, starting, wallet, ads,
                     clicked, opened, failed, hasty>>
      /\ replies # << >> /\ r.to = "OnInitialize" /\ replies' = Tail(replies)
      /\ initialized' = r.ok
      /\ \/ requests' = requests /\ UNCHANGED <<handler, pending, retry>>
         \/ /\ requests' = IF service = "up" THEN requests \o s \o t ELSE requests
            /\ handler' = TRUE /\ pending' = {} /\ retry' = ""
  BY DEF OnInitialize, Answer, clicks
<1>3. /\ r \in Replies /\ replies' \in Seq([to: Answers \cup clicked, ok: BOOLEAN])
      /\ None(replies, StartReplies) <=> None(replies', StartReplies) /\ r \notin StartReplies
      /\ None(replies, StopReplies) <=> None(replies', StopReplies) /\ r \notin StopReplies
      /\ None(replies, RefusedStops) <=> None(replies', RefusedStops) /\ r \notin RefusedStops
      /\ None(replies, Initializations)
           <=> None(replies', Initializations) /\ r \notin Initializations
      /\ AtMostOne(replies, StartReplies) => AtMostOne(replies', StartReplies)
      /\ AtMostOne(replies, StartReplies) /\ r \in StartReplies => None(replies', StartReplies)
  BY <1>1, <1>2, AnswerTaken
<1>4. /\ r \in StartReplies /\ r \notin StopReplies /\ r.ok \in BOOLEAN
      /\ r \in Initializations <=> r.ok
  BY <1>2, <1>3, AnswerKinds DEF Replies
<1>5. /\ connected /\ ~initialized /\ ads # "initializing"
      /\ None(requests, StartRequests) /\ None(replies', StartReplies)
      /\ service = "up" /\ r.ok => ads = "initialized"
  BY <1>1, <1>3, <1>4 DEF OneStart, Process
<1>6. service # "dead" /\ service # "none"
  BY <1>1, <1>2, <1>5 DEF Process
<1>7. /\ requests' \in Seq(Messages \cup clicked)
      /\ None(requests', StartRequests) <=> None(requests, StartRequests)
      /\ None(requests', StopRequests) <=> None(requests, StopRequests)
      /\ None(requests', {"Configure"}) <=> None(requests, {"Configure"})
      /\ AtMostOne(requests, StartRequests) => AtMostOne(requests', StartRequests)
      /\ ConfigureFirst(requests) => ConfigureFirst(requests')
  <2>1. requests \in Seq(Messages \cup clicked) /\ pending \subseteq clicked
        /\ {retry} \ {""} \subseteq clicked
    BY <1>1 DEF TypeOK
  <2>2. /\ requests \o s \in Seq(Messages \cup clicked)
        /\ None(requests \o s, StartRequests) <=> None(requests, StartRequests)
        /\ None(requests \o s, StopRequests) <=> None(requests, StopRequests)
        /\ None(requests \o s, {"Configure"}) <=> None(requests, {"Configure"})
        /\ AtMostOne(requests, StartRequests) => AtMostOne(requests \o s, StartRequests)
        /\ ConfigureFirst(requests) => ConfigureFirst(requests \o s)
    BY <1>1, <2>1, NotificationsSent
  <2> DEFINE u == requests \o s
  <2> HIDE DEF u, s
  <2>3. /\ u \o t \in Seq(Messages \cup clicked)
        /\ None(u \o t, StartRequests) <=> None(u, StartRequests)
        /\ None(u \o t, StopRequests) <=> None(u, StopRequests)
        /\ None(u \o t, {"Configure"}) <=> None(u, {"Configure"})
        /\ AtMostOne(u, StartRequests) => AtMostOne(u \o t, StartRequests)
        /\ ConfigureFirst(u) => ConfigureFirst(u \o t)
    <3>1. u \in Seq(Messages \cup clicked)
      BY <2>2 DEF u
    <3> QED
      BY <1>1, <2>1, <3>1, NotificationsSent
  <2>4. requests' = requests \/ requests' = u \o t
    BY <1>2 DEF u
  <2> HIDE DEF t
  <2>5. CASE requests' = requests
    BY <2>1, <2>5
  <2>6. CASE requests' = u \o t
    BY <2>2, <2>3, <2>6 DEF u
  <2> QED
    BY <2>4, <2>5, <2>6
<1>8. service # "up" => requests' = << >>
  BY <1>1, <1>2 DEF Process
<1>9. TypeOK'
  <2>1. /\ handler' \in BOOLEAN /\ pending' \subseteq clicked /\ retry' \in clicked \cup {""}
        /\ initialized' \in BOOLEAN
    BY <1>1, <1>2, <1>4 DEF TypeOK
  <2> QED
    BY <1>1, <1>2, <1>3, <1>7, <2>1 DEF TypeOK
<1>10. InitializedMeansRunning' /\ ~failed'
  BY <1>2, <1>5, <1>6 DEF InitializedMeansRunning
<1>11. OneStart'
  BY <1>1, <1>2, <1>3, <1>5, <1>7 DEF OneStart
<1>12. Process'
  BY <1>1, <1>2, <1>3, <1>5, <1>6, <1>8 DEF Process
<1>13. Calm' => InOrder'
  <2> SUFFICES ASSUME Calm'
               PROVE  InOrder'
    OBVIOUS
  <2>1. InOrder
    BY <1>1, <1>2 DEF Calm
  <2>2. ~Stops /\ (Stops' <=> Stops) /\ enabled
    BY <1>3, <1>4, <1>5, <1>7, <2>1 DEF InOrder, Stops
  <2> QED
    BY <1>2, <1>3, <1>5, <1>6, <1>7, <2>1, <2>2 DEF InOrder
<1> QED
  BY <1>9, <1>10, <1>11, <1>12, <1>13 DEF IInv, Orderly, AssertionsHold

LEMMA OnShutdownBatAdsKeeps ==
    ASSUME IInv, ~failed, NEW reset \in BOOLEAN, OnShutdownBatAds(reset)
    PROVE  IInv'
<1>1. TypeOK /\ InitializedMeansRunning /\ OneStart /\ Process /\ (Calm => InOrder)
  BY DEF IInv, Orderly
<1> DEFINE r == Head(replies)
<1>2. /\ UNCHANGED <<watching, starting, wallet, handler, pending, retry, clicked, opened, hasty>>
      /\ replies # << >> /\ r.to \in {"OnShutdownBatAds", "OnShutdownAndResetBatAds"}
      /\ (Calm' <=> Calm)
  BY DEF OnShutdownBatAds, Answer, clicks, Calm
<1>3. r \in Replies /\ r \in StopReplies
  BY <1>1, <1>2, TypeFacts, AnswerFacts, AnswerKinds
<1>4. Stops
  BY <1>1, <1>2, <1>3, TypeFacts, AnswerFacts DEF Stops
<1>5. CASE r.ok /\ initialized
  <2>1. /\ connected' = FALSE /\ initialized' = FALSE /\ replies' = << >> /\ failed' = failed
        /\ service' = "none" /\ ads' = "none" /\ requests' = << >>
        /\ enabled' = (enabled /\ ~reset)
    BY <1>5 DEF OnShutdownBatAds, Disconnected
  <2>2. TypeOK'
    <3>1. /\ << >> \in Seq(Messages \cup clicked)
          /\ << >> \in Seq([to: Answers \cup clicked, ok: BOOLEAN])
      OBVIOUS
    <3>2. enabled' \in BOOLEAN
      BY <2>1
    <3> QED
      BY <1>1, <1>2, <2>1, <3>1, <3>2 DEF TypeOK
  <2>3. InitializedMeansRunning' /\ ~failed'
    BY <2>1 DEF InitializedMeansRunning
  <2>4. OneStart'
    BY <2>1, FreshFacts DEF OneStart
  <2>5. Process'
    BY <1>1, <1>2, <2>1, FreshFacts DEF Process
  <2>6. Calm' => InOrder'
    <3> SUFFICES ASSUME Calm'
                 PROVE  InOrder'
      OBVIOUS
    <3>1. Sum(starting) = 0 /\ wallet = 0 /\ ~Stops'
      BY <1>1, <1>2, <1>4, <1>5, <2>1, FreshFacts DEF InOrder, InitializedMeansRunning, Stops
    <3> QED
      BY <1>2, <2>1, <3>1, FreshFacts DEF InOrder
  <2> QED
    BY <2>2, <2>3, <2>4, <2>5, <2>6 DEF IInv, Orderly, AssertionsHold
<1>6. CASE ~r.ok \/ ~initialized
  <2>1. /\ UNCHANGED <<enabled, service, connected, initialized, requests, ads>>
        /\ replies' = Tail(replies) /\ failed' = ~initialized
    BY <1>6, <1>1 DEF OnShutdownBatAds, TypeOK
  <2>2. /\ replies' \in Seq([to: Answers \cup clicked, ok: BOOLEAN])
        /\ None(replies, StartReplies) => None(replies', StartReplies)
        /\ None(replies, Initializations) => None(replies', Initializations)
        /\ None(replies, RefusedStops) => r \notin RefusedStops
        /\ AtMostOne(replies, StartReplies) => AtMostOne(replies', StartReplies)
        /\ None(replies', Initializations) => None(replies, Initializations)
    <3>1. r \notin Initializations
      BY <1>2, <1>3, AnswerKinds
    <3> QED
      BY <1>1, <1>2, <2>1, <3>1, AnswerTaken
  <2>3. TypeOK'
    <3>1. failed' \in BOOLEAN
      BY <2>1
    <3> QED
      BY <1>1, <1>2, <2>1, <2>2, <3>1 DEF TypeOK
  <2>4. InitializedMeansRunning'
    BY <1>1, <2>1 DEF InitializedMeansRunning
  <2>5. OneStart'
    BY <1>1, <2>1, <2>2 DEF OneStart
  <2>6. Process'
    <3>1. connected /\ service # "dead"
      BY <1>1, <1>2 DEF Process
    <3> QED
      BY <1>1, <1>2, <2>1, <2>2, <3>1 DEF Process
  <2>7. ~Calm
    <3>1. Calm => initialized /\ r \notin RefusedStops
      BY <1>1, <1>4, <2>2 DEF InOrder
    <3>2. ~r.ok => r \in RefusedStops
      BY <1>2, <1>3, AnswerKinds
    <3> QED
      BY <1>6, <3>1, <3>2
  <2> QED
    BY <1>2, <2>3, <2>4, <2>5, <2>6, <2>7 DEF IInv, Orderly, AssertionsHold, Calm
<1> QED
  BY <1>5, <1>6

LEMMA OnViewAdNotificationKeeps ==
    ASSUME IInv, ~failed, NEW n \in Notifications, OnViewAdNotification(n)
    PROVE  IInv'
<1>1. TypeOK /\ InitializedMeansRunning /\ OneStart /\ Process /\ (Calm => InOrder)
  BY DEF IInv, Orderly
<1> DEFINE r == Head(replies)
<1>2. /\ UNCHANGED <<enabled, watching, service, connected, initialized, starting, wallet,
                     requests, ads, handler, pending, retry, clicked, failed, hasty>>
      /\ replies # << >> /\ r.to = n /\ replies' = Tail(replies) /\ opened' = opened \cup {n}
  BY DEF OnViewAdNotification, Answer
<1>3. /\ r \in Replies /\ replies' \in Seq([to: Answers \cup clicked, ok: BOOLEAN])
      /\ r \in [to: Answers \cup clicked, ok: BOOLEAN]
      /\ None(replies, StartReplies) <=> None(replies', StartReplies) /\ r \notin StartReplies
      /\ None(replies, StopReplies) <=> None(replies', StopReplies) /\ r \notin StopReplies
      /\ None(replies, RefusedStops) <=> None(replies', RefusedStops) /\ r \notin RefusedStops
      /\ None(replies, Initializations)
           <=> None(replies', Initializations) /\ r \notin Initializations
      /\ AtMostOne(replies, StartReplies) => AtMostOne(replies', StartReplies)
  BY <1>1, <1>2, AnswerTaken
<1>4. n \notin Answers /\ n \in clicked
  BY <1>2, <1>3, NotificationNames
<1>5. /\ None(replies', StartReplies) <=> None(replies, StartReplies)
      /\ None(replies', StopReplies) <=> None(replies, StopReplies)
      /\ None(replies', RefusedStops) <=> None(replies, RefusedStops)
      /\ None(replies', Initializations) <=> None(replies, Initializations)
  <2>1. r \notin StartReplies /\ r \notin StopReplies /\ r \notin RefusedStops
        /\ r \notin Initializations
    BY <1>2, <1>3, <1>4, AnswerKinds DEF Answers
  <2> QED
    BY <1>3, <2>1
<1>6. connected /\ service # "dead"
  BY <1>1, <1>2 DEF Process
<1>7. TypeOK'
  BY <1>1, <1>2, <1>3, <1>4 DEF TypeOK
<1>8. InitializedMeansRunning' /\ ~failed'
  BY <1>1, <1>2 DEF InitializedMeansRunning
<1>9. OneStart'
  BY <1>1, <1>2, <1>3, <1>5 DEF OneStart
<1>10. Process'
  BY <1>1, <1>2, <1>5, <1>6 DEF Process
<1>11. Calm' => InOrder'
  BY <1>1, <1>2, <1>5 DEF Calm, InOrder, Stops
<1> QED
  BY <1>7, <1>8, <1>9, <1>10, <1>11 DEF IInv, Orderly, AssertionsHold

LEMMA OnClickKeeps ==
    ASSUME IInv, ~failed, NEW n \in Notifications, OnClick(n)
    PROVE  IInv'
<1>1. TypeOK /\ InitializedMeansRunning /\ OneStart /\ Process /\ (Calm => InOrder)
  BY DEF IInv, Orderly
<1>2. /\ UNCHANGED <<enabled, watching, service, connected, initialized, starting, wallet,
                     replies, ads, handler, opened, failed, hasty>>
      /\ clicked' = clicked \cup {n}
      /\ \/ pending' = pending \cup {n} /\ UNCHANGED <<retry, requests>>
         \/ retry' = n /\ UNCHANGED <<pending, requests>>
         \/ connected /\ requests' = Sent(requests, n) /\ UNCHANGED <<pending, retry>>
  BY DEF OnClick
<1>3. requests \in Seq(Requests) /\ n \in Requests
      /\ n \notin StartRequests /\ n \notin StopRequests /\ n # "Configure"
  BY <1>1, TypeFacts, NotificationNames DEF Requests, StartRequests, StopRequests, Messages
<1>4. /\ None(requests', StartRequests) <=> None(requests, StartRequests)
      /\ None(requests', StopRequests) <=> None(requests, StopRequests)
      /\ None(requests', {"Configure"}) <=> None(requests, {"Configure"})
      /\ AtMostOne(requests, StartRequests) => AtMostOne(requests', StartRequests)
      /\ ConfigureFirst(requests) => ConfigureFirst(requests')
  <2>1. requests' = requests \/ requests' = Append(requests, n)
    BY <1>2 DEF Sent
  <2>2. CASE requests' = requests
    BY <2>2
  <2>3. CASE requests' = Append(requests, n)
    BY <1>3, <2>3, SendFacts
  <2> QED
    BY <2>1, <2>2, <2>3
<1>5. /\ service # "up" => requests' = << >>
      /\ ~connected => None(requests', Requests \ {"Configure"})
  BY <1>1, <1>2 DEF Process, Sent
<1>6. TypeOK'
  <2>1. requests' \in Seq(Messages \cup clicked')
    <3>1. Messages \cup clicked \subseteq Messages \cup clicked' /\ n \in Messages \cup clicked'
      BY <1>2
    <3>2. requests \in Seq(Messages \cup clicked')
      BY <1>1, <3>1, SeqOfMore DEF TypeOK
    <3>3. Append(requests, n) \in Seq(Messages \cup clicked')
      BY <3>1, <3>2, AppendFacts
    <3> QED
      BY <1>2, <3>2, <3>3 DEF Sent
  <2>2. replies' \in Seq([to: Answers \cup clicked', ok: BOOLEAN])
    <3>1. [to: Answers \cup clicked, ok: BOOLEAN] \subseteq [to: Answers \cup clicked', ok: BOOLEAN]
      BY <1>2
    <3>2. replies \in Seq([to: Answers \cup clicked', ok: BOOLEAN])
      BY <1>1, <3>1, SeqOfMore DEF TypeOK
    <3> QED
      BY <1>2, <3>2
  <2>3. /\ pending' \subseteq clicked' /\ retry' \in clicked' \cup {""}
        /\ clicked' \subseteq Notifications /\ opened' \subseteq clicked'
    BY <1>1, <1>2 DEF TypeOK
  <2> QED
    BY <1>1, <1>2, <2>1, <2>2, <2>3 DEF TypeOK
<1>7. InitializedMeansRunning' /\ ~failed'
  BY <1>1, <1>2 DEF InitializedMeansRunning
<1>8. OneStart'
  BY <1>1, <1>2, <1>4 DEF OneStart
<1>9. Process'
  BY <1>1, <1>2, <1>5 DEF Process
<1>10. Calm' => InOrder'
  BY <1>1, <1>2, <1>4 DEF Calm, InOrder, Stops
<1> QED
  BY <1>6, <1>7, <1>8, <1>9, <1>10 DEF IInv, Orderly, AssertionsHold

-----------------------------------------------------------------------------
LEMMA StepInvariant == IInv /\ [Next]_vars => IInv'
<1> SUFFICES ASSUME IInv, [Next]_vars
             PROVE  IInv'
  OBVIOUS
<1>1. CASE Next
  BY <1>1, OnMigrateConfirmationsStateKeeps, SetEnabledKeeps, OnWalletUpdatedKeeps,
     ResetAllStateKeeps,
     OnDisconnectKeeps, StartKeeps, OnGetHardwareInfoKeeps, OnEnsureBaseDirectoryExistsKeeps,
     OnGetBraveWalletKeeps, HandleRequestKeeps, AdsInitializedKeeps, ServiceCrashKeeps,
     OnCreateKeeps, OnInitializeKeeps, OnShutdownBatAdsKeeps, OnViewAdNotificationKeeps,
     OnClickKeeps
     DEF Next
<1>2. CASE UNCHANGED vars
  <2>1. UNCHANGED <<enabled, watching, service, connected, initialized, starting, wallet,
                    requests, replies, ads, handler, pending, retry, clicked, opened, failed,
                    hasty>>
    BY <1>2 DEF vars
  <2>2. TypeOK /\ InitializedMeansRunning /\ AssertionsHold
    BY DEF IInv
  <2>3. TypeOK'
    BY <2>1, <2>2 DEF TypeOK
  <2>4. InitializedMeansRunning' /\ AssertionsHold'
    BY <2>1, <2>2 DEF InitializedMeansRunning, AssertionsHold
  <2>5. ~failed' => OneStart'
    BY <2>1 DEF IInv, Orderly, OneStart
  <2>6. ~failed' => Process'
    BY <2>1 DEF IInv, Orderly, Process
  <2>7. ~failed' => (Calm' => InOrder')
    BY <2>1 DEF IInv, Orderly, Calm, InOrder, Stops
  <2> QED
    BY <2>3, <2>4, <2>5, <2>6, <2>7 DEF IInv, Orderly
<1> QED
  BY <1>1, <1>2

LEMMA Invariant == Spec => []IInv
BY InitInvariant, StepInvariant, PTL DEF Spec

(* The variables always have the values they are declared for, and nothing   *)
(* is opened, asked for or kept but a notification that was clicked.         *)
THEOREM TypeCorrect == Spec => []TypeOK
<1>1. IInv => TypeOK
  BY DEF IInv
<1> QED
  BY <1>1, Invariant, PTL

(* Whatever is changed, reset or dies, and when, a service that is           *)
(* initialized is connected to the process launched for it, whose ads are    *)
(* initialized unless it died (ads_service_impl.cc:540, :664, :991).         *)
THEOREM InitializedServiceRuns == Spec => []ServiceConsistent
<1>1. IInv => ServiceConsistent
  BY DEF IInv, ServiceConsistent
<1> QED
  BY <1>1, Invariant, PTL

(* No assertion of the ads service or of its process fails, and no call is   *)
(* made on an endpoint that is not bound, unless a change of the setting, a  *)
(* reset or a death overtakes a start, a stop, a question to the wallet or   *)
(* another death, or the wallet changes during a stop or a death: its answer *)
(* may find nothing bound (ads_service_impl.cc:394, :655, :687, :700, :816,  *)
(* :849).                                                                    *)
THEOREM NoAssertionFails == Spec => []AssertionsHold
<1>1. IInv => AssertionsHold
  BY DEF IInv
<1> QED
  BY <1>1, Invariant, PTL

=============================================================================
