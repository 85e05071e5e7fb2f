------------------------------ MODULE TorProofs ------------------------------
(***************************************************************************)
(* Proofs about TorLauncher, for any number of launches, tors and deaths.  *)
(* The invariant says what a session of the control connection may have    *)
(* under way, as long as no event came that the code does not expect.      *)
(***************************************************************************)
EXTENDS TorLauncher, SequenceTheorems, FiniteSetTheorems, TLAPS

-----------------------------------------------------------------------------
(* What is in a queue.                                                     *)

Has(q, op) == \E i \in DOMAIN q : q[i].op = op
Single(q, op) == \A i, j \in DOMAIN q : q[i].op = op /\ q[j].op = op => i = j
In(q, m) == \E i \in DOMAIN q : q[i] = m

(* Behind, or before, each a there is a b. *)
Followed(q, a, b) ==
  \A i \in DOMAIN q : q[i].op = a => \E j \in DOMAIN q : i < j /\ q[j].op = b
Preceded(q, a, b) ==
  \A i \in DOMAIN q : q[i].op = a => \E j \in DOMAIN q : j < i /\ q[j].op = b

(* p is q without its first message, or with one more; o is its kind. *)
Dropped(q, p, o) ==
  /\ Has(q, o)
  /\ \A op : op # o => (Has(p, op) <=> Has(q, op))
  /\ \A op : Has(p, op) => Has(q, op)
  /\ \A op : Single(q, op) => Single(p, op)
  /\ Single(q, o) => ~Has(p, o)
  /\ \A a, b : Followed(q, a, b) => Followed(p, a, b) /\ (a = o => Has(p, b))
  /\ \A a, b : Preceded(q, a, b) => a # o /\ (b # o => Preceded(p, a, b))
Added(q, p, o) ==
  /\ \A op : Has(p, op) <=> Has(q, op) \/ op = o
  /\ \A op : Single(q, op) /\ (op = o => ~Has(q, o)) => Single(p, op)
  /\ \A a, b : Followed(q, a, b) /\ a # o => Followed(p, a, b)
  /\ \A a : a # o => Followed(p, a, o)
  /\ \A a, b : Preceded(q, a, b) /\ (a = o => Has(q, b)) => Preceded(p, a, b)

LEMMA AppendedAt ==
  ASSUME NEW S, NEW q \in Seq(S), NEW m \in S
  PROVE  /\ Append(q, m) \in Seq(S)
         /\ DOMAIN q = 1..Len(q) /\ Len(q) \in Nat
         /\ DOMAIN Append(q, m) = 1..Len(q) + 1
         /\ \A i \in DOMAIN q : i \in DOMAIN Append(q, m) /\ Append(q, m)[i] = q[i]
         /\ Append(q, m)[Len(q) + 1] = m
         /\ \A i \in DOMAIN Append(q, m) : i \in DOMAIN q \/ i = Len(q) + 1
  OBVIOUS

LEMMA TailAt ==
  ASSUME NEW S, NEW q \in Seq(S), q # << >>
  PROVE  /\ Tail(q) \in Seq(S) /\ Head(q) \in S /\ Head(q) = q[1]
         /\ DOMAIN q = 1..Len(q) /\ Len(q) \in Nat \ {0}
         /\ DOMAIN Tail(q) = 1..Len(q) - 1
         /\ \A i \in DOMAIN Tail(q) : i + 1 \in DOMAIN q /\ Tail(q)[i] = q[i + 1]
         /\ \A i \in DOMAIN q : i = 1 \/ (i - 1 \in DOMAIN Tail(q) /\ Tail(q)[i - 1] = q[i])
  OBVIOUS

LEMMA AddLast ==
  ASSUME NEW S, NEW q \in Seq(S), NEW m \in S
  PROVE  /\ Append(q, m) \in Seq(S)
         /\ Added(q, Append(q, m), m.op)
         /\ \A x : In(Append(q, m), x) <=> In(q, x) \/ x = m
  <1> DEFINE p == Append(q, m)
             n == Len(q) + 1
  <1>1. /\ p \in Seq(S) /\ DOMAIN q = 1..Len(q) /\ Len(q) \in Nat /\ DOMAIN p = 1..n
        /\ \A i \in DOMAIN q : i \in DOMAIN p /\ p[i] = q[i] /\ i < n
        /\ n \in DOMAIN p /\ p[n] = m
        /\ \A i \in DOMAIN p : i \in DOMAIN q \/ i = n
    BY AppendedAt
  <1>2. /\ \A i \in DOMAIN p : i \in Nat
        /\ \A i \in DOMAIN q : i \in Nat
    BY <1>1
  <1> HIDE DEF p, n
  <1>3. \A op : Has(p, op) <=> Has(q, op) \/ op = m.op
    BY <1>1 DEF Has
  <1>4. \A op : Single(q, op) /\ (op = m.op => ~Has(q, m.op)) => Single(p, op)
    BY <1>1 DEF Single, Has
  <1>5. \A a, b : Followed(q, a, b) /\ a # m.op => Followed(p, a, b)
    <2> SUFFICES ASSUME NEW a, NEW b, Followed(q, a, b), a # m.op, NEW i \in DOMAIN p, p[i].op = a
                 PROVE  \E j \in DOMAIN p : i < j /\ p[j].op = b
      BY ZenonT(60) DEF Followed
    <2>1. i \in DOMAIN q /\ q[i].op = a
      BY <1>1
    <2>2. PICK j \in DOMAIN q : i < j /\ q[j].op = b
      BY <2>1 DEF Followed
    <2>3. QED
      BY <1>1, <2>2
  <1>6. \A a : a # m.op => Followed(p, a, m.op)
    BY <1>1 DEF Followed
  <1>7. \A a, b : Preceded(q, a, b) /\ (a = m.op => Has(q, b)) => Preceded(p, a, b)
    <2> SUFFICES ASSUME NEW a, NEW b, Preceded(q, a, b), a = m.op => Has(q, b),
                        NEW i \in DOMAIN p, p[i].op = a
                 PROVE  \E j \in DOMAIN p : j < i /\ p[j].op = b
      BY DEF Preceded
    <2>1. CASE i \in DOMAIN q
      <3>1. PICK j \in DOMAIN q : j < i /\ q[j].op = b
        BY <1>1, <2>1 DEF Preceded
      <3>2. QED
        BY <1>1, <3>1
    <2>2. CASE i = n
      <3>1. PICK j \in DOMAIN q : q[j].op = b
        BY <1>1, <2>2 DEF Has
      <3>2. QED
        BY <1>1, <2>2, <3>1
    <2>3. QED
      BY <1>1, <2>1, <2>2
  <1>8. \A x : In(p, x) <=> In(q, x) \/ x = m
    BY <1>1 DEF In
  <1>9. QED
    BY <1>1, <1>3, <1>4, <1>5, <1>6, <1>7, <1>8 DEF Added, p

LEMMA DropFirst ==
  ASSUME NEW S, NEW q \in Seq(S), q # << >>
  PROVE  /\ Tail(q) \in Seq(S) /\ Head(q) \in S
         /\ Dropped(q, Tail(q), Head(q).op)
         /\ \A x : In(q, x) <=> In(Tail(q), x) \/ x = Head(q)
  <1> DEFINE p == Tail(q)
             o == Head(q).op
  <1>1. /\ p \in Seq(S) /\ Head(q) \in S /\ Head(q) = q[1] /\ q[1].op = o
        /\ 1 \in DOMAIN q
        /\ \A i \in DOMAIN p : i \in Nat /\ i + 1 \in DOMAIN q /\ p[i] = q[i + 1] /\ 1 < i + 1
        /\ \A i \in DOMAIN q : i \in Nat \ {0}
                               /\ (i = 1 \/ (i - 1 \in DOMAIN p /\ p[i - 1] = q[i]))
    BY TailAt
  <1> HIDE DEF p, o
  <1>2. Has(q, o)
    BY <1>1 DEF Has
  <1>3. \A op : Has(p, op) => Has(q, op)
    BY <1>1 DEF Has
  <1>4. \A op : op # o => (Has(p, op) <=> Has(q, op))
    <2> SUFFICES ASSUME NEW op, op # o, Has(q, op) PROVE Has(p, op)
      BY <1>3
    <2>1. PICK i \in DOMAIN q : q[i].op = op
      BY DEF Has
    <2>2. i # 1
      BY <1>1, <2>1
    <2>3. QED
      BY <1>1, <2>1, <2>2 DEF Has
  <1>5. \A op : Single(q, op) => Single(p, op)
    <2> SUFFICES ASSUME NEW op, Single(q, op), NEW i \in DOMAIN p, NEW j \in DOMAIN p,
                        p[i].op = op, p[j].op = op
                 PROVE  i = j
      BY DEF Single
    <2>1. i + 1 = j + 1
      BY <1>1, SMTT(30) DEF Single
    <2>2. QED
      BY <1>1, <2>1
  <1>6. Single(q, o) => ~Has(p, o)
    <2> SUFFICES ASSUME Single(q, o), NEW i \in DOMAIN p, p[i].op = o PROVE FALSE
      BY DEF Has
    <2>1. i + 1 = 1
      BY <1>1 DEF Single
    <2>2. QED
      BY <1>1, <2>1
  <1>7. \A a, b : Followed(q, a, b) => Followed(p, a, b) /\ (a = o => Has(p, b))
    <2> SUFFICES ASSUME NEW a, NEW b, Followed(q, a, b)
                 PROVE  Followed(p, a, b) /\ (a = o => Has(p, b))
      OBVIOUS
    <2>1. \A i \in DOMAIN q : q[i].op = a => \E j \in DOMAIN p : i < j + 1 /\ p[j].op = b
      <3> SUFFICES ASSUME NEW i \in DOMAIN q, q[i].op = a
                   PROVE  \E j \in DOMAIN p : i < j + 1 /\ p[j].op = b
        OBVIOUS
      <3>1. PICK j \in DOMAIN q : i < j /\ q[j].op = b
        BY DEF Followed
      <3>2. /\ j # 1 /\ j \in Nat
            /\ j - 1 \in DOMAIN p /\ p[j - 1].op = b
        BY <1>1, <3>1
      <3>3. i < (j - 1) + 1
        BY <3>1, <3>2
      <3>4. QED
        BY <3>2, <3>3
    <2>2. Followed(p, a, b)
      <3> SUFFICES ASSUME NEW i \in DOMAIN p, p[i].op = a
                   PROVE  \E j \in DOMAIN p : i < j /\ p[j].op = b
        BY DEF Followed
      <3>1. PICK j \in DOMAIN p : i + 1 < j + 1 /\ p[j].op = b
        BY <1>1, <2>1
      <3>2. i < j
        BY <1>1, <3>1
      <3>3. QED
        BY <3>1, <3>2
    <2>3. a = o => Has(p, b)
      BY <1>1, <2>1 DEF Has
    <2>4. QED
      BY <2>2, <2>3
  <1>8. \A a, b : Preceded(q, a, b) => a # o /\ (b # o => Preceded(p, a, b))
    <2> SUFFICES ASSUME NEW a, NEW b, Preceded(q, a, b)
                 PROVE  a # o /\ (b # o => Preceded(p, a, b))
      OBVIOUS
    <2>1. a # o
      BY <1>1 DEF Preceded
    <2>2. ASSUME b # o, NEW i \in DOMAIN p, p[i].op = a
          PROVE  \E j \in DOMAIN p : j < i /\ p[j].op = b
      <3>1. PICK j \in DOMAIN q : j < i + 1 /\ q[j].op = b
        BY <1>1, <2>2 DEF Preceded
      <3>2. j # 1 /\ j \in Nat /\ j - 1 \in DOMAIN p /\ p[j - 1].op = b
        BY <1>1, <2>2, <3>1
      <3>3. j - 1 < i
        BY <1>1, <3>1, <3>2
      <3>4. QED
        BY <3>2, <3>3
    <2>3. QED
      BY <2>1, <2>2 DEF Preceded
  <1>9. \A x : In(q, x) <=> In(p, x) \/ x = Head(q)
    <2>1. \A x : In(p, x) \/ x = Head(q) => In(q, x)
      BY <1>1 DEF In
    <2>2. \A x : In(q, x) => In(p, x) \/ x = Head(q)
      BY <1>1 DEF In
    <2>3. QED
      BY <2>1, <2>2
  <1>10. QED
    BY <1>1, <1>2, <1>3, <1>4, <1>5, <1>6, <1>7, <1>8, <1>9 DEF Dropped, p, o

LEMMA Empty ==
  /\ \A op : ~Has(<< >>, op) /\ Single(<< >>, op)
  /\ \A m : ~In(<< >>, m)
  /\ \A a, b : Followed(<< >>, a, b) /\ Preceded(<< >>, a, b)
BY DEF Has, Single, In, Followed, Preceded

-----------------------------------------------------------------------------
(* The invariant.                                                          *)

Count(p) == IF p THEN 1 ELSE 0

TorOrNone == Tors \cup {0}
Commands == {"AUTHENTICATE", "GETINFO", "SETEVENTS"}
WatchTasks == [op : {"CheckingOldTorProcess", "StartWatching", "StopWatching",
                     "WatchDirChanged", "Poll", "PollDone"}]
IoTasks == [op : {"Error", "DoSubscribe"}]
           \cup [op : {"DoCmd"}, cmd : Commands, cookie : TorOrNone]
           \cup [op : {"OpenControl"}, port : Tors, cookie : Tors]
UiTasks == [op : {"OnTorControlCheckComplete", "OnTorControlReady", "GotSOCKSListeners",
                  "OnTorEvent"}, tor : TorOrNone]
Answers == [op : {"OnTorLaunched"}, result : {TRUE}, tor : Tors]
           \cup [op : {"OnTorLaunched"}, result : {FALSE}, tor : {0}]
           \cup [op : {"OnTorCrashed"}, tor : Tors]
Sent == [cmd : Commands, cookie : TorOrNone]
Conn == [state : {"none", "connecting", "refused", "open"}, tor : TorOrNone,
         cookie : TorOrNone, authed : BOOLEAN, subscribed : BOOLEAN, closed : BOOLEAN,
         deaf : BOOLEAN]

(* Types, and what holds whatever comes when: tor is there at the other    *)
(* end of an open connection, a process that is gone has nothing under     *)
(* way, and only a watched directory is polled again.                      *)
ShapeInv ==
  /\ TypeOK
  /\ watchq \in Seq(WatchTasks) /\ ioq \in Seq(IoTasks) /\ uiq \in Seq(UiTasks)
  /\ mojo \in Seq(Answers) /\ cmdq \in Seq(Sent)
  /\ conn \in Conn
  /\ conn.state = "open" /\ ~conn.closed => Up(conn.tor)
  /\ launcher = "none" => launching = 0 /\ mojo = << >> /\ children = {} /\ torPid = 0
  /\ launcher \in {"down", "dead"} => launching = 0 /\ children = {}
  /\ launcher = "dead" => mojo = << >>
  /\ repoll => watcher /\ polling

(* Where a launch may be: in the check of the old tor, with its answer, in *)
(* the process, which answers.                                             *)
Launched == Has(mojo, "OnTorLaunched")
Crashed == Has(mojo, "OnTorCrashed")
Way == Count(Has(watchq, "CheckingOldTorProcess"))
       + Count(Has(uiq, "OnTorControlCheckComplete")) + launching
Preparing == Way + Count(Launched) > 0
Said(g) == [op |-> "OnTorLaunched", result |-> TRUE, tor |-> g]
Died(g) == [op |-> "OnTorCrashed", tor |-> g]

(* There is one launch, one tor, or one relaunch. *)
LaunchInv ==
  /\ Way + Count(Launched) + relaunch <= 1
  /\ Way + Count(children # {}) + Count(Crashed) + relaunch <= 1
  /\ Single(watchq, "CheckingOldTorProcess") /\ Single(uiq, "OnTorControlCheckComplete")
  /\ Single(mojo, "OnTorLaunched") /\ Single(mojo, "OnTorCrashed")
  /\ \A g, h \in children : g = h
  /\ relaunch > 0 => launcher = "none"

(* On the way to a tor none is up; one that is launched is the only one,   *)
(* and the factory knows it or will.                                       *)
TorsInv ==
  /\ Way + relaunch + Count(Crashed) > 0 => \A g \in Tors : ~Up(g)
  /\ children # {} => \A g \in Tors : Up(g) => g \in children
  /\ Way + Count(Launched) + relaunch > 0 => torPid = 0
  /\ \A g \in children : torPid = g \/ In(mojo, Said(g))
  /\ torPid # 0 => \/ torPid \in children
                   \/ In(mojo, Died(torPid))
                   \/ launcher \in {"down", "dead"}
  /\ \A g \in Tors : In(mojo, Said(g)) => \/ g \in children
                                          \/ In(mojo, Died(g))
                                          \/ launcher \in {"down", "dead"}

(* Commands to tor are under way. *)
Commanding == Has(ioq, "DoCmd") \/ Has(ioq, "DoSubscribe") \/ Has(uiq, "OnTorControlReady")

(* Nothing of a session is left but tasks that find nothing to do. *)
Settled ==
  /\ conn.state \notin {"connecting", "refused"}
  /\ ~Has(ioq, "OpenControl") /\ ~Has(watchq, "StartWatching") /\ ~Has(watchq, "Poll")
  /\ Has(watchq, "PollDone") => ~watcher
  /\ Followed(watchq, "PollDone", "CheckingOldTorProcess")
  /\ watcher => Preceded(watchq, "WatchDirChanged", "StopWatching")

(* A stop undoes what the session did, and the next one finds it undone.   *)
StopInv ==
  /\ Preparing => ~running /\ watchPath /\ ~Commanding
  /\ running => watchPath
  /\ relaunch > 0 => ~running
  /\ Has(watchq, "StopWatching") \/ Has(ioq, "Error") => ~running /\ ~Preparing
  /\ ~running =>
       /\ watcher => Has(watchq, "StopWatching")
       /\ Followed(watchq, "StartWatching", "StopWatching")
       /\ conn.state = "open" => Has(ioq, "Error")
       /\ relaunch = 0 => Settled

(* Those who own polling_, one at most. *)
Looking == Count(Has(watchq, "Poll")) + Count(Has(watchq, "PollDone"))
           + Count(Has(ioq, "OpenControl")) + Count(conn.state \in {"connecting", "open"})

PollInv ==
  /\ Single(watchq, "StartWatching") /\ Single(watchq, "Poll") /\ Single(watchq, "PollDone")
  /\ Single(ioq, "OpenControl")
  /\ Has(watchq, "StartWatching") => ~watcher /\ Looking = 0
  /\ Looking <= 1
  /\ Looking = 1 => polling
  /\ running /\ watcher /\ polling => Looking = 1
  /\ running /\ Has(watchq, "PollDone") => conn.state = "refused"

(* Commands posted, and commands that wait for a reply. *)
Posted(q) == {q[i].cmd : i \in {j \in DOMAIN q : q[j].op = "DoCmd"}}
Waiting(q) == {q[i].cmd : i \in DOMAIN q}

(* Commands are for a tor that lives and a connection that is open, the    *)
(* first of which authenticates it.                                        *)
CmdInv ==
  /\ Commanding => /\ \E g \in Tors : Up(g)
                   /\ conn.state \notin {"connecting", "refused"} /\ ~conn.closed
                   /\ running => conn.state = "open"
  /\ cmdq # << >> => conn.state = "open"
  /\ conn.state = "connecting" => ~conn.closed /\ ~conn.authed
  /\ conn.state = "open" /\ ~conn.closed /\ ~conn.authed =>
       /\ ~Has(ioq, "DoSubscribe") /\ ~Has(uiq, "OnTorControlReady")
       /\ Single(ioq, "DoCmd") /\ Len(cmdq) <= 1
       /\ Has(ioq, "DoCmd") => cmdq = << >>
       /\ Posted(ioq) \cup Waiting(cmdq) \subseteq {"AUTHENTICATE"}
  /\ conn.state = "open" /\ ~conn.closed /\ conn.authed =>
       "AUTHENTICATE" \notin Posted(ioq) \cup Waiting(cmdq)

Calm == ~failed /\ LaunchInv /\ TorsInv /\ StopInv /\ PollInv /\ CmdInv
TorInv == ShapeInv /\ (~hasty => Calm)

-----------------------------------------------------------------------------
(* The messages.                                                           *)

LEMMA Tasks1 ==
  /\ \A op \in {"CheckingOldTorProcess", "StartWatching", "StopWatching",
                "WatchDirChanged", "Poll", "PollDone"} :
       Task(op) \in WatchTasks /\ Task(op).op = op
  /\ \A op \in {"Error", "DoSubscribe"} : Task(op) \in IoTasks /\ Task(op).op = op
  /\ \A c \in Commands, g \in TorOrNone :
       /\ DoCmdTask(c, g) \in IoTasks
       /\ DoCmdTask(c, g).op = "DoCmd" /\ DoCmdTask(c, g).cmd = c
  /\ \A op \in {"OnTorControlCheckComplete", "OnTorControlReady", "GotSOCKSListeners",
                "OnTorEvent"}, g \in TorOrNone :
       Notice(op, g) \in UiTasks /\ Notice(op, g).op = op
BY DEF Task, DoCmdTask, Notice, WatchTasks, IoTasks, UiTasks

LEMMA Answers1 ==
  /\ \A g \in Tors : /\ Said(g) \in Answers /\ Said(g).op = "OnTorLaunched"
                     /\ Died(g) \in Answers /\ Died(g).op = "OnTorCrashed"
  /\ [op |-> "OnTorLaunched", result |-> FALSE, tor |-> 0] \in Answers
BY DEF Said, Died, Answers

(* The first task of each queue, by its kind. *)
LEMMA Heads ==
  ASSUME ShapeInv
  PROVE  /\ watchq # << >> => /\ Tail(watchq) \in Seq(WatchTasks)
                              /\ Dropped(watchq, Tail(watchq), Head(watchq).op)
         /\ ioq # << >> => /\ Tail(ioq) \in Seq(IoTasks)
                           /\ Dropped(ioq, Tail(ioq), Head(ioq).op)
                           /\ Head(ioq) \in IoTasks
         /\ uiq # << >> => /\ Tail(uiq) \in Seq(UiTasks)
                           /\ Dropped(uiq, Tail(uiq), Head(uiq).op)
                           /\ Head(uiq) \in UiTasks
         /\ mojo # << >> => /\ Tail(mojo) \in Seq(Answers)
                            /\ Dropped(mojo, Tail(mojo), Head(mojo).op)
                            /\ Head(mojo) \in Answers
                            /\ \A x : In(mojo, x) <=> In(Tail(mojo), x) \/ x = Head(mojo)
         /\ cmdq # << >> => Tail(cmdq) \in Seq(Sent) /\ Head(cmdq) \in Sent
BY DropFirst DEF ShapeInv

-----------------------------------------------------------------------------
(* The shape is kept.                                                      *)

LEMMA PutWatch ==
  ASSUME NEW q \in Seq(WatchTasks), NEW op \in {"CheckingOldTorProcess", "StartWatching",
           "StopWatching", "WatchDirChanged", "Poll", "PollDone"}
  PROVE  Append(q, Task(op)) \in Seq(WatchTasks) /\ Added(q, Append(q, Task(op)), op)
BY Tasks1, AddLast

LEMMA PutIo ==
  ASSUME NEW q \in Seq(IoTasks), NEW m \in IoTasks
  PROVE  Append(q, m) \in Seq(IoTasks) /\ Added(q, Append(q, m), m.op)
BY AddLast

LEMMA PutUi ==
  ASSUME NEW q \in Seq(UiTasks), NEW m \in UiTasks
  PROVE  Append(q, m) \in Seq(UiTasks) /\ Added(q, Append(q, m), m.op)
BY AddLast

(* What Poll and PollDone do, with q the tasks behind them. *)
Finishes(q) ==
  /\ ioq' = ioq /\ repoll' = FALSE /\ polling' = repoll
  /\ watchq' \in Seq(WatchTasks)
  /\ IF repoll THEN Added(q, watchq', "Poll") ELSE watchq' = q
Looks(q) ==
  \/ /\ Added(ioq, ioq', "OpenControl") /\ ioq' \in Seq(IoTasks)
     /\ Posted(ioq') = Posted(ioq)
     /\ polling' = TRUE /\ repoll' = repoll /\ watchq' = q
  \/ Finishes(q)

LEMMA DoneForm ==
  ASSUME ShapeInv, NEW q \in Seq(WatchTasks), DoneThen(q)
  PROVE  Finishes(q)
BY PutWatch DEF DoneThen, Finishes, ShapeInv, TypeOK

LEMMA NotPosted ==
  ASSUME NEW S, NEW q \in Seq(S), NEW m \in S, m.op # "DoCmd"
  PROVE  Posted(Append(q, m)) = Posted(q)
<1>1. /\ \A i \in DOMAIN q : i \in DOMAIN Append(q, m) /\ Append(q, m)[i] = q[i]
      /\ \A i \in DOMAIN Append(q, m) : i \in DOMAIN q \/ Append(q, m)[i] = m
  BY AppendedAt
<1> HIDE DEF Posted
<1>2. \A x : x \in Posted(Append(q, m)) <=>
               \E i \in DOMAIN Append(q, m) : Append(q, m)[i].op = "DoCmd" /\ x = Append(q, m)[i].cmd
  BY DEF Posted
<1>3. \A x : x \in Posted(q) <=> \E i \in DOMAIN q : q[i].op = "DoCmd" /\ x = q[i].cmd
  BY DEF Posted
<1>4. \A x : x \in Posted(Append(q, m)) <=> x \in Posted(q)
  BY <1>1, <1>2, <1>3
<1>5. QED
  BY <1>4

LEMMA PollForm ==
  ASSUME ShapeInv, NEW q \in Seq(WatchTasks), PollThen(q)
  PROVE  Looks(q) /\ fresh' \in BOOLEAN
<1> DEFINE m == [op |-> "OpenControl", port |-> files.port, cookie |-> files.cookie]
           found == watchPath /\ files.cookie # 0 /\ files.port # 0
<1>1. fresh' \in BOOLEAN
  BY DEF PollThen, ShapeInv, TypeOK
<1>2. CASE found /\ fresh
  <2>1. files.port \in Tors /\ files.cookie \in Tors
    BY <1>2 DEF ShapeInv, TypeOK
  <2>2. m \in IoTasks /\ m.op = "OpenControl"
    BY <2>1 DEF IoTasks
  <2>3. ioq' = Append(ioq, m) /\ watchq' = q /\ polling' = TRUE /\ repoll' = repoll
    BY <1>2 DEF PollThen
  <2>4. Added(ioq, ioq', "OpenControl") /\ ioq' \in Seq(IoTasks) /\ Posted(ioq') = Posted(ioq)
    BY <2>2, <2>3, PutIo, NotPosted DEF ShapeInv
  <2>5. QED
    BY <1>1, <2>3, <2>4 DEF Looks
<1>3. CASE ~(found /\ fresh)
  <2>1. DoneThen(q)
    BY <1>3 DEF PollThen
  <2>2. QED
    BY <1>1, <2>1, DoneForm DEF Looks
<1>4. QED
  BY <1>2, <1>3

(* What Stop and Error do. *)
LEMMA StopForm ==
  ASSUME ShapeInv, Stop
  PROVE  /\ watchq' \in Seq(WatchTasks) /\ ioq' \in Seq(IoTasks)
         /\ running' = FALSE /\ depth' \in Int /\ present' \in BOOLEAN
         /\ Posted(ioq') = Posted(ioq)
         /\ IF running
            THEN Added(watchq, watchq', "StopWatching") /\ Added(ioq, ioq', "Error")
            ELSE watchq' = watchq /\ ioq' = ioq
<1>1. Task("Error") \in IoTasks /\ Task("Error").op = "Error"
  BY Tasks1
<1>2. CASE running
  <2>1. /\ watchq' = Append(watchq, Task("StopWatching")) /\ ioq' = Append(ioq, Task("Error"))
        /\ running' = FALSE /\ depth' = 0 /\ present' = FALSE
        /\ watchq \in Seq(WatchTasks) /\ ioq \in Seq(IoTasks)
    BY <1>2 DEF Stop, ShapeInv
  <2>2. watchq' \in Seq(WatchTasks) /\ Added(watchq, watchq', "StopWatching")
    BY <2>1, PutWatch
  <2>3. ioq' \in Seq(IoTasks) /\ Added(ioq, ioq', "Error")
    BY <1>1, <2>1, PutIo
  <2>4. Posted(ioq') = Posted(ioq)
    BY <1>1, <2>1, NotPosted
  <2>5. depth' \in Int
    BY <2>1
  <2>6. present' \in BOOLEAN
    BY <2>1, Zenon
  <2>7. QED
    BY <1>2, <2>1, <2>2, <2>3, <2>4, <2>5, <2>6
<1>3. CASE ~running
  BY <1>3 DEF Stop, ShapeInv, TypeOK
<1>4. QED
  BY <1>2, <1>3

LEMMA ErrorForm ==
  ASSUME ShapeInv, NEW q \in Seq(IoTasks), ErrorThen(q)
  PROVE  /\ depth' \in Int /\ present' \in BOOLEAN /\ reading' = FALSE
         /\ conn' = NoConn /\ cmdq' = << >> /\ ioq' = q
         /\ watchq' \in Seq(WatchTasks)
         /\ IF running THEN Added(watchq, watchq', "Poll") ELSE watchq' = watchq
<1> DEFINE I == {i \in DOMAIN cmdq : cmdq[i].cmd = "SETEVENTS"}
<1>1. Cardinality(I) \in Nat
  <2>1. DOMAIN cmdq = 1..Len(cmdq) /\ Len(cmdq) \in Nat
    BY DEF ShapeInv
  <2>2. I \in SUBSET (1..Len(cmdq))
    BY <2>1
  <2> HIDE DEF I
  <2>3. IsFiniteSet(1..Len(cmdq))
    BY <2>1, FS_Interval
  <2>4. IsFiniteSet(I)
    BY <2>2, <2>3, FS_Subset
  <2>5. QED
    BY <2>4, FS_CardinalityType
<1>2. depth' \in Int /\ present' \in BOOLEAN
  <2> DEFINE n == Cardinality(I)
  <2>1. NotSubscribed(n)
    BY DEF ErrorThen
  <2>2. depth \in Int /\ present \in BOOLEAN
    BY DEF ShapeInv, TypeOK
  <2> HIDE DEF n
  <2>3. depth' = depth - n /\ present' = (IF n = 0 THEN present ELSE depth - n # 0)
    BY <2>1 DEF NotSubscribed
  <2>4. n \in Nat
    BY <1>1 DEF n
  <2>5. depth' \in Int
    BY <2>2, <2>3, <2>4
  <2>6. present' \in BOOLEAN
    <3>1. CASE n = 0
      BY <2>2, <2>3, <3>1
    <3>2. CASE n # 0
      BY <2>3, <3>2
    <3>3. QED
      BY <3>1, <3>2
  <2>7. QED
    BY <2>5, <2>6
<1>3. QED
  BY <1>2, PutWatch DEF ErrorThen, ShapeInv

LEMMA ShapeWatch ==
  ASSUME ShapeInv, NEW ok \in BOOLEAN, UNCHANGED launcherVars,
         \/ StartWatching(ok) \/ StopWatching \/ CheckingOldTorProcess
         \/ WatchDirChanged \/ Poll \/ PollDone
  PROVE  ShapeInv'
<1> USE DEF watch, io, world, past, factory, process, counters, launcherVars
<1>1. CASE StartWatching(ok)
  <2>1. watchq # << >>
    BY <1>1 DEF StartWatching, Watching
  <2>2. Tail(watchq) \in Seq(WatchTasks)
    BY <2>1, Heads
  <2>3. CASE PollThen(Tail(watchq)) /\ watcher' = TRUE /\ failed' = failed
             /\ watchPath' = watchPath /\ watchFailures' = watchFailures
    <3>1. Looks(Tail(watchq)) /\ fresh' \in BOOLEAN
      BY <2>2, <2>3, PollForm
    <3>2. watchq' \in Seq(WatchTasks) /\ ioq' \in Seq(IoTasks) /\ polling' \in BOOLEAN
          /\ repoll' \in BOOLEAN /\ (repoll' => watcher' /\ polling')
      BY <2>2, <2>3, <3>1 DEF Looks, Finishes, ShapeInv, TypeOK
    <3>3. QED
      BY <1>1, <2>3, <3>1, <3>2 DEF StartWatching, ShapeInv, TypeOK, Up
  <2>4. CASE ~PollThen(Tail(watchq)) \/ watcher' # TRUE \/ failed' # failed
             \/ watchPath' # watchPath \/ watchFailures' # watchFailures
    <3>1. /\ watchq' = Tail(watchq) /\ failed' \in BOOLEAN
          /\ UNCHANGED <<watchPath, watcher, polling, repoll, ioq, fresh>>
      BY <1>1, <2>4 DEF StartWatching, FailWatching, ShapeInv, TypeOK
    <3>2. QED
      BY <1>1, <2>2, <3>1 DEF StartWatching, ShapeInv, TypeOK, Up
  <2>5. QED
    BY <2>3, <2>4
<1>2. CASE StopWatching
  <2>1. Tail(watchq) \in Seq(WatchTasks)
    BY <1>2, Heads DEF StopWatching, Watching
  <2>2. QED
    BY <1>2, <2>1 DEF StopWatching, ShapeInv, TypeOK, Up
<1>3. CASE CheckingOldTorProcess
  <2>1. Tail(watchq) \in Seq(WatchTasks)
    BY <1>3, Heads DEF CheckingOldTorProcess, Watching
  <2>2. uiq' \in Seq(UiTasks)
    <3>1. (IF watchPath THEN files.pid ELSE 0) \in TorOrNone
      BY DEF ShapeInv, TypeOK, TorOrNone
    <3>2. QED
      BY <1>3, <3>1, Tasks1, PutUi DEF CheckingOldTorProcess, ShapeInv
  <2>3. QED
    BY <1>3, <2>1, <2>2 DEF CheckingOldTorProcess, ShapeInv, TypeOK, Up
<1>4. CASE WatchDirChanged
  <2>1. Tail(watchq) \in Seq(WatchTasks)
    BY <1>4, Heads DEF WatchDirChanged, Watching
  <2>2. CASE PollThen(Tail(watchq)) /\ UNCHANGED <<watchPath, watcher, failed, watchFailures>> /\ watcher
    <3>1. Looks(Tail(watchq)) /\ fresh' \in BOOLEAN
      BY <2>1, <2>2, PollForm
    <3>2. watchq' \in Seq(WatchTasks) /\ ioq' \in Seq(IoTasks) /\ polling' \in BOOLEAN
          /\ repoll' \in BOOLEAN /\ (repoll' => watcher' /\ polling')
      BY <2>1, <2>2, <3>1 DEF Looks, Finishes, ShapeInv, TypeOK
    <3>3. QED
      BY <1>4, <2>2, <3>1, <3>2 DEF WatchDirChanged, ShapeInv, TypeOK, Up
  <2>3. CASE ~(PollThen(Tail(watchq)) /\ UNCHANGED <<watchPath, watcher, failed, watchFailures>> /\ watcher)
    <3>1. /\ watchq' = Tail(watchq)
          /\ UNCHANGED <<watchPath, watcher, polling, ioq, fresh>>
          /\ repoll' = repoll \/ (repoll' = TRUE /\ watcher /\ polling)
      BY <1>4, <2>3 DEF WatchDirChanged, FailWatching
    <3>2. failed' \in BOOLEAN
      BY <1>4, <2>3 DEF WatchDirChanged, FailWatching, ShapeInv, TypeOK
    <3>3. repoll' \in BOOLEAN /\ (repoll' => watcher' /\ polling')
      <4>1. repoll \in BOOLEAN /\ (repoll => watcher /\ polling)
        BY DEF ShapeInv, TypeOK
      <4>2. CASE repoll' = repoll
        BY <3>1, <4>1, <4>2
      <4>3. CASE repoll' = TRUE /\ watcher /\ polling
        BY <3>1, <4>3
      <4>4. QED
        BY <3>1, <4>2, <4>3
    <3>4. QED
      BY <1>4, <2>1, <3>1, <3>2, <3>3 DEF WatchDirChanged, ShapeInv, TypeOK, Up
  <2>4. QED
    BY <2>2, <2>3
<1>5. CASE Poll
  <2>1. Tail(watchq) \in Seq(WatchTasks)
    BY <1>5, Heads DEF Poll, Watching
  <2>2. CASE polling
    <3>1. Looks(Tail(watchq)) /\ fresh' \in BOOLEAN
      BY <1>5, <2>1, <2>2, PollForm DEF Poll
    <3>2. CASE Finishes(Tail(watchq))
      BY <1>5, <2>2, <3>1, <3>2 DEF Poll, Finishes, ShapeInv, TypeOK, Up
    <3>3. CASE ~Finishes(Tail(watchq))
      <4>1. /\ ioq' \in Seq(IoTasks) /\ watchq' \in Seq(WatchTasks)
            /\ polling' = TRUE /\ repoll' = repoll
        BY <2>1, <3>1, <3>3 DEF Looks
      <4>2. QED
        BY <1>5, <2>2, <3>1, <4>1 DEF Poll, ShapeInv, TypeOK, Up
    <3>4. QED
      BY <3>2, <3>3
  <2>3. CASE ~polling
    BY <1>5, <2>1, <2>3 DEF Poll, FailWatching, ShapeInv, TypeOK, Up
  <2>4. QED
    BY <2>2, <2>3
<1>6. CASE PollDone
  <2>1. Tail(watchq) \in Seq(WatchTasks)
    BY <1>6, Heads DEF PollDone, Watching
  <2>2. CASE polling
    <3>1. Finishes(Tail(watchq))
      BY <1>6, <2>1, <2>2, DoneForm DEF PollDone
    <3>2. watchq' \in Seq(WatchTasks) /\ ioq' \in Seq(IoTasks) /\ polling' \in BOOLEAN
          /\ repoll' \in BOOLEAN /\ (repoll' => watcher /\ polling')
      BY <2>1, <2>2, <3>1 DEF Finishes, ShapeInv, TypeOK
    <3>3. QED
      BY <1>6, <2>2, <3>1, <3>2 DEF PollDone, ShapeInv, TypeOK, Up
  <2>3. CASE ~polling
    BY <1>6, <2>1, <2>3 DEF PollDone, FailWatching, ShapeInv, TypeOK, Up
  <2>4. QED
    BY <2>2, <2>3
<1>7. QED
  BY <1>1, <1>2, <1>3, <1>4, <1>5, <1>6

LEMMA ShapeIo ==
  ASSUME ShapeInv, UNCHANGED launcherVars,
         \/ Error \/ OpenControl \/ Connected \/ DoCmd \/ DoSubscribe \/ ReadReply \/ ReadClosed
  PROVE  ShapeInv'
<1> USE DEF watch, world, past, factory, process, counters, launcherVars
<1>0. ioq # << >> => Tail(ioq) \in Seq(IoTasks) /\ Head(ioq) \in IoTasks
  BY Heads
<1>1. CASE Error
  <2>1. Tail(ioq) \in Seq(IoTasks) /\ ErrorThen(Tail(ioq))
    BY <1>0, <1>1 DEF Error, Doing
  <2>2. NoConn \in Conn /\ << >> \in Seq(Sent)
    BY DEF NoConn, Conn, TorOrNone
  <2>3. /\ depth' \in Int /\ present' \in BOOLEAN /\ reading' = FALSE
        /\ conn' = NoConn /\ cmdq' = << >> /\ ioq' \in Seq(IoTasks)
        /\ watchq' \in Seq(WatchTasks)
    BY <2>1, ErrorForm
  <2>4. QED
    BY <1>1, <2>2, <2>3 DEF Error, ShapeInv, TypeOK, Up, NoConn
<1>2. CASE OpenControl
  <2>1. Tail(ioq) \in Seq(IoTasks) /\ Head(ioq).port \in Tors /\ Head(ioq).cookie \in Tors
    BY <1>0, <1>2 DEF OpenControl, Doing, IoTasks
  <2>2. /\ conn' \in Conn /\ conn'.state = "connecting" /\ conn'.tor \in Tors
    BY <1>2, <2>1 DEF OpenControl, Conn, NoConn, TorOrNone, ShapeInv, TypeOK
  <2>3. QED
    BY <1>2, <2>1, <2>2 DEF OpenControl, ShapeInv, TypeOK, Up
<1>3. CASE Connected
  <2>1. conn \in Conn /\ conn.state = "connecting" /\ conn.tor \in Tors /\ ioq \in Seq(IoTasks)
        /\ watchq \in Seq(WatchTasks)
    BY <1>3 DEF Connected, ShapeInv, TypeOK
  <2>2. CASE Up(conn.tor)
    <3>1. conn' = [conn EXCEPT !.state = "open"] /\ watchq' = watchq
          /\ ioq' = Append(ioq, DoCmdTask("AUTHENTICATE", conn.cookie))
      BY <1>3, <2>2 DEF Connected
    <3>2. conn' \in Conn /\ conn'.state = "open" /\ conn'.tor = conn.tor
      BY <2>1, <3>1 DEF Conn
    <3>3. ioq' \in Seq(IoTasks)
      <4>1. DoCmdTask("AUTHENTICATE", conn.cookie) \in IoTasks
        BY <2>1, Tasks1 DEF Conn, Commands
      <4>2. QED
        BY <2>1, <3>1, <4>1, PutIo
    <3>4. QED
      BY <1>3, <2>1, <2>2, <3>1, <3>2, <3>3 DEF Connected, ShapeInv, TypeOK, Up
  <2>3. CASE ~Up(conn.tor)
    <3>1. conn' = [conn EXCEPT !.state = "refused"] /\ ioq' = ioq
          /\ watchq' = Append(watchq, Task("PollDone"))
      BY <1>3, <2>3 DEF Connected
    <3>2. conn' \in Conn /\ conn'.state = "refused" /\ conn'.tor = conn.tor
      BY <2>1, <3>1 DEF Conn
    <3>3. watchq' \in Seq(WatchTasks)
      BY <2>1, <3>1, PutWatch
    <3>4. QED
      BY <1>3, <2>1, <3>1, <3>2, <3>3 DEF Connected, ShapeInv, TypeOK, Up
  <2>4. QED
    BY <2>2, <2>3
<1>4. CASE DoCmd
  <2>1. ioq # << >> /\ Head(ioq).op = "DoCmd" /\ Tail(ioq) \in Seq(IoTasks)
        /\ Head(ioq).cmd \in Commands /\ Head(ioq).cookie \in TorOrNone /\ ioq' = Tail(ioq)
    BY <1>0, <1>4 DEF DoCmd, Doing, IoTasks
  <2>2. conn \in Conn /\ cmdq \in Seq(Sent) /\ depth \in Int /\ present \in BOOLEAN
        /\ reading \in BOOLEAN /\ failed \in BOOLEAN
    BY DEF ShapeInv, TypeOK
  <2>3. CASE conn.state = "none"
    <3>1. CASE conn.closed /\ failed' = TRUE /\ UNCHANGED <<conn, cmdq, reading, depth, present>>
      BY <1>4, <2>1, <3>1 DEF DoCmd, ShapeInv, TypeOK, Up
    <3>2. CASE /\ NotSubscribed(IF Head(ioq).cmd = "SETEVENTS" THEN 1 ELSE 0)
               /\ UNCHANGED <<conn, cmdq, reading, failed>>
      <4> DEFINE n == IF Head(ioq).cmd = "SETEVENTS" THEN 1 ELSE 0
      <4>1. n \in Nat /\ NotSubscribed(n)
        BY <3>2
      <4> HIDE DEF n
      <4>2. depth' \in Int
        BY <2>2, <4>1 DEF NotSubscribed
      <4>3. present' \in BOOLEAN
        BY <2>2, <4>1 DEF NotSubscribed
      <4>4. QED
        BY <1>4, <2>1, <3>2, <4>2, <4>3 DEF DoCmd, ShapeInv, TypeOK, Up
    <3>3. QED
      BY <1>4, <2>3, <3>1, <3>2 DEF DoCmd
  <2>4. CASE conn.state # "none"
    <3>1. \/ /\ conn.state = "open"
             /\ cmdq' = Append(cmdq, [cmd |-> Head(ioq).cmd, cookie |-> Head(ioq).cookie])
             /\ reading' = TRUE
             /\ conn' = [conn EXCEPT !.deaf = reading /\ conn.deaf]
             /\ UNCHANGED <<depth, present, failed>>
          \/ failed' = TRUE /\ UNCHANGED <<conn, cmdq, reading, depth, present>>
      BY <1>4, <2>4 DEF DoCmd
    <3>2. CASE failed' = TRUE /\ UNCHANGED <<conn, cmdq, reading, depth, present>>
      BY <1>4, <2>1, <3>2 DEF DoCmd, ShapeInv, TypeOK, Up
    <3>3. CASE /\ conn.state = "open"
               /\ cmdq' = Append(cmdq, [cmd |-> Head(ioq).cmd, cookie |-> Head(ioq).cookie])
               /\ reading' = TRUE
               /\ conn' = [conn EXCEPT !.deaf = reading /\ conn.deaf]
               /\ UNCHANGED <<depth, present, failed>>
      <4>1. cmdq' \in Seq(Sent)
        BY <2>1, <2>2, <3>3 DEF Sent
      <4>2. conn' \in Conn /\ conn'.state = conn.state /\ conn'.tor = conn.tor
            /\ conn'.closed = conn.closed
        <5>1. (reading /\ conn.deaf) \in BOOLEAN
          BY <2>2
        <5>2. QED
          BY <2>2, <3>3, <5>1 DEF Conn
      <4>3. QED
        BY <1>4, <2>1, <3>3, <4>1, <4>2 DEF DoCmd, ShapeInv, TypeOK, Up
    <3>4. QED
      BY <3>1, <3>2, <3>3
  <2>5. QED
    BY <2>3, <2>4
<1>5. CASE DoSubscribe
  <2>1. Tail(ioq) \in Seq(IoTasks)
    BY <1>0, <1>5 DEF DoSubscribe, Doing
  <2>2. ioq' \in Seq(IoTasks)
    <3>1. DoCmdTask("SETEVENTS", 0) \in IoTasks
      BY Tasks1 DEF Commands, TorOrNone
    <3>2. ioq' = Tail(ioq) \/ ioq' = Append(Tail(ioq), DoCmdTask("SETEVENTS", 0))
      BY <1>5 DEF DoSubscribe
    <3>3. QED
      BY <2>1, <3>1, <3>2, PutIo
  <2>3. depth' \in Int /\ present' = TRUE
    BY <1>5 DEF DoSubscribe, ShapeInv, TypeOK
  <2>4. QED
    BY <1>5, <2>2, <2>3 DEF DoSubscribe, ShapeInv, TypeOK, Up
<1>6. CASE ReadReply
  <2> DEFINE c == Head(cmdq)
             ok == IF c.cmd = "AUTHENTICATE" THEN c.cookie = conn.tor ELSE conn.authed
             n == IF c.cmd = "SETEVENTS" /\ ~ok THEN 1 ELSE 0
  <2>1. /\ cmdq # << >> /\ conn.state = "open" /\ ~conn.closed
        /\ cmdq' = Tail(cmdq) /\ Tail(cmdq) \in Seq(Sent) /\ c \in Sent
        /\ conn \in Conn /\ conn.tor \in Tors /\ Up(conn.tor)
        /\ depth \in Int /\ present \in BOOLEAN /\ uiq \in Seq(UiTasks)
    BY <1>6, Heads DEF ReadReply, CanRead, ShapeInv, TypeOK
  <2>2. ok \in BOOLEAN
    BY <2>1 DEF Conn
  <2>3. /\ conn' = [conn EXCEPT !.authed = @ \/ (ok /\ c.cmd = "AUTHENTICATE"),
                                !.subscribed = @ \/ (ok /\ c.cmd = "SETEVENTS"),
                                !.closed = ~ok]
        /\ \/ uiq' = uiq
           \/ uiq' = Append(uiq, Notice("OnTorControlReady", conn.tor))
           \/ uiq' = Append(uiq, Notice("GotSOCKSListeners", conn.tor))
        /\ NotSubscribed(n)
        /\ reading' = (cmdq' # << >> \/ present')
        /\ UNCHANGED <<running, watch, watchq, ioq, world, failed, past>>
    BY <1>6 DEF ReadReply
  <2>4. conn' \in Conn /\ conn'.state = "open" /\ conn'.tor = conn.tor
    <3> HIDE DEF ok
    <3>1. (conn.authed \/ (ok /\ c.cmd = "AUTHENTICATE")) \in BOOLEAN
          /\ (conn.subscribed \/ (ok /\ c.cmd = "SETEVENTS")) \in BOOLEAN /\ (~ok) \in BOOLEAN
      BY <2>1, <2>2 DEF Conn
    <3>2. QED
      BY <2>1, <2>3, <3>1 DEF Conn
  <2>5. uiq' \in Seq(UiTasks)
    <3>1. /\ Notice("OnTorControlReady", conn.tor) \in UiTasks
          /\ Notice("GotSOCKSListeners", conn.tor) \in UiTasks
      BY <2>1, Tasks1 DEF TorOrNone
    <3>2. QED
      BY <2>1, <2>3, <3>1, PutUi
  <2>6. n \in Nat
    OBVIOUS
  <2> HIDE DEF n, ok, c
  <2>7. depth' \in Int
    BY <2>1, <2>3, <2>6 DEF NotSubscribed
  <2>8. present' \in BOOLEAN
    BY <2>1, <2>3 DEF NotSubscribed
  <2>9. reading' \in BOOLEAN
    BY <2>3
  <2>10. QED
    BY <2>1, <2>3, <2>4, <2>5, <2>7, <2>8, <2>9 DEF ShapeInv, TypeOK, Up
<1>7. CASE ReadClosed
  <2>1. ioq \in Seq(IoTasks) /\ ErrorThen(ioq)
    BY <1>7 DEF ReadClosed, ShapeInv
  <2>2. NoConn \in Conn /\ << >> \in Seq(Sent)
    BY DEF NoConn, Conn, TorOrNone
  <2>3. /\ depth' \in Int /\ present' \in BOOLEAN /\ reading' = FALSE
        /\ conn' = NoConn /\ cmdq' = << >> /\ ioq' \in Seq(IoTasks)
        /\ watchq' \in Seq(WatchTasks)
    BY <2>1, ErrorForm
  <2>4. QED
    BY <1>7, <2>2, <2>3 DEF ReadClosed, ShapeInv, TypeOK, Up, NoConn
<1>8. QED
  BY <1>1, <1>2, <1>3, <1>4, <1>5, <1>6, <1>7

LEMMA ShapeTors ==
  ASSUME ShapeInv, UNCHANGED launcherVars,
         \/ \E g \in Tors, f \in {"pid", "port", "cookie"} : TorWrites(g, f)
         \/ \E g \in Tors : TorEstablishesCircuit(g)
         \/ TorCloses
  PROVE  ShapeInv'
<1> USE DEF watch, io, past, factory, process, counters, launcherVars
<1>1. ASSUME NEW g \in Tors, NEW f \in {"pid", "port", "cookie"}, TorWrites(g, f)
      PROVE  ShapeInv'
  <2>1. /\ tors' = [tors EXCEPT ![g] = f] /\ files' = [files EXCEPT ![f] = g]
        /\ fresh' \in BOOLEAN
        /\ watchq' = watchq \/ watchq' = Append(watchq, Task("WatchDirChanged"))
        /\ UNCHANGED <<running, watch, ioq, uiq, io, failed, past>>
    BY <1>1 DEF TorWrites, ShapeInv, TypeOK
  <2>2. watchq' \in Seq(WatchTasks)
    BY <2>1, PutWatch DEF ShapeInv
  <2>3. /\ tors' \in [Tors -> {"none", "up", "port", "pid", "cookie", "circuit", "dead"}]
        /\ files' \in [{"pid", "port", "cookie"} -> Tors \cup {0}]
        /\ \A h \in Tors : Up(h) => Up(h)'
    BY <1>1, <2>1 DEF ShapeInv, TypeOK, Up
  <2>4. QED
    BY <2>1, <2>2, <2>3 DEF ShapeInv, TypeOK
<1>2. ASSUME NEW g \in Tors, TorEstablishesCircuit(g)
      PROVE  ShapeInv'
  <2>1. /\ tors' = [tors EXCEPT ![g] = "circuit"] /\ tors[g] = "cookie"
        /\ uiq' = uiq \/ uiq' = Append(uiq, Notice("OnTorEvent", g))
        /\ UNCHANGED <<running, watch, watchq, ioq, io, files, fresh, failed, past>>
    BY <1>2 DEF TorEstablishesCircuit
  <2>2. Notice("OnTorEvent", g) \in UiTasks
    BY Tasks1 DEF TorOrNone
  <2>3. uiq' \in Seq(UiTasks)
    BY <2>1, <2>2, PutUi DEF ShapeInv
  <2>4. /\ tors' \in [Tors -> {"none", "up", "port", "pid", "cookie", "circuit", "dead"}]
        /\ \A h \in Tors : Up(h) => Up(h)'
    BY <2>1 DEF ShapeInv, TypeOK, Up
  <2>5. QED
    BY <2>1, <2>3, <2>4 DEF ShapeInv, TypeOK
<1>3. CASE TorCloses
  <2>1. /\ conn' = [conn EXCEPT !.closed = TRUE] /\ conn.state = "open"
        /\ hasty' \in BOOLEAN
        /\ UNCHANGED <<running, watch, watchq, ioq, uiq, cmdq, reading, depth, present, world,
                       failed>>
    BY <1>3 DEF TorCloses, Comes, ShapeInv, TypeOK
  <2>2. conn' \in Conn /\ conn'.state = "open" /\ conn'.closed /\ conn'.tor = conn.tor
    BY <2>1 DEF ShapeInv, Conn
  <2>3. QED
    BY <2>1, <2>2 DEF ShapeInv, TypeOK, world
<1>4. QED
  BY <1>1, <1>2, <1>3


LEMMA ComesForm ==
  ASSUME ShapeInv, NEW event, NEW found, Comes(event, found)
  PROVE  hasty' \in BOOLEAN /\ (hasty => hasty')
BY DEF Comes, ShapeInv, TypeOK

(* Two commands put behind a queue. *)
LEMMA PutTwo ==
  ASSUME NEW q \in Seq(IoTasks)
  PROVE  LET p == q \o <<DoCmdTask("GETINFO", 0), Task("DoSubscribe")>>
             r == Append(q, DoCmdTask("GETINFO", 0))
         IN  /\ p \in Seq(IoTasks) /\ r \in Seq(IoTasks)
             /\ r = Append(q, DoCmdTask("GETINFO", 0))
             /\ p = Append(r, Task("DoSubscribe"))
             /\ Added(q, r, "DoCmd") /\ Added(r, p, "DoSubscribe")
<1> DEFINE a == DoCmdTask("GETINFO", 0)
           b == Task("DoSubscribe")
           r == Append(q, a)
<1>1. a \in IoTasks /\ b \in IoTasks /\ a.op = "DoCmd" /\ b.op = "DoSubscribe"
  BY Tasks1 DEF Commands, TorOrNone
<1> HIDE DEF a, b
<1>2. r \in Seq(IoTasks) /\ Added(q, r, "DoCmd")
  BY <1>1, PutIo
<1>3. <<a, b>> = <<a>> \o <<b>> /\ <<a>> \in Seq(IoTasks) /\ <<b>> \in Seq(IoTasks)
  <2>1. <<a>> \in Seq(IoTasks) /\ <<b>> \in Seq(IoTasks)
    BY <1>1
  <2>2. Append(<<a>>, b) = <<a>> \o <<b>>
    BY <1>1, <2>1, AppendIsConcat
  <2>3. Append(<<a>>, b) = <<a, b>>
    <3>1. Append(<<a>>, b) \in Seq(IoTasks) /\ <<a, b>> \in Seq(IoTasks)
      BY <1>1
    <3>2. Len(Append(<<a>>, b)) = 2 /\ Len(<<a, b>>) = 2
      BY <1>1
    <3>3. \A i \in 1 .. 2 : Append(<<a>>, b)[i] = <<a, b>>[i]
      BY <1>1
    <3>4. QED
      BY <3>1, <3>2, <3>3, SeqEqual
  <2>4. QED
    BY <2>1, <2>2, <2>3
<1>4. q \o <<a, b>> = (q \o <<a>>) \o <<b>>
  BY <1>3, ConcatAssociative
<1>5. q \o <<a>> = r
  BY <1>1, AppendIsConcat
<1> HIDE DEF r
<1>6. r \o <<b>> = Append(r, b)
  BY <1>1, <1>2, AppendIsConcat
<1>7. q \o <<a, b>> = Append(r, b)
  BY <1>4, <1>5, <1>6
<1>8. Append(r, b) \in Seq(IoTasks) /\ Added(r, Append(r, b), "DoSubscribe")
  BY <1>1, <1>2, PutIo
<1>9. QED
  BY <1>2, <1>7, <1>8 DEF a, b, r

(* The next tor. *)
LEMMA BornForm ==
  ASSUME \E g \in Tors : tors[g] = "none"
  PROVE  Born \in Tors /\ tors[Born] = "none"
<1> DEFINE T == {g \in Tors : tors[g] = "none"}
           R == OpToRel(<, Nat)
<1>1. T \subseteq Nat /\ T # {} /\ Tors \subseteq Nat
  BY TorControlConstants DEF Tors
<1>2. IsWellFoundedOn(R, Nat)
  BY NatLessThanWellFounded
<1> HIDE DEF T, R
<1>3. PICK g \in T : \A h \in T : ~(<<h, g>> \in R)
  BY <1>1, <1>2, WFMin
<1>4. \A h \in T : ~(h < g)
  <2> SUFFICES ASSUME NEW h \in T, h < g PROVE FALSE
    OBVIOUS
  <2>1. <<h, g>> \in R
    BY <1>1 DEF R, OpToRel
  <2>2. QED
    BY <1>3, <2>1
<1>5. /\ g \in Tors /\ tors[g] = "none"
      /\ \A h \in 1 .. g - 1 : tors[h] # "none"
  <2>1. g \in Tors /\ tors[g] = "none" /\ g \in Nat
    BY <1>1 DEF T
  <2>2. ASSUME NEW h \in 1 .. g - 1, tors[h] = "none" PROVE FALSE
    <3>1. h \in Tors /\ h < g
      BY <2>1, TorControlConstants DEF Tors
    <3>2. h \in T
      BY <2>2, <3>1 DEF T
    <3>3. QED
      BY <1>4, <3>1, <3>2
  <2>3. QED
    BY <2>1, <2>2
<1>6. QED
  BY <1>5 DEF Born

(* Some processes of tor die. *)
LEMMA DiesForm ==
  ASSUME ShapeInv, NEW gs \in SUBSET Tors, Dies(gs)
  PROVE  /\ tors' \in [Tors -> {"none", "up", "port", "pid", "cookie", "circuit", "dead"}]
         /\ \A g \in Tors : Up(g)' <=> Up(g) /\ g \notin gs
         /\ conn' \in Conn
         /\ conn'.state = conn.state /\ conn'.tor = conn.tor /\ conn'.authed = conn.authed
         /\ conn'.closed <=> conn.closed \/ (conn.state = "open" /\ conn.tor \in gs)
         /\ conn.state = "none" => conn' = NoConn
<1> DEFINE c == conn.closed \/ (conn.state = "open" /\ conn.tor \in gs)
<1>1. /\ tors \in [Tors -> {"none", "up", "port", "pid", "cookie", "circuit", "dead"}]
      /\ conn \in Conn /\ (conn.state = "none" => conn = NoConn)
  BY DEF ShapeInv, TypeOK
<1>2. tors' = [g \in Tors |-> IF g \in gs THEN "dead" ELSE tors[g]]
      /\ conn' = [conn EXCEPT !.closed = c]
  BY DEF Dies
<1>3. c \in BOOLEAN
  BY <1>1 DEF Conn
<1>4. /\ tors' \in [Tors -> {"none", "up", "port", "pid", "cookie", "circuit", "dead"}]
      /\ \A g \in Tors : Up(g)' <=> Up(g) /\ g \notin gs
  BY <1>1, <1>2 DEF Up
<1>5. conn.state = "none" => conn' = NoConn
  <2> SUFFICES ASSUME conn.state = "none" PROVE conn' = NoConn
    OBVIOUS
  <2>1. conn = NoConn /\ (c <=> FALSE)
    BY <1>1 DEF NoConn
  <2>2. conn' = [NoConn EXCEPT !.closed = FALSE]
    BY <1>2, <1>3, <2>1
  <2>3. QED
    BY <2>2 DEF NoConn
<1> HIDE DEF c
<1>6. /\ conn' \in Conn
      /\ conn'.state = conn.state /\ conn'.tor = conn.tor /\ conn'.authed = conn.authed
      /\ conn'.closed = c
  BY <1>1, <1>2, <1>3 DEF Conn
<1>7. QED
  BY <1>4, <1>5, <1>6 DEF c

LEMMA ShapeLaunch ==
  ASSUME ShapeInv,
         \/ LaunchTorProcess \/ KillTorProcess \/ OnTorControlCheckComplete
         \/ OnTorControlReady \/ GotSOCKSListeners \/ OnTorEvent
  PROVE  ShapeInv'
<1> USE DEF watch, io, world, past, factory, process, counters, launcherVars, quiet
<1>0. uiq # << >> => Tail(uiq) \in Seq(UiTasks) /\ Head(uiq) \in UiTasks
  BY Heads
<1>1. CASE LaunchTorProcess
  <2>1. hasty' \in BOOLEAN
    BY <1>1, ComesForm DEF LaunchTorProcess
  <2>2. /\ watchPath' \in BOOLEAN /\ isStarting' \in BOOLEAN /\ wanted' = TRUE
        /\ UNCHANGED <<watcher, polling, repoll>>
        /\ watchq' = watchq \/ watchq' = Append(watchq, Task("CheckingOldTorProcess"))
        /\ launcher' = launcher \/ (launcher' = "up" /\ launcher = "none")
    BY <1>1 DEF LaunchTorProcess, PreStartCheck, Bound, ShapeInv, TypeOK
  <2>3. watchq' \in Seq(WatchTasks)
    BY <2>2, PutWatch DEF ShapeInv
  <2>4. QED
    BY <1>1, <2>1, <2>2, <2>3 DEF LaunchTorProcess, ShapeInv, TypeOK, Up
<1>2. CASE KillTorProcess
  <2>1. hasty' \in BOOLEAN
    BY <1>2, ComesForm DEF KillTorProcess
  <2>2. /\ watchq' \in Seq(WatchTasks) /\ ioq' \in Seq(IoTasks)
        /\ running' = FALSE /\ depth' \in Int /\ present' \in BOOLEAN
    BY <1>2, StopForm DEF KillTorProcess, Kill
  <2>3. /\ launcher' = "none" /\ launching' = 0 /\ mojo' = << >> /\ children' = {}
        /\ doomed' \subseteq Tors /\ torPid' = 0 /\ isConnected' = FALSE /\ wanted' = FALSE
    BY <1>2 DEF KillTorProcess, Kill, ShapeInv, TypeOK
  <2>4. mojo' \in Seq(Answers)
    BY <2>3
  <2>5. UNCHANGED <<watch, uiq, conn, cmdq, reading, tors, files, fresh, failed, isStarting,
                    proxy, relaunch>>
    BY <1>2 DEF KillTorProcess
  <2>6. TypeOK'
    <3>1. ({running, watchPath, watcher, polling, repoll, reading, present} \subseteq BOOLEAN)'
      BY <2>1, <2>2, <2>3, <2>4, <2>5 DEF ShapeInv, TypeOK
    <3>2. ({isStarting, isConnected, wanted, fresh, failed, hasty} \subseteq BOOLEAN)'
      BY <2>1, <2>2, <2>3, <2>4, <2>5 DEF ShapeInv, TypeOK
    <3>3. /\ (torPid \in Tors \cup {0} /\ proxy \in Tors \cup {0})'
          /\ ({launching, relaunch} \subseteq Nat)'
          /\ (children \subseteq Tors /\ doomed \subseteq Tors)'
      BY <2>1, <2>2, <2>3, <2>4, <2>5 DEF ShapeInv, TypeOK
    <3>4. QED
      BY <2>1, <2>2, <2>3, <2>4, <2>5, <3>1, <3>2, <3>3 DEF ShapeInv, TypeOK
  <2>7. QED
    BY <2>1, <2>2, <2>3, <2>4, <2>5, <2>6 DEF ShapeInv, Up
<1>3. CASE OnTorControlCheckComplete
  <2>1. uiq' \in Seq(UiTasks)
    BY <1>0, <1>3 DEF OnTorControlCheckComplete, Notified
  <2>2. /\ doomed' \subseteq Tors /\ isStarting' \in BOOLEAN /\ launching' \in Nat
        /\ (launching' = launching \/ launcher = "up")
    <3>1. Head(uiq).tor \in TorOrNone
      BY <1>0, <1>3 DEF OnTorControlCheckComplete, Notified, UiTasks
    <3>2. isStarting' = (isStarting /\ Bound)
      BY <1>3 DEF OnTorControlCheckComplete
    <3>3. isStarting' \in BOOLEAN
      BY <3>2 DEF ShapeInv, TypeOK
    <3>4. doomed' \subseteq Tors
      BY <1>3, <3>1 DEF OnTorControlCheckComplete, ShapeInv, TypeOK, TorOrNone
    <3>5. launching' \in Nat /\ (launching' = launching \/ launcher = "up")
      BY <1>3 DEF OnTorControlCheckComplete, ShapeInv, TypeOK
    <3>6. QED
      BY <3>3, <3>4, <3>5
  <2>3. QED
    BY <1>3, <2>1, <2>2 DEF OnTorControlCheckComplete, ShapeInv, TypeOK, Up
<1>4. CASE OnTorControlReady
  <2>1. uiq' \in Seq(UiTasks)
    BY <1>0, <1>4 DEF OnTorControlReady, Notified
  <2>2. ioq' \in Seq(IoTasks)
    BY <1>4, PutTwo DEF OnTorControlReady, ShapeInv
  <2>3. QED
    BY <1>4, <2>1, <2>2 DEF OnTorControlReady, ShapeInv, TypeOK, Up
<1>5. CASE GotSOCKSListeners
  <2>1. uiq' \in Seq(UiTasks)
    BY <1>0, <1>5 DEF GotSOCKSListeners, Notified
  <2>2. proxy' \in Tors \cup {0}
    BY <1>0, <1>5 DEF GotSOCKSListeners, Notified, UiTasks, TorOrNone
  <2>3. QED
    BY <1>5, <2>1, <2>2 DEF GotSOCKSListeners, ShapeInv, TypeOK, Up
<1>6. CASE OnTorEvent
  <2>1. uiq' \in Seq(UiTasks)
    BY <1>0, <1>6 DEF OnTorEvent, Notified
  <2>2. QED
    BY <1>6, <2>1 DEF OnTorEvent, ShapeInv, TypeOK, Up
<1>7. QED
  BY <1>1, <1>2, <1>3, <1>4, <1>5, <1>6

LEMMA PutAnswer ==
  ASSUME NEW q \in Seq(Answers), NEW m \in Answers
  PROVE  /\ Append(q, m) \in Seq(Answers) /\ Added(q, Append(q, m), m.op)
         /\ \A x : In(Append(q, m), x) <=> In(q, x) \/ x = m
BY AddLast

(* Launch starts a tor that was not there before, or none. *)
LEMMA LaunchForm ==
  ASSUME ShapeInv, NEW ok \in BOOLEAN, Launch(ok)
  PROVE  /\ launcher = "up" /\ launching \in Nat /\ launching > 0 /\ launching' = launching - 1
         /\ mojo' \in Seq(Answers) /\ Added(mojo, mojo', "OnTorLaunched")
         /\ tors' \in [Tors -> {"none", "up", "port", "pid", "cookie", "circuit", "dead"}]
         /\ \/ /\ tors' = tors /\ children' = children
               /\ \A g \in Tors : In(mojo', Said(g)) <=> In(mojo, Said(g))
            \/ \E b \in Tors :
                 /\ ~Up(b) /\ children' = children \cup {b}
                 /\ \A g \in Tors : Up(g)' <=> Up(g) \/ g = b
                 /\ \A x : In(mojo', x) <=> In(mojo, x) \/ x = Said(b)
         /\ \A g \in Tors : In(mojo', Died(g)) <=> In(mojo, Died(g))
         /\ \A g \in Tors : Up(g) => Up(g)'
<1>1. /\ launcher = "up" /\ launching \in Nat /\ launching > 0 /\ launching' = launching - 1
      /\ mojo \in Seq(Answers)
      /\ tors \in [Tors -> {"none", "up", "port", "pid", "cookie", "circuit", "dead"}]
  BY DEF Launch, ShapeInv, TypeOK
<1>2. CASE ok
  <2>1. /\ \E g \in Tors : tors[g] = "none"
        /\ tors' = [tors EXCEPT ![Born] = "up"] /\ children' = children \cup {Born}
        /\ mojo' = Append(mojo, Said(Born))
    BY <1>2 DEF Launch, Said
  <2>2. Born \in Tors /\ tors[Born] = "none"
    BY <2>1, BornForm
  <2> DEFINE b == Born
  <2> HIDE DEF b
  <2>3. Said(b) \in Answers /\ Said(b).op = "OnTorLaunched"
    BY <2>2, Answers1 DEF b
  <2>4. /\ mojo' \in Seq(Answers) /\ Added(mojo, mojo', "OnTorLaunched")
        /\ \A x : In(mojo', x) <=> In(mojo, x) \/ x = Said(b)
    BY <1>1, <2>1, <2>3, PutAnswer DEF b
  <2>5. /\ tors' \in [Tors -> {"none", "up", "port", "pid", "cookie", "circuit", "dead"}]
        /\ \A g \in Tors : Up(g)' <=> Up(g) \/ g = b
        /\ b \in Tors /\ ~Up(b) /\ children' = children \cup {b}
    BY <1>1, <2>1, <2>2 DEF b, Up
  <2>6. \A g \in Tors : Died(g) # Said(b)
    BY <2>3, Answers1
  <2>7. QED
    BY <1>1, <2>4, <2>5, <2>6
<1>3. CASE ~ok
  <2> DEFINE m == [op |-> "OnTorLaunched", result |-> FALSE, tor |-> 0]
  <2>1. tors' = tors /\ children' = children /\ mojo' = Append(mojo, m)
    BY <1>3 DEF Launch
  <2>2. m \in Answers /\ m.op = "OnTorLaunched"
    BY Answers1
  <2>3. \A g \in Tors : Said(g) # m /\ Died(g) # m
    BY DEF Said, Died
  <2> HIDE DEF m
  <2>4. /\ mojo' \in Seq(Answers) /\ Added(mojo, mojo', "OnTorLaunched")
        /\ \A x : In(mojo', x) <=> In(mojo, x) \/ x = m
    BY <1>1, <2>1, <2>2, PutAnswer
  <2>5. /\ tors' \in [Tors -> {"none", "up", "port", "pid", "cookie", "circuit", "dead"}]
        /\ \A g \in Tors : Up(g)' <=> Up(g)
    BY <1>1, <2>1 DEF Up
  <2>6. QED
    BY <1>1, <2>1, <2>3, <2>4, <2>5
<1>4. QED
  BY <1>2, <1>3

LEMMA ShapeProcess ==
  ASSUME ShapeInv,
         \/ \E ok \in BOOLEAN : Launch(ok)
         \/ \E g \in Tors : TorCrashes(g)
         \/ \E g \in Tors : TorEnds(g)
         \/ \E k \in BOOLEAN : LauncherCrashes(k)
  PROVE  ShapeInv'
<1> USE DEF watch, io, past, factory, process, counters, launcherVars, quiet
<1>1. ASSUME NEW ok \in BOOLEAN, Launch(ok) PROVE ShapeInv'
  <2>1. /\ launcher = "up" /\ launching' \in Nat
        /\ mojo' \in Seq(Answers)
        /\ tors' \in [Tors -> {"none", "up", "port", "pid", "cookie", "circuit", "dead"}]
        /\ \A g \in Tors : Up(g) => Up(g)'
    BY <1>1, LaunchForm
  <2>2. children' \subseteq Tors
    BY <1>1, LaunchForm DEF ShapeInv, TypeOK
  <2>3. UNCHANGED <<running, watch, watchq, ioq, uiq, io, files, fresh, failed, past,
                   factory, launcher, doomed, relaunch, wanted, launches, kills, torCrashes,
                   launcherCrashes>>
    BY <1>1 DEF Launch
  <2>4. QED
    BY <2>1, <2>2, <2>3 DEF ShapeInv, TypeOK
<1>2. ASSUME NEW g \in Tors, TorCrashes(g) PROVE ShapeInv'
  <2>1. hasty' \in BOOLEAN /\ Dies({g})
    BY <1>2, ComesForm DEF TorCrashes
  <2>2. /\ tors' \in [Tors -> {"none", "up", "port", "pid", "cookie", "circuit", "dead"}]
        /\ \A h \in Tors : Up(h)' <=> Up(h) /\ h # g
        /\ conn' \in Conn /\ conn'.state = conn.state /\ conn'.tor = conn.tor
        /\ conn'.closed <=> conn.closed \/ (conn.state = "open" /\ conn.tor = g)
        /\ conn.state = "none" => conn' = NoConn
    BY <2>1, DiesForm
  <2>3. /\ children' = children \ {g}
        /\ mojo' = mojo \/ (g \in children /\ mojo' = Append(mojo, Died(g)))
        /\ UNCHANGED <<running, watch, watchq, ioq, uiq, cmdq, reading, depth, present, files,
                       fresh, failed, factory, launcher, launching, doomed, relaunch, wanted>>
    BY <1>2 DEF TorCrashes, Died
  <2>4. mojo' \in Seq(Answers)
    BY <2>3, Answers1, PutAnswer DEF ShapeInv
  <2>5. QED
    BY <2>1, <2>2, <2>3, <2>4 DEF ShapeInv, TypeOK
<1>3. ASSUME NEW g \in Tors, TorEnds(g) PROVE ShapeInv'
  <2>1. hasty' \in BOOLEAN /\ Dies({g})
    BY <1>3, ComesForm DEF TorEnds
  <2>2. /\ tors' \in [Tors -> {"none", "up", "port", "pid", "cookie", "circuit", "dead"}]
        /\ \A h \in Tors : Up(h)' <=> Up(h) /\ h # g
        /\ conn' \in Conn /\ conn'.state = conn.state /\ conn'.tor = conn.tor
        /\ conn'.closed <=> conn.closed \/ (conn.state = "open" /\ conn.tor = g)
        /\ conn.state = "none" => conn' = NoConn
    BY <2>1, DiesForm
  <2>3. UNCHANGED <<running, watch, watchq, ioq, uiq, cmdq, reading, depth, present, files,
                    fresh, failed, launcherVars>>
    BY <1>3 DEF TorEnds
  <2>4. QED
    BY <2>1, <2>2, <2>3 DEF ShapeInv, TypeOK
<1>4. ASSUME NEW k \in BOOLEAN, LauncherCrashes(k) PROVE ShapeInv'
  <2> DEFINE gs == IF k THEN {g \in children : Up(g)} ELSE {}
  <2>1. hasty' \in BOOLEAN /\ Dies(gs) /\ gs \in SUBSET Tors
    BY <1>4, ComesForm DEF LauncherCrashes, ShapeInv, TypeOK
  <2> HIDE DEF gs
  <2>2. /\ tors' \in [Tors -> {"none", "up", "port", "pid", "cookie", "circuit", "dead"}]
        /\ \A h \in Tors : Up(h)' <=> Up(h) /\ h \notin gs
        /\ conn' \in Conn /\ conn'.state = conn.state /\ conn'.tor = conn.tor
        /\ conn'.closed <=> conn.closed \/ (conn.state = "open" /\ conn.tor \in gs)
        /\ conn.state = "none" => conn' = NoConn
    BY <2>1, DiesForm
  <2>3. /\ launcher' = "down" /\ launching' = 0 /\ children' = {}
        /\ UNCHANGED <<running, watch, watchq, ioq, uiq, cmdq, reading, depth, present, files,
                       fresh, failed, factory, mojo, doomed, relaunch, wanted>>
    BY <1>4 DEF LauncherCrashes
  <2>4. QED
    BY <2>1, <2>2, <2>3 DEF ShapeInv, TypeOK
<1>5. QED
  BY <1>1, <1>2, <1>3, <1>4

LEMMA ShapeAnswers ==
  ASSUME ShapeInv,
         OnTorLaunched \/ OnTorCrashed \/ OnTorLauncherCrashed \/ RelaunchTor
  PROVE  ShapeInv'
<1> USE DEF watch, io, world, past, factory, process, counters, launcherVars, quiet
<1>0. mojo # << >> => Tail(mojo) \in Seq(Answers) /\ Head(mojo) \in Answers
  BY Heads
<1>1. CASE OnTorLaunched
  <2>1. mojo' \in Seq(Answers) /\ mojo # << >> /\ launcher \notin {"none", "dead"}
    BY <1>0, <1>1 DEF OnTorLaunched, Answered, ShapeInv
  <2>2. /\ running' = TRUE /\ failed' = (running \/ ~watchPath)
        /\ watchq' = Append(watchq, Task("StartWatching"))
        /\ UNCHANGED <<watch, ioq, uiq, conn, cmdq, reading, depth, present, tors, files, fresh,
                       hasty, proxy, launcher, launching, children, doomed, relaunch, wanted>>
    BY <1>1 DEF OnTorLaunched, StartControl
  <2>3. failed' \in BOOLEAN
    BY <2>2
  <2>4. watchq' \in Seq(WatchTasks)
    BY <2>2, PutWatch DEF ShapeInv
  <2>5. isStarting' \in BOOLEAN /\ isConnected' \in BOOLEAN /\ torPid' \in Tors \cup {0}
    <3>1. CASE Head(mojo).result
      <4>1. isStarting' = FALSE /\ isConnected' = FALSE /\ torPid' = Head(mojo).tor
        BY <1>1, <3>1 DEF OnTorLaunched
      <4>2. Head(mojo).tor \in Tors \cup {0}
        BY <1>0, <1>1, <2>1 DEF OnTorLaunched, Answered, Answers
      <4>3. QED
        BY <4>1, <4>2
    <3>2. CASE ~Head(mojo).result
      BY <1>1, <3>2 DEF OnTorLaunched, ShapeInv, TypeOK
    <3>3. QED
      BY <3>1, <3>2
  <2>6. QED
    BY <2>1, <2>2, <2>3, <2>4, <2>5 DEF ShapeInv, TypeOK, Up
<1>2. CASE OnTorCrashed
  <2>1. /\ watchq' \in Seq(WatchTasks) /\ ioq' \in Seq(IoTasks)
        /\ running' = FALSE /\ depth' \in Int /\ present' \in BOOLEAN
    BY <1>2, StopForm DEF OnTorCrashed, Kill
  <2>2. /\ launcher' = "none" /\ launching' = 0 /\ mojo' = << >> /\ children' = {}
        /\ doomed' \subseteq Tors /\ torPid' = 0 /\ isConnected' = FALSE /\ isStarting' = FALSE
        /\ relaunch' \in Nat
    BY <1>2 DEF OnTorCrashed, Kill, ShapeInv, TypeOK
  <2>3. mojo' \in Seq(Answers)
    BY <2>2
  <2>4. UNCHANGED <<watch, uiq, conn, cmdq, reading, tors, files, fresh, failed, hasty, proxy,
                    wanted>>
    BY <1>2 DEF OnTorCrashed
  <2>5. TypeOK'
    <3>1. ({running, watchPath, watcher, polling, repoll, reading, present} \subseteq BOOLEAN)'
      BY <2>1, <2>2, <2>3, <2>4 DEF ShapeInv, TypeOK
    <3>2. ({isStarting, isConnected, wanted, fresh, failed, hasty} \subseteq BOOLEAN)'
      BY <2>1, <2>2, <2>3, <2>4 DEF ShapeInv, TypeOK
    <3>3. /\ (torPid \in Tors \cup {0} /\ proxy \in Tors \cup {0})'
          /\ ({launching, relaunch} \subseteq Nat)'
          /\ (children \subseteq Tors /\ doomed \subseteq Tors)'
      BY <2>1, <2>2, <2>3, <2>4 DEF ShapeInv, TypeOK
    <3>4. QED
      BY <2>1, <2>2, <2>3, <2>4, <3>1, <3>2, <3>3 DEF ShapeInv, TypeOK
  <2>6. QED
    BY <2>1, <2>2, <2>3, <2>4, <2>5 DEF ShapeInv, Up
<1>3. CASE OnTorLauncherCrashed
  <2>1. /\ launcher = "down" /\ mojo = << >> /\ launcher' = "dead" /\ isStarting' = FALSE
        /\ UNCHANGED <<running, watch, watchq, ioq, uiq, conn, cmdq, reading, depth, present,
                       tors, files, fresh, failed, hasty, isConnected, torPid, proxy, launching,
                       mojo, children, doomed, relaunch, wanted>>
    BY <1>3 DEF OnTorLauncherCrashed
  <2>2. QED
    BY <2>1 DEF ShapeInv, TypeOK, Up
<1>4. CASE RelaunchTor
  <2>1. hasty' \in BOOLEAN
    BY <1>4, ComesForm DEF RelaunchTor
  <2>2. /\ failed' = (launcher # "none") /\ launcher' = "up" /\ watchPath' = TRUE
        /\ relaunch' = relaunch - 1 /\ relaunch > 0
        /\ watchq' = Append(watchq, Task("CheckingOldTorProcess"))
        /\ UNCHANGED <<watcher, polling, repoll, running, ioq, uiq, conn, cmdq, reading, depth,
                       present, tors, files, fresh, factory, launching, mojo, children, doomed,
                       wanted>>
    BY <1>4 DEF RelaunchTor, PreStartCheck, Bound
  <2>3. failed' \in BOOLEAN
    BY <2>2
  <2>4. watchq' \in Seq(WatchTasks)
    BY <2>2, PutWatch DEF ShapeInv
  <2>5. relaunch' \in Nat
    BY <2>2 DEF ShapeInv, TypeOK
  <2>6. QED
    BY <2>1, <2>2, <2>3, <2>4, <2>5 DEF ShapeInv, TypeOK, Up
<1>5. QED
  BY <1>1, <1>2, <1>3, <1>4

LEMMA ShapeKept == ShapeInv /\ [Next]_vars => ShapeInv'
<1> SUFFICES ASSUME ShapeInv, [Next]_vars PROVE ShapeInv'
  OBVIOUS
<1>1. CASE UNCHANGED vars
  BY <1>1 DEF vars, controlVars, watch, io, world, past, factory, process, counters,
              launcherVars, ShapeInv, TypeOK, Up
<1>2. CASE ControlNext /\ UNCHANGED launcherVars
  <2>1. \/ \E ok \in BOOLEAN : StartWatching(ok)
        \/ StopWatching \/ CheckingOldTorProcess \/ WatchDirChanged \/ Poll \/ PollDone
        \/ Error \/ OpenControl \/ Connected \/ DoCmd \/ DoSubscribe \/ ReadReply \/ ReadClosed
        \/ \E g \in Tors, f \in {"pid", "port", "cookie"} : TorWrites(g, f)
        \/ \E g \in Tors : TorEstablishesCircuit(g)
        \/ TorCloses
    BY <1>2, Zenon DEF ControlNext
  <2>2. CASE \E ok \in BOOLEAN : StartWatching(ok)
    <3>1. PICK ok \in BOOLEAN : StartWatching(ok)
      BY <2>2
    <3>2. QED
      BY <1>2, <3>1, ShapeWatch
  <2>3. CASE StopWatching \/ CheckingOldTorProcess \/ WatchDirChanged \/ Poll \/ PollDone
    <3>1. TRUE \in BOOLEAN
      OBVIOUS
    <3>2. QED
      BY <1>2, <2>3, <3>1, ShapeWatch
  <2>4. CASE \/ Error \/ OpenControl \/ Connected \/ DoCmd \/ DoSubscribe \/ ReadReply
             \/ ReadClosed
    BY <1>2, <2>4, ShapeIo
  <2>5. CASE \/ \E g \in Tors, f \in {"pid", "port", "cookie"} : TorWrites(g, f)
             \/ \E g \in Tors : TorEstablishesCircuit(g)
             \/ TorCloses
    BY <1>2, <2>5, ShapeTors
  <2>6. QED
    BY <2>1, <2>2, <2>3, <2>4, <2>5
<1>3. CASE \/ LaunchTorProcess \/ KillTorProcess \/ OnTorControlCheckComplete
           \/ OnTorControlReady \/ GotSOCKSListeners \/ OnTorEvent
  BY <1>3, ShapeLaunch
<1>4. CASE \/ \E ok \in BOOLEAN : Launch(ok)
           \/ \E g \in Tors : TorCrashes(g)
           \/ \E g \in Tors : TorEnds(g)
           \/ \E k \in BOOLEAN : LauncherCrashes(k)
  BY <1>4, ShapeProcess
<1>5. CASE OnTorLaunched \/ OnTorCrashed \/ OnTorLauncherCrashed \/ RelaunchTor
  BY <1>5, ShapeAnswers
<1>6. QED
  BY <1>1, <1>2, <1>3, <1>4, <1>5, Zenon DEF Next

-----------------------------------------------------------------------------
(* More of queues.                                                         *)

LEMMA InHas ==
  ASSUME NEW q, NEW m, In(q, m)
  PROVE  Has(q, m.op)
BY DEF In, Has

LEMMA NoneThere ==
  ASSUME NEW q, NEW a, ~Has(q, a)
  PROVE  Single(q, a) /\ \A b : Followed(q, a, b) /\ Preceded(q, a, b)
BY DEF Has, Single, Followed, Preceded

LEMMA ThenThere ==
  ASSUME NEW q, NEW a, NEW b, Followed(q, a, b) \/ Preceded(q, a, b), Has(q, a)
  PROVE  Has(q, b)
BY DEF Has, Followed, Preceded

LEMMA NonePosted ==
  ASSUME NEW q, ~Has(q, "DoCmd")
  PROVE  Posted(q) = {}
BY DEF Has, Posted

LEMMA PostedOne ==
  ASSUME NEW q \in Seq(IoTasks), NEW m \in IoTasks, m.op = "DoCmd"
  PROVE  Posted(Append(q, m)) = Posted(q) \cup {m.cmd}
<1>1. /\ \A i \in DOMAIN q : i \in DOMAIN Append(q, m) /\ Append(q, m)[i] = q[i]
      /\ Len(q) + 1 \in DOMAIN Append(q, m) /\ Append(q, m)[Len(q) + 1] = m
      /\ \A i \in DOMAIN Append(q, m) : i \in DOMAIN q \/ Append(q, m)[i] = m
  BY AppendedAt
<1> DEFINE p == Append(q, m)
           n == Len(q) + 1
<1> HIDE DEF Posted, p, n
<1>2. \A x : x \in Posted(p) <=> \E i \in DOMAIN p : p[i].op = "DoCmd" /\ x = p[i].cmd
  BY DEF Posted
<1>3. \A x : x \in Posted(q) <=> \E i \in DOMAIN q : q[i].op = "DoCmd" /\ x = q[i].cmd
  BY DEF Posted
<1>4. /\ \A i \in DOMAIN q : i \in DOMAIN p /\ p[i] = q[i]
      /\ n \in DOMAIN p /\ p[n] = m
      /\ \A i \in DOMAIN p : i \in DOMAIN q \/ p[i] = m
  BY <1>1 DEF p, n
<1>5. ASSUME NEW x \in Posted(p) PROVE x \in Posted(q) \/ x = m.cmd
  BY <1>2, <1>3, <1>4
<1>6. ASSUME NEW x \in Posted(q) PROVE x \in Posted(p)
  BY <1>2, <1>3, <1>4
<1>7. m.cmd \in Posted(p)
  BY <1>2, <1>4
<1>8. Posted(p) = Posted(q) \cup {m.cmd}
  BY <1>5, <1>6, <1>7
<1>9. QED
  BY <1>8 DEF p

LEMMA PostedFirst ==
  ASSUME NEW q \in Seq(IoTasks), q # << >>
  PROVE  /\ Posted(Tail(q)) \subseteq Posted(q)
         /\ Head(q).op = "DoCmd" => Head(q).cmd \in Posted(q)
<1>1. /\ 1 \in DOMAIN q /\ Head(q) = q[1]
      /\ \A i \in DOMAIN Tail(q) : i + 1 \in DOMAIN q /\ Tail(q)[i] = q[i + 1]
  BY TailAt
<1> HIDE DEF Posted
<1> DEFINE p == Tail(q)
<1>2. \A x : x \in Posted(p) <=> \E i \in DOMAIN p : p[i].op = "DoCmd" /\ x = p[i].cmd
  BY DEF Posted
<1>3. \A x : x \in Posted(q) <=> \E i \in DOMAIN q : q[i].op = "DoCmd" /\ x = q[i].cmd
  BY DEF Posted
<1> HIDE DEF p
<1>4. ASSUME NEW x \in Posted(p) PROVE x \in Posted(q)
  BY <1>1, <1>2, <1>3 DEF p
<1>5. Head(q).op = "DoCmd" => Head(q).cmd \in Posted(q)
  BY <1>1, <1>3
<1>6. QED
  BY <1>4, <1>5 DEF p

LEMMA WaitingOne ==
  ASSUME NEW q \in Seq(Sent), NEW m \in Sent
  PROVE  Waiting(Append(q, m)) = Waiting(q) \cup {m.cmd}
<1>1. /\ \A i \in DOMAIN q : i \in DOMAIN Append(q, m) /\ Append(q, m)[i] = q[i]
      /\ Len(q) + 1 \in DOMAIN Append(q, m) /\ Append(q, m)[Len(q) + 1] = m
      /\ \A i \in DOMAIN Append(q, m) : i \in DOMAIN q \/ Append(q, m)[i] = m
  BY AppendedAt
<1>2. QED
  BY <1>1 DEF Waiting

LEMMA WaitingFirst ==
  ASSUME NEW q \in Seq(Sent), q # << >>
  PROVE  Waiting(Tail(q)) \subseteq Waiting(q) /\ Head(q).cmd \in Waiting(q)
<1>1. /\ 1 \in DOMAIN q /\ Head(q) = q[1]
      /\ \A i \in DOMAIN Tail(q) : i + 1 \in DOMAIN q /\ Tail(q)[i] = q[i + 1]
  BY TailAt
<1>2. QED
  BY <1>1 DEF Waiting

LEMMA NoneWaits == Waiting(<< >>) = {}
BY DEF Waiting

(* The events that find nothing they upset. *)
LEMMA Unhurried ==
  ASSUME ShapeInv, NEW event, NEW found, Comes(event, found), ~hasty'
  PROVE  ~hasty /\ \A what \in found : <<event, what>> \notin Hazardous
BY DEF Comes, ShapeInv, TypeOK

LEMMA FoundTasks ==
  ASSUME NEW q, NEW op
  PROVE  op \in Tasks(q) <=> Has(q, op)
BY DEF Tasks, Has

LEMMA NoStop ==
  ASSUME "stop" \notin ControlUnderWay
  PROVE  ~Has(watchq, "StopWatching") /\ ~Has(ioq, "Error")
BY FoundTasks DEF ControlUnderWay, When

LEMMA NoPoll ==
  ASSUME "poll" \notin ControlUnderWay
  PROVE  /\ ~Has(watchq, "StartWatching") /\ ~Has(watchq, "WatchDirChanged") /\ ~Has(watchq, "Poll")
         /\ ~Has(ioq, "OpenControl") /\ conn.state \notin {"connecting", "refused"}
<1>1. /\ Tasks(watchq) \cap {"StartWatching", "WatchDirChanged", "Poll"} = {}
      /\ "OpenControl" \notin Tasks(ioq) /\ conn.state \notin {"connecting", "refused"}
  BY DEF ControlUnderWay, When
<1>2. QED
  BY <1>1, FoundTasks

LEMMA NoCommand ==
  ASSUME "command" \notin ControlUnderWay
  PROVE  ~Commanding
<1>1. Tasks(ioq) \cap {"DoCmd", "DoSubscribe"} = {} /\ "OnTorControlReady" \notin Tasks(uiq)
  BY DEF ControlUnderWay, When
<1>2. QED
  BY <1>1, FoundTasks DEF Commanding

-----------------------------------------------------------------------------
(* The calm is kept: the watch sequence.                                   *)

(* What concerns launches alone. *)
LEMMA LaunchFrame ==
  ASSUME LaunchInv, TorsInv, UNCHANGED launcherVars,
         Has(watchq', "CheckingOldTorProcess") <=> Has(watchq, "CheckingOldTorProcess"),
         Has(uiq', "OnTorControlCheckComplete") <=> Has(uiq, "OnTorControlCheckComplete"),
         Single(watchq', "CheckingOldTorProcess"), Single(uiq', "OnTorControlCheckComplete"),
         \A g \in Tors : Up(g)' <=> Up(g)
  PROVE  LaunchInv' /\ TorsInv' /\ (Preparing' <=> Preparing)
<1> USE DEF launcherVars, factory, process
<1>1. UNCHANGED <<launching, mojo, children, relaunch, torPid, launcher>>
  OBVIOUS
<1>2. Way' = Way /\ (Launched' <=> Launched) /\ (Crashed' <=> Crashed)
  BY <1>1 DEF Way, Launched, Crashed, Count
<1>3. Preparing' <=> Preparing
  BY <1>2 DEF Preparing, Count
<1>4. LaunchInv'
  BY <1>1, <1>2 DEF LaunchInv, Count
<1>5. TorsInv'
  BY <1>1, <1>2 DEF TorsInv, Count
<1>6. QED
  BY <1>3, <1>4, <1>5

(* What concerns launches and commands, for a task of the watch sequence   *)
(* that may connect: p is what it puts on the I/O sequence.                *)
LEMMA WatchFrame ==
  ASSUME ShapeInv, Calm, UNCHANGED <<launcherVars, running, uiq, tors, conn, cmdq>>,
         Has(watchq', "CheckingOldTorProcess") <=> Has(watchq, "CheckingOldTorProcess"),
         Single(watchq', "CheckingOldTorProcess"),
         ioq' = ioq \/ (Added(ioq, ioq', "OpenControl") /\ Posted(ioq') = Posted(ioq))
  PROVE  /\ LaunchInv' /\ TorsInv' /\ CmdInv' /\ (Preparing' <=> Preparing)
         /\ Commanding' <=> Commanding
<1>1. /\ Has(ioq', "DoCmd") <=> Has(ioq, "DoCmd")
      /\ Has(ioq', "DoSubscribe") <=> Has(ioq, "DoSubscribe")
      /\ Single(ioq, "DoCmd") => Single(ioq', "DoCmd")
      /\ Posted(ioq') = Posted(ioq)
  BY DEF Added
<1>2. \A g \in Tors : Up(g)' <=> Up(g)
  BY DEF Up
<1>3. LaunchInv' /\ TorsInv' /\ (Preparing' <=> Preparing)
  BY <1>2, LaunchFrame DEF Calm, LaunchInv
<1>4. Commanding' <=> Commanding
  BY <1>1 DEF Commanding
<1>5. CmdInv'
  BY <1>1, <1>2, <1>4 DEF Calm, CmdInv
<1>6. QED
  BY <1>3, <1>4, <1>5

LEMMA CalmStartWatching ==
  ASSUME ShapeInv, Calm, NEW ok \in BOOLEAN, StartWatching(ok), UNCHANGED launcherVars
  PROVE  Calm'
<1> DEFINE q == Tail(watchq)
<1> USE DEF watch, io, past
<1>1. /\ q \in Seq(WatchTasks) /\ Dropped(watchq, q, "StartWatching")
      /\ Has(watchq, "StartWatching")
  BY Heads DEF StartWatching, Watching, Dropped
<1> HIDE DEF q
<1>2. /\ ~watcher /\ ~repoll /\ ~failed /\ Looking = 0
      /\ Single(watchq, "StartWatching")
      /\ ~Has(watchq, "Poll") /\ ~Has(watchq, "PollDone") /\ ~Has(ioq, "OpenControl")
      /\ conn.state \notin {"connecting", "open"}
  BY <1>1 DEF Calm, PollInv, Looking, Count, ShapeInv
<1>3. /\ ~Has(q, "StartWatching") /\ ~Has(q, "Poll") /\ ~Has(q, "PollDone")
      /\ Has(q, "CheckingOldTorProcess") <=> Has(watchq, "CheckingOldTorProcess")
      /\ Has(q, "StopWatching") <=> Has(watchq, "StopWatching")
      /\ Single(q, "CheckingOldTorProcess")
  BY <1>1, <1>2 DEF Dropped, Calm, LaunchInv
<1>4. /\ UNCHANGED <<running, uiq, tors, conn, cmdq, watchPath>> /\ failed' = failed
      /\ watchq' = q
      /\ \/ /\ watcher' = TRUE /\ polling' = TRUE /\ Added(ioq, ioq', "OpenControl")
            /\ Posted(ioq') = Posted(ioq)
         \/ watcher' = TRUE /\ polling' = FALSE /\ ioq' = ioq
         \/ watcher' = watcher /\ polling' = polling /\ ioq' = ioq
  <2>1. /\ UNCHANGED <<running, uiq, tors, conn, cmdq, watchPath>> /\ failed' = failed
        /\ \/ watcher' = TRUE /\ PollThen(q)
           \/ watchq' = q /\ UNCHANGED <<watcher, polling, ioq>>
    BY <1>2 DEF StartWatching, q
  <2>2. CASE watcher' = TRUE /\ PollThen(q)
    <3>1. Looks(q)
      BY <1>1, <2>2, PollForm
    <3>2. QED
      BY <1>2, <2>1, <2>2, <3>1 DEF Looks, Finishes, ShapeInv, TypeOK
  <2>3. QED
    BY <2>1, <2>2
<1>5. /\ LaunchInv' /\ TorsInv' /\ CmdInv' /\ (Preparing' <=> Preparing)
      /\ Commanding' <=> Commanding
  BY <1>3, <1>4, WatchFrame DEF launcherVars
<1>6. /\ Has(ioq', "Error") <=> Has(ioq, "Error")
      /\ ~Has(ioq, "OpenControl") => Single(ioq', "OpenControl")
      /\ Has(ioq', "OpenControl") => watcher' /\ polling'
  BY <1>2, <1>4 DEF Added, Calm, PollInv
<1>7. StopInv'
  <2>1. relaunch' = relaunch
    BY DEF launcherVars
  <2>2. ~running => /\ relaunch # 0 /\ Has(q, "StopWatching")
                    /\ Followed(q, "StartWatching", "StopWatching")
    BY <1>1 DEF Calm, StopInv, Settled, Dropped
  <2>3. QED
    BY <1>2, <1>3, <1>4, <1>5, <1>6, <2>1, <2>2 DEF Calm, StopInv
<1>8. PollInv'
  <2>1. /\ Single(watchq', "StartWatching") /\ Single(watchq', "Poll") /\ Single(watchq', "PollDone")
    BY <1>3, <1>4, NoneThere
  <2>2. Looking' = Count(Has(ioq', "OpenControl"))
    BY <1>2, <1>3, <1>4 DEF Looking, Count
  <2>3. running' /\ watcher' /\ polling' => Has(ioq', "OpenControl")
    BY <1>2, <1>4 DEF Added
  <2>4. QED
    BY <1>2, <1>3, <1>4, <1>6, <2>1, <2>2, <2>3 DEF PollInv, Count
<1>9. QED
  BY <1>2, <1>4, <1>5, <1>7, <1>8 DEF Calm

LEMMA CalmStopWatching ==
  ASSUME ShapeInv, Calm, StopWatching, UNCHANGED launcherVars
  PROVE  Calm'
<1> DEFINE q == Tail(watchq)
<1> USE DEF watch, io, past, world
<1>1. /\ Dropped(watchq, q, "StopWatching") /\ Has(watchq, "StopWatching") /\ watchq' = q
      /\ watcher' = FALSE /\ polling' = polling
      /\ UNCHANGED <<running, uiq, tors, conn, cmdq, ioq, failed>>
  BY Heads DEF StopWatching, Watching, Dropped
<1> HIDE DEF q
<1>2. ~running /\ ~Preparing /\ ~failed
  BY <1>1 DEF Calm, StopInv
<1>3. /\ Has(q, "CheckingOldTorProcess") <=> Has(watchq, "CheckingOldTorProcess")
      /\ Has(q, "StartWatching") <=> Has(watchq, "StartWatching")
      /\ Has(q, "Poll") <=> Has(watchq, "Poll")
      /\ Has(q, "PollDone") <=> Has(watchq, "PollDone")
      /\ Single(watchq, "CheckingOldTorProcess") => Single(q, "CheckingOldTorProcess")
      /\ Single(watchq, "StartWatching") => Single(q, "StartWatching")
      /\ Single(watchq, "Poll") => Single(q, "Poll")
      /\ Single(watchq, "PollDone") => Single(q, "PollDone")
      /\ Followed(watchq, "StartWatching", "StopWatching")
           => Followed(q, "StartWatching", "StopWatching")
      /\ Followed(watchq, "PollDone", "CheckingOldTorProcess")
           => Followed(q, "PollDone", "CheckingOldTorProcess")
  BY <1>1 DEF Dropped
<1>4. /\ LaunchInv' /\ TorsInv' /\ CmdInv' /\ (Preparing' <=> Preparing)
      /\ Commanding' <=> Commanding
  BY <1>1, <1>3, WatchFrame DEF Calm, LaunchInv
<1>5. StopInv'
  <2>1. relaunch' = relaunch
    BY DEF launcherVars
  <2>2. Settled => Settled'
    BY <1>1, <1>3 DEF Settled
  <2>3. QED
    BY <1>1, <1>2, <1>3, <1>4, <2>1, <2>2 DEF Calm, StopInv
<1>6. PollInv'
  <2>1. Looking' = Looking
    BY <1>1, <1>3 DEF Looking, Count
  <2>2. QED
    BY <1>1, <1>2, <1>3, <2>1 DEF Calm, PollInv
<1>7. QED
  BY <1>1, <1>2, <1>4, <1>5, <1>6 DEF Calm

LEMMA CalmCheckingOldTorProcess ==
  ASSUME ShapeInv, Calm, CheckingOldTorProcess, UNCHANGED launcherVars
  PROVE  Calm'
<1> DEFINE q == Tail(watchq)
<1> USE DEF watch, io, past, world
<1>1. /\ Dropped(watchq, q, "CheckingOldTorProcess") /\ Has(watchq, "CheckingOldTorProcess")
      /\ watchq' = q
      /\ UNCHANGED <<watcher, polling, watchPath, running, tors, conn, cmdq, ioq, failed>>
  BY Heads DEF CheckingOldTorProcess, Watching, Dropped
<1> HIDE DEF q
<1>2. Added(uiq, uiq', "OnTorControlCheckComplete")
  <2>1. (IF watchPath THEN files.pid ELSE 0) \in TorOrNone
    BY DEF ShapeInv, TypeOK, TorOrNone
  <2>2. QED
    BY <2>1, Tasks1, PutUi, SMTT(30) DEF CheckingOldTorProcess, ShapeInv
<1>3. /\ ~Has(q, "CheckingOldTorProcess") /\ Single(q, "CheckingOldTorProcess")
      /\ Has(q, "StartWatching") <=> Has(watchq, "StartWatching")
      /\ Has(q, "StopWatching") <=> Has(watchq, "StopWatching")
      /\ Has(q, "Poll") <=> Has(watchq, "Poll")
      /\ Has(q, "PollDone") <=> Has(watchq, "PollDone")
      /\ Single(watchq, "StartWatching") => Single(q, "StartWatching")
      /\ Single(watchq, "Poll") => Single(q, "Poll")
      /\ Single(watchq, "PollDone") => Single(q, "PollDone")
      /\ Followed(watchq, "StartWatching", "StopWatching")
           => Followed(q, "StartWatching", "StopWatching")
      /\ Followed(watchq, "PollDone", "CheckingOldTorProcess")
           => Followed(q, "PollDone", "CheckingOldTorProcess")
      /\ Preceded(watchq, "WatchDirChanged", "StopWatching")
           => Preceded(q, "WatchDirChanged", "StopWatching")
  BY <1>1 DEF Dropped, Calm, LaunchInv
<1>4. /\ UNCHANGED <<launching, mojo, children, relaunch, torPid, launcher>>
      /\ launching \in Nat /\ relaunch \in Nat
  BY DEF launcherVars, factory, process, ShapeInv, TypeOK
<1>5. ~Has(uiq, "OnTorControlCheckComplete")
  BY <1>1, <1>4 DEF Calm, LaunchInv, Way, Count
<1>6. /\ Has(uiq', "OnTorControlCheckComplete") /\ Single(uiq', "OnTorControlCheckComplete")
      /\ Has(uiq', "OnTorControlReady") <=> Has(uiq, "OnTorControlReady")
  BY <1>2, <1>5 DEF Added, Calm, LaunchInv
<1>7. /\ Way' = Way /\ (Launched' <=> Launched) /\ (Crashed' <=> Crashed)
      /\ Preparing' <=> Preparing
      /\ Commanding' <=> Commanding
  <2>1. Way' = Way /\ (Launched' <=> Launched) /\ (Crashed' <=> Crashed)
    BY <1>1, <1>3, <1>4, <1>5, <1>6 DEF Way, Launched, Crashed, Count
  <2>2. Preparing' <=> Preparing
    BY <2>1 DEF Preparing, Count
  <2>3. Commanding' <=> Commanding
    BY <1>1, <1>6 DEF Commanding
  <2>4. QED
    BY <2>1, <2>2, <2>3
<1>8. LaunchInv'
  BY <1>1, <1>3, <1>4, <1>6, <1>7 DEF Calm, LaunchInv, Count
<1>9. TorsInv'
  BY <1>1, <1>4, <1>7 DEF Calm, TorsInv, Count, Up
<1>10. StopInv'
  <2>1. Settled => Settled'
    BY <1>1, <1>3 DEF Settled
  <2>2. QED
    BY <1>1, <1>3, <1>4, <1>7, <2>1 DEF Calm, StopInv
<1>11. PollInv'
  <2>1. Looking' = Looking
    BY <1>1, <1>3 DEF Looking, Count
  <2>2. QED
    BY <1>1, <1>3, <2>1 DEF Calm, PollInv
<1>12. CmdInv'
  BY <1>1, <1>6, <1>7 DEF Calm, CmdInv, Up
<1>13. QED
  BY <1>1, <1>8, <1>9, <1>10, <1>11, <1>12 DEF Calm

(* A poll that finds nobody else at it: what it leaves, of the tasks q     *)
(* behind it.                                                              *)
LEMMA LooksAlone ==
  ASSUME ShapeInv, NEW q \in Seq(WatchTasks), Looks(q), ~Has(q, "Poll"),
         ~Has(q, "PollDone"), ~Has(ioq, "OpenControl"), conn.state \notin {"connecting", "open"},
         conn' = conn
  PROVE  /\ Single(watchq', "Poll") /\ Single(watchq', "PollDone") /\ Single(ioq', "OpenControl")
         /\ Looking' = Count(polling')
         /\ ~Has(watchq', "PollDone")
         /\ ioq' = ioq \/ (Added(ioq, ioq', "OpenControl") /\ Posted(ioq') = Posted(ioq))
         /\ watchq' = q \/ (Added(q, watchq', "Poll") /\ watcher)
         /\ polling' \in BOOLEAN
<1>1. CASE /\ Added(ioq, ioq', "OpenControl") /\ Posted(ioq') = Posted(ioq)
           /\ polling' = TRUE /\ repoll' = repoll /\ watchq' = q
  <2>1. /\ Single(watchq', "Poll") /\ Single(watchq', "PollDone")
        /\ ~Has(watchq', "Poll") /\ ~Has(watchq', "PollDone")
    BY <1>1, NoneThere
  <2>2. Single(ioq', "OpenControl") /\ Has(ioq', "OpenControl")
    BY <1>1, NoneThere DEF Added
  <2>3. QED
    BY <1>1, <2>1, <2>2 DEF Looking, Count
<1>2. CASE Finishes(q)
  <2>1. ioq' = ioq /\ polling' = repoll /\ (repoll => watcher) /\ repoll \in BOOLEAN
    BY <1>2 DEF Finishes, ShapeInv, TypeOK
  <2>2. Single(ioq', "OpenControl") /\ ~Has(ioq', "OpenControl")
    BY <2>1, NoneThere
  <2>3. CASE repoll
    <3>1. Added(q, watchq', "Poll")
      BY <1>2, <2>3 DEF Finishes
    <3>2. /\ Single(watchq', "Poll") /\ Single(watchq', "PollDone")
          /\ Has(watchq', "Poll") /\ ~Has(watchq', "PollDone")
      BY <3>1, NoneThere DEF Added
    <3>3. QED
      BY <2>1, <2>2, <2>3, <3>1, <3>2 DEF Looking, Count
  <2>4. CASE ~repoll
    <3>1. watchq' = q
      BY <1>2, <2>4 DEF Finishes
    <3>2. Single(watchq', "Poll") /\ Single(watchq', "PollDone")
      BY <3>1, NoneThere
    <3>3. QED
      BY <2>1, <2>2, <2>4, <3>1, <3>2 DEF Looking, Count
  <2>5. QED
    BY <2>3, <2>4
<1>3. QED
  BY <1>1, <1>2 DEF Looks

(* The task o of the watch sequence was its first, and a poll is the rest. *)
LEMMA CalmLooks ==
  ASSUME ShapeInv, Calm, UNCHANGED launcherVars, NEW q \in Seq(WatchTasks),
         NEW o \in {"WatchDirChanged", "Poll", "PollDone"},
         Dropped(watchq, q, o), Looks(q), ~Has(q, "Poll"), ~Has(q, "PollDone"),
         ~Has(q, "StartWatching"),
         ~Has(ioq, "OpenControl"), conn.state \notin {"connecting", "open"},
         UNCHANGED <<watcher, watchPath, running, uiq, tors, conn, cmdq, failed>>,
         running \/ relaunch # 0 \/ (ioq' = ioq /\ watchq' = q /\ ~watcher)
  PROVE  Calm'
<1>1. /\ Single(watchq', "Poll") /\ Single(watchq', "PollDone") /\ Single(ioq', "OpenControl")
      /\ Looking' = Count(polling')
      /\ ~Has(watchq', "PollDone")
      /\ ioq' = ioq \/ (Added(ioq, ioq', "OpenControl") /\ Posted(ioq') = Posted(ioq))
      /\ watchq' = q \/ (Added(q, watchq', "Poll") /\ watcher)
      /\ polling' \in BOOLEAN
  BY LooksAlone
<1>2. /\ Has(q, "CheckingOldTorProcess") <=> Has(watchq, "CheckingOldTorProcess")
      /\ Has(q, "StopWatching") <=> Has(watchq, "StopWatching")
      /\ Single(q, "CheckingOldTorProcess")
  BY DEF Dropped, Calm, LaunchInv
<1>3. /\ Has(watchq', "CheckingOldTorProcess") <=> Has(watchq, "CheckingOldTorProcess")
      /\ Has(watchq', "StopWatching") <=> Has(watchq, "StopWatching")
      /\ ~Has(watchq', "StartWatching")
      /\ Single(watchq', "CheckingOldTorProcess")
      /\ Has(ioq', "Error") <=> Has(ioq, "Error")
  BY <1>1, <1>2 DEF Added
<1>4. /\ LaunchInv' /\ TorsInv' /\ CmdInv' /\ (Preparing' <=> Preparing)
      /\ Commanding' <=> Commanding
  BY <1>1, <1>3, WatchFrame
<1>5. /\ Single(watchq', "StartWatching") /\ Followed(watchq', "StartWatching", "StopWatching")
      /\ Followed(watchq', "PollDone", "CheckingOldTorProcess")
  BY <1>1, <1>3, NoneThere
<1>6. StopInv'
  <2>1. relaunch' = relaunch
    BY DEF launcherVars
  <2>2. ~running /\ relaunch = 0 => Settled'
    <3> SUFFICES ASSUME ~running, relaunch = 0 PROVE Settled'
      OBVIOUS
    <3>1. ioq' = ioq /\ watchq' = q /\ ~watcher' /\ conn'.state \notin {"connecting", "refused"}
      BY DEF Calm, StopInv, Settled
    <3>2. ~Has(watchq', "Poll") /\ ~Has(ioq', "OpenControl")
      BY <3>1
    <3>3. QED
      BY <1>3, <1>5, <3>1, <3>2 DEF Settled
  <2>3. QED
    BY <1>3, <1>4, <1>5, <2>1, <2>2 DEF Calm, StopInv
<1>7. PollInv'
  BY <1>1, <1>3, <1>5 DEF PollInv, Count
<1>8. QED
  BY <1>4, <1>6, <1>7 DEF Calm

LEMMA CalmWatchDirChanged ==
  ASSUME ShapeInv, Calm, WatchDirChanged, UNCHANGED launcherVars
  PROVE  Calm'
<1> DEFINE q == Tail(watchq)
<1> USE DEF watch, io, past, world
<1>1. /\ q \in Seq(WatchTasks) /\ Dropped(watchq, q, "WatchDirChanged")
      /\ UNCHANGED <<running, uiq, tors, conn, cmdq>>
  BY Heads DEF WatchDirChanged, Watching
<1> HIDE DEF q
<1>2. ~running /\ relaunch = 0 => ~watcher
  BY <1>1 DEF Dropped, Calm, StopInv, Settled
<1>3. CASE ~watcher \/ polling
  <2>1. /\ watchq' = q
        /\ UNCHANGED <<watchPath, watcher, polling, ioq, failed>>
    BY <1>3 DEF WatchDirChanged, q, ShapeInv
  <2>2. /\ Has(q, "CheckingOldTorProcess") <=> Has(watchq, "CheckingOldTorProcess")
        /\ Has(q, "StartWatching") <=> Has(watchq, "StartWatching")
        /\ Has(q, "StopWatching") <=> Has(watchq, "StopWatching")
        /\ Has(q, "Poll") <=> Has(watchq, "Poll")
        /\ Has(q, "PollDone") <=> Has(watchq, "PollDone")
        /\ Single(watchq, "CheckingOldTorProcess") => Single(q, "CheckingOldTorProcess")
        /\ Single(watchq, "StartWatching") => Single(q, "StartWatching")
        /\ Single(watchq, "Poll") => Single(q, "Poll")
        /\ Single(watchq, "PollDone") => Single(q, "PollDone")
        /\ Followed(watchq, "StartWatching", "StopWatching")
             => Followed(q, "StartWatching", "StopWatching")
        /\ Followed(watchq, "PollDone", "CheckingOldTorProcess")
             => Followed(q, "PollDone", "CheckingOldTorProcess")
    BY <1>1 DEF Dropped
  <2>3. /\ LaunchInv' /\ TorsInv' /\ CmdInv' /\ (Preparing' <=> Preparing)
        /\ Commanding' <=> Commanding
    BY <1>1, <2>1, <2>2, WatchFrame DEF Calm, LaunchInv
  <2>4. StopInv'
    <3>1. relaunch' = relaunch
      BY DEF launcherVars
    <3>2. ~running /\ relaunch = 0 => Settled'
      BY <1>1, <1>2, <2>1, <2>2 DEF Calm, StopInv, Settled
    <3>3. QED
      BY <1>1, <2>1, <2>2, <2>3, <3>1, <3>2 DEF Calm, StopInv
  <2>5. PollInv'
    <3>1. Looking' = Looking
      BY <1>1, <2>1, <2>2 DEF Looking, Count
    <3>2. QED
      BY <1>1, <2>1, <2>2, <3>1 DEF Calm, PollInv
  <2>6. QED
    BY <2>1, <2>3, <2>4, <2>5 DEF Calm
<1>4. CASE watcher /\ ~polling
  <2>1. ~repoll /\ (running \/ relaunch # 0)
    BY <1>2, <1>4 DEF ShapeInv
  <2>2. PollThen(q) /\ UNCHANGED <<watchPath, watcher, failed>>
    BY <1>4, <2>1 DEF WatchDirChanged, q
  <2>3. Looks(q)
    BY <1>1, <2>2, PollForm
  <2>4. Looking = 0
    BY <1>4 DEF Calm, PollInv, Looking, Count
  <2>5. /\ ~Has(watchq, "Poll") /\ ~Has(watchq, "PollDone") /\ ~Has(ioq, "OpenControl")
        /\ conn.state \notin {"connecting", "open"} /\ ~Has(watchq, "StartWatching")
    BY <1>4, <2>4 DEF Calm, PollInv, Looking, Count
  <2>6. ~Has(q, "Poll") /\ ~Has(q, "PollDone") /\ ~Has(q, "StartWatching")
    BY <1>1, <2>5 DEF Dropped
  <2>7. QED
    BY <1>1, <2>1, <2>2, <2>3, <2>5, <2>6, CalmLooks
<1>5. QED
  BY <1>3, <1>4

LEMMA CalmPoll ==
  ASSUME ShapeInv, Calm, Poll \/ PollDone, UNCHANGED launcherVars
  PROVE  Calm'
<1> DEFINE q == Tail(watchq)
           o == Head(watchq).op
<1> USE DEF watch, io, past, world
<1>1. /\ q \in Seq(WatchTasks) /\ Dropped(watchq, q, o) /\ o \in {"Poll", "PollDone"}
      /\ o = "Poll" => Poll
      /\ o = "PollDone" => PollDone
      /\ UNCHANGED <<running, uiq, tors, conn, cmdq>>
  BY Heads DEF Poll, PollDone, Watching
<1> HIDE DEF q, o
<1>2. Has(watchq, o)
  BY <1>1 DEF Dropped
<1>3. /\ polling
      /\ ~Has(ioq, "OpenControl") /\ conn.state \notin {"connecting", "open"}
      /\ o = "Poll" => ~Has(watchq, "PollDone")
      /\ o = "PollDone" => ~Has(watchq, "Poll")
      /\ ~Has(watchq, "StartWatching")
      /\ Single(watchq, o)
  <2>1. Looking = 1
    BY <1>1, <1>2 DEF Calm, PollInv, Looking, Count
  <2>2. QED
    BY <1>1, <1>2, <2>1 DEF Calm, PollInv, Looking, Count
<1>4. ~Has(q, "Poll") /\ ~Has(q, "PollDone") /\ ~Has(q, "StartWatching")
  BY <1>1, <1>3 DEF Dropped
<1>5. Looks(q) /\ UNCHANGED <<watchPath, watcher, failed>> /\ (o = "PollDone" => Finishes(q))
  <2>1. CASE o = "Poll"
    <3>1. PollThen(q) /\ UNCHANGED <<watchPath, watcher, failed>>
      BY <1>1, <1>3, <2>1 DEF Poll, q
    <3>2. QED
      BY <1>1, <2>1, <3>1, PollForm
  <2>2. CASE o = "PollDone"
    <3>1. DoneThen(q) /\ UNCHANGED <<watchPath, watcher, failed>>
      BY <1>1, <1>3, <2>2 DEF PollDone, q
    <3>2. QED
      BY <1>1, <3>1, DoneForm DEF Looks
  <2>3. QED
    BY <1>1, <2>1, <2>2
<1>6. running \/ relaunch # 0 \/ (ioq' = ioq /\ watchq' = q /\ ~watcher)
  <2> SUFFICES ASSUME ~running, relaunch = 0
               PROVE  ioq' = ioq /\ watchq' = q /\ ~watcher
    OBVIOUS
  <2>1. Settled
    BY DEF Calm, StopInv
  <2>2. o = "PollDone" /\ ~watcher
    BY <1>1, <1>2, <2>1 DEF Settled
  <2>3. Finishes(q) /\ ~repoll
    BY <1>5, <2>2 DEF ShapeInv
  <2>4. QED
    BY <2>2, <2>3 DEF Finishes
<1>7. QED
  BY <1>1, <1>3, <1>4, <1>5, <1>6, CalmLooks

-----------------------------------------------------------------------------
(* The calm is kept: the I/O sequence.                                     *)

(* What concerns launches, while the watch sequence is at most asked to    *)
(* poll, or told that a poll is done.                                      *)
LEMMA IoFrame ==
  ASSUME Calm, UNCHANGED <<launcherVars, tors>>,
         \/ watchq' = watchq
         \/ \E o \in {"Poll", "PollDone"} : Added(watchq, watchq', o),
         \/ uiq' = uiq
         \/ \E o \in {"OnTorControlReady", "GotSOCKSListeners", "OnTorEvent"} : Added(uiq, uiq', o)
  PROVE  LaunchInv' /\ TorsInv' /\ (Preparing' <=> Preparing)
<1>1. /\ Has(watchq', "CheckingOldTorProcess") <=> Has(watchq, "CheckingOldTorProcess")
      /\ Single(watchq, "CheckingOldTorProcess") => Single(watchq', "CheckingOldTorProcess")
  BY DEF Added
<1>2. /\ Has(uiq', "OnTorControlCheckComplete") <=> Has(uiq, "OnTorControlCheckComplete")
      /\ Single(uiq, "OnTorControlCheckComplete") => Single(uiq', "OnTorControlCheckComplete")
  BY DEF Added
<1>3. \A g \in Tors : Up(g)' <=> Up(g)
  BY DEF Up
<1>4. QED
  BY <1>1, <1>2, <1>3, LaunchFrame DEF Calm, LaunchInv

LEMMA CalmError ==
  ASSUME ShapeInv, Calm, Error, UNCHANGED launcherVars
  PROVE  Calm'
<1> DEFINE q == Tail(ioq)
<1> USE DEF watch, past, world
<1>1. /\ q \in Seq(IoTasks) /\ Dropped(ioq, q, "Error") /\ Has(ioq, "Error") /\ ErrorThen(q)
      /\ UNCHANGED <<running, watcher, polling, watchPath, uiq, tors, failed>>
  BY Heads DEF Error, Doing, Dropped
<1> HIDE DEF q
<1>2. ~running /\ ~Preparing /\ ~failed
  BY <1>1 DEF Calm, StopInv
<1>3. /\ ioq' = q /\ conn' = NoConn /\ cmdq' = << >> /\ watchq' = watchq
      /\ conn'.state = "none" /\ ~conn'.closed
  <2>1. ioq' = q /\ conn' = NoConn /\ cmdq' = << >> /\ watchq' = watchq
    BY <1>1, <1>2, ErrorForm
  <2>2. QED
    BY <2>1 DEF NoConn
<1>4. /\ Has(q, "DoCmd") <=> Has(ioq, "DoCmd")
      /\ Has(q, "DoSubscribe") <=> Has(ioq, "DoSubscribe")
      /\ Has(q, "OpenControl") <=> Has(ioq, "OpenControl")
      /\ Single(ioq, "OpenControl") => Single(q, "OpenControl")
  BY <1>1 DEF Dropped
<1>5. LaunchInv' /\ TorsInv' /\ (Preparing' <=> Preparing)
  BY <1>1, <1>3, IoFrame
<1>6. Commanding' <=> Commanding
  BY <1>1, <1>3, <1>4 DEF Commanding
<1>7. StopInv'
  <2>1. relaunch' = relaunch
    BY DEF launcherVars
  <2>2. Settled => Settled'
    BY <1>1, <1>3, <1>4 DEF Settled
  <2>3. QED
    BY <1>1, <1>2, <1>3, <1>4, <1>5, <1>6, <2>1, <2>2 DEF Calm, StopInv
<1>8. PollInv'
  <2>1. /\ Looking' = Count(Has(watchq, "Poll")) + Count(Has(watchq, "PollDone"))
                      + Count(Has(ioq, "OpenControl"))
    BY <1>3, <1>4 DEF Looking, Count
  <2>2. QED
    BY <1>1, <1>2, <1>3, <1>4, <2>1 DEF Calm, PollInv, Looking, Count
<1>9. CmdInv'
  BY <1>1, <1>2, <1>3, <1>6 DEF Calm, CmdInv, Up
<1>10. QED
  BY <1>1, <1>2, <1>5, <1>7, <1>8, <1>9 DEF Calm

(* Whoever connects, or is about to, is not stopped and gives no command.  *)
LEMMA ConnectsAlone ==
  ASSUME ShapeInv, Calm, Has(ioq, "OpenControl") \/ conn.state = "connecting"
  PROVE  /\ ~Commanding /\ cmdq = << >> /\ ~Preparing /\ polling /\ Looking = 1
         /\ ~Has(watchq, "StartWatching")
         /\ running \/ (relaunch > 0 /\ \A g \in Tors : ~Up(g))
<1>0. relaunch \in Nat
  BY DEF ShapeInv, TypeOK
<1>1. /\ Looking = 1 /\ polling /\ ~Has(watchq, "StartWatching")
      /\ Has(ioq, "OpenControl") => conn.state \notin {"connecting", "open"}
  BY DEF Calm, PollInv, Looking, Count
<1>2. ~running => relaunch > 0
  BY <1>0 DEF Calm, StopInv, Settled
<1>3. relaunch > 0 => \A g \in Tors : ~Up(g)
  <2>1. Way \in Nat
    BY DEF Way, Count, ShapeInv, TypeOK
  <2>2. relaunch > 0 => Way + relaunch + Count(Crashed) > 0
    BY <1>0, <2>1 DEF Count
  <2>3. QED
    BY <2>2 DEF Calm, TorsInv
<1>4. ~Commanding
  BY <1>1, <1>2, <1>3 DEF Calm, CmdInv
<1>5. cmdq = << >>
  BY <1>1 DEF Calm, CmdInv
<1>6. ~Preparing
  <2>1. Way + Count(Launched) \in Nat
    BY DEF Way, Count, ShapeInv, TypeOK
  <2>2. Preparing => relaunch = 0
    BY <1>0, <2>1 DEF Calm, LaunchInv, Preparing
  <2>3. QED
    BY <1>2, <2>2 DEF Calm, StopInv
<1>7. QED
  BY <1>0, <1>1, <1>2, <1>3, <1>4, <1>5, <1>6

LEMMA CalmOpenControl ==
  ASSUME ShapeInv, Calm, OpenControl, UNCHANGED launcherVars
  PROVE  Calm'
<1> DEFINE q == Tail(ioq)
<1> USE DEF watch, past, world
<1>1. /\ Dropped(ioq, q, "OpenControl") /\ Has(ioq, "OpenControl") /\ ioq' = q
      /\ conn'.state = "connecting" /\ ~conn'.closed /\ ~conn'.authed
      /\ UNCHANGED <<running, watcher, polling, watchPath, watchq, uiq, cmdq, tors, failed>>
  BY Heads DEF OpenControl, Doing, Dropped, NoConn
<1> HIDE DEF q
<1>2. /\ ~Commanding /\ cmdq = << >> /\ ~Preparing /\ polling /\ Looking = 1
      /\ ~Has(watchq, "StartWatching")
      /\ running \/ relaunch > 0
  BY <1>1, ConnectsAlone
<1>3. /\ ~Has(q, "OpenControl") /\ Single(q, "OpenControl")
      /\ Has(q, "DoCmd") <=> Has(ioq, "DoCmd")
      /\ Has(q, "DoSubscribe") <=> Has(ioq, "DoSubscribe")
      /\ Has(q, "Error") <=> Has(ioq, "Error")
  BY <1>1 DEF Dropped, Calm, PollInv
<1>4. LaunchInv' /\ TorsInv' /\ (Preparing' <=> Preparing)
  BY <1>1, IoFrame
<1>5. ~Commanding'
  BY <1>1, <1>2, <1>3 DEF Commanding
<1>6. StopInv'
  <2>1. relaunch' = relaunch /\ relaunch \in Nat
    BY DEF launcherVars, ShapeInv, TypeOK
  <2>2. QED
    BY <1>1, <1>2, <1>3, <1>4, <1>5, <2>1 DEF Calm, StopInv
<1>7. PollInv'
  <2>1. ~Has(watchq, "Poll") /\ ~Has(watchq, "PollDone") /\ Looking' = 1
    BY <1>1, <1>2, <1>3 DEF Looking, Count
  <2>2. QED
    BY <1>1, <1>2, <1>3, <2>1 DEF Calm, PollInv
<1>8. CmdInv'
  BY <1>1, <1>2, <1>5 DEF CmdInv
<1>9. QED
  BY <1>1, <1>4, <1>6, <1>7, <1>8 DEF Calm

LEMMA CalmConnected ==
  ASSUME ShapeInv, Calm, Connected, UNCHANGED launcherVars
  PROVE  Calm'
<1> USE DEF watch, past, world
<1>1. /\ conn.state = "connecting" /\ conn \in Conn /\ conn.tor \in Tors
      /\ UNCHANGED <<running, watcher, polling, watchPath, uiq, cmdq, tors, failed>>
  BY DEF Connected, ShapeInv, TypeOK
<1>2. /\ ~Commanding /\ cmdq = << >> /\ ~Preparing /\ polling /\ Looking = 1
      /\ ~Has(watchq, "StartWatching")
      /\ running \/ (relaunch > 0 /\ \A g \in Tors : ~Up(g))
  BY <1>1, ConnectsAlone
<1>3. /\ ~Has(watchq, "Poll") /\ ~Has(watchq, "PollDone") /\ ~Has(ioq, "OpenControl")
      /\ ~Has(ioq, "DoCmd") /\ ~Has(ioq, "DoSubscribe") /\ ~Has(uiq, "OnTorControlReady")
      /\ ~conn.closed /\ ~conn.authed
  BY <1>1, <1>2 DEF Looking, Count, Commanding, Calm, CmdInv
<1>4. relaunch' = relaunch /\ relaunch \in Nat
  BY DEF launcherVars, ShapeInv, TypeOK
<1>5. CASE Up(conn.tor)
  <2> DEFINE m == DoCmdTask("AUTHENTICATE", conn.cookie)
  <2>1. /\ conn' = [conn EXCEPT !.state = "open"] /\ watchq' = watchq /\ ioq' = Append(ioq, m)
    BY <1>1, <1>5 DEF Connected
  <2>2. m \in IoTasks /\ m.op = "DoCmd" /\ m.cmd = "AUTHENTICATE"
    BY <1>1, Tasks1 DEF Conn, Commands
  <2> HIDE DEF m
  <2>3. Added(ioq, ioq', "DoCmd") /\ Posted(ioq') = {"AUTHENTICATE"}
    BY <1>3, <2>1, <2>2, PutIo, PostedOne, NonePosted DEF ShapeInv
  <2>4. /\ conn'.state = "open" /\ ~conn'.closed /\ ~conn'.authed
    BY <1>1, <1>3, <2>1 DEF Conn
  <2>5. running
    BY <1>1, <1>2, <1>5
  <2>6. /\ Has(ioq', "DoCmd") /\ Single(ioq', "DoCmd") /\ ~Has(ioq', "DoSubscribe")
        /\ ~Has(ioq', "OpenControl") /\ Single(ioq', "OpenControl")
        /\ Has(ioq', "Error") <=> Has(ioq, "Error")
    BY <1>3, <2>3, NoneThere DEF Added
  <2>7. LaunchInv' /\ TorsInv' /\ (Preparing' <=> Preparing)
    BY <1>1, <2>1, IoFrame
  <2>8. StopInv'
    BY <1>1, <1>2, <1>4, <2>1, <2>5, <2>6, <2>7 DEF Calm, StopInv
  <2>9. PollInv'
    <3>1. Looking' = 1
      BY <1>3, <2>1, <2>4, <2>6 DEF Looking, Count
    <3>2. QED
      BY <1>1, <1>2, <1>3, <2>1, <2>6, <3>1 DEF Calm, PollInv
  <2>10. CmdInv'
    <3>1. cmdq' = << >> /\ Len(cmdq') = 0 /\ Waiting(cmdq') = {}
      BY <1>1, <1>2, NoneWaits
    <3>2. Up(conn.tor)'
      BY <1>1, <1>5, <2>1 DEF Up, Conn
    <3>3. conn'.tor \in Tors
      BY <1>1, <2>1 DEF Conn
    <3>4. \E g \in Tors : Up(g)'
      BY <3>2, <3>3 DEF Up
    <3>5. QED
      BY <1>1, <1>3, <2>3, <2>4, <2>6, <3>1, <3>4 DEF CmdInv
  <2>11. QED
    BY <1>1, <2>7, <2>8, <2>9, <2>10 DEF Calm
<1>6. CASE ~Up(conn.tor)
  <2>1. /\ conn' = [conn EXCEPT !.state = "refused"] /\ ioq' = ioq
        /\ watchq' = Append(watchq, Task("PollDone"))
    BY <1>1, <1>6 DEF Connected
  <2>2. Added(watchq, watchq', "PollDone")
    BY <2>1, PutWatch DEF ShapeInv
  <2>3. conn'.state = "refused" /\ ~conn'.closed
    BY <1>1, <1>3, <2>1 DEF Conn
  <2>4. /\ Has(watchq', "PollDone") /\ Single(watchq', "PollDone") /\ ~Has(watchq', "Poll")
        /\ Single(watchq', "Poll") /\ ~Has(watchq', "StartWatching")
        /\ Single(watchq', "StartWatching")
        /\ Followed(watchq', "StartWatching", "StopWatching")
        /\ Has(watchq', "StopWatching") <=> Has(watchq, "StopWatching")
    BY <1>2, <1>3, <2>2, NoneThere DEF Added
  <2>5. LaunchInv' /\ TorsInv' /\ (Preparing' <=> Preparing)
    BY <1>1, <2>2, IoFrame
  <2>6. ~Commanding'
    BY <1>1, <1>2, <2>1 DEF Commanding
  <2>7. StopInv'
    BY <1>1, <1>2, <1>4, <2>1, <2>3, <2>4, <2>5, <2>6 DEF Calm, StopInv
  <2>8. PollInv'
    <3>1. Looking' = 1
      BY <1>3, <2>1, <2>3, <2>4 DEF Looking, Count
    <3>2. QED
      BY <1>1, <1>2, <1>3, <2>1, <2>3, <2>4, <3>1 DEF Calm, PollInv
  <2>9. CmdInv'
    BY <1>1, <1>2, <2>3, <2>6 DEF CmdInv
  <2>10. QED
    BY <1>1, <2>5, <2>7, <2>8, <2>9 DEF Calm
<1>7. QED
  BY <1>5, <1>6

LEMMA CalmDoCmd ==
  ASSUME ShapeInv, Calm, DoCmd, UNCHANGED launcherVars
  PROVE  Calm'
<1> DEFINE q == Tail(ioq)
           m == [cmd |-> Head(ioq).cmd, cookie |-> Head(ioq).cookie]
<1> USE DEF watch, past, world
<1>1. /\ Dropped(ioq, q, "DoCmd") /\ Has(ioq, "DoCmd") /\ ioq' = q
      /\ Posted(q) \subseteq Posted(ioq) /\ Head(ioq).cmd \in Posted(ioq)
      /\ m \in Sent /\ m.cmd = Head(ioq).cmd
      /\ UNCHANGED <<running, watcher, polling, watchPath, watchq, uiq, tors>>
  <2>1. ioq # << >> /\ Head(ioq).op = "DoCmd" /\ ioq \in Seq(IoTasks) /\ ioq' = q
        /\ UNCHANGED <<running, watcher, polling, watchPath, watchq, uiq, tors>>
    BY DEF DoCmd, Doing, ShapeInv
  <2>2. Dropped(ioq, q, "DoCmd") /\ Head(ioq) \in IoTasks
    BY <2>1, Heads
  <2>3. Posted(q) \subseteq Posted(ioq) /\ Head(ioq).cmd \in Posted(ioq)
    BY <2>1, PostedFirst
  <2>4. m \in Sent /\ m.cmd = Head(ioq).cmd
    BY <2>1, <2>2 DEF IoTasks, Sent
  <2>5. QED
    BY <2>1, <2>2, <2>3, <2>4 DEF Dropped
<1> HIDE DEF q, m
<1>2. /\ Commanding /\ ~Preparing /\ ~conn.closed /\ conn.state \notin {"connecting", "refused"}
  BY <1>1 DEF Commanding, Calm, StopInv, CmdInv
<1>3. /\ failed' = failed /\ conn'.state = conn.state /\ conn'.closed = conn.closed
      /\ conn'.authed = conn.authed
      /\ \/ conn.state = "none" /\ cmdq' = cmdq
         \/ conn.state = "open" /\ cmdq' = Append(cmdq, m)
  <2>1. \/ conn.state = "none" /\ UNCHANGED <<conn, cmdq, failed>>
        \/ /\ conn.state = "open" /\ cmdq' = Append(cmdq, m) /\ failed' = failed
           /\ conn' = [conn EXCEPT !.deaf = reading /\ conn.deaf]
    BY <1>2 DEF DoCmd, m
  <2>2. QED
    BY <2>1 DEF ShapeInv, Conn
<1>4. /\ Has(q, "DoSubscribe") <=> Has(ioq, "DoSubscribe")
      /\ Has(q, "OpenControl") <=> Has(ioq, "OpenControl")
      /\ Has(q, "Error") <=> Has(ioq, "Error")
      /\ Single(ioq, "OpenControl") => Single(q, "OpenControl")
      /\ Single(ioq, "DoCmd") => ~Has(q, "DoCmd") /\ Single(q, "DoCmd")
  BY <1>1 DEF Dropped
<1>5. LaunchInv' /\ TorsInv' /\ (Preparing' <=> Preparing)
  BY <1>1, IoFrame
<1>6. StopInv'
  <2>1. relaunch' = relaunch
    BY DEF launcherVars
  <2>2. Settled => Settled'
    BY <1>1, <1>3, <1>4 DEF Settled
  <2>3. QED
    BY <1>1, <1>2, <1>3, <1>4, <1>5, <2>1, <2>2 DEF Calm, StopInv
<1>7. PollInv'
  <2>1. Looking' = Looking
    BY <1>1, <1>3, <1>4 DEF Looking, Count
  <2>2. QED
    BY <1>1, <1>3, <1>4, <2>1 DEF Calm, PollInv
<1>8. CmdInv'
  <2>1. Commanding' => /\ \E g \in Tors : Up(g)'
                       /\ conn'.state \notin {"connecting", "refused"} /\ ~conn'.closed
                       /\ running' => conn'.state = "open"
    <3>1. \E g \in Tors : Up(g)'
      BY <1>1, <1>2 DEF Calm, CmdInv, Up
    <3>2. QED
      BY <1>1, <1>2, <1>3, <3>1 DEF Calm, CmdInv
  <2>2. CASE conn.state = "none"
    BY <1>3, <2>1, <2>2 DEF Calm, CmdInv
  <2>3. CASE conn.state = "open"
    <3>1. cmdq' = Append(cmdq, m) /\ cmdq \in Seq(Sent)
      BY <1>3, <2>3 DEF ShapeInv
    <3>2. Waiting(cmdq') = Waiting(cmdq) \cup {m.cmd}
      BY <1>1, <3>1, WaitingOne
    <3>3. conn.authed => "AUTHENTICATE" \notin Posted(ioq') \cup Waiting(cmdq')
      BY <1>1, <1>2, <2>3, <3>2 DEF Calm, CmdInv
    <3>4. ~conn.authed =>
            /\ ~Has(ioq', "DoSubscribe") /\ ~Has(uiq', "OnTorControlReady")
            /\ Single(ioq', "DoCmd") /\ Len(cmdq') <= 1 /\ ~Has(ioq', "DoCmd")
            /\ Posted(ioq') \cup Waiting(cmdq') \subseteq {"AUTHENTICATE"}
      <4> SUFFICES ASSUME ~conn.authed
                   PROVE  /\ ~Has(ioq', "DoSubscribe") /\ ~Has(uiq', "OnTorControlReady")
                          /\ Single(ioq', "DoCmd") /\ Len(cmdq') <= 1 /\ ~Has(ioq', "DoCmd")
                          /\ Posted(ioq') \cup Waiting(cmdq') \subseteq {"AUTHENTICATE"}
        OBVIOUS
      <4>1. /\ ~Has(ioq, "DoSubscribe") /\ ~Has(uiq, "OnTorControlReady")
            /\ Single(ioq, "DoCmd") /\ cmdq = << >>
            /\ Posted(ioq) \cup Waiting(cmdq) \subseteq {"AUTHENTICATE"}
        BY <1>1, <1>2, <2>3 DEF Calm, CmdInv
      <4>2. Len(cmdq') = 1
        BY <1>1, <3>1, <4>1
      <4>3. Posted(ioq') \cup Waiting(cmdq') \subseteq {"AUTHENTICATE"}
        BY <1>1, <3>2, <4>1
      <4>4. QED
        BY <1>1, <1>4, <4>1, <4>2, <4>3
    <3>5. QED
      BY <1>3, <2>1, <2>3, <3>3, <3>4 DEF CmdInv
  <2>4. QED
    BY <1>3, <2>2, <2>3
<1>9. QED
  BY <1>3, <1>5, <1>6, <1>7, <1>8 DEF Calm

LEMMA CalmDoSubscribe ==
  ASSUME ShapeInv, Calm, DoSubscribe, UNCHANGED launcherVars
  PROVE  Calm'
<1> DEFINE q == Tail(ioq)
           m == DoCmdTask("SETEVENTS", 0)
<1> USE DEF watch, past, world
<1>1. /\ q \in Seq(IoTasks) /\ Dropped(ioq, q, "DoSubscribe") /\ Has(ioq, "DoSubscribe")
      /\ ioq' = q \/ ioq' = Append(q, m)
      /\ Posted(q) \subseteq Posted(ioq)
      /\ m \in IoTasks /\ m.op = "DoCmd" /\ m.cmd = "SETEVENTS"
      /\ UNCHANGED <<running, watcher, polling, watchPath, watchq, uiq, tors, conn, cmdq, failed>>
  <2>1. ioq # << >> /\ Head(ioq).op = "DoSubscribe" /\ ioq \in Seq(IoTasks)
        /\ (ioq' = q \/ ioq' = Append(q, m))
        /\ UNCHANGED <<running, watcher, polling, watchPath, watchq, uiq, tors, conn, cmdq, failed>>
    BY DEF DoSubscribe, Doing, ShapeInv
  <2>2. q \in Seq(IoTasks) /\ Dropped(ioq, q, "DoSubscribe")
    BY <2>1, Heads
  <2>3. Posted(q) \subseteq Posted(ioq)
    BY <2>1, PostedFirst
  <2>4. m \in IoTasks /\ m.op = "DoCmd" /\ m.cmd = "SETEVENTS"
    BY Tasks1 DEF Commands, TorOrNone
  <2>5. QED
    BY <2>1, <2>2, <2>3, <2>4 DEF Dropped
<1> HIDE DEF q, m
<1>2. /\ Commanding /\ ~Preparing /\ ~conn.closed /\ conn.state \notin {"connecting", "refused"}
      /\ conn.state = "open" => conn.authed
  BY <1>1 DEF Commanding, Calm, StopInv, CmdInv
<1>3. /\ Has(ioq', "OpenControl") <=> Has(ioq, "OpenControl")
      /\ Has(ioq', "Error") <=> Has(ioq, "Error")
      /\ Single(ioq, "OpenControl") => Single(ioq', "OpenControl")
      /\ Posted(ioq') \subseteq Posted(ioq) \cup {"SETEVENTS"}
  <2>1. CASE ioq' = q
    BY <1>1, <2>1 DEF Dropped
  <2>2. CASE ioq' = Append(q, m)
    <3>1. Added(q, ioq', "DoCmd") /\ Posted(ioq') = Posted(q) \cup {"SETEVENTS"}
      BY <1>1, <2>2, PutIo, PostedOne
    <3>2. QED
      BY <1>1, <3>1 DEF Dropped, Added
  <2>3. QED
    BY <1>1, <2>1, <2>2
<1>4. LaunchInv' /\ TorsInv' /\ (Preparing' <=> Preparing)
  BY <1>1, IoFrame
<1>5. StopInv'
  <2>1. relaunch' = relaunch
    BY DEF launcherVars
  <2>2. Settled => Settled'
    BY <1>1, <1>3 DEF Settled
  <2>3. QED
    BY <1>1, <1>2, <1>3, <1>4, <2>1, <2>2 DEF Calm, StopInv
<1>6. PollInv'
  <2>1. Looking' = Looking
    BY <1>1, <1>3 DEF Looking, Count
  <2>2. QED
    BY <1>1, <1>3, <2>1 DEF Calm, PollInv
<1>7. CmdInv'
  <2>1. \E g \in Tors : Up(g)'
    BY <1>1, <1>2 DEF Calm, CmdInv, Up
  <2>2. conn.state = "open" => "AUTHENTICATE" \notin Posted(ioq') \cup Waiting(cmdq')
    BY <1>1, <1>2, <1>3 DEF Calm, CmdInv
  <2>3. QED
    BY <1>1, <1>2, <2>1, <2>2 DEF Calm, CmdInv
<1>8. QED
  BY <1>1, <1>4, <1>5, <1>6, <1>7 DEF Calm

LEMMA CalmReadReply ==
  ASSUME ShapeInv, Calm, ReadReply, UNCHANGED launcherVars
  PROVE  Calm'
<1> DEFINE c == Head(cmdq)
           ok == IF c.cmd = "AUTHENTICATE" THEN c.cookie = conn.tor ELSE conn.authed
<1> USE DEF watch, past, world
<1>1. /\ conn.state = "open" /\ ~conn.closed /\ cmdq # << >> /\ cmdq' = Tail(cmdq)
      /\ conn \in Conn /\ conn.tor \in Tors /\ Up(conn.tor)
      /\ c.cmd \in Waiting(cmdq) /\ Waiting(cmdq') \subseteq Waiting(cmdq)
      /\ cmdq \in Seq(Sent)
      /\ UNCHANGED <<running, watcher, polling, watchPath, watchq, ioq, tors, failed>>
  <2>1. /\ conn.state = "open" /\ ~conn.closed /\ cmdq # << >> /\ cmdq' = Tail(cmdq)
        /\ conn \in Conn /\ conn.tor \in Tors /\ Up(conn.tor)
        /\ cmdq \in Seq(Sent)
        /\ UNCHANGED <<running, watcher, polling, watchPath, watchq, ioq, tors, failed>>
    BY DEF ReadReply, CanRead, ShapeInv, TypeOK
  <2>2. QED
    BY <2>1, WaitingFirst
<1>2. /\ ok \in BOOLEAN
      /\ conn' = [conn EXCEPT !.authed = @ \/ (ok /\ c.cmd = "AUTHENTICATE"),
                              !.subscribed = @ \/ (ok /\ c.cmd = "SETEVENTS"),
                              !.closed = ~ok]
      /\ uiq' = CASE ok /\ c.cmd = "AUTHENTICATE" ->
                       Append(uiq, Notice("OnTorControlReady", conn.tor))
                  [] ok /\ c.cmd = "GETINFO" ->
                       Append(uiq, Notice("GotSOCKSListeners", conn.tor))
                  [] OTHER -> uiq
  <2>1. ok \in BOOLEAN
    BY <1>1 DEF Conn
  <2>2. QED
    BY <2>1 DEF ReadReply
<1>3. (c.cmd = "AUTHENTICATE" <=> ~conn.authed)
  BY <1>1 DEF Calm, CmdInv
<1> HIDE DEF ok, c
<1>4. /\ conn'.state = "open" /\ (conn'.closed <=> ~ok)
      /\ conn'.authed <=> (conn.authed \/ (ok /\ c.cmd = "AUTHENTICATE"))
  BY <1>1, <1>2 DEF Conn
<1>5. /\ Notice("OnTorControlReady", conn.tor) \in UiTasks
      /\ Notice("OnTorControlReady", conn.tor).op = "OnTorControlReady"
      /\ Notice("GotSOCKSListeners", conn.tor) \in UiTasks
      /\ Notice("GotSOCKSListeners", conn.tor).op = "GotSOCKSListeners"
  BY <1>1, Tasks1 DEF TorOrNone
<1>6. \/ uiq' = uiq \/ Added(uiq, uiq', "GotSOCKSListeners")
      \/ Added(uiq, uiq', "OnTorControlReady") /\ ok /\ c.cmd = "AUTHENTICATE"
  <2>1. uiq \in Seq(UiTasks)
    BY DEF ShapeInv
  <2>2. \/ uiq' = uiq \/ uiq' = Append(uiq, Notice("GotSOCKSListeners", conn.tor))
        \/ /\ uiq' = Append(uiq, Notice("OnTorControlReady", conn.tor))
           /\ ok /\ c.cmd = "AUTHENTICATE"
    BY <1>2
  <2>3. QED
    BY <1>5, <2>1, <2>2, PutUi
<1>7. LaunchInv' /\ TorsInv' /\ (Preparing' <=> Preparing)
  BY <1>1, <1>6, IoFrame
<1>8. ~Preparing
  BY <1>1 DEF Calm, StopInv
<1>9. StopInv'
  <2>1. relaunch' = relaunch
    BY DEF launcherVars
  <2>2. Settled => Settled'
    BY <1>1, <1>4 DEF Settled
  <2>3. QED
    BY <1>1, <1>4, <1>7, <1>8, <2>1, <2>2 DEF Calm, StopInv
<1>10. PollInv'
  <2>1. Looking' = Looking
    BY <1>1, <1>4 DEF Looking, Count
  <2>2. QED
    BY <1>1, <1>4, <2>1 DEF Calm, PollInv
<1>11. CmdInv'
  <2>1. \E g \in Tors : Up(g)'
    BY <1>1 DEF Up
  <2>2. CASE conn.authed
    <3>1. ok /\ c.cmd # "AUTHENTICATE"
      BY <1>1, <1>3, <2>2 DEF ok
    <3>2. conn'.authed /\ ~conn'.closed
      BY <1>4, <2>2, <3>1
    <3>3. "AUTHENTICATE" \notin Posted(ioq') \cup Waiting(cmdq')
      BY <1>1, <2>2 DEF Calm, CmdInv
    <3>4. QED
      BY <1>4, <2>1, <3>2, <3>3 DEF CmdInv
  <2>3. CASE ~conn.authed
    <3>1. /\ ~Has(ioq, "DoSubscribe") /\ ~Has(uiq, "OnTorControlReady") /\ ~Has(ioq, "DoCmd")
          /\ Len(cmdq) <= 1 /\ c.cmd = "AUTHENTICATE"
      BY <1>1, <1>3, <2>3 DEF Calm, CmdInv
    <3>2. cmdq' = << >> /\ Waiting(cmdq') = {} /\ Posted(ioq') = {}
      <4>1. Tail(cmdq) = << >>
        BY <1>1, <3>1
      <4>2. QED
        BY <1>1, <3>1, <4>1, NoneWaits, NonePosted
    <3>3. CASE ok
      BY <1>4, <2>1, <3>1, <3>2, <3>3 DEF CmdInv
    <3>4. CASE ~ok
      <4>1. ~Has(uiq', "OnTorControlReady")
        BY <1>6, <3>1, <3>4 DEF Added
      <4>2. ~Commanding'
        BY <1>1, <3>1, <4>1 DEF Commanding
      <4>3. QED
        BY <1>4, <3>2, <3>4, <4>2 DEF CmdInv
    <3>5. QED
      BY <3>3, <3>4
  <2>4. QED
    BY <2>2, <2>3
<1>12. QED
  BY <1>1, <1>7, <1>9, <1>10, <1>11 DEF Calm

LEMMA CalmReadClosed ==
  ASSUME ShapeInv, Calm, ReadClosed, UNCHANGED launcherVars
  PROVE  Calm'
<1> USE DEF watch, past, world
<1>1. /\ conn.state = "open" /\ conn.closed /\ ErrorThen(ioq) /\ ioq \in Seq(IoTasks)
      /\ UNCHANGED <<running, watcher, polling, watchPath, uiq, tors, failed>>
  BY DEF ReadClosed, CanRead, ShapeInv
<1>2. /\ Looking = 1 /\ polling /\ ~Has(watchq, "Poll") /\ ~Has(watchq, "PollDone")
      /\ ~Has(ioq, "OpenControl") /\ ~Has(watchq, "StartWatching") /\ ~Commanding
  BY <1>1 DEF Calm, PollInv, CmdInv, Looking, Count
<1>3. /\ ioq' = ioq /\ conn' = NoConn /\ cmdq' = << >>
      /\ IF running THEN Added(watchq, watchq', "Poll") ELSE watchq' = watchq
  BY <1>1, ErrorForm
<1>4. conn'.state = "none" /\ ~conn'.closed
  BY <1>3 DEF NoConn
<1>5. LaunchInv' /\ TorsInv' /\ (Preparing' <=> Preparing)
  BY <1>1, <1>3, IoFrame
<1>6. ~Commanding'
  BY <1>1, <1>2, <1>3 DEF Commanding
<1>7. /\ ~Has(watchq', "PollDone") /\ ~Has(watchq', "StartWatching")
      /\ Has(watchq', "StopWatching") <=> Has(watchq, "StopWatching")
      /\ Has(watchq', "Poll") <=> running
      /\ Single(watchq', "Poll") /\ Single(watchq', "PollDone")
      /\ Single(watchq', "StartWatching")
  BY <1>2, <1>3, NoneThere DEF Added
<1>8. StopInv'
  <2>1. relaunch' = relaunch
    BY DEF launcherVars
  <2>2. ~running => watchq' = watchq
    BY <1>3
  <2>3. ~running /\ Settled => Settled'
    BY <1>1, <1>3, <1>4, <2>2 DEF Settled
  <2>4. Followed(watchq', "StartWatching", "StopWatching")
    BY <1>7, NoneThere
  <2>5. QED
    BY <1>1, <1>3, <1>4, <1>5, <1>6, <1>7, <2>1, <2>3, <2>4 DEF Calm, StopInv
<1>9. PollInv'
  <2>1. Looking' = Count(running)
    BY <1>2, <1>3, <1>4, <1>7 DEF Looking, Count
  <2>2. Single(ioq', "OpenControl")
    BY <1>2, <1>3, NoneThere
  <2>3. QED
    BY <1>1, <1>2, <1>7, <2>1, <2>2 DEF PollInv, Count
<1>10. CmdInv'
  BY <1>3, <1>4, <1>6 DEF CmdInv
<1>11. QED
  BY <1>1, <1>5, <1>8, <1>9, <1>10 DEF Calm

-----------------------------------------------------------------------------
(* The calm is kept: tor.                                                  *)

LEMMA CalmTorWrites ==
  ASSUME ShapeInv, Calm, NEW g \in Tors, NEW f \in {"pid", "port", "cookie"}, TorWrites(g, f),
         UNCHANGED launcherVars
  PROVE  Calm'
<1> USE DEF watch, io, past
<1>1. /\ tors' = [tors EXCEPT ![g] = f] /\ Up(g)
      /\ tors \in [Tors -> {"none", "up", "port", "pid", "cookie", "circuit", "dead"}]
      /\ \/ watchq' = watchq
         \/ watcher /\ watchq' = Append(watchq, Task("WatchDirChanged"))
      /\ UNCHANGED <<running, watcher, polling, watchPath, ioq, uiq, conn, cmdq, failed>>
  BY DEF TorWrites, Up, ShapeInv, TypeOK
<1>2. \A h \in Tors : Up(h)' <=> Up(h)
  BY <1>1 DEF Up
<1>3. watchq' = watchq \/ (watcher /\ Added(watchq, watchq', "WatchDirChanged"))
  BY <1>1, PutWatch DEF ShapeInv
<1>4. /\ Has(watchq', "CheckingOldTorProcess") <=> Has(watchq, "CheckingOldTorProcess")
      /\ Has(watchq', "StartWatching") <=> Has(watchq, "StartWatching")
      /\ Has(watchq', "StopWatching") <=> Has(watchq, "StopWatching")
      /\ Has(watchq', "Poll") <=> Has(watchq, "Poll")
      /\ Has(watchq', "PollDone") <=> Has(watchq, "PollDone")
      /\ Single(watchq, "CheckingOldTorProcess") => Single(watchq', "CheckingOldTorProcess")
      /\ Single(watchq, "StartWatching") => Single(watchq', "StartWatching")
      /\ Single(watchq, "Poll") => Single(watchq', "Poll")
      /\ Single(watchq, "PollDone") => Single(watchq', "PollDone")
      /\ Followed(watchq, "StartWatching", "StopWatching")
           => Followed(watchq', "StartWatching", "StopWatching")
      /\ Followed(watchq, "PollDone", "CheckingOldTorProcess")
           => Followed(watchq', "PollDone", "CheckingOldTorProcess")
      /\ Has(watchq, "StopWatching") /\ Preceded(watchq, "WatchDirChanged", "StopWatching")
           => Preceded(watchq', "WatchDirChanged", "StopWatching")
  BY <1>3 DEF Added
<1>5. LaunchInv' /\ TorsInv' /\ (Preparing' <=> Preparing)
  BY <1>1, <1>2, <1>4, LaunchFrame DEF Calm, LaunchInv
<1>6. Commanding' <=> Commanding
  BY <1>1 DEF Commanding
<1>7. StopInv'
  <2>1. relaunch' = relaunch
    BY DEF launcherVars
  <2>2. ~running /\ Settled => Settled'
    BY <1>1, <1>4 DEF Calm, StopInv, Settled
  <2>3. QED
    BY <1>1, <1>4, <1>5, <1>6, <2>1, <2>2 DEF Calm, StopInv
<1>8. PollInv'
  <2>1. Looking' = Looking
    BY <1>1, <1>4 DEF Looking, Count
  <2>2. QED
    BY <1>1, <1>4, <2>1 DEF Calm, PollInv
<1>9. CmdInv'
  BY <1>1, <1>2, <1>6 DEF Calm, CmdInv
<1>10. QED
  BY <1>1, <1>5, <1>7, <1>8, <1>9 DEF Calm

LEMMA CalmTorEstablishesCircuit ==
  ASSUME ShapeInv, Calm, NEW g \in Tors, TorEstablishesCircuit(g), UNCHANGED launcherVars
  PROVE  Calm'
<1> USE DEF watch, io, past
<1>1. /\ tors' = [tors EXCEPT ![g] = "circuit"] /\ Up(g)
      /\ tors \in [Tors -> {"none", "up", "port", "pid", "cookie", "circuit", "dead"}]
      /\ uiq' = uiq \/ uiq' = Append(uiq, Notice("OnTorEvent", g))
      /\ UNCHANGED <<running, watcher, polling, watchPath, watchq, ioq, conn, cmdq, failed>>
  BY DEF TorEstablishesCircuit, Up, ShapeInv, TypeOK
<1>2. \A h \in Tors : Up(h)' <=> Up(h)
  BY <1>1 DEF Up
<1>3. uiq' = uiq \/ Added(uiq, uiq', "OnTorEvent")
  <2>1. Notice("OnTorEvent", g) \in UiTasks /\ Notice("OnTorEvent", g).op = "OnTorEvent"
    BY Tasks1 DEF TorOrNone
  <2>2. QED
    BY <1>1, <2>1, PutUi DEF ShapeInv
<1>4. /\ Has(uiq', "OnTorControlCheckComplete") <=> Has(uiq, "OnTorControlCheckComplete")
      /\ Has(uiq', "OnTorControlReady") <=> Has(uiq, "OnTorControlReady")
      /\ Single(uiq, "OnTorControlCheckComplete") => Single(uiq', "OnTorControlCheckComplete")
  BY <1>3 DEF Added
<1>5. LaunchInv' /\ TorsInv' /\ (Preparing' <=> Preparing)
  BY <1>1, <1>2, <1>4, LaunchFrame DEF Calm, LaunchInv
<1>6. Commanding' <=> Commanding
  BY <1>1, <1>4 DEF Commanding
<1>7. StopInv'
  BY <1>1, <1>5, <1>6 DEF Calm, StopInv, Settled, launcherVars
<1>8. PollInv'
  BY <1>1 DEF Calm, PollInv, Looking
<1>9. CmdInv'
  BY <1>1, <1>2, <1>4, <1>6 DEF Calm, CmdInv
<1>10. QED
  BY <1>1, <1>5, <1>7, <1>8, <1>9 DEF Calm

(* What leaves the queues of the control alone, and the launches, may end  *)
(* a connection no command is for, as tors end.                            *)
LEMMA ClosedFrame ==
  ASSUME ShapeInv, Calm, ~Commanding,
         UNCHANGED <<running, watchPath, watcher, polling, watchq, ioq, uiq, cmdq, failed>>,
         UNCHANGED relaunch, Preparing' => Preparing,
         conn'.state = conn.state, conn'.authed = conn.authed,
         conn.closed => conn'.closed,
         conn.state # "open" => (conn'.closed <=> conn.closed)
  PROVE  StopInv' /\ PollInv' /\ CmdInv'
<1>1. ~Commanding'
  BY DEF Commanding
<1>2. StopInv'
  BY <1>1 DEF Calm, StopInv, Settled
<1>3. PollInv'
  BY DEF Calm, PollInv, Looking
<1>4. CmdInv'
  BY <1>1 DEF Calm, CmdInv
<1>5. QED
  BY <1>2, <1>3, <1>4

LEMMA CalmTorCloses ==
  ASSUME ShapeInv, Calm, TorCloses, UNCHANGED launcherVars, ~hasty'
  PROVE  Calm'
<1> USE DEF watch, world
<1>1. /\ conn.state = "open" /\ conn' = [conn EXCEPT !.closed = TRUE]
      /\ UNCHANGED <<running, watchPath, watcher, polling, watchq, ioq, uiq, cmdq, failed, tors>>
      /\ Comes("TorCloses", ControlUnderWay)
  BY DEF TorCloses
<1>2. ~Commanding
  <2>1. "command" \notin ControlUnderWay
    BY <1>1, Unhurried DEF Hazardous
  <2>2. QED
    BY <2>1, NoCommand
<1>3. conn'.state = conn.state /\ conn'.authed = conn.authed /\ conn'.closed
  BY <1>1 DEF ShapeInv, Conn
<1>4. LaunchInv' /\ TorsInv' /\ (Preparing' <=> Preparing)
  BY <1>1, IoFrame
<1>5. StopInv' /\ PollInv' /\ CmdInv'
  BY <1>1, <1>2, <1>3, <1>4, ClosedFrame DEF launcherVars
<1>6. QED
  BY <1>1, <1>4, <1>5 DEF Calm

LEMMA MoreUnderWay == \A what \in ControlUnderWay : what \in UnderWay
BY DEF UnderWay

LEMMA CalmTorEnds ==
  ASSUME ShapeInv, Calm, NEW g \in Tors, TorEnds(g), ~hasty'
  PROVE  Calm'
<1> USE DEF watch
<1>1. /\ Dies({g}) /\ Comes("TorEnds", UnderWay) /\ UNCHANGED launcherVars
      /\ UNCHANGED <<running, watchPath, watcher, polling, watchq, ioq, uiq, cmdq, failed>>
  BY DEF TorEnds
<1>2. ~Commanding
  <2>1. "command" \notin ControlUnderWay
    BY <1>1, Unhurried, MoreUnderWay DEF Hazardous
  <2>2. QED
    BY <2>1, NoCommand
<1>3. /\ \A h \in Tors : Up(h)' => Up(h)
      /\ conn'.state = conn.state /\ conn'.authed = conn.authed
      /\ conn'.closed <=> conn.closed \/ (conn.state = "open" /\ conn.tor \in {g})
  BY <1>1, DiesForm
<1>4. UNCHANGED <<launching, mojo, children, relaunch, torPid, launcher>>
  BY <1>1 DEF launcherVars, factory, process
<1>5. Way' = Way /\ (Launched' <=> Launched) /\ (Crashed' <=> Crashed)
  BY <1>1, <1>4 DEF Way, Launched, Crashed
<1>6. Preparing' <=> Preparing
  BY <1>5 DEF Preparing, Count
<1>7. LaunchInv'
  BY <1>1, <1>4, <1>5 DEF Calm, LaunchInv, Count
<1>8. TorsInv'
  BY <1>3, <1>4, <1>5 DEF Calm, TorsInv, Count
<1>9. StopInv' /\ PollInv' /\ CmdInv'
  BY <1>1, <1>2, <1>3, <1>4, <1>6, ClosedFrame
<1>10. QED
  BY <1>1, <1>7, <1>8, <1>9 DEF Calm

LEMMA CalmTorCrashes ==
  ASSUME ShapeInv, Calm, NEW g \in Tors, TorCrashes(g), ~hasty'
  PROVE  Calm'
<1> USE DEF watch
<1>1. /\ Dies({g}) /\ Comes("TorCrashes", UnderWay) /\ Up(g)
      /\ children' = children \ {g}
      /\ mojo' = IF g \in children THEN Append(mojo, Died(g)) ELSE mojo
      /\ UNCHANGED <<running, watchPath, watcher, polling, watchq, ioq, uiq, cmdq, failed,
                     launching, relaunch, torPid, launcher>>
  BY DEF TorCrashes, Died, factory
<1>2. ~Commanding
  <2>1. "command" \notin ControlUnderWay
    BY <1>1, Unhurried, MoreUnderWay DEF Hazardous
  <2>2. QED
    BY <2>1, NoCommand
<1>3. /\ \A h \in Tors : Up(h)' <=> Up(h) /\ h \notin {g}
      /\ conn'.state = conn.state /\ conn'.authed = conn.authed
      /\ conn'.closed <=> conn.closed \/ (conn.state = "open" /\ conn.tor \in {g})
  BY <1>1, DiesForm
<1>4. Way' = Way /\ Way \in Nat /\ relaunch \in Nat
  BY <1>1 DEF Way, Count, ShapeInv, TypeOK
<1>5. CASE g \notin children
  <2>1. UNCHANGED <<mojo, children>>
    BY <1>1, <1>5
  <2>2. (Launched' <=> Launched) /\ (Crashed' <=> Crashed)
    BY <2>1 DEF Launched, Crashed
  <2>3. Preparing' <=> Preparing
    BY <1>4, <2>2 DEF Preparing, Count
  <2>4. LaunchInv'
    BY <1>1, <1>4, <2>1, <2>2 DEF Calm, LaunchInv, Count
  <2>5. TorsInv'
    BY <1>1, <1>3, <1>4, <2>1, <2>2 DEF Calm, TorsInv, Count
  <2>6. StopInv' /\ PollInv' /\ CmdInv'
    BY <1>1, <1>2, <1>3, <2>3, ClosedFrame
  <2>7. QED
    BY <1>1, <2>4, <2>5, <2>6 DEF Calm
<1>6. CASE g \in children
  <2>1. /\ Added(mojo, mojo', "OnTorCrashed")
        /\ \A x : In(mojo', x) <=> In(mojo, x) \/ x = Died(g)
    BY <1>1, <1>6, Answers1, PutAnswer DEF ShapeInv
  <2>2. \A h \in Tors : Said(h) # Died(g)
    BY Answers1
  <2>3. /\ Launched' <=> Launched
        /\ Crashed'
    BY <2>1 DEF Launched, Crashed, Added
  <2>4. /\ \A h \in children : h = g
        /\ Way = 0 /\ relaunch = 0 /\ ~Crashed
    BY <1>4, <1>6 DEF Calm, LaunchInv, Count
  <2>5. children' = {}
    BY <1>1, <2>4
  <2>6. Preparing' <=> Preparing
    BY <1>4, <2>3 DEF Preparing, Count
  <2>7. LaunchInv'
    <3>1. Single(mojo', "OnTorLaunched") /\ Single(mojo', "OnTorCrashed")
      BY <2>1, <2>4 DEF Added, Calm, LaunchInv, Crashed
    <3>2. QED
      BY <1>1, <1>4, <2>3, <2>4, <2>5, <3>1 DEF Calm, LaunchInv, Count
  <2>8. TorsInv'
    <3>1. \A h \in Tors : ~Up(h)'
      BY <1>3, <1>6, <2>4 DEF Calm, TorsInv
    <3>2. Way' + Count(Launched') + relaunch' > 0 => torPid' = 0
      BY <1>1, <1>4, <2>3 DEF Calm, TorsInv, Count
    <3>3. torPid' # 0 => \/ In(mojo', Died(torPid')) \/ launcher' \in {"down", "dead"}
      BY <1>1, <2>1, <2>4 DEF Calm, TorsInv
    <3>4. \A h \in Tors : In(mojo', Said(h)) => In(mojo', Died(h)) \/ launcher' \in {"down", "dead"}
      BY <1>1, <2>1, <2>2, <2>4 DEF Calm, TorsInv
    <3>5. QED
      BY <2>5, <3>1, <3>2, <3>3, <3>4 DEF TorsInv
  <2>9. StopInv' /\ PollInv' /\ CmdInv'
    BY <1>1, <1>2, <1>3, <2>6, ClosedFrame
  <2>10. QED
    BY <1>1, <2>7, <2>8, <2>9 DEF Calm
<1>7. QED
  BY <1>5, <1>6

LEMMA CalmLauncherCrashes ==
  ASSUME ShapeInv, Calm, NEW k \in BOOLEAN, LauncherCrashes(k), ~hasty'
  PROVE  Calm'
<1> DEFINE gs == IF k THEN {g \in children : Up(g)} ELSE {}
<1> USE DEF watch
<1>1. /\ Dies(gs) /\ Comes("LauncherCrashes", UnderWay) /\ gs \in SUBSET Tors
      /\ launcher = "up" /\ launcher' = "down" /\ launching' = 0 /\ children' = {}
      /\ UNCHANGED <<running, watchPath, watcher, polling, watchq, ioq, uiq, cmdq, failed,
                     mojo, relaunch, torPid>>
  BY DEF LauncherCrashes, factory, ShapeInv, TypeOK
<1> HIDE DEF gs
<1>2. ~Commanding
  <2>1. "command" \notin ControlUnderWay
    BY <1>1, Unhurried, MoreUnderWay DEF Hazardous
  <2>2. QED
    BY <2>1, NoCommand
<1>3. /\ \A h \in Tors : Up(h)' => Up(h)
      /\ conn'.state = conn.state /\ conn'.authed = conn.authed
      /\ conn'.closed <=> conn.closed \/ (conn.state = "open" /\ conn.tor \in gs)
  BY <1>1, DiesForm
<1>4. /\ Way \in Nat /\ relaunch = 0 /\ Way' \in Nat /\ Way' <= Way
  BY <1>1 DEF Way, Count, ShapeInv, TypeOK, Calm, LaunchInv
<1>5. /\ Launched' <=> Launched
      /\ Count(Launched') = Count(Launched) /\ Count(Launched) \in Nat
      /\ Count(Crashed') = Count(Crashed) /\ Count(Crashed) \in Nat
  BY <1>1 DEF Launched, Crashed, Count
<1>6. Preparing' => Preparing
  BY <1>4, <1>5 DEF Preparing
<1>7. LaunchInv'
  <2>1. Count(children' # {}) = 0 /\ Count(children # {}) \in Nat
    BY <1>1 DEF Count
  <2>2. /\ Way + Count(Launched) <= 1
        /\ Way + Count(children # {}) + Count(Crashed) <= 1
    BY <1>4, <1>5, <2>1 DEF Calm, LaunchInv
  <2>3. /\ (Way + Count(Launched) + relaunch <= 1)'
        /\ (Way + Count(children # {}) + Count(Crashed) + relaunch <= 1)'
    BY <1>1, <1>4, <1>5, <2>1, <2>2
  <2>4. QED
    BY <1>1, <1>4, <2>3 DEF Calm, LaunchInv
<1>8. TorsInv'
  <2>1. Way' + relaunch' + Count(Crashed') > 0 => Way + relaunch + Count(Crashed) > 0
    BY <1>1, <1>4, <1>5
  <2>2. Way' + Count(Launched') + relaunch' > 0 => Way + Count(Launched) + relaunch > 0
    BY <1>1, <1>4, <1>5
  <2>3. QED
    BY <1>1, <1>3, <2>1, <2>2 DEF Calm, TorsInv
<1>9. StopInv' /\ PollInv' /\ CmdInv'
  BY <1>1, <1>2, <1>3, <1>6, ClosedFrame
<1>10. QED
  BY <1>1, <1>7, <1>8, <1>9 DEF Calm

-----------------------------------------------------------------------------
(* The calm is kept: the launcher.                                         *)

LEMMA Numbers ==
  ASSUME ShapeInv
  PROVE  /\ Way \in Nat /\ relaunch \in Nat /\ launching \in Nat
         /\ Count(Launched) \in Nat /\ Count(Crashed) \in Nat /\ Count(children # {}) \in Nat
         /\ Launched => Count(Launched) = 1
         /\ Crashed => Count(Crashed) = 1
         /\ children # {} => Count(children # {}) = 1
BY DEF Way, Count, ShapeInv, TypeOK

LEMMA CalmLaunchTorProcess ==
  ASSUME ShapeInv, Calm, LaunchTorProcess, ~hasty'
  PROVE  Calm'
<1> USE DEF io, world
<1>1. /\ torPid = 0 /\ Comes("LaunchTorProcess", UnderWay)
      /\ UNCHANGED <<running, ioq, uiq, conn, cmdq, tors, failed, torPid, launching, mojo,
                     children, relaunch>>
      /\ \/ UNCHANGED <<watchPath, watcher, polling, watchq, launcher>>
         \/ /\ watchPath' = TRUE /\ UNCHANGED <<watcher, polling>>
            /\ watchq' = Append(watchq, Task("CheckingOldTorProcess"))
            /\ launcher' = IF Bound THEN launcher ELSE "up"
  BY DEF LaunchTorProcess, PreStartCheck, watch
<1>2. \A what \in UnderWay : <<"LaunchTorProcess", what>> \notin Hazardous
  BY <1>1, Unhurried
<1>3. {"stop", "launch", "relaunch", "end", "running"} \cap UnderWay = {}
  BY <1>2 DEF Hazardous
<1>4. ~running /\ ~Has(watchq, "StopWatching") /\ ~Has(ioq, "Error")
  <2>1. "stop" \notin ControlUnderWay /\ "running" \notin ControlUnderWay
    BY <1>3 DEF UnderWay
  <2>2. ~running
    BY <2>1 DEF ControlUnderWay, When
  <2>3. QED
    BY <2>1, <2>2, NoStop
<1>5. /\ launching = 0 /\ mojo = << >> /\ relaunch = 0
      /\ ~Has(watchq, "CheckingOldTorProcess") /\ ~Has(uiq, "OnTorControlCheckComplete")
      /\ \A g \in Tors : Up(g) => g \in children
  <2>1. /\ ~(launching > 0) /\ mojo = << >> /\ ~(relaunch > 0)
        /\ "CheckingOldTorProcess" \notin Tasks(watchq)
        /\ "OnTorControlCheckComplete" \notin Tasks(uiq)
        /\ \A g \in Tors : Up(g) => g \in children
    BY <1>3 DEF UnderWay, When
  <2>2. QED
    BY <2>1, FoundTasks DEF ShapeInv, TypeOK
<1>6. ~Launched /\ ~Crashed /\ children = {}
  <2>1. ~Launched /\ ~Crashed
    BY <1>5, Empty DEF Launched, Crashed
  <2>2. \A g \in children : FALSE
    <3> SUFFICES ASSUME NEW g \in children PROVE FALSE
      OBVIOUS
    <3>1. g \in Tors /\ g # 0
      BY TorControlConstants DEF ShapeInv, TypeOK, Tors
    <3>2. ~In(mojo, Said(g))
      BY <1>5, Empty
    <3>3. QED
      BY <1>1, <3>1, <3>2 DEF Calm, TorsInv
  <2>3. QED
    BY <2>1, <2>2
<1>7. (\A g \in Tors : ~Up(g)) /\ ~Commanding /\ ~watcher
  BY <1>4, <1>5, <1>6 DEF Calm, CmdInv, StopInv
<1>8. CASE UNCHANGED <<watchPath, watcher, polling, watchq, launcher>>
  <2>1. LaunchInv'
    BY <1>1, <1>8 DEF Calm, LaunchInv, Way, Launched, Crashed
  <2>2. TorsInv'
    BY <1>1, <1>8 DEF Calm, TorsInv, Way, Launched, Crashed, Up
  <2>3. StopInv'
    BY <1>1, <1>8 DEF Calm, StopInv, Settled, Commanding, Preparing, Way, Launched
  <2>4. PollInv'
    BY <1>1, <1>8 DEF Calm, PollInv, Looking
  <2>5. CmdInv'
    BY <1>1, <1>8 DEF Calm, CmdInv, Commanding, Up
  <2>6. QED
    BY <1>1, <2>1, <2>2, <2>3, <2>4, <2>5 DEF Calm
<1>9. CASE /\ watchPath' = TRUE /\ UNCHANGED <<watcher, polling>>
           /\ watchq' = Append(watchq, Task("CheckingOldTorProcess"))
  <2>1. Added(watchq, watchq', "CheckingOldTorProcess")
    BY <1>9, PutWatch DEF ShapeInv
  <2>2. /\ Has(watchq', "CheckingOldTorProcess") /\ Single(watchq', "CheckingOldTorProcess")
        /\ Has(watchq', "StartWatching") <=> Has(watchq, "StartWatching")
        /\ Has(watchq', "StopWatching") <=> Has(watchq, "StopWatching")
        /\ Has(watchq', "Poll") <=> Has(watchq, "Poll")
        /\ Has(watchq', "PollDone") <=> Has(watchq, "PollDone")
        /\ Single(watchq, "StartWatching") => Single(watchq', "StartWatching")
        /\ Single(watchq, "Poll") => Single(watchq', "Poll")
        /\ Single(watchq, "PollDone") => Single(watchq', "PollDone")
        /\ Followed(watchq, "StartWatching", "StopWatching")
             => Followed(watchq', "StartWatching", "StopWatching")
        /\ Followed(watchq', "PollDone", "CheckingOldTorProcess")
    BY <1>5, <2>1 DEF Added, Calm, LaunchInv
  <2>3. /\ Way' = 1 /\ ~Launched' /\ ~Crashed' /\ Preparing'
    <3>1. Way' = 1 /\ ~Launched' /\ ~Crashed'
      BY <1>1, <1>5, <1>6, <2>2 DEF Way, Launched, Crashed, Count
    <3>2. QED
      BY <3>1 DEF Preparing, Count
  <2>4. LaunchInv'
    BY <1>1, <1>5, <1>6, <2>2, <2>3 DEF Calm, LaunchInv, Count
  <2>5. TorsInv'
    <3>1. \A g \in Tors : ~Up(g)'
      BY <1>1, <1>7 DEF Up
    <3>2. \A g \in Tors : ~In(mojo', Said(g))
      BY <1>1, <1>5, Empty
    <3>3. QED
      BY <1>1, <1>6, <3>1, <3>2 DEF TorsInv
  <2>6. ~Commanding'
    BY <1>1, <1>7 DEF Commanding
  <2>7. StopInv'
    <3>1. Settled
      BY <1>4, <1>5 DEF Calm, StopInv
    <3>2. Settled'
      BY <1>1, <1>7, <1>9, <2>2, <3>1 DEF Settled
    <3>3. QED
      BY <1>1, <1>4, <1>5, <1>7, <1>9, <2>2, <2>6, <3>2 DEF Calm, StopInv
  <2>8. PollInv'
    <3>1. Looking' = Looking
      BY <1>1, <1>9, <2>2 DEF Looking, Count
    <3>2. QED
      BY <1>1, <1>9, <2>2, <3>1 DEF Calm, PollInv
  <2>9. CmdInv'
    BY <1>1, <2>6 DEF Calm, CmdInv
  <2>10. QED
    BY <1>1, <2>4, <2>5, <2>7, <2>8, <2>9 DEF Calm
<1>10. QED
  BY <1>1, <1>8, <1>9

LEMMA CalmCheckComplete ==
  ASSUME ShapeInv, Calm, OnTorControlCheckComplete
  PROVE  Calm'
<1> DEFINE q == Tail(uiq)
<1> USE DEF io, world, watch, past, quiet
<1>1. /\ Dropped(uiq, q, "OnTorControlCheckComplete") /\ uiq' = q
      /\ launching' = IF launcher = "up" THEN launching + 1 ELSE launching
      /\ UNCHANGED <<running, watchPath, watcher, polling, watchq, ioq, conn, cmdq, tors, failed,
                     torPid, launcher, mojo, children, relaunch>>
  BY Heads DEF OnTorControlCheckComplete, Notified
<1> HIDE DEF q
<1>2. /\ Has(uiq, "OnTorControlCheckComplete") /\ ~Has(q, "OnTorControlCheckComplete")
      /\ Single(q, "OnTorControlCheckComplete")
      /\ Has(q, "OnTorControlReady") <=> Has(uiq, "OnTorControlReady")
  BY <1>1, NoneThere DEF Dropped, Calm, LaunchInv
<1>3. /\ Way' \in Nat /\ Way' <= Way /\ Way > 0
      /\ (Launched' <=> Launched) /\ (Crashed' <=> Crashed)
      /\ Count(Launched') = Count(Launched) /\ Count(Crashed') = Count(Crashed)
  BY <1>1, <1>2, Numbers DEF Way, Launched, Crashed, Count
<1>4. Preparing
  BY <1>3, Numbers DEF Preparing
<1>5. Commanding' <=> Commanding
  BY <1>1, <1>2 DEF Commanding
<1>6. LaunchInv'
  BY <1>1, <1>2, <1>3, Numbers DEF Calm, LaunchInv
<1>7. TorsInv'
  BY <1>1, <1>3, Numbers DEF Calm, TorsInv, Up
<1>8. StopInv'
  BY <1>1, <1>4, <1>5 DEF Calm, StopInv, Settled
<1>9. PollInv'
  BY <1>1 DEF Calm, PollInv, Looking
<1>10. CmdInv'
  BY <1>1, <1>2, <1>5 DEF Calm, CmdInv, Up
<1>11. QED
  BY <1>1, <1>6, <1>7, <1>8, <1>9, <1>10 DEF Calm

(* A notice of the delegate's sequence is one less. *)
LEMMA CalmNotices ==
  ASSUME ShapeInv, Calm, GotSOCKSListeners \/ OnTorEvent
  PROVE  Calm'
<1> DEFINE q == Tail(uiq)
<1> USE DEF io, world, watch, past, quiet, process
<1>1. /\ Dropped(uiq, q, "GotSOCKSListeners") \/ Dropped(uiq, q, "OnTorEvent")
      /\ uiq' = q
      /\ UNCHANGED <<running, watchPath, watcher, polling, watchq, ioq, conn, cmdq, tors, failed,
                     torPid, launcher, launching, mojo, children, relaunch>>
  BY Heads DEF GotSOCKSListeners, OnTorEvent, Notified
<1> HIDE DEF q
<1>2. /\ Has(q, "OnTorControlCheckComplete") <=> Has(uiq, "OnTorControlCheckComplete")
      /\ Single(q, "OnTorControlCheckComplete")
      /\ Has(q, "OnTorControlReady") <=> Has(uiq, "OnTorControlReady")
  BY <1>1 DEF Dropped, Calm, LaunchInv
<1>3. Way' = Way /\ (Launched' <=> Launched) /\ (Crashed' <=> Crashed)
  BY <1>1, <1>2 DEF Way, Launched, Crashed, Count
<1>4. (Preparing' <=> Preparing) /\ (Commanding' <=> Commanding)
  BY <1>1, <1>2, <1>3 DEF Preparing, Commanding, Count
<1>5. LaunchInv'
  BY <1>1, <1>2, <1>3 DEF Calm, LaunchInv, Count
<1>6. TorsInv'
  BY <1>1, <1>3 DEF Calm, TorsInv, Up, Count
<1>7. StopInv'
  BY <1>1, <1>4 DEF Calm, StopInv, Settled
<1>8. PollInv'
  BY <1>1 DEF Calm, PollInv, Looking
<1>9. CmdInv'
  BY <1>1, <1>2, <1>4 DEF Calm, CmdInv, Up
<1>10. QED
  BY <1>1, <1>5, <1>6, <1>7, <1>8, <1>9 DEF Calm

LEMMA CalmOnTorControlReady ==
  ASSUME ShapeInv, Calm, OnTorControlReady
  PROVE  Calm'
<1> DEFINE q == Tail(uiq)
           m == DoCmdTask("GETINFO", 0)
           r == Append(ioq, m)
<1> USE DEF io, world, watch, past, quiet, launcherVars, factory, process
<1>1. /\ Dropped(uiq, q, "OnTorControlReady") /\ Has(uiq, "OnTorControlReady") /\ uiq' = q
      /\ ioq' = ioq \o <<DoCmdTask("GETINFO", 0), Task("DoSubscribe")>>
      /\ UNCHANGED <<running, watchPath, watcher, polling, watchq, conn, cmdq, tors, failed,
                     torPid, launcher, launching, mojo, children, relaunch>>
  BY Heads DEF OnTorControlReady, Notified, Dropped
<1>2. /\ r \in Seq(IoTasks) /\ ioq' = Append(r, Task("DoSubscribe"))
      /\ Added(ioq, r, "DoCmd") /\ Added(r, ioq', "DoSubscribe")
  BY <1>1, PutTwo DEF ShapeInv
<1>3. Posted(ioq') = Posted(ioq) \cup {"GETINFO"}
  <2>1. m \in IoTasks /\ m.op = "DoCmd" /\ m.cmd = "GETINFO"
        /\ Task("DoSubscribe") \in IoTasks /\ Task("DoSubscribe").op = "DoSubscribe"
    BY Tasks1 DEF Commands, TorOrNone
  <2> HIDE DEF m
  <2>2. Posted(r) = Posted(ioq) \cup {"GETINFO"}
    BY <2>1, PostedOne DEF ShapeInv
  <2> HIDE DEF r
  <2>3. Posted(ioq') = Posted(r)
    BY <1>2, <2>1, NotPosted
  <2>4. QED
    BY <2>2, <2>3
<1> HIDE DEF q, r, m
<1>4. /\ Has(q, "OnTorControlCheckComplete") <=> Has(uiq, "OnTorControlCheckComplete")
      /\ Single(q, "OnTorControlCheckComplete")
  BY <1>1 DEF Dropped, Calm, LaunchInv
<1>5. /\ Has(ioq', "OpenControl") <=> Has(ioq, "OpenControl")
      /\ Has(ioq', "Error") <=> Has(ioq, "Error")
      /\ Single(ioq, "OpenControl") => Single(ioq', "OpenControl")
  BY <1>2 DEF Added
<1>6. Way' = Way /\ (Launched' <=> Launched) /\ (Crashed' <=> Crashed)
  BY <1>1, <1>4 DEF Way, Launched, Crashed, Count
<1>7. Preparing' <=> Preparing
  BY <1>6 DEF Preparing, Count
<1>8. Commanding /\ ~Preparing
  BY <1>1 DEF Commanding, Calm, StopInv
<1>9. LaunchInv'
  BY <1>1, <1>4, <1>6 DEF Calm, LaunchInv, Count
<1>10. TorsInv'
  BY <1>1, <1>6 DEF Calm, TorsInv, Up, Count
<1>11. StopInv'
  BY <1>1, <1>5, <1>7, <1>8 DEF Calm, StopInv, Settled
<1>12. PollInv'
  BY <1>1, <1>5 DEF Calm, PollInv, Looking, Count
<1>13. CmdInv'
  <2>1. \E g \in Tors : Up(g)'
    BY <1>1, <1>8 DEF Calm, CmdInv, Up
  <2>2. /\ conn.state \notin {"connecting", "refused"} /\ ~conn.closed
        /\ running => conn.state = "open"
        /\ conn.state = "open" => conn.authed
    BY <1>1, <1>8 DEF Calm, CmdInv
  <2>3. conn.state = "open" => "AUTHENTICATE" \notin Posted(ioq') \cup Waiting(cmdq')
    BY <1>1, <1>3, <2>2 DEF Calm, CmdInv
  <2>4. QED
    BY <1>1, <2>1, <2>2, <2>3 DEF Calm, CmdInv
<1>14. QED
  BY <1>1, <1>9, <1>10, <1>11, <1>12, <1>13 DEF Calm

(* One at a time, and what that means for the tors. *)
LEMMA OneAtATime ==
  ASSUME ShapeInv, Calm
  PROVE  /\ Crashed \/ relaunch > 0 => Way = 0 /\ children = {}
         /\ Crashed => relaunch = 0
         /\ relaunch > 0 => ~Crashed /\ relaunch = 1
         /\ Launched => Way = 0 /\ relaunch = 0
         /\ Preparing => relaunch = 0
         /\ Preparing <=> Way > 0 \/ Launched
         /\ Way > 0 \/ relaunch > 0 \/ Crashed => \A g \in Tors : ~Up(g)
         /\ Preparing \/ relaunch > 0 => torPid = 0
<1> DEFINE w == Way
<1>1. w \in Nat /\ relaunch \in Nat
  BY Numbers
<1>2. /\ w + Count(Launched) + relaunch <= 1
      /\ w + Count(children # {}) + Count(Crashed) + relaunch <= 1
  BY DEF Calm, LaunchInv
<1>3. /\ w + relaunch + Count(Crashed) > 0 => \A g \in Tors : ~Up(g)
      /\ w + Count(Launched) + relaunch > 0 => torPid = 0
  BY DEF Calm, TorsInv
<1>4. Preparing <=> w + Count(Launched) > 0
  BY DEF Preparing
<1> HIDE DEF w
<1>5. /\ Crashed \/ relaunch > 0 => w = 0 /\ children = {}
      /\ Crashed => relaunch = 0
      /\ relaunch > 0 => ~Crashed /\ relaunch = 1
      /\ Launched => w = 0 /\ relaunch = 0
  BY <1>1, <1>2 DEF Count
<1>6. /\ Preparing => relaunch = 0
      /\ Preparing <=> w > 0 \/ Launched
  BY <1>1, <1>2, <1>4 DEF Count
<1>7. w > 0 \/ relaunch > 0 \/ Crashed => \A g \in Tors : ~Up(g)
  BY <1>1, <1>3 DEF Count
<1>8. Preparing \/ relaunch > 0 => torPid = 0
  BY <1>1, <1>3, <1>4 DEF Count
<1>9. QED
  BY <1>5, <1>6, <1>7, <1>8 DEF w

(* What Kill leaves of what a stop undoes. *)
LEMMA KillForm ==
  ASSUME ShapeInv, Calm, Kill,
         UNCHANGED <<watchPath, watcher, polling, uiq, conn, cmdq, tors, failed>>
  PROVE  /\ launcher' = "none" /\ launching' = 0 /\ mojo' = << >> /\ children' = {}
         /\ torPid' = 0 /\ ~running' /\ ~Launched' /\ ~Crashed'
         /\ IF running
            THEN Added(watchq, watchq', "StopWatching") /\ Added(ioq, ioq', "Error")
            ELSE watchq' = watchq /\ ioq' = ioq
         /\ Has(watchq', "CheckingOldTorProcess") <=> Has(watchq, "CheckingOldTorProcess")
         /\ Way' \in Nat /\ Way' <= Way
         /\ Single(watchq', "CheckingOldTorProcess")
         /\ watcher => Has(watchq', "StopWatching")
         /\ Followed(watchq', "StartWatching", "StopWatching")
         /\ conn.state = "open" => Has(ioq', "Error")
         /\ Has(ioq', "OpenControl") <=> Has(ioq, "OpenControl")
         /\ Commanding' <=> Commanding
         /\ PollInv' /\ CmdInv'
<1>1. /\ launcher' = "none" /\ launching' = 0 /\ mojo' = << >> /\ children' = {}
      /\ torPid' = 0 /\ Stop
  BY DEF Kill
<1>2. /\ running' = FALSE /\ Posted(ioq') = Posted(ioq)
      /\ IF running
         THEN Added(watchq, watchq', "StopWatching") /\ Added(ioq, ioq', "Error")
         ELSE watchq' = watchq /\ ioq' = ioq
  BY <1>1, StopForm
<1>3. ~Launched' /\ ~Crashed'
  BY <1>1, Empty DEF Launched, Crashed
<1>4. /\ Has(watchq', "CheckingOldTorProcess") <=> Has(watchq, "CheckingOldTorProcess")
      /\ Has(watchq', "StartWatching") <=> Has(watchq, "StartWatching")
      /\ Has(watchq', "Poll") <=> Has(watchq, "Poll")
      /\ Has(watchq', "PollDone") <=> Has(watchq, "PollDone")
      /\ Single(watchq, "CheckingOldTorProcess") => Single(watchq', "CheckingOldTorProcess")
      /\ Single(watchq, "StartWatching") => Single(watchq', "StartWatching")
      /\ Single(watchq, "Poll") => Single(watchq', "Poll")
      /\ Single(watchq, "PollDone") => Single(watchq', "PollDone")
      /\ running => Has(watchq', "StopWatching")
      /\ running => Followed(watchq', "StartWatching", "StopWatching")
  BY <1>2 DEF Added
<1>5. /\ Has(ioq', "OpenControl") <=> Has(ioq, "OpenControl")
      /\ Has(ioq', "DoCmd") <=> Has(ioq, "DoCmd")
      /\ Has(ioq', "DoSubscribe") <=> Has(ioq, "DoSubscribe")
      /\ Single(ioq, "OpenControl") => Single(ioq', "OpenControl")
      /\ Single(ioq, "DoCmd") => Single(ioq', "DoCmd")
      /\ running => Has(ioq', "Error")
  BY <1>2 DEF Added
<1>6. Way' \in Nat /\ Way' <= Way
  BY <1>1, <1>4 DEF Way, Count, ShapeInv, TypeOK
<1>7. /\ watcher => Has(watchq', "StopWatching")
      /\ Followed(watchq', "StartWatching", "StopWatching")
      /\ conn.state = "open" => Has(ioq', "Error")
  BY <1>2, <1>4, <1>5 DEF Calm, StopInv
<1>8. Commanding' <=> Commanding
  BY <1>5 DEF Commanding
<1>9. PollInv'
  <2>1. Looking' = Looking
    BY <1>4, <1>5 DEF Looking, Count
  <2>2. QED
    BY <1>2, <1>4, <1>5, <2>1 DEF Calm, PollInv
<1>10. CmdInv'
  BY <1>2, <1>5, <1>8 DEF Calm, CmdInv, Up
<1>11. Single(watchq', "CheckingOldTorProcess")
  BY <1>4 DEF Calm, LaunchInv
<1>12. QED
  BY <1>1, <1>2, <1>3, <1>4, <1>5, <1>6, <1>7, <1>8, <1>9, <1>10, <1>11

LEMMA CalmKillTorProcess ==
  ASSUME ShapeInv, Calm, KillTorProcess, ~hasty'
  PROVE  Calm'
<1> USE DEF watch, world
<1>1. /\ Kill /\ Comes("KillTorProcess", UnderWay)
      /\ UNCHANGED <<watchPath, watcher, polling, uiq, conn, cmdq, tors, failed, relaunch>>
  BY DEF KillTorProcess
<1>2. /\ ~Has(watchq, "StartWatching") /\ ~Has(watchq, "WatchDirChanged") /\ ~Has(watchq, "Poll")
      /\ ~Has(ioq, "OpenControl") /\ conn.state \notin {"connecting", "refused"}
  <2>1. "poll" \notin ControlUnderWay
    BY <1>1, Unhurried, MoreUnderWay DEF Hazardous
  <2>2. QED
    BY <2>1, NoPoll
<1>3. /\ launcher' = "none" /\ launching' = 0 /\ mojo' = << >> /\ children' = {}
      /\ torPid' = 0 /\ ~running' /\ ~Launched' /\ ~Crashed'
      /\ IF running
         THEN Added(watchq, watchq', "StopWatching") /\ Added(ioq, ioq', "Error")
         ELSE watchq' = watchq /\ ioq' = ioq
      /\ Way' \in Nat /\ Way' <= Way
      /\ Single(watchq', "CheckingOldTorProcess")
      /\ watcher => Has(watchq', "StopWatching")
      /\ Followed(watchq', "StartWatching", "StopWatching")
      /\ conn.state = "open" => Has(ioq', "Error")
      /\ Has(ioq', "OpenControl") <=> Has(ioq, "OpenControl")
      /\ Commanding' <=> Commanding
      /\ PollInv' /\ CmdInv'
  BY <1>1, KillForm
<1>4. /\ Count(Launched') = 0 /\ Count(Crashed') = 0 /\ Count(children' # {}) = 0
  BY <1>3 DEF Count
<1>5. Single(mojo', "OnTorLaunched") /\ Single(mojo', "OnTorCrashed")
  BY <1>3, Empty
<1>6. LaunchInv'
  <2>1. Way' + relaunch <= 1
    BY <1>3, Numbers DEF Calm, LaunchInv
  <2>2. Way' + Count(Launched') + relaunch' <= 1
        /\ Way' + Count(children' # {}) + Count(Crashed') + relaunch' <= 1
    BY <1>1, <1>3, <1>4, <2>1, Numbers
  <2>3. Single(uiq', "OnTorControlCheckComplete")
    BY <1>1 DEF Calm, LaunchInv
  <2>4. QED
    BY <1>3, <1>5, <2>2, <2>3 DEF LaunchInv
<1>7. TorsInv'
  <2>1. Way' + relaunch' + Count(Crashed') > 0 => \A g \in Tors : ~Up(g)'
    BY <1>1, <1>3, <1>4, Numbers DEF Calm, TorsInv, Up
  <2>2. \A g \in Tors : ~In(mojo', Said(g))
    BY <1>3, Empty
  <2>3. QED
    BY <1>3, <2>1, <2>2 DEF TorsInv
<1>8. Preparing' => Preparing
  <2>1. Preparing' => Way' > 0
    <3> DEFINE w == Way'
               n == Count(Launched')
    <3>1. w \in Nat /\ n = 0
      BY <1>3, <1>4
    <3>2. Preparing' <=> w + n > 0
      BY DEF Preparing
    <3> HIDE DEF w, n
    <3>3. Preparing' => w > 0
      BY <3>1, <3>2
    <3>4. QED
      BY <3>3 DEF w
  <2>2. QED
    BY <1>3, <2>1, Numbers, OneAtATime
<1>9. StopInv'
  <2>1. CASE running
    <3>1. ~Preparing /\ watchPath
      BY <2>1 DEF Calm, StopInv
    <3>2. ~Has(watchq, "PollDone")
      BY <1>2, <2>1 DEF Calm, PollInv
    <3>3. /\ ~Has(watchq', "StartWatching") /\ ~Has(watchq', "WatchDirChanged")
          /\ ~Has(watchq', "Poll") /\ ~Has(watchq', "PollDone")
      BY <1>2, <1>3, <2>1, <3>2 DEF Added
    <3>4. /\ Followed(watchq', "PollDone", "CheckingOldTorProcess")
          /\ Preceded(watchq', "WatchDirChanged", "StopWatching")
      BY <3>3, NoneThere
    <3>5. Settled'
      BY <1>1, <1>2, <1>3, <3>3, <3>4 DEF Settled
    <3>6. QED
      BY <1>1, <1>3, <1>8, <3>1, <3>5 DEF StopInv
  <2>2. CASE ~running
    <3>1. watchq' = watchq /\ ioq' = ioq
      BY <1>3, <2>2
    <3>2. Settled => Settled'
      BY <1>1, <3>1 DEF Settled
    <3>3. QED
      BY <1>1, <1>3, <1>8, <2>2, <3>1, <3>2 DEF Calm, StopInv
  <2>3. QED
    BY <2>1, <2>2
<1>10. QED
  BY <1>1, <1>3, <1>6, <1>7, <1>9 DEF Calm

LEMMA CalmOnTorCrashed ==
  ASSUME ShapeInv, Calm, OnTorCrashed
  PROVE  Calm'
<1> USE DEF watch, world
<1>1. /\ Kill /\ relaunch' = relaunch + 1 /\ Crashed
      /\ UNCHANGED <<watchPath, watcher, polling, uiq, conn, cmdq, tors, failed>>
  BY Heads DEF OnTorCrashed, Answered, Crashed, Dropped
<1>2. /\ launcher' = "none" /\ launching' = 0 /\ mojo' = << >> /\ children' = {}
      /\ torPid' = 0 /\ ~running' /\ ~Launched' /\ ~Crashed'
      /\ Way' \in Nat /\ Way' <= Way
      /\ Single(watchq', "CheckingOldTorProcess")
      /\ watcher => Has(watchq', "StopWatching")
      /\ Followed(watchq', "StartWatching", "StopWatching")
      /\ conn.state = "open" => Has(ioq', "Error")
      /\ PollInv' /\ CmdInv'
  BY <1>1, KillForm
<1>3. Way = 0 /\ relaunch = 0
  BY <1>1, OneAtATime
<1>4. /\ Count(Launched') = 0 /\ Count(Crashed') = 0 /\ Count(children' # {}) = 0
      /\ Way' = 0 /\ relaunch' = 1
  BY <1>1, <1>2, <1>3 DEF Count
<1>5. Single(mojo', "OnTorLaunched") /\ Single(mojo', "OnTorCrashed")
      /\ Single(uiq', "OnTorControlCheckComplete")
  BY <1>1, <1>2, Empty DEF Calm, LaunchInv
<1>6. LaunchInv'
  BY <1>2, <1>4, <1>5 DEF LaunchInv
<1>7. TorsInv'
  <2>1. \A g \in Tors : ~Up(g)'
    BY <1>1, OneAtATime DEF Up
  <2>2. \A g \in Tors : ~In(mojo', Said(g))
    BY <1>2, Empty
  <2>3. QED
    BY <1>2, <2>1, <2>2 DEF TorsInv
<1>8. ~Preparing'
  BY <1>4 DEF Preparing
<1>9. StopInv'
  BY <1>1, <1>2, <1>4, <1>8 DEF StopInv
<1>10. QED
  BY <1>1, <1>2, <1>6, <1>7, <1>9 DEF Calm

LEMMA CalmLaunch ==
  ASSUME ShapeInv, Calm, NEW ok \in BOOLEAN, Launch(ok)
  PROVE  Calm'
<1> USE DEF io, watch, past, factory
<1>1. UNCHANGED <<running, watchPath, watcher, polling, watchq, ioq, uiq, conn, cmdq, failed,
                  torPid, launcher, relaunch>>
  BY DEF Launch
<1>2. /\ launching > 0 /\ launching' = launching - 1
      /\ Added(mojo, mojo', "OnTorLaunched")
      /\ \/ /\ tors' = tors /\ children' = children
            /\ \A g \in Tors : In(mojo', Said(g)) <=> In(mojo, Said(g))
         \/ \E b \in Tors :
              /\ ~Up(b) /\ children' = children \cup {b}
              /\ \A g \in Tors : Up(g)' <=> Up(g) \/ g = b
              /\ \A x : In(mojo', x) <=> In(mojo, x) \/ x = Said(b)
      /\ \A g \in Tors : Up(g) => Up(g)'
  BY LaunchForm
<1>3. /\ Way = 1 /\ launching = 1 /\ relaunch = 0 /\ ~Launched /\ ~Crashed /\ children = {}
      /\ Preparing
  <2>1. Way >= 1
    BY <1>2, Numbers DEF Way, Count
  <2>2. Way = 1 /\ relaunch = 0 /\ ~Launched /\ ~Crashed /\ children = {}
    BY <2>1, Numbers DEF Calm, LaunchInv
  <2>3. launching = 1
    BY <1>2, <2>2, Numbers DEF Way, Count
  <2>4. QED
    BY <2>2, <2>3, Numbers DEF Preparing
<1>4. /\ Way' = 0 /\ Launched' /\ ~Crashed'
      /\ Single(mojo', "OnTorLaunched") /\ Single(mojo', "OnTorCrashed")
  <2>1. Way' = 0
    BY <1>1, <1>2, <1>3, Numbers DEF Way, Count
  <2>2. Launched' /\ ~Crashed'
    BY <1>2, <1>3 DEF Added, Launched, Crashed
  <2>3. Single(mojo', "OnTorLaunched") /\ Single(mojo', "OnTorCrashed")
    BY <1>2, <1>3 DEF Added, Launched, Calm, LaunchInv
  <2>4. QED
    BY <2>1, <2>2, <2>3
<1>5. /\ \A g \in Tors : ~Up(g) /\ ~In(mojo, Said(g))
      /\ torPid = 0
  <2>1. \A g \in Tors : ~In(mojo, Said(g))
    BY <1>3, InHas, Answers1 DEF Launched
  <2>2. QED
    BY <1>3, <2>1, Numbers DEF Calm, TorsInv
<1>6. \A g, h \in Tors : Said(g) = Said(h) => g = h
  BY DEF Said
<1>7. /\ \A g \in Tors : Up(g)' => g \in children'
      /\ \A g \in children' : In(mojo', Said(g))
      /\ \A g \in Tors : In(mojo', Said(g)) => g \in children'
      /\ \A g, h \in children' : g = h
  <2>1. CASE /\ tors' = tors /\ children' = children
             /\ \A g \in Tors : In(mojo', Said(g)) <=> In(mojo, Said(g))
    BY <1>3, <1>5, <2>1 DEF Up
  <2>2. CASE \E b \in Tors :
               /\ ~Up(b) /\ children' = children \cup {b}
               /\ \A g \in Tors : Up(g)' <=> Up(g) \/ g = b
               /\ \A x : In(mojo', x) <=> In(mojo, x) \/ x = Said(b)
    <3>1. PICK b \in Tors :
            /\ children' = {b}
            /\ \A g \in Tors : Up(g)' <=> Up(g) \/ g = b
            /\ \A x : In(mojo', x) <=> In(mojo, x) \/ x = Said(b)
      BY <1>3, <2>2
    <3>2. QED
      BY <1>5, <1>6, <3>1
  <2>3. QED
    BY <1>2, <2>1, <2>2
<1>8. LaunchInv'
  <2>1. Way' + Count(Launched') + relaunch' <= 1
        /\ Way' + Count(children' # {}) + Count(Crashed') + relaunch' <= 1
    BY <1>1, <1>3, <1>4 DEF Count
  <2>2. QED
    BY <1>1, <1>3, <1>4, <1>7, <2>1 DEF Calm, LaunchInv
<1>9. TorsInv'
  <2>1. Way' + relaunch' + Count(Crashed') = 0
    BY <1>1, <1>3, <1>4 DEF Count
  <2>2. QED
    BY <1>1, <1>5, <1>7, <2>1 DEF TorsInv
<1>10. Commanding' <=> Commanding
  BY <1>1 DEF Commanding
<1>11. StopInv'
  BY <1>1, <1>3, <1>10 DEF Calm, StopInv, Settled
<1>12. PollInv'
  BY <1>1 DEF Calm, PollInv, Looking
<1>13. CmdInv'
  BY <1>1, <1>2, <1>10 DEF Calm, CmdInv
<1>14. QED
  BY <1>1, <1>8, <1>9, <1>11, <1>12, <1>13 DEF Calm

LEMMA CalmOnTorLaunched ==
  ASSUME ShapeInv, Calm, OnTorLaunched
  PROVE  Calm'
<1> DEFINE p == Tail(mojo)
           m == Head(mojo)
<1> USE DEF io, world, watch
<1>1. /\ Dropped(mojo, p, "OnTorLaunched") /\ mojo' = p
      /\ m \in Answers /\ m.op = "OnTorLaunched"
      /\ \A x : In(mojo, x) <=> In(p, x) \/ x = m
      /\ Launched
      /\ failed' = (running \/ ~watchPath) /\ running' = TRUE
      /\ watchq' = Append(watchq, Task("StartWatching"))
      /\ IF m.result THEN torPid' = m.tor ELSE torPid' = torPid
      /\ UNCHANGED <<watchPath, watcher, polling, ioq, uiq, conn, cmdq, tors, launcher, launching,
                     children, relaunch>>
  BY Heads DEF OnTorLaunched, Answered, StartControl, Launched, Dropped
<1> HIDE DEF p, m
<1>2. Way = 0 /\ relaunch = 0 /\ Preparing
  BY <1>1, OneAtATime
<1>3. /\ ~running /\ watchPath /\ ~Commanding /\ ~failed
      /\ ~Has(watchq, "StopWatching") /\ ~Has(ioq, "Error")
      /\ ~watcher /\ conn.state # "open"
      /\ Settled
  BY <1>2 DEF Calm, StopInv
<1>4. ~Has(watchq, "CheckingOldTorProcess") /\ ~Has(uiq, "OnTorControlCheckComplete")
      /\ launching = 0
  BY <1>2, Numbers DEF Way, Count
<1>5. /\ ~Has(watchq, "StartWatching") /\ ~Has(watchq, "Poll") /\ ~Has(watchq, "PollDone")
      /\ ~Has(ioq, "OpenControl") /\ conn.state \notin {"connecting", "open"}
  <2>1. ~Has(watchq, "PollDone")
    BY <1>3, <1>4, ThenThere DEF Settled
  <2>2. QED
    BY <1>3, <2>1 DEF Settled
<1>6. Added(watchq, watchq', "StartWatching")
  BY <1>1, PutWatch DEF ShapeInv
<1>7. /\ ~Has(watchq', "CheckingOldTorProcess") /\ ~Has(watchq', "StopWatching")
      /\ ~Has(watchq', "Poll") /\ ~Has(watchq', "PollDone")
      /\ Single(watchq', "CheckingOldTorProcess") /\ Single(watchq', "Poll")
      /\ Single(watchq', "PollDone") /\ Single(watchq', "StartWatching")
  BY <1>3, <1>4, <1>5, <1>6, NoneThere DEF Added
<1>8. /\ ~Has(p, "OnTorLaunched")
      /\ Has(p, "OnTorCrashed") <=> Has(mojo, "OnTorCrashed")
      /\ Single(p, "OnTorLaunched") /\ Single(p, "OnTorCrashed")
  BY <1>1 DEF Dropped, Calm, LaunchInv
<1>9. Way' = 0 /\ ~Launched' /\ (Crashed' <=> Crashed)
  BY <1>1, <1>4, <1>7, <1>8 DEF Way, Launched, Crashed, Count
<1>10. LaunchInv'
  BY <1>1, <1>2, <1>7, <1>8, <1>9, Numbers DEF Calm, LaunchInv, Count
<1>11. TorsInv'
  <2>1. torPid = 0
    BY <1>2, OneAtATime
  <2>2. \A g \in Tors : ~In(p, Said(g))
    BY <1>8, InHas, Answers1
  <2>3. \A g \in Tors : In(p, Died(g)) <=> In(mojo, Died(g))
    BY <1>1, Answers1
  <2>4. \A g \in Tors : In(mojo, Said(g)) => m = Said(g) /\ torPid' = g
    <3> SUFFICES ASSUME NEW g \in Tors, In(mojo, Said(g)) PROVE m = Said(g) /\ torPid' = g
      OBVIOUS
    <3>1. m = Said(g)
      BY <1>1, <2>2
    <3>2. QED
      BY <1>1, <3>1 DEF Said
  <2>5. torPid' # 0 => torPid' \in Tors /\ In(mojo, Said(torPid'))
    <3> SUFFICES ASSUME torPid' # 0 PROVE torPid' \in Tors /\ In(mojo, Said(torPid'))
      OBVIOUS
    <3>1. m.result /\ torPid' = m.tor
      BY <1>1, <2>1
    <3>2. m = Said(torPid') /\ torPid' \in Tors
      BY <1>1, <3>1 DEF Answers, Said
    <3>3. QED
      BY <1>1, <3>2
  <2>6. \A g \in children' : torPid' = g
    BY <1>1, <2>1, <2>4, TorControlConstants DEF Calm, TorsInv, ShapeInv, TypeOK, Tors
  <2>7. torPid' # 0 => \/ torPid' \in children' \/ In(mojo', Died(torPid'))
                       \/ launcher' \in {"down", "dead"}
    BY <1>1, <2>3, <2>5 DEF Calm, TorsInv
  <2>8. Way' + relaunch' + Count(Crashed') > 0 => \A g \in Tors : ~Up(g)'
    BY <1>1, <1>2, <1>9 DEF Calm, TorsInv, Count, Up
  <2>9. Way' + Count(Launched') + relaunch' = 0
    BY <1>1, <1>2, <1>9 DEF Count
  <2>10. children' # {} => \A g \in Tors : Up(g)' => g \in children'
    BY <1>1 DEF Calm, TorsInv, Up
  <2>11. QED
    BY <1>1, <2>2, <2>6, <2>7, <2>8, <2>9, <2>10 DEF TorsInv
<1>12. ~Preparing' /\ ~Commanding'
  BY <1>1, <1>2, <1>3, <1>9 DEF Preparing, Commanding, Count
<1>13. StopInv'
  BY <1>1, <1>2, <1>3, <1>7, <1>12 DEF StopInv
<1>14. PollInv'
  <2>1. Looking' = 0
    BY <1>1, <1>5, <1>7 DEF Looking, Count
  <2>2. Single(ioq', "OpenControl")
    BY <1>1, <1>5, NoneThere
  <2>3. QED
    BY <1>1, <1>3, <1>7, <2>1, <2>2 DEF PollInv
<1>15. CmdInv'
  BY <1>1, <1>3, <1>12 DEF Calm, CmdInv
<1>16. QED
  BY <1>1, <1>3, <1>10, <1>11, <1>13, <1>14, <1>15 DEF Calm

LEMMA CalmOnTorLauncherCrashed ==
  ASSUME ShapeInv, Calm, OnTorLauncherCrashed
  PROVE  Calm'
<1> USE DEF io, world, watch, past, quiet
<1>1. /\ UNCHANGED <<running, watchPath, watcher, polling, watchq, ioq, uiq, conn, cmdq, tors,
                     failed, torPid, launching, mojo, children, relaunch>>
      /\ launcher = "down" /\ launcher' = "dead"
  BY DEF OnTorLauncherCrashed
<1>2. relaunch = 0
  BY <1>1 DEF Calm, LaunchInv, ShapeInv, TypeOK
<1>3. /\ Way' = Way /\ (Launched' <=> Launched) /\ (Crashed' <=> Crashed)
      /\ (Preparing' <=> Preparing) /\ (Commanding' <=> Commanding)
  BY <1>1 DEF Way, Launched, Crashed, Preparing, Commanding
<1>4. LaunchInv'
  BY <1>1, <1>2 DEF Calm, LaunchInv, Way, Launched, Crashed
<1>5. TorsInv'
  BY <1>1, <1>3 DEF Calm, TorsInv, Up, Count
<1>6. StopInv'
  BY <1>1, <1>3 DEF Calm, StopInv, Settled
<1>7. PollInv'
  BY <1>1 DEF Calm, PollInv, Looking
<1>8. CmdInv'
  BY <1>1, <1>3 DEF Calm, CmdInv, Up
<1>9. QED
  BY <1>1, <1>4, <1>5, <1>6, <1>7, <1>8 DEF Calm

LEMMA CalmRelaunchTor ==
  ASSUME ShapeInv, Calm, RelaunchTor, ~hasty'
  PROVE  Calm'
<1> USE DEF io, world, watch, factory
<1>1. /\ relaunch > 0 /\ Comes("RelaunchTor", UnderWay) /\ relaunch' = relaunch - 1
      /\ failed' = Bound /\ launcher' = "up" /\ watchPath' = TRUE
      /\ watchq' = Append(watchq, Task("CheckingOldTorProcess"))
      /\ UNCHANGED <<running, watcher, polling, ioq, uiq, conn, cmdq, tors, torPid, launching,
                     mojo, children>>
  BY DEF RelaunchTor, PreStartCheck
<1>2. "stop" \notin ControlUnderWay /\ "poll" \notin ControlUnderWay
  BY <1>1, Unhurried, MoreUnderWay DEF Hazardous
<1>3. /\ ~Has(watchq, "StopWatching") /\ ~Has(ioq, "Error")
      /\ ~Has(watchq, "StartWatching") /\ ~Has(watchq, "Poll")
      /\ ~Has(ioq, "OpenControl") /\ conn.state \notin {"connecting", "refused"}
  BY <1>2, NoStop, NoPoll
<1>4. /\ Way = 0 /\ relaunch = 1 /\ children = {} /\ ~Crashed /\ ~Launched /\ torPid = 0
      /\ \A g \in Tors : ~Up(g)
  BY <1>1, OneAtATime
<1>5. launcher = "none" /\ ~running /\ ~failed' /\ relaunch' = 0
  <2>1. launcher = "none" /\ ~running
    BY <1>1 DEF Calm, LaunchInv, StopInv
  <2>2. ~failed'
    BY <1>1, <2>1 DEF Bound
  <2>3. relaunch' = 0
    BY <1>1, <1>4
  <2>4. QED
    BY <2>1, <2>2, <2>3
<1>6. /\ mojo = << >> /\ launching = 0
      /\ ~Has(watchq, "CheckingOldTorProcess") /\ ~Has(uiq, "OnTorControlCheckComplete")
  BY <1>4, <1>5, Numbers DEF ShapeInv, Way, Count
<1>7. ~Commanding /\ ~watcher /\ conn.state # "open"
  BY <1>3, <1>4, <1>5 DEF Calm, CmdInv, StopInv
<1>8. Added(watchq, watchq', "CheckingOldTorProcess")
  BY <1>1, PutWatch DEF ShapeInv
<1>9. /\ Has(watchq', "CheckingOldTorProcess") /\ Single(watchq', "CheckingOldTorProcess")
      /\ ~Has(watchq', "StartWatching") /\ ~Has(watchq', "StopWatching") /\ ~Has(watchq', "Poll")
      /\ Has(watchq', "PollDone") <=> Has(watchq, "PollDone")
      /\ Single(watchq', "StartWatching") /\ Single(watchq', "Poll")
      /\ Single(watchq, "PollDone") => Single(watchq', "PollDone")
      /\ Followed(watchq', "StartWatching", "StopWatching")
      /\ Followed(watchq', "PollDone", "CheckingOldTorProcess")
  <2>1. /\ Has(watchq', "CheckingOldTorProcess") /\ Single(watchq', "CheckingOldTorProcess")
        /\ ~Has(watchq', "StartWatching") /\ ~Has(watchq', "StopWatching")
        /\ ~Has(watchq', "Poll")
        /\ Has(watchq', "PollDone") <=> Has(watchq, "PollDone")
        /\ Single(watchq, "PollDone") => Single(watchq', "PollDone")
        /\ Followed(watchq', "PollDone", "CheckingOldTorProcess")
    BY <1>3, <1>6, <1>8 DEF Added, Calm, LaunchInv
  <2>2. QED
    BY <2>1, NoneThere
<1>10. /\ Way' = 1 /\ ~Launched' /\ ~Crashed' /\ Preparing'
  <2>1. Way' = 1 /\ ~Launched' /\ ~Crashed'
    BY <1>1, <1>4, <1>6, <1>9 DEF Way, Launched, Crashed, Count
  <2>2. QED
    BY <2>1 DEF Preparing, Count
<1>11. LaunchInv'
  <2>1. children' = {} /\ Count(children' # {}) = 0
    BY <1>1, <1>4 DEF Count
  <2>2. Way' + Count(Launched') + relaunch' <= 1
        /\ Way' + Count(children' # {}) + Count(Crashed') + relaunch' <= 1
    BY <1>5, <1>10, <2>1 DEF Count
  <2>3. /\ Single(uiq', "OnTorControlCheckComplete")
        /\ Single(mojo', "OnTorLaunched") /\ Single(mojo', "OnTorCrashed")
    BY <1>1, <1>6, Empty, NoneThere
  <2>4. QED
    BY <1>5, <1>9, <2>1, <2>2, <2>3 DEF LaunchInv
<1>12. TorsInv'
  <2>1. \A g \in Tors : ~Up(g)'
    BY <1>1, <1>4 DEF Up
  <2>2. \A g \in Tors : ~In(mojo', Said(g))
    BY <1>1, <1>6, Empty
  <2>3. QED
    BY <1>1, <1>4, <2>1, <2>2 DEF TorsInv
<1>13. ~Commanding'
  BY <1>1, <1>7 DEF Commanding
<1>14. Settled'
  BY <1>1, <1>3, <1>7, <1>9 DEF Settled
<1>15. StopInv'
  BY <1>1, <1>3, <1>5, <1>7, <1>9, <1>13, <1>14 DEF StopInv
<1>16. PollInv'
  <2>1. Looking' = Looking
    BY <1>1, <1>3, <1>9 DEF Looking, Count
  <2>2. QED
    BY <1>1, <1>5, <1>7, <1>9, <2>1 DEF Calm, PollInv
<1>17. CmdInv'
  BY <1>1, <1>7, <1>13 DEF Calm, CmdInv
<1>18. QED
  BY <1>5, <1>11, <1>12, <1>15, <1>16, <1>17 DEF Calm

-----------------------------------------------------------------------------
(* The invariant is kept.                                                  *)

(* What was hasty remains so. *)
LEMMA HastyKept == ShapeInv /\ [Next]_vars => (hasty => hasty')
<1> SUFFICES ASSUME ShapeInv, [Next]_vars PROVE hasty => hasty'
  OBVIOUS
<1> USE DEF past, quiet
<1>1. CASE UNCHANGED vars
  BY <1>1 DEF vars, controlVars
<1>2. CASE ControlNext
  <2>1. CASE TorCloses
    BY <2>1, ComesForm DEF TorCloses
  <2>2. CASE \/ \E ok \in BOOLEAN : StartWatching(ok)
             \/ StopWatching \/ CheckingOldTorProcess \/ WatchDirChanged \/ Poll \/ PollDone
    BY <2>2 DEF StartWatching, StopWatching, CheckingOldTorProcess, WatchDirChanged, Poll, PollDone
  <2>3. CASE \/ Error \/ OpenControl \/ Connected \/ DoCmd \/ DoSubscribe \/ ReadReply
             \/ ReadClosed
    BY <2>3 DEF Error, OpenControl, Connected, DoCmd, DoSubscribe, ReadReply, ReadClosed
  <2>4. CASE \/ \E g \in Tors, f \in {"pid", "port", "cookie"} : TorWrites(g, f)
             \/ \E g \in Tors : TorEstablishesCircuit(g)
    BY <2>4 DEF TorWrites, TorEstablishesCircuit
  <2>5. QED
    BY <1>2, <2>1, <2>2, <2>3, <2>4, Zenon DEF ControlNext
<1>3. CASE \/ LaunchTorProcess \/ KillTorProcess \/ RelaunchTor
           \/ \E g \in Tors : TorCrashes(g)
           \/ \E g \in Tors : TorEnds(g)
           \/ \E k \in BOOLEAN : LauncherCrashes(k)
  <2>1. \E event, found : Comes(event, found)
    BY <1>3 DEF LaunchTorProcess, KillTorProcess, RelaunchTor, TorCrashes, TorEnds, LauncherCrashes
  <2>2. QED
    BY <2>1, ComesForm
<1>4. CASE \/ OnTorControlCheckComplete \/ OnTorControlReady \/ GotSOCKSListeners \/ OnTorEvent
           \/ OnTorLaunched \/ OnTorCrashed \/ OnTorLauncherCrashed
           \/ \E ok \in BOOLEAN : Launch(ok)
  BY <1>4 DEF OnTorControlCheckComplete, OnTorControlReady, GotSOCKSListeners, OnTorEvent,
              OnTorLaunched, OnTorCrashed, OnTorLauncherCrashed, Launch
<1>5. QED
  BY <1>1, <1>2, <1>3, <1>4, Zenon DEF Next

LEMMA CalmStutter ==
  ASSUME Calm, UNCHANGED vars
  PROVE  Calm'
<1>1. UNCHANGED <<running, watchPath, watcher, polling, repoll, watchq, ioq, uiq, conn, cmdq, tors,
                  failed, torPid, launcher, launching, mojo, children, relaunch>>
  BY DEF vars, controlVars, watch, io, world, launcherVars, factory, process
<1>2. Way' = Way /\ Launched' = Launched /\ Crashed' = Crashed
      /\ Preparing' = Preparing /\ Commanding' = Commanding
  BY <1>1 DEF Way, Launched, Crashed, Preparing, Commanding
<1>3. LaunchInv' /\ TorsInv'
  BY <1>1, <1>2 DEF Calm, LaunchInv, TorsInv, Up
<1>4. StopInv'
  BY <1>1, <1>2 DEF Calm, StopInv, Settled
<1>5. PollInv'
  BY <1>1 DEF Calm, PollInv, Looking
<1>6. CmdInv'
  BY <1>1, <1>2 DEF Calm, CmdInv, Up
<1>7. QED
  BY <1>1, <1>3, <1>4, <1>5, <1>6 DEF Calm

LEMMA CalmControl ==
  ASSUME ShapeInv, Calm, ControlNext, UNCHANGED launcherVars, ~hasty'
  PROVE  Calm'
<1>1. CASE \E ok \in BOOLEAN : StartWatching(ok)
  BY <1>1, CalmStartWatching
<1>2. CASE StopWatching
  BY <1>2, CalmStopWatching
<1>3. CASE CheckingOldTorProcess
  BY <1>3, CalmCheckingOldTorProcess
<1>4. CASE WatchDirChanged
  BY <1>4, CalmWatchDirChanged
<1>5. CASE Poll \/ PollDone
  BY <1>5, CalmPoll
<1>6. CASE Error
  BY <1>6, CalmError
<1>7. CASE OpenControl
  BY <1>7, CalmOpenControl
<1>8. CASE Connected
  BY <1>8, CalmConnected
<1>9. CASE DoCmd
  BY <1>9, CalmDoCmd
<1>10. CASE DoSubscribe
  BY <1>10, CalmDoSubscribe
<1>11. CASE ReadReply
  BY <1>11, CalmReadReply
<1>12. CASE ReadClosed
  BY <1>12, CalmReadClosed
<1>13. CASE \E g \in Tors, f \in {"pid", "port", "cookie"} : TorWrites(g, f)
  BY <1>13, CalmTorWrites
<1>14. CASE \E g \in Tors : TorEstablishesCircuit(g)
  BY <1>14, CalmTorEstablishesCircuit
<1>15. CASE TorCloses
  BY <1>15, CalmTorCloses
<1>16. QED
  BY <1>1, <1>2, <1>3, <1>4, <1>5, <1>6, <1>7, <1>8, <1>9, <1>10, <1>11, <1>12, <1>13, <1>14,
     <1>15, Zenon DEF ControlNext

LEMMA TorInvKept == TorInv /\ [Next]_vars => TorInv'
<1> SUFFICES ASSUME TorInv, [Next]_vars PROVE TorInv'
  OBVIOUS
<1>1. ShapeInv /\ ShapeInv'
  BY ShapeKept DEF TorInv
<1>2. ASSUME ~hasty' PROVE Calm'
  <2>1. Calm
    BY <1>1, <1>2, HastyKept DEF TorInv
  <2>2. CASE UNCHANGED vars
    BY <2>1, <2>2, CalmStutter
  <2>3. CASE ControlNext /\ UNCHANGED launcherVars
    BY <1>1, <1>2, <2>1, <2>3, CalmControl
  <2>4. CASE LaunchTorProcess
    BY <1>1, <1>2, <2>1, <2>4, CalmLaunchTorProcess
  <2>5. CASE KillTorProcess
    BY <1>1, <1>2, <2>1, <2>5, CalmKillTorProcess
  <2>6. CASE OnTorControlCheckComplete
    BY <1>1, <2>1, <2>6, CalmCheckComplete
  <2>7. CASE OnTorControlReady
    BY <1>1, <2>1, <2>7, CalmOnTorControlReady
  <2>8. CASE GotSOCKSListeners \/ OnTorEvent
    BY <1>1, <2>1, <2>8, CalmNotices
  <2>9. CASE \E ok \in BOOLEAN : Launch(ok)
    BY <1>1, <2>1, <2>9, CalmLaunch
  <2>10. CASE \E g \in Tors : TorCrashes(g)
    BY <1>1, <1>2, <2>1, <2>10, CalmTorCrashes
  <2>11. CASE \E g \in Tors : TorEnds(g)
    BY <1>1, <1>2, <2>1, <2>11, CalmTorEnds
  <2>12. CASE \E k \in BOOLEAN : LauncherCrashes(k)
    BY <1>1, <1>2, <2>1, <2>12, CalmLauncherCrashes
  <2>13. CASE OnTorLaunched
    BY <1>1, <2>1, <2>13, CalmOnTorLaunched
  <2>14. CASE OnTorCrashed
    BY <1>1, <2>1, <2>14, CalmOnTorCrashed
  <2>15. CASE OnTorLauncherCrashed
    BY <1>1, <2>1, <2>15, CalmOnTorLauncherCrashed
  <2>16. CASE RelaunchTor
    BY <1>1, <1>2, <2>1, <2>16, CalmRelaunchTor
  <2>17. QED
    BY <2>2, <2>3, <2>4, <2>5, <2>6, <2>7, <2>8, <2>9, <2>10, <2>11, <2>12, <2>13, <2>14, <2>15,
       <2>16, Zenon DEF Next
<1>3. QED
  BY <1>1, <1>2 DEF TorInv

LEMMA TorInvInit == Init => TorInv
<1> SUFFICES ASSUME Init PROVE TorInv
  OBVIOUS
<1>1. /\ running = FALSE /\ watchPath = FALSE /\ watcher = FALSE /\ polling = FALSE
      /\ repoll = FALSE /\ reading = FALSE /\ present = FALSE /\ fresh = TRUE
      /\ failed = FALSE /\ hasty = FALSE /\ depth = 0
      /\ watchq = << >> /\ ioq = << >> /\ uiq = << >> /\ conn = NoConn /\ cmdq = << >>
      /\ tors = [g \in Tors |-> "none"] /\ files = [pid |-> 0, port |-> 0, cookie |-> 0]
      /\ isStarting = FALSE /\ isConnected = FALSE /\ wanted = FALSE /\ torPid = 0 /\ proxy = 0
      /\ launcher = "none" /\ launching = 0 /\ mojo = << >> /\ children = {} /\ doomed = {}
      /\ relaunch = 0
  BY DEF Init, ControlInit
<1>2. /\ conn.state = "none" /\ conn.closed = FALSE /\ conn \in Conn
  BY <1>1 DEF NoConn, Conn, TorOrNone
<1>3. TypeOK
  <2>1. files \in [{"pid", "port", "cookie"} -> Tors \cup {0}]
    BY <1>1
  <2>2. tors \in [Tors -> {"none", "up", "port", "pid", "cookie", "circuit", "dead"}]
    BY <1>1
  <2>3. /\ {running, watchPath, watcher, polling, repoll, reading, present} \subseteq BOOLEAN
        /\ {isStarting, isConnected, wanted, fresh, failed, hasty} \subseteq BOOLEAN
    BY <1>1
  <2>4. torPid \in Tors \cup {0} /\ proxy \in Tors \cup {0} /\ depth \in Int
        /\ {launching, relaunch} \subseteq Nat
    BY <1>1
  <2>5. children \subseteq Tors /\ doomed \subseteq Tors
    BY <1>1
  <2>6. QED
    BY <1>1, <1>2, <2>1, <2>2, <2>3, <2>4, <2>5 DEF TypeOK
<1>4. ShapeInv
  BY <1>1, <1>2, <1>3 DEF ShapeInv
<1>5. /\ ~Launched /\ ~Crashed /\ Way = 0 /\ ~Preparing /\ ~Commanding /\ Looking = 0
  <2>1. ~Launched /\ ~Crashed /\ ~Commanding
    BY <1>1, Empty DEF Launched, Crashed, Commanding
  <2>2. Way = 0 /\ Looking = 0
    BY <1>1, <1>2, Empty DEF Way, Looking, Count
  <2>3. QED
    BY <2>1, <2>2 DEF Preparing, Count
<1>6. LaunchInv
  BY <1>1, <1>5, Empty DEF LaunchInv, Count
<1>7. TorsInv
  BY <1>1, <1>5, Empty DEF TorsInv, Count
<1>8. StopInv
  BY <1>1, <1>2, <1>5, Empty DEF StopInv, Settled
<1>9. PollInv
  BY <1>1, <1>5, Empty DEF PollInv
<1>10. CmdInv
  BY <1>1, <1>2, <1>5 DEF CmdInv
<1>11. QED
  BY <1>1, <1>4, <1>6, <1>7, <1>8, <1>9, <1>10 DEF TorInv, Calm

\* The invariant the properties follow from: shapes at any time; and, until an
\* event comes too early, one launch, tor or relaunch, a stop that undoes what
\* the session did, one owner of polling_, and commands for an open connection.
THEOREM SessionInOrder == Spec => []TorInv
BY TorInvInit, TorInvKept, PTL DEF Spec

-----------------------------------------------------------------------------
(* What the invariant says of the properties.                              *)

(* The tasks of a kind that comes once, or not at all, are counted so. *)
LEMMA CountOnce ==
  ASSUME NEW S, NEW q \in Seq(S), NEW ops, NEW a,
         \A i \in DOMAIN q : q[i].op \in ops => q[i].op = a, a \in ops, Single(q, a)
  PROVE  Cardinality({i \in DOMAIN q : q[i].op \in ops}) = Count(Has(q, a))
<1> DEFINE found == {i \in DOMAIN q : q[i].op \in ops}
<1>1. \A i : i \in found <=> i \in DOMAIN q /\ q[i].op = a
  OBVIOUS
<1>2. CASE Has(q, a)
  <2>1. PICK i \in DOMAIN q : q[i].op = a
    BY <1>2 DEF Has
  <2>2. found = {i}
    BY <1>1, <2>1 DEF Single
  <2>3. QED
    BY <1>2, <2>2, FS_Singleton DEF Count
<1>3. CASE ~Has(q, a)
  <2>1. found = {}
    BY <1>1, <1>3 DEF Has
  <2>2. QED
    BY <1>3, <2>1, FS_EmptySet DEF Count
<1>4. QED
  BY <1>2, <1>3

LEMMA TorInvPolling == TorInv => PollingHasOwner
<1> SUFFICES ASSUME TorInv, running, watcher, ~hasty
             PROVE  Owners = IF polling THEN 1 ELSE 0
  BY DEF PollingHasOwner
<1>1. PollInv /\ ShapeInv
  BY DEF TorInv, Calm
<1>2. ~(Has(watchq, "Poll") /\ Has(watchq, "PollDone"))
  BY <1>1 DEF PollInv, Looking, Count
<1> DEFINE w == Cardinality({i \in DOMAIN watchq : watchq[i].op \in {"Poll", "PollDone"}})
           o == Cardinality({i \in DOMAIN ioq : ioq[i].op = "OpenControl"})
<1>3. w = Count(Has(watchq, "Poll")) + Count(Has(watchq, "PollDone"))
  <2>1. CASE ~Has(watchq, "PollDone")
    <3>1. w = Count(Has(watchq, "Poll"))
      <4>1. \A i \in DOMAIN watchq : watchq[i].op \in {"Poll", "PollDone"} => watchq[i].op = "Poll"
        BY <2>1 DEF Has
      <4>2. QED
        BY <1>1, <4>1, CountOnce DEF PollInv, ShapeInv
    <3>2. QED
      BY <2>1, <3>1 DEF Count
  <2>2. CASE ~Has(watchq, "Poll")
    <3>1. w = Count(Has(watchq, "PollDone"))
      <4>1. \A i \in DOMAIN watchq :
               watchq[i].op \in {"Poll", "PollDone"} => watchq[i].op = "PollDone"
        BY <2>2 DEF Has
      <4>2. QED
        BY <1>1, <4>1, CountOnce DEF PollInv, ShapeInv
    <3>2. QED
      BY <2>2, <3>1 DEF Count
  <2>3. QED
    BY <1>2, <2>1, <2>2
<1>4. o = Count(Has(ioq, "OpenControl"))
  <2>1. Cardinality({i \in DOMAIN ioq : ioq[i].op \in {"OpenControl"}})
          = Count(Has(ioq, "OpenControl"))
    BY <1>1, CountOnce DEF PollInv, ShapeInv
  <2>2. {i \in DOMAIN ioq : ioq[i].op \in {"OpenControl"}}
          = {i \in DOMAIN ioq : ioq[i].op = "OpenControl"}
    OBVIOUS
  <2>3. QED
    BY <2>1, <2>2
<1>5. Owners = w + o + Count(conn.state \in {"connecting", "open"})
  BY DEF Owners, Count
<1> HIDE DEF w, o
<1>6. Owners = Looking
  BY <1>3, <1>4, <1>5 DEF Looking
<1>7. Looking \in Nat
  BY DEF Looking, Count
<1>8. QED
  BY <1>1, <1>6, <1>7 DEF PollInv, ShapeInv, TypeOK

LEMMA TorInvStopped == TorInv => StoppedIsClosed
<1> SUFFICES ASSUME TorInv, ~running, Quiet, ~hasty
             PROVE  ~watcher /\ conn.state # "open"
  BY DEF StoppedIsClosed
<1>1. /\ watcher => Has(watchq, "StopWatching")
      /\ conn.state = "open" => Has(ioq, "Error")
  BY DEF TorInv, Calm, StopInv
<1>2. QED
  BY <1>1, Empty DEF Quiet

LEMMA TorInvAlone == TorInv => TorAccountedFor
<1> SUFFICES ASSUME TorInv, ~hasty
             PROVE  Cardinality(children) <= 1 /\ PidIsLive
  BY DEF TorAccountedFor, OneTor, PidIsLive
<1>1. LaunchInv /\ TorsInv
  BY DEF TorInv, Calm
<1>2. Cardinality(children) <= 1
  <2>1. CASE children = {}
    BY <2>1, FS_EmptySet
  <2>2. CASE children # {}
    <3>1. PICK g \in children : TRUE
      BY <2>2
    <3>2. children = {g}
      BY <1>1, <3>1 DEF LaunchInv
    <3>3. QED
      BY <3>2, FS_Singleton
  <2>3. QED
    BY <2>1, <2>2
<1>3. PidIsLive
  BY <1>1 DEF TorsInv, PidIsLive, In, Died
<1>4. QED
  BY <1>2, <1>3

-----------------------------------------------------------------------------
(* The theorems.                                                           *)

\* AssertionsHold: no assertion of TorControl or of the launcher's factory
\* fails, and no command is written to a socket that is not there, unless an
\* event came while what it upsets was under way.
THEOREM NoAssertionFails == Spec => []AssertionsHold
<1>1. TorInv => AssertionsHold
  BY DEF TorInv, Calm, AssertionsHold
<1> QED
  BY <1>1, SessionInOrder, PTL

\* StoppedIsClosed: when the tasks Stop posted have run the directory is not
\* watched and no connection is open, whatever a poll found before.
THEOREM StopCloses == Spec => []StoppedIsClosed
BY TorInvStopped, SessionInOrder, PTL

\* ControlConsistent: the types, what a connection that is not there leaves,
\* and polling_ is set when exactly one task or connection is to reset it.
THEOREM ControlIsConsistent == Spec => []ControlConsistent
<1>1. TorInv => ControlConsistent
  BY TorInvPolling DEF TorInv, ShapeInv, ControlConsistent
<1> QED
  BY <1>1, SessionInOrder, PTL

\* TorAccountedFor: the launcher never runs two tors, and the one the factory
\* names is running or its death is on its way to the factory.
THEOREM EveryTorAccountedFor == Spec => []TorAccountedFor
BY TorInvAlone, SessionInOrder, PTL
=============================================================================
