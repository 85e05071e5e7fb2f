----------------------------- MODULE TorControl -----------------------------
(* The client of tor's control port (src/components/tor/tor_control.cc). It  *)
(* watches a directory for the port and the cookie tor writes there,         *)
(* connects, authenticates, and asks for the SOCKS listener and for events.  *)
(* Tasks on three sequences share its state: the delegate's (UI), the one    *)
(* that watches the directory and the one that does I/O.                     *)
(*                                                                           *)
(* One subscription stands for the four of the delegate, the question for    *)
(* the SOCKS listeners for that and the one for tor's version: neither the   *)
(* order of the two nor the number of the four is read anywhere. A write     *)
(* completes at once, or fails at once when tor has closed the connection.   *)
(*                                                                           *)
(* `failed` is the end of the browser by an assertion or a null socket: the  *)
(* program modelled is the one built with assertions (DCHECK).               *)
EXTENDS Integers, Sequences, FiniteSets

CONSTANTS
    MaxTors,            \* bounds: processes of tor,
    MaxDrops,           \*   control connections tor closes,
    MaxWatchFailures    \*   directories that cannot be watched

ASSUME TorControlConstants ==
    /\ {MaxDrops, MaxWatchFailures} \subseteq Nat
    /\ MaxTors \in Nat \ {0}

Tors == 1 .. MaxTors

VARIABLES
    running,        \* running_, written by the delegate, read by the I/O sequence
    watchPath,      \* watch_dir_path_ is not empty
    watcher,        \* watcher_ is there
    polling,        \* polling_
    repoll,         \* repoll_
    watchq, ioq,    \* tasks of the watch and of the I/O sequence
    uiq,            \* tasks of the delegate's
    conn,           \* socket_, and what tor knows of the connection
    cmdq,           \* cmdq_
    reading,        \* reading_
    depth,          \* async_events_ of the event; -1 is the largest size_t
    present,        \* async_events_ has an entry for the event
    tors,           \* processes: "none" yet, "up", what they did last, "dead"
    files,          \* whose tor.pid, controlport and control_auth_cookie, or 0
    fresh,          \* the cookie was accessed after the port was written
    failed,
    hasty,          \* history: an event came while something it upsets was under way
    drops, watchFailures

watch == <<watchPath, watcher, polling, repoll>>
io == <<conn, cmdq, reading, depth, present>>
world == <<tors, files, fresh>>
past == <<hasty, drops, watchFailures>>
controlVars == <<running, watch, watchq, ioq, uiq, io, world, failed, past>>

NoConn == [state |-> "none", tor |-> 0, cookie |-> 0, authed |-> FALSE, subscribed |-> FALSE,
           closed |-> FALSE, deaf |-> FALSE]

Task(op) == [op |-> op]
DoCmdTask(cmd, cookie) == [op |-> "DoCmd", cmd |-> cmd, cookie |-> cookie]
Notice(op, g) == [op |-> op, tor |-> g]

Up(g) == tors[g] \notin {"none", "dead"}

(* Nothing is left of a former session: a tor that is relaunched finds what  *)
(* the one before it left.                                                   *)
ControlInit ==
    /\ running = FALSE
    /\ watchPath = FALSE /\ watcher = FALSE /\ polling = FALSE /\ repoll = FALSE
    /\ watchq = << >> /\ ioq = << >> /\ uiq = << >>
    /\ conn = NoConn /\ cmdq = << >> /\ reading = FALSE
    /\ depth = 0 /\ present = FALSE
    /\ tors = [g \in Tors |-> "none"]
    /\ files = [pid |-> 0, port |-> 0, cookie |-> 0]
    /\ fresh = TRUE
    /\ failed = FALSE /\ hasty = FALSE
    /\ drops = 0 /\ watchFailures = 0

-----------------------------------------------------------------------------
(* The delegate's calls.                                                     *)
PreStartCheck ==
    /\ watchPath' = TRUE
    /\ watchq' = Append(watchq, Task("CheckingOldTorProcess"))
    /\ UNCHANGED <<watcher, polling, repoll>>

(* Start, which asserts a directory and that it is not running.              *)
StartControl ==
    /\ failed' = (running \/ ~watchPath)
    /\ running' = TRUE
    /\ watchq' = Append(watchq, Task("StartWatching"))

(* A bug: the connection is left open.                                       *)
StopWatchOnly ==
    \/ /\ ~running
       /\ UNCHANGED <<running, depth, present, watchq, ioq>>
    \/ /\ running
       /\ running' = FALSE
       /\ depth' = 0 /\ present' = FALSE
       /\ watchq' = Append(watchq, Task("StopWatching"))
       /\ UNCHANGED ioq

Stop ==
    \/ /\ ~running
       /\ UNCHANGED <<running, depth, present, watchq, ioq>>
    \/ /\ running
       /\ running' = FALSE
       /\ depth' = 0 /\ present' = FALSE
       /\ watchq' = Append(watchq, Task("StopWatching"))
       /\ ioq' = Append(ioq, Task("Error"))

-----------------------------------------------------------------------------
(* The sequence that watches the directory; q are its tasks after this one.  *)
Watching(op) == watchq # << >> /\ Head(watchq).op = op

(* A bug: what changed during the poll is not looked at again.               *)
DoneOnceThen(q) ==
    /\ watchq' = q
    /\ polling' = FALSE /\ repoll' = FALSE
    /\ UNCHANGED ioq

(* PollDone, called by the poll itself or by a connection that is refused.   *)
DoneThen(q) ==
    /\ watchq' = IF repoll THEN Append(q, Task("Poll")) ELSE q
    /\ polling' = repoll
    /\ repoll' = FALSE
    /\ UNCHANGED ioq

(* Poll: the time of the cookie is that of its last access, so that reading  *)
(* it may make it as young as a port written after it.                       *)
PollThen(q) ==
    LET found == watchPath /\ files.cookie # 0 /\ files.port # 0
    IN /\ \E accessed \in BOOLEAN :
              fresh' = (fresh \/ (accessed /\ watchPath /\ files.cookie # 0))
       /\ IF found /\ fresh
          THEN /\ ioq' = Append(ioq, [op |-> "OpenControl", port |-> files.port,
                                      cookie |-> files.cookie])
               /\ watchq' = q
               /\ polling' = TRUE
               /\ UNCHANGED repoll
          ELSE DoneThen(q)

FailWatching ==
    /\ failed' = TRUE
    /\ watchq' = Tail(watchq)
    /\ UNCHANGED <<watch, ioq, fresh, watchFailures>>

(* An empty path cannot be watched; a directory may fail.                    *)
StartWatching(ok) ==
    /\ Watching("StartWatching")
    /\ IF watcher
       THEN FailWatching
       ELSE /\ UNCHANGED <<watchPath, failed>>
            /\ IF ok /\ watchPath
               THEN /\ watcher' = TRUE
                    /\ PollThen(Tail(watchq))
                    /\ UNCHANGED watchFailures
               ELSE /\ watchq' = Tail(watchq)
                    /\ IF watchPath
                       THEN /\ watchFailures < MaxWatchFailures
                            /\ watchFailures' = watchFailures + 1
                       ELSE UNCHANGED watchFailures
                    /\ UNCHANGED <<watcher, polling, repoll, ioq, fresh>>
    /\ UNCHANGED <<running, uiq, io, tors, files, hasty, drops>>

(* A bug: a poll under way is not repeated after the directory is left.      *)
StopWatchingOnly ==
    /\ Watching("StopWatching")
    /\ watchq' = Tail(watchq)
    /\ watcher' = FALSE /\ watchPath' = FALSE
    /\ UNCHANGED <<running, polling, repoll, ioq, uiq, io, world, failed, past>>

StopWatching ==
    /\ Watching("StopWatching")
    /\ watchq' = Tail(watchq)
    /\ repoll' = FALSE /\ watcher' = FALSE /\ watchPath' = FALSE
    /\ UNCHANGED <<running, polling, ioq, uiq, io, world, failed, past>>

(* The old tor is named by its file, and killed by the delegate.             *)
CheckingOldTorProcess ==
    /\ Watching("CheckingOldTorProcess")
    /\ watchq' = Tail(watchq)
    /\ uiq' = Append(uiq, Notice("OnTorControlCheckComplete",
                                IF watchPath THEN files.pid ELSE 0))
    /\ UNCHANGED <<running, watch, ioq, io, world, failed, past>>

(* A watcher that was destroyed reports no more.                             *)
WatchDirChanged ==
    /\ Watching("WatchDirChanged")
    /\ \/ /\ ~watcher
          /\ watchq' = Tail(watchq)
          /\ UNCHANGED <<watch, ioq, fresh, failed, watchFailures>>
       \/ /\ watcher /\ polling
          /\ watchq' = Tail(watchq)
          /\ repoll' = TRUE
          /\ UNCHANGED <<watchPath, watcher, polling, ioq, fresh, failed, watchFailures>>
       \/ /\ watcher /\ ~polling
          /\ IF repoll THEN FailWatching
             ELSE PollThen(Tail(watchq))
                  /\ UNCHANGED <<watchPath, watcher, failed, watchFailures>>
    /\ UNCHANGED <<running, uiq, io, tors, files, hasty, drops>>

Poll ==
    /\ Watching("Poll")
    /\ IF polling
       THEN PollThen(Tail(watchq)) /\ UNCHANGED <<watchPath, watcher, failed, watchFailures>>
       ELSE FailWatching
    /\ UNCHANGED <<running, uiq, io, tors, files, hasty, drops>>

PollDone ==
    /\ Watching("PollDone")
    /\ IF polling
       THEN /\ DoneThen(Tail(watchq))
            /\ UNCHANGED <<watchPath, watcher, fresh, failed, watchFailures>>
       ELSE FailWatching
    /\ UNCHANGED <<running, uiq, io, tors, files, hasty, drops>>

-----------------------------------------------------------------------------
(* The I/O sequence; q are its tasks after this one.                         *)
Doing(op) == ioq # << >> /\ Head(ioq).op = op

(* Subscribed(error), for each of n commands that fail.                      *)
NotSubscribed(n) ==
    /\ depth' = depth - n
    /\ present' = IF n = 0 THEN present ELSE depth - n # 0

(* Error: the callbacks are told, everything is reset, and the directory is  *)
(* polled again while the delegate has not stopped.                          *)
ErrorThen(q) ==
    /\ NotSubscribed(Cardinality({i \in DOMAIN cmdq : cmdq[i].cmd = "SETEVENTS"}))
    /\ conn' = NoConn /\ cmdq' = << >> /\ reading' = FALSE
    /\ ioq' = q
    /\ watchq' = IF running THEN Append(watchq, Task("Poll")) ELSE watchq

Error ==
    /\ Doing("Error")
    /\ ErrorThen(Tail(ioq))
    /\ UNCHANGED <<running, watch, uiq, world, failed, past>>

(* OpenControl: a socket that is there is replaced, and reading_ stays: the  *)
(* new one is then never read.                                               *)
OpenControl ==
    /\ Doing("OpenControl")
    /\ conn' = [NoConn EXCEPT !.state = "connecting", !.tor = Head(ioq).port,
                              !.cookie = Head(ioq).cookie, !.deaf = reading]
    /\ ioq' = Tail(ioq)
    /\ UNCHANGED <<running, watch, watchq, uiq, cmdq, reading, depth, present, world, failed, past>>

(* A bug: a connection that is refused ends the poll without a word.         *)
ConnectedOrNot ==
    /\ conn.state = "connecting"
    /\ IF Up(conn.tor)
       THEN /\ conn' = [conn EXCEPT !.state = "open"]
            /\ ioq' = Append(ioq, DoCmdTask("AUTHENTICATE", conn.cookie))
       ELSE /\ conn' = [conn EXCEPT !.state = "refused"]
            /\ UNCHANGED ioq
    /\ UNCHANGED <<running, watch, watchq, uiq, cmdq, reading, depth, present, world, failed, past>>

Connected ==
    /\ conn.state = "connecting"
    /\ \/ /\ Up(conn.tor)
          /\ conn' = [conn EXCEPT !.state = "open"]
          /\ ioq' = Append(ioq, DoCmdTask("AUTHENTICATE", conn.cookie))
          /\ UNCHANGED watchq
       \/ /\ ~Up(conn.tor)
          /\ conn' = [conn EXCEPT !.state = "refused"]
          /\ watchq' = Append(watchq, Task("PollDone"))
          /\ UNCHANGED ioq
    /\ UNCHANGED <<running, watch, uiq, cmdq, reading, depth, present, world, failed, past>>

(* DoCmd: after a write that fails, Error has reset the socket DoReads uses. *)
DoCmd ==
    /\ Doing("DoCmd")
    /\ ioq' = Tail(ioq)
    /\ \/ /\ conn.state = "none"
          /\ NotSubscribed(IF Head(ioq).cmd = "SETEVENTS" THEN 1 ELSE 0)
          /\ UNCHANGED <<conn, cmdq, reading, failed>>
       \/ /\ conn.state = "open"
          /\ cmdq' = Append(cmdq, [cmd |-> Head(ioq).cmd, cookie |-> Head(ioq).cookie])
          /\ reading' = TRUE
          /\ conn' = [conn EXCEPT !.deaf = reading /\ conn.deaf]
          /\ UNCHANGED <<depth, present, failed>>
       \/ /\ conn.state \in {"connecting", "refused"} \/ conn.closed
          /\ failed' = TRUE
          /\ UNCHANGED <<conn, cmdq, reading, depth, present>>
    /\ UNCHANGED <<running, watch, watchq, uiq, world, past>>

(* A bug: the subscription is counted before the count is looked at.         *)
DoSubscribeCounted ==
    /\ Doing("DoSubscribe")
    /\ depth' = depth + 1
    /\ ioq' = IF depth' = 0 THEN Append(Tail(ioq), DoCmdTask("SETEVENTS", 0)) ELSE Tail(ioq)
    /\ present' = TRUE
    /\ UNCHANGED <<running, watch, watchq, uiq, conn, cmdq, reading, world, failed, past>>

DoSubscribe ==
    /\ Doing("DoSubscribe")
    /\ IF depth # 0
       THEN depth' = depth + 1 /\ ioq' = Tail(ioq)
       ELSE depth' = 1 /\ ioq' = Append(Tail(ioq), DoCmdTask("SETEVENTS", 0))
    /\ present' = TRUE
    /\ UNCHANGED <<running, watch, watchq, uiq, conn, cmdq, reading, world, failed, past>>

CanRead == conn.state = "open" /\ reading /\ ~conn.deaf

(* ReadLine, the final line of a reply. tor closes a connection that is not  *)
(* authenticated. Reading stops when nothing more is expected.               *)
ReadReply ==
    /\ CanRead /\ ~conn.closed
    /\ cmdq # << >>
    /\ cmdq' = Tail(cmdq)
    /\ LET c == Head(cmdq)
           ok == IF c.cmd = "AUTHENTICATE" THEN c.cookie = conn.tor ELSE conn.authed
       IN /\ conn' = [conn EXCEPT !.authed = @ \/ (ok /\ c.cmd = "AUTHENTICATE"),
                                  !.subscribed = @ \/ (ok /\ c.cmd = "SETEVENTS"),
                                  !.closed = ~ok]
          /\ uiq' = CASE ok /\ c.cmd = "AUTHENTICATE" ->
                             Append(uiq, Notice("OnTorControlReady", conn.tor))
                      [] ok /\ c.cmd = "GETINFO" ->
                             Append(uiq, Notice("GotSOCKSListeners", conn.tor))
                      [] OTHER -> uiq
          /\ NotSubscribed(IF c.cmd = "SETEVENTS" /\ ~ok THEN 1 ELSE 0)
    /\ reading' = (cmdq' # << >> \/ present')
    /\ UNCHANGED <<running, watch, watchq, ioq, world, failed, past>>

(* ReadDone of a connection tor has closed.                                  *)
ReadClosed ==
    /\ CanRead /\ conn.closed
    /\ ErrorThen(ioq)
    /\ UNCHANGED <<running, watch, uiq, world, failed, past>>

-----------------------------------------------------------------------------
(* tor, an external program: it writes its port, its pid and its cookie, and *)
(* establishes a circuit, of which it tells who is subscribed.               *)
TorWrites(g, f) ==
    /\ <<tors[g], f>> \in {<<"up", "port">>, <<"port", "pid">>, <<"pid", "cookie">>}
    /\ tors' = [tors EXCEPT ![g] = f]
    /\ files' = [files EXCEPT ![f] = g]
    /\ fresh' = CASE f = "port" -> FALSE [] f = "cookie" -> TRUE [] OTHER -> fresh
    /\ watchq' = IF watcher /\ Task("WatchDirChanged") \notin {watchq[i] : i \in DOMAIN watchq}
                 THEN Append(watchq, Task("WatchDirChanged")) ELSE watchq
    /\ UNCHANGED <<running, watch, ioq, uiq, io, failed, past>>

TorEstablishesCircuit(g) ==
    /\ tors[g] = "cookie"
    /\ tors' = [tors EXCEPT ![g] = "circuit"]
    /\ uiq' = IF conn.tor = g /\ conn.subscribed /\ ~conn.closed /\ CanRead /\ present
              THEN Append(uiq, Notice("OnTorEvent", g)) ELSE uiq
    /\ UNCHANGED <<running, watch, watchq, ioq, io, files, fresh, failed, past>>

(* What an event from outside may find under way: the tasks of a stop, a     *)
(* poll that may end in a connection, commands to tor; or that it runs.      *)
Tasks(q) == {q[i].op : i \in DOMAIN q}
When(what, is) == IF is THEN {what} ELSE {}
ControlUnderWay ==
    When("stop", "StopWatching" \in Tasks(watchq) \/ "Error" \in Tasks(ioq))
        \cup When("poll", \/ Tasks(watchq) \cap {"StartWatching", "WatchDirChanged", "Poll"} # {}
                          \/ "OpenControl" \in Tasks(ioq)
                          \/ conn.state \in {"connecting", "refused"})
        \cup When("command", \/ Tasks(ioq) \cap {"DoCmd", "DoSubscribe"} # {}
                             \/ "OnTorControlReady" \in Tasks(uiq))
        \cup When("running", running)

(* The pairs that may end in an assertion: TLC finds one that fails when any *)
(* of them is left out.                                                      *)
Hazardous ==
    {"LaunchTorProcess"} \X {"stop", "launch", "relaunch", "end", "running"}
        \cup {"TorCrashes", "TorCloses", "TorEnds", "LauncherCrashes"} \X {"command"}
        \cup {"RelaunchTor"} \X {"stop", "poll"}
        \cup {<<"KillTorProcess", "poll">>}
Comes(event, found) == hasty' = (hasty \/ \E what \in found : <<event, what>> \in Hazardous)

TorCloses ==
    /\ conn.state = "open" /\ ~conn.closed
    /\ drops < MaxDrops
    /\ Comes("TorCloses", ControlUnderWay)
    /\ drops' = drops + 1
    /\ conn' = [conn EXCEPT !.closed = TRUE]
    /\ UNCHANGED <<running, watch, watchq, ioq, uiq, cmdq, reading, depth, present, world, failed,
                   watchFailures>>

(* The end of a set of processes, and of the connection to one of them.      *)
Dies(gs) ==
    /\ tors' = [g \in Tors |-> IF g \in gs THEN "dead" ELSE tors[g]]
    /\ conn' = [conn EXCEPT !.closed = @ \/ (conn.state = "open" /\ conn.tor \in gs)]

ControlNext ==
    \/ \E ok \in BOOLEAN : StartWatching(ok)
    \/ StopWatching
    \/ CheckingOldTorProcess
    \/ WatchDirChanged
    \/ Poll
    \/ PollDone
    \/ Error
    \/ OpenControl
    \/ Connected
    \/ DoCmd
    \/ DoSubscribe
    \/ ReadReply
    \/ ReadClosed
    \/ \E g \in Tors, f \in {"pid", "port", "cookie"} : TorWrites(g, f)
    \/ \E g \in Tors : TorEstablishesCircuit(g)
    \/ TorCloses

=============================================================================
