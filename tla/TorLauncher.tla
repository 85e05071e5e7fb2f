---------------------------- MODULE TorLauncher -----------------------------
(* The Tor window of the browser: TorLauncherFactory                         *)
(* (src/components/tor/tor_launcher_factory.cc), which launches tor through  *)
(* a process of its own (src/components/services/tor/tor_launcher_impl.cc),  *)
(* relaunches it when it dies and follows it through TorControl.             *)
EXTENDS TorControl

CONSTANTS
    MaxLaunches,        \* bounds: Tor windows opened,
    MaxKills,           \*   and closed,
    MaxTorCrashes,      \*   deaths of tor,
    MaxLauncherCrashes, \*   deaths of the process that launches it,
    MaxLaunchFailures   \*   launches that fail

ASSUME TorLauncherConstants ==
    {MaxLaunches, MaxKills, MaxTorCrashes, MaxLauncherCrashes, MaxLaunchFailures} \subseteq Nat

VARIABLES
    isStarting,     \* is_starting_
    isConnected,    \* is_connected_
    torPid,         \* tor_pid_, or 0
    proxy,          \* whose SOCKS listener tor_proxy_uri_ names, or 0
    launcher,       \* tor_launcher_: "none", or bound to a process that is "up",
                    \* or died, before and after the handler ran: "down", "dead"
    launching,      \* Launch messages to it
    mojo,           \* its answers
    children,       \* its tors
    doomed,         \* tors being terminated
    relaunch,       \* RelaunchTor tasks delayed by a second
    wanted,         \* the user has a Tor window
    launches, kills, torCrashes, launcherCrashes, launchFailures

counters == <<launches, kills, torCrashes, launcherCrashes, launchFailures>>
factory == <<isStarting, isConnected, torPid, proxy>>
process == <<launcher, launching, mojo, children, doomed>>
launcherVars == <<factory, process, relaunch, wanted, counters>>
vars == <<controlVars, launcherVars>>

Init ==
    /\ ControlInit
    /\ isStarting = FALSE /\ isConnected = FALSE /\ torPid = 0 /\ proxy = 0
    /\ launcher = "none" /\ launching = 0 /\ mojo = << >>
    /\ children = {} /\ doomed = {}
    /\ relaunch = 0
    /\ wanted = FALSE
    /\ launches = 0 /\ kills = 0 /\ torCrashes = 0 /\ launcherCrashes = 0 /\ launchFailures = 0

-----------------------------------------------------------------------------
(* What else may be under way: a launch, a relaunch, the end of a tor.       *)
UnderWay ==
    ControlUnderWay
        \cup When("launch", \/ launching > 0 \/ mojo # << >>
                            \/ "CheckingOldTorProcess" \in Tasks(watchq)
                            \/ "OnTorControlCheckComplete" \in Tasks(uiq)
                            \/ \E g \in children : tors[g] \in {"up", "port", "pid"})
        \cup When("relaunch", relaunch > 0)
        \cup When("end", \E g \in Tors : Up(g) /\ g \notin children)

Bound == launcher # "none"

(* OnExecutableReady, LaunchTor, LaunchTorProcess: a launch under way is not *)
(* repeated. Init launches the process when none is bound.                   *)
LaunchTorProcess ==
    /\ torPid = 0
    /\ launches < MaxLaunches
    /\ Comes("LaunchTorProcess", UnderWay)
    /\ launches' = launches + 1
    /\ wanted' = TRUE
    /\ IF isStarting
       THEN UNCHANGED <<watch, watchq, isStarting, launcher>>
       ELSE /\ isStarting' = TRUE
            /\ launcher' = IF Bound THEN launcher ELSE "up"
            /\ PreStartCheck
    /\ UNCHANGED <<running, ioq, uiq, io, world, failed, drops, watchFailures, isConnected, torPid,
                   proxy, launching, mojo, children, doomed, relaunch, kills, torCrashes,
                   launcherCrashes, launchFailures>>

(* A bug: the process is forgotten, and not told to shut down.               *)
KillOnly ==
    /\ Stop
    /\ UNCHANGED <<children, doomed>>
    /\ launcher' = "none" /\ launching' = 0 /\ mojo' = << >>
    /\ torPid' = 0
    /\ isConnected' = FALSE

(* A bug: the tor that was killed is still named.                            *)
KillKeepsPid ==
    /\ Stop
    /\ doomed' = doomed \cup children /\ children' = {}
    /\ launcher' = "none" /\ launching' = 0 /\ mojo' = << >>
    /\ UNCHANGED torPid
    /\ isConnected' = FALSE

(* KillTorProcess: the process is told to shut down, which terminates its    *)
(* tor, and is forgotten with what it has not answered yet.                  *)
Kill ==
    /\ Stop
    /\ doomed' = doomed \cup children /\ children' = {}
    /\ launcher' = "none" /\ launching' = 0 /\ mojo' = << >>
    /\ torPid' = 0
    /\ isConnected' = FALSE

(* OnBrowserRemoved, KillTor: the last Tor window is closed.                 *)
KillTorProcess ==
    /\ wanted
    /\ kills < MaxKills
    /\ Comes("KillTorProcess", UnderWay)
    /\ kills' = kills + 1
    /\ wanted' = FALSE
    /\ Kill
    /\ UNCHANGED <<watch, uiq, conn, cmdq, reading, world, failed, drops, watchFailures, isStarting,
                   proxy, relaunch, launches, torCrashes, launcherCrashes, launchFailures>>

(* The tasks of the UI sequence; q are those after this one.                 *)
Notified(op) == uiq # << >> /\ Head(uiq).op = op /\ uiq' = Tail(uiq)
quiet == <<running, watch, watchq, failed, past>>

(* OnTorCleanupNeeded, KillOldTorProcess, OnTorControlCheckComplete: two     *)
(* tasks posted together.                                                    *)
OnTorControlCheckComplete ==
    /\ Notified("OnTorControlCheckComplete")
    /\ doomed' = doomed \cup {g \in {Head(uiq).tor} \ {0} : Up(g)}
    /\ launching' = IF launcher = "up" THEN launching + 1 ELSE launching
    /\ isStarting' = (isStarting /\ Bound)
    /\ UNCHANGED <<quiet, ioq, io, world, isConnected, torPid, proxy, launcher, mojo, children,
                   relaunch, wanted, counters>>

OnTorControlReady ==
    /\ Notified("OnTorControlReady")
    /\ ioq' = ioq \o <<DoCmdTask("GETINFO", 0), Task("DoSubscribe")>>
    /\ UNCHANGED <<quiet, io, world, launcherVars>>

GotSOCKSListeners ==
    /\ Notified("GotSOCKSListeners")
    /\ proxy' = Head(uiq).tor
    /\ UNCHANGED <<quiet, ioq, io, world, isStarting, isConnected, torPid, process, relaunch,
                   wanted, counters>>

(* OnTorEvent, of a circuit.                                                 *)
OnTorEvent ==
    /\ Notified("OnTorEvent")
    /\ isConnected' = TRUE
    /\ UNCHANGED <<quiet, ioq, io, world, isStarting, torPid, proxy, process, relaunch, wanted,
                   counters>>

-----------------------------------------------------------------------------
(* The process: Launch starts another tor.                                   *)
Born == CHOOSE g \in Tors : tors[g] = "none" /\ \A h \in 1 .. g - 1 : tors[h] # "none"

Launch(ok) ==
    /\ launcher = "up"
    /\ launching > 0
    /\ launching' = launching - 1
    /\ IF ok
       THEN /\ \E g \in Tors : tors[g] = "none"
            /\ tors' = [tors EXCEPT ![Born] = "up"]
            /\ children' = children \cup {Born}
            /\ mojo' = Append(mojo, [op |-> "OnTorLaunched", result |-> TRUE, tor |-> Born])
            /\ UNCHANGED launchFailures
       ELSE /\ launchFailures < MaxLaunchFailures
            /\ launchFailures' = launchFailures + 1
            /\ mojo' = Append(mojo, [op |-> "OnTorLaunched", result |-> FALSE, tor |-> 0])
            /\ UNCHANGED <<tors, children>>
    /\ UNCHANGED <<running, watch, watchq, ioq, uiq, io, files, fresh, failed, past,
                   factory, launcher, doomed, relaunch, wanted, launches, kills, torCrashes,
                   launcherCrashes>>

(* A tor dies by itself; MonitorChild tells the crash handler.               *)
TorCrashes(g) ==
    /\ Up(g) /\ g \notin doomed
    /\ torCrashes < MaxTorCrashes
    /\ Comes("TorCrashes", UnderWay)
    /\ torCrashes' = torCrashes + 1
    /\ Dies({g})
    /\ children' = children \ {g}
    /\ mojo' = IF g \in children
               THEN Append(mojo, [op |-> "OnTorCrashed", tor |-> g]) ELSE mojo
    /\ UNCHANGED <<running, watch, watchq, ioq, uiq, cmdq, reading, depth, present, files, fresh,
                   failed, drops, watchFailures, factory, launcher, launching, doomed, relaunch,
                   wanted, launches, kills, launcherCrashes, launchFailures>>

(* A tor that was terminated ends.                                           *)
TorEnds(g) ==
    /\ g \in doomed /\ Up(g)
    /\ Comes("TorEnds", UnderWay)
    /\ Dies({g})
    /\ UNCHANGED <<running, watch, watchq, ioq, uiq, cmdq, reading, depth, present, files, fresh,
                   failed, drops, watchFailures, launcherVars>>

(* The process dies, and its tor with it or not (kill_on_parent_death).      *)
LauncherCrashes(kills_children) ==
    /\ launcher = "up"
    /\ launcherCrashes < MaxLauncherCrashes
    /\ Comes("LauncherCrashes", UnderWay)
    /\ launcherCrashes' = launcherCrashes + 1
    /\ launcher' = "down" /\ launching' = 0 /\ children' = {}
    /\ Dies(IF kills_children THEN {g \in children : Up(g)} ELSE {})
    /\ UNCHANGED <<running, watch, watchq, ioq, uiq, cmdq, reading, depth, present, files, fresh,
                   failed, drops, watchFailures, factory, mojo, doomed, relaunch, wanted,
                   launches, kills, torCrashes, launchFailures>>

Answered(op) == mojo # << >> /\ Head(mojo).op = op

(* OnTorLaunched: the control is started even when tor was not launched.     *)
OnTorLaunched ==
    /\ Answered("OnTorLaunched")
    /\ mojo' = Tail(mojo)
    /\ IF Head(mojo).result
       THEN isStarting' = FALSE /\ isConnected' = FALSE /\ torPid' = Head(mojo).tor
       ELSE UNCHANGED <<isStarting, isConnected, torPid>>
    /\ StartControl
    /\ UNCHANGED <<watch, ioq, uiq, io, world, past, proxy, launcher,
                   launching, children, doomed, relaunch, wanted, counters>>

OnTorCrashed ==
    /\ Answered("OnTorCrashed")
    /\ isStarting' = FALSE
    /\ Kill
    /\ relaunch' = relaunch + 1
    /\ UNCHANGED <<watch, uiq, conn, cmdq, reading, world, failed, past, proxy,
                   wanted, counters>>

OnTorLauncherCrashed ==
    /\ launcher = "down" /\ mojo = << >>
    /\ launcher' = "dead"
    /\ isStarting' = FALSE
    /\ UNCHANGED <<quiet, ioq, uiq, io, world, isConnected, torPid, proxy, launching, mojo,
                   children, doomed, relaunch, wanted, counters>>

(* RelaunchTor, which asserts that no process is bound.                      *)
RelaunchTor ==
    /\ relaunch > 0
    /\ Comes("RelaunchTor", UnderWay)
    /\ relaunch' = relaunch - 1
    /\ failed' = Bound
    /\ launcher' = "up"
    /\ PreStartCheck
    /\ UNCHANGED <<running, ioq, uiq, io, world, drops, watchFailures, factory, launching, mojo,
                   children, doomed, wanted, counters>>

Next ==
    /\ ~failed
    /\ \/ ControlNext /\ UNCHANGED launcherVars
       \/ LaunchTorProcess
       \/ KillTorProcess
       \/ OnTorControlCheckComplete
       \/ OnTorControlReady
       \/ GotSOCKSListeners
       \/ OnTorEvent
       \/ \E ok \in BOOLEAN : Launch(ok)
       \/ \E g \in Tors : TorCrashes(g)
       \/ \E g \in Tors : TorEnds(g)
       \/ \E k \in BOOLEAN : LauncherCrashes(k)
       \/ OnTorLaunched
       \/ OnTorCrashed
       \/ OnTorLauncherCrashed
       \/ RelaunchTor

Spec == Init /\ [][Next]_vars

(* Every task that is posted runs, in its order; the processes answer and a  *)
(* tor that starts writes its files. Nothing makes a process die.            *)
Fairness ==
    /\ WF_vars(~failed /\ UNCHANGED launcherVars /\
               ((\E ok \in BOOLEAN : StartWatching(ok)) \/ StopWatching \/ CheckingOldTorProcess
                    \/ WatchDirChanged \/ Poll \/ PollDone))
    /\ WF_vars(~failed /\ UNCHANGED launcherVars /\ (Error \/ OpenControl \/ DoCmd \/ DoSubscribe))
    /\ WF_vars(~failed /\ UNCHANGED launcherVars /\ Connected)
    /\ WF_vars(~failed /\ UNCHANGED launcherVars /\ (ReadReply \/ ReadClosed))
    /\ WF_vars(~failed /\ UNCHANGED launcherVars /\
               \E g \in Tors, f \in {"pid", "port", "cookie"} : TorWrites(g, f))
    /\ WF_vars(~failed /\ (OnTorControlCheckComplete \/ OnTorControlReady \/ GotSOCKSListeners
                               \/ OnTorEvent))
    /\ WF_vars(~failed /\ \E ok \in BOOLEAN : Launch(ok))
    /\ WF_vars(~failed /\ (OnTorLaunched \/ OnTorCrashed \/ OnTorLauncherCrashed))
    /\ WF_vars(~failed /\ \E g \in Tors : TorEnds(g))
    /\ WF_vars(~failed /\ RelaunchTor)
FairSpec == Spec /\ Fairness

-----------------------------------------------------------------------------
(* The type invariant. No command waits for an answer without a socket, and  *)
(* a socket is one to some tor (Error and OpenControl reset them together).  *)
TypeOK ==
    /\ {running, watchPath, watcher, polling, repoll, reading, present} \subseteq BOOLEAN
    /\ {isStarting, isConnected, wanted, fresh, failed, hasty} \subseteq BOOLEAN
    /\ conn.state \in {"none", "connecting", "refused", "open"}
    /\ conn.state = "none" => conn = NoConn /\ cmdq = << >>
    /\ conn.state # "none" => conn.tor \in Tors
    /\ depth \in Int
    /\ tors \in [Tors -> {"none", "up", "port", "pid", "cookie", "circuit", "dead"}]
    /\ files \in [{"pid", "port", "cookie"} -> Tors \cup {0}]
    /\ torPid \in Tors \cup {0} /\ proxy \in Tors \cup {0}
    /\ launcher \in {"none", "up", "down", "dead"}
    /\ {launching, relaunch} \subseteq Nat
    /\ children \subseteq Tors /\ doomed \subseteq Tors

(* No assertion of the code fails, and no command is sent on a socket that   *)
(* is not there, while every event from outside comes when nothing it upsets *)
(* (Hazardous) is under way. The assertions are those of Start, of           *)
(* StartWatching, WatchDirChanged, Poll and PollDone, and that of Init of a  *)
(* process that is bound.                                                    *)
AssertionsHold == failed => hasty

(* After Stop, when the tasks it posted have run, the directory is not       *)
(* watched and no connection is open: what a poll under way found before     *)
(* the stop does not come back to life after it.                             *)
Quiet == watchq = << >> /\ ioq = << >>
StoppedIsClosed == ~running /\ Quiet => hasty \/ (~watcher /\ conn.state # "open")

(* polling_ has exactly one owner when it is set, and none when it is not: a *)
(* task that will look at the directory, one that will connect, or the       *)
(* connection whose end (Error) polls again. With none the directory is      *)
(* never looked at again, with two PollDone asserts.                         *)
Owners == Cardinality({i \in DOMAIN watchq : watchq[i].op \in {"Poll", "PollDone"}})
        + Cardinality({i \in DOMAIN ioq : ioq[i].op = "OpenControl"})
        + (IF conn.state \in {"connecting", "open"} THEN 1 ELSE 0)
PollingHasOwner == running /\ watcher => hasty \/ Owners = IF polling THEN 1 ELSE 0

(* The connection and its commands agree, and polling_ has one owner.        *)
ControlConsistent == TypeOK /\ PollingHasOwner

(* The launcher never runs two tors, whatever kills, crashes and relaunches  *)
(* came before.                                                              *)
OneTor == hasty \/ Cardinality(children) <= 1

(* A tor the factory names (tor_pid_) is running, or its death is on its way *)
(* to the factory, or the launcher has died, which leaves tor_pid_ as it is. *)
PidIsLive ==
    torPid # 0 => \/ hasty
                  \/ torPid \in children
                  \/ \E i \in DOMAIN mojo : mojo[i] = [op |-> "OnTorCrashed", tor |-> torPid]
                  \/ launcher \in {"down", "dead"}

(* No tor is run beside another, or believed to run when it does not.        *)
TorAccountedFor == OneTor /\ PidIsLive

(* The SOCKS listener of a tor that was launched is found while it lives,    *)
(* whatever connections were refused or closed before, and whenever its      *)
(* files were written. It is not when the directory could not be watched, or *)
(* when tor refused the cookie (of the tor before it): that connection is    *)
(* never read again and its end not noticed.                                 *)
AuthFailed == conn.closed /\ ~conn.authed
ProxyIsFound ==
    \A g \in Tors :
        torPid = g ~> \/ proxy = g \/ torPid # g \/ ~Up(g)
                      \/ AuthFailed \/ watchFailures > 0 \/ hasty

(* A connection tor has accepted, the first with a subscription, is          *)
(* subscribed to its events while it lasts. A later one is not (depth > 1):  *)
(* the subscription is only counted.                                         *)
EventsAsked ==
    conn.authed /\ depth = 1 ~> conn.subscribed \/ ~conn.authed \/ depth > 1 \/ hasty

(* When the last Tor window is closed every tor ends, launched already or    *)
(* still being launched. One that outlives its launcher does not, nor one    *)
(* that is relaunched after a crash.                                         *)
ClosedEnds ==
    ~wanted ~> (\A g \in Tors : ~Up(g)) \/ wanted \/ launcherCrashes + torCrashes > 0 \/ hasty

=============================================================================
