----------------------------- MODULE AdsService -----------------------------
(* The browser side of Brave Ads, AdsServiceImpl                             *)
(* (src/components/brave_ads/browser/ads_service_impl.cc): it starts a       *)
(* service process when ads are enabled, shuts it down when they are         *)
(* disabled and starts another one when it dies. Starting takes four         *)
(* callbacks, stopping one, and the setting may change between any of them.  *)
(*                                                                           *)
(* The process (src/components/services/bat_ads) handles the messages of the *)
(* browser in their order, and answers in its own.                           *)
(*                                                                           *)
(* `failed` is the end of one of the two processes by an assertion, or by a  *)
(* call on a remote that is not bound: the program modelled is the one built *)
(* with assertions (DCHECK).                                                 *)
EXTENDS Naturals, Sequences, SequencesExt, FiniteSets

CONSTANTS
    MaxToggles,     \* bounds: changes of the setting,
    MaxChanges,     \*   changes of the wallet and resets of the rewards,
    MaxCrashes,     \*   deaths of the service process,
    MaxFailures,    \*   initializations and file operations that fail
    Notifications   \* the ad notifications shown, by uuid

(* Messages to the process, and the callbacks its answers are for.           *)
Messages == {"Configure", "Create", "Initialize", "Shutdown", "ShutdownAndReset"}
Answers == {"OnCreate", "OnInitialize", "OnShutdownBatAds", "OnShutdownAndResetBatAds"}

(* A notification stands for the message that asks for it, and the answer.   *)
ASSUME AdsConstants ==
    /\ {MaxToggles, MaxChanges, MaxCrashes, MaxFailures} \subseteq Nat
    /\ IsFiniteSet(Notifications)
    /\ Notifications \cap (Messages \cup Answers \cup {""}) = {}

VARIABLES
    enabled,        \* brave.brave_ads.enabled
    watching,       \* "migrating", then whether the prefs are watched: "yes", "no"
    service,        \* bat_ads_service_: not bound ("none"), to a running process
                    \* ("up"), to one that died, before and after the handler ran
    connected,      \* bat_ads_, the client's receiver and the observers are there
    initialized,    \* is_initialized_
    starting,       \* callbacks under way that end in a connection, by name
    wallet,         \* OnGetBraveWallet callbacks under way
    requests,       \* messages to the process
    replies,        \* answers of the process
    ads,            \* AdsImpl in the process
    handler,        \* AdsNotificationHandler knows the service
    pending,        \* its notifications clicked before
    retry,          \* retry_viewing_ad_notification_with_uuid_, or ""
    clicked,        \* notifications clicked
    opened,         \* notifications whose page was opened in a tab
    failed,
    hasty,          \* what was ever overlapped (see UnderWay), or went wrong
    toggles, changes, crashes, failures

vars == <<enabled, watching, service, connected, initialized, starting, wallet,
          requests, replies, ads, handler, pending, retry, clicked, opened,
          failed, hasty, toggles, changes, crashes, failures>>

counters == <<toggles, changes, crashes, failures>>
clicks == <<handler, pending, retry, clicked, opened>>

Callbacks == {"Start", "OnGetHardwareInfo", "OnEnsureBaseDirectoryExists"}

Init ==
    /\ enabled \in BOOLEAN
    /\ watching = "migrating"
    /\ service = "none"
    /\ connected = FALSE
    /\ initialized = FALSE
    /\ starting = [c \in Callbacks |-> 0]
    /\ wallet = 0
    /\ requests = << >> /\ replies = << >>
    /\ ads = "none"
    /\ handler = FALSE /\ pending = {} /\ retry = ""
    /\ clicked = {} /\ opened = {}
    /\ failed = FALSE
    /\ hasty = {}
    /\ toggles = 0 /\ changes = 0 /\ crashes = 0 /\ failures = 0

-----------------------------------------------------------------------------
(* What a change of the setting, a reset or a crash may find under way.      *)
Starting == (\E c \in Callbacks : starting[c] > 0) \/ (connected /\ ~initialized)
Stopping ==
    \/ \E i \in DOMAIN requests : requests[i] \in {"Shutdown", "ShutdownAndReset"}
    \/ \E i \in DOMAIN replies : replies[i].to \in {"OnShutdownBatAds", "OnShutdownAndResetBatAds"}
UnderWay ==
    (IF Starting THEN {"start"} ELSE {}) \cup (IF Stopping THEN {"stop"} ELSE {})
        \cup (IF wallet > 0 THEN {"wallet"} ELSE {}) \cup (IF service = "down" THEN {"crash"} ELSE {})

(* Messages to a process that has died are lost.                             *)
Sent(q, m) == IF service = "up" THEN Append(q, m) ELSE q

After(c, n) == [starting EXCEPT ![c] = @ + n]
Moved(c, d) == [starting EXCEPT ![c] = @ - 1, ![d] = @ + 1]

(* A bug: is_initialized_ keeps its value.                                   *)
DisconnectedInitialized ==
    /\ connected' = FALSE
    /\ replies' = << >>
    /\ UNCHANGED initialized

(* Shutdown: everything that is bound is reset; answers still under way are  *)
(* dropped, the callbacks of a start are not.                                *)
Disconnected ==
    /\ connected' = FALSE
    /\ initialized' = FALSE
    /\ replies' = << >>

(* StartService: a process is launched unless the remote is bound, and told  *)
(* its environment.                                                          *)
Launched ==
    /\ ~connected
    /\ failed' = failed
    /\ IF service = "none"
       THEN /\ service' = "up" /\ ads' = "none"
            /\ requests' = <<"Configure">>
       ELSE /\ requests' = Sent(requests, "Configure")
            /\ UNCHANGED <<service, ads>>
    /\ UNCHANGED <<connected, initialized, replies>>

(* A bug: a setting that is off leaves the service as it is.                 *)
MaybeStartOnly(e) ==
    \/ /\ ~e
       /\ UNCHANGED <<service, connected, initialized, requests, replies, ads, starting, failed>>
    \/ /\ e
       /\ Launched
       /\ starting' = After("OnGetHardwareInfo", 1)

(* MaybeStart(false), with the setting e. An assertion requires that the     *)
(* service is not connected.                                                 *)
MaybeStart(e) ==
    \/ /\ ~e                                            \* Stop, ShutdownBatAds
       /\ requests' = IF connected THEN Sent(requests, "Shutdown") ELSE requests
       /\ UNCHANGED <<service, connected, initialized, replies, ads, starting, failed>>
    \/ /\ e
       /\ Launched
       /\ starting' = After("OnGetHardwareInfo", 1)
    \/ /\ e /\ connected
       /\ failed' = TRUE
       /\ UNCHANGED <<service, connected, initialized, requests, replies, ads, starting>>

(* OnMigrateConfirmationsState, Initialize: the prefs are watched from here. *)
OnMigrateConfirmationsState(success) ==
    /\ watching = "migrating"
    /\ watching' = IF success THEN "yes" ELSE "no"
    /\ IF success
       THEN MaybeStart(enabled)
       ELSE UNCHANGED <<service, connected, initialized, requests, replies, ads, starting, failed>>
    /\ UNCHANGED <<enabled, wallet, clicks, hasty, counters>>

(* SetEnabled, and OnPrefsChanged for kEnabled when the prefs are watched.   *)
SetEnabled ==
    /\ toggles < MaxToggles
    /\ toggles' = toggles + 1
    /\ enabled' = ~enabled
    /\ hasty' = hasty \cup UnderWay
    /\ IF watching = "yes"
       THEN MaybeStart(~enabled)
       ELSE UNCHANGED <<service, connected, initialized, requests, replies, ads, starting, failed>>
    /\ UNCHANGED <<watching, wallet, clicks, changes, crashes, failures>>

(* OnPrefsChanged for kWalletBrave: OnWalletUpdated asks for the wallet.      *)
OnWalletUpdated ==
    /\ watching = "yes"
    /\ changes < MaxChanges
    /\ changes' = changes + 1
    /\ wallet' = IF connected THEN wallet + 1 ELSE wallet
    /\ hasty' = hasty \cup IF UnderWay \cap {"stop", "crash"} # {} THEN {"question"} ELSE {}
    /\ UNCHANGED <<enabled, watching, service, connected, initialized, starting, requests,
                   replies, ads, clicks, failed, toggles, crashes, failures>>

(* ResetAllState(true): ResetState, now or after the shutdown, clears the    *)
(* setting without notice to OnPrefsChanged.                                 *)
ResetAllState ==
    /\ changes < MaxChanges
    /\ changes' = changes + 1
    /\ hasty' = hasty \cup UnderWay
    /\ IF connected
       THEN requests' = Sent(requests, "ShutdownAndReset") /\ UNCHANGED enabled
       ELSE enabled' = FALSE /\ UNCHANGED requests
    /\ UNCHANGED <<watching, service, connected, initialized, starting, wallet, replies, ads,
                   clicks, failed, toggles, crashes, failures>>

(* A bug: the restart does not reset what is bound.                          *)
OnDisconnectBound ==
    /\ service = "down"
    /\ replies = << >>
    /\ enabled
    /\ service' = "up" /\ ads' = "none" /\ requests' = <<"Configure">>
    /\ starting' = After("Start", 1)
    /\ UNCHANGED <<enabled, watching, connected, initialized, replies, wallet, clicks, failed,
                   hasty, counters>>

(* A bug: the restart launches a process and never starts the ads in it.     *)
OnDisconnectUnstarted ==
    /\ service = "down"
    /\ replies = << >>
    /\ enabled
    /\ Disconnected
    /\ service' = "up" /\ ads' = "none" /\ requests' = <<"Configure">>
    /\ UNCHANGED <<enabled, watching, starting, wallet, clicks, failed, hasty, counters>>

(* The disconnect handler, MaybeStart(true): Shutdown, another process, and  *)
(* a start in a second. While disabled the dead process stays bound.         *)
OnDisconnect ==
    /\ service = "down"
    /\ replies = << >>
    /\ IF enabled
       THEN /\ Disconnected
            /\ service' = "up" /\ ads' = "none" /\ requests' = <<"Configure">>
            /\ starting' = After("Start", 1)
       ELSE /\ service' = "dead"
            /\ UNCHANGED <<connected, initialized, starting, requests, replies, ads>>
    /\ UNCHANGED <<enabled, watching, wallet, clicks, failed, hasty, counters>>

(* Start, GetHardwareInfo.                                                   *)
Start ==
    /\ starting["Start"] > 0
    /\ starting' = Moved("Start", "OnGetHardwareInfo")
    /\ UNCHANGED <<enabled, watching, service, connected, initialized, wallet, requests,
                   replies, ads, clicks, failed, hasty, counters>>

(* OnGetHardwareInfo, EnsureBaseDirectoryExists: on a remote that must be    *)
(* bound.                                                                    *)
OnGetHardwareInfo ==
    /\ starting["OnGetHardwareInfo"] > 0
    /\ starting' = Moved("OnGetHardwareInfo", "OnEnsureBaseDirectoryExists")
    /\ failed' = (service = "none")
    /\ requests' = Sent(requests, "Configure")
    /\ UNCHANGED <<enabled, watching, service, connected, initialized, wallet, replies, ads,
                   clicks, hasty, counters>>

(* OnEnsureBaseDirectoryExists: observers are added and endpoints bound,     *)
(* which fails when they already are; the wallet is asked for.               *)
OnEnsureBaseDirectoryExists(success) ==
    /\ starting["OnEnsureBaseDirectoryExists"] > 0
    /\ starting' = After("OnEnsureBaseDirectoryExists", 0 - 1)
    /\ IF success
       THEN /\ failed' = (connected \/ service = "none")
            /\ connected' = TRUE
            /\ requests' = Sent(requests, "Create")
            /\ wallet' = wallet + 1
            /\ UNCHANGED <<hasty, failures>>
       ELSE /\ failures < MaxFailures
            /\ failures' = failures + 1
            /\ hasty' = hasty \cup {"failure"}
            /\ UNCHANGED <<failed, connected, requests, wallet>>
    /\ UNCHANGED <<enabled, watching, service, initialized, replies, ads, clicks,
                   toggles, changes, crashes>>

(* OnGetBraveWallet: a wallet there is goes to bat_ads_, bound or not.       *)
OnGetBraveWallet(there) ==
    /\ wallet > 0
    /\ wallet' = wallet - 1
    /\ failed' = (there /\ ~connected)
    /\ UNCHANGED <<enabled, watching, service, connected, initialized, starting, requests,
                   replies, ads, clicks, hasty, counters>>

-----------------------------------------------------------------------------
(* The service process.                                                      *)
Reply(to, ok) == replies' = Append(replies, [to |-> to, ok |-> ok])

(* BatAdsServiceImpl and BatAdsImpl: an assertion requires that nothing is   *)
(* configured after Create; a shutdown fails unless AdsImpl is initialized.  *)
HandleRequest ==
    /\ service = "up"
    /\ requests # << >>
    /\ requests' = Tail(requests)
    /\ LET m == Head(requests)
       IN /\ failed' = (m = "Configure" /\ ads # "none")
          /\ ads' = CASE m = "Create" -> "created"
                      [] m = "Initialize" -> "initializing"
                      [] OTHER -> ads
          /\ CASE m = "Create" -> Reply("OnCreate", TRUE)
               [] m = "Shutdown" -> Reply("OnShutdownBatAds", ads = "initialized")
               [] m = "ShutdownAndReset" -> Reply("OnShutdownAndResetBatAds", ads = "initialized")
               [] m \in Notifications -> Reply(m, TRUE)
               [] OTHER -> UNCHANGED replies
    /\ UNCHANGED <<enabled, watching, service, connected, initialized, starting, wallet, clicks,
                   hasty, counters>>

(* AdsImpl::Initialize opens its database and loads its state.               *)
AdsInitialized(ok) ==
    /\ service = "up"
    /\ ads = "initializing"
    /\ ads' = IF ok THEN "initialized" ELSE "created"
    /\ IF ok
       THEN UNCHANGED <<hasty, failures>>
       ELSE failures < MaxFailures /\ failures' = failures + 1 /\ hasty' = hasty \cup {"failure"}
    /\ Reply("OnInitialize", ok)
    /\ UNCHANGED <<enabled, watching, service, connected, initialized, starting, wallet,
                   requests, clicks, failed, toggles, changes, crashes>>

(* The process dies: the messages it has not handled are lost.               *)
ServiceCrash ==
    /\ service = "up"
    /\ crashes < MaxCrashes
    /\ crashes' = crashes + 1
    /\ hasty' = hasty \cup UnderWay
    /\ service' = "down"
    /\ requests' = << >>
    /\ ads' = "none"
    /\ UNCHANGED <<enabled, watching, connected, initialized, starting, wallet, replies,
                   clicks, failed, toggles, changes, failures>>

-----------------------------------------------------------------------------
(* The answers of the process, in their order.                               *)
Answer(to) ==
    /\ replies # << >>
    /\ Head(replies).to = to
    /\ UNCHANGED <<watching, starting, wallet, counters>>

OnCreate ==
    /\ Answer("OnCreate")
    /\ requests' = IF connected THEN Sent(requests, "Initialize") ELSE requests
    /\ replies' = Tail(replies)
    /\ UNCHANGED <<enabled, service, connected, initialized, ads, clicks, failed, hasty>>

(* A bug: the notification kept is cleared and not viewed.                   *)
OnInitializeForgets ==
    /\ Answer("OnInitialize")
    /\ replies' = Tail(replies)
    /\ initialized' = Head(replies).ok
    /\ handler' = TRUE /\ pending' = {} /\ retry' = ""
    /\ UNCHANGED <<enabled, service, connected, requests, ads, clicked, opened, failed, hasty>>

(* OnInitialize: the handler passes on the clicks it has kept, then the one  *)
(* kept by the service is viewed.                                            *)
OnInitialize ==
    /\ Answer("OnInitialize")
    /\ replies' = Tail(replies)
    /\ initialized' = Head(replies).ok
    /\ IF Head(replies).ok
       THEN /\ handler' = TRUE /\ pending' = {} /\ retry' = ""
            /\ requests' = IF service = "up"
                           THEN requests \o SetToSeq(pending) \o SetToSeq({retry} \ {""})
                           ELSE requests
            /\ UNCHANGED <<clicked, opened>>
       ELSE UNCHANGED <<clicks, requests>>
    /\ UNCHANGED <<enabled, service, connected, ads, failed, hasty>>

(* OnShutdownBatAds, OnShutdownAndResetBatAds: the service must have been    *)
(* initialized. They do not look at the setting, which may be on again.      *)
OnShutdownBatAds(reset) ==
    /\ Answer(IF reset THEN "OnShutdownAndResetBatAds" ELSE "OnShutdownBatAds")
    /\ IF ~initialized
       THEN /\ failed' = TRUE
            /\ replies' = Tail(replies)
            /\ UNCHANGED <<enabled, service, connected, initialized, requests, ads>>
       ELSE /\ IF Head(replies).ok
               THEN /\ Disconnected
                    /\ service' = "none" /\ ads' = "none" /\ requests' = << >>
                    /\ enabled' = (enabled /\ ~reset)
               ELSE /\ replies' = Tail(replies)
                    /\ UNCHANGED <<enabled, service, connected, initialized, requests, ads>>
            /\ UNCHANGED failed
    /\ UNCHANGED <<clicks, hasty>>

(* OnViewAdNotification: the ad's page is opened.                            *)
OnViewAdNotification(n) ==
    /\ Answer(n)
    /\ opened' = opened \cup {n}
    /\ replies' = Tail(replies)
    /\ UNCHANGED <<enabled, service, connected, initialized, requests, ads, handler, pending,
                   retry, clicked, failed, hasty>>

(* A notification is clicked: the handler keeps it until it knows the        *)
(* service; ViewAdNotification keeps one until the next OnInitialize.        *)
OnClick(n) ==
    /\ n \notin clicked
    /\ clicked' = clicked \cup {n}
    /\ \/ /\ ~handler
          /\ pending' = pending \cup {n}
          /\ UNCHANGED <<retry, requests>>
       \/ /\ handler /\ ~(connected /\ initialized)
          /\ retry' = n
          /\ UNCHANGED <<pending, requests>>
       \/ /\ handler /\ connected /\ initialized
          /\ requests' = Sent(requests, n)
          /\ UNCHANGED <<pending, retry>>
    /\ UNCHANGED <<enabled, watching, service, connected, initialized, starting, wallet, replies,
                   ads, handler, opened, failed, hasty, counters>>

Next ==
    /\ ~failed
    /\ \/ \E success \in BOOLEAN : OnMigrateConfirmationsState(success)
       \/ SetEnabled
       \/ OnWalletUpdated
       \/ ResetAllState
       \/ OnDisconnect
       \/ Start
       \/ OnGetHardwareInfo
       \/ \E success \in BOOLEAN : OnEnsureBaseDirectoryExists(success)
       \/ \E there \in BOOLEAN : OnGetBraveWallet(there)
       \/ HandleRequest
       \/ \E ok \in BOOLEAN : AdsInitialized(ok)
       \/ ServiceCrash
       \/ OnCreate
       \/ OnInitialize
       \/ \E reset \in BOOLEAN : OnShutdownBatAds(reset)
       \/ \E n \in Notifications : OnViewAdNotification(n)
       \/ \E n \in Notifications : OnClick(n)

Spec == Init /\ [][Next]_vars

(* Everything posted or sent is delivered, in its order, and the process     *)
(* answers. Nothing makes the user, a crash or a failure happen.             *)
Fairness ==
    /\ WF_vars(~failed /\ \E success \in BOOLEAN : OnMigrateConfirmationsState(success))
    /\ WF_vars(~failed /\ OnDisconnect)
    /\ WF_vars(~failed /\ Start)
    /\ WF_vars(~failed /\ OnGetHardwareInfo)
    /\ WF_vars(~failed /\ \E success \in BOOLEAN : OnEnsureBaseDirectoryExists(success))
    /\ WF_vars(~failed /\ \E there \in BOOLEAN : OnGetBraveWallet(there))
    /\ WF_vars(~failed /\ HandleRequest)
    /\ WF_vars(~failed /\ \E ok \in BOOLEAN : AdsInitialized(ok))
    /\ WF_vars(~failed /\ (OnCreate \/ OnInitialize \/ (\E reset \in BOOLEAN : OnShutdownBatAds(reset))
                           \/ (\E n \in Notifications : OnViewAdNotification(n))))
FairSpec == Spec /\ Fairness

-----------------------------------------------------------------------------
(* The variables have the values their declarations describe.                *)
TypeOK ==
    /\ enabled \in BOOLEAN /\ connected \in BOOLEAN /\ initialized \in BOOLEAN
    /\ watching \in {"migrating", "yes", "no"}
    /\ service \in {"none", "up", "down", "dead"}
    /\ starting \in [Callbacks -> Nat] /\ wallet \in Nat
    /\ requests \in Seq(Messages \cup clicked)
    /\ replies \in Seq([to: Answers \cup clicked, ok: BOOLEAN])
    /\ ads \in {"none", "created", "initializing", "initialized"}
    /\ handler \in BOOLEAN /\ pending \subseteq clicked /\ retry \in clicked \cup {""}
    /\ clicked \subseteq Notifications /\ opened \subseteq clicked
    /\ failed \in BOOLEAN
    /\ hasty \subseteq {"start", "stop", "wallet", "crash", "question", "failure"}

(* No assertion fails and no call is made on an endpoint that is not bound   *)
(* (ads_service_impl.cc:394, :655, :687, :700, :816, :849,                   *)
(* bat_ads_service_impl.cc:46), unless the setting changed, the rewards were *)
(* reset or the process died while a start, a stop, a question to the wallet *)
(* or a death was under way, or the wallet changed during a stop or a death, *)
(* whose end does not take back the question. Each of the five is needed.    *)
AssertionsHold ==
    failed => hasty \cap {"start", "stop", "wallet", "crash", "question"} # {}

(* The service that is initialized, and takes clicks, is connected to the    *)
(* process launched for it, whose ads are initialized unless it died         *)
(* (ads_service_impl.cc:540, :664, :991).                                    *)
InitializedMeansRunning ==
    initialized =>
        connected /\ service # "none" /\ (service = "up" => ads = "initialized")

(* What holds of every state, whatever was hasty.                            *)
ServiceConsistent == TypeOK /\ InitializedMeansRunning

(* Once the setting is off the service is disconnected, or the setting is on *)
(* again (Stop, ads_service_impl.cc:756), unless it changed during a start   *)
(* or a stop, or a process died there.                                       *)
DisabledStops ==
    ~enabled ~> \/ ~connected \/ enabled \/ failed
                \/ hasty \cap {"start", "stop", "crash"} # {}

(* Once the setting is on the service is initialized, after a death of the   *)
(* process too (MaybeStart, ads_service_impl.cc:720), or the setting is off  *)
(* again, unless a step of the start failed: none is tried again.            *)
EnabledRuns ==
    (enabled /\ watching = "yes")
        ~> initialized \/ ~enabled \/ failed \/ "failure" \in hasty

(* A notification clicked when the ads could not be viewed is viewed once    *)
(* they can (RetryViewingAdNotification, ads_service_impl.cc:1040, and       *)
(* SendPendingNotifications), unless another one took its place, ads were    *)
(* disabled, the process died or a start failed or was overtaken.            *)
KeptClickIsOpened ==
    \A n \in Notifications, c \in 0 .. MaxCrashes :
        (crashes = c /\ watching = "yes" /\ n \in pending \cup {retry})
            ~> \/ n \in opened \/ retry \notin {n, ""}
               \/ ~enabled \/ crashes > c \/ failed \/ hasty \cap {"start", "failure"} # {}

=============================================================================
