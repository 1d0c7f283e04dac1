------------------------------ MODULE StartUp -------------------------------
(***************************************************************************)
(* The end of app_main() (src/main/main.c), composed with Mqtt: app_main() *)
(* waits in SNTP_Initialize() (src/main/time_if.c) for internet access and *)
(* then, a limited number of times, for the clock, and only then creates   *)
(* mqtt_task().  data_task() publishes all the while, and panic_task()     *)
(* aborts every hour, which starts everything again.                       *)
(***************************************************************************)
EXTENDS Mqtt

CONSTANT
  RetryCount   \* retry_count: 25 in the code

ASSUME RetryAssumption == RetryCount \in Nat \ {0}

VARIABLES
  app,     \* where app_main() is
  retry,   \* of _sntp_obtain_time()
  now,     \* its copy of the time is a time after 2018
  clock,   \* so is the system time, which the SNTP client sets
  loss     \* history: a loss that mqtt_task() noticed has no new client yet

startVars == <<app, retry, now, clock, loss>>
allVars   == <<vars, startVars>>

StartTypeOK ==
  /\ TypeOK
  /\ app \in {"start", "waiting", "obtain", "created"}
  /\ retry \in 0..RetryCount
  /\ now \in BOOLEAN /\ clock \in BOOLEAN
  /\ loss \in {"none", "noticed", "forgotten"}

StartInit ==
  /\ Init
  /\ app = "start" /\ retry = 0 /\ now = FALSE /\ clock = FALSE /\ loss = "none"

-----------------------------------------------------------------------------
\* wifi_manager_wait_internet_access(), then sntp_init().
WaitInternet ==
  /\ app = "start" /\ app' = IF internet THEN "obtain" ELSE "waiting"
  /\ UNCHANGED <<vars, retry, now, clock, loss>>

\* Faulty variant: the test is ++retry <= retry_count.
RetryPastCount ==
  /\ app = "obtain" /\ ~now /\ retry + 1 <= RetryCount
  /\ retry' = retry + 1 /\ now' = clock
  /\ UNCHANGED <<vars, app, clock, loss>>

\* _sntp_obtain_time(): while the time is not set and ++retry < retry_count.
Retry ==
  /\ app = "obtain" /\ ~now /\ retry + 1 < RetryCount
  /\ retry' = retry + 1 /\ now' = clock
  /\ UNCHANGED <<vars, app, clock, loss>>

\* Faulty variant: MQTT is started only with the time.
ObtainedOnly ==
  /\ app = "obtain" /\ now
  /\ app' = "created" /\ MQTT_Initialize
  /\ UNCHANGED <<retry, now, clock, loss>>

\* Set or not, app_main() goes on to MQTT_Initialize().
Obtained ==
  /\ app = "obtain" /\ (now \/ retry + 1 >= RetryCount)
  /\ retry' = (IF now THEN retry ELSE retry + 1)
  /\ app' = "created" /\ MQTT_Initialize
  /\ UNCHANGED <<now, clock, loss>>

AppMain == WaitInternet \/ Retry \/ Obtained

\* The SNTP client, once started, sets the clock when a server answers.
SntpAnswers ==
  /\ app \in {"obtain", "created"} /\ wifi \in {"online", "joined"} /\ ~clock
  /\ clock' = TRUE
  /\ UNCHANGED <<vars, app, retry, now, loss>>

\* Whoever sets WIFI_MANAGER_HAVE_INTERNET_BIT releases app_main() too.
Meanwhile(A) ==
  /\ A
  /\ app' = IF app = "waiting" /\ internet' THEN "obtain" ELSE app
  /\ loss' = CASE loss = "forgotten" -> loss
               [] pc' = "loop"       -> "noticed"
               [] pc' = "flag"       -> "none"
               [] OTHER              -> loss
  /\ UNCHANGED <<retry, now, clock>>

-----------------------------------------------------------------------------
(* panic_task(): the hour is long enough for whatever is going on to end.  *)

Quiet ==
  /\ wifi \in {"online", "joined"} /\ \A c \in Client : state[c] \in {"none", "up", "gone"}
  /\ pc = "down" /\ ~staDisc

\* The bound on clients also ends what is going on.
Exhausted == pc = "init" /\ state[MaxClients] # "none"

\* RAM is lost; the clock is kept.
Reset ==
  /\ wifi' = "joining" /\ staDisc' = FALSE /\ internet' = FALSE
  /\ pc' = "absent" /\ client' = 0 /\ state' = [c \in Client |-> "none"]
  /\ connected' = FALSE /\ data' = "idle" /\ testAsked' = FALSE
  /\ app' = "start" /\ retry' = 0 /\ now' = FALSE /\ UNCHANGED clock

\* Faulty variant: only a device without internet access restarts itself.
AbortOffline ==
  /\ Quiet \/ Exhausted
  /\ ~internet /\ Reset /\ UNCHANGED <<drops, loss>>

HourlyAbort ==
  /\ Quiet \/ Exhausted
  /\ Reset /\ UNCHANGED drops
  /\ loss' = IF loss = "noticed" THEN (IF Quiet THEN "forgotten" ELSE "none") ELSE loss

\* It may also come at any other moment, as may a crash (bounded with the losses).
EarlyAbort ==
  /\ drops < MaxDrops /\ drops' = drops + 1
  /\ Reset /\ loss' = IF loss = "noticed" THEN "none" ELSE loss

StartNext == AppMain \/ SntpAnswers \/ Meanwhile(Next) \/ HourlyAbort \/ EarlyAbort

\* The tasks run, the clients connect and report, and Wi-Fi comes back after
\* every loss (WifiManager's StoredNetworkRejoined).  The hourly abort is unconditional.
\* No SNTP server need answer.
StartSpec ==
  /\ StartInit /\ [][StartNext]_allVars
  /\ WF_allVars(AppMain) /\ WF_allVars(HourlyAbort) /\ WF_allVars(Meanwhile(MqttTask))
  /\ WF_allVars(Meanwhile(InternetCleared)) /\ WF_allVars(Meanwhile(Rejoin))
  /\ WF_allVars(Meanwhile(Joined)) /\ WF_allVars(Meanwhile(InternetBack))
  /\ \A c \in Client : WF_allVars(Meanwhile(ClientTask(c)))

-----------------------------------------------------------------------------
(* Properties.                                                             *)

\* A loss of Wi-Fi that mqtt_task() has noticed is followed by a new client, whatever
\* the old one is doing, and not only after the next abort.  (A loss that begins and
\* ends while it is in MQTT_Connect() goes unnoticed.)
LossReconnects == (loss = "noticed") ~> (loss = "none")

\* The first MQTT client is started after every boot, although no time server may
\* answer and Wi-Fi may be lost while app_main() waits for the clock.
FirstClientStarts == (app = "start") ~> (pc = "flag")

\* The device always gets back to a session with the broker.  After the broker has
\* closed one, mqtt_task() waits for a loss of Wi-Fi that need not come: it is the
\* hourly abort that brings the device back.
SessionResumes == []<>(client # 0 /\ state[client] = "up")

=============================================================================
