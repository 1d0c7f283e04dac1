-------------------------------- MODULE Mqtt --------------------------------
(***************************************************************************)
(* The MQTT interface (src/main/mqtt_if.c): mqtt_task(), which starts a    *)
(* client whenever Wi-Fi comes back, the event handler that the library    *)
(* calls in each client's own task, and data_task() (src/main/main.c),     *)
(* which publishes.  The clients and the Wi-Fi bits are external here; the *)
(* order in which the bits change is that of module WifiManager.           *)
(***************************************************************************)
EXTENDS Naturals, FiniteSets

CONSTANTS
  MaxClients,   \* clients created in one run of the firmware (bound)
  MaxDrops      \* Wi-Fi losses, failed joins and broker losses (bound)

ASSUME BoundsAssumption == MaxClients \in Nat \ {0} /\ MaxDrops \in Nat

Client == 1..MaxClients

VARIABLES
  wifi,       \* the Wi-Fi manager's progress through a loss and a rejoin
  staDisc,    \* WIFI_MANAGER_STA_DISCONNECT_BIT
  internet,   \* WIFI_MANAGER_HAVE_INTERNET_BIT
  pc,         \* where mqtt_task() is
  client,     \* the global client handle (0 is NULL)
  state,      \* each client: what the library is doing with it
  connected,  \* client_connected
  data,       \* where data_task() is in MQTT_Publish_General()
  testAsked,  \* wifi_manager_check_connection_async() was called
  drops       \* losses so far (bounded by MaxDrops)

wifiVars == <<wifi, staDisc, internet>>
mqttVars == <<client, state, connected>>
vars == <<wifiVars, pc, mqttVars, data, testAsked, drops>>

TypeOK ==
  /\ wifi \in {"online", "marked", "offline", "joining", "joined"}
  /\ staDisc \in BOOLEAN /\ internet \in BOOLEAN /\ connected \in BOOLEAN
  /\ testAsked \in BOOLEAN
  /\ pc \in {"absent", "begin", "first", "init", "start", "flag", "loop", "down", "up"}
  /\ client \in 0..MaxClients
  /\ state \in [Client -> {"none", "created", "trying", "up", "lost", "destroying", "gone"}]
  /\ data \in {"idle", "publish"}
  /\ drops \in 0..MaxDrops

\* The device boots off-line; mqtt_task() does not exist yet.
Init ==
  /\ wifi = "joining" /\ staDisc = FALSE /\ internet = FALSE
  /\ pc = "absent" /\ client = 0 /\ state = [c \in Client |-> "none"]
  /\ connected = FALSE /\ data = "idle" /\ testAsked = FALSE /\ drops = 0

-----------------------------------------------------------------------------
(* Wi-Fi.  A task blocked on a bit is released when the bit is set.        *)

\* mqtt_task() waits for internet at "first" and "up", for a loss at "down".
Woken(bit) == CASE pc \in {"first", "up"} /\ bit = "internet" -> "init"
                [] pc = "down" /\ bit = "staDisc"             -> "loop"
                [] OTHER                                      -> pc

WifiStep(from, to) ==
  /\ wifi = from /\ wifi' = to
  /\ UNCHANGED <<mqttVars, data>>

\* The link is lost or a join fails: the event handler sets one bit ...
WifiLost ==
  /\ \E from \in {"joining", "joined", "online"} : WifiStep(from, "marked")
  /\ drops < MaxDrops /\ drops' = drops + 1
  /\ staDisc' = TRUE /\ pc' = Woken("staDisc")
  /\ UNCHANGED <<internet, testAsked>>

\* ... and clears the other later.
InternetCleared ==
  /\ WifiStep("marked", "offline") /\ internet' = FALSE
  /\ UNCHANGED <<staDisc, pc, testAsked, drops>>

\* The manager clears STA_DISCONNECT before it joins; then a ping succeeds.
Rejoin ==
  /\ WifiStep("offline", "joining") /\ staDisc' = FALSE
  /\ UNCHANGED <<internet, pc, testAsked, drops>>

Joined ==
  /\ WifiStep("joining", "joined")
  /\ UNCHANGED <<staDisc, internet, pc, testAsked, drops>>

InternetBack ==
  /\ WifiStep("joined", "online") /\ internet' = TRUE /\ pc' = Woken("internet")
  /\ testAsked' = FALSE
  /\ UNCHANGED <<staDisc, drops>>

\* A connection test of an on-line station (WIFI_MANAGER_REQUEST_PING_TEST).
PingTest ==
  /\ testAsked /\ WifiStep("online", "joined")
  /\ internet' = FALSE /\ testAsked' = FALSE
  /\ UNCHANGED <<staDisc, pc, drops>>

Wifi == WifiLost \/ InternetCleared \/ Rejoin \/ Joined \/ InternetBack \/ PingTest

-----------------------------------------------------------------------------
(* mqtt_task().                                                            *)

TaskStep(from, to) == pc = from /\ pc' = to /\ UNCHANGED <<wifiVars, data, testAsked, drops>>

\* MQTT_Initialize(), called by app_main() (module StartUp), creates the task.
MQTT_Initialize ==
  /\ TaskStep("absent", "begin") /\ UNCHANGED mqttVars

FirstAwait ==
  /\ TaskStep("begin", IF internet THEN "init" ELSE "first") /\ UNCHANGED mqttVars

\* wifi_manager_wait_disconnect() and wifi_manager_wait_internet_access(), when
\* the bit is already set; otherwise the setter releases the task.
AwaitLoss ==
  /\ staDisc /\ TaskStep("down", "loop") /\ UNCHANGED mqttVars

\* Faulty variant: waits for another loss instead of for internet.
AwaitInternetSkipped ==
  /\ TaskStep("loop", IF internet THEN "init" ELSE "down") /\ UNCHANGED mqttVars

AwaitInternet ==
  /\ TaskStep("loop", IF internet THEN "init" ELSE "up") /\ UNCHANGED mqttVars

\* MQTT_Connect(): the handle is overwritten, whatever the old client is doing.
ConnectInit ==
  /\ TaskStep("init", "start")
  /\ \E c \in Client :
       /\ state[c] = "none" /\ \A d \in 1..(c - 1) : state[d] # "none"
       /\ client' = c /\ state' = [state EXCEPT ![c] = "created"]
  /\ UNCHANGED connected

ConnectStart ==
  /\ TaskStep("start", "flag")
  /\ state' = [state EXCEPT ![client] = "trying"]
  /\ UNCHANGED <<client, connected>>

\* The flag is reset after the client was started.
ConnectFlag ==
  /\ TaskStep("flag", "down")
  /\ connected' = FALSE
  /\ UNCHANGED <<client, state>>

MqttTask == FirstAwait \/ AwaitLoss \/ AwaitInternet \/ ConnectInit \/ ConnectStart \/ ConnectFlag

-----------------------------------------------------------------------------
(* The clients (external) and mqtt_event_handler().                        *)

Handler == UNCHANGED <<wifiVars, pc, client, data>>

\* MQTT_EVENT_CONNECTED.
ClientConnected(c) ==
  /\ state[c] = "trying" /\ wifi \in {"online", "joined"}
  /\ state' = [state EXCEPT ![c] = "up"] /\ connected' = TRUE
  /\ Handler /\ UNCHANGED <<testAsked, drops>>

\* The session ends because Wi-Fi did, or because the broker closed it.
SessionEnds(c) ==
  /\ state[c] = "up"
  /\ state' = [state EXCEPT ![c] = "lost"]
  /\ \/ wifi \notin {"online", "joined"} /\ UNCHANGED drops
     \/ drops < MaxDrops /\ drops' = drops + 1
  /\ Handler /\ UNCHANGED <<connected, testAsked>>

\* MQTT_EVENT_ERROR: a client cannot connect.
ClientError(c) ==
  /\ state[c] = "trying" /\ testAsked' = TRUE
  /\ Handler /\ UNCHANGED <<state, connected, drops>>

\* MQTT_EVENT_DISCONNECTED of client c: the flag, then esp_mqtt_client_destroy()
\* of the global handle, then a connection test.
ClientDisconnected(c) ==
  /\ state[c] = "lost"
  /\ state' = [state EXCEPT ![c] = "destroying"] /\ connected' = FALSE
  /\ Handler /\ UNCHANGED <<testAsked, drops>>

\* A client whose handler destroyed another one goes on by itself.
ClientDestroy(c) ==
  /\ state[c] = "destroying"
  /\ state' = [d \in Client |-> IF d = client THEN "gone"
                                ELSE IF d = c THEN "trying" ELSE state[d]]
  /\ testAsked' = TRUE
  /\ Handler /\ UNCHANGED <<connected, drops>>

ClientTask(c) == ClientConnected(c) \/ ClientDisconnected(c) \/ ClientDestroy(c)

\* MQTT_Publish_General(), called by data_task(): the flag is read, then the
\* global handle is used; a failure asks for a connection test.
PublishCheck ==
  /\ data = "idle"
  /\ IF connected THEN data' = "publish" /\ UNCHANGED testAsked
                  ELSE testAsked' = TRUE /\ UNCHANGED data
  /\ UNCHANGED <<wifiVars, pc, mqttVars, drops>>

Publish ==
  /\ data = "publish" /\ data' = "idle"
  /\ UNCHANGED <<wifiVars, pc, mqttVars, testAsked, drops>>

Next == \/ Wifi \/ MqttTask \/ PublishCheck \/ Publish
        \/ \E c \in Client : ClientTask(c) \/ SessionEnds(c) \/ ClientError(c)

-----------------------------------------------------------------------------
(* Properties.                                                             *)

\* mqtt_if.c:204: "Wait for a reconnect event and internet access".  After a loss
\* mqtt_task() goes on to MQTT_Connect() only once Wi-Fi is back.
ReconnectAwaited ==
  [][(pc = "loop" /\ pc' = "init") => wifi \in {"online", "joined"}]_vars

=============================================================================
