----------------------------- MODULE TaskProofs -----------------------------
(***************************************************************************)
(* Proofs about the two components data_task() (src/main/main.c) works     *)
(* between: the accumulator of the particulate-matter sensor, which it     *)
(* polls (PmSensor), and the MQTT session, through which it publishes      *)
(* (StartUp).                                                              *)
(***************************************************************************)
EXTENDS StartUp, PmSensor, TLAPS

-----------------------------------------------------------------------------
(* The accumulator.                                                        *)

\* The count never exceeds the packets received, and is less while one is being
\* added; so was the count that uart_pm_event_mgr() has loaded, which undoes a reset
\* when it is stored.
Lag ==
  /\ PmTypeOK
  /\ count <= received /\ sum \subseteq 1..received /\ reg.sum \subseteq 1..received
  /\ uart \in {"store", "count", "storecount"} => count < received
  /\ uart = "storecount" => reg.count < received

LEMMA LagStep == Lag /\ [PmNext]_pmVars => Lag'
<1> SUFFICES ASSUME Lag, [PmNext]_pmVars PROVE Lag'
  OBVIOUS
<1> USE SamplesAssumption DEF Lag, PmTypeOK, Sample, accum, timerVars, TimerTask
<1>1. CASE AddLoad
  BY <1>1 DEF AddLoad, UartStep
<1>2. CASE AddStore
  BY <1>2 DEF AddStore, UartStep
<1>3. CASE CountLoad
  BY <1>3 DEF CountLoad, UartStep
<1>4. CASE CountStore
  BY <1>4 DEF CountStore, UartStep
<1>5. CASE TimerReset
  BY <1>5 DEF TimerReset, UartStep
<1>6. CASE TimerExpires
  BY <1>6 DEF TimerExpires
<1>7. CASE ExpiryClearsSum
  BY <1>7 DEF ExpiryClearsSum
<1>8. CASE ExpiryClearsCount
  BY <1>8 DEF ExpiryClearsCount
<1>9. CASE PollCheck
  BY <1>9 DEF PollCheck, PollStep
<1>10. CASE PollRead
  BY <1>10 DEF PollRead, PollStep
<1>11. CASE PollClearsSum
  BY <1>11 DEF PollClearsSum, PollStep
<1>12. CASE PollClearsCount
  BY <1>12 DEF PollClearsCount, PollStep
<1>13. CASE UNCHANGED pmVars
  BY <1>13 DEF pmVars
<1>14. CASE TimerServes
  BY <1>14 DEF TimerServes
<1>15. CASE ExpiryStops
  BY <1>15 DEF ExpiryStops
<1> QED
  BY <1>1, <1>2, <1>3, <1>4, <1>5, <1>6, <1>7, <1>8, <1>9, <1>10, <1>11, <1>12, <1>13,
     <1>14, <1>15
  DEF PmNext, Uart, Expiry, Poll

\* For any number of packets, and however the three tasks tear each other's resets:
\* the accumulator never counts more samples than were received.
THEOREM PmTypeCorrect == PmSpec => []PmTypeOK
<1>1. PmInit => Lag
  BY SamplesAssumption DEF PmInit, Lag, PmTypeOK, Sample
<1>2. Lag => PmTypeOK
  BY DEF Lag
<1> QED
  BY <1>1, <1>2, LagStep, PTL DEF PmSpec

-----------------------------------------------------------------------------
(* The MQTT session.                                                       *)

\* While app_main() is still in _sntp_obtain_time(), a retry is left.
RetryLeft == StartTypeOK /\ (app # "created" => retry < RetryCount)

\* The handler of a client, Wi-Fi, mqtt_task() and the publish path keep the types of
\* the state they share.
LEMMA MqttTypeStep == TypeOK /\ Next => TypeOK'
<1> SUFFICES ASSUME TypeOK, Next PROVE TypeOK'
  OBVIOUS
<1> USE BoundsAssumption DEF TypeOK, Client, wifiVars, mqttVars
<1>1. CASE WifiLost
  BY <1>1 DEF WifiLost, WifiStep, Woken
<1>2. CASE InternetCleared \/ Rejoin \/ Joined
  BY <1>2 DEF InternetCleared, Rejoin, Joined, WifiStep
<1>3. CASE InternetBack
  BY <1>3 DEF InternetBack, WifiStep, Woken
<1>4. CASE PingTest
  BY <1>4 DEF PingTest, WifiStep
<1>5. CASE FirstAwait \/ AwaitLoss \/ AwaitInternet
  BY <1>5 DEF FirstAwait, AwaitLoss, AwaitInternet, TaskStep
<1>6. CASE ConnectInit
  BY <1>6 DEF ConnectInit, TaskStep
<1>7. CASE ConnectStart
  BY <1>7 DEF ConnectStart, TaskStep
<1>8. CASE ConnectFlag
  BY <1>8 DEF ConnectFlag, TaskStep
<1>9. ASSUME NEW c \in Client, ClientTask(c) \/ SessionEnds(c) \/ ClientError(c)
      PROVE  TypeOK'
  <2>1. CASE ClientConnected(c)
    BY <2>1 DEF ClientConnected, Handler
  <2>2. CASE ClientDisconnected(c)
    BY <2>2 DEF ClientDisconnected, Handler
  <2>3. CASE ClientDestroy(c)
    BY <2>3 DEF ClientDestroy, Handler
  <2>4. CASE SessionEnds(c)
    BY <2>4 DEF SessionEnds, Handler
  <2>5. CASE ClientError(c)
    BY <2>5 DEF ClientError, Handler
  <2> QED
    BY <1>9, <2>1, <2>2, <2>3, <2>4, <2>5 DEF ClientTask
<1>10. CASE PublishCheck
  BY <1>10 DEF PublishCheck
<1>11. CASE Publish
  BY <1>11 DEF Publish
<1> QED
  BY <1>1, <1>2, <1>3, <1>4, <1>5, <1>6, <1>7, <1>8, <1>9, <1>10, <1>11
  DEF Next, Wifi, MqttTask

\* A restart begins with all its retries.
LEMMA ResetRestarts ==
  ASSUME Reset, drops' \in 0..MaxDrops, clock \in BOOLEAN, loss' \in {"none", "noticed", "forgotten"}
  PROVE  RetryLeft'
<1>1. state' \in [Client -> {"none", "created", "trying", "up", "lost", "destroying", "gone"}]
  BY DEF Reset
<1>2. client' \in 0..MaxClients /\ retry' \in 0..RetryCount /\ retry' < RetryCount
  BY BoundsAssumption, RetryAssumption DEF Reset
<1>3. /\ staDisc' \in BOOLEAN /\ internet' \in BOOLEAN /\ connected' \in BOOLEAN
      /\ testAsked' \in BOOLEAN /\ now' \in BOOLEAN /\ clock' \in BOOLEAN
  BY DEF Reset
<1>4. TypeOK'
  BY <1>1, <1>2, <1>3 DEF Reset, TypeOK
<1> QED
  BY <1>2, <1>3, <1>4 DEF Reset, StartTypeOK, RetryLeft

LEMMA RetryStep == RetryLeft /\ [StartNext]_allVars => RetryLeft'
<1> SUFFICES ASSUME RetryLeft, [StartNext]_allVars PROVE RetryLeft'
  OBVIOUS
<1> USE BoundsAssumption, RetryAssumption DEF RetryLeft, StartTypeOK
<1>1. CASE WaitInternet
  BY <1>1 DEF WaitInternet, vars, wifiVars, mqttVars, TypeOK
<1>2. CASE Retry
  BY <1>2 DEF Retry, vars, wifiVars, mqttVars, TypeOK
<1>3. CASE Obtained
  BY <1>3 DEF Obtained, MQTT_Initialize, TaskStep, wifiVars, mqttVars,
              TypeOK
<1>4. CASE SntpAnswers
  BY <1>4 DEF SntpAnswers, vars, wifiVars, mqttVars, TypeOK
<1>5. CASE Meanwhile(Next)
  <2>1. TypeOK'
    BY <1>5, MqttTypeStep DEF Meanwhile
  <2> QED
    BY <1>5, <2>1 DEF Meanwhile
<1>6. CASE HourlyAbort
  BY <1>6, ResetRestarts DEF HourlyAbort, TypeOK
<1>7. CASE EarlyAbort
  BY <1>7, ResetRestarts DEF EarlyAbort, TypeOK
<1>8. CASE UNCHANGED allVars
  BY <1>8 DEF allVars, startVars, vars, wifiVars, mqttVars, TypeOK
<1> QED
  BY <1>1, <1>2, <1>3, <1>4, <1>5, <1>6, <1>7, <1>8 DEF StartNext, AppMain

\* For any number of retries, clients and losses: _sntp_obtain_time() ends within
\* retry_count, and every variable of the session keeps its type.
THEOREM StartTypeCorrect == StartSpec => []StartTypeOK
<1>1. ASSUME StartInit PROVE RetryLeft
  <2>1. state \in [Client -> {"none", "created", "trying", "up", "lost", "destroying", "gone"}]
    BY <1>1 DEF StartInit, Init
  <2>2. /\ client \in 0..MaxClients /\ drops \in 0..MaxDrops
        /\ retry \in 0..RetryCount /\ retry < RetryCount
    BY <1>1, BoundsAssumption, RetryAssumption DEF StartInit, Init
  <2>3. TypeOK
    BY <1>1, <2>1, <2>2 DEF StartInit, Init, TypeOK
  <2> QED
    BY <1>1, <2>2, <2>3 DEF StartInit, StartTypeOK, RetryLeft
<1>2. RetryLeft => StartTypeOK
  BY DEF RetryLeft
<1> QED
  BY <1>1, <1>2, RetryStep, PTL DEF StartSpec

-----------------------------------------------------------------------------
(* What the liveness of the session rests on.                              *)

\* Nobody waits for a bit that is set.
WaitersWoken == internet => app # "waiting" /\ pc \notin {"first", "up"}

\* From the moment mqtt_task() has noticed a loss it is on its way to MQTT_Connect().
LossKept == loss # "forgotten" /\ (loss = "noticed" => pc \in {"loop", "up", "init", "start"})

\* The global handle names the client that was created last, if any was.
HandleLatest ==
  /\ \A c \in Client : state[c] # "none" <=> c <= client
  /\ pc \in {"start", "flag", "down", "loop", "up"} => client # 0

\* Wi-Fi and mqtt_task() change the bit and the place where mqtt_task() waits; the
\* call that sets the bit moves mqtt_task() on.
LEMMA WakeupStep ==
  ASSUME WaitersWoken, LossKept, Meanwhile(Next)
  PROVE  WaitersWoken' /\ LossKept'
<1> USE DEF WaitersWoken, LossKept, Meanwhile, wifiVars, mqttVars
<1>1. CASE Wifi
  BY <1>1 DEF Wifi, WifiLost, InternetCleared, Rejoin, Joined,
              InternetBack, PingTest, WifiStep, Woken
<1>2. CASE MqttTask
  BY <1>2 DEF MqttTask, FirstAwait, AwaitLoss, AwaitInternet, ConnectInit,
              ConnectStart, ConnectFlag, TaskStep
<1>3. CASE PublishCheck \/ Publish
  BY <1>3 DEF PublishCheck, Publish
<1>4. ASSUME NEW c \in Client, ClientTask(c) \/ SessionEnds(c) \/ ClientError(c)
      PROVE  WaitersWoken' /\ LossKept'
  BY <1>4 DEF ClientTask, ClientConnected, ClientDisconnected, ClientDestroy,
              SessionEnds, ClientError, Handler
<1> QED
  BY <1>1, <1>2, <1>3, <1>4 DEF Next

\* MQTT_Connect() takes the first client that does not exist, and nobody else changes
\* the handle or brings a client into being.
LEMMA HandleStep ==
  ASSUME TypeOK, HandleLatest, Next
  PROVE  HandleLatest'
<1> USE BoundsAssumption DEF HandleLatest, TypeOK, Client, wifiVars, mqttVars
<1>1. CASE Wifi
  BY <1>1 DEF Wifi, WifiLost, InternetCleared, Rejoin, Joined,
              InternetBack, PingTest, WifiStep, Woken
<1>2. CASE FirstAwait \/ AwaitLoss \/ AwaitInternet \/ ConnectFlag
  BY <1>2 DEF FirstAwait, AwaitLoss, AwaitInternet, ConnectFlag, TaskStep
<1>3. CASE ConnectInit
  <2>1. PICK c \in Client :
          /\ state[c] = "none" /\ \A d \in 1..(c - 1) : state[d] # "none"
          /\ client' = c /\ state' = [state EXCEPT ![c] = "created"]
    BY <1>3 DEF ConnectInit
  <2>2. client = c - 1
    <3>1. ~(c <= client)
      BY <2>1
    <3>2. CASE c = 1
      BY <3>1, <3>2
    <3>3. CASE c # 1
      BY <2>1, <3>1, <3>3
    <3> QED
      BY <3>2, <3>3
  <2> QED
    BY <2>1, <2>2
<1>4. CASE ConnectStart
  BY <1>4 DEF ConnectStart, TaskStep
<1>5. ASSUME NEW c \in Client, ClientTask(c) \/ SessionEnds(c) \/ ClientError(c)
      PROVE  HandleLatest'
  <2>1. CASE ClientDestroy(c)
    BY <2>1 DEF ClientDestroy, Handler
  <2>2. CASE ClientConnected(c) \/ ClientDisconnected(c)
    BY <2>2 DEF ClientConnected, ClientDisconnected, Handler
  <2>3. CASE SessionEnds(c)
    BY <2>3 DEF SessionEnds, Handler
  <2>4. CASE ClientError(c)
    BY <2>4 DEF ClientError, Handler
  <2> QED
    BY <1>5, <2>1, <2>2, <2>3, <2>4 DEF ClientTask
<1>6. CASE PublishCheck \/ Publish
  BY <1>6 DEF PublishCheck, Publish
<1> QED
  BY <1>1, <1>2, <1>3, <1>4, <1>5, <1>6 DEF Next, MqttTask

\* Through any losses, aborts and clients destroyed by each other's handlers: neither
\* app_main() nor mqtt_task() sleeps through the bit it waits for, a loss that was
\* noticed is not forgotten before MQTT_Connect() has been called, and the handle that
\* mqtt_event_handler() destroys names the latest client.
THEOREM SessionIsKept == StartSpec => [](WaitersWoken /\ LossKept /\ HandleLatest)
<1> DEFINE Kept == WaitersWoken /\ LossKept /\ HandleLatest
<1>1. StartInit => Kept
  BY DEF StartInit, Init, Client, WaitersWoken, LossKept, HandleLatest
<1>2. StartTypeOK /\ Kept /\ [StartNext]_allVars => Kept'
  <2> SUFFICES ASSUME StartTypeOK, Kept, [StartNext]_allVars PROVE Kept'
    OBVIOUS
  <2> USE DEF vars, wifiVars, mqttVars
  <2>1. CASE WaitInternet \/ Retry \/ SntpAnswers
    BY <2>1 DEF WaitInternet, Retry, SntpAnswers, Client,
                WaitersWoken, LossKept, HandleLatest
  <2>2. CASE Obtained
    BY <2>2 DEF Obtained, MQTT_Initialize, TaskStep, Client,
                WaitersWoken, LossKept, HandleLatest
  <2>3. CASE Meanwhile(Next)
    BY <2>3, WakeupStep, HandleStep DEF Meanwhile, StartTypeOK
  <2>4. CASE HourlyAbort \/ EarlyAbort
    <3>1. Reset
      BY <2>4 DEF HourlyAbort, EarlyAbort
    <3>2. WaitersWoken'
      BY <3>1 DEF Reset, WaitersWoken
    <3>3. LossKept'
      BY <2>4, <3>1 DEF HourlyAbort, EarlyAbort, Reset, Quiet, LossKept
    <3>4. HandleLatest'
      BY <3>1, BoundsAssumption DEF Reset, Client, HandleLatest
    <3> QED
      BY <3>2, <3>3, <3>4
  <2>5. CASE UNCHANGED allVars
    BY <2>5 DEF allVars, startVars, Client, WaitersWoken, LossKept, HandleLatest
  <2> QED
    BY <2>1, <2>2, <2>3, <2>4, <2>5 DEF StartNext, AppMain
<1> QED
  BY <1>1, <1>2, StartTypeCorrect, PTL DEF StartSpec

=============================================================================
