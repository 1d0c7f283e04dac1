------------------------- MODULE WifiManagerProofs -------------------------
(***************************************************************************)
(* Proofs about WifiManager, for every set of credentials, every driver    *)
(* and client behaviour, and every bound, and about its composition with   *)
(* the status LEDs (WifiLed).                                              *)
(***************************************************************************)
EXTENDS WifiLed, SequenceTheorems, TLAPS

USE DEF managerVars, eventVars, dataVars, historyVars, vars

-----------------------------------------------------------------------------
(* Type correctness, actor by actor.                                       *)

LEMMA SetBitsType ==
  ASSUME TypeOK, NEW b \in SUBSET Bit, SetBits(b)
  PROVE  /\ bits' \subseteq Bit /\ pc' \in Label /\ ux' \subseteq Bit
         /\ retTo' \in {"connect", "ping"}
BY DEF TypeOK, SetBits, Awaited, Resume, Snapshot, Label, Bit, RequestBit

LEMMA WaitBitsType ==
  ASSUME TypeOK, NEW from, NEW l \in {"idle", "joining"}, WaitBits(from, l)
  PROVE  TypeOK'
BY DEF TypeOK, WaitBits, Awaited, Resume, Snapshot, Label, Bit, RequestBit

\* The driver's state after a change of the link that ends a join.
LEMMA LinkType ==
  ASSUME TypeOK, NEW st \in {"down", "up"}, link' = [link EXCEPT !.st = st, !.conf = NoConf]
  PROVE  link' \in [st : {"down", "joining", "up"}, conf : ConfOrNone, refused : BOOLEAN]
<1>1. NoConf \in ConfOrNone
  BY DEF ConfOrNone
<1> QED
  BY <1>1 DEF TypeOK

LEMMA DriverType == TypeOK /\ Driver => TypeOK'
<1> SUFFICES ASSUME TypeOK, Driver PROVE TypeOK'
  OBVIOUS
<1>1. CASE JoinSucceeds
  <2>1. "GOT_IP" \in Event
    BY DEF Event
  <2>2. events' \in Seq(Event) /\ Len(events') <= MaxEvents
    BY <1>1, <2>1, BoundsAssumption DEF TypeOK, JoinSucceeds
  <2>3. link' \in [st : {"down", "joining", "up"}, conf : ConfOrNone, refused : BOOLEAN]
    BY <1>1, LinkType DEF JoinSucceeds
  <2>4. proven' \subseteq AnyConf
    BY <1>1, ConfAssumption DEF TypeOK, JoinSucceeds, AnyConf
  <2> QED
    BY <1>1, <2>2, <2>3, <2>4 DEF TypeOK, JoinSucceeds
<1>2. ASSUME NEW from \in {"joining", "up"}, NEW r \in Reason, LinkDown(from, r)
      PROVE  TypeOK'
  <2>1. link' \in [st : {"down", "joining", "up"}, conf : ConfOrNone, refused : BOOLEAN]
    BY <1>2, LinkType DEF LinkDown
  <2> QED
    BY <1>2, <2>1, BoundsAssumption DEF TypeOK, LinkDown, Stimulus, Event
<1> QED
  BY <1>1, <1>2, EnvAssumption DEF Driver, JoinFails, LinkLost

LEMMA TakeEventType ==
  ASSUME TypeOK, events # << >>
  PROVE  /\ Head(events) \in Event
         /\ Tail(events) \in Seq(Event) /\ Len(Tail(events)) <= MaxEvents
BY BoundsAssumption DEF TypeOK

LEMMA HandlerType == TypeOK /\ EventHandler => TypeOK'
<1> SUFFICES ASSUME TypeOK, EventHandler PROVE TypeOK'
  OBVIOUS
<1> USE DEF HandlerRest, ClearBits
<1>1. CASE HandleGotIp
  <2>1. /\ bits' \subseteq Bit /\ pc' \in Label /\ ux' \subseteq Bit
        /\ retTo' \in {"connect", "ping"}
    BY <1>1, SetBitsType, {"WIFI_CONNECTED"} \in SUBSET Bit DEF HandleGotIp, Bit
  <2> QED
    BY <1>1, <2>1, TakeEventType DEF TypeOK, HandleGotIp
<1>2. CASE HandleDisconnected
  <2>1. /\ bits' \subseteq Bit /\ pc' \in Label /\ ux' \subseteq Bit
        /\ retTo' \in {"connect", "ping"}
    <3>1. CASE Head(events) = "OTHER"
      BY <1>2, <3>1, SetBitsType, {"REQUEST_STA_CONNECT"} \in SUBSET Bit
      DEF HandleDisconnected, Bit, RequestBit
    <3> QED
      BY <1>2, <3>1 DEF TypeOK, HandleDisconnected
  <2> QED
    BY <1>2, <2>1, TakeEventType DEF TypeOK, HandleDisconnected
<1>3. CASE HandlerMark
  <2>1. /\ bits' \subseteq Bit /\ pc' \in Label /\ ux' \subseteq Bit
        /\ retTo' \in {"connect", "ping"}
    BY <1>3, SetBitsType, {"STA_DISCONNECT"} \in SUBSET Bit DEF HandlerMark, Bit
  <2> QED
    BY <1>3, <2>1 DEF TypeOK, HandlerMark
<1>4. CASE HandlerClearConnected
  BY <1>4 DEF TypeOK, HandlerClearConnected
<1>5. CASE HandlerClearInternet
  BY <1>5 DEF TypeOK, HandlerClearInternet
<1> QED
  BY <1>1, <1>2, <1>3, <1>4, <1>5 DEF EventHandler

LEMMA TimerType == TypeOK /\ TimerExpires => TypeOK'
<1> SUFFICES ASSUME TypeOK, TimerExpires PROVE TypeOK'
  OBVIOUS
<1>1. /\ bits' \subseteq Bit /\ pc' \in Label /\ ux' \subseteq Bit
      /\ retTo' \in {"connect", "ping"}
  BY SetBitsType, {"REQUEST_PING_TEST"} \in SUBSET Bit DEF TimerExpires, Bit, RequestBit
<1> QED
  BY <1>1 DEF TypeOK, TimerExpires

LEMMA PingType == TypeOK /\ PingThread => TypeOK'
<1> SUFFICES ASSUME TypeOK, NEW p \in Pinger,
                    \/ PingReply(p) \/ PingInternet(p) \/ PingStopTimer(p)
                    \/ PingFlush(p) \/ PingRequest(p)
             PROVE  TypeOK'
  BY DEF PingThread
<1> USE DEF PingRest
<1>1. CASE PingReply(p)
  BY <1>1 DEF TypeOK, PingReply
<1>2. CASE PingInternet(p)
  <2>1. /\ bits' \subseteq Bit /\ pc' \in Label /\ ux' \subseteq Bit
        /\ retTo' \in {"connect", "ping"}
    BY <1>2, SetBitsType, {"HAVE_INTERNET"} \in SUBSET Bit DEF PingInternet, Bit
  <2> QED
    BY <1>2, <2>1 DEF TypeOK, PingInternet
<1>3. CASE PingStopTimer(p)
  BY <1>3 DEF TypeOK, PingStopTimer
<1>4. CASE PingFlush(p)
  BY <1>4 DEF TypeOK, PingFlush
<1>5. CASE PingRequest(p)
  <2>1. /\ bits' \subseteq Bit /\ pc' \in Label /\ ux' \subseteq Bit
        /\ retTo' \in {"connect", "ping"}
    BY <1>5, SetBitsType, {"REQUEST_STA_CONNECT"} \in SUBSET Bit
    DEF PingRequest, Bit, RequestBit
  <2> QED
    BY <1>5, <2>1 DEF TypeOK, PingRequest
<1> QED
  BY <1>1, <1>2, <1>3, <1>4, <1>5

LEMMA ClientType == TypeOK /\ (CheckConnectionAsync \/ HttpServer) => TypeOK'
<1> SUFFICES ASSUME TypeOK, CheckConnectionAsync \/ HttpServer PROVE TypeOK'
  OBVIOUS
<1> USE DEF HttpRest, Stimulus
<1>1. ASSUME NEW client, NEW b \in RequestBit, AsyncRequest(client, b),
             stimuli' \in 0..MaxStimuli
      PROVE  TypeOK'
  <2>1. /\ bits' \subseteq Bit /\ pc' \in Label /\ ux' \subseteq Bit
        /\ retTo' \in {"connect", "ping"}
    BY <1>1, SetBitsType, {b} \in SUBSET Bit DEF AsyncRequest, Bit
  <2> QED
    BY <1>1, <2>1 DEF TypeOK, AsyncRequest
<1>2. CASE CheckConnectionAsync
  BY <1>1, <1>2 DEF CheckConnectionAsync, RequestBit, TypeOK
<1>3. CASE ScanAsync \/ DisconnectAsync
  <2>1. stimuli' \in 0..MaxStimuli
    BY <1>3, BoundsAssumption DEF ScanAsync, DisconnectAsync, TypeOK
  <2> QED
    BY <1>1, <1>3, <2>1 DEF ScanAsync, DisconnectAsync, RequestBit
<1>4. ASSUME NEW c \in Conf, PostConnect(c) PROVE TypeOK'
  BY <1>4, BoundsAssumption DEF TypeOK, PostConnect, ConfOrNone, AnyConf
<1>5. CASE PostSsid \/ PostPassword \/ PostFlush
  BY <1>5 DEF TypeOK, PostSsid, PostPassword, PostFlush, PostCopies, ConfOrNone, AnyConf
<1>6. CASE PostRequest
  <2>1. /\ bits' \subseteq Bit /\ pc' \in Label /\ ux' \subseteq Bit
        /\ retTo' \in {"connect", "ping"}
    BY <1>6, SetBitsType, {"REQUEST_STA_CONNECT"} \in SUBSET Bit
    DEF PostRequest, Bit, RequestBit
  <2> QED
    BY <1>6, <2>1 DEF TypeOK, PostRequest, ConfOrNone
<1> QED
  BY <1>2, <1>3, <1>4, <1>5, <1>6 DEF HttpServer, PostGoesOn

LEMMA ManagerType == TypeOK /\ Manager => TypeOK'
<1> SUFFICES ASSUME TypeOK, Manager PROVE TypeOK'
  OBVIOUS
<1> USE DEF Goto, ClearBits, OutsideManager, Label, ConnectScanOrTest
<1>1. CASE AwaitRequest
  BY <1>1, WaitBitsType DEF AwaitRequest
<1>2. CASE Dispatch
  BY <1>2 DEF TypeOK, Dispatch, Chain
<1>3. ASSUME NEW from, NEW to \in Label, NEW b, ManagerClears(from, to, b)
      PROVE  TypeOK'
  BY <1>3 DEF TypeOK, ManagerClears
<1>4. ASSUME NEW from, NEW to \in Label, LeaveAccessPoint(from, to)
      PROVE  TypeOK'
  <2>1. events' \in Seq(Event) /\ Len(events') <= MaxEvents
    <3>1. "ASSOC_LEAVE" \in Event
      BY DEF Event
    <3>2. CASE link.st # "down" \/ IdleLeave
      <4>1. events' = Append(events, "ASSOC_LEAVE") /\ Len(events) < MaxEvents
        BY <1>4, <3>2 DEF LeaveAccessPoint, EspWifiDisconnect
      <4>2. events \in Seq(Event)
        BY DEF TypeOK
      <4> QED
        BY <3>1, <4>1, <4>2, BoundsAssumption
    <3>3. CASE ~(link.st # "down" \/ IdleLeave)
      BY <1>4, <3>3 DEF TypeOK, LeaveAccessPoint, EspWifiDisconnect
    <3> QED
      BY <3>2, <3>3
  <2>2. link' \in [st : {"down", "joining", "up"}, conf : ConfOrNone, refused : BOOLEAN]
    BY <1>4, LinkType DEF TypeOK, LeaveAccessPoint, EspWifiDisconnect
  <2> QED
    BY <1>4, <2>1, <2>2 DEF TypeOK, LeaveAccessPoint
<1>5. ASSUME NEW from, NEW to \in Label, AwaitLeft(from, to)
      PROVE  TypeOK'
  BY <1>5 DEF TypeOK, AwaitLeft
<1>6. CASE ServeDisconnect
  <2>1. CASE DisconnectClearInternet
    BY <2>1 DEF TypeOK, DisconnectClearInternet
  <2>2. CASE DisconnectErase
    BY <2>2 DEF TypeOK, DisconnectErase, ConfOrNone
  <2>3. CASE DisconnectSave
    BY <2>3 DEF TypeOK, DisconnectSave, ManagerStores
  <2>4. CASE DisconnectDone
    BY <2>4 DEF TypeOK, DisconnectDone, Chain
  <2> QED
    BY <1>3, <1>4, <1>5, <1>6, <2>1, <2>2, <2>3, <2>4 DEF ServeDisconnect
<1>7. CASE ServeConnect
  <2>1. CASE Connect
    BY <2>1 DEF TypeOK, Connect, EspWifiConnect
  <2>2. CASE AwaitJoin
    BY <2>2, WaitBitsType DEF AwaitJoin
  <2>3. CASE JoinedOk
    BY <2>3 DEF TypeOK, JoinedOk
  <2>4. CASE ConnectTimer
    BY <2>4 DEF TypeOK, ConnectTimer
  <2>5. CASE JoinedNot
    BY <2>5 DEF TypeOK, JoinedNot, ConfOrNone, Bit
  <2> QED
    BY <1>3, <1>4, <1>5, <1>7, <2>1, <2>2, <2>3, <2>4, <2>5 DEF ServeConnect
<1>8. CASE CheckConnection
  <2>1. CASE CheckPing
    BY <2>1 DEF TypeOK, CheckPing
  <2>2. CASE CheckTimeout
    BY <2>2 DEF TypeOK, CheckTimeout, Resume
  <2>3. CASE CheckNotConnected
    BY <2>3 DEF TypeOK, CheckNotConnected
  <2> QED
    BY <1>8, <2>1, <2>2, <2>3 DEF CheckConnection
<1>9. CASE Scan
  BY <1>3, <1>9 DEF Scan
<1>10. CASE ServeTest
  <2>1. CASE FetchStored
    BY <2>1 DEF TypeOK, FetchStored, ManagerStores
  <2>2. CASE StoredRequest
    BY <2>2 DEF TypeOK, StoredRequest, Bit, RequestBit
  <2> QED
    BY <1>3, <1>10, <2>1, <2>2 DEF ServeTest
<1>11. CASE TailRead
  BY <1>11 DEF TypeOK, TailRead
<1>12. CASE TailLed
  BY <1>12 DEF TypeOK, TailLed
<1> QED
  BY <1>1, <1>2, <1>6, <1>7, <1>8, <1>9, <1>10, <1>11, <1>12 DEF Manager

LEMMA RebootType == TypeOK /\ Reboot => TypeOK'
<1> SUFFICES ASSUME TypeOK, Reboot PROVE TypeOK'
  OBVIOUS
<1>1. events' \in Seq(Event) /\ Len(events') <= MaxEvents
  BY BoundsAssumption DEF Reboot
<1>2. bits' \subseteq Bit
  BY DEF Reboot, BootBits, Bit, RequestBit
<1>3. link' \in [st : {"down", "joining", "up"}, conf : ConfOrNone, refused : BOOLEAN]
  BY DEF Reboot, ConfOrNone
<1>4. stimuli' \in 0..MaxStimuli
  BY BoundsAssumption DEF TypeOK, Reboot, Stimulus
<1> QED
  BY <1>1, <1>2, <1>3, <1>4 DEF TypeOK, Reboot, Label, ConfOrNone, AnyConf

\* Every variable keeps its type: in particular the event queue respects its
\* bound and the manager's program counter stays in the loop of wifi_manager().
THEOREM TypeCorrect == Spec => []TypeOK
<1>1. ASSUME Init PROVE TypeOK
  <2>1. events \in Seq(Event) /\ Len(events) <= MaxEvents
    BY <1>1, BoundsAssumption DEF Init
  <2>2. bits \subseteq Bit
    BY <1>1 DEF Init, BootBits, Bit, RequestBit
  <2>3. link \in [st : {"down", "joining", "up"}, conf : ConfOrNone, refused : BOOLEAN]
    BY <1>1 DEF Init, ConfOrNone
  <2>4. /\ nvs \in ConfOrNone /\ configSta \in ConfOrNone /\ http.conf \in ConfOrNone
        /\ proven \subseteq AnyConf /\ kept \subseteq AnyConf
    BY <1>1, ConfAssumption DEF Init, ConfOrNone, AnyConf
  <2>5. stimuli \in 0..MaxStimuli
    BY <1>1, BoundsAssumption DEF Init
  <2>6. ping \in [Pinger -> {"none", "sent", "replied", "stop", "lost"}]
    BY <1>1 DEF Init
  <2> QED
    BY <1>1, <2>1, <2>2, <2>3, <2>4, <2>5, <2>6 DEF Init, TypeOK, Label
<1>2. TypeOK /\ [Next]_vars => TypeOK'
  <2>1. ASSUME TypeOK, Next PROVE TypeOK'
    BY <2>1, DriverType, HandlerType, TimerType, PingType, ClientType, ManagerType,
       RebootType DEF Next
  <2>2. ASSUME TypeOK, UNCHANGED vars PROVE TypeOK'
    BY <2>2 DEF TypeOK
  <2> QED
    BY <2>1, <2>2
<1> QED
  BY <1>1, <1>2, PTL DEF Spec

-----------------------------------------------------------------------------
(* The connected bit.  Only the event handler moves WIFI_CONNECTED, in the *)
(* order of the queue; only the driver and esp_wifi_disconnect() extend    *)
(* the queue, and each link change posts its event in the same step.       *)

LEMMA LastOfAppend ==
  ASSUME NEW S, NEW s \in Seq(S), NEW e \in S
  PROVE  /\ Append(s, e) # << >>
         /\ Append(s, e)[Len(Append(s, e))] = e
OBVIOUS

LEMMA LastOfTail ==
  ASSUME NEW S, NEW s \in Seq(S), s # << >>
  PROVE  IF Tail(s) = << >> THEN s[Len(s)] = Head(s)
         ELSE Tail(s)[Len(Tail(s))] = s[Len(s)]
<1>1. Len(s) \in Nat /\ Len(s) > 0 /\ Head(s) = s[1]
  OBVIOUS
<1>2. Tail(s) \in Seq(S) /\ Len(Tail(s)) = Len(s) - 1
  OBVIOUS
<1>3. \A i \in 1..(Len(s) - 1) : Tail(s)[i] = s[i + 1]
  OBVIOUS
<1>4. CASE Len(s) = 1
  <2>1. Tail(s) # << >> => Len(Tail(s)) \in Nat \ {0}
    BY <1>2, EmptySeq
  <2>2. Len(Tail(s)) = 0
    BY <1>2, <1>4
  <2>3. Tail(s) = << >>
    BY <2>1, <2>2
  <2> QED
    BY <1>1, <1>4, <2>3
<1>5. CASE Len(s) > 1
  <2>1. Tail(s) # << >>
    <3>1. Len(Tail(s)) # 0
      BY <1>1, <1>2, <1>5
    <3>2. Len(<< >>) = 0
      OBVIOUS
    <3> QED
      BY <3>1, <3>2
  <2>2. Tail(s)[Len(Tail(s))] = s[Len(s)]
    BY <1>1, <1>2, <1>3, <1>5
  <2> QED
    BY <2>1, <2>2
<1> QED
  BY <1>1, <1>4, <1>5

\* What a step leaves alone when it concerns neither the link nor its bit.
LEMMA NewsFrame ==
  ASSUME LatestNewsTruthful, UNCHANGED <<events, hpc>>, link'.st = "up" <=> link.st = "up",
         "WIFI_CONNECTED" \in bits' <=> "WIFI_CONNECTED" \in bits
  PROVE  LatestNewsTruthful'
BY DEF LatestNewsTruthful, LatestNewsIsUp

LEMMA NewsDriver == TypeOK /\ LatestNewsTruthful /\ Driver => LatestNewsTruthful'
<1> SUFFICES ASSUME TypeOK, LatestNewsTruthful, Driver PROVE LatestNewsTruthful'
  OBVIOUS
<1>1. CASE JoinSucceeds
  <2>1. events' # << >> /\ events'[Len(events')] = "GOT_IP"
    BY <1>1, LastOfAppend, "GOT_IP" \in Event DEF TypeOK, JoinSucceeds, Event
  <2>2. link'.st = "up"
    BY <1>1 DEF TypeOK, JoinSucceeds
  <2> QED
    BY <2>1, <2>2 DEF LatestNewsTruthful, LatestNewsIsUp
<1>2. ASSUME NEW from, NEW r \in Reason, LinkDown(from, r) PROVE LatestNewsTruthful'
  <2>1. events' # << >> /\ events'[Len(events')] = r
    BY <1>2, LastOfAppend, r \in Event DEF TypeOK, LinkDown, Event
  <2>2. link'.st = "down" /\ r # "GOT_IP"
    BY <1>2 DEF TypeOK, LinkDown, Reason
  <2> QED
    BY <2>1, <2>2 DEF LatestNewsTruthful, LatestNewsIsUp
<1> QED
  BY <1>1, <1>2, EnvAssumption DEF Driver, JoinFails, LinkLost

LEMMA NewsHandler == TypeOK /\ LatestNewsTruthful /\ EventHandler => LatestNewsTruthful'
<1> SUFFICES ASSUME TypeOK, LatestNewsTruthful, EventHandler PROVE LatestNewsTruthful'
  OBVIOUS
<1> USE DEF HandlerRest, LatestNewsTruthful, LatestNewsIsUp
<1>1. CASE HandleGotIp
  <2>1. "WIFI_CONNECTED" \in bits' /\ hpc' = "take"
    BY <1>1 DEF HandleGotIp, SetBits
  <2>2. IF events' = << >> THEN events[Len(events)] = "GOT_IP"
        ELSE events'[Len(events')] = events[Len(events)]
    BY <1>1, LastOfTail DEF TypeOK, HandleGotIp
  <2> QED
    BY <1>1, <2>1, <2>2 DEF HandleGotIp
<1>2. CASE HandleDisconnected
  <2>1. IF events' = << >> THEN events[Len(events)] # "GOT_IP"
        ELSE events'[Len(events')] = events[Len(events)]
    BY <1>2, LastOfTail DEF TypeOK, HandleDisconnected
  <2> QED
    BY <1>2, <2>1 DEF HandleDisconnected
<1>3. CASE HandlerMark
  BY <1>3 DEF HandlerMark
<1>4. CASE HandlerClearConnected
  BY <1>4 DEF HandlerClearConnected, ClearBits
<1>5. CASE HandlerClearInternet
  BY <1>5 DEF HandlerClearInternet, ClearBits
<1> QED
  BY <1>1, <1>2, <1>3, <1>4, <1>5 DEF EventHandler

LEMMA NewsOthers ==
  LatestNewsTruthful /\ (TimerExpires \/ PingThread \/ CheckConnectionAsync \/ HttpServer)
    => LatestNewsTruthful'
<1> SUFFICES ASSUME LatestNewsTruthful,
                    TimerExpires \/ PingThread \/ CheckConnectionAsync \/ HttpServer
             PROVE  LatestNewsTruthful'
  OBVIOUS
<1> USE NewsFrame
<1>1. CASE TimerExpires
  BY <1>1 DEF TimerExpires, SetBits
<1>2. CASE PingThread
  BY <1>2 DEF PingThread, PingReply, PingInternet, PingStopTimer, PingFlush, PingRequest,
              PingRest, SetBits
<1>3. CASE CheckConnectionAsync \/ HttpServer
  BY <1>3 DEF CheckConnectionAsync, HttpServer, ScanAsync, DisconnectAsync, AsyncRequest,
              PostConnect, PostGoesOn, PostSsid, PostPassword, PostCopies, PostFlush,
              PostRequest, HttpRest, SetBits
<1> QED
  BY <1>1, <1>2, <1>3

LEMMA NewsManager == TypeOK /\ LatestNewsTruthful /\ Manager => LatestNewsTruthful'
<1> SUFFICES ASSUME TypeOK, LatestNewsTruthful, Manager PROVE LatestNewsTruthful'
  OBVIOUS
<1> USE DEF OutsideManager
<1>1. ASSUME NEW from, NEW to, LeaveAccessPoint(from, to) PROVE LatestNewsTruthful'
  <2>1. CASE link.st # "down" \/ IdleLeave
    <3>1. events' # << >> /\ events'[Len(events')] = "ASSOC_LEAVE"
      BY <1>1, <2>1, LastOfAppend, "ASSOC_LEAVE" \in Event
      DEF TypeOK, LeaveAccessPoint, EspWifiDisconnect, Event
    <3>2. link'.st = "down"
      BY <1>1, <2>1 DEF TypeOK, LeaveAccessPoint, EspWifiDisconnect
    <3> QED
      BY <3>1, <3>2 DEF LatestNewsTruthful, LatestNewsIsUp
  <2>2. CASE ~(link.st # "down" \/ IdleLeave)
    BY <1>1, <2>2, NewsFrame DEF LeaveAccessPoint, EspWifiDisconnect
  <2> QED
    BY <2>1, <2>2
<1>2. CASE Connect
  BY <1>2, NewsFrame DEF Connect, EspWifiConnect, TypeOK
<1>3. ASSUME NEW from, NEW to, NEW b, ManagerClears(from, to, b), "WIFI_CONNECTED" \notin b
      PROVE  LatestNewsTruthful'
  BY <1>3, NewsFrame DEF ManagerClears, ClearBits
<1>4. ASSUME NEW from, NEW to, AwaitLeft(from, to) \/ WaitBits(from, to)
      PROVE  LatestNewsTruthful'
  BY <1>4, NewsFrame DEF AwaitLeft, WaitBits
<1>5. CASE ServeDisconnect
  <2>1. CASE DisconnectClearInternet \/ DisconnectErase \/ DisconnectSave \/ DisconnectDone
    BY <2>1, NewsFrame DEF DisconnectClearInternet, DisconnectErase, DisconnectSave,
                           DisconnectDone, ManagerStores, ClearBits
  <2> QED
    BY <1>1, <1>3, <1>4, <1>5, <2>1 DEF ServeDisconnect
<1>6. CASE ServeConnect
  <2>1. CASE JoinedOk \/ ConnectTimer \/ JoinedNot
    BY <2>1, NewsFrame DEF JoinedOk, ConnectTimer, JoinedNot, ClearBits
  <2> QED
    BY <1>1, <1>2, <1>3, <1>4, <1>6, <2>1 DEF ServeConnect, AwaitJoin
<1>7. CASE CheckConnection
  BY <1>7, NewsFrame DEF CheckConnection, CheckPing, CheckTimeout, CheckNotConnected, ClearBits
<1>8. CASE ServeTest
  <2>1. CASE FetchStored \/ StoredRequest
    BY <2>1, NewsFrame DEF FetchStored, StoredRequest, ManagerStores
  <2> QED
    BY <1>3, <1>8, <2>1 DEF ServeTest
<1>9. CASE AwaitRequest \/ Scan
  BY <1>3, <1>4, <1>9 DEF AwaitRequest, Scan
<1>10. CASE Dispatch \/ TailRead \/ TailLed
  BY <1>10, NewsFrame DEF Dispatch, TailRead, TailLed
<1> QED
  BY <1>5, <1>6, <1>7, <1>8, <1>9, <1>10 DEF Manager

\* The event group's WIFI_CONNECTED bit, on which the web server, the MQTT client
\* and the manager itself rely, agrees with the station driver whenever the event
\* handler has caught up: for any credentials, clients, faults and queue length.
THEOREM ConnectedBitIsTruthful == Spec => []ConnectedBitTruthful
<1>1. Init => LatestNewsTruthful
  BY DEF Init, LatestNewsTruthful, LatestNewsIsUp, BootBits
<1>2. TypeOK /\ LatestNewsTruthful /\ [Next]_vars => LatestNewsTruthful'
  <2>1. CASE Reboot
    BY <2>1 DEF Reboot, LatestNewsTruthful, LatestNewsIsUp, BootBits
  <2>2. ASSUME LatestNewsTruthful, UNCHANGED vars PROVE LatestNewsTruthful'
    BY <2>2, NewsFrame
  <2> QED
    BY <2>1, <2>2, NewsDriver, NewsHandler, NewsOthers, NewsManager DEF Next
<1>3. LatestNewsTruthful => ConnectedBitTruthful
  BY DEF LatestNewsTruthful, LatestNewsIsUp, ConnectedBitTruthful
<1> QED
  BY <1>1, <1>2, <1>3, TypeCorrect, PTL DEF Spec

-----------------------------------------------------------------------------
(* The waits of the manager.  STA_DISCONNECT is set by the handler and     *)
(* cleared by the manager alone, so an answer that is on its way, or in    *)
(* the bits, stays there until the manager takes it.                       *)

Leaving == {"d_leaving", "c_leaving"}

DownEventPending == \E i \in DOMAIN events : events[i] # "GOT_IP"

LEMMA SetBitsMoves ==
  ASSUME NEW b, SetBits(b)
  PROVE  /\ bits' = bits \cup b
         /\ pc' = pc \/ pc' \in {"dispatch", "joined", "c_timer", "p_done"}
         /\ pc = "joining" /\ b \cap {"WIFI_CONNECTED", "STA_DISCONNECT"} # {}
              => pc' = "joined"
BY DEF SetBits, Awaited, Resume

LEMMA AppendKeeps ==
  ASSUME NEW S, NEW s \in Seq(S), NEW e \in S
  PROVE  /\ \A i \in DOMAIN s : i \in DOMAIN Append(s, e) /\ Append(s, e)[i] = s[i]
         /\ \E i \in DOMAIN Append(s, e) : Append(s, e)[i] = e
<1>1. /\ DOMAIN s = 1..Len(s) /\ Len(s) \in Nat
      /\ DOMAIN Append(s, e) = 1..(Len(s) + 1)
  OBVIOUS
<1>2. Append(s, e)[Len(s) + 1] = e /\ \A i \in 1..Len(s) : Append(s, e)[i] = s[i]
  OBVIOUS
<1>3. \A i \in 1..Len(s) : i \in 1..(Len(s) + 1)
  BY <1>1
<1>4. Len(s) + 1 \in 1..(Len(s) + 1)
  BY <1>1
<1> QED
  BY <1>1, <1>2, <1>3, <1>4

LEMMA TailKeeps ==
  ASSUME NEW S, NEW s \in Seq(S), s # << >>, NEW i \in DOMAIN s, s[i] # Head(s)
  PROVE  \E j \in DOMAIN Tail(s) : Tail(s)[j] = s[i]
<1>1. /\ DOMAIN s = 1..Len(s) /\ Len(s) \in Nat /\ Head(s) = s[1]
      /\ DOMAIN Tail(s) = 1..(Len(s) - 1)
      /\ \A j \in 1..(Len(s) - 1) : Tail(s)[j] = s[j + 1]
  OBVIOUS
<1>2. i \in 2..Len(s)
  BY <1>1
<1>3. i - 1 \in 1..(Len(s) - 1) /\ (i - 1) + 1 = i
  BY <1>1, <1>2
<1> QED
  BY <1>1, <1>3

\* The manager's arrival at a wait for STA_DISCONNECT has just queued the answer.
LEMMA LeaveQueued ==
  ASSUME TypeOK, IdleLeave, NEW from, NEW to, LeaveAccessPoint(from, to)
  PROVE  DownEventPending'
<1>1. events' = Append(events, "ASSOC_LEAVE")
  BY DEF LeaveAccessPoint, EspWifiDisconnect
<1>2. "ASSOC_LEAVE" \in Event /\ events \in Seq(Event)
  BY DEF Event, TypeOK
<1> QED
  BY <1>1, <1>2, AppendKeeps DEF DownEventPending

LEMMA LeaveFrame ==
  ASSUME LeaveAnswered, pc' \in Leaving => pc \in Leaving,
         "STA_DISCONNECT" \in bits => "STA_DISCONNECT" \in bits',
         hpc = "mark" => hpc' = "mark", DownEventPending => DownEventPending'
  PROVE  LeaveAnswered'
BY DEF LeaveAnswered, DownEventPending, Leaving

LEMMA LeaveHandler == TypeOK /\ LeaveAnswered /\ EventHandler => LeaveAnswered'
<1> SUFFICES ASSUME TypeOK, LeaveAnswered, EventHandler PROVE LeaveAnswered'
  OBVIOUS
<1> USE DEF HandlerRest
<1>1. CASE HandleGotIp
  <2>1. DownEventPending => DownEventPending'
    <3> SUFFICES ASSUME NEW i \in DOMAIN events, events[i] # "GOT_IP"
                 PROVE  DownEventPending'
      BY DEF DownEventPending
    <3>1. /\ events \in Seq(Event) /\ events # << >> /\ events[i] # Head(events)
          /\ events' = Tail(events)
      BY <1>1 DEF TypeOK, HandleGotIp
    <3>2. PICK j \in DOMAIN Tail(events) : Tail(events)[j] = events[i]
      BY <3>1, TailKeeps
    <3> QED
      BY <3>1, <3>2 DEF DownEventPending
  <2> QED
    BY <1>1, <2>1, SetBitsMoves, LeaveFrame DEF HandleGotIp, Leaving
<1>2. CASE HandleDisconnected
  BY <1>2 DEF HandleDisconnected, LeaveAnswered
<1>3. CASE HandlerMark
  BY <1>3, SetBitsMoves DEF HandlerMark, LeaveAnswered
<1>4. CASE HandlerClearConnected \/ HandlerClearInternet
  BY <1>4, LeaveFrame DEF HandlerClearConnected, HandlerClearInternet, ClearBits, DownEventPending
<1> QED
  BY <1>1, <1>2, <1>3, <1>4 DEF EventHandler

LEMMA LeaveOthers ==
  TypeOK /\ LeaveAnswered
    /\ (Driver \/ TimerExpires \/ PingThread \/ CheckConnectionAsync \/ HttpServer)
    => LeaveAnswered'
<1> SUFFICES ASSUME TypeOK, LeaveAnswered,
                    Driver \/ TimerExpires \/ PingThread \/ CheckConnectionAsync \/ HttpServer
             PROVE  LeaveAnswered'
  OBVIOUS
<1> USE LeaveFrame
<1>1. CASE Driver
  <2>1. PICK e \in Event : events' = Append(events, e)
    BY <1>1, EnvAssumption DEF Driver, JoinSucceeds, JoinFails, LinkLost, LinkDown, Event
  <2>2. DownEventPending => DownEventPending'
    BY <2>1, AppendKeeps DEF TypeOK, DownEventPending
  <2> QED
    BY <1>1, <2>2 DEF Driver, JoinSucceeds, JoinFails, LinkLost, LinkDown
<1>2. CASE TimerExpires
  BY <1>2, SetBitsMoves DEF TimerExpires, Leaving, DownEventPending
<1>3. CASE PingThread
  BY <1>3, SetBitsMoves
  DEF PingThread, PingReply, PingInternet, PingStopTimer, PingFlush, PingRequest, PingRest,
      Leaving, DownEventPending
<1>4. CASE CheckConnectionAsync \/ HttpServer
  BY <1>4, SetBitsMoves
  DEF CheckConnectionAsync, HttpServer, ScanAsync, DisconnectAsync, AsyncRequest,
      PostConnect, PostGoesOn, PostSsid, PostPassword, PostCopies, PostFlush, PostRequest,
      HttpRest, Leaving, DownEventPending
<1> QED
  BY <1>1, <1>2, <1>3, <1>4

\* The manager enters those waits only by asking the driver to leave.
LEMMA LeaveManager == TypeOK /\ Manager => LeaveAnswered'
<1> SUFFICES ASSUME TypeOK, Manager PROVE LeaveAnswered'
  OBVIOUS
<1>1. ASSUME pc' \notin Leaving PROVE LeaveAnswered'
  BY <1>1 DEF LeaveAnswered, Leaving
<1>2. ASSUME NEW from, NEW to, LeaveAccessPoint(from, to) PROVE LeaveAnswered'
  BY <1>2, LeaveQueued DEF LeaveAnswered, DownEventPending
<1> USE DEF Goto, Chain, Leaving, ConnectScanOrTest
<1>3. CASE AwaitRequest \/ Dispatch \/ Scan \/ TailRead \/ TailLed
  BY <1>1, <1>3 DEF AwaitRequest, WaitBits, Resume, Dispatch, Scan, ManagerClears, TailRead,
                    TailLed
<1>4. CASE ServeDisconnect
  BY <1>1, <1>2, <1>4
  DEF ServeDisconnect, DisconnectClearInternet, ManagerClears, AwaitLeft, DisconnectErase,
      DisconnectSave, ManagerStores, DisconnectDone
<1>5. CASE ServeConnect
  BY <1>1, <1>2, <1>5
  DEF ServeConnect, ManagerClears, AwaitLeft, Connect, AwaitJoin, WaitBits, Resume, JoinedOk,
      ConnectTimer, JoinedNot
<1>6. CASE CheckConnection
  BY <1>1, <1>6 DEF CheckConnection, CheckPing, CheckTimeout, CheckNotConnected, Resume
<1>7. CASE ServeTest
  BY <1>1, <1>7 DEF ServeTest, FetchStored, StoredRequest, ManagerStores, ManagerClears
<1> QED
  BY <1>3, <1>4, <1>5, <1>6, <1>7 DEF Manager

\* The manager is never left waiting for a disconnection that nothing will report:
\* no interleaving of its calls with the handler's consumes the answer too early.
THEOREM LeaveIsAnswered == Spec => []LeaveAnswered
<1>1. Init => LeaveAnswered
  BY DEF Init, LeaveAnswered
<1>2. TypeOK /\ LeaveAnswered /\ [Next]_vars => LeaveAnswered'
  <2>1. CASE Reboot
    BY <2>1 DEF Reboot, LeaveAnswered
  <2>2. ASSUME LeaveAnswered, UNCHANGED vars PROVE LeaveAnswered'
    BY <2>2 DEF LeaveAnswered
  <2> QED
    BY <2>1, <2>2, LeaveHandler, LeaveOthers, LeaveManager DEF Next
<1> QED
  BY <1>1, <1>2, TypeCorrect, PTL DEF Spec

LEMMA JoinDriver == TypeOK /\ Driver => JoinWillBeAnswered'
<1> SUFFICES ASSUME TypeOK, Driver PROVE JoinWillBeAnswered'
  OBVIOUS
<1>1. PICK e \in Event : events' = Append(events, e)
  BY EnvAssumption DEF Driver, JoinSucceeds, JoinFails, LinkLost, LinkDown, Event
<1>2. events' # << >>
  BY <1>1, LastOfAppend DEF TypeOK
<1> QED
  BY <1>2 DEF JoinWillBeAnswered

LEMMA JoinHandler == TypeOK /\ JoinWillBeAnswered /\ EventHandler => JoinWillBeAnswered'
<1> SUFFICES ASSUME TypeOK, JoinWillBeAnswered, EventHandler PROVE JoinWillBeAnswered'
  OBVIOUS
<1> USE DEF HandlerRest, JoinWillBeAnswered
<1>1. CASE HandleGotIp
  BY <1>1, SetBitsMoves DEF HandleGotIp
<1>2. CASE HandleDisconnected
  BY <1>2 DEF HandleDisconnected
<1>3. CASE HandlerMark
  BY <1>3, SetBitsMoves DEF HandlerMark
<1>4. CASE HandlerClearConnected
  BY <1>4 DEF HandlerClearConnected, ClearBits
<1>5. CASE HandlerClearInternet
  BY <1>5 DEF HandlerClearInternet, ClearBits
<1> QED
  BY <1>1, <1>2, <1>3, <1>4, <1>5 DEF EventHandler

LEMMA JoinOthers ==
  JoinWillBeAnswered /\ (TimerExpires \/ PingThread \/ CheckConnectionAsync \/ HttpServer)
    => JoinWillBeAnswered'
<1> SUFFICES ASSUME JoinWillBeAnswered,
                    TimerExpires \/ PingThread \/ CheckConnectionAsync \/ HttpServer
             PROVE  JoinWillBeAnswered'
  OBVIOUS
<1> USE SetBitsMoves DEF JoinWillBeAnswered
<1>1. CASE TimerExpires
  BY <1>1 DEF TimerExpires
<1>2. CASE PingThread
  BY <1>2 DEF PingThread, PingReply, PingInternet, PingStopTimer, PingFlush, PingRequest,
              PingRest
<1>3. CASE CheckConnectionAsync \/ HttpServer
  BY <1>3 DEF CheckConnectionAsync, HttpServer, ScanAsync, DisconnectAsync, AsyncRequest,
              PostConnect, PostGoesOn, PostSsid, PostPassword, PostCopies, PostFlush,
              PostRequest, HttpRest
<1> QED
  BY <1>1, <1>2, <1>3

LEMMA JoinManager == TypeOK /\ JoinWillBeAnswered /\ Manager => JoinWillBeAnswered'
<1> SUFFICES ASSUME TypeOK, JoinWillBeAnswered, Manager PROVE JoinWillBeAnswered'
  OBVIOUS
<1>1. ASSUME pc' \notin {"c_wait", "joining"} PROVE JoinWillBeAnswered'
  BY <1>1 DEF JoinWillBeAnswered
<1> USE DEF Goto, Chain, ConnectScanOrTest
<1>2. CASE Connect
  BY <1>2 DEF Connect, EspWifiConnect, TypeOK, JoinWillBeAnswered
<1>3. CASE AwaitJoin
  BY <1>3 DEF AwaitJoin, WaitBits, Awaited, Resume, JoinWillBeAnswered
<1>4. CASE AwaitRequest \/ Dispatch \/ Scan \/ TailRead \/ TailLed
  BY <1>1, <1>4 DEF AwaitRequest, WaitBits, Resume, Dispatch, Scan, ManagerClears, TailRead,
                    TailLed
<1>5. CASE ServeDisconnect
  BY <1>1, <1>5
  DEF ServeDisconnect, DisconnectClearInternet, ManagerClears, LeaveAccessPoint, AwaitLeft,
      DisconnectErase, DisconnectSave, ManagerStores, DisconnectDone
<1>6. CASE ServeConnect
  BY <1>1, <1>2, <1>3, <1>6
  DEF ServeConnect, ManagerClears, LeaveAccessPoint, AwaitLeft, JoinedOk, ConnectTimer, JoinedNot
<1>7. CASE CheckConnection
  BY <1>1, <1>7 DEF CheckConnection, CheckPing, CheckTimeout, CheckNotConnected, Resume
<1>8. CASE ServeTest
  BY <1>1, <1>8 DEF ServeTest, FetchStored, StoredRequest, ManagerStores, ManagerClears
<1> QED
  BY <1>4, <1>5, <1>6, <1>7, <1>8 DEF Manager

\* The manager waits for the outcome of a join only while the driver is joining or
\* the outcome is on its way: the one exception is a connect the driver refused.
THEOREM JoinIsAnswered == Spec => []JoinAnswered
<1>1. Init => JoinWillBeAnswered
  BY DEF Init, JoinWillBeAnswered
<1>2. TypeOK /\ JoinWillBeAnswered /\ [Next]_vars => JoinWillBeAnswered'
  <2>1. CASE Reboot
    BY <2>1 DEF Reboot, JoinWillBeAnswered
  <2>2. ASSUME JoinWillBeAnswered, UNCHANGED vars PROVE JoinWillBeAnswered'
    BY <2>2 DEF JoinWillBeAnswered
  <2> QED
    BY <2>1, <2>2, JoinDriver, JoinHandler, JoinOthers, JoinManager DEF Next
<1>3. JoinWillBeAnswered => JoinAnswered
  BY DEF JoinWillBeAnswered, JoinAnswered
<1> QED
  BY <1>1, <1>2, <1>3, TypeCorrect, PTL DEF Spec

-----------------------------------------------------------------------------
(* Forgotten credentials.  The invariant is inductive as it stands: flash  *)
(* is only ever written from memory, and memory from flash or from a POST; *)
(* the erasure in memory and the save after it are the manager's own.      *)

LEMMA SourceFrame ==
  ASSUME ForgottenStaysForgotten, UNCHANGED <<configSta, nvs, kept>>,
         pc = "d_save" => pc' = "d_save"
  PROVE  ForgottenStaysForgotten'
BY DEF ForgottenStaysForgotten

\* A bit set by another task does not move the manager out of its save.
LEMMA SetBitsNotSaving ==
  ASSUME NEW b, SetBits(b), pc = "d_save"
  PROVE  pc' = "d_save"
BY DEF SetBits, Awaited

\* Of the actors outside the manager only POST /connect.json touches them.
LEMMA SourceOthers ==
  ForgottenStaysForgotten /\ (Driver \/ EventHandler \/ TimerExpires \/ PingThread
                                \/ CheckConnectionAsync \/ HttpServer)
    => ForgottenStaysForgotten'
<1> SUFFICES ASSUME ForgottenStaysForgotten,
                    Driver \/ EventHandler \/ TimerExpires \/ PingThread
                      \/ CheckConnectionAsync \/ HttpServer
             PROVE  ForgottenStaysForgotten'
  OBVIOUS
<1> USE SetBitsNotSaving
<1>1. CASE Driver
  BY <1>1, SourceFrame DEF Driver, JoinSucceeds, JoinFails, LinkLost, LinkDown
<1>2. CASE EventHandler
  BY <1>2, SourceFrame
  DEF EventHandler, HandleGotIp, HandleDisconnected, HandlerMark, HandlerClearConnected,
      HandlerClearInternet, HandlerRest
<1>3. CASE TimerExpires \/ PingThread
  BY <1>3, SourceFrame
  DEF TimerExpires, PingThread, PingReply, PingInternet, PingStopTimer, PingFlush,
      PingRequest, PingRest
<1>4. CASE CheckConnectionAsync
  BY <1>4, SourceFrame DEF CheckConnectionAsync, AsyncRequest
<1>5. CASE HttpServer
  <2>1. ASSUME NEW c \in Conf, PostConnect(c) PROVE ForgottenStaysForgotten'
    BY <2>1 DEF PostConnect, HttpRest, ForgottenStaysForgotten
  <2>2. ASSUME NEW c, PostCopies(c) PROVE ForgottenStaysForgotten'
    BY <2>2 DEF PostCopies, HttpRest, ForgottenStaysForgotten
  <2>3. CASE ScanAsync \/ DisconnectAsync \/ PostFlush \/ PostRequest
    BY <2>3, SourceFrame
    DEF ScanAsync, DisconnectAsync, AsyncRequest, PostFlush, PostRequest, HttpRest
  <2> QED
    BY <1>5, <2>1, <2>2, <2>3 DEF HttpServer, PostGoesOn, PostSsid, PostPassword
<1> QED
  BY <1>1, <1>2, <1>3, <1>4, <1>5

LEMMA SourceManager == ForgottenStaysForgotten /\ Manager => ForgottenStaysForgotten'
<1> SUFFICES ASSUME ForgottenStaysForgotten, Manager PROVE ForgottenStaysForgotten'
  OBVIOUS
<1> USE DEF OutsideManager, Goto
<1>1. ASSUME NEW from, NEW to, NEW b, ManagerClears(from, to, b), from # "d_save"
      PROVE  ForgottenStaysForgotten'
  BY <1>1, SourceFrame DEF ManagerClears
<1>2. ASSUME NEW from, NEW to, LeaveAccessPoint(from, to) \/ AwaitLeft(from, to),
             from # "d_save"
      PROVE  ForgottenStaysForgotten'
  BY <1>2, SourceFrame DEF LeaveAccessPoint, AwaitLeft
<1>3. CASE AwaitRequest \/ Dispatch \/ TailRead \/ TailLed
  BY <1>3, SourceFrame DEF AwaitRequest, WaitBits, Dispatch, Chain, TailRead, TailLed
<1>4. CASE ServeDisconnect
  <2>1. CASE DisconnectErase
    BY <2>1 DEF DisconnectErase, ForgottenStaysForgotten
  <2>2. CASE DisconnectSave
    BY <2>2 DEF DisconnectSave, ManagerStores, ForgottenStaysForgotten
  <2>3. CASE DisconnectClearInternet \/ DisconnectDone
    BY <2>3, SourceFrame DEF DisconnectClearInternet, DisconnectDone, Chain
  <2> QED
    BY <1>1, <1>2, <1>4, <2>1, <2>2, <2>3 DEF ServeDisconnect
<1>5. CASE ServeConnect
  <2>1. CASE Connect \/ AwaitJoin \/ ConnectTimer
    BY <2>1, SourceFrame DEF Connect, AwaitJoin, WaitBits, ConnectTimer
  <2>2. CASE JoinedOk
    BY <2>2 DEF JoinedOk, ForgottenStaysForgotten
  <2>3. CASE JoinedNot
    BY <2>3 DEF JoinedNot, ForgottenStaysForgotten
  <2> QED
    BY <1>1, <1>2, <1>5, <2>1, <2>2, <2>3 DEF ServeConnect
<1>6. CASE CheckConnection
  BY <1>6, SourceFrame DEF CheckConnection, CheckPing, CheckTimeout, CheckNotConnected
<1>7. CASE ServeTest
  <2>1. CASE FetchStored
    BY <2>1 DEF FetchStored, ManagerStores, ForgottenStaysForgotten
  <2>2. CASE StoredRequest
    BY <2>2, SourceFrame DEF StoredRequest
  <2> QED
    BY <1>1, <1>7, <2>1, <2>2 DEF ServeTest
<1> QED
  BY <1>1, <1>3, <1>4, <1>5, <1>6, <1>7 DEF Manager, Scan

\* Once the manager has erased the credentials because of a DELETE and saved that, they
\* are in neither memory nor flash until they are submitted again, for any number of
\* failed joins, fetches, saves, restarts and concurrent POSTs.  Only an abort between
\* the erasure and the save leaves them in flash.
THEOREM ForgottenIsForgotten == Spec => []ForgottenStaysForgotten
<1>1. Init => ForgottenStaysForgotten
  BY DEF Init, ForgottenStaysForgotten
<1>2. ForgottenStaysForgotten /\ [Next]_vars => ForgottenStaysForgotten'
  <2>1. CASE Reboot
    BY <2>1 DEF Reboot, ForgottenStaysForgotten
  <2>2. ASSUME ForgottenStaysForgotten, UNCHANGED vars PROVE ForgottenStaysForgotten'
    BY <2>2, SourceFrame
  <2> QED
    BY <2>1, <2>2, SourceOthers, SourceManager DEF Next
<1> QED
  BY <1>1, <1>2, PTL DEF Spec

-----------------------------------------------------------------------------
(* The composition with the status LEDs.                                   *)

LEMMA LedManagerIsManager == LedManager => Manager
<1>1. SilentManager => Manager
  BY DEF SilentManager, Manager, ServeDisconnect, ServeConnect, CheckConnection
<1> QED
  BY <1>1 DEF LedManager, With, Quietly, Manager, ServeDisconnect, ServeConnect,
              CheckConnection

\* Calling LED_SetEventBit() between its own calls changes nothing for the Wi-Fi
\* manager: LED_SetEventBit() never blocks its caller, so that every behaviour of the
\* composition is one of WifiManager, whose theorems hold for it.
THEOREM LedsDoNotDisturb == ComposedSpec => Spec
<1>1. ComposedInit => Init
  BY DEF ComposedInit
<1>2. [ComposedNext]_allVars => [Next]_vars
  <2>1. LedHandler => EventHandler
    BY DEF LedHandler, With, Quietly, EventHandler
  <2>2. LedPing => PingThread
    BY DEF LedPing, With, Quietly, PingThread
  <2>3. LedTask => UNCHANGED vars
    BY DEF LedTask
  <2>4. LedReboot => Reboot
    BY DEF LedReboot
  <2>5. Quietly(Driver \/ TimerExpires \/ CheckConnectionAsync \/ HttpServer)
          => Driver \/ TimerExpires \/ CheckConnectionAsync \/ HttpServer
    BY DEF Quietly
  <2>6. UNCHANGED allVars => UNCHANGED vars
    BY DEF allVars
  <2> QED
    BY <2>1, <2>2, <2>3, <2>4, <2>5, <2>6, LedManagerIsManager DEF ComposedNext, Next
<1> QED
  BY <1>1, <1>2, PTL DEF ComposedSpec, Spec

\* led_task() is never left waiting while an event it waits for is in the group: the
\* bits it did not receive are those set since it last looked.
LedEventsReceived ==
  /\ taken \subseteq Led!LedBit /\ ledGroup \subseteq Led!LedBit
  /\ lamp \in [Led!Lamp -> BOOLEAN]
  /\ ledGroup # {} => taken # {}

LEMMA LedFrame ==
  ASSUME LedEventsReceived, UNCHANGED ledVars
  PROVE  LedEventsReceived'
BY DEF LedEventsReceived, ledVars

LEMMA LedSet ==
  ASSUME LedEventsReceived, NEW b \in Led!LedBit, Led!LED_SetEventBit(b)
  PROVE  LedEventsReceived'
BY DEF LedEventsReceived, Led!LED_SetEventBit

\* No LED event is left behind: a bit set while led_task() is showing others stays in
\* the group until its next wait, which returns at once.
THEOREM LedEventsAreTaken == ComposedSpec => []LedEventsReceived
<1>1. ComposedInit => LedEventsReceived
  BY DEF ComposedInit, Led!LedInit, LedEventsReceived, Led!Lamp
<1>2. LedEventsReceived /\ [ComposedNext]_allVars => LedEventsReceived'
  <2> SUFFICES ASSUME LedEventsReceived, [ComposedNext]_allVars PROVE LedEventsReceived'
    OBVIOUS
  <2>1. "WIFI_CONNECTED" \in Led!LedBit /\ "WIFI_DISCONNECTED" \in Led!LedBit
    BY DEF Led!LedBit
  <2>2. CASE LedHandler
    BY <2>1, <2>2, LedFrame, LedSet DEF LedHandler, With, Quietly
  <2>3. CASE LedPing
    BY <2>1, <2>3, LedFrame, LedSet DEF LedPing, With, Quietly
  <2>4. CASE LedManager
    BY <2>1, <2>4, LedFrame, LedSet DEF LedManager, With, Quietly
  <2>5. CASE LedTask
    <3>1. Led!Lamp = {"STAT1", "STAT3"}
      BY DEF Led!Lamp
    <3>2. ASSUME NEW l \in Led!Lamp, NEW on, NEW off PROVE Led!Shown(l, on, off) \in BOOLEAN
      BY DEF Led!Shown, LedEventsReceived
    <3>3. lamp' \in [Led!Lamp -> BOOLEAN]
      BY <2>5, <3>1, <3>2 DEF LedTask, Led!led_task
    <3> QED
      BY <2>5, <3>3 DEF LedTask, Led!led_task, LedEventsReceived
  <2>6. CASE LedReboot
    BY <2>6 DEF LedReboot, LedEventsReceived, Led!Lamp
  <2>7. CASE Quietly(Driver \/ TimerExpires \/ CheckConnectionAsync \/ HttpServer)
    BY <2>7, LedFrame DEF Quietly
  <2>8. CASE UNCHANGED allVars
    BY <2>8, LedFrame DEF allVars
  <2> QED
    BY <2>2, <2>3, <2>4, <2>5, <2>6, <2>7, <2>8 DEF ComposedNext
<1> QED
  BY <1>1, <1>2, PTL DEF ComposedSpec

=============================================================================
