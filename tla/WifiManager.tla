---------------------------- MODULE WifiManager ----------------------------
(***************************************************************************)
(* The Wi-Fi manager of the AirU firmware (src/main/wifi_manager.c): one   *)
(* FreeRTOS event group shared by the manager task, the system event       *)
(* handler, the ping thread, the reconnect timer, the HTTP server and the  *)
(* tasks that ask for a connection test.  The station driver is external.  *)
(*                                                                         *)
(* Every call on the event group is one step, because each is one atomic   *)
(* FreeRTOS call and the tasks run on two cores.  The calls of            *)
(* LED_SetEventBit() are added to these steps by module WifiLed, the       *)
(* mutex of the json buffers is module JsonBuffer and the writes of one    *)
(* save are module NvsConfig; here an access to either is one step, and a  *)
(* save does not fail.                                                     *)
(***************************************************************************)
EXTENDS Naturals, Sequences, FiniteSets

CONSTANTS
  Conf,         \* credentials a user can submit (ssid and password together)
  GoodConf,     \* the credentials some access point in range accepts
  NoConf,       \* the all-zero wifi_manager_config_sta (empty ssid)
  Torn,         \* an ssid whose password does not belong to it
  Clients,      \* which asynchronous requests the other tasks issue
  Failures,     \* reasons with which a join attempt may fail
  Kicks,        \* reasons with which an established link may be dropped
  IdleLeave,    \* does esp_wifi_disconnect() report on a station already down
  MaxStimuli,   \* web requests, failed joins, lost links and aborts in all (bound)
  Pinger,       \* ping threads alive at the same time (bound)
  MaxEvents,    \* length of the system event queue (bound)
  PanicTask     \* does panic_task() abort the firmware (hourly, at any step)

Request == {"post", "delete", "scan", "test"}
Reason  == {"AUTH_FAIL", "OTHER"}

ASSUME ConfAssumption   == /\ GoodConf \subseteq Conf \cup {Torn}
                           /\ NoConf \notin Conf \cup {Torn} /\ Torn \notin Conf
ASSUME EnvAssumption    == /\ Clients \subseteq Request
                           /\ Failures \subseteq Reason /\ Kicks \subseteq Reason
                           /\ IdleLeave \in BOOLEAN /\ PanicTask \in BOOLEAN
ASSUME BoundsAssumption == /\ MaxEvents \in Nat \ {0}
                           /\ MaxStimuli \in Nat

VARIABLES
  bits,       \* wifi_manager_event_group
  pc,         \* where the manager task is
  ux,         \* the manager's local uxBits
  retTo,      \* which branch called wifi_manager_check_connection()
  configSta,  \* *wifi_manager_config_sta
  nvs,        \* the credentials stored in flash
  urc,        \* ip_info_json: cleared, or reporting the outcome of some attempt
  timer,      \* wifi_reconnect_timer is active
  ping,       \* what each ping thread is doing
  link,       \* the station driver: state, the credentials it is joining with, and
              \* whether it refused the last esp_wifi_connect()
  events,     \* system events posted and not yet dispatched
  hpc,        \* the event handler's next call
  http,       \* the POST /connect.json being served: its next call, its credentials
  proven,     \* history: credentials that have obtained an IP address
  kept,       \* history: credentials stored at first or submitted, and not
              \* erased from memory since
  stimuli     \* web requests and faults so far (bounded by MaxStimuli)

managerVars == <<pc, ux, retTo>>
eventVars   == <<events, hpc>>
dataVars    == <<configSta, nvs, urc>>
historyVars == <<proven, kept, stimuli>>
vars == <<bits, managerVars, dataVars, timer, ping, link, eventVars,
          http, historyVars>>

-----------------------------------------------------------------------------
(* Types.                                                                  *)

AnyConf    == Conf \cup {Torn}
ConfOrNone == AnyConf \cup {NoConf}

RequestBit == {"REQUEST_STA_CONNECT", "REQUEST_WIFI_SCAN",
               "REQUEST_WIFI_DISCONNECT", "REQUEST_PING_TEST"}
Bit    == RequestBit \cup {"WIFI_CONNECTED", "STA_DISCONNECT", "HAVE_INTERNET"}

Event   == {"GOT_IP", "ASSOC_LEAVE"} \cup Reason

\* "idle", "joining", "pinging" and the two "leaving" labels are blocking waits.
Label == {"wait", "idle", "dispatch",
          "d_net", "d_mark", "d_leave", "d_leaving", "d_clear", "d_save", "d_done",
          "c_mark", "c_leave", "c_leaving", "c_clear", "c_connect", "c_wait",
          "joining", "joined", "c_timer", "c_done",
          "scan", "test", "pinging", "p_fetch", "p_request", "p_done",
          "tail", "tail_led"}

TypeOK ==
  /\ bits \subseteq Bit
  /\ pc \in Label
  /\ ux \subseteq Bit
  /\ retTo \in {"connect", "ping"}
  /\ configSta \in ConfOrNone
  /\ nvs \in ConfOrNone
  /\ urc \in {"cleared", "reported"}
  /\ timer \in BOOLEAN
  /\ ping \in [Pinger -> {"none", "sent", "replied", "stop", "lost"}]
  /\ link \in [st : {"down", "joining", "up"}, conf : ConfOrNone, refused : BOOLEAN]
  /\ events \in Seq(Event)
  /\ Len(events) <= MaxEvents
  /\ hpc \in {"take", "mark", "conn", "net"}
  /\ http \in [at : {"idle", "ssid", "password", "flush", "request"}, conf : ConfOrNone]
  /\ proven \subseteq AnyConf
  /\ kept \subseteq AnyConf
  /\ stimuli \in 0..MaxStimuli

-----------------------------------------------------------------------------
(* The event group.  A task blocked in xEventGroupWaitBits is released by  *)
(* the call that sets an awaited bit and is given the bits of that moment: *)
(* its snapshot is taken by the setter, whatever happens to the bits       *)
(* before the task runs again.                                             *)

Awaited(l) == CASE l = "idle"    -> RequestBit
                [] l = "joining" -> {"WIFI_CONNECTED", "STA_DISCONNECT"}
                [] l = "pinging" -> {"HAVE_INTERNET"}
                [] OTHER         -> {}

\* Where a released wait continues; "pinging" is the wait inside
\* wifi_manager_check_connection(), which returns to its caller.
Resume(l) == CASE l = "idle"    -> "dispatch"
               [] l = "joining" -> "joined"
               [] OTHER         -> IF retTo = "connect" THEN "c_timer" ELSE "p_done"

\* uxBits receives the result of the waits at "idle" and "joining" only; of its
\* bits the manager tests the requests and WIFI_CONNECTED, or the latter alone.
Snapshot(l, b) == CASE l = "idle"    -> b \cap (RequestBit \cup {"WIFI_CONNECTED"})
                    [] l = "joining" -> b \cap {"WIFI_CONNECTED"}
                    [] OTHER         -> ux

SetBits(b) ==
  /\ bits' = bits \cup b
  /\ IF Awaited(pc) \cap b # {}
     THEN pc' = Resume(pc) /\ ux' = Snapshot(pc, bits \cup b)
     ELSE UNCHANGED <<pc, ux>>
  /\ UNCHANGED retTo

\* The manager calls xEventGroupWaitBits at label from and blocks at label l.
WaitBits(from, l) ==
  /\ pc = from
  /\ IF Awaited(l) \cap bits # {}
     THEN pc' = Resume(l) /\ ux' = Snapshot(l, bits)
     ELSE pc' = l /\ UNCHANGED ux
  /\ UNCHANGED <<bits, retTo, dataVars, timer, ping, link, eventVars,
                 http, historyVars>>

Goto(from, to) == pc = from /\ pc' = to /\ UNCHANGED <<ux, retTo>>

ClearBits(b) == bits' = bits \ b

\* The bound on what the world does to the firmware.
Stimulus == stimuli < MaxStimuli /\ stimuli' = stimuli + 1

-----------------------------------------------------------------------------
(* The station driver (external).                                          *)

\* esp_wifi_disconnect(): an up or joining station leaves and posts an event;
\* whether a station that is already down posts one is IdleLeave.
EspWifiDisconnect ==
  IF link.st # "down" \/ IdleLeave
  THEN /\ Len(events) < MaxEvents
       /\ events' = Append(events, "ASSOC_LEAVE")
       /\ link' = [link EXCEPT !.st = "down", !.conf = NoConf]
  ELSE UNCHANGED <<events, link>>

\* esp_wifi_set_config() and esp_wifi_connect(): refused, with an error that
\* the manager only logs, when the ssid is empty or the station is not down.
EspWifiConnect ==
  link' = IF link.st = "down" /\ configSta # NoConf
          THEN [st |-> "joining", conf |-> configSta, refused |-> FALSE]
          ELSE [link EXCEPT !.refused = TRUE]

JoinSucceeds ==
  /\ link.st = "joining" /\ link.conf \in GoodConf
  /\ Len(events) < MaxEvents
  /\ link' = [link EXCEPT !.st = "up", !.conf = NoConf]
  /\ events' = Append(events, "GOT_IP")
  /\ proven' = proven \cup {link.conf}
  /\ UNCHANGED <<bits, managerVars, dataVars, timer, ping, hpc, http,
                 kept, stimuli>>

LinkDown(from, reason) ==
  /\ link.st = from
  /\ Stimulus
  /\ Len(events) < MaxEvents
  /\ link' = [link EXCEPT !.st = "down", !.conf = NoConf]
  /\ events' = Append(events, reason)
  /\ UNCHANGED <<bits, managerVars, dataVars, timer, ping, hpc, http,
                 proven, kept>>

JoinFails == \E r \in Failures : LinkDown("joining", r)

LinkLost == \E r \in Kicks : LinkDown("up", r)

Driver == JoinSucceeds \/ JoinFails \/ LinkLost

-----------------------------------------------------------------------------
(* wifi_manager_event_handler(), run by the system event task.  The        *)
(* soft-AP events only move bits that nothing reads after start-up.        *)

HandlerRest == UNCHANGED <<dataVars, timer, ping, link, http, historyVars>>

\* SYSTEM_EVENT_STA_GOT_IP.
HandleGotIp ==
  /\ hpc = "take" /\ events # <<>> /\ Head(events) = "GOT_IP"
  /\ SetBits({"WIFI_CONNECTED"})
  /\ events' = Tail(events)
  /\ UNCHANGED hpc /\ HandlerRest

\* Faulty variant: reasons that ask for no new connection end the handler.
HandleDisconnectedReturns ==
  /\ hpc = "take" /\ events # <<>> /\ Head(events) # "GOT_IP"
  /\ IF Head(events) = "OTHER"
     THEN SetBits({"REQUEST_STA_CONNECT"}) /\ hpc' = "mark"
     ELSE UNCHANGED <<bits, managerVars, hpc>>
  /\ events' = Tail(events)
  /\ HandlerRest

\* SYSTEM_EVENT_STA_DISCONNECTED: only a reason other than leaving or failing
\* to authenticate asks for a new connection.
HandleDisconnected ==
  /\ hpc = "take" /\ events # <<>> /\ Head(events) # "GOT_IP"
  /\ IF Head(events) = "OTHER"
     THEN SetBits({"REQUEST_STA_CONNECT"})
     ELSE UNCHANGED <<bits, managerVars>>
  /\ events' = Tail(events) /\ hpc' = "mark"
  /\ HandlerRest

HandlerMark ==
  /\ hpc = "mark" /\ hpc' = "conn"
  /\ SetBits({"STA_DISCONNECT"})
  /\ UNCHANGED events /\ HandlerRest

\* Faulty variant: WIFI_CONNECTED is left set.
HandlerKeepsConnected ==
  /\ hpc = "conn" /\ hpc' = "net"
  /\ UNCHANGED <<bits, managerVars, events>> /\ HandlerRest

HandlerClearConnected ==
  /\ hpc = "conn" /\ hpc' = "net"
  /\ ClearBits({"WIFI_CONNECTED"})
  /\ UNCHANGED <<managerVars, events>> /\ HandlerRest

HandlerClearInternet ==
  /\ hpc = "net" /\ hpc' = "take"
  /\ ClearBits({"HAVE_INTERNET"})
  /\ UNCHANGED <<managerVars, events>> /\ HandlerRest

EventHandler == \/ HandleGotIp \/ HandleDisconnected \/ HandlerMark
                \/ HandlerClearConnected \/ HandlerClearInternet

-----------------------------------------------------------------------------
(* The reconnect timer and the ping thread.                                *)

\* vTimerCallback().
TimerExpires ==
  /\ timer /\ timer' = FALSE
  /\ SetBits({"REQUEST_PING_TEST"})
  /\ UNCHANGED <<dataVars, ping, link, eventVars, http, historyVars>>

PingRest == UNCHANGED <<configSta, nvs, link, eventVars, http, historyVars>>

\* An echo reply reaches a ping thread while the station is up.
PingReply(p) ==
  /\ ping[p] = "sent" /\ link.st = "up"
  /\ ping' = [ping EXCEPT ![p] = "replied"]
  /\ UNCHANGED <<bits, managerVars, urc, timer>> /\ PingRest

\* pingResults() with recv_count > 0.
PingInternet(p) ==
  /\ ping[p] = "replied"
  /\ ping' = [ping EXCEPT ![p] = "stop"]
  /\ SetBits({"HAVE_INTERNET"})
  /\ UNCHANGED <<urc, timer>> /\ PingRest

PingStopTimer(p) ==
  /\ ping[p] = "stop"
  /\ ping' = [ping EXCEPT ![p] = "none"]
  /\ timer' = FALSE
  /\ UNCHANGED <<bits, managerVars, urc>> /\ PingRest

\* The receive timeout expires: pingResults() calls wifi_manager_connect_async(),
\* which clears the status json and then sets the request.
PingFlush(p) ==
  /\ ping[p] = "sent"
  /\ ping' = [ping EXCEPT ![p] = "lost"]
  /\ urc' = "cleared"
  /\ UNCHANGED <<bits, managerVars, timer>> /\ PingRest

PingRequest(p) ==
  /\ ping[p] = "lost"
  /\ ping' = [ping EXCEPT ![p] = "none"]
  /\ SetBits({"REQUEST_STA_CONNECT"})
  /\ UNCHANGED <<urc, timer>> /\ PingRest

PingThread == \E p \in Pinger : \/ PingReply(p) \/ PingInternet(p) \/ PingStopTimer(p)
                                \/ PingFlush(p) \/ PingRequest(p)

-----------------------------------------------------------------------------
(* The other tasks.                                                        *)

\* wifi_manager_check_connection_async(), called by data_task() after a failed
\* publish and by the MQTT event handler; wifi_manager_scan_async(), called by
\* GET /ap.json; wifi_manager_disconnect_async(), called by DELETE /connect.json.
AsyncRequest(client, b) ==
  /\ client \in Clients
  /\ SetBits({b})
  /\ UNCHANGED <<dataVars, timer, ping, link, eventVars, http, proven, kept>>

CheckConnectionAsync == AsyncRequest("test", "REQUEST_PING_TEST") /\ UNCHANGED stimuli
ScanAsync       == http.at = "idle" /\ Stimulus /\ AsyncRequest("scan", "REQUEST_WIFI_SCAN")
DisconnectAsync == http.at = "idle" /\ Stimulus /\ AsyncRequest("delete", "REQUEST_WIFI_DISCONNECT")

HttpRest == UNCHANGED <<nvs, timer, ping, link, eventVars, proven>>

\* POST /connect.json writes the credentials in place, in three calls that nothing
\* keeps apart from the manager's own uses of them: memset() ...
PostConnect(c) ==
  /\ "post" \in Clients
  /\ Stimulus
  /\ http.at = "idle" /\ http' = [at |-> "ssid", conf |-> c]
  /\ configSta' = NoConf
  /\ UNCHANGED <<bits, managerVars, urc, kept>> /\ HttpRest

\* ... memcpy() of the ssid, and memcpy() of the password.  An ssid that the manager
\* has erased in between stays empty, one that it has fetched gets a foreign password.
PostCopies(c) ==
  /\ configSta' = c
  /\ kept' = kept \cup ({c} \ {NoConf})
  /\ UNCHANGED <<bits, managerVars, urc, stimuli>> /\ HttpRest

PostSsid ==
  /\ http.at = "ssid" /\ http' = [http EXCEPT !.at = "password"]
  /\ PostCopies(Torn)

PostPassword ==
  /\ http.at = "password" /\ http' = [at |-> "flush", conf |-> NoConf]
  /\ PostCopies(CASE configSta = Torn   -> http.conf
                  [] configSta = NoConf -> NoConf
                  [] OTHER              -> Torn)

\* wifi_manager_connect_async() then clears the status json ...
PostFlush ==
  /\ http.at = "flush" /\ http' = [http EXCEPT !.at = "request"]
  /\ urc' = "cleared"
  /\ UNCHANGED <<bits, managerVars, configSta, kept, stimuli>> /\ HttpRest

\* ... and sets the request.
PostRequest ==
  /\ http.at = "request" /\ http' = [at |-> "idle", conf |-> NoConf]
  /\ SetBits({"REQUEST_STA_CONNECT"})
  /\ UNCHANGED <<urc, configSta, kept, stimuli>> /\ HttpRest

PostGoesOn == PostSsid \/ PostPassword \/ PostFlush \/ PostRequest

HttpServer == \/ ScanAsync \/ DisconnectAsync
              \/ \E c \in Conf : PostConnect(c)
              \/ PostGoesOn

-----------------------------------------------------------------------------
(* wifi_manager(): one pass of the loop serves one snapshot.               *)

OutsideManager == UNCHANGED <<eventVars, http, historyVars>>

\* Top of the loop.
AwaitRequest == WaitBits("wait", "idle")

\* The chain of tests that follows the disconnect branch: a test requested together
\* with a disconnection is run in the same pass, after it.
ConnectScanOrTest ==
  CASE "REQUEST_STA_CONNECT" \in ux ->
         IF "WIFI_CONNECTED" \in ux THEN "c_mark" ELSE "c_clear"
    [] "REQUEST_STA_CONNECT" \notin ux /\ "REQUEST_WIFI_SCAN" \in ux -> "scan"
    [] ux \cap {"REQUEST_STA_CONNECT", "REQUEST_WIFI_SCAN"} = {}
         /\ "REQUEST_PING_TEST" \in ux -> "test"
    [] OTHER -> "tail"

\* uxBits is dead once the chain has been decided, until the next wait that assigns
\* it, and is forgotten.
Chain(from) == pc = from /\ pc' = ConnectScanOrTest /\ ux' = {} /\ UNCHANGED retTo

Dispatch ==
  /\ IF "REQUEST_WIFI_DISCONNECT" \in ux THEN Goto("dispatch", "d_net")
     ELSE Chain("dispatch")
  /\ UNCHANGED <<bits, dataVars, timer, ping, link>> /\ OutsideManager

\* Steps shared by the disconnect branch ("d_") and the connect branch ("c_").
ManagerClears(from, to, b) ==
  /\ Goto(from, to) /\ ClearBits(b)
  /\ UNCHANGED <<dataVars, timer, ping, link>> /\ OutsideManager

\* Faulty variant: esp_wifi_disconnect() is called twice.
LeaveTwice(from, to) ==
  /\ Goto(from, to) /\ Len(events) < MaxEvents
  /\ events' = events \o <<"ASSOC_LEAVE", "ASSOC_LEAVE">>
  /\ link' = [link EXCEPT !.st = "down", !.conf = NoConf]
  /\ UNCHANGED <<bits, dataVars, timer, ping, hpc, http, historyVars>>

LeaveAccessPoint(from, to) ==
  /\ Goto(from, to) /\ EspWifiDisconnect
  /\ UNCHANGED <<bits, dataVars, timer, ping, hpc, http, historyVars>>

\* wifi_manager_wait_disconnect() has the same effect: only the manager clears
\* STA_DISCONNECT, so the bit is still set when the released task runs.
AwaitLeft(from, to) ==
  /\ Goto(from, to) /\ "STA_DISCONNECT" \in bits
  /\ UNCHANGED <<bits, dataVars, timer, ping, link>> /\ OutsideManager

ManagerStores(from, to) ==
  /\ Goto(from, to)
  /\ UNCHANGED <<bits, timer, ping, link>> /\ OutsideManager

\* REQUEST_WIFI_DISCONNECT: leave, forget the credentials, erase flash.
DisconnectClearInternet ==
  /\ Goto("d_net", IF "WIFI_CONNECTED" \in ux THEN "d_mark" ELSE "d_clear")
  /\ ClearBits({"HAVE_INTERNET"})
  /\ UNCHANGED <<dataVars, timer, ping, link>> /\ OutsideManager

DisconnectErase ==
  /\ Goto("d_clear", "d_save")
  /\ ClearBits({"STA_DISCONNECT"}) /\ configSta' = NoConf /\ kept' = {}
  /\ UNCHANGED <<nvs, urc, timer, ping, link, eventVars, http, proven, stimuli>>

\* Faulty variant: the erased credentials are not saved.
DisconnectNotSaved ==
  /\ ManagerStores("d_save", "d_done")
  /\ urc' = "reported" /\ UNCHANGED <<configSta, nvs>>

DisconnectSave ==
  /\ ManagerStores("d_save", "d_done")
  /\ nvs' = configSta /\ urc' = "reported" /\ UNCHANGED configSta

DisconnectDone ==
  /\ Chain("d_done") /\ ClearBits({"REQUEST_WIFI_DISCONNECT"})
  /\ UNCHANGED <<dataVars, timer, ping, link>> /\ OutsideManager

\* Faulty variant: STA_DISCONNECT is cleared after esp_wifi_disconnect().
ServeDisconnectClearsLate ==
  \/ DisconnectClearInternet
  \/ LeaveAccessPoint("d_mark", "d_leave")
  \/ ManagerClears("d_leave", "d_leaving", {"STA_DISCONNECT"})
  \/ AwaitLeft("d_leaving", "d_clear")
  \/ DisconnectErase \/ DisconnectSave \/ DisconnectDone

ServeDisconnect == \/ DisconnectClearInternet
                   \/ ManagerClears("d_mark", "d_leave", {"STA_DISCONNECT"})
                   \/ LeaveAccessPoint("d_leave", "d_leaving")
                   \/ AwaitLeft("d_leaving", "d_clear")
                   \/ DisconnectErase \/ DisconnectSave \/ DisconnectDone

\* REQUEST_STA_CONNECT: leave the current access point, join the new one.
Connect ==
  /\ Goto("c_connect", "c_wait") /\ EspWifiConnect
  /\ UNCHANGED <<bits, dataVars, timer, ping>> /\ OutsideManager

AwaitJoin == WaitBits("c_wait", "joining")

\* WIFI_CONNECTED in the snapshot: report success, save the credentials, and
\* call wifi_manager_check_connection().
JoinedOk ==
  /\ pc = "joined" /\ "WIFI_CONNECTED" \in ux
  /\ pc' = "test" /\ retTo' = "connect"
  /\ urc' = "reported"
  /\ nvs' = configSta
  /\ UNCHANGED <<ux, bits, configSta, timer, ping, link>> /\ OutsideManager

\* Faulty variant: the request is not cleared after a success.
ConnectTimerKeepsRequest ==
  /\ Goto("c_timer", "tail") /\ timer' = TRUE
  /\ UNCHANGED <<bits, dataVars, ping, link>> /\ OutsideManager

\* wifi_manager_check_connection() returns HAVE_INTERNET's mask, 0 or an error,
\* never 1: the branch that starts the timer is always the one taken.
ConnectTimer ==
  /\ Goto("c_timer", "tail") /\ timer' = TRUE
  /\ ClearBits({"REQUEST_STA_CONNECT"})
  /\ UNCHANGED <<dataVars, ping, link>> /\ OutsideManager

\* Only STA_DISCONNECT in the snapshot: report failure, reset the credentials.
JoinedNot ==
  /\ Goto("joined", "c_done") /\ "WIFI_CONNECTED" \notin ux
  /\ urc' = "reported"
  /\ configSta' = NoConf /\ bits' = bits \cup {"STA_DISCONNECT"}
  /\ UNCHANGED <<nvs, timer, ping, link>> /\ OutsideManager

ServeConnect == \/ ManagerClears("c_mark", "c_leave", {"STA_DISCONNECT"})
                \/ LeaveAccessPoint("c_leave", "c_leaving")
                \/ AwaitLeft("c_leaving", "c_clear")
                \/ ManagerClears("c_clear", "c_connect", {"STA_DISCONNECT"})
                \/ Connect \/ AwaitJoin \/ JoinedOk \/ ConnectTimer \/ JoinedNot
                \/ ManagerClears("c_done", "tail", {"REQUEST_STA_CONNECT"})

\* wifi_manager_check_connection() on a connected station: ping_test() clears
\* HAVE_INTERNET and starts a ping thread, then the wait for the bit begins.
CheckPing ==
  /\ Goto("test", "pinging") /\ "WIFI_CONNECTED" \in bits
  /\ ClearBits({"HAVE_INTERNET"})
  /\ \E p \in Pinger : ping[p] = "none" /\ ping' = [ping EXCEPT ![p] = "sent"]
  /\ UNCHANGED <<dataVars, timer, link>> /\ OutsideManager

\* PING_TEST_TIMEOUT_MS pass without HAVE_INTERNET: the reconnect timer starts.
CheckTimeout ==
  /\ Goto("pinging", Resume("pinging"))
  /\ timer' = TRUE
  /\ UNCHANGED <<bits, dataVars, ping, link>> /\ OutsideManager

\* ERR_WIFI_DISCONECTED.
CheckNotConnected ==
  /\ Goto("test", IF retTo = "connect" THEN "c_timer" ELSE "p_fetch")
  /\ "WIFI_CONNECTED" \notin bits
  /\ UNCHANGED <<bits, dataVars, timer, ping, link>> /\ OutsideManager

CheckConnection == CheckPing \/ CheckTimeout \/ CheckNotConnected

\* REQUEST_WIFI_SCAN.  esp_wifi_scan_start() is refused while the station joins;
\* ESP_ERROR_CHECK then aborts the firmware (see Reboot).  The list it yields is
\* filtered and printed if the json mutex is to be had and left as it was if not,
\* which are modules FilterUnique and JsonBuffer; the esp_wifi_deinit() at the end of
\* the filter is refused, without effect, by a driver that has been started.
Scan ==
  /\ link.st # "joining"
  /\ ManagerClears("scan", "tail", {"REQUEST_WIFI_SCAN"})

\* REQUEST_PING_TEST on a station that is not connected: try the stored network.
\* Flash without credentials leaves the ones in memory alone if its namespace was
\* never created, and replaces them by zeros if it was.
FetchStored ==
  \E c \in (IF nvs = NoConf THEN {NoConf, configSta} ELSE {nvs}) :
    /\ ManagerStores("p_fetch", IF c = NoConf THEN "p_done" ELSE "p_request")
    /\ configSta' = c /\ UNCHANGED <<nvs, urc>>

\* Faulty variant: the stored network is loaded and not requested.
StoredNotRequested ==
  /\ Goto("p_request", "p_done")
  /\ urc' = "cleared"
  /\ UNCHANGED <<bits, configSta, nvs, timer, ping, link>> /\ OutsideManager

StoredRequest ==
  /\ Goto("p_request", "p_done")
  /\ urc' = "cleared" /\ bits' = bits \cup {"REQUEST_STA_CONNECT"}
  /\ UNCHANGED <<configSta, nvs, timer, ping, link>> /\ OutsideManager

ServeTest == \/ FetchStored \/ StoredRequest
             \/ ManagerClears("p_done", "tail", {"REQUEST_PING_TEST"})

\* End of the loop: the LED is told (in WifiLed) when there is no internet.
TailRead ==
  /\ pc = "tail" /\ pc' = IF "HAVE_INTERNET" \in bits THEN "wait" ELSE "tail_led"
  /\ ux' = {} /\ retTo' = "ping"
  /\ UNCHANGED <<bits, dataVars, timer, ping, link>> /\ OutsideManager

TailLed ==
  /\ Goto("tail_led", "wait")
  /\ UNCHANGED <<bits, dataVars, timer, ping, link>> /\ OutsideManager

Manager == \/ AwaitRequest \/ Dispatch \/ ServeDisconnect \/ ServeConnect
           \/ CheckConnection \/ Scan \/ ServeTest \/ TailRead \/ TailLed

-----------------------------------------------------------------------------
(* Start-up.  The state after the set-up part of wifi_manager(): stored    *)
(* credentials fetched, a connection requested if there are any, a scan    *)
(* requested, the access point and the HTTP server started.                *)

BootBits(stored) ==
  {"REQUEST_WIFI_SCAN"} \cup
  (IF stored = NoConf THEN {} ELSE {"REQUEST_STA_CONNECT"})

Init ==
  /\ nvs \in GoodConf \cup {NoConf}
  /\ proven = GoodConf \cap {nvs} /\ kept = {nvs} \ {NoConf} /\ stimuli = 0
  /\ bits = BootBits(nvs)
  /\ pc = "wait" /\ ux = {} /\ retTo = "ping"
  /\ configSta = nvs /\ urc = "cleared"
  /\ timer = FALSE
  /\ ping = [p \in Pinger |-> "none"]
  /\ link = [st |-> "down", conf |-> NoConf, refused |-> FALSE]
  /\ events = <<>> /\ hpc = "take"
  /\ http = [at |-> "idle", conf |-> NoConf]

\* panic_task() aborts every hour, wherever the other tasks are; a scan refused
\* by the driver aborts too.  Only flash survives; an abort between the erasure of the
\* credentials in memory and the save that erases them in flash undoes the erasure.
Reboot ==
  /\ PanicTask \/ (pc = "scan" /\ link.st = "joining")
  /\ Stimulus
  /\ UNCHANGED <<nvs, proven>>
  /\ kept' = IF pc = "d_save" THEN {nvs} \ {NoConf} ELSE kept
  /\ bits' = BootBits(nvs)
  /\ pc' = "wait" /\ ux' = {} /\ retTo' = "ping"
  /\ configSta' = nvs /\ urc' = "cleared"
  /\ timer' = FALSE
  /\ ping' = [p \in Pinger |-> "none"]
  /\ link' = [st |-> "down", conf |-> NoConf, refused |-> FALSE]
  /\ events' = <<>> /\ hpc' = "take"
  /\ http' = [at |-> "idle", conf |-> NoConf]

Next == \/ Driver \/ EventHandler \/ TimerExpires \/ PingThread
        \/ CheckConnectionAsync \/ HttpServer \/ Manager \/ Reboot

Spec == Init /\ [][Next]_vars

\* The scheduler runs every task that can run (each is blocked in FreeRTOS calls
\* most of the time), the driver answers every join, the reconnect timer expires, and
\* data_task() asks for a test whenever a publish fails.  Nothing is assumed of
\* users, of access points that drop the link, or of panic_task().  Of the other
\* tasks and the driver it is enough that one of those that can go on does.
TasksAndDriver == \/ EventHandler \/ PingThread \/ TimerExpires \/ PostGoesOn
                  \/ JoinSucceeds \/ JoinFails

Fairness ==
  /\ WF_vars(Manager)
  /\ WF_vars(TasksAndDriver)
  /\ WF_vars(CheckConnectionAsync)

FairSpec == Spec /\ Fairness

-----------------------------------------------------------------------------
(* Properties.                                                             *)

HandlerQuiet == events = << >> /\ hpc = "take"

\* WIFI_CONNECTED is what every task goes by.  Whenever the handler has nothing
\* left to dispatch, the bit says what the driver's link is, through any mix of
\* joins, failures, lost links and requested disconnections.
ConnectedBitTruthful ==
  (events = << >> /\ hpc \in {"take", "net"}) =>
    ("WIFI_CONNECTED" \in bits <=> link.st = "up")

\* Its inductive form: the last event still to be dispatched, or else the event
\* being dispatched, or else the bit, tells whether the link is up.
LatestNewsIsUp ==
  IF events # << >> THEN events[Len(events)] = "GOT_IP"
  ELSE hpc \notin {"mark", "conn"} /\ "WIFI_CONNECTED" \in bits

LatestNewsTruthful == LatestNewsIsUp <=> link.st = "up"

\* The two unbounded waits for STA_DISCONNECT are never entered with the bit
\* already consumed: the bit is set, or an event that will set it is on its way,
\* provided the driver reports every esp_wifi_disconnect().
LeaveAnswered ==
  (IdleLeave /\ pc \in {"d_leaving", "c_leaving"}) =>
    \/ "STA_DISCONNECT" \in bits
    \/ hpc = "mark"
    \/ \E i \in DOMAIN events : events[i] # "GOT_IP"

\* The unbounded wait for the outcome of a join is always answered, unless the
\* driver refused esp_wifi_connect() (an error the manager logs and ignores).
JoinAnswered ==
  (pc = "joining" /\ ~link.refused) =>
    link.st = "joining" \/ events # << >> \/ hpc = "mark"

\* Its inductive form adds the label before the wait, where the outcome may
\* already be in the bits.
JoinWillBeAnswered ==
  (pc \in {"c_wait", "joining"} /\ ~link.refused) =>
    \/ link.st = "joining" \/ events # << >> \/ hpc = "mark"
    \/ /\ pc = "c_wait"
       /\ \/ "STA_DISCONNECT" \in bits
          \/ "WIFI_CONNECTED" \in bits /\ hpc # "conn"

\* Line 928: "only save the config if the connection was successful!"
SavedProven == nvs \in proven \cup {NoConf}

\* http_server_if.c:235: "request a disconnection from wifi and forget about it".
\* From the moment the manager erases the credentials in memory, neither memory nor
\* flash holds any that were not submitted afterwards, but for flash until the save
\* that follows: failed joins, tests, fetches, other saves, aborts and a POST in the
\* middle bring none back.  A DELETE that an abort overtakes before that save is lost
\* (see Reboot); a save that fails is the subject of NvsConfig.
ForgottenStaysForgotten ==
  /\ configSta \in kept \cup {NoConf}
  /\ pc # "d_save" => nvs \in kept \cup {NoConf}

\* The one wait that nothing need end: esp_wifi_connect() has refused, typically an
\* empty ssid, and the manager waits for the outcome of a join all the same.
JoinRefused == pc = "joining" /\ link.refused

\* A connect or disconnect request is served, in whatever order the events of a few
\* disturbances come, unless the manager ends up in the wait of a refused connect: a
\* DELETE served together with a connect request leads there.
RequestsServed ==
  \A b \in {"REQUEST_STA_CONNECT", "REQUEST_WIFI_DISCONNECT"} :
    (b \in bits) ~> (b \notin bits \/ JoinRefused)

\* A device with stored credentials that an access point accepts gets back online
\* without a user after a few lost links and failed joins, each at any step, unless
\* a user makes it forget them or it ends up in the wait of a refused connect.
StoredNetworkRejoined ==
  (nvs \in GoodConf) ~>
    ("WIFI_CONNECTED" \in bits \/ nvs \notin GoodConf \/ JoinRefused)

\* Lines 917-918: "2 scenarios here: connection is successful [...] or it's a failure
\* and we get a SYSTEM_EVENT_STA_DISCONNECTED".  The manager waits for no third one.
ConnectAccepted == ~JoinRefused

\* Line 861: "if disconnected, there is no internet".  Asked only when the event
\* handler has finished, so that its own sequence of calls does not count.
NoInternetWhenDisconnected ==
  (HandlerQuiet /\ "HAVE_INTERNET" \in bits) => "WIFI_CONNECTED" \in bits

\* Lines 947-948: "Connected to AP but no Internet access. Set the timer."
\* With internet, and nothing in progress, the reconnect timer is not running.
TimerOnlyWithoutInternet ==
  (pc = "idle" /\ "HAVE_INTERNET" \in bits /\ \A p \in Pinger : ping[p] = "none")
     => ~timer

\* Lines 601-603: the status is flushed so that the web page does not see "a remnant
\* from a previous connection".  It stays flushed while the request is being made.
RemnantFlushed == http.at = "request" => urc = "cleared"

\* wifi_manager.h on wifi_manager_connect_async(): the request "will be
\* process[ed] in the main task thread": the driver is given the credentials.
PostedConfTried == \A c \in Conf : (http.conf = c) ~> (link.conf = c \/ JoinRefused)

=============================================================================
