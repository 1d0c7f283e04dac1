------------------------------ MODULE WifiLed ------------------------------
(***************************************************************************)
(* The Wi-Fi manager composed with the status LEDs.  A task's call of      *)
(* LED_SetEventBit() happens with the event-group call that precedes it in *)
(* the code; the ping thread's with the timer call that follows it.        *)
(***************************************************************************)
EXTENDS WifiManager

VARIABLES
  ledGroup, taken, lamp   \* see StatusLed

Led == INSTANCE StatusLed

ledVars == <<ledGroup, taken, lamp>>
allVars == <<vars, ledVars>>

ComposedInit == Init /\ Led!LedInit

Quietly(A) == A /\ UNCHANGED ledVars

\* A task takes step A and sets LED bit b.
With(A, b) == A /\ Led!LED_SetEventBit(b)

LedHandler ==
  \/ With(HandleGotIp, "WIFI_CONNECTED")
  \/ With(HandlerClearInternet, "WIFI_DISCONNECTED")
  \/ Quietly(HandleDisconnected \/ HandlerMark \/ HandlerClearConnected)

LedTask == Led!led_task /\ UNCHANGED vars

LedPing ==
  \E p \in Pinger :
    \/ With(PingStopTimer(p), "WIFI_CONNECTED")
    \/ Quietly(PingReply(p) \/ PingInternet(p) \/ PingFlush(p) \/ PingRequest(p))

\* The manager's remaining branches call no LED function.
SilentManager ==
  \/ AwaitRequest \/ Dispatch \/ Scan \/ ServeTest \/ TailRead
  \/ ManagerClears("d_mark", "d_leave", {"STA_DISCONNECT"})
  \/ LeaveAccessPoint("d_leave", "d_leaving") \/ AwaitLeft("d_leaving", "d_clear")
  \/ DisconnectErase \/ DisconnectSave \/ DisconnectDone
  \/ ManagerClears("c_mark", "c_leave", {"STA_DISCONNECT"})
  \/ LeaveAccessPoint("c_leave", "c_leaving") \/ AwaitLeft("c_leaving", "c_clear")
  \/ ManagerClears("c_clear", "c_connect", {"STA_DISCONNECT"})
  \/ Connect \/ AwaitJoin \/ ConnectTimer \/ CheckNotConnected
  \/ ManagerClears("c_done", "tail", {"REQUEST_STA_CONNECT"})

\* Faulty variant: the end of the loop tells the LED nothing.
LedManagerSilentTail ==
  \/ With(DisconnectClearInternet, "WIFI_DISCONNECTED")
  \/ With(JoinedOk, "WIFI_CONNECTED")
  \/ With(JoinedNot, "WIFI_DISCONNECTED")
  \/ With(CheckPing, "WIFI_DISCONNECTED")
  \/ With(CheckTimeout, "WIFI_DISCONNECTED")
  \/ Quietly(SilentManager \/ TailLed)

LedManager ==
  \/ With(DisconnectClearInternet, "WIFI_DISCONNECTED")
  \/ With(JoinedOk, "WIFI_CONNECTED")
  \/ With(JoinedNot, "WIFI_DISCONNECTED")
  \/ With(CheckPing, "WIFI_DISCONNECTED")
  \/ With(CheckTimeout, "WIFI_DISCONNECTED")
  \/ With(TailLed, "WIFI_DISCONNECTED")
  \/ Quietly(SilentManager)

LedReboot ==
  /\ Reboot
  /\ ledGroup' = {} /\ taken' = {} /\ lamp' = [l \in Led!Lamp |-> TRUE]

ComposedNext ==
  \/ LedHandler \/ LedPing \/ LedManager \/ LedTask \/ LedReboot
  \/ Quietly(Driver \/ TimerExpires \/ CheckConnectionAsync \/ HttpServer)

\* The fairness the lamp depends on: the manager runs, data_task() asks for tests,
\* and some other task or driver call that can go on does.  Each of these goes on
\* until it has done its step, so that fairness of each would imply this.
Others == \/ LedHandler \/ LedPing \/ LedTask
          \/ Quietly(JoinSucceeds \/ JoinFails)

ComposedSpec ==
  /\ ComposedInit /\ [][ComposedNext]_allVars
  /\ WF_allVars(LedManager) /\ WF_allVars(Others)
  /\ WF_allVars(Quietly(CheckConnectionAsync))

-----------------------------------------------------------------------------
(* Properties.                                                             *)

\* led_task() lets WIFI_CONNECTED win over a later WIFI_DISCONNECTED that it
\* receives in the same pass, so that a lamp may be wrong for a while.  It does
\* not stay wrong: when a station stays offline, and not in a refused join,
\* the lamp stays lit.
OfflineLampLit ==
  <>[](link.st # "up" /\ "HAVE_INTERNET" \notin bits /\ ~JoinRefused)
     => <>[]lamp["STAT1"]

=============================================================================
