----------------------------- MODULE StatusLed -----------------------------
(***************************************************************************)
(* The status LEDs (src/main/led_if.c): other tasks set bits of an event   *)
(* group and led_task() turns the bits it receives into lamp states.       *)
(* Module WifiLed composes it with the tasks of the Wi-Fi manager.         *)
(***************************************************************************)
EXTENDS FiniteSets

VARIABLES
  ledGroup,   \* led_event_group: bits set and not yet received by led_task()
  taken,      \* the bits led_task() has received; none while it waits
  lamp        \* is each lamp lit

ledVars == <<ledGroup, taken, lamp>>

LedBit == {"WIFI_DISCONNECTED", "WIFI_CONNECTED", "GPS_RTC_NOT_SET", "GPS_RTC_SET"}
Lamp   == {"STAT1", "STAT3"}

\* LED_Initialize() lights STAT1 only; by the time the Wi-Fi manager runs,
\* led_task() has shown the GPS_RTC_NOT_SET of GPS_Initialize().
LedInit == ledGroup = {} /\ taken = {} /\ lamp = [l \in Lamp |-> TRUE]

\* LED_SetEventBit(): a waiting led_task() receives the bit at once, and the
\* wait clears it; otherwise the bit waits in the group with the others.
LED_SetEventBit(b) ==
  /\ IF taken = {} THEN taken' = {b} /\ UNCHANGED ledGroup
                   ELSE ledGroup' = ledGroup \cup {b} /\ UNCHANGED taken
  /\ UNCHANGED lamp

\* When both bits of a lamp have been received, the later test wins.
Shown(l, on, off) == IF off \in taken THEN FALSE
                     ELSE IF on \in taken THEN TRUE ELSE lamp[l]

\* One pass of led_task(): update the lamps, wait for the next bits.
led_task ==
  /\ taken # {}
  /\ lamp' = [STAT1 |-> Shown("STAT1", "WIFI_DISCONNECTED", "WIFI_CONNECTED"),
              STAT3 |-> Shown("STAT3", "GPS_RTC_NOT_SET", "GPS_RTC_SET")]
  /\ taken' = ledGroup /\ ledGroup' = {}

=============================================================================
