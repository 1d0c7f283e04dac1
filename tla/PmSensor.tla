------------------------------ MODULE PmSensor ------------------------------
(***************************************************************************)
(* The particulate-matter sensor (src/main/pm_if.c): the UART task adds    *)
(* every valid packet to an accumulator, data_task() polls the average and *)
(* resets it, and a timer resets it when no packet has come for a while.   *)
(* Nothing synchronises the three tasks, which may run on two cores, so    *)
(* "+=" is a load and a store.  One of the three sums stands for all.      *)
(***************************************************************************)
EXTENDS Naturals, FiniteSets

CONSTANT MaxSamples   \* valid packets (bound)

ASSUME SamplesAssumption == MaxSamples \in Nat

Sample == 1..MaxSamples

VARIABLES
  sum,       \* pm_accum.pm1: the samples added up in it
  count,     \* pm_accum.sample_count
  timer,     \* pm_timer is running
  command,   \* the last command in the queue of the timer task
  expiry,    \* where vTimerCallback() is
  uart,      \* where get_packet_from_buffer() is
  reg,       \* what it has loaded
  received,  \* valid packets so far (bounded by MaxSamples)
  poll,      \* where PMS_Poll() is
  result,    \* the samples in the average of the last PMS_Poll()
  stagnant   \* history: samples the timer has cleared

accum == <<sum, count>>
timerVars == <<timer, command>>
pmVars == <<accum, timerVars, expiry, uart, reg, received, poll, result, stagnant>>

PmTypeOK ==
  /\ sum \subseteq Sample /\ count \in 0..MaxSamples
  /\ timer \in BOOLEAN /\ command \in {"none", "reset", "stop"}
  /\ expiry \in {"idle", "stop", "sum", "count"}
  /\ uart \in {"idle", "store", "count", "storecount", "timer"}
  /\ reg \in [sum : SUBSET Sample, count : 0..MaxSamples]
  /\ received \in 0..MaxSamples
  /\ poll \in {"idle", "read", "sum", "count"}
  /\ result \subseteq Sample /\ stagnant \subseteq Sample

\* After PMS_Initialize().
PmInit ==
  /\ sum = {} /\ count = 0 /\ timer = TRUE /\ command = "none" /\ expiry = "idle"
  /\ uart = "idle" /\ reg = [sum |-> {}, count |-> 0] /\ received = 0
  /\ poll = "idle" /\ result = {} /\ stagnant = {}

-----------------------------------------------------------------------------
(* uart_pm_event_mgr(): a 24-byte packet with the right header and         *)
(* checksum; any other event changes none of this state.                   *)

UartStep(from, to) ==
  /\ uart = from /\ uart' = to
  /\ UNCHANGED <<expiry, poll, result, stagnant>>

AddLoad ==
  /\ UartStep("idle", "store")
  /\ received < MaxSamples /\ received' = received + 1
  /\ reg' = [reg EXCEPT !.sum = sum]
  /\ UNCHANGED <<accum, timerVars>>

AddStore ==
  /\ UartStep("store", "count")
  /\ sum' = reg.sum \cup {received}
  /\ UNCHANGED <<count, timerVars, reg, received>>

CountLoad ==
  /\ UartStep("count", "storecount")
  /\ reg' = [reg EXCEPT !.count = count]
  /\ UNCHANGED <<accum, timerVars, received>>

\* Faulty variant: a packet is counted twice.
CountStoreTwice ==
  /\ UartStep("storecount", "timer")
  /\ count' = reg.count + 2
  /\ UNCHANGED <<sum, timerVars, reg, received>>

CountStore ==
  /\ UartStep("storecount", "timer")
  /\ count' = reg.count + 1
  /\ UNCHANGED <<sum, timerVars, reg, received>>

\* Faulty variant: a timer that has expired is not started again.
TimerNotReset ==
  /\ UartStep("timer", "idle")
  /\ reg' = [sum |-> {}, count |-> 0]
  /\ UNCHANGED <<accum, timerVars, received>>

\* xTimerReset() queues a command, which starts the timer whether it is running or
\* not.  (The queue is taken to have room: with no room the call does nothing.)
TimerReset ==
  /\ UartStep("timer", "idle")
  /\ command' = "reset" /\ reg' = [sum |-> {}, count |-> 0]
  /\ UNCHANGED <<accum, timer, received>>

Uart == AddStore \/ CountLoad \/ CountStore \/ TimerReset

-----------------------------------------------------------------------------
(* The timer task with vTimerCallback(), and PMS_Poll(); both end with     *)
(* _pm_accum_rst().                                                        *)

TimerTask == UNCHANGED <<uart, reg, received, poll, result>>

\* Between two callbacks the timer task carries out the commands in its queue, of
\* which the last decides.
TimerServes ==
  /\ expiry = "idle" /\ command # "none"
  /\ timer' = (command = "reset") /\ command' = "none"
  /\ TimerTask /\ UNCHANGED <<accum, expiry, stagnant>>

\* The timer is a one-shot.
TimerExpires ==
  /\ timer /\ timer' = FALSE
  /\ expiry = "idle" /\ expiry' = "stop"
  /\ TimerTask /\ UNCHANGED <<accum, command, stagnant>>

\* xTimerStop() comes after what is queued already.
ExpiryStops ==
  /\ expiry = "stop" /\ expiry' = "sum"
  /\ command' = "stop"
  /\ TimerTask /\ UNCHANGED <<accum, timer, stagnant>>

ExpiryClearsSum ==
  /\ expiry = "sum" /\ expiry' = "count"
  /\ sum' = {} /\ stagnant' = stagnant \cup sum
  /\ TimerTask /\ UNCHANGED <<count, timerVars>>

ExpiryClearsCount ==
  /\ expiry = "count" /\ expiry' = "idle"
  /\ count' = 0
  /\ TimerTask /\ UNCHANGED <<sum, timerVars, stagnant>>

Expiry == ExpiryStops \/ ExpiryClearsSum \/ ExpiryClearsCount

PollStep(from, to) ==
  /\ poll = from /\ poll' = to
  /\ UNCHANGED <<timerVars, expiry, uart, reg, received, stagnant>>

\* No sample: the poll reports -1 and ESP_FAIL.
PollCheck ==
  /\ PollStep("idle", IF count = 0 THEN "idle" ELSE "read") /\ result' = {}
  /\ UNCHANGED accum

PollRead       == PollStep("read", "sum") /\ result' = sum /\ UNCHANGED accum
PollClearsSum   == PollStep("sum", "count") /\ sum' = {} /\ UNCHANGED <<count, result>>
PollClearsCount == PollStep("count", "idle") /\ count' = 0 /\ UNCHANGED <<sum, result>>

Poll == PollCheck \/ PollRead \/ PollClearsSum \/ PollClearsCount

PmNext == AddLoad \/ Uart \/ TimerServes \/ TimerExpires \/ Expiry \/ Poll

PmSpec == PmInit /\ [][PmNext]_pmVars

\* The tasks run and the timer expires; nothing is assumed of the sensor, nor
\* of data_task(), which may be blocked in a publish.
PmFairSpec ==
  /\ PmSpec /\ WF_pmVars(Uart) /\ WF_pmVars(TimerServes)
  /\ WF_pmVars(TimerExpires) /\ WF_pmVars(Expiry)

-----------------------------------------------------------------------------
(* Properties.                                                             *)

\* When the sensor falls silent, the accumulator is empty in the end, whatever
\* the timer and the polls interleaved with before: a later poll then fails.  It
\* rests on the order of both sides: a packet is counted before the timer is started
\* again, and the callback stops the timer before it resets the accumulator.
SilenceClears == <>[](sum = {} /\ count = 0)

\* Lines 47-48: after a silence "we clear out the pm data accumulator to ensure
\* we don't use old stagnant data".
NoStagnantData ==
  [][(poll = "read" /\ poll' = "sum") => result' \cap stagnant = {}]_pmVars

=============================================================================
