---------------------------- MODULE GpsReceiver -----------------------------
(***************************************************************************)
(* The GPS receiver (src/main/gps_if.c): uart_gps_event_mgr() parses each  *)
(* sentence and stores its fields one by one in the global esp_gps, which  *)
(* data_task() copies field by field with GPS_Poll().  Nothing keeps the   *)
(* two apart.  Only the date is followed: $GPGGA, which stores position    *)
(* and time of day, leaves it alone, and so does a sentence that parse()   *)
(* rejects.  Sentences are taken to arrive intact, or not at all.          *)
(***************************************************************************)
EXTENDS Naturals

CONSTANTS
  Calendar   \* the dates the receiver may report, as <<year, month, day>>

VARIABLES
  gps,       \* esp_gps: its fields year, month and day
  sentence,  \* the date of the sentence in parse()
  parser,    \* where parse() is
  polled,    \* data_task()'s copy of the three fields
  latest     \* history: the latest date received

gpsVars == <<gps, sentence, parser, polled, latest>>

\* A $GPRMC without a date, and that of a receiver whose clock was never set.
NoDate == <<0, 0, 0>>
Unset  == <<80, 1, 6>>

Date == (0..80) \X (0..12) \X (0..31)

NotAfter(a, b) ==
  \/ a[1] < b[1]
  \/ a[1] = b[1] /\ a[2] < b[2]
  \/ a[1] = b[1] /\ a[2] = b[2] /\ a[3] <= b[3]

GpsTypeOK ==
  /\ gps \in Date /\ polled \in Date
  /\ sentence \in Calendar \cup {NoDate, Unset}
  /\ parser \in {"idle", "month", "year"}
  /\ latest \in Calendar \cup {NoDate}

GpsInit ==
  /\ gps = NoDate /\ sentence = NoDate /\ parser = "idle" /\ polled = NoDate
  /\ latest = NoDate

-----------------------------------------------------------------------------
(* parse(), for a $GPRMC: day, month, year.                                *)

\* What the receiver may send: a date not before the last one, no date, or, until
\* its clock has been set, the date it starts with.  (A receiver with a battery.)
Sent(d) ==
  \/ d \in Calendar /\ NotAfter(latest, d)
  \/ d = NoDate
  \/ d = Unset /\ latest = NoDate

StoreDay ==
  /\ parser = "idle" /\ parser' = "month"
  /\ \E d \in Calendar \cup {NoDate, Unset} :
       /\ Sent(d) /\ sentence' = d
       /\ gps' = [gps EXCEPT ![3] = d[3]]
       /\ latest' = IF d \in Calendar THEN d ELSE latest
  /\ UNCHANGED polled

StoreMonth ==
  /\ parser = "month" /\ parser' = "year"
  /\ gps' = [gps EXCEPT ![2] = sentence[2]]
  /\ UNCHANGED <<sentence, polled, latest>>

StoreYear ==
  /\ parser = "year" /\ parser' = "idle"
  /\ gps' = [gps EXCEPT ![1] = sentence[1]] /\ sentence' = NoDate
  /\ UNCHANGED <<polled, latest>>

Parse == StoreDay \/ StoreMonth \/ StoreYear

-----------------------------------------------------------------------------
(* GPS_Poll(): year, month, day.                                           *)

CopyField(i) ==
  /\ polled' = [polled EXCEPT ![i] = gps[i]]
  /\ UNCHANGED <<gps, sentence, parser, latest>>

\* A restart: the receiver keeps its clock.
GpsReset ==
  /\ gps' = NoDate /\ sentence' = NoDate /\ parser' = "idle" /\ polled' = NoDate
  /\ UNCHANGED latest

=============================================================================
