------------------------------ MODULE DataTask ------------------------------
(***************************************************************************)
(* data_task() (src/main/main.c) with what it does to the SD card: it      *)
(* polls the GPS, appends a row to the file of that date (sd_write_data()  *)
(* of src/main/sd_if.c) and calls periodic_timer_callback() to rotate the  *)
(* log.  It composes GpsReceiver and SdLog; the other polls and the        *)
(* publish are in PmSensor and Mqtt.                                       *)
(***************************************************************************)
EXTENDS SdLog

CONSTANT
  Calendar   \* the dates the GPS receiver may report, as <<year, month, day>>

ASSUME CalendarAssumption == Calendar \subseteq (19..79) \X (1..12) \X (1..31)

VARIABLES
  gps, sentence, parser, polled, latest,   \* see GpsReceiver
  at,        \* where data_task() is
  exists,    \* what stat() said of the file
  watched,   \* one data file, whichever
  content,   \* what is in it
  orphan     \* history: a restart found it just created

Gps == INSTANCE GpsReceiver

gpsVars  == <<gps, sentence, parser, polled, latest>>
taskVars == <<at, exists, watched, content, orphan>>
allVars  == <<vars, gpsVars, taskVars>>

DataTypeOK ==
  /\ TypeOK /\ Gps!GpsTypeOK
  /\ at \in {"year", "month", "day", "log", "logging", "stat", "open", "write",
              "rotate"}
  /\ exists \in BOOLEAN /\ orphan \in BOOLEAN
  /\ watched \in Calendar
  /\ content \in {"absent", "empty", "headed", "bare"}

DataInit ==
  /\ Init /\ Gps!GpsInit
  /\ at = "year" /\ exists = FALSE
  /\ watched \in Calendar /\ content = "absent" /\ orphan = FALSE

\* What data_task() takes for a date of the GPS.
Dated(d) == 18 < d[1] /\ d[1] < 80

-----------------------------------------------------------------------------
Goes(from, to) == at = from /\ at' = to /\ UNCHANGED <<watched, orphan>>

TaskStep(from, to) == Goes(from, to) /\ UNCHANGED vars

\* Faulty variant: GPS_Poll() copies in the order in which parse() stores.
PollDayFirst ==
  /\ \/ TaskStep("year", "month") /\ Gps!CopyField(3)
     \/ TaskStep("month", "day") /\ Gps!CopyField(2)
     \/ TaskStep("day", "log") /\ Gps!CopyField(1)
  /\ UNCHANGED <<exists, content>>

\* GPS_Poll(): year, month, day.
PollGps ==
  /\ \/ TaskStep("year", "month") /\ Gps!CopyField(1)
     \/ TaskStep("month", "day") /\ Gps!CopyField(2)
     \/ TaskStep("day", "log") /\ Gps!CopyField(3)
  /\ UNCHANGED <<exists, content>>

\* Faulty variant: nothing is logged before the data file is opened.
LogNothing == TaskStep("log", "stat") /\ UNCHANGED <<gpsVars, exists, content>>

\* ESP_LOGI() of data_task() and sd_write_data(): the line is dropped when
\* there is no log file to be had.  One line stands for all.
LogPacket ==
  /\ \/ /\ Goes("log", "logging") /\ GetLogFileInstance("rotor")
        /\ UNCHANGED <<logger, rotor, got, archive, counting, firstGen>>
     \/ TaskStep("log", "stat") /\ NoLogFileInstance
     \/ Goes("logging", "stat") /\ WriteLine /\ UNCHANGED logger
  /\ UNCHANGED <<gpsVars, exists, content>>

\* Faulty variant: stat() after the file was opened, which creates it.
StatFindsFile ==
  /\ TaskStep("stat", "open") /\ exists' = TRUE
  /\ UNCHANGED <<gpsVars, content>>

\* sd_write_data(): the header is for a file that stat() does not find.
StatFile ==
  /\ TaskStep("stat", "open")
  /\ exists' = (polled = watched /\ content # "absent")
  /\ UNCHANGED <<gpsVars, content>>

\* fopen() with "a" creates the file; it may fail.
OpenFile ==
  /\ TaskStep("open", "write")
  /\ content' = IF polled = watched /\ content = "absent" THEN "empty" ELSE content
  /\ UNCHANGED <<gpsVars, exists>>

OpenFails == TaskStep("open", "rotate") /\ exists' = FALSE /\ UNCHANGED <<gpsVars, content>>

\* What fclose() leaves on the card of a file that held c.
Written(c) == IF ~exists THEN "headed" ELSE IF c = "empty" THEN "bare" ELSE c

WriteRow ==
  /\ TaskStep("write", "rotate")
  /\ content' = IF polled = watched THEN Written(content) ELSE content
  /\ exists' = FALSE
  /\ UNCHANGED gpsVars

\* periodic_timer_callback(), and the delay.  (What was polled is not used again.)
Rotate ==
  /\ at = "rotate"
  /\ \/ PeriodicGet \/ PeriodicGetsNone \/ PeriodicKeeps
     \/ PeriodicCloses \/ PeriodicForgets \/ PeriodicRotates \/ PeriodicAssign
  /\ at' = IF rotor = "assign" THEN "year" ELSE at
  /\ polled' = Gps!NoDate
  /\ UNCHANGED <<gps, sentence, parser, latest, exists, watched, content, orphan>>

Data == PollGps \/ LogPacket \/ StatFile \/ OpenFile \/ OpenFails \/ WriteRow \/ Rotate

Others ==
  \/ Gps!Parse /\ UNCHANGED <<vars, taskVars>>
  \/ (LogGet \/ LogWrite) /\ UNCHANGED <<gpsVars, taskVars>>

\* A restart: a file that was being created may be there, empty, or not.
Restart ==
  /\ Reboot /\ Gps!GpsReset
  /\ at' = "year" /\ exists' = FALSE
  /\ IF at = "write" /\ polled = watched /\ ~exists
     THEN content' \in {"absent", "empty"} /\ orphan' = (orphan \/ content' = "empty")
     ELSE UNCHANGED <<content, orphan>>
  /\ UNCHANGED watched

DataNext == Data \/ Others \/ Restart

DataSpec == DataInit /\ [][DataNext]_allVars

-----------------------------------------------------------------------------
(* Properties.                                                             *)

\* No row is filed under a date that has not come yet, although GPS_Poll() may
\* copy fields of several sentences: parse() stores the day first and the year
\* last, GPS_Poll() copies the year first and the day last.
NoFutureDate ==
  (at \notin {"year", "month", "day"} /\ Dated(polled)) => Gps!NotAfter(polled, latest)

\* A data file with rows begins with its header, except for one that a restart
\* found created and not yet written: sd_write_data() asks stat() before fopen().
RowsUnderHeader == content = "bare" => orphan

\* The pointer that periodic_timer_callback() leaves dangling is not there for a
\* log call that begins while the data file is open, whose FILE may be the same
\* memory: data_task() itself has logged since, and that has reset the pointer.
DanglingNotReused == at \in {"open", "write"} /\ fp = "closed" => logger = "write"

=============================================================================
