--------------------------- MODULE DataTaskProofs ---------------------------
(***************************************************************************)
(* Proofs about the SD card and the data task, for any calendar, any       *)
(* number of log files and of generations.                                 *)
(***************************************************************************)
EXTENDS DataTask, TLAPS

-----------------------------------------------------------------------------
(* The log.                                                                *)

\* The inductive invariant behind ArchivesInOrder: everything archived is older
\* than the current log, and the numbers not used since the restart hold nothing
\* logged since.  (A rotation in progress is within the bound on generations.)
ArchivesOld ==
  /\ firstGen <= current.gen
  /\ \A n \in 1..MaxLog : archive[n] < current.gen
  /\ \A n \in 1..MaxLog : n >= counting => archive[n] < firstGen
  /\ rotor \in {"closed", "move"} => current.gen <= MaxGen

LogInv == TypeOK /\ ArchivesOld /\ ArchivesInOrder

\* The log starts empty.
LEMMA LogInit == Init => LogInv
<1> SUFFICES ASSUME Init PROVE LogInv
  OBVIOUS
<1>1. 1 \in 1..MaxLog /\ 1 \in 1..(MaxGen + 1)
  BY LogAssumption
<1>2. TypeOK
  <2>1. current \in [exists : BOOLEAN, full : BOOLEAN, gen : 1..(MaxGen + 1)]
    BY <1>1 DEF Init
  <2>2. archive \in [1..MaxLog -> 0..MaxGen]
    BY LogAssumption DEF Init
  <2> QED
    BY <1>1, <2>1, <2>2 DEF Init, TypeOK
<1>3. ArchivesOld /\ ArchivesInOrder
  BY LogAssumption DEF Init, ArchivesOld, ArchivesInOrder
<1> QED
  BY <1>2, <1>3 DEF LogInv

\* Taking the file may create it, and no more.
LEMMA GetStep ==
  ASSUME LogInv, NEW who \in {"logger", "rotor"}, GetLogFileInstance(who),
         logger' \in {"idle", "write"}, rotor' \in {rotor, "body"},
         got' \in BOOLEAN, UNCHANGED <<archive, counting, firstGen>>
  PROVE  LogInv'
<1>1. current' \in [exists : BOOLEAN, full : BOOLEAN, gen : 1..(MaxGen + 1)]
      /\ current'.gen = current.gen
  BY DEF LogInv, TypeOK, GetLogFileInstance
<1>2. TypeOK'
  BY <1>1 DEF LogInv, TypeOK, GetLogFileInstance
<1>3. (ArchivesOld /\ ArchivesInOrder)'
  BY <1>1 DEF LogInv, ArchivesOld, ArchivesInOrder
<1> QED
  BY <1>2, <1>3 DEF LogInv

\* Writing a line may fill the file, and no more.
LEMMA WriteStep == LogInv /\ WriteLine /\ logger' \in {"idle", "write"} => LogInv'
<1> SUFFICES ASSUME LogInv, WriteLine, logger' \in {"idle", "write"} PROVE LogInv'
  OBVIOUS
<1>1. current' \in [exists : BOOLEAN, full : BOOLEAN, gen : 1..(MaxGen + 1)]
      /\ current'.gen = current.gen
  BY DEF LogInv, TypeOK, WriteLine
<1>2. TypeOK'
  BY <1>1 DEF LogInv, TypeOK, WriteLine
<1>3. (ArchivesOld /\ ArchivesInOrder)'
  BY <1>1 DEF LogInv, ArchivesOld, ArchivesInOrder, WriteLine
<1> QED
  BY <1>2, <1>3 DEF LogInv

\* A rotation of a file that exists archives the newest generation; without the
\* file it empties a place.
LEMMA RotateStep == LogInv /\ PeriodicRotates => LogInv'
<1> SUFFICES ASSUME LogInv, PeriodicRotates PROVE LogInv'
  OBVIOUS
<1> USE LogAssumption DEF LogInv
<1> DEFINE g == IF current.exists THEN current.gen ELSE 0
<1>1. /\ current.gen \in 1..MaxGen /\ counting \in 1..MaxLog /\ g \in 0..MaxGen
      /\ archive \in [1..MaxLog -> 0..MaxGen] /\ firstGen \in Nat
  BY DEF PeriodicRotates, TypeOK, ArchivesOld
<1>2. /\ current' \in [exists : BOOLEAN, full : BOOLEAN, gen : 1..(MaxGen + 1)]
      /\ current'.gen = IF current.exists THEN current.gen + 1 ELSE current.gen
  BY <1>1 DEF PeriodicRotates, TypeOK
<1>3. CASE counting < MaxLog
  <2>1. archive' = [archive EXCEPT ![counting] = g] /\ counting' = counting + 1
    BY <1>1, <1>3 DEF PeriodicRotates, Capped, Moved
  <2>2. TypeOK'
    BY <1>1, <1>2, <1>3, <2>1 DEF PeriodicRotates, TypeOK
  <2>3. ArchivesOld'
    <3>1. firstGen' = firstGen /\ g <= current.gen /\ g < current'.gen
      BY <1>1, <1>2 DEF PeriodicRotates, TypeOK
    <3>2. \A n \in 1..MaxLog : archive'[n] = IF n = counting THEN g ELSE archive[n]
      BY <1>1, <2>1
    <3>3. current'.gen \in Nat /\ current.gen <= current'.gen
      BY <1>1, <1>2
    <3>4. rotor' = "assign"
      BY DEF PeriodicRotates
    <3> HIDE DEF g
    <3> QED
      BY <1>1, <2>1, <3>1, <3>2, <3>3, <3>4 DEF ArchivesOld
  <2>4. ArchivesInOrder'
    BY <1>1, <1>2, <1>3, <2>1 DEF PeriodicRotates, ArchivesOld, ArchivesInOrder
  <2> QED
    BY <2>2, <2>3, <2>4
<1>4. CASE counting = MaxLog
  <2>1. archive' = [archive EXCEPT ![MaxLog] = 0] /\ counting' = MaxLog
    BY <1>1, <1>4 DEF PeriodicRotates, Capped, Moved
  <2>2. TypeOK'
    BY <1>1, <1>2, <1>4, <2>1 DEF PeriodicRotates, TypeOK
  <2>3. ArchivesOld'
    BY <1>1, <1>2, <1>4, <2>1 DEF PeriodicRotates, ArchivesOld, TypeOK
  <2>4. ArchivesInOrder'
    BY <1>1, <1>2, <1>4, <2>1 DEF PeriodicRotates, ArchivesOld, ArchivesInOrder, TypeOK
  <2> QED
    BY <2>2, <2>3, <2>4
<1> QED
  BY <1>1, <1>3, <1>4

\* A restart starts the numbering again; what is archived is then old.
LEMMA RebootStep == LogInv /\ Reboot => LogInv'
<1> SUFFICES ASSUME LogInv, Reboot PROVE LogInv'
  OBVIOUS
<1>1. TypeOK'
  <2>1. 1 \in 1..MaxLog
    BY LogAssumption
  <2>2. firstGen' \in 1..(MaxGen + 1)
    BY DEF LogInv, TypeOK, Reboot
  <2> QED
    BY <2>1, <2>2 DEF LogInv, TypeOK, Reboot
<1>2. ArchivesOld'
  BY LogAssumption DEF LogInv, TypeOK, ArchivesOld, Reboot
<1>3. ArchivesInOrder'
  BY LogAssumption DEF LogInv, TypeOK, ArchivesOld, ArchivesInOrder, Reboot
<1> QED
  BY <1>1, <1>2, <1>3 DEF LogInv

\* The rest of a pass of periodic_timer_callback().
LEMMA PassStep ==
  ASSUME LogInv, \/ PeriodicGetsNone \/ PeriodicKeeps \/ PeriodicCloses
                 \/ PeriodicForgets \/ PeriodicAssign
  PROVE  LogInv'
<1> USE DEF PeriodicGetsNone, PeriodicKeeps, PeriodicCloses, PeriodicForgets, PeriodicAssign
<1>1. UNCHANGED <<fileVars, firstGen>>
  OBVIOUS
<1>2. TypeOK'
  BY <1>1 DEF LogInv, TypeOK, fileVars
<1>3. rotor' \in {"closed", "move"} => current'.gen <= MaxGen
  BY <1>1 DEF LogInv, ArchivesOld, fileVars
<1> QED
  BY <1>1, <1>2, <1>3 DEF LogInv, ArchivesOld, ArchivesInOrder, fileVars

\* Every step of the composition keeps the log's invariant.
LEMMA LogStep == LogInv /\ [DataNext]_allVars => LogInv'
<1> SUFFICES ASSUME LogInv, [DataNext]_allVars PROVE LogInv'
  OBVIOUS
<1> USE DEF LogInv
<1>1. CASE UNCHANGED vars
  BY <1>1 DEF vars, fileVars, TypeOK, ArchivesOld, ArchivesInOrder
<1>2. CASE LogPacket
  <2>1. CASE GetLogFileInstance("rotor") /\ UNCHANGED <<logger, rotor, got, archive, counting, firstGen>>
    BY <2>1, GetStep DEF TypeOK
  <2>2. CASE WriteLine /\ UNCHANGED logger
    BY <2>2, WriteStep DEF TypeOK
  <2> QED
    BY <1>1, <1>2, <2>1, <2>2 DEF LogPacket, Goes, TaskStep
<1>3. CASE Rotate
  <2>1. CASE PeriodicGet
    BY <2>1, GetStep DEF PeriodicGet, TypeOK
  <2> QED
    BY <1>3, <2>1, PassStep, RotateStep DEF Rotate
<1>4. CASE LogGet
  BY <1>4, GetStep DEF LogGet, TypeOK
<1>5. CASE LogWrite
  BY <1>5, WriteStep DEF LogWrite
<1>6. CASE Restart
  BY <1>6, RebootStep DEF Restart
<1>7. CASE PollGps \/ StatFile \/ OpenFile \/ OpenFails \/ WriteRow
  BY <1>1, <1>7 DEF PollGps, StatFile, OpenFile, OpenFails, WriteRow, TaskStep
<1> QED
  BY <1>1, <1>2, <1>3, <1>4, <1>5, <1>6, <1>7 DEF DataNext, Data, Others, allVars

\* The log files numbered since the last restart are in the order in which they
\* were written, for any number of files and of rotations.
THEOREM LogArchivesOrdered == DataSpec => []ArchivesInOrder
<1>1. DataInit => LogInv
  BY LogInit DEF DataInit
<1>2. LogInv /\ [DataNext]_allVars => LogInv'
  BY LogStep
<1>3. LogInv => ArchivesInOrder
  BY DEF LogInv
<1> QED
  BY <1>1, <1>2, <1>3, PTL DEF DataSpec

-----------------------------------------------------------------------------
(* The date.                                                               *)

\* A date put together from three fields is not one after l.
NotLate(y, m, d, l) ==
  (18 < y /\ y < 80) =>
    \/ y < l[1]
    \/ y = l[1] /\ m < l[2]
    \/ y = l[1] /\ m = l[2] /\ d <= l[3]

\* What parse() is storing is the latest date, or none.
Storing ==
  /\ parser # "idle" => \/ sentence = latest
                        \/ sentence = Gps!NoDate
                        \/ sentence = Gps!Unset /\ latest = Gps!NoDate
  /\ parser # "idle" => gps[3] = sentence[3]
  /\ parser = "year" => gps[2] = sentence[2]

\* The inductive invariant behind NoFutureDate: at every point of GPS_Poll(), the
\* fields copied so far with the others as they are now make such a date.
Mixtures ==
  /\ NotLate(gps[1], gps[2], gps[3], latest)
  /\ at = "month" => NotLate(polled[1], gps[2], gps[3], latest)
  /\ at = "day" => NotLate(polled[1], polled[2], gps[3], latest)
  /\ at \notin {"year", "month", "day"} => NotLate(polled[1], polled[2], polled[3], latest)

DateInv == Gps!GpsTypeOK /\ Storing /\ Mixtures

\* The fields of a date are numbers; a date of the calendar has a month and a day.
LEMMA DateFields ==
  /\ \A t \in Gps!Date \cup Calendar \cup {Gps!NoDate, Gps!Unset} :
       t[1] \in 0..80 /\ t[2] \in 0..12 /\ t[3] \in 0..31
  /\ \A t \in Calendar : t[1] > 18 /\ t[1] < 80 /\ t[2] > 0 /\ t[3] > 0
  BY CalendarAssumption DEF Gps!Date, Gps!NoDate, Gps!Unset

\* Storing a field changes that field only.
LEMMA FieldStored ==
  ASSUME NEW g \in Gps!Date, NEW i \in 1..3, NEW x
  PROVE  \A j \in 1..3 : [g EXCEPT ![i] = x][j] = IF j = i THEN x ELSE g[j]
  BY DEF Gps!Date

\* Storing the day of the latest date, or none, makes no mixture late.
LEMMA DayMixed ==
  ASSUME NEW l \in Calendar \cup {Gps!NoDate}, NEW s \in Calendar \cup {Gps!NoDate, Gps!Unset},
         \/ s \in Calendar /\ Gps!NotAfter(l, s)
         \/ s = Gps!NoDate
         \/ s = Gps!Unset /\ l = Gps!NoDate,
         NEW y \in Nat, NEW m \in Nat, NEW d \in Nat, NotLate(y, m, d, l)
  PROVE  LET k == IF s \in Calendar THEN s ELSE l
         IN  NotLate(y, m, d, k) /\ NotLate(y, m, s[3], k)
<1>1. CASE s \in Calendar
  <2>1. Gps!NotAfter(l, s)
    BY <1>1, DateFields DEF Gps!NoDate, Gps!Unset
  <2> QED
    BY <1>1, <2>1, DateFields DEF NotLate, Gps!NotAfter
<1>2. CASE s = Gps!NoDate /\ s \notin Calendar
  BY <1>2, DateFields DEF NotLate, Gps!NoDate
<1>3. CASE s = Gps!Unset /\ l = Gps!NoDate /\ s \notin Calendar
  BY <1>3 DEF NotLate, Gps!NoDate
<1> QED
  BY <1>1, <1>2, <1>3

\* Nor does storing its month after its day.
LEMMA MonthMixed ==
  ASSUME NEW l \in Calendar \cup {Gps!NoDate}, NEW s,
         s = l \/ s = Gps!NoDate \/ (s = Gps!Unset /\ l = Gps!NoDate),
         NEW y \in Nat, NEW m \in Nat, NEW d \in Nat, NotLate(y, m, d, l)
  PROVE  NotLate(y, s[2], s[3], l) /\ NotLate(s[1], s[2], s[3], l)
<1>1. CASE s = l
  BY <1>1, DateFields DEF NotLate
<1>2. CASE s = Gps!NoDate
  BY <1>2, DateFields DEF NotLate, Gps!NoDate
<1>3. CASE s = Gps!Unset /\ l = Gps!NoDate
  BY <1>3 DEF NotLate, Gps!NoDate, Gps!Unset
<1> QED
  BY <1>1, <1>2, <1>3

\* The steps of parse() keep the types and what is being stored.
LEMMA ParseTypes == DateInv /\ Gps!Parse => Gps!GpsTypeOK' /\ Storing'
<1> SUFFICES ASSUME DateInv, Gps!Parse PROVE Gps!GpsTypeOK' /\ Storing'
  OBVIOUS
<1> USE DEF DateInv, Storing
<1>1. gps \in Gps!Date /\ sentence \in Calendar \cup {Gps!NoDate, Gps!Unset}
  BY DEF Gps!GpsTypeOK
<1>2. CASE Gps!StoreDay
  <2>1. PICK d \in Calendar \cup {Gps!NoDate, Gps!Unset} :
          /\ Gps!Sent(d) /\ sentence' = d /\ gps' = [gps EXCEPT ![3] = d[3]]
          /\ latest' = IF d \in Calendar THEN d ELSE latest
    BY <1>2 DEF Gps!StoreDay
  <2>2. parser' = "month" /\ polled' = polled
    BY <1>2 DEF Gps!StoreDay
  <2>3. gps' \in Gps!Date
    BY <1>1, <2>1, DateFields DEF Gps!Date
  <2>4. gps'[3] = d[3]
    BY <1>1, <2>1, FieldStored
  <2>5. d \in Calendar \/ d = Gps!NoDate \/ (d = Gps!Unset /\ latest = Gps!NoDate)
    BY <2>1 DEF Gps!Sent
  <2>6. Gps!Unset \notin Calendar
    BY DateFields DEF Gps!Unset
  <2> QED
    BY <2>1, <2>2, <2>3, <2>4, <2>5, <2>6 DEF Gps!GpsTypeOK
<1>3. CASE Gps!StoreMonth
  <2>1. gps' \in Gps!Date
    BY <1>1, <1>3, DateFields DEF Gps!StoreMonth, Gps!Date
  <2>2. gps'[3] = gps[3] /\ gps'[2] = sentence[2]
    BY <1>1, <1>3, FieldStored DEF Gps!StoreMonth
  <2> QED
    BY <1>3, <2>1, <2>2 DEF Gps!StoreMonth, Gps!GpsTypeOK
<1>4. CASE Gps!StoreYear
  <2>1. gps' \in Gps!Date
    BY <1>1, <1>4, DateFields DEF Gps!StoreYear, Gps!Date
  <2> QED
    BY <1>4, <2>1 DEF Gps!StoreYear, Gps!GpsTypeOK
<1> QED
  BY <1>2, <1>3, <1>4 DEF Gps!Parse

\* The steps of parse() make no mixture late, wherever GPS_Poll() is.
LEMMA ParseMixes == DateInv /\ Gps!Parse /\ UNCHANGED at => Mixtures'
<1> SUFFICES ASSUME DateInv, Gps!Parse, UNCHANGED at PROVE Mixtures'
  OBVIOUS
<1> USE DEF DateInv, Mixtures
<1>1. /\ gps \in Gps!Date /\ polled \in Gps!Date
      /\ sentence \in Calendar \cup {Gps!NoDate, Gps!Unset}
      /\ latest \in Calendar \cup {Gps!NoDate}
  BY DEF Gps!GpsTypeOK
<1>2. \A t \in {gps, polled, sentence} : t[1] \in Nat /\ t[2] \in Nat /\ t[3] \in Nat
  BY <1>1, DateFields
<1>3. CASE Gps!StoreDay
  <2>1. PICK d \in Calendar \cup {Gps!NoDate, Gps!Unset} :
          /\ Gps!Sent(d) /\ gps' = [gps EXCEPT ![3] = d[3]]
          /\ latest' = IF d \in Calendar THEN d ELSE latest
    BY <1>3 DEF Gps!StoreDay
  <2>2. polled' = polled /\ gps'[1] = gps[1] /\ gps'[2] = gps[2] /\ gps'[3] = d[3]
    BY <1>1, <1>3, <2>1, FieldStored DEF Gps!StoreDay
  <2>3. \A y, m, e \in Nat : NotLate(y, m, e, latest)
          => NotLate(y, m, e, latest') /\ NotLate(y, m, d[3], latest')
    BY <1>1, <2>1, DayMixed DEF Gps!Sent
  <2> QED
    BY <1>2, <2>2, <2>3
<1>4. CASE Gps!StoreMonth
  <2>1. /\ gps'[1] = gps[1] /\ gps'[2] = sentence[2] /\ gps'[3] = sentence[3]
        /\ polled' = polled /\ latest' = latest
    BY <1>1, <1>4, FieldStored DEF Gps!StoreMonth, Storing
  <2>2. \A y, m, e \in Nat : NotLate(y, m, e, latest)
          => NotLate(y, sentence[2], sentence[3], latest)
    BY <1>1, <1>4, MonthMixed DEF Gps!StoreMonth, Storing
  <2>3. gps[3] = sentence[3]
    BY <1>4 DEF Gps!StoreMonth, Storing
  <2> QED
    BY <1>2, <2>1, <2>2, <2>3
<1>5. CASE Gps!StoreYear
  <2>1. /\ gps'[1] = sentence[1] /\ gps'[2] = gps[2] /\ gps'[3] = gps[3]
        /\ polled' = polled /\ latest' = latest
        /\ gps[2] = sentence[2] /\ gps[3] = sentence[3]
    BY <1>1, <1>5, FieldStored DEF Gps!StoreYear, Storing
  <2>2. NotLate(sentence[1], sentence[2], sentence[3], latest)
    BY <1>1, <1>2, <1>5, MonthMixed DEF Gps!StoreYear, Storing
  <2> QED
    BY <2>1, <2>2
<1> QED
  BY <1>3, <1>4, <1>5 DEF Gps!Parse

\* Copying a field of a date.
LEMMA FieldCopied ==
  ASSUME Gps!GpsTypeOK, NEW i \in 1..3, Gps!CopyField(i)
  PROVE  /\ Gps!GpsTypeOK'
         /\ \A j \in 1..3 : polled'[j] = IF j = i THEN gps[j] ELSE polled[j]
<1>1. polled \in Gps!Date /\ gps \in Gps!Date
  BY DEF Gps!GpsTypeOK
<1>2. polled' \in Gps!Date
  BY <1>1 DEF Gps!Date, Gps!CopyField
<1> QED
  BY <1>1, <1>2, FieldStored DEF Gps!GpsTypeOK, Gps!CopyField

\* Every step of the composition keeps the invariant of the date.
LEMMA DateStep == DateInv /\ [DataNext]_allVars => DateInv'
<1> SUFFICES ASSUME DateInv, [DataNext]_allVars PROVE DateInv'
  OBVIOUS
<1>1. CASE PollGps
  <2>1. UNCHANGED <<gps, sentence, parser, latest>>
    BY <1>1 DEF PollGps, Gps!CopyField
  <2>2. Storing'
    BY <2>1 DEF DateInv, Storing
  <2>3. CASE TaskStep("year", "month") /\ Gps!CopyField(1)
    BY <2>1, <2>2, <2>3, FieldCopied DEF DateInv, Mixtures, TaskStep, Goes
  <2>4. CASE TaskStep("month", "day") /\ Gps!CopyField(2)
    BY <2>1, <2>2, <2>4, FieldCopied DEF DateInv, Mixtures, TaskStep, Goes
  <2>5. CASE TaskStep("day", "log") /\ Gps!CopyField(3)
    BY <2>1, <2>2, <2>5, FieldCopied DEF DateInv, Mixtures, TaskStep, Goes
  <2> QED
    BY <1>1, <2>3, <2>4, <2>5 DEF PollGps
<1>2. CASE LogPacket \/ StatFile \/ OpenFile \/ OpenFails \/ WriteRow
  <2>1. UNCHANGED gpsVars /\ at \notin {"year", "month", "day"}
        /\ at' \notin {"year", "month", "day"}
    BY <1>2 DEF LogPacket, StatFile, OpenFile, OpenFails, WriteRow, TaskStep, Goes
  <2> QED
    BY <2>1 DEF DateInv, Storing, Mixtures, gpsVars, Gps!GpsTypeOK
<1>3. CASE Rotate
  <2>1. UNCHANGED <<gps, sentence, parser, latest>> /\ polled' = Gps!NoDate
        /\ at' \in {"year", "rotate"}
    BY <1>3 DEF Rotate
  <2>2. NotLate(0, 0, 0, latest) /\ Gps!NoDate \in Gps!Date
    BY DEF NotLate, Gps!NoDate, Gps!Date
  <2> QED
    BY <2>1, <2>2 DEF DateInv, Storing, Mixtures, Gps!GpsTypeOK, Gps!NoDate
<1>4. CASE Gps!Parse /\ UNCHANGED <<vars, taskVars>>
  BY <1>4, ParseTypes, ParseMixes DEF DateInv, taskVars
<1>5. CASE (LogGet \/ LogWrite) /\ UNCHANGED <<gpsVars, taskVars>>
  BY <1>5 DEF DateInv, Storing, Mixtures, gpsVars, taskVars, Gps!GpsTypeOK
<1>6. CASE Restart
  <2>1. /\ gps' = Gps!NoDate /\ sentence' = Gps!NoDate /\ parser' = "idle"
        /\ polled' = Gps!NoDate /\ latest' = latest /\ at' = "year"
    BY <1>6 DEF Restart, Gps!GpsReset
  <2>2. NotLate(0, 0, 0, latest) /\ Gps!NoDate \in Gps!Date
    BY DEF NotLate, Gps!NoDate, Gps!Date
  <2> QED
    BY <2>1, <2>2 DEF DateInv, Storing, Mixtures, Gps!GpsTypeOK, Gps!NoDate
<1>7. CASE UNCHANGED allVars
  BY <1>7 DEF DateInv, Storing, Mixtures, allVars, gpsVars, taskVars, Gps!GpsTypeOK
<1> QED
  BY <1>1, <1>2, <1>3, <1>4, <1>5, <1>6, <1>7 DEF DataNext, Data, Others

\* No row is filed under a date that has not come yet, for any calendar and any
\* interleaving of the parser with the poll.
THEOREM DatesNotInFuture == DataSpec => []NoFutureDate
<1>1. DataInit => DateInv
  <2> SUFFICES ASSUME DataInit PROVE DateInv
    OBVIOUS
  <2>1. NotLate(0, 0, 0, latest) /\ Gps!NoDate \in Gps!Date
    BY DEF NotLate, Gps!NoDate, Gps!Date
  <2> QED
    BY <2>1 DEF DataInit, Gps!GpsInit, DateInv, Storing, Mixtures, Gps!GpsTypeOK, Gps!NoDate
<1>2. DateInv /\ [DataNext]_allVars => DateInv'
  BY DateStep
<1>3. DateInv => NoFutureDate
  BY DEF DateInv, Mixtures, NotLate, NoFutureDate, Dated, Gps!NotAfter
<1> QED
  BY <1>1, <1>2, <1>3, PTL DEF DataSpec

-----------------------------------------------------------------------------
(* The data file and the shared FILE pointer.                              *)

TaskTypeOK ==
  /\ at \in {"year", "month", "day", "log", "logging", "stat", "open", "write",
              "rotate"}
  /\ exists \in BOOLEAN /\ orphan \in BOOLEAN
  /\ watched \in Calendar
  /\ content \in {"absent", "empty", "headed", "bare"}

\* The inductive invariant behind RowsUnderHeader: what stat() said is still true
\* when the row is written, and a file is empty only while it is being created or
\* because a restart interrupted that.
FileInv ==
  /\ at \in {"open", "write"} /\ exists => polled = watched /\ content # "absent"
  /\ at = "open" /\ ~exists /\ polled = watched => content = "absent"
  /\ at = "write" /\ ~exists /\ polled = watched => content = "empty"
  /\ content = "empty" => orphan \/ (at = "write" /\ ~exists /\ polled = watched)
  /\ content = "bare" => orphan

\* Every step of the composition keeps the type of the data task's variables.
LEMMA TaskTypeStep == TaskTypeOK /\ [DataNext]_allVars => TaskTypeOK'
<1> SUFFICES ASSUME TaskTypeOK, [DataNext]_allVars PROVE TaskTypeOK'
  OBVIOUS
<1> USE DEF TaskTypeOK, TaskStep, Goes
<1>1. CASE PollGps
  BY <1>1 DEF PollGps
<1>2. CASE LogPacket
  BY <1>2 DEF LogPacket
<1>3. CASE StatFile
  BY <1>3 DEF StatFile
<1>4. CASE OpenFile
  BY <1>4 DEF OpenFile
<1>5. CASE OpenFails
  BY <1>5 DEF OpenFails
<1>6. CASE WriteRow
  BY <1>6 DEF WriteRow, Written
<1>7. CASE Rotate
  BY <1>7 DEF Rotate
<1>8. CASE Others
  BY <1>8 DEF Others, taskVars
<1>9. CASE Restart
  BY <1>9 DEF Restart
<1>10. CASE UNCHANGED allVars
  BY <1>10 DEF allVars, taskVars
<1> QED
  BY <1>1, <1>2, <1>3, <1>4, <1>5, <1>6, <1>7, <1>8, <1>9, <1>10 DEF DataNext, Data

\* Every step of the composition keeps the invariant of the data file.
LEMMA FileStep == TaskTypeOK /\ FileInv /\ [DataNext]_allVars => FileInv'
<1> SUFFICES ASSUME TaskTypeOK, FileInv, [DataNext]_allVars PROVE FileInv'
  OBVIOUS
<1> USE DEF TaskTypeOK, FileInv, TaskStep, Goes
<1>1. CASE PollGps
  BY <1>1 DEF PollGps
<1>2. CASE LogPacket
  BY <1>2 DEF LogPacket
<1>3. CASE StatFile
  BY <1>3 DEF StatFile, gpsVars
<1>4. CASE OpenFile
  BY <1>4 DEF OpenFile, gpsVars
<1>5. CASE OpenFails
  BY <1>5 DEF OpenFails
<1>6. CASE WriteRow
  BY <1>6 DEF WriteRow, Written
<1>7. CASE Rotate
  BY <1>7 DEF Rotate
<1>8. CASE Others
  BY <1>8 DEF Others, taskVars, gpsVars, Gps!Parse, Gps!StoreDay, Gps!StoreMonth, Gps!StoreYear
<1>9. CASE Restart
  BY <1>9 DEF Restart
<1>10. CASE UNCHANGED allVars
  BY <1>10 DEF allVars, taskVars, gpsVars
<1> QED
  BY <1>1, <1>2, <1>3, <1>4, <1>5, <1>6, <1>7, <1>8, <1>9, <1>10 DEF DataNext, Data

\* A data file without its header is one whose creation a restart interrupted, for
\* any sequence of dates, failures and restarts.
THEOREM HeaderBeforeRows == DataSpec => []RowsUnderHeader
<1>1. DataInit => TaskTypeOK /\ FileInv
  BY DEF DataInit, TaskTypeOK, FileInv
<1>2. TaskTypeOK /\ FileInv /\ [DataNext]_allVars => (TaskTypeOK /\ FileInv)'
  BY TaskTypeStep, FileStep
<1>3. TaskTypeOK /\ FileInv => RowsUnderHeader
  BY DEF FileInv, RowsUnderHeader
<1> QED
  BY <1>1, <1>2, <1>3, PTL DEF DataSpec

\* The variables of the log, of the receiver and of the task keep their types.
THEOREM DataTypeCorrect == DataSpec => []DataTypeOK
<1> DEFINE I == LogInv /\ DateInv /\ TaskTypeOK
<1>1. DataInit => I
  <2> SUFFICES ASSUME DataInit PROVE I
    OBVIOUS
  <2>1. NotLate(0, 0, 0, latest) /\ Gps!NoDate \in Gps!Date
    BY DEF NotLate, Gps!NoDate, Gps!Date
  <2>2. DateInv
    BY <2>1 DEF DataInit, Gps!GpsInit, DateInv, Storing, Mixtures, Gps!GpsTypeOK, Gps!NoDate
  <2> QED
    BY <2>2, LogInit DEF DataInit, TaskTypeOK
<1>2. I /\ [DataNext]_allVars => I'
  BY LogStep, DateStep, TaskTypeStep
<1>3. I => DataTypeOK
  BY DEF LogInv, DateInv, TaskTypeOK, DataTypeOK
<1> QED
  BY <1>1, <1>2, <1>3, PTL DEF DataSpec

\* Who holds s_log_mutex, and the inductive invariant behind DanglingNotReused.
PointerInv ==
  /\ (holder = "logger") <=> (logger = "write")
  /\ (holder = "rotor") <=> (at = "logging" \/ (at = "rotate" /\ got /\ rotor \in {"body", "closed", "move"}))
  /\ at # "rotate" => rotor = "idle"
  /\ at \in {"stat", "open", "write"} /\ fp = "closed" => logger = "write"

LockInv == TypeOK /\ TaskTypeOK /\ PointerInv

\* Every step of the composition keeps the invariant of the pointer.
LEMMA PointerStep == LockInv /\ [DataNext]_allVars => PointerInv'
<1> SUFFICES ASSUME LockInv, [DataNext]_allVars PROVE PointerInv'
  OBVIOUS
<1> USE DEF LockInv, PointerInv
<1>1. got \in BOOLEAN /\ rotor \in {"idle", "body", "closed", "move", "assign"}
      /\ holder \in {"nobody", "logger", "rotor"} /\ logger \in {"idle", "write"}
  BY DEF TypeOK
<1>2. CASE PollGps \/ StatFile \/ OpenFile \/ OpenFails \/ WriteRow
  BY <1>2 DEF PollGps, StatFile, OpenFile, OpenFails, WriteRow, TaskStep, Goes, vars
<1>3. CASE LogPacket
  <2>1. CASE /\ Goes("log", "logging") /\ GetLogFileInstance("rotor")
             /\ UNCHANGED <<logger, rotor, got, archive, counting, firstGen>>
    <3>1. /\ holder = "nobody" /\ holder' = "rotor" /\ at' = "logging" /\ at = "log"
          /\ UNCHANGED <<logger, rotor, got>>
      BY <2>1 DEF Goes, GetLogFileInstance
    <3> QED
      BY <1>1, <3>1
  <2>2. CASE TaskStep("log", "stat") /\ NoLogFileInstance
    <3>1. /\ at = "log" /\ at' = "stat" /\ UNCHANGED <<holder, fp, logger, rotor, got>>
          /\ holder = "logger" \/ fp = "null"
      BY <2>2 DEF TaskStep, Goes, vars, NoLogFileInstance
    <3> QED
      BY <1>1, <3>1
  <2>3. CASE Goes("logging", "stat") /\ WriteLine /\ UNCHANGED logger
    <3>1. /\ holder = "rotor" /\ holder' = "nobody" /\ at' = "stat" /\ at = "logging"
          /\ fp' = "null" /\ UNCHANGED <<logger, rotor, got>>
      BY <2>3 DEF Goes, WriteLine
    <3> QED
      BY <1>1, <3>1
  <2> QED
    BY <1>3, <2>1, <2>2, <2>3 DEF LogPacket
<1>4. CASE Rotate
  <2> USE <1>1, <1>4 DEF Rotate
  <2>1. CASE PeriodicGet
    BY <2>1 DEF PeriodicGet, GetLogFileInstance
  <2>2. CASE PeriodicGetsNone
    BY <2>2 DEF PeriodicGetsNone
  <2>3. CASE PeriodicRotates
    BY <2>3 DEF PeriodicRotates
  <2>4. CASE PeriodicKeeps
    BY <2>4 DEF PeriodicKeeps
  <2>5. CASE PeriodicAssign
    BY <2>5 DEF PeriodicAssign
  <2>6. CASE PeriodicCloses \/ PeriodicForgets
    <3>1. /\ rotor \in {"body", "closed"} /\ rotor' \in {"closed", "move"}
          /\ at = "rotate" /\ at' = "rotate" /\ UNCHANGED <<holder, logger, got>>
      BY <2>6 DEF PeriodicCloses, PeriodicForgets
    <3> QED
      BY <3>1
  <2> QED
    BY <2>1, <2>2, <2>3, <2>4, <2>5, <2>6
<1>5. CASE Gps!Parse /\ UNCHANGED <<vars, taskVars>>
  BY <1>5 DEF vars, taskVars
<1>6. CASE LogGet /\ UNCHANGED taskVars
  BY <1>1, <1>6 DEF LogGet, GetLogFileInstance, taskVars
<1>7. CASE LogWrite /\ UNCHANGED taskVars
  BY <1>1, <1>7 DEF LogWrite, WriteLine, taskVars
<1>8. CASE Restart
  BY <1>8 DEF Restart, Reboot
<1>9. CASE UNCHANGED allVars
  BY <1>9 DEF allVars, vars, taskVars
<1> QED
  BY <1>2, <1>3, <1>4, <1>5, <1>6, <1>7, <1>8, <1>9 DEF DataNext, Data, Others

\* While the data file is open no new log call meets the dangling pointer, for any
\* interleaving of the loggers with the rotation and its time-outs.
THEOREM PointerReset == DataSpec => []DanglingNotReused
<1> DEFINE I == LogInv /\ TaskTypeOK /\ PointerInv
<1>1. DataInit => I
  <2> SUFFICES ASSUME DataInit PROVE I
    OBVIOUS
  <2>1. PointerInv
    BY DEF DataInit, Init, PointerInv
  <2> QED
    BY <2>1, LogInit DEF DataInit, TaskTypeOK
<1>2. I /\ [DataNext]_allVars => I'
  BY LogStep, TaskTypeStep, PointerStep DEF LockInv, LogInv
<1>3. I => DanglingNotReused
  BY DEF PointerInv, DanglingNotReused
<1> QED
  BY <1>1, <1>2, <1>3, PTL DEF DataSpec

=============================================================================
