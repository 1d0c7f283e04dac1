------------------------------- MODULE SdLog --------------------------------
(***************************************************************************)
(* The log on the SD card (src/main/sd_if.c): every task logs through      *)
(* esp_sd_log_write() into LOGGING-0.log; data_task() calls                *)
(* periodic_timer_callback(), which moves a full log to LOGGING-<n>.log.   *)
(* A FILE pointer and a mutex are shared.  A generation is what was logged *)
(* between two moves.                                                      *)
(***************************************************************************)
EXTENDS Naturals

CONSTANTS
  MaxLog,   \* MOUNT_CONFIG_MAXLOGFILE: 15 in the code, and LOGGING-15.log with it
  MaxGen    \* generations (bound)

ASSUME LogAssumption == MaxLog \in Nat \ {0} /\ MaxGen \in Nat \ {0}

VARIABLES
  holder,     \* who holds s_log_mutex
  fp,         \* _semaphoreLogFileInstance: null, open, or another file's (dangling)
  logger,     \* a task inside esp_sd_log_write()
  rotor,      \* data_task() inside periodic_timer_callback()
  got,        \* its local logFileInstance is not NULL
  current,    \* LOGGING-0.log: does it exist, is it full, its generation
  archive,    \* the generation in each LOGGING-<n>.log, 0 when there is none
  counting,   \* logFileCounting
  firstGen    \* the generation current when the firmware started

fileVars == <<current, archive, counting>>
vars == <<holder, fp, logger, rotor, got, fileVars, firstGen>>

TypeOK ==
  /\ holder \in {"nobody", "logger", "rotor"}
  /\ fp \in {"null", "open", "closed"}
  /\ logger \in {"idle", "write"}
  /\ rotor \in {"idle", "body", "closed", "move", "assign"}
  /\ got \in BOOLEAN
  /\ current \in [exists : BOOLEAN, full : BOOLEAN, gen : 1..(MaxGen + 1)]
  /\ archive \in [1..MaxLog -> 0..MaxGen]
  /\ counting \in 1..MaxLog
  /\ firstGen \in 1..(MaxGen + 1)

\* After SD_Initialize(), whose own call of the callback only ends "firstTime".
Init ==
  /\ holder = "nobody" /\ fp = "null" /\ logger = "idle" /\ rotor = "idle"
  /\ got = FALSE
  /\ current = [exists |-> FALSE, full |-> FALSE, gen |-> 1]
  /\ archive = [n \in 1..MaxLog |-> 0] /\ counting = 1 /\ firstGen = 1

-----------------------------------------------------------------------------
\* getLogFileInstance() with the mutex, which is taken to have been created (two
\* tasks that log for the first time at once would create two): fopen() with "a"
\* creates the file; a pointer that is not NULL is handed out as it is.
GetLogFileInstance(who) ==
  /\ holder = "nobody" /\ holder' = who
  /\ IF fp = "null"
     THEN fp' = "open" /\ current' = [current EXCEPT !.exists = TRUE]
     ELSE UNCHANGED <<fp, current>>

\* It returns NULL when the mutex is not to be had within MAX_MUTEX_WAIT_TICKS, or
\* when fopen() fails, which gives the mutex back.
NoLogFileInstance == holder = "logger" \/ fp = "null"

\* esp_sd_log_write(); without an instance it writes nothing.
LogGet ==
  /\ logger = "idle" /\ logger' = "write"
  /\ GetLogFileInstance("logger")
  /\ UNCHANGED <<rotor, got, archive, counting, firstGen>>

\* vfprintf(), fflush() and releaseLogFileInstance().  Only what is written
\* through an open file reaches the card.
WriteLine ==
  /\ \E full \in BOOLEAN :
       current' = IF fp = "open" THEN [current EXCEPT !.full = @ \/ full] ELSE current
  /\ fp' = "null" /\ holder' = "nobody"
  /\ UNCHANGED <<rotor, got, archive, counting, firstGen>>

LogWrite == logger = "write" /\ logger' = "idle" /\ WriteLine

\* periodic_timer_callback(): get the file, or go on without it and the mutex.
PeriodicGet ==
  /\ rotor = "idle" /\ rotor' = "body" /\ got' = TRUE
  /\ GetLogFileInstance("rotor")
  /\ UNCHANGED <<logger, archive, counting, firstGen>>

PeriodicGetsNone ==
  /\ rotor = "idle" /\ rotor' = "body" /\ got' = FALSE
  /\ NoLogFileInstance
  /\ UNCHANGED <<holder, fp, logger, fileVars, firstGen>>

\* stat() fills in st_size only for a file that exists; otherwise it is whatever
\* the stack held.
LooksFull == IF current.exists THEN {current.full} ELSE BOOLEAN

\* remove() and rename(); rename() fails if there is nothing to rename.
Moved(n) == [archive EXCEPT ![n] = IF current.exists THEN current.gen ELSE 0]

\* Faulty variant: the number is not capped.
NotCapped(files, next) == archive' = files /\ counting' = next

\* Faulty variant: past the last number, the numbering starts again.
Wrapped(files, next) ==
  archive' = files /\ counting' = IF next > MaxLog THEN 1 ELSE next

\* Past the last number, the file of that number is removed and the number kept:
\* the loop that should shift the files down never runs (its condition is i > 14).
Capped(files, next) ==
  IF next > MaxLog
  THEN archive' = [files EXCEPT ![MaxLog] = 0] /\ counting' = MaxLog
  ELSE archive' = files /\ counting' = next

\* A full log is closed, with or without the mutex, ...
PeriodicCloses ==
  /\ rotor = "body" /\ rotor' = "closed"
  /\ TRUE \in LooksFull /\ fp # "null" /\ current.gen <= MaxGen
  /\ fp' = "closed"
  /\ UNCHANGED <<holder, logger, got, fileVars, firstGen>>

PeriodicForgets ==
  /\ rotor = "closed" /\ rotor' = "move"
  /\ fp' = "null"
  /\ UNCHANGED <<holder, logger, got, fileVars, firstGen>>

\* ... and moved, under the hands of a task that has opened it again meanwhile.
\* releaseLogFileInstance() then only gives the mutex.
PeriodicRotates ==
  /\ rotor = "move" /\ rotor' = "assign"
  /\ Capped(Moved(counting), counting + 1)
  /\ current' = IF current.exists
                THEN [exists |-> FALSE, full |-> FALSE, gen |-> current.gen + 1]
                ELSE current
  /\ fp' = IF fp = "open" THEN "closed" ELSE fp
  /\ holder' = IF got THEN "nobody" ELSE holder
  /\ UNCHANGED <<logger, got, firstGen>>

\* Otherwise releaseLogFileInstance() closes the file and gives the mutex.
PeriodicKeeps ==
  /\ rotor = "body" /\ rotor' = "assign"
  /\ FALSE \in LooksFull \/ fp = "null"
  /\ fp' = IF got THEN "null" ELSE fp
  /\ holder' = IF got THEN "nobody" ELSE holder
  /\ UNCHANGED <<logger, got, fileVars, firstGen>>

\* The last line restores the pointer whose file has just been closed.
PeriodicAssign ==
  /\ rotor = "assign" /\ rotor' = "idle"
  /\ fp' = (IF got THEN "closed" ELSE "null") /\ got' = FALSE
  /\ UNCHANGED <<holder, logger, fileVars, firstGen>>

\* A restart: the card keeps its files, the numbering starts again at 1.
Reboot ==
  /\ holder' = "nobody" /\ fp' = "null" /\ logger' = "idle" /\ rotor' = "idle"
  /\ got' = FALSE /\ counting' = 1 /\ firstGen' = current.gen
  /\ UNCHANGED <<current, archive>>

Next == \/ LogGet \/ LogWrite
        \/ PeriodicGet \/ PeriodicGetsNone \/ PeriodicKeeps \/ PeriodicCloses
        \/ PeriodicForgets \/ PeriodicRotates \/ PeriodicAssign \/ Reboot

Spec == Init /\ [][Next]_vars

-----------------------------------------------------------------------------
(* Properties.                                                             *)

\* The files numbered since the last restart are in the order of their contents: a
\* later log is in a higher number, although rotations may happen without the mutex
\* and on an uninitialised size, and go on past the last number.
ArchivesInOrder ==
  \A m, n \in 1..MaxLog :
    (m < n /\ archive[m] >= firstGen /\ archive[n] >= firstGen)
      => archive[m] < archive[n]

\* Line 270: "Remove the LOGGING-15.log since its content is copied into
\* LOGGING-14.log previously".  A log that is moved away is in some file.
RotatedLogKept ==
  [][current'.gen # current.gen => \E n \in 1..MaxLog : archive'[n] = current.gen]_vars

=============================================================================
