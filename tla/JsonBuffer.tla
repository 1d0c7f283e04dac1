---------------------------- MODULE JsonBuffer -----------------------------
(***************************************************************************)
(* The json buffers that the HTTP server (src/main/http_server_if.c) sends *)
(* and the Wi-Fi manager and its ping thread (src/main/wifi_manager.c)     *)
(* rewrite, and wifi_manager_json_mutex, which is meant to keep them       *)
(* apart.                                                                  *)
(***************************************************************************)
EXTENDS Naturals

CONSTANTS
  Route,     \* what the web page requests: subset of HttpJob
  Nobody     \* the mutex is free

Task == {"manager", "ping", "http"}

\* What a task does with a buffer: the status update and the flush of the
\* connection status, the access-point list, and the three pages.
ManagerJob == {"status_update", "connect_async", "scan"}
HttpJob    == {"ap.json", "status.json", "register.json", "connect.json"}
Job        == ManagerJob \cup HttpJob

ASSUME RouteAssumption == Route \subseteq HttpJob
ASSUME NobodyAssumption == Nobody \notin Task

Jobs(t) == CASE t = "manager" -> ManagerJob
             [] t = "ping"    -> {"connect_async"}
             [] t = "http"    -> Route

\* Of accessp_json, ip_info_json and reg_info_json, the one a job uses.
BufferOf(j) == CASE j \in {"scan", "ap.json"} -> "ap"
                 [] j = "register.json"       -> "reg"
                 [] OTHER                     -> "ip"

\* POST /connect.json flushes the status; GET /register.json generates its page.
Writes(j) == j \in ManagerJob \cup {"connect.json", "register.json"}

\* Locks with a timeout of 10 or 20 ticks; the others wait for ever.
Bounded(j) == j \in {"scan", "ap.json", "status.json", "register.json"}

VARIABLES
  holder,   \* the task that holds wifi_manager_json_mutex, or Nobody
  pc,       \* where each task is
  job,      \* what it is doing
  aborted   \* a FreeRTOS assertion failed; the firmware is about to restart

vars == <<holder, pc, job, aborted>>

TypeOK ==
  /\ holder \in Task \cup {Nobody}
  /\ pc \in [Task -> {"idle", "lock", "using", "again"}]
  /\ job \in [Task -> Job]
  /\ aborted \in BOOLEAN

Init ==
  /\ holder = Nobody
  /\ pc = [t \in Task |-> "idle"]
  /\ job = [t \in Task |-> IF t = "http" THEN "ap.json" ELSE "connect_async"]
  /\ aborted = FALSE

-----------------------------------------------------------------------------
Moves(t, from, to) == ~aborted /\ pc[t] = from /\ pc' = [pc EXCEPT ![t] = to]

Begin(t) ==
  /\ Moves(t, "idle", "lock")
  /\ \E j \in Jobs(t) : job' = [job EXCEPT ![t] = j]
  /\ UNCHANGED <<holder, aborted>>

\* wifi_manager_lock_json_buffer().
Lock(t) ==
  /\ Moves(t, "lock", "using")
  /\ holder = Nobody /\ holder' = t
  /\ UNCHANGED <<job, aborted>>

\* Faulty variant: a task whose wait has timed out goes on all the same.
LockTimesOutProceeds(t) ==
  /\ Bounded(job[t]) /\ holder # Nobody
  /\ Moves(t, "lock", "using")
  /\ UNCHANGED <<holder, job, aborted>>

\* xSemaphoreTake() times out: the page answers 503, the scan result is dropped;
\* only GET /register.json goes on, to the unlock that ends it.
LockTimesOut(t) ==
  /\ Bounded(job[t]) /\ holder # Nobody
  /\ Moves(t, "lock", IF job[t] = "register.json" THEN "again" ELSE "idle")
  /\ UNCHANGED <<holder, job, aborted>>

\* xSemaphoreGive() (external): a free mutex stays free and the error is
\* ignored; giving a mutex that another task holds fails an assertion of
\* FreeRTOS, which this configuration turns into an abort.
Give(t) ==
  /\ holder' = IF holder = t THEN Nobody ELSE holder
  /\ aborted' = (holder \notin {t, Nobody})

\* Faulty variant: the access-point page returns without unlocking.
UnlockForgotten(t) ==
  /\ Moves(t, "using", IF job[t] = "register.json" THEN "again" ELSE "idle")
  /\ IF job[t] = "ap.json" THEN UNCHANGED <<holder, aborted>> ELSE Give(t)
  /\ UNCHANGED job

\* The buffer has been generated, cleared or sent, and
\* wifi_manager_unlock_json_buffer() is called; GET /register.json calls it twice.
Unlock(t) ==
  /\ Moves(t, "using", IF job[t] = "register.json" THEN "again" ELSE "idle")
  /\ Give(t)
  /\ UNCHANGED job

UnlockAgain(t) ==
  /\ Moves(t, "again", "idle") /\ Give(t)
  /\ UNCHANGED job

Restart ==
  /\ aborted /\ aborted' = FALSE
  /\ holder' = Nobody
  /\ pc' = [t \in Task |-> "idle"]
  /\ UNCHANGED job

Proceeds(t) == Unlock(t) \/ UnlockAgain(t)

Next == \/ \E t \in Task : Begin(t) \/ Lock(t) \/ LockTimesOut(t) \/ Proceeds(t)
        \/ Restart

Spec == Init /\ [][Next]_vars

\* A task in the middle of a job runs.  A waiting task gets the mutex if it is
\* free again and again: http_server() sleeps 10 ticks after every request,
\* holding nothing.
FairSpec ==
  /\ Spec
  /\ \A t \in Task : WF_vars(Proceeds(t)) /\ SF_vars(Lock(t))

-----------------------------------------------------------------------------
(* Properties.                                                             *)

\* No page is sent, and no buffer rewritten, while another task is in the middle
\* of rewriting it, although GET /register.json unlocks what it did not lock.
NobodySeesPartial ==
  \A t, u \in Task :
    (t # u /\ pc[t] = "using" /\ pc[u] = "using"
       /\ BufferOf(job[t]) = BufferOf(job[u])) =>
    ~Writes(job[t]) /\ ~Writes(job[u])

\* Line 191: "Even if someone were to furiously refresh a web resource that needs
\* the json mutex, it seems impossible that this thread cannot obtain the mutex."
\* An unbounded wait of the manager, of the ping thread or of POST /connect.json
\* ends.
MutexObtained ==
  \A t \in Task : (pc[t] = "lock" /\ ~Bounded(job[t])) ~> (pc[t] = "using" \/ aborted)

\* wifi_manager.h:252: the HTTP server and the manager "are synchronized through
\* a mutex": no task ever gives back the mutex of another.
OwnMutexGiven == ~aborted

=============================================================================
