-------------------------------- MODULE Ota ---------------------------------
(***************************************************************************)
(* Firmware update (src/main/ota_if.c): the MQTT handler names a file and  *)
(* triggers ota_task(), which downloads it into the partition that is not  *)
(* running, verifies it and makes it the boot partition.  Power may fail,  *)
(* or panic_task() abort, at any step.                                     *)
(***************************************************************************)
EXTENDS Naturals

CONSTANTS
  File,       \* the images on the server
  Factory,    \* the image the device left the factory with
  Torn,       \* the mixture of two names, or the page the server sends for it
  MaxRequests,\* update commands and restarts (bound)
  Chunks      \* pieces in which an image arrives

ASSUME FileAssumption == /\ Factory \notin File /\ Torn \notin File \cup {Factory}
                         /\ File \cap {"", "idle", "trigger"} = {}
ASSUME BoundsAssumption == MaxRequests \in Nat /\ Chunks \in Nat \ {0}

\* partitions_two_ota.csv: the application partitions, and the one that
\* esp_ota_get_next_update_partition() gives a firmware running from s.
Slot == {"factory", "ota_0", "ota_1"}
NextUpdate(s) == IF s = "ota_0" THEN "ota_1" ELSE "ota_0"

VARIABLES
  basename,   \* ota_file_basename; "" until the first command
  handler,    \* mqtt_event_handler(): the name it is copying, or where it is
  trigger,    \* OTA_TRIGGER_OTA_BIT
  pc,         \* where ota_task() is
  file,       \* fn_path of the update in progress
  slot,       \* each partition: the image in it and how many pieces of it
  running,    \* the partition the firmware was booted from
  boot,       \* the configured boot partition
  handles,    \* handles of esp_ota_begin() that were not ended
  asked,      \* history: files commanded so far
  requests    \* commands and restarts so far (bounded by MaxRequests)

cmdVars  == <<basename, handler, asked>>
partVars == <<slot, running, boot>>
vars == <<cmdVars, trigger, pc, file, partVars, handles, requests>>

Image == File \cup {Factory, Torn}

TypeOK ==
  /\ basename \in File \cup {Torn, ""}
  /\ handler \in {"idle", "trigger"} \cup File
  /\ trigger \in BOOLEAN
  /\ pc \in {"wait", "name", "open", "begin", "read", "end", "check", "set", "restart"}
  /\ file \in File \cup {Torn, ""}
  /\ slot \in [Slot -> [image : Image, got : 0..Chunks]]
  /\ running \in Slot /\ boot \in Slot
  /\ handles \in Nat
  /\ asked \subseteq File
  /\ requests \in 0..MaxRequests

Init ==
  /\ basename = "" /\ handler = "idle" /\ trigger = FALSE
  /\ pc = "wait" /\ file = ""
  /\ slot = [s \in Slot |-> [image |-> Factory, got |-> IF s = "factory" THEN Chunks ELSE 0]]
  /\ running = "factory" /\ boot = "factory"
  /\ handles = 0 /\ asked = {} /\ requests = 0

-----------------------------------------------------------------------------
(* The command "ota <file>.bin" (mqtt_if.c).                               *)

Counted == requests < MaxRequests /\ requests' = requests + 1

\* ota_set_filename(): strcpy() into the shared buffer, while ota_task() may be
\* reading it; until it is done the buffer holds a mixture.
CopyBegins(f) ==
  /\ handler = "idle" /\ handler' = f /\ Counted
  /\ basename' = IF basename = f THEN f ELSE Torn
  /\ asked' = asked \cup {f}
  /\ UNCHANGED <<trigger, pc, file, partVars, handles>>

CopyEnds ==
  /\ handler \in File /\ handler' = "trigger"
  /\ basename' = handler
  /\ UNCHANGED <<trigger, pc, file, partVars, handles, asked, requests>>

\* ota_trigger().
Trigger ==
  /\ handler = "trigger" /\ handler' = "idle"
  /\ trigger' = TRUE
  /\ UNCHANGED <<basename, asked, pc, file, partVars, handles, requests>>

Command == (\E f \in File : CopyBegins(f)) \/ CopyEnds \/ Trigger

-----------------------------------------------------------------------------
(* ota_task() and _ota_commence().                                         *)

Goto(from, to) ==
  /\ pc = from /\ pc' = to
  /\ UNCHANGED <<cmdVars, running, requests>>

\* The wait clears the bit: a command during an update starts the next one.
AwaitTrigger ==
  /\ Goto("wait", "name") /\ trigger /\ trigger' = FALSE
  /\ UNCHANGED <<file, slot, boot, handles>>

ReadName ==
  /\ Goto("name", IF basename = "" THEN "wait" ELSE "open")
  /\ file' = basename
  /\ UNCHANGED <<trigger, slot, boot, handles>>

\* Faulty variant: a failed download drops the command that came meanwhile.
OpenFailsDrops ==
  /\ Goto("open", "wait") /\ trigger' = FALSE
  /\ UNCHANGED <<file, slot, boot, handles>>

\* esp_http_client_init() and esp_http_client_open().
OpenOk   == Goto("open", "begin") /\ UNCHANGED <<trigger, file, slot, boot, handles>>
OpenFails == Goto("open", "wait") /\ UNCHANGED <<trigger, file, slot, boot, handles>>

\* Faulty variant: the partition the firmware runs from is erased.
BeginErasesRunning ==
  /\ Goto("begin", "read")
  /\ slot' = [slot EXCEPT ![running] = [image |-> file, got |-> 0]]
  /\ handles' = handles + 1
  /\ UNCHANGED <<trigger, file, boot>>

\* esp_ota_begin() erases the partition that is not running, or fails.
BeginOk ==
  /\ Goto("begin", "read")
  /\ slot' = [slot EXCEPT ![NextUpdate(running)] = [image |-> file, got |-> 0]]
  /\ handles' = handles + 1
  /\ UNCHANGED <<trigger, file, boot>>

\* Faulty variant: a handle that was not obtained is freed.
BeginFailsEnds ==
  /\ Goto("begin", "wait") /\ handles' = handles - 1
  /\ UNCHANGED <<trigger, file, slot, boot>>

BeginFails == Goto("begin", "wait") /\ UNCHANGED <<trigger, file, slot, boot, handles>>

\* esp_http_client_read() and esp_ota_write() of one piece.
ReadAndWrite ==
  /\ Goto("read", "read") /\ slot[NextUpdate(running)].got < Chunks
  /\ slot' = [slot EXCEPT ![NextUpdate(running)].got = @ + 1]
  /\ UNCHANGED <<trigger, file, boot, handles>>

\* Either call fails: the function returns without esp_ota_end().
ReadOrWriteFails ==
  /\ Goto("read", "wait")
  /\ UNCHANGED <<trigger, file, slot, boot, handles>>

\* The connection is closed, at the end of the image or before it.
ReadEnds == Goto("read", "end") /\ UNCHANGED <<trigger, file, slot, boot, handles>>

\* esp_ota_end() accepts a complete image only (external); it frees the handle.
Verified(s) == slot[s].got = Chunks /\ slot[s].image # Torn

\* Faulty variant: the verdict of esp_ota_end() is ignored.
EndIgnored ==
  /\ Goto("end", "check")
  /\ handles' = handles - 1
  /\ UNCHANGED <<trigger, file, slot, boot>>

End ==
  /\ Goto("end", IF Verified(NextUpdate(running)) THEN "check" ELSE "wait")
  /\ handles' = handles - 1
  /\ UNCHANGED <<trigger, file, slot, boot>>

\* esp_partition_check_identity(): the same firmware is not installed again.
CheckIdentity ==
  /\ Goto("check", IF slot[running] = slot[NextUpdate(running)] THEN "wait" ELSE "set")
  /\ UNCHANGED <<trigger, file, slot, boot, handles>>

\* Faulty variant: the new image is to be booted some day, without a restart.
SetBootNoRestart ==
  /\ Goto("set", "wait") /\ boot' = NextUpdate(running)
  /\ UNCHANGED <<trigger, file, slot, handles>>

\* esp_ota_set_boot_partition(), which may fail, and esp_restart().
SetBoot ==
  /\ Goto("set", "restart") /\ boot' = NextUpdate(running)
  /\ UNCHANGED <<trigger, file, slot, handles>>

SetBootFails == Goto("set", "wait") /\ UNCHANGED <<trigger, file, slot, boot, handles>>

\* RAM is lost; the boot loader starts the configured partition.
Boots ==
  /\ running' = boot
  /\ basename' = "" /\ handler' = "idle" /\ trigger' = FALSE
  /\ pc' = "wait" /\ file' = "" /\ handles' = 0
  /\ UNCHANGED <<slot, boot, asked>>

Restart == pc = "restart" /\ Boots /\ UNCHANGED requests
Crash   == Counted /\ Boots

OtaTask == \/ AwaitTrigger \/ ReadName \/ OpenOk \/ OpenFails \/ BeginOk \/ BeginFails
           \/ ReadAndWrite \/ ReadOrWriteFails \/ ReadEnds \/ End \/ CheckIdentity
           \/ SetBoot \/ SetBootFails \/ Restart

Next == Command \/ OtaTask \/ Crash

Spec == Init /\ [][Next]_vars

\* ota_task() runs: every HTTP and flash call returns, in success or failure.
FairSpec == Spec /\ WF_vars(OtaTask)

-----------------------------------------------------------------------------
(* Properties.                                                             *)

\* Whenever power fails, the device has a complete image to start: neither the
\* boot partition nor the one it is running from is ever half written.
AlwaysBootable == Verified(boot) /\ Verified(running)

\* What the device will boot is what it left the factory with or a file that
\* some command named, however the copies of the names interleave.
BootsAskedImage == slot[boot].image \in asked \cup {Factory}

\* A command is not lost: it starts an update after the one in progress, unless
\* the device restarts.
TriggerServed == trigger ~> pc = "name" \/ pc = "restart" \/ basename = ""

\* The update is atomic: seen through the images that run and that will be
\* booted, downloading, writing, verifying, switching and crashing are the steps
\* of Firmware.  An image is replaced whole, by one that was asked for, in the
\* single step of esp_ota_set_boot_partition(), once between two restarts.
Abstract == INSTANCE Firmware WITH
              current <- slot[running].image, next <- slot[boot].image

UpdateIsAtomic == Abstract!FirmwareSpec

\* Line 92: "update handle : set by esp_ota_begin(), must be freed via
\* esp_ota_end()".
HandlesFreed == pc = "wait" => handles = 0

=============================================================================
