------------------------------ MODULE Firmware ------------------------------
(***************************************************************************)
(* What the firmware update promises, as seen from outside: the device     *)
(* runs one image; an update replaces, in one step, the image that the     *)
(* next restart will start, by one that was asked for; nothing else ever   *)
(* changes either image.  Module Ota implements it with two partitions, a  *)
(* download in pieces, and crashes at every step.                          *)
(***************************************************************************)
CONSTANTS
  File,      \* the images that may be asked for
  Factory    \* the image the device left the factory with

VARIABLES
  asked,     \* the files commanded so far
  current,   \* the image that runs
  next       \* the image the next restart will start

firmwareVars == <<asked, current, next>>

FirmwareInit == asked = {} /\ current = Factory /\ next = Factory

Ask(f) == asked' = asked \cup {f} /\ UNCHANGED <<current, next>>

\* An update is committed at most once between two restarts.
Commit(f) ==
  /\ next = current /\ f \in asked
  /\ next' = f
  /\ UNCHANGED <<asked, current>>

RestartDevice == current' = next /\ UNCHANGED <<asked, next>>

FirmwareNext == (\E f \in File : Ask(f) \/ Commit(f)) \/ RestartDevice

FirmwareSpec == FirmwareInit /\ [][FirmwareNext]_firmwareVars

=============================================================================
