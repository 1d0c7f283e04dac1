----------------------------- MODULE OtaProofs ------------------------------
(***************************************************************************)
(* Proof that a firmware update is crash-safe, for any number of images,   *)
(* pieces, commands and crashes.                                           *)
(***************************************************************************)
EXTENDS Ota, TLAPS

\* The partitions keep their types; this much of TypeOK the argument needs.
PartitionsOK ==
  /\ slot \in [Slot -> [image : Image, got : 0..Chunks]]
  /\ running \in Slot /\ boot \in Slot

\* The inductive invariant.  The boot partition differs from the running one only
\* between esp_ota_set_boot_partition() and the restart, and from the verification
\* by esp_ota_end() until then nothing writes to the new image.
UpdateSafe ==
  /\ Verified(running)
  /\ boot = running \/ (pc = "restart" /\ boot = NextUpdate(running))
  /\ pc \in {"check", "set", "restart"} => Verified(NextUpdate(running))

IInv == PartitionsOK /\ UpdateSafe

\* The two partitions are each other's counterpart.
LEMMA NextUpdateIsOther == \A s \in Slot : NextUpdate(s) \in Slot /\ NextUpdate(s) # s
  BY DEF Slot, NextUpdate

\* The file an update downloads is a name or a mixture of names, never the
\* factory image: needed for the type of the partition it is written to.
FileOK ==
  /\ basename \in File \cup {Torn, ""}
  /\ handler \in {"idle", "trigger"} \cup File
  /\ file \in File \cup {Torn, ""}
  /\ pc \in {"open", "begin"} => file # ""

\* The names keep their types.
LEMMA FileStep == FileOK /\ [Next]_vars => FileOK'
<1> SUFFICES ASSUME FileOK, [Next]_vars PROVE FileOK'
  OBVIOUS
<1> USE FileAssumption DEF FileOK, cmdVars, partVars
<1>1. ASSUME NEW f \in File, CopyBegins(f) PROVE FileOK'
  BY <1>1 DEF CopyBegins
<1>2. CASE CopyEnds \/ Trigger
  BY <1>2 DEF CopyEnds, Trigger
<1>3. CASE OtaTask
  <2> USE DEF Goto
  <2>1. CASE AwaitTrigger
    BY <2>1 DEF AwaitTrigger
  <2>2. CASE ReadName
    BY <2>2 DEF ReadName
  <2>3. CASE OpenOk \/ OpenFails
    BY <2>3 DEF OpenOk, OpenFails
  <2>4. CASE BeginOk \/ BeginFails
    BY <2>4 DEF BeginOk, BeginFails
  <2>5. CASE ReadAndWrite \/ ReadOrWriteFails \/ ReadEnds \/ End
    BY <2>5 DEF ReadAndWrite, ReadOrWriteFails, ReadEnds, End
  <2>6. CASE CheckIdentity \/ SetBoot \/ SetBootFails
    BY <2>6 DEF CheckIdentity, SetBoot, SetBootFails
  <2>7. CASE Restart
    BY <2>7 DEF Restart, Boots
  <2> QED
    BY <1>3, <2>1, <2>2, <2>3, <2>4, <2>5, <2>6, <2>7 DEF OtaTask
<1>4. CASE Crash
  BY <1>4 DEF Crash, Boots
<1>5. CASE UNCHANGED vars
  BY <1>5 DEF vars
<1> QED
  BY <1>1, <1>2, <1>3, <1>4, <1>5 DEF Next, Command

\* A step that leaves the partitions alone and does not enter the last three
\* labels keeps the invariant.
LEMMA Untouched ==
  ASSUME IInv, UNCHANGED partVars,
         pc # "restart",
         pc' \in {"check", "set", "restart"} => Verified(NextUpdate(running))
  PROVE  IInv'
  BY DEF IInv, PartitionsOK, UpdateSafe, partVars, Verified, NextUpdate

\* Every step of ota_task(), every command and every crash keeps the invariant.
LEMMA UpdateStep == FileOK /\ IInv /\ [Next]_vars => IInv'
<1> SUFFICES ASSUME FileOK, IInv, [Next]_vars PROVE IInv'
  OBVIOUS
<1> USE NextUpdateIsOther, BoundsAssumption
<1>1. CASE Command
  <2>1. UNCHANGED <<partVars, pc>>
    BY <1>1 DEF Command, CopyBegins, CopyEnds, Trigger
  <2> QED
    BY <2>1 DEF IInv, PartitionsOK, UpdateSafe, partVars, Verified, NextUpdate
<1>2. CASE AwaitTrigger \/ ReadName \/ OpenOk \/ OpenFails \/ BeginFails
           \/ ReadOrWriteFails \/ ReadEnds
  <2>1. UNCHANGED partVars /\ pc # "restart" /\ pc' \notin {"check", "set", "restart"}
    BY <1>2 DEF AwaitTrigger, ReadName, OpenOk, OpenFails, BeginFails,
                ReadOrWriteFails, ReadEnds, Goto, partVars
  <2> QED
    BY <2>1, Untouched
<1>3. CASE BeginOk
  <2>1. pc = "begin" /\ pc' = "read" /\ UNCHANGED <<running, boot>>
    BY <1>3 DEF BeginOk, Goto
  <2>2. file \in Image
    BY <2>1 DEF FileOK, Image
  <2>3. slot' = [slot EXCEPT ![NextUpdate(running)] = [image |-> file, got |-> 0]]
    BY <1>3 DEF BeginOk
  <2>4. PartitionsOK'
    BY <2>1, <2>2, <2>3 DEF IInv, PartitionsOK
  <2>5. slot'[running] = slot[running]
    BY <2>3 DEF IInv, PartitionsOK
  <2> QED
    BY <2>1, <2>4, <2>5 DEF IInv, UpdateSafe, Verified
<1>4. CASE ReadAndWrite
  <2>1. pc = "read" /\ pc' = "read" /\ UNCHANGED <<running, boot>>
    BY <1>4 DEF ReadAndWrite, Goto
  <2>2. slot' = [slot EXCEPT ![NextUpdate(running)].got = @ + 1]
        /\ slot[NextUpdate(running)].got < Chunks
    BY <1>4 DEF ReadAndWrite
  <2>3. slot[NextUpdate(running)].got + 1 \in 0..Chunks
    BY <2>2 DEF IInv, PartitionsOK
  <2>4. PartitionsOK'
    BY <2>1, <2>2, <2>3 DEF IInv, PartitionsOK
  <2>5. slot'[running] = slot[running]
    BY <2>2 DEF IInv, PartitionsOK
  <2> QED
    BY <2>1, <2>4, <2>5 DEF IInv, UpdateSafe, Verified
<1>5. CASE End \/ CheckIdentity \/ SetBootFails
  <2>1. UNCHANGED partVars /\ pc # "restart"
        /\ (pc' \in {"check", "set", "restart"} => Verified(NextUpdate(running)))
    BY <1>5 DEF End, CheckIdentity, SetBootFails, Goto, partVars, IInv, UpdateSafe
  <2> QED
    BY <2>1, Untouched
<1>6. CASE SetBoot
  BY <1>6 DEF SetBoot, Goto, IInv, PartitionsOK, UpdateSafe, Verified
<1>7. CASE Restart \/ Crash
  BY <1>7 DEF Restart, Crash, Boots, IInv, PartitionsOK, UpdateSafe, Verified
<1>8. CASE UNCHANGED vars
  BY <1>8 DEF vars, partVars, IInv, PartitionsOK, UpdateSafe, Verified
<1> QED
  BY <1>1, <1>2, <1>3, <1>4, <1>5, <1>6, <1>7, <1>8 DEF Next, OtaTask

\* The factory image is complete, and nothing has been commanded yet.
LEMMA InitSafe == Init => FileOK /\ IInv
<1> SUFFICES ASSUME Init PROVE FileOK /\ IInv
  OBVIOUS
<1>1. FileOK
  BY DEF Init, FileOK
<1>2. \A s \in Slot : slot[s] = [image |-> Factory, got |-> IF s = "factory" THEN Chunks ELSE 0]
  BY DEF Init
<1>3. PartitionsOK
  <2>1. 0 \in 0..Chunks /\ Chunks \in 0..Chunks
    BY BoundsAssumption
  <2> QED
    BY <2>1 DEF Init, PartitionsOK, Slot, Image
<1>4. slot["factory"].got = Chunks /\ slot["factory"].image = Factory
  BY <1>2 DEF Slot
<1>5. UpdateSafe
  BY <1>4, FileAssumption DEF Init, UpdateSafe, Verified
<1> QED
  BY <1>1, <1>3, <1>5 DEF IInv

\* Whenever power fails, the partition that will be booted holds a complete,
\* verified image, and so does the one in use.
THEOREM UpdateIsCrashSafe == Spec => []AlwaysBootable
<1>1. Init => FileOK /\ IInv
  BY InitSafe
<1>2. FileOK /\ IInv /\ [Next]_vars => (FileOK /\ IInv)'
  BY FileStep, UpdateStep
<1>3. IInv => AlwaysBootable
  BY DEF IInv, UpdateSafe, AlwaysBootable
<1> QED
  BY <1>1, <1>2, <1>3, PTL DEF Spec

-----------------------------------------------------------------------------
(* Type correctness.                                                       *)

\* esp_ota_end() frees a handle that esp_ota_begin() gave: the count of handles
\* stays a natural number.
CountersOK ==
  /\ handles \in Nat /\ requests \in 0..MaxRequests
  /\ pc \in {"read", "end"} => handles > 0

\* No handle is freed that was not obtained, and the bound is kept.
LEMMA CountersStep == CountersOK /\ [Next]_vars => CountersOK'
<1> SUFFICES ASSUME CountersOK, [Next]_vars PROVE CountersOK'
  OBVIOUS
<1> USE BoundsAssumption DEF CountersOK
<1>1. CASE Command
  <2>1. UNCHANGED <<pc, handles>> /\ (UNCHANGED requests \/ Counted)
    BY <1>1 DEF Command, CopyBegins, CopyEnds, Trigger
  <2> QED
    BY <2>1 DEF Counted
<1>2. CASE AwaitTrigger \/ ReadName \/ OpenOk \/ OpenFails \/ BeginFails \/ ReadOrWriteFails
           \/ CheckIdentity \/ SetBoot \/ SetBootFails
  <2>1. UNCHANGED <<handles, requests>> /\ pc' \notin {"read", "end"}
    BY <1>2 DEF AwaitTrigger, ReadName, OpenOk, OpenFails, BeginFails, ReadOrWriteFails,
                CheckIdentity, SetBoot, SetBootFails, Goto
  <2> QED
    BY <2>1
<1>3. CASE BeginOk
  <2>1. handles' = handles + 1 /\ UNCHANGED requests
    BY <1>3 DEF BeginOk, Goto
  <2> QED
    BY <2>1
<1>4. CASE ReadAndWrite \/ ReadEnds
  <2>1. UNCHANGED <<handles, requests>> /\ pc = "read"
    BY <1>4 DEF ReadAndWrite, ReadEnds, Goto
  <2> QED
    BY <2>1
<1>5. CASE End
  <2>1. handles' = handles - 1 /\ UNCHANGED requests /\ pc = "end" /\ pc' \in {"check", "wait"}
    BY <1>5 DEF End, Goto
  <2> QED
    BY <2>1
<1>6. CASE Restart \/ Crash
  <2>1. handles' = 0 /\ pc' = "wait" /\ (UNCHANGED requests \/ Counted)
    BY <1>6 DEF Restart, Crash, Boots
  <2> QED
    BY <2>1 DEF Counted
<1>7. CASE UNCHANGED vars
  BY <1>7 DEF vars
<1> QED
  BY <1>1, <1>2, <1>3, <1>4, <1>5, <1>6, <1>7 DEF Next, OtaTask

\* The trigger bit and the label of ota_task() keep their types.
ControlOK ==
  /\ trigger \in BOOLEAN
  /\ pc \in {"wait", "name", "open", "begin", "read", "end", "check", "set", "restart"}

\* ota_task() goes from label to label.
LEMMA ControlStep == ControlOK /\ [Next]_vars => ControlOK'
<1> SUFFICES ASSUME ControlOK, [Next]_vars PROVE ControlOK'
  OBVIOUS
<1> USE DEF ControlOK
<1>1. CASE Command
  BY <1>1 DEF Command, CopyBegins, CopyEnds, Trigger
<1>2. CASE AwaitTrigger \/ ReadName \/ OpenOk \/ OpenFails \/ BeginOk \/ BeginFails
  BY <1>2 DEF AwaitTrigger, ReadName, OpenOk, OpenFails, BeginOk, BeginFails, Goto
<1>3. CASE ReadAndWrite \/ ReadOrWriteFails \/ ReadEnds \/ End
  BY <1>3 DEF ReadAndWrite, ReadOrWriteFails, ReadEnds, End, Goto
<1>4. CASE CheckIdentity \/ SetBoot \/ SetBootFails \/ Restart \/ Crash
  BY <1>4 DEF CheckIdentity, SetBoot, SetBootFails, Restart, Crash, Boots, Goto
<1>5. CASE UNCHANGED vars
  BY <1>5 DEF vars
<1> QED
  BY <1>1, <1>2, <1>3, <1>4, <1>5 DEF Next, OtaTask

-----------------------------------------------------------------------------
(* The update is atomic.                                                   *)

\* Where names and images come from.  A partition that is being written, or that
\* has been, since the restart, holds what was asked for or what a mixed name
\* fetched.
ImagesAsked ==
  /\ asked \subseteq File
  /\ basename \in asked \cup {Torn, ""}
  /\ handler \in {"idle", "trigger"} \cup asked
  /\ file \in asked \cup {Torn, ""}
  /\ \A s \in Slot : slot[s].image \in asked \cup {Factory, Torn}
  /\ pc \in {"read", "end", "check", "set", "restart"} =>
       slot[NextUpdate(running)].image \in asked \cup {Torn}

\* At first there are no names, and only the factory image.
LEMMA InitAsked == Init => ImagesAsked
<1> SUFFICES ASSUME Init PROVE ImagesAsked
  OBVIOUS
<1> DEFINE size(s) == IF s = "factory" THEN Chunks ELSE 0
<1>1. \A s \in Slot : slot[s] = [image |-> Factory, got |-> size(s)]
  BY DEF Init
<1> HIDE DEF size
<1>2. \A s \in Slot : slot[s].image = Factory
  <2> TAKE s \in Slot
  <2>1. [image |-> Factory, got |-> size(s)].image = Factory
    OBVIOUS
  <2> QED
    BY <1>1, <2>1
<1> QED
  BY <1>2 DEF Init, ImagesAsked

\* No step invents a name or an image.
LEMMA ImagesStep ==
  FileOK /\ IInv /\ ImagesAsked /\ [Next]_vars => ImagesAsked'
<1> SUFFICES ASSUME FileOK, IInv, ImagesAsked, [Next]_vars PROVE ImagesAsked'
  OBVIOUS
<1> USE FileAssumption, NextUpdateIsOther DEF ImagesAsked, cmdVars, partVars
<1>1. ASSUME NEW f \in File, CopyBegins(f) PROVE ImagesAsked'
  BY <1>1 DEF CopyBegins
<1>2. CASE CopyEnds \/ Trigger
  BY <1>2 DEF CopyEnds, Trigger
<1>3. CASE AwaitTrigger \/ ReadName \/ OpenOk \/ OpenFails \/ BeginFails \/ ReadOrWriteFails
           \/ ReadEnds \/ End \/ CheckIdentity \/ SetBoot \/ SetBootFails
  BY <1>3 DEF AwaitTrigger, ReadName, OpenOk, OpenFails, BeginFails, ReadOrWriteFails,
              ReadEnds, End, CheckIdentity, SetBoot, SetBootFails, Goto
<1>4. CASE BeginOk
  <2>1. file \in asked \cup {Torn}
    BY <1>4 DEF BeginOk, Goto, FileOK
  <2>2. /\ slot' = [slot EXCEPT ![NextUpdate(running)] = [image |-> file, got |-> 0]]
        /\ UNCHANGED <<asked, basename, handler, file, running>>
    BY <1>4 DEF BeginOk, Goto
  <2>3. slot'[NextUpdate(running)].image = file
    BY <2>2 DEF IInv, PartitionsOK
  <2>4. \A s \in Slot : s # NextUpdate(running) => slot'[s] = slot[s]
    BY <2>2 DEF IInv, PartitionsOK
  <2> QED
    BY <2>1, <2>2, <2>3, <2>4 DEF IInv, PartitionsOK
<1>5. CASE ReadAndWrite
  <2>1. /\ slot' = [slot EXCEPT ![NextUpdate(running)].got = @ + 1]
        /\ pc = "read" /\ UNCHANGED <<asked, basename, handler, file, running>>
    BY <1>5 DEF ReadAndWrite, Goto
  <2>2. ASSUME NEW s \in Slot PROVE slot'[s].image = slot[s].image
    <3>1. slot \in [Slot -> [image : Image, got : 0..Chunks]]
      BY DEF IInv, PartitionsOK
    <3>2. slot[s] \in [image : Image, got : 0..Chunks]
      BY <3>1
    <3>3. slot'[s] = IF s = NextUpdate(running)
                     THEN [slot[s] EXCEPT !.got = @ + 1] ELSE slot[s]
      BY <2>1, <3>1
    <3> QED
      BY <3>2, <3>3
  <2> QED
    BY <2>1, <2>2 DEF IInv, PartitionsOK
<1>6. CASE Restart \/ Crash
  BY <1>6 DEF Restart, Crash, Boots
<1>7. CASE UNCHANGED vars
  BY <1>7 DEF vars
<1> QED
  BY <1>1, <1>2, <1>3, <1>4, <1>5, <1>6, <1>7 DEF Next, Command, OtaTask

\* Every step of Ota is a step of Firmware, or changes nothing that it sees: an
\* erased or half-written partition is neither the running one nor the next one.
LEMMA AtomicStep ==
  IInv /\ ImagesAsked /\ [Next]_vars =>
    [Abstract!FirmwareNext]_(Abstract!firmwareVars)
<1> SUFFICES ASSUME IInv, ImagesAsked, [Next]_vars
             PROVE  [Abstract!FirmwareNext]_(Abstract!firmwareVars)
  OBVIOUS
<1> USE NextUpdateIsOther
<1>1. ASSUME NEW f \in File, CopyBegins(f) PROVE Abstract!FirmwareNext
  BY <1>1 DEF CopyBegins, partVars, Abstract!FirmwareNext, Abstract!Ask
<1>2. CASE UNCHANGED <<asked, partVars>>
  BY <1>2 DEF partVars, Abstract!firmwareVars
<1>3. CASE BeginOk
  <2>1. /\ slot' = [slot EXCEPT ![NextUpdate(running)] = [image |-> file, got |-> 0]]
        /\ pc = "begin" /\ UNCHANGED <<asked, running, boot>>
    BY <1>3 DEF BeginOk, Goto, cmdVars
  <2>2. slot'[running] = slot[running] /\ boot = running
    BY <2>1 DEF IInv, PartitionsOK, UpdateSafe
  <2> QED
    BY <2>1, <2>2 DEF Abstract!firmwareVars
<1>4. CASE ReadAndWrite
  <2>1. /\ slot' = [slot EXCEPT ![NextUpdate(running)].got = @ + 1]
        /\ pc = "read" /\ UNCHANGED <<asked, running, boot>>
    BY <1>4 DEF ReadAndWrite, Goto, cmdVars
  <2>2. slot'[running] = slot[running] /\ boot = running
    BY <2>1 DEF IInv, PartitionsOK, UpdateSafe
  <2> QED
    BY <2>1, <2>2 DEF Abstract!firmwareVars
<1>5. CASE SetBoot
  <2>1. /\ pc = "set" /\ boot' = NextUpdate(running) /\ boot = running
        /\ UNCHANGED <<asked, running, slot>>
    BY <1>5 DEF SetBoot, Goto, cmdVars, IInv, UpdateSafe
  <2>2. slot[NextUpdate(running)].image \in asked
    BY <2>1 DEF IInv, UpdateSafe, Verified, ImagesAsked
  <2>3. Abstract!Commit(slot[NextUpdate(running)].image)
    BY <2>1, <2>2 DEF Abstract!Commit
  <2> QED
    BY <2>2, <2>3 DEF ImagesAsked, Abstract!FirmwareNext
<1>6. CASE Restart \/ Crash
  BY <1>6 DEF Restart, Crash, Boots, Abstract!FirmwareNext, Abstract!RestartDevice
<1>7. (CopyEnds \/ Trigger \/ AwaitTrigger \/ ReadName \/ OpenOk \/ OpenFails \/ BeginFails
        \/ ReadOrWriteFails \/ ReadEnds \/ End \/ CheckIdentity \/ SetBootFails
        \/ UNCHANGED vars) => UNCHANGED <<asked, partVars>>
  BY DEF CopyEnds, Trigger, AwaitTrigger, ReadName, OpenOk, OpenFails, BeginFails,
         ReadOrWriteFails, ReadEnds, End, CheckIdentity, SetBootFails, Goto, cmdVars,
         partVars, vars
<1> QED
  BY <1>1, <1>2, <1>3, <1>4, <1>5, <1>6, <1>7 DEF Next, Command, OtaTask

\* Every variable keeps its type.
THEOREM OtaTypeCorrect == Spec => []TypeOK
<1> DEFINE Inv == FileOK /\ IInv /\ ImagesAsked /\ CountersOK /\ ControlOK
<1>1. Init => Inv
  <2>1. Init => CountersOK
    <3>1. Init => handles = 0 /\ requests = 0 /\ pc = "wait"
      BY Zenon DEF Init
    <3> QED
      BY <3>1, BoundsAssumption DEF CountersOK
  <2>2. Init => ControlOK
    BY DEF Init, ControlOK
  <2> QED
    BY <2>1, <2>2, InitSafe, InitAsked
<1>2. Inv /\ [Next]_vars => Inv'
  BY FileStep, UpdateStep, ImagesStep, CountersStep, ControlStep
<1>3. Inv => TypeOK
  BY DEF FileOK, IInv, PartitionsOK, ImagesAsked, CountersOK, ControlOK, TypeOK
<1> QED
  BY <1>1, <1>2, <1>3, PTL DEF Spec

\* The image that the next restart will start is the factory's or one that a
\* command named, although the copy of a name may be read while it is made.
THEOREM BootsWhatWasAsked == Spec => []BootsAskedImage
<1>1. Init => FileOK /\ IInv /\ ImagesAsked
  BY InitSafe, InitAsked
<1>2. FileOK /\ IInv /\ ImagesAsked /\ [Next]_vars => (FileOK /\ IInv /\ ImagesAsked)'
  BY FileStep, UpdateStep, ImagesStep
<1>3. IInv /\ ImagesAsked => BootsAskedImage
  BY NextUpdateIsOther DEF IInv, UpdateSafe, PartitionsOK, ImagesAsked, Verified, BootsAskedImage
<1> QED
  BY <1>1, <1>2, <1>3, PTL DEF Spec

\* The detailed update implements the atomic one.
THEOREM UpdateImplementsFirmware == Spec => UpdateIsAtomic
<1>1. Init => FileOK /\ IInv /\ ImagesAsked
  BY InitSafe, InitAsked
<1>2. FileOK /\ IInv /\ ImagesAsked /\ [Next]_vars => (FileOK /\ IInv /\ ImagesAsked)'
  BY FileStep, UpdateStep, ImagesStep
<1>3. Init => Abstract!FirmwareInit
  <2> SUFFICES ASSUME Init PROVE Abstract!FirmwareInit
    OBVIOUS
  <2>1. slot["factory"] = [image |-> Factory, got |-> Chunks]
    BY DEF Init, Slot
  <2>2. slot["factory"].image = Factory
    BY <2>1
  <2>3. running = "factory" /\ boot = "factory" /\ asked = {}
    BY Zenon DEF Init
  <2> QED
    BY <2>2, <2>3 DEF Abstract!FirmwareInit
<1>4. IInv /\ ImagesAsked /\ [Next]_vars => [Abstract!FirmwareNext]_(Abstract!firmwareVars)
  BY AtomicStep
<1> QED
  BY <1>1, <1>2, <1>3, <1>4, PTL DEF Spec, UpdateIsAtomic, Abstract!FirmwareSpec

=============================================================================
