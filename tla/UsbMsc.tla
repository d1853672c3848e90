------------------------------- MODULE UsbMsc -------------------------------
(***************************************************************************)
(* USB mass storage: the bulk-only transport of                            *)
(* drivers/blockdev/usbmsc.c, the disks it brings and takes                *)
(* (drivers/blockdev/usb.c), the hub port it is plugged into               *)
(* (generic_hub.c, usb_detach_device()) and the calls of vboot that use a  *)
(* disk (vboot/callbacks/disk.c).                                          *)
(*                                                                         *)
(* All of it is one thread below VbExDiskGetInfo(), VbExDiskRead() and     *)
(* VbExDiskWrite().  The device and whoever pulls it or its medium out act *)
(* on their own.                                                           *)
(***************************************************************************)
EXTENDS Naturals, Sequences, FiniteSets

CONSTANTS
  Luns,            \* 0 .. num_luns - 1
  Chunks,          \* a read or a write is this many commands
  SpinTries,       \* spin_up() is tried 30 times
  CapacityTries,   \* read_capacity() has 20
  Late,            \* what a device may still have to send of older commands
  MediaMove        \* media come and go in a device that stays

ASSUME UsbMscAssumption ==
  /\ IsFiniteSet(Luns) /\ Luns # {} /\ Luns = 0 .. Cardinality(Luns) - 1
  /\ Chunks \in Nat \ {0} /\ SpinTries \in Nat \ {0} /\ CapacityTries \in Nat \ {0}
  /\ Late \in Nat
  /\ MediaMove \in BOOLEAN

VARIABLES
  plugged, port_changed,  \* what is in the port, and what the hub says of it
  media,                  \* the units that have a medium
  pipe,                   \* what the device has to send
  dev,                    \* the UsbDev with its usbmsc_inst_t, or NoDev
  disks,                  \* removable_block_devices
  handle,                 \* the disk that vboot knows, or 0
  vb,                     \* what vboot has called
  task, msc_cmd, msc_pc,  \* the part of it that runs, its command, how far that is
  sensing,                \* REQUEST SENSE is run for that command
  tries, chunk,
  was_ready,              \* prev_ready
  carried,                \* chunks that the device has carried out
  result,                 \* of the last call: "read" or "write" if that succeeded, or "fail"
  broken                  \* freed memory was used: "removed twice", "stale handle" or "no"

extVars == <<plugged, port_changed, media>>
mscCmdVars == <<msc_cmd, msc_pc, sensing>>
ioVars == <<chunk, carried, result>>
mscVars == <<extVars, pipe, dev, disks, handle, vb, task, mscCmdVars, tries, was_ready,
             ioVars, broken>>

NoDev == [attached |-> FALSE]
Drives == 1 .. 4
AllChunks == 1 .. Chunks

Csw(status, residue) == [what |-> "csw", own |-> TRUE, status |-> status, residue |-> residue]
DataItem == [what |-> "data", own |-> TRUE]
Current == IF sensing THEN "sense" ELSE msc_cmd
HasDataIn == Current \in {"sense", "capacity", "read"}

MscInit ==
  /\ plugged = FALSE /\ port_changed = FALSE /\ media = Luns
  /\ pipe = <<>> /\ dev = NoDev /\ disks = {} /\ handle = 0
  /\ vb = "none" /\ task = "none" /\ msc_cmd = "none" /\ msc_pc = "none" /\ sensing = FALSE
  /\ tries = 0 /\ chunk = 1 /\ was_ready = FALSE
  /\ carried = {} /\ result = "none" /\ broken = "no"

-----------------------------------------------------------------------------
\* People (external).

PlugOrPull ==
  /\ plugged' = ~plugged /\ port_changed' = TRUE /\ pipe' = <<>>
  /\ UNCHANGED <<media, dev, disks, handle, vb, task, mscCmdVars, tries, was_ready,
                 ioVars, broken>>

MediumMoves ==
  /\ MediaMove
  /\ \E l \in Luns : media' = IF l \in media THEN media \ {l} ELSE media \cup {l}
  /\ UNCHANGED <<plugged, port_changed, pipe, dev, disks, handle, vb, task, mscCmdVars,
                 tries, was_ready, ioVars, broken>>

-----------------------------------------------------------------------------
\* Disks.

\* usbdisk_create() and usb_msc_create_disk().
NewDrive == CHOOSE d \in Drives \ (disks \cup {handle, dev.data}) : TRUE

CreateDisk(ready) ==
  /\ dev' = [dev EXCEPT !.created = TRUE, !.data = NewDrive, !.ready = ready]
  /\ disks' = disks \cup {NewDrive}
  /\ UNCHANGED broken

\* usb_msc_remove_disk() and usbdisk_remove(), which frees the drive: usbdisk_created
\* stays as it was.
RemoveDisk ==
  IF dev.created
  THEN /\ broken' = (IF dev.data \in disks THEN "no" ELSE "removed twice")
       /\ disks' = disks \ {dev.data}
  ELSE UNCHANGED <<disks, broken>>

\* usb_detach_device() with usb_msc_destroy().
DetachMutant == dev' = NoDev /\ UNCHANGED <<disks, broken>>
Detach == dev' = NoDev /\ RemoveDisk

-----------------------------------------------------------------------------
\* execute_command().

Sends(kind) == msc_cmd' = kind /\ msc_pc' = "cbw" /\ sensing' = FALSE

Idle == msc_cmd' = "none" /\ msc_pc' = "none" /\ sensing' = FALSE

\* What the device makes of a command: it may have less than was asked for, fail, or
\* be out of step.  A unit without medium is never ready.
Answers ==
  LET bad == {<<Csw(1, TRUE)>>, <<Csw(2, FALSE)>>}
      noMedium == dev.lun \notin media /\ Current \in {"tur", "capacity", "read", "write"}
  IN  CASE noMedium -> {<<Csw(1, TRUE)>>}
        [] ~noMedium /\ HasDataIn -> bad \cup {<<DataItem, Csw(0, FALSE)>>,
                                               <<DataItem, Csw(0, TRUE)>>,
                                               <<Csw(0, TRUE)>>}
        [] ~noMedium /\ Current = "write" -> {<<>>, <<Csw(1, TRUE)>>}
        [] OTHER -> bad \cup {<<Csw(0, FALSE)>>}

\* A new tag: what is left in the pipe is of an older one.
Older == [i \in DOMAIN pipe |-> [pipe[i] EXCEPT !.own = FALSE]]

HasData == HasDataIn \/ Current = "write"

SendCbw ==
  /\ msc_pc = "cbw"
  /\ \/ plugged /\ Len(pipe) <= Late
        /\ \E a \in Answers : pipe' = Older \o a
        /\ msc_pc' = IF HasData THEN "data" ELSE "csw"
     \/ pipe' = Older /\ msc_pc' = "reset"
  /\ UNCHANGED <<msc_cmd, sensing, dev, tries, was_ready, ioVars>>

\* The data phase in: what comes first is taken to be the data.  If it fails the stall
\* is cleared and the status asked for all the same.
Arrives == plugged /\ pipe # <<>>
IsData == pipe # <<>> /\ Head(pipe).what = "data"

DataIn ==
  /\ msc_pc = "data" /\ HasDataIn
  /\ \/ Arrives /\ pipe' = Tail(pipe)
     \/ UNCHANGED pipe
  /\ msc_pc' = "csw"
  /\ UNCHANGED <<msc_cmd, sensing, dev, tries, was_ready, ioVars>>

\* The data phase out: the device has a status for it only when it has taken the data or
\* refused them.
DataOut ==
  /\ msc_pc = "data" /\ Current = "write"
  /\ \/ plugged /\ \E s \in {Csw(0, FALSE), Csw(0, TRUE), Csw(1, TRUE)} : pipe' = Append(pipe, s)
     \/ UNCHANGED pipe
  /\ msc_pc' = "csw"
  /\ UNCHANGED <<msc_cmd, sensing, dev, tries, was_ready, ioVars>>

\* get_csw(): once more after an error; data in place of the status are an error.
CswFails ==
  /\ msc_pc \in {"csw", "csw again"}
  /\ \/ UNCHANGED pipe
     \/ Arrives /\ pipe' = Tail(pipe)
  /\ msc_pc' = IF msc_pc = "csw" THEN "csw again" ELSE "reset"
  /\ UNCHANGED <<msc_cmd, sensing, dev, tries, was_ready, ioVars>>

\* A command of the device has been carried out when its status says so.
Carries(csw) ==
  carried' = IF msc_cmd \in {"read", "write"} /\ ~sensing /\ csw.own
                /\ csw.status = 0 /\ ~csw.residue
             THEN carried \cup {chunk} ELSE carried

\* What the status leads to: "ok", "fail", "reset" or REQUEST SENSE.
RightTagMutant(csw) == TRUE
RightTag(csw) == csw.own

Verdict(csw) ==
  CASE ~RightTag(csw) -> "reset"
    [] RightTag(csw) /\ Current = "spin" -> "ok"
    [] RightTag(csw) /\ Current # "spin" /\ csw.status = 2 -> "reset"
    [] RightTag(csw) /\ Current # "spin" /\ csw.status = 0 ->
         IF csw.residue /\ ~sensing THEN "fail" ELSE "ok"
    [] OTHER -> IF sensing THEN "fail" ELSE "sense"

CswArrives ==
  /\ msc_pc \in {"csw", "csw again"}
  /\ Arrives /\ ~IsData
  /\ pipe' = Tail(pipe)
  /\ Carries(Head(pipe))
  /\ LET v == Verdict(Head(pipe))
     IN  IF v = "sense"
         THEN sensing' = TRUE /\ msc_pc' = "cbw"
         ELSE msc_pc' = v /\ UNCHANGED sensing
  /\ UNCHANGED <<msc_cmd, dev, tries, was_ready, chunk, result>>

\* reset_transport(): if that fails as well the device is detached.
ResetTransport ==
  /\ msc_pc = "reset"
  /\ \/ /\ plugged
        /\ pipe' \in {<<>>, pipe}
        /\ msc_pc' = "fail"
        /\ UNCHANGED <<dev, disks, broken>>
     \/ /\ Detach
        /\ msc_pc' = "detached"
        /\ UNCHANGED pipe
  /\ UNCHANGED <<msc_cmd, sensing, tries, was_ready, ioVars>>

\* request_sense() makes the command fail; for TEST UNIT READY it may say that there is
\* no medium, and then the command is over with the unit not ready.
Sensed ==
  /\ sensing /\ msc_pc \in {"ok", "fail", "detached"}
  /\ sensing' = FALSE
  /\ \/ msc_pc' = (IF msc_pc = "detached" THEN "detached" ELSE "fail") /\ UNCHANGED dev
     \/ /\ msc_cmd = "tur" /\ msc_pc = "ok" /\ dev.lun \notin media
        /\ dev' = [dev EXCEPT !.ready = FALSE]
        /\ UNCHANGED msc_pc
  /\ UNCHANGED <<msc_cmd, pipe, tries, was_ready, ioVars>>

ExecuteCommand ==
  /\ \/ ResetTransport
     \/ (SendCbw \/ DataIn \/ DataOut \/ CswFails \/ CswArrives \/ Sensed) /\ UNCHANGED <<disks, broken>>
  /\ UNCHANGED <<extVars, handle, vb, task>>

Ended(kind) == msc_cmd = kind /\ ~sensing /\ msc_pc \in {"ok", "fail", "detached"}

-----------------------------------------------------------------------------
\* usb_msc_test_unit_ready(), for a new device and in each poll of a known one.

TestUnitReady == dev' = [dev EXCEPT !.ready = TRUE] /\ Sends("tur")

\* What is done with the outcome: usb_msc_init() and usb_msc_poll().
Finished(ready) ==
  /\ Idle
  /\ task' = IF task = "init" THEN "poll device" ELSE "done"
  /\ CASE ready /\ ~was_ready -> CreateDisk(TRUE)
       [] ~ready /\ was_ready -> RemoveDisk /\ dev' = [dev EXCEPT !.ready = FALSE]
       [] ~ready /\ ~was_ready /\ task = "poll" ->
            /\ dev' = [dev EXCEPT !.ready = FALSE, !.lun = (@ + 1) % Cardinality(Luns)]
            /\ UNCHANGED <<disks, broken>>
       [] OTHER -> dev' = [dev EXCEPT !.ready = ready] /\ UNCHANGED <<disks, broken>>

\* Nobody touches a device that has been detached below.
Lost ==
  /\ task \in {"init", "poll"} /\ msc_pc = "detached" /\ ~sensing
  /\ Idle
  /\ task' = "done"
  /\ UNCHANGED <<dev, disks, broken, tries>>

TurEnds ==
  /\ Ended("tur") /\ msc_pc # "detached"
  /\ tries' = 0
  /\ \/ /\ msc_pc = "ok"
        /\ Sends("spin")
        /\ UNCHANGED <<dev, disks, broken, task>>
     \/ /\ msc_pc = "fail"
        /\ Sends("tur")
        /\ UNCHANGED <<dev, disks, broken, task>>
     \/ msc_pc = "fail" /\ Finished(FALSE)

SpinEndsMutant ==
  /\ Ended("spin")
  /\ \/ /\ msc_pc # "ok" /\ tries + 1 < SpinTries
        /\ Sends("spin")
        /\ tries' = tries + 1
     \/ /\ msc_pc = "ok" \/ tries + 1 = SpinTries
        /\ Sends("capacity")
        /\ tries' = 0
  /\ UNCHANGED <<dev, disks, broken, task>>
SpinEnds ==
  /\ Ended("spin") /\ msc_pc # "detached"
  /\ \/ /\ msc_pc = "fail" /\ tries + 1 < SpinTries
        /\ Sends("spin")
        /\ tries' = tries + 1
     \/ /\ msc_pc = "ok" \/ tries + 1 = SpinTries
        /\ Sends("capacity")
        /\ tries' = 0
  /\ UNCHANGED <<dev, disks, broken, task>>

\* The test unit may have said that there is no medium, and the capacity is read anyway.
CapacityEnds ==
  /\ Ended("capacity") /\ msc_pc # "detached"
  /\ \/ /\ msc_pc = "fail" /\ tries + 1 < CapacityTries
        /\ Sends("capacity")
        /\ tries' = tries + 1
        /\ UNCHANGED <<dev, disks, broken, task>>
     \/ /\ msc_pc = "ok" \/ tries + 1 = CapacityTries
        /\ Finished(dev.ready)
        /\ tries' = 0

ReadyEnds ==
  /\ task \in {"init", "poll"}
  /\ TurEnds \/ SpinEnds \/ CapacityEnds \/ Lost
  /\ UNCHANGED <<extVars, pipe, handle, vb, was_ready, ioVars>>

-----------------------------------------------------------------------------
\* VbExDiskGetInfo(): usb_poll() asks the hub and then the device.

GetInfo ==
  /\ vb = "none" /\ vb' = "info"
  /\ task' = "poll hub" /\ handle' = 0
  /\ UNCHANGED <<extVars, pipe, dev, disks, mscCmdVars, tries, was_ready, ioVars, broken>>

\* generic_hub_poll() and generic_hub_scanport(): whatever was there is detached first.
PollHub ==
  /\ task = "poll hub"
  /\ port_changed' = FALSE
  /\ \/ /\ ~port_changed
        /\ task' = "poll device"
        /\ UNCHANGED <<dev, disks, broken>>
     \/ /\ port_changed
        /\ IF dev # NoDev THEN Detach ELSE UNCHANGED <<dev, disks, broken>>
        /\ task' = IF plugged THEN "attach" ELSE "poll device"
  /\ UNCHANGED <<plugged, media, pipe, handle, vb, mscCmdVars, tries, was_ready, ioVars>>

\* usb_attach_device() with usb_msc_init().
Attach ==
  /\ task = "attach"
  /\ \/ /\ plugged
        /\ dev' = [attached |-> TRUE, lun |-> 0, ready |-> TRUE, created |-> FALSE, data |-> 0]
        /\ was_ready' = FALSE
        /\ task' = "init" /\ Sends("tur")
     \/ /\ task' = "poll device"
        /\ UNCHANGED <<dev, was_ready, mscCmdVars>>
  /\ UNCHANGED <<extVars, pipe, disks, handle, vb, tries, ioVars, broken>>

PollDevice ==
  /\ task = "poll device"
  /\ IF dev = NoDev
     THEN task' = "done" /\ UNCHANGED <<dev, mscCmdVars, was_ready>>
     ELSE task' = "poll" /\ was_ready' = dev.ready /\ TestUnitReady
  /\ UNCHANGED <<extVars, pipe, disks, handle, vb, tries, ioVars, broken>>

\* The handles that vboot gets are those of the list.
InfoDone ==
  /\ vb = "info" /\ task = "done"
  /\ vb' = "none" /\ task' = "none"
  /\ handle' \in IF disks = {} THEN {0} ELSE disks
  /\ UNCHANGED <<extVars, pipe, dev, disks, mscCmdVars, tries, was_ready, ioVars, broken>>

-----------------------------------------------------------------------------
\* VbExDiskRead() and VbExDiskWrite() with readwrite_blocks().

DiskIo(op) ==
  /\ vb = "none" /\ handle # 0
  /\ IF handle \in disks
     THEN /\ vb' = op /\ task' = "rw" /\ chunk' = 1 /\ Sends(op)
          /\ carried' = {} /\ result' = "none"
          /\ UNCHANGED broken
     ELSE broken' = "stale handle" /\ UNCHANGED <<vb, task, mscCmdVars, ioVars>>
  /\ UNCHANGED <<extVars, pipe, dev, disks, handle, tries, was_ready>>

ChunkEnds ==
  /\ task = "rw" /\ Ended(vb)
  /\ IF msc_pc = "ok" /\ chunk < Chunks
     THEN /\ chunk' = chunk + 1 /\ Sends(vb)
          /\ UNCHANGED <<vb, task, result>>
     ELSE /\ result' = IF msc_pc = "ok" THEN vb ELSE "fail"
          /\ vb' = "none" /\ task' = "none" /\ Idle
          /\ UNCHANGED chunk
  /\ UNCHANGED <<extVars, pipe, dev, disks, handle, tries, was_ready, carried, broken>>

MscNext ==
  /\ broken = "no"
  /\ \/ PlugOrPull \/ MediumMoves
     \/ ExecuteCommand \/ ReadyEnds
     \/ GetInfo \/ PollHub \/ Attach \/ PollDevice \/ InfoDone
     \/ \E op \in {"read", "write"} : DiskIo(op)
     \/ ChunkEnds

MscSpec == MscInit /\ [][MscNext]_mscVars

-----------------------------------------------------------------------------
\* Properties.

MscTypeOK ==
  /\ dev = NoDev \/ (dev.attached /\ dev.lun \in Luns /\ dev.data \in Drives \cup {0})
  /\ disks \subseteq Drives /\ handle \in Drives \cup {0}
  /\ vb \in {"none", "info", "read", "write"}
  /\ msc_pc \in {"none", "cbw", "data", "csw", "csw again", "reset", "ok", "fail", "detached"}

\* readwrite_blocks(), "0 on success": a read or a write that succeeds has been carried
\* out by the device, every chunk of it: neither a status left over from another command
\* nor one with a residue passes for it.
OkMeansDone == result \in {"read", "write"} => carried = AllChunks

\* A device that was detached deep inside a command is not used on the way back: no loop
\* goes on with it.
NoUseAfterDetach == msc_pc \in {"cbw", "data", "csw", "csw again", "reset"} => dev # NoDev

\* Between two calls of vboot the list has the disk of the device that is there and
\* ready, and no other, whatever was pulled, exchanged or detached in between.
ListedIsReady ==
  vb = "none" /\ broken = "no" => disks = IF dev # NoDev /\ dev.ready THEN {dev.data} ELSE {}
=============================================================================
