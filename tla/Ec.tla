--------------------------------- MODULE Ec ---------------------------------
(***************************************************************************)
(* The update of the embedded controller's RW image: the callbacks         *)
(* VbExEcUpdateRW(), VbExEcProtectRW() and VbExEcJumpToRW() of             *)
(* vboot/callbacks/ec.c over the commands of drivers/ec/cros/ec.c.  The    *)
(* EC, its flash and the bus are on their own: a command or its answer may *)
(* be lost, an erase may take longer than the driver waits, and the EC may *)
(* be restarted at any time.                                               *)
(*                                                                         *)
(* "ec_command(...) < sizeof(response)" compares an int with a size_t, so  *)
(* that a negative result never counts as an error: the callers that test  *)
(* it like this go on with a response that nobody has written.             *)
(***************************************************************************)
EXTENDS Integers

CONSTANTS
  RwSize,          \* of the RW region, with which the flash ends
  WriteBlock,      \* write_block_size of the EC
  MaxData,         \* what fits a packet
  Ver0Size,        \* EC_FLASH_WRITE_VER0_SIZE
  HasVer1,         \* the EC knows version 1 of EC_CMD_FLASH_WRITE
  ImageSizes,      \* of the images vboot has
  RebootTries      \* cros_ec_reboot() tests the EC 20 times

ASSUME EcAssumption ==
  /\ {RwSize, WriteBlock, Ver0Size, RebootTries} \subseteq Nat \ {0}
  /\ MaxData \in Nat /\ WriteBlock <= MaxData /\ Ver0Size <= MaxData
  /\ HasVer1 \in BOOLEAN /\ ImageSizes \subseteq Nat

VARIABLES
  ec_op,           \* the callback that runs, or "none"
  ec_cmd,          \* the command it sends next
  ec_polls,        \* whether it waits for a command in progress
  image, off, burst, \* the loop of cros_ec_flash_write()
  tests,           \* "timeout" of cros_ec_reboot()
  ec_ret,          \* what the last callback returned
  ec_image,        \* the EC runs "ro" or "rw", or is "down"
  wp,              \* write protect and RO-at-boot are both asserted
  protect,         \* [now, boot]: ALL_NOW and ALL_AT_BOOT
  rw,              \* the contents of the region
  ec_busy          \* an erase is in progress

hostVars == <<ec_op, ec_cmd, ec_polls, image, off, burst, tests, ec_ret>>
ecState == <<ec_image, wp, protect, rw, ec_busy>>
ecVars == <<hostVars, ecState>>

RwBytes == 0 .. RwSize - 1

EcInit ==
  /\ ec_op = "none" /\ ec_cmd = "none" /\ ec_polls = FALSE /\ ec_ret = <<"none", "none">>
  /\ image = 0 /\ off = 0 /\ burst = 0 /\ tests = 0
  /\ ec_image = "ro" /\ ec_busy = FALSE /\ wp \in BOOLEAN
  /\ protect \in {[now |-> wp /\ b, boot |-> b] : b \in BOOLEAN}
  /\ rw = [a \in RwBytes |-> "old"]

-----------------------------------------------------------------------------
\* The EC (external).

\* It refuses to change what it runs from or protects, and writes out of bounds.
EcAccepts(cmd) ==
  /\ ec_image # "down" /\ ~ec_busy
  /\ cmd \in {"erase", "write"} => ec_image = "ro" /\ ~protect.now
  /\ cmd = "write" => /\ off % WriteBlock = 0 /\ burst % WriteBlock = 0
                      /\ off + burst <= RwSize

\* A write clears bits: it stores the image only where the flash is erased, and the
\* ones that the last block is padded with change nothing.
Written ==
  [a \in RwBytes |->
     IF a \notin off .. off + burst - 1 \/ a >= image THEN rw[a]
     ELSE IF rw[a] = "erased" THEN "image" ELSE "mixed"]

EcExecutes(cmd) ==
  /\ rw' = CASE cmd = "erase" -> [a \in RwBytes |-> "erased"]
             [] cmd = "write" -> Written
             [] OTHER -> rw
  /\ protect' = IF cmd # "protect" THEN protect
                ELSE [now |-> protect.now \/ (ec_op = "protect" /\ wp), boot |-> ec_op = "protect"]
  /\ ec_image' = IF cmd = "reboot" THEN "down" ELSE ec_image
  /\ UNCHANGED <<wp, ec_busy>>

EcFinishes ==
  /\ ec_busy /\ ec_busy' = FALSE
  /\ rw' = [a \in RwBytes |-> "erased"]
  /\ UNCHANGED <<ec_image, wp, protect, hostVars>>

\* It comes back from the jump, in RW if that is any good.
EcJumps ==
  /\ ec_image = "down" /\ ec_image' \in {"ro", "rw"}
  /\ UNCHANGED <<wp, protect, rw, ec_busy, hostVars>>

\* A restart of the whole machine, as after VBERROR_EC_REBOOT_TO_RO_REQUIRED.
Restart ==
  /\ ec_image' = "ro" /\ protect' = [protect EXCEPT !.now = wp /\ protect.boot]
  /\ rw' = IF ec_busy THEN [a \in RwBytes |-> "mixed"] ELSE rw
  /\ ec_busy' = FALSE
  /\ ec_op' = "none" /\ ec_cmd' = "none" /\ ec_polls' = FALSE /\ ec_ret' = <<"none", "none">>
  /\ image' = 0 /\ off' = 0 /\ burst' = 0 /\ tests' = 0
  /\ UNCHANGED wp

-----------------------------------------------------------------------------
\* The driver: what follows each command, "ok" if it was answered.

EcSends(cmd) == ec_cmd' = cmd /\ UNCHANGED <<ec_op, ec_ret>>

EcReturns(code) ==
  /\ ec_ret' = <<ec_op, code>>
  /\ ec_op' = "none" /\ ec_cmd' = "none"

Unread == <<off, burst, tests>>

\* ec_protect_rw().  Without an answer the flags are whatever the stack holds.
ProtectEnds(ok) ==
  /\ ec_cmd = "protect"
  /\ \E flags \in [now : BOOLEAN, boot : BOOLEAN, wp : BOOLEAN] :
       /\ ok => flags = [now |-> protect'.now, boot |-> protect'.boot, wp |-> wp]
       /\ \/ ec_op = "update" /\ flags.now /\ EcReturns("reboot to RO")
          \/ ec_op = "update" /\ ~flags.now /\ EcSends("region")
          \/ ec_op = "protect" /\ (~flags.wp \/ flags.now) /\ EcReturns("success")
          \/ ec_op = "protect" /\ flags.wp /\ ~flags.now
             /\ EcReturns(IF flags.boot THEN "reboot to RO" ELSE "unknown")
  /\ UNCHANGED Unread

\* cros_ec_flash_update_rw().
RegionEnds(ok) ==
  /\ ec_cmd = "region"
  /\ IF ok /\ image <= RwSize THEN EcSends("erase") ELSE EcReturns("unknown")
  /\ UNCHANGED Unread

EraseEndsMutant(ok) ==
  /\ ec_cmd = "erase"
  /\ EcSends("version")
  /\ UNCHANGED Unread
EraseEnds(ok) ==
  /\ ec_cmd = "erase"
  /\ IF ok THEN EcSends("version") ELSE EcReturns("unknown")
  /\ UNCHANGED Unread

\* cros_ec_flash_write() with the burst size it has found, if there is anything to write.
Writes(size) ==
  /\ burst' = size /\ off' = 0
  /\ CASE size = 0 -> EcReturns("unknown")
       [] size # 0 /\ image = 0 -> EcReturns("success")
       [] OTHER -> EcSends("write")
  /\ UNCHANGED tests

\* cros_ec_flash_write_burst_size(): both questions go by what the stack holds if the EC
\* does not answer (a block size of zero ends like one that is too large).
VersionEnds(ok) ==
  /\ ec_cmd = "version"
  /\ \E ver1 \in IF ok THEN {HasVer1} ELSE BOOLEAN :
       \/ ver1 /\ EcSends("info") /\ UNCHANGED Unread
       \/ ~ver1 /\ Writes(Ver0Size)

InfoEnds(ok) ==
  /\ ec_cmd = "info"
  /\ \E block \in IF ok THEN {WriteBlock} ELSE 1 .. MaxData + 1 :
       Writes((MaxData \div block) * block)

WriteEnds(ok) ==
  /\ ec_cmd = "write"
  /\ CASE ~ok -> EcReturns("unknown") /\ UNCHANGED off
       [] ok /\ off + burst < image -> EcSends("write") /\ off' = off + burst
       [] OTHER -> EcReturns("success") /\ UNCHANGED off
  /\ UNCHANGED <<burst, tests>>

\* cros_ec_reboot(): "while (timeout-- && cros_ec_test())" and then "if (!timeout)".
RebootEnds(ok) ==
  /\ ec_cmd = "reboot"
  /\ IF ok THEN EcSends("hello") /\ tests' = RebootTries
           ELSE EcReturns("unknown") /\ UNCHANGED tests
  /\ UNCHANGED <<off, burst>>

HelloEnds(ok) ==
  /\ ec_cmd = "hello" /\ tests > 0
  /\ tests' = tests - 1
  /\ IF ok THEN EcReturns(IF tests' = 0 THEN "unknown" ELSE "success") ELSE EcSends("hello")
  /\ UNCHANGED <<off, burst>>

TestsUsedUp ==
  /\ ec_cmd = "hello" /\ tests = 0
  /\ EcReturns("success")
  /\ UNCHANGED <<ecState, ec_polls, image, Unread>>

CommandEnds(ok) ==
  /\ \/ ProtectEnds(ok) \/ RegionEnds(ok) \/ EraseEnds(ok) \/ VersionEnds(ok)
     \/ InfoEnds(ok) \/ WriteEnds(ok) \/ RebootEnds(ok) \/ HelloEnds(ok)
  /\ ec_polls' = FALSE
  /\ UNCHANGED image

\* send_command_proto3(): one packet and its answer.
SendCommand ==
  /\ ~ec_polls
  /\ \/ EcAccepts(ec_cmd) /\ EcExecutes(ec_cmd) /\ \E ok \in BOOLEAN : CommandEnds(ok)
     \/ CommandEnds(FALSE) /\ UNCHANGED ecState

\* "If the command doesn't complete, wait a while": EC_RES_IN_PROGRESS.
InProgress ==
  /\ ~ec_polls /\ ec_cmd = "erase" /\ EcAccepts("erase")
  /\ ec_busy' = TRUE /\ ec_polls' = TRUE
  /\ UNCHANGED <<ec_image, wp, protect, rw, ec_op, ec_cmd, image, Unread, ec_ret>>

\* The EC is asked until it is done, and then for its answer; the question, the answer or
\* the five seconds may fail.
PollEnds ==
  /\ ec_polls
  /\ \/ ~ec_busy /\ CommandEnds(TRUE)
     \/ CommandEnds(FALSE)
  /\ UNCHANGED ecState

-----------------------------------------------------------------------------
\* vboot calls.

EcCall(op, first, size) ==
  /\ ec_op = "none"
  /\ ec_op' = op /\ ec_cmd' = first /\ image' = size
  /\ ec_ret' = <<"none", "none">>
  /\ UNCHANGED <<ecState, ec_polls, Unread>>

EcNext ==
  \/ \E n \in ImageSizes : EcCall("update", "protect", n)
  \/ EcCall("protect", "protect", 0) \/ EcCall("jump", "reboot", 0)
  \/ SendCommand \/ InProgress \/ PollEnds \/ TestsUsedUp
  \/ EcFinishes \/ EcJumps \/ Restart

EcSpec == EcInit /\ [][EcNext]_ecVars

-----------------------------------------------------------------------------
\* Properties.

EcTypeOK ==
  /\ ec_op \in {"none", "update", "protect", "jump"}
  /\ ec_op = "none" <=> ec_cmd = "none"
  /\ off \in Nat /\ burst \in 0 .. MaxData /\ tests \in 0 .. RebootTries
  /\ rw \in [RwBytes -> {"old", "erased", "image", "mixed"}]

\* "Update the EC RW copy", 0 if ok (drivers/ec/cros/ec.h:222): when VbExEcUpdateRW() has
\* succeeded the region is the image and nothing but ones behind it, whatever was lost or
\* garbled before, and it stays so until the next call: no erase of an earlier call that
\* the driver gave up waiting for comes late.
UpdateIsWhole ==
  ec_ret = <<"update", "success">> =>
    rw = [a \in RwBytes |-> IF a < image THEN "image" ELSE "erased"]

\* "If write protect and ro-at-boot aren't both asserted, don't expect protection
\* enabled. If flash is protected now, success ... Otherwise, it's an error"
\* (vboot/callbacks/ec.c:205).
ProtectOkIsProtected == ec_ret = <<"protect", "success">> => protect.now \/ ~wp
=============================================================================
