-------------------------------- MODULE Boot --------------------------------
(***************************************************************************)
(* One boot, from the start of the read-only image to what runs after      *)
(* depthcharge: vboot/stages.c and the modules that call it, the start of  *)
(* the read-write image, the cleanup handlers (base/cleanup.c), the power  *)
(* operations (base/power.c) and, as MemoryWipe, the clearing of RAM.      *)
(*                                                                         *)
(* vboot is a library that is not in the repository: it answers what it    *)
(* likes and, while it runs, it uses any device through the callbacks.     *)
(***************************************************************************)
EXTENDS MemoryWipe

CONSTANT Firmware      \* the read-write images: A and B

Devices == {"tpm", "usb", "ps2", "display"}
Calls == {"VbInit", "VbSelectFirmware", "VbSelectAndLoadKernel"}

\* VBERROR_SUCCESS, the two errors that ask for something, and any other.
Answers == {"success", "ec_reboot", "shutdown", "error"}

VARIABLES
  image,        \* the image that runs
  pc,           \* the call to vboot that is in progress, or the stage, see below
  out_flags,    \* what VbInit asks for
  up,           \* the devices that are running
  started,      \* those the image considers started
  handlers,     \* those with an event in cleanup_events
  stuck,        \* history: those whose handler failed
  answers       \* history: what the calls to vboot answered

flowVars == <<image, pc, out_flags>>
deviceVars == <<up, started, handlers, stuck>>
bootVars == <<wipeVars, flowVars, deviceVars, answers>>

\* What the processor does when depthcharge is through.
Ends == {"kernel", "legacy", "reset", "off", "halted"}

Pcs == Calls \cup Ends \cup
  {"init_funcs", "out_flags", "wiping", "keyboard", "select", "start",
   "load", "reboot_ec_to_ro", "power_off", "cold_reboot", "boot"}

Goto(label) == pc' = label /\ UNCHANGED <<image, out_flags>>

\* Some call fails, its caller returns 1 and module_main() calls halt().
OrHalts(label) == Goto(label) \/ Goto("halted")

-----------------------------------------------------------------------------
\* The devices and their handlers.

HandlerTypes(d) ==
  IF d = "tpm" THEN {"reboot", "poweroff", "handoff", "legacy"}
  ELSE {"handoff", "legacy"}

\* Handlers that may fail: the others return 0 whatever happens.
MayFail == {"tpm", "display"}

\* cleanup_trigger(): every handler of that type runs, also after one failed.
CleanupTriggerMutant(type, failing) ==
  LET run == {d \in handlers : type \in HandlerTypes(d)}
  IN  /\ failing \in SUBSET (run \cap MayFail)
      /\ up' = IF failing = {} THEN up \ run ELSE up
      /\ stuck' = (stuck \ run) \cup failing
      /\ UNCHANGED <<started, handlers>>
CleanupTrigger(type, failing) ==
  LET run == {d \in handlers : type \in HandlerTypes(d)}
  IN  /\ failing \in SUBSET (run \cap MayFail)
      /\ up' = up \ (run \ failing)
      /\ stuck' = (stuck \ run) \cup failing
      /\ UNCHANGED <<started, handlers>>

\* The first use starts a device and registers its handler; that of the display
\* is registered by the board, and display_init() starts it every time.
StartMutant(devs) ==
  LET new == {d \in devs : d \notin started \/ d = "display"}
  IN  /\ up' = up \cup new
      /\ started' = started \cup new
      /\ handlers' = handlers \cup (new \ {"usb"})
      /\ stuck' = stuck \ new
Start(devs) ==
  LET new == {d \in devs : d \notin started \/ d = "display"}
  IN  /\ up' = up \cup new
      /\ started' = started \cup new
      /\ handlers' = handlers \cup new
      /\ stuck' = stuck \ new

-----------------------------------------------------------------------------
\* The read-only image up to the choice of the firmware.

\* Memory is marked by the handoff code and by init functions.
MarkUsed ==
  /\ pc = "init_funcs"
  /\ \E m \in Marks : MemoryMarkUsed(m)
  /\ UNCHANGED <<flowVars, deviceVars, answers>>

\* run_init_funcs() has the board register its display, and module_main()
\* begins.  vboot_init() reads the board's flags first.
InitFuncs ==
  /\ pc = "init_funcs"
  /\ OrHalts(IF image = "ro" THEN "VbInit" ELSE "load")
  /\ handlers' = handlers \cup {"display"}
  /\ UNCHANGED <<wipeVars, up, started, stuck, answers>>

\* A callback of vboot.
UseDevice ==
  /\ pc \in Calls
  /\ \E d \in Devices : Start({d})
  /\ UNCHANGED <<wipeVars, flowVars, answers>>

\* What follows a call that did not succeed.
Refused(answer) ==
  CASE answer = "ec_reboot" /\ pc = "VbSelectAndLoadKernel" -> "reboot_ec_to_ro"
    [] answer = "shutdown" /\ pc = "VbSelectAndLoadKernel" -> "power_off"
    [] OTHER -> "cold_reboot"

\* The cold reboot of every other error, forgotten for VbSelectFirmware.
ProceedMutant(answer, label) ==
  pc' = IF answer = "success" \/ pc = "VbSelectFirmware" THEN label ELSE Refused(answer)
Proceed(answer, label) ==
  pc' = IF answer = "success" THEN label ELSE Refused(answer)

VbInitReturns ==
  /\ pc = "VbInit"
  /\ \E answer \in Answers :
       /\ Proceed(answer, "out_flags")
       /\ answers' = [answers EXCEPT !["VbInit"] = answer]
  /\ out_flags' \in SUBSET {"clear_ram", "enable_developer"}
  /\ UNCHANGED <<wipeVars, image, deviceVars>>

\* vboot_do_init_out_flags(): RAM first.
OutFlagsMutant ==
  /\ pc = "out_flags"
  /\ IF out_flags = {"clear_ram"}
     THEN Goto("wiping") /\ MemoryWipeUnused
     ELSE Goto("keyboard") /\ UNCHANGED wipeVars
  /\ UNCHANGED <<deviceVars, answers>>
OutFlags ==
  /\ pc = "out_flags"
  /\ IF "clear_ram" \in out_flags
     THEN Goto("wiping") /\ MemoryWipeUnused
     ELSE Goto("keyboard") /\ UNCHANGED wipeVars
  /\ UNCHANGED <<deviceVars, answers>>

Wiping ==
  /\ pc = "wiping"
  /\ WipeSteps
  /\ UNCHANGED <<flowVars, deviceVars, answers>>

\* memory_wipe_unused() has returned.
WipeReturns ==
  /\ pc = "wiping"
  /\ \/ wipe_pc = "done" /\ Goto("keyboard")
     \/ wipe_pc = "failed" /\ Goto("halted")
  /\ UNCHANGED <<wipeVars, deviceVars, answers>>

\* keyboard_prepare(), when vboot may have to ask something.
KeyboardPrepare ==
  /\ pc = "keyboard"
  /\ IF "enable_developer" \in out_flags
     THEN Start({"usb", "ps2"})
     ELSE UNCHANGED deviceVars
  /\ Goto("select")
  /\ UNCHANGED <<wipeVars, answers>>

\* vboot_select_firmware() reads the two vblocks.
SelectFirmware ==
  /\ pc = "select"
  /\ OrHalts("VbSelectFirmware")
  /\ UNCHANGED <<wipeVars, deviceVars, answers>>

\* An image of Firmware is selected, or the read-only one keeps running.
VbSelectFirmwareReturns ==
  /\ pc = "VbSelectFirmware"
  /\ \E answer \in Answers :
       /\ \E selected \in Firmware \cup {"ro"} :
            Proceed(answer, IF selected \in Firmware THEN "start" ELSE "load")
       /\ answers' = [answers EXCEPT !["VbSelectFirmware"] = answer]
  /\ UNCHANGED <<wipeVars, image, out_flags, deviceVars>>

\* dc_module_start(): the trampoline leaves nothing of the old image's data, and
\* no handler has been run.
StartModule ==
  /\ pc = "start"
  /\ \/ Goto("halted") /\ UNCHANGED deviceVars
     \/ /\ image' = "rw"
        /\ pc' = "init_funcs"
        /\ started' = {} /\ handlers' = {} /\ stuck' = {}
        /\ UNCHANGED <<out_flags, up>>
  /\ UNCHANGED <<wipeVars, answers>>

-----------------------------------------------------------------------------
\* Either image: the kernel, another payload, or the end.

LoadKernel ==
  /\ pc = "load"
  /\ OrHalts("VbSelectAndLoadKernel")
  /\ UNCHANGED <<wipeVars, deviceVars, answers>>

VbSelectAndLoadKernelReturns ==
  /\ pc = "VbSelectAndLoadKernel"
  /\ \E answer \in Answers :
       /\ Proceed(answer, "boot")
       /\ answers' = [answers EXCEPT !["VbSelectAndLoadKernel"] = answer]
  /\ UNCHANGED <<wipeVars, image, out_flags, deviceVars>>

\* The command line, crossystem or boot() may fail before the handlers run; what
\* they return is ignored.
BootKernel ==
  /\ pc = "boot"
  /\ \/ Goto("halted") /\ UNCHANGED deviceVars
     \/ /\ \E failing \in SUBSET Devices : CleanupTrigger("handoff", failing)
        /\ Goto("kernel")
  /\ UNCHANGED <<wipeVars, answers>>

\* VbExLegacy() and load_payload_and_run(), called back by vboot.  When it fails
\* before the entry point, vboot goes on; and so it does when the payload returns.
Legacy ==
  /\ pc = "VbSelectAndLoadKernel"
  /\ \E failing \in SUBSET Devices : CleanupTrigger("legacy", failing)
  /\ Goto("legacy")
  /\ UNCHANGED <<wipeVars, answers>>

LegacyReturns ==
  /\ pc = "legacy"
  /\ Goto("VbSelectAndLoadKernel")
  /\ UNCHANGED <<wipeVars, deviceVars, answers>>

\* reboot_ec_to_ro() halts when the EC does not take the command.
RebootEcToRo ==
  /\ pc = "reboot_ec_to_ro"
  /\ OrHalts("power_off")
  /\ UNCHANGED <<wipeVars, deviceVars, answers>>

\* When a handler fails the operation is not tried, and the callers halt; as they
\* do when the operation fails.  (PowerMutant: they go on.)
PowerMutant(type, effect) ==
  /\ \E failing \in SUBSET Devices :
       /\ CleanupTrigger(type, failing)
       /\ IF failing = {} THEN OrHalts(effect) ELSE Goto("load")
  /\ UNCHANGED <<wipeVars, answers>>
Power(type, effect) ==
  /\ \E failing \in SUBSET Devices :
       /\ CleanupTrigger(type, failing)
       /\ IF failing = {} THEN OrHalts(effect) ELSE Goto("halted")
  /\ UNCHANGED <<wipeVars, answers>>

ColdReboot == pc = "cold_reboot" /\ Power("reboot", "reset")
PowerOffMutant ==
  pc = "power_off" /\ (Power("poweroff", "off") \/ Power("poweroff", "cold_reboot"))
PowerOff == pc = "power_off" /\ Power("poweroff", "off")

-----------------------------------------------------------------------------
BootInit ==
  /\ WipeInit
  /\ image = "ro" /\ pc = "init_funcs" /\ out_flags = {}
  /\ up = {} /\ started = {} /\ handlers = {} /\ stuck = {}
  /\ answers = [c \in Calls |-> "none"]

BootNext ==
  \/ MarkUsed \/ InitFuncs \/ UseDevice
  \/ VbInitReturns \/ OutFlags \/ Wiping \/ WipeReturns \/ KeyboardPrepare
  \/ SelectFirmware \/ VbSelectFirmwareReturns \/ StartModule
  \/ LoadKernel \/ VbSelectAndLoadKernelReturns \/ BootKernel
  \/ Legacy \/ LegacyReturns
  \/ RebootEcToRo \/ ColdReboot \/ PowerOff

BootSpec == BootInit /\ [][BootNext]_bootVars

-----------------------------------------------------------------------------
\* Properties.

\* Every variable holds a value of its type, and the image has a handler for
\* every device it considers started.
BootTypeOK ==
  /\ WipeTypeOK
  /\ image \in {"ro", "rw"} /\ pc \in Pcs
  /\ out_flags \in SUBSET {"clear_ram", "enable_developer"}
  /\ up \in SUBSET Devices
  /\ handlers \in SUBSET Devices
  /\ started \in SUBSET handlers /\ stuck \in SUBSET handlers
  /\ answers \in [Calls -> Answers \cup {"none"}]

\* Once vboot has refused (vboot/stages.c), nothing else of the boot runs, in
\* particular no other image and no kernel, whatever then fails; and
\* where it asked for power off, so that the EC comes back in its read-only
\* image, the machine is not reset instead.
RefusalIsFinal ==
  /\ (\E c \in Calls : answers[c] \notin {"none", "success"}) =>
       pc \in {"reboot_ec_to_ro", "power_off", "cold_reboot", "reset", "off", "halted"}
  /\ answers["VbSelectAndLoadKernel"] \in {"ec_reboot", "shutdown"} => pc # "reset"

\* When vboot asks for RAM to be cleared, that is complete before the choice of
\* the firmware and everything that follows it, in either image.
ClearedFirst ==
  "clear_ram" \in out_flags
  /\ pc \notin {"out_flags", "wiping", "cold_reboot", "reset", "halted"}
  => wipe_pc = "done"

\* The kernel and a legacy payload find no device running that this image has
\* started, except one whose handler failed: "Call stop() when exiting
\* depthcharge" (drivers/video/display.c:49).  A reset or power off never cuts off
\* the TPM while this image has it open.
NothingLeftRunning ==
  /\ pc \in {"kernel", "legacy"} => up \cap started \subseteq stuck
  /\ pc \in {"reset", "off"} => "tpm" \notin up \cap started
=============================================================================
