# A verification project for depthcharge

depthcharge is the firmware payload that boots Chrome OS devices. This
directory holds TLA+ modules for the parts of it that decide what is booted and
what is left on the flash, TLC configurations that check them on small
instances, and proofs of the most important theorems for TLAPS. Paths below are
relative to the repository's `src/` (the C code), unless they start with
`config/`.

The program is a single thread that polls: there are no interrupts and no locks.
What makes it hard is everything on the other side of the polls (servers and
networks, flash chips that lose power, firmware that answers, devices that keep
running across a jump) and calls that fail half way.

    tlc -config MCTftp.cfg MCTftp        # a run
    tlapm TftpProofs.tla                 # the proofs of a module

## 1. Inventory

### Parts with logic of their own

**Network boot** (`netboot/`, `module/netboot.c`, `debug/netboot.c`, `net/`)
- *State*: `uip_udp_conns` and `lastport` of the UDP stack; one packet buffer and
  one callback; in `tftp.c` the status, the block number awaited, the
  destination; in `dhcp.c` the state, the packet sent last and the packet received
  last, `server_id`; in uIP the address.
- *Operations*: `dhcp_request()`, `dhcp_release()`, `tftp_read()` (called twice),
  `netboot()`.
- *Interaction*: `net_poll()` takes one packet from the device and calls
  `uip_input()`, which calls the one callback. The clients poll, and resend when a
  poll brought nothing new.
- *Hard*: loss, repetition, reordering, replies to an earlier call or from another
  server, a bounded connection table, loops without a bound of their own.
- *Correct when*: what is booted is the whole file from one session; an address is
  used only when its server granted it in this transaction; every error gives back
  what it took; everything comes to an end if the servers answer.

**Flash and the NVRAM log** (`drivers/flash/`, `drivers/storage/flash.c`,
`drivers/storage/fmap.c`, `vboot/callbacks/nvstorage_flash.c`)
- *State*: the flash; the loop of a write; the offset and the copy of the current
  blob.
- *Operations*: read, write and erase of the chip; `flash_storage_write()`;
  `nvstorage_flash_read()` / `_write()` with their first-use initialisation.
- *Interaction*: vboot calls the NVRAM callbacks, these write to an FMAP area of a
  storage device, which reads, erases and programs sectors of the flash.
- *Hard*: loss of power and errors at any command, a write that shares sectors
  with others, a log that must be found again after a restart.
- *Correct when*: a write stores the buffer and nothing else; a blob that was
  written is the one found at the next start; the rest of the flash is safe.

**Verified boot flow** (`vboot/stages.c`, `module/cb/read*.c`, `module/module.c`,
`vboot/util/ec.c`, `vboot/callbacks/legacy.c`, `base/cleanup.c`, `base/power.c`)
- *State*: the image that runs, the flags that vboot returned, the list of cleanup
  handlers, the devices.
- *Operations*: the three stages, the start of the read-write image, the kernel,
  the legacy payload, reset and power off.
- *Interaction*: the vboot library calls back into the drivers, which start
  devices at first use and register handlers that run before something else takes
  over the machine.
- *Hard*: every call may fail; a handler that fails stops a reset; a list that
  starts empty in the new image while devices keep running.
- *Correct when*: what vboot refused stays refused; RAM is clear in time; what runs
  next finds the devices at rest.

**Memory wipe and ranges** (`vboot/util/memory.c`, `base/ranges.c`)
- *State*: the list of edges of what is in use; the loops of
  `memory_wipe_unused()`.
- *Hard*: overlapping, adjacent, nested and empty regions: one edge too many
  inverts everything above it.
- *Correct when*: RAM that is not in use is cleared, and nothing else.

**Embedded controller** (`vboot/callbacks/ec.c`, `drivers/ec/cros/`)
- *State*: the image the EC runs, its write protection, its flash; in the driver the
  loop of a write and the polls of a command in progress.
- *Operations*: `VbExEcUpdateRW()`, `VbExEcProtectRW()`, `VbExEcJumpToRW()`, over
  the commands for flash information, erase, write, protection and reboot.
- *Interaction*: vboot calls the callbacks; each sends commands over a bus and waits.
- *Hard*: a command or its answer is lost, an erase outlasts the wait, the EC is
  restarted in between, errors that an unsigned comparison does not see.
- *Correct when*: an update that reports success has stored the whole image, and
  protection that reports success is there.

**USB host: xHCI** (`libpayload/drivers/usb/xhci*.c`)
- *State*: the event ring with its cycle bits, the command ring, the transfer rings,
  the endpoint contexts, the queue of an interrupt endpoint.
- *Operations*: control and bulk transfers, `xhci_create_intr_queue()`,
  `xhci_poll_intr_queue()`, `xhci_destroy_intr_queue()`, commands and their abort.
- *Interaction*: memory shared with a controller that runs on its own; one thread
  waits for one event and handles all others on the way.
- *Hard*: events of several endpoints in any order, answers after a timeout, cycle
  bits at the wrap of a ring, a full event ring.
- *Correct when*: every completion is taken for the transfer it belongs to, and every
  report of an interrupt endpoint is handed out once, in order.

**USB mass storage** (`drivers/blockdev/usbmsc.c`, `drivers/blockdev/usb.c`,
`libpayload/drivers/usb/generic_hub.c`, `vboot/callbacks/disk.c`)
- *State*: the device and its units, the list of removable disks, the handle that
  vboot keeps, what is in the pipes.
- *Operations*: the commands of bulk-only transport with their recovery, the poll of
  the units, attachment and detachment, the disk callbacks of vboot.
- *Hard*: the device or its medium is pulled at any time; a detachment several calls
  below the loops that use the device; status blocks of older commands.
- *Correct when*: a transfer that succeeds was carried out, and nothing that has been
  detached is used.

**MMC and SD cards** (`drivers/blockdev/mmc.c`, `drivers/blockdev/sdhci.c`)
- *State*: the interrupt status and the inhibit bits of the host, the transfer under
  way, the state of the card, the retries of a command.
- *Operations*: `block_mmc_read()`, `block_mmc_write()`, `sdhci_update()`.
- *Interaction*: the host copies to and from memory on its own while the driver
  polls and gives up after a time.
- *Hard*: a late answer passes for that of the next command; a transfer goes on into
  a buffer that the driver has given back; cards that are swapped.
- *Correct when*: a call that returns its count has moved every block.

**Memory allocator** (`base/libc/malloc.c`)
- *State*: headers in the heap and in DMA memory; regions for aligned blocks.
- *Operations*: `malloc()`, `calloc()`, `memalign()`, their DMA variants, `free()`.
- *Hard*: long sequences of calls, rests of split blocks, regions that are blocks.
- *Correct when*: no two callers share memory, and what is given back can be had again.

**Firmware database** (`base/fwdb.c`, `drivers/storage/fwdb.c`,
`arch/x86/ia32/handoff/module.c`)
- *State*: a list of named entries in memory that one image hands to the next.
- *Hard*: several computations of where the list ends; an image that does not look
  whether it could take the list over.
- *Correct when*: an entry stays where it is and keeps its contents, image after image.

**Others with some logic**: the TPM drivers (`drivers/tpm/`: localities, bursts), the
GDB transport (`debug/gdb/transport.c`: checksums, acknowledgements, retries), the
MKBP and the pseudo keyboard (`drivers/keyboard/`), the other USB controllers (EHCI,
OHCI, UHCI, DWC2), the other MMC hosts, the USB device controller
(`libpayload/drivers/udc/`).

### Parts without

Board definitions, GPIO, I2C and SPI hosts, sound, consoles, timers, codecs, CBFS,
the C library, page tables, display drawing, UEFI adapters, layouts. They are
lookups, register writes, output or vendored algorithms; where their failures
matter they are a nondeterministic outcome of the module above them. PROJECT.json
lists each with its reason.

## 2. Plan

Each module is written to be checked and to be proved about: parameters are
CONSTANTS with named assumptions, there is one action per step that can fail or be
observed, and there is no RECURSIVE operator.

| # | modules | status |
|---|---------|--------|
| 1 | `UipUdp`, `Tftp`, abstract `FileTransfer` | modelled, checked, safety and refinement proved |
| 2 | `Dhcp` | modelled, checked, proved within 3 |
| 3 | `Netboot` = `Dhcp` + `Tftp` on one `UipUdp` | modelled, checked, safety proved |
| 4 | `Flash`, `SpiFlash` | modelled, checked, proved |
| 5 | `FlashStorage` implements abstract `StorageDevice` | modelled, checked, refinement proved |
| 6 | `NvStorageFlash` on `FlashStorage` | modelled, checked, safety proved for an area of one sector |
| 7 | `Ranges`, `MemoryWipe` | modelled, checked, proved |
| 8 | `Boot` on `MemoryWipe` | modelled, checked, proved |
| 9 | `Ec` | modelled, checked, proved |
| 10 | `EventRing` implements abstract `EventQueue` | modelled, checked, refinement proved |
| 11 | `Xhci` on `EventQueue` | modelled, checked, safety proved, and of the end of its calls all but the step from fairness |
| 12 | `UsbMsc` with hub, disks and the callbacks of vboot | modelled, checked, proved |
| 13 | `Malloc` implements abstract `Allocator` | modelled, checked, refinement proved |
| 14 | `Fwdb` implements abstract `FwdbTable` | modelled, checked, refinement proved |
| 15 | `Mmc` | modelled, checked, proved |
| 16 | `Tpm` (`drivers/tpm/lpc.c`), `GdbTransport` implementing an exchange of packets | to do |
| 17 | `Ehci`: its interrupt queues; the rest of the EC callbacks | to do |

Proofs to do: those of the modules that are to do. Of the modelled parts, every invariant and
every refinement that a passing run checks is proved.

## 3. The modules

Variables and operators keep the names of the C code where they can. A definition
named `...Mutant` stands before one of the model's operators and is that operator
with a plausible bug; no specification uses it. It shows that a property can fail.

### UipUdp
`uip_udp_new()`, `uip_udp_remove()` and the demultiplexing of `net/uip.c`, and the
datagrams in flight. One poll is one step with at most one packet, because there is
one buffer and one callback. When `Forgets` is FALSE `net` only grows: a packet
that is never delivered is lost, one that is delivered twice is repeated, and any
order is possible, so for safety this network contains every other. When `Forgets`
is TRUE packets leave it, which is what liveness needs to be worth something.

### Tftp and FileTransfer
| model | code |
|---|---|
| `TftpRead(f)` | `tftp_read()` up to the first request |
| `Poll(m)`, `PollNothing` | one turn of its loop: the callback with a packet, or nothing and a resend |
| `Unbind`, `LastAck`, `Resend` | what a turn without news sends, and the reset of the remote port |
| `Expected`, `Short`, `Fits` | the tests of `tftp_callback()` |
| `TftpReturn` | the end of `tftp_read()`, `uip_udp_remove()` |
| `Server...` | external: a server that opens a session, on a port of its own, for each request it sees and resends |

The contents of a block are its origin `<<session, number>>`, so that a mixture of
two sessions is seen. `tftp_blocknum` is an unbounded int, as in the code; numbers
on the wire are taken modulo `Wire`. `FileTransfer` is what `netboot()` relies on:
one call copies the blocks of one file from one source in order, success is
reported when the last one has been copied, and a call may fail at any time.

### Dhcp
`dhcp_pc` says which of the waits of `dhcp_request()` the client is in. The two
halves of `dhcp_callback()` are kept apart as in the code: it copies the packet over
`dhcp_in` first and sets `dhcp_in_ready` only if it is wanted. Options are told
apart by what the code does with them: the message type, the server identifier
(good, `"absent"`, `"short"`), and whether the rest can be applied. An absent
identifier leaves `server_id` uninitialised: it becomes any server or garbage.
Transaction ids are taken to be fresh (`rand()`). Servers offer, let offers
expire, grant and refuse.

### Netboot
`netboot()` with one table and one network under both clients: what DHCP leaves in
flight or in the table is there when TFTP runs. `payload` is the memory at
CONFIG_KERNEL_START and `cmd_line` what the command line is made from. The constants
`ArgsFiles`, the files that may be named for the command line or none, and `HasArgs` tell
the callers apart. `Strip` is the white space at the end of that file: from an empty one
the code strips at `cmd_line[-1]`. Either nothing comes of that, or the loops leave the
buffer and write there; then the behaviour ends in `"overrun"`.

### Flash, SpiFlash
`Flash` is the contract of `FlashOps`: programming clears bits, erasing sets the
bits of whole sectors, both can be cut short. `SpiFlash` is the driver against a
chip that obeys a command only when it is idle and enabled; it keeps where each
command goes and no bytes. The driver computes the size of a page write with a wrong
operand and the address of an erase from the loop variable alone; both are modelled
as written. **On a chip driven by this code nothing above it can work**, so the
modules above stand on the contract in `Flash` and not on `SpiFlash`.

### FlashStorage and StorageDevice
`flash_storage_write()` with a step per flash command: read the sector, erase it if
a bit has to be set, write the merged sector without the ones at its ends.
`StorageDevice` says what a caller gets: the bytes in order, nothing else changed,
success only when all are stored, and one damaged erase sector at most when the call
fails or the power does. The refinement maps the sector that is being rewritten to its
copy in `existing`: while it is erased, it still counts as it was.

### NvStorageFlash
The log of blobs, on an instance of `FlashStorage`. A loss of power resets the
variables and keeps the flash. `NvInitCrash` is the call through the null
`nvram_storage` in `flash_nvram_init()`: the storage is read before line 90 sets it.
On such a build nothing can be said; the other start goes on as intended.

### Ranges and MemoryWipe
The sorted list of edges without duplicates is a set of naturals; an address is in
the collection when an odd number of edges is at or below it. The loops that walk
the list are sets of the edges on either side. `MemoryWipe` has a step per entry of
the memory map, per range that is in use and per range that is cleared.

### Boot
One boot. `pc` is a call to vboot, a stage or an end. vboot is external: each call
answers anything, and while it runs it uses any device (`UseDevice`) or starts a
legacy payload. `up` are the devices that run, `started` those that the running image
considers started, `handlers` the handlers in `cleanup_events`. `StartModule` resets
all but `up`. A handler of the TPM or the display may fail. The history variables
`answers` and `stuck` record what vboot said and which handlers failed last.

### Ec
`VbExEcUpdateRW()`, `VbExEcProtectRW()` and `VbExEcJumpToRW()` over the commands of
`drivers/ec/cros/ec.c`. `ec_cmd` is the command the driver sends next; a command or
its answer may be lost, and an erase may outlast the wait for it. The EC, its
protection and its flash are external and may restart at any time. A response that
nobody has written is any response.

### EventQueue, EventRing, Xhci
`EventQueue` is what the driver needs of the event ring: a queue of bounded length
whose places come free when the driver says so. `EventRing` is the ring itself: the
entries with their cycle bits, the controller's position and cycle state, the
driver's, and the dequeue register. `Xhci` stands on `EventQueue`: the commands with
their timeout and abort, transfers on pipes with a reset after a halt or a timeout,
and the queue of an interrupt endpoint with its ring of buffers. `usb_pc` says which
of the driver's waits it is in; each event that a wait looks at is one step
(`HandleEvent`), so the controller may act between two. `HcStep` is the controller,
external. A transfer ends with any outcome the controller may give, or with none.

### UsbMsc
One device with several units in one hub port, and a call of vboot that uses a
disk. `msc_cmd` and `msc_pc` say which command is under way and in which phase,
`sensing` that a REQUEST SENSE has come in between. `pipe` is what the device has to
send; each item belongs to this command (`own`) or to an older one. `Detach` removes
the disks wherever the driver happens to be. `broken` records that the code has
removed a disk twice or followed a stale handle: what happens then is undefined, and
the behaviour ends.

### Mmc
`block_mmc_read()` and `block_mmc_write()` over an SDHCI host with ADMA. `int_status`
are the bits the driver polls, `on_line` and `transfer` what is still under way
outside, which is why an answer can come late. Setting up a host or a card is one
step. Resets of the host complete, and no board sets the quirk for a broken R1b.

### Malloc and Allocator
A call is a step. `hdr` is a function from the addresses that hold a header to its
fields; everything else in memory belongs to someone. `regions` are the regions for
aligned blocks, `live` what callers hold. `Allocator` promises that what is handed
out is memory, aligned, and apart from everything that others hold.

### Fwdb and FwdbTable
Memory in units of the size field. Each computation of where the list ends or where
the data of an entry starts is an operator of its own, as they are in the code.
`HandOff` is the start of the next image: its pointers are new, and it has a database
only if the check accepts what it finds. `FwdbTable` is a table from names to data
to which entries are added and which is never emptied.

### The harnesses
`MCXhci`, `MCStorage` and `MCBoot` put modules side by side that share no variable: a
behaviour is one of one part, chosen at the start (`layer`, `part`), and the other
parts stay where they start. They only save runs; nothing is composed there.
Composition is what `Netboot` (on `Dhcp`, `Tftp` and `UipUdp`), `Boot` (on
`MemoryWipe`), `NvStorageFlash` (on `FlashStorage`) and `Xhci` (on `EventQueue`) do.

## 4. What is checked

| run | bounds | shows |
|---|---|---|
| `tftp` | 2 calls, 2 sessions, 2 slots, a file of 5 bytes and one of 4 with blocks of 2 and room for 4 | the destination is the start of the file (`ReceivedIsPrefix`), success is the whole within the buffer (`SizeIsExact`), the server never runs ahead (`Lockstep`), one session is acknowledged (`OneSessionAcked`), no connection stays (`ConnReleased`), `ImplementsFileTransfer` |
| `tftp_wrap` | `Wire` = 2, 3 blocks | **violation**, see findings |
| `netboot` | 2 attempts at DHCP, 2 servers (symmetric), 2 slots, a payload of 1 byte, a file of 2 bytes or an empty one for the command line | the address in use was granted (`BoundToGrant`), payload and command line are whole and only an empty file takes the strip out of the buffer (`BootsWhole`), there is always a slot for what follows (`NetbootHasSlot`) |
| `netboot_live` | 1 attempt, 1 server, truncated options, 1 session, no file for the command line, a network that forgets | `Settles` under fairness |
| `dhcp_leak` | 1 slot, 2 calls | **violation** |
| `storage` | six parts: 3 sectors of 2 pages of SPI flash; 3 sectors of 2 bytes with any contents and 7 buffers at every offset; an RW region of 8 with images of 0, 3, 5, 8 and 9; 2 units and 2 commands to a transfer; a card of 5 blocks, 2 to a transfer; a database of 13 words with 2 names and 5 sizes | `EveryCommandObeyed` and `ErasesAll`; `ImplementsStorageDevice`; `UpdateIsWhole`; `OkMeansDone`, `NoUseAfterDetach` and `ListedIsReady`; `BufferIsExchanged`; `ImplementsTable` |
| `spi_flash_erase` | erases from anywhere | **violation** |
| `nv` | 1 sector of 3 blobs of 3 bytes, behind a sector of someone else | `WrittenIsCurrent`, `LogHasNoHoles`, `SparesTheFlash` (nothing outside the area changes, and an erase happens only when the log is full) |
| `nv_two_sectors` | 2 sectors of 2 blobs | **violation** |
| `ec_protect` | a command or its answer is lost | **violation** |
| `boot` | 44 memory maps or none, 1 marked range, 2 images; a heap of 12 words and DMA memory of 2, at most 4 blocks at a time | `RefusalIsFinal`, `ClearedFirst`, `WipesWhatIsUnused` (all of it and nothing else), `NothingLeftRunning`; `HeapIsTiled`, `NothingLost`, `ImplementsAllocator` |
| `xhci` | a ring of 4 entries, a queue of 3 places, 1 pipe and 1 interrupt endpoint, transfer rings of 5, queues of 3 and 4 buffers, a command ring of 2, 2 transfers and 2 reports | `ImplementsEventQueue`; no transfer takes the event of another (`OwnAnswer`), reports come once and in order (`ReportsInOrder`), each buffer is freed once (`BuffersAccounted`), no call waits for ever (`CallReturns`) |

Each passing run but `netboot_live` also checks one type invariant.

**Why the bounds are enough.** Two calls and two sessions are the least with which a
packet can belong to the wrong call or to the wrong session; more of either repeat
this. A file of three blocks has a first, a middle and a last one; files that fit
exactly, that do not fit and that end in an empty block are all there. Two slots let
one be leaked and one be used. Ports start at 10, below the first port that the
search wraps to and far enough from the limit that it does not wrap: reuse of a port
after 27904 connections is out of reach of one boot. Flash of three sectors has a first, a
middle and a last sector of a write; one bit per byte has a bit to set and a bit to
clear, and the code treats bits alike. In `nv`, three blobs are an empty, a partly
filled and a full log. The entries of the memory maps overlap, touch, nest, are empty
and are unknown, with one map of three that overlap one another. Images for the EC are
empty, end inside a block, need padding to what the protocol writes at once, fill the
region and are too large for it. In `storage`, two units let the medium of one go while the
other is used, and two commands to a transfer let it fail half way. Five blocks with two
to a transfer make a call of whole transfers and one with a rest. The names and sizes of
the database give entries with and without padding, and every way to be just too large.
Four small blocks fill the heap, so that splitting, joining on either side and
exhaustion all happen; alignments of 2 and 8 use regions below and at `LargeRequest`.
A ring of four entries wraps, and can be full, with each of its entries at the wrap; two
transfers are one that is given up on and one that could take its event; with two reports
and queues of three and four, the buffers that are moved pass the link of the transfer ring.
The proofs remove the bounds for the properties they cover (section 6).

The bounds of the models that the code does not have are `MaxReads`, `MaxAttempts`
(calls), `MaxTransfers`, `MaxReports`, `MaxLive` (blocks in use), `Late` (items of older
commands in a pipe) and the sets of sessions, servers, maps, marks and names. The loops
with fixed counts in the code have smaller ones here: `RebootTries` for 20, `SpinTries`
for 30, `CapacityTries` for 20.

**Choices a reader should know.**
- `CHECK_DEADLOCK FALSE` is set where the system really stops: a boot that ended, a
  client that used up its calls, an assertion, a disk used after it was freed.
- In `nv`, `EraseTears` is FALSE: an erase that is cut short is either done or not.
  With torn erases a blob that is partly ones is taken for a blob, and no log without
  checksums can tell. `storage` has torn erases.
- `WrittenIsCurrent` and `LogHasNoHoles` end at the first *error* of the flash (not at a
  loss of power): the code does not restore `nvram_blob_offset` after a failed write,
  see the hazards. Of `SparesTheFlash`, that the rest of the flash is untouched holds
  always; that an erase needs a full log holds until the first error.
- That the command line is whole (`BootsWhole`) is checked for callers that pass a
  parameter to fall back to. `debug/netboot.c:43` passes none, and there a transfer that
  fails half way does leave its blocks in the command line.
- After an empty file for the command line the model ends where the code leaves its buffer;
  `BootsWhole` says that the file was empty and had been read whole, no more.
- `OkMeansDone` says that the device has carried a command out, not that the buffer holds
  its data: the code cannot tell data that were left in the pipe from its own, see the
  defects below. `ListedIsReady` and `NoUseAfterDetach` end where freed memory is used.
- `NothingLeftRunning` speaks of devices that the running image has started and whose
  handler did not fail: the code starts the kernel all the same after a failure. Those that
  only the read-only image started have no handler in the read-write image; whether that
  can happen is decided inside vboot.
- `EveryCommandObeyed` ends at the first call that fails: a call after a timeout finds the
  chip busy, and its commands are lost.
- `SlowCommands` of `xhci` are the commands before a transfer. If a command may also
  outlast its wait while a device is enumerated, while the interrupt queue is taken
  apart, or while an abort is under way, the code loses track, see the defects below.
- PIO transfers of a card are left out of `Mmc`. There the driver stops a multi-block
  transfer both by itself and through the host.
- `ImplementsTable` takes a database that an image could not take over for an empty
  table, so that a handoff that is refused would violate it. It also says that memory
  behind the database keeps its contents.

**Fairness.** `Netboot!FairSpec`, used by `netboot_live` only: the client is weakly
fair, being a loop that polls without end. Its resends are weakly fair: a poll
without news sends again. Delivery is *strongly* fair: a packet that is sent again
and again, which is what the resends are for, is not lost every time; the same for
the servers' receipt of requests and acknowledgements, and the server resends its
last block. Nothing makes an offer live forever or a DHCP request succeed, so
`Settles` leaves out the case that every attempt was refused. In the code that case
loops for ever, as it should.

`Xhci!XhciFairness`, used by `CallReturns`: the driver goes on with the call it is in,
each of whose waits has a timeout that is one of its steps; the controller carries out
the command it was given and says that its ring is full. Transfers need no fairness: a
device may never answer. Why no other fairness is needed is proved (`EveryStepCounts`,
`NobodyWaitsForEver` in section 6).

## 5. What the runs found

Each is a run that TLC finds violated, and quotes a line of the repository.

1. `tftp_wrap` (`netboot/tftp.c:143`): the 16-bit block number of a packet is compared
   with an `int`. After block 65535 the next block, number 0, is ignored for ever and
   `tftp_read()` never returns; the comment says it ignores blocks that are "duplicated
   or out of order".
2. `dhcp_leak` (`netboot/dhcp.c:505`): the error returns of `dhcp_request()` keep the
   connection. After as many as the table has slots, `netboot()` prints "Dhcp failed,
   retrying." without ever sending anything again.
3. `spi_flash_erase` (`drivers/flash/spi.c:198`): the erase command gets the loop
   offset instead of the address.
4. `nv_two_sectors` (`vboot/callbacks/nvstorage_flash.c:131`): an area of more than one
   sector is erased a sector at a time. A loss of power in between leaves old blobs
   behind the new log, and they become "current" when it has filled up.
5. `ec_protect` (`drivers/ec/cros/ec.c:664`): an `int` result is compared with a
   `size_t`, so that an error is never seen; `VbExEcProtectRW()` then goes by a response
   that nobody has written and may report protection that is not there.

Other defects met while modelling have no run of their own. Where a module models the
code they are in, it has them as the code does, or says where it ends before them.

| where | what |
|---|---|
| `drivers/flash/spi.c:158` | the size of a page write is computed with a wrong operand |
| `vboot/callbacks/nvstorage_flash.c:66` | `flash_nvram_init()` uses a pointer that is set later |
| `netboot/dhcp.c:467` | an uninitialised `server_id` |
| `netboot/netboot.c:110` | the strip of an empty args file starts before the buffer, and may go on from there (`"overrun"` in `Netboot`) |
| `base/queue.c:44` | a null tail in `queue_push()` |
| `module/cb/x86_cleanup.c:91` | the legacy event is registered for every handoff |
| `drivers/net/net.c:107` | without a device a poll does nothing, and the clients wait for ever |
| `vboot/callbacks/legacy.c:99` | segments that are already in place stay when a later one fails |
| `base/ranges.c:75` | a map entry without extent stops the wipe at an assertion |
| `vboot/callbacks/ec.c:140`, `:234` | an index one too large is let through |
| `debug/gdb/transport.c:250` | a reply that is never acknowledged passes for sent, the result of the last try is not looked at |
| `drivers/blockdev/usbmsc.c:93` | `usbdisk_created` is not cleared: a disk may be removed twice |
| `drivers/blockdev/usbmsc.c:246` | the result and the length of the data phase are not looked at: whatever comes first passes for the data, and with a good status the command succeeds |
| `vboot/callbacks/disk.c:98` | a handle is used after a detachment inside an earlier call |
| `libpayload/drivers/usb/xhci*.c` | after an Enable Slot that was aborted, the ring goes on at the wrong place; the result of the last command of `xhci_destroy_intr_queue()` is not looked at |
| `drivers/blockdev/sdhci.c`, `mmc.c` | a failed multi-block transfer leaves the card in its data state, and what follows fails until the host is set up again; a card that is swapped between two updates is not noticed |
| `base/fwdb.c:127` | the sizes that are checked at a handoff leave the padding out |

## 6. What is proved

Eight modules of proofs, for all values of the constants that satisfy the assumptions
of the modules they are about. The assumptions say that sizes and counts are numbers,
that "none" is none of the values it stands beside, and what the code itself relies on:
sectors divide the flash, ports of DHCP are outside those that `uip_udp_new()` hands out,
there are enough of these ports for the calls that are made (`PortsSuffice`,
`NetbootPorts`; the code has 27904 and numbers are not reused before that), and the event
ring has room for more than one event (`Places > 1`; the code's ring has 64 entries).

**TftpProofs**: `TypeCorrect`, `PrefixSafety`, `LockstepSafety`, `NoLeakedConn`,
`OneSession`, `SizeSafety`, and the refinement `TftpIsFileTransfer`.
`ReceivedIsPrefix` is not inductive: that the next accepted block is the next of the
file depends on which packets can be in flight. `IInv` adds three facts that the code
never states. Local ports are not reused (`ConnInv`), so nothing of an earlier call
matches. The connection is unbound exactly while block 1 is awaited (`ClientInv`,
`AckInv`), so only one session is ever acknowledged. No session of this call is ahead of
the block awaited (`SessionInv`, `DataInv`), so a number modulo `Wire` that looks right is
right: `tftp_blocknum` stays at or below `Wire`. Each action has a lemma; `ExpectedBlock`
is the heart. `IInv` says nothing of packets and connections that are no business of
TFTP (`Foreign`, `Elsewhere`), and `ForeignInv` shows that another client on the same
table and network cannot disturb it; `Alone` is the case without one. That a call which
succeeds has *all* of the file in the buffer (`SuccessIsWhole`) is what the size and the
refinement come from.

**NetbootProofs**: `NetbootTypeCorrect`, `NetbootFindsSlot`, `AddressIsGranted`,
`BootsWholeFiles`. They take `IInv` over, and every step of the TFTP client with it
(`TP == INSTANCE TftpProofs`); `ForeignInv` covers what DHCP does. `NInv` adds the DHCP
client (`DhcpInv`) and where `netboot()` is. An answer with the latest transaction id
answers the latest question (`XidInv`), so that an ack is a grant of just the address
and the server that were requested (`GrantInv`), also when `server_id` is garbage: then
no server grants. One packet at most waits in `dhcp_in`, and it is of the kind that is
waited for (`InInv`). Every request that fails leaves the connection it took, but
the one that is granted had a slot and gives it back, and every later step gives back what
it takes, so `NetbootHasSlot` is inductive with `DhcpConnInv`. `AttemptInv` and `PortInv`
bound the transaction ids and the ports by the number of attempts. A session that has
sent all of a file stays as it is, so what was loaded is still a whole file when it is booted
(`LoadInv`). `BootsWholeFiles` assumes that the caller passes a parameter to fall back
to or never names a file for the command line: otherwise a transfer that fails half way
leaves its blocks in the command line (section 4). The files are of any size. For an empty
one the strip may leave the buffer, and the theorem says that nothing else leads there:
`SizeStepInv` carries `SizeIsExact` over from `TftpProofs`, so that a size of 0 is that
of the file.

**StorageProofs**: `StorageTypeCorrect` and the refinement `StorageIsDevice`.
`flash_storage_write()` goes
through the flash in sectors and through the buffer in pieces; `StorageInv` says that the
two stay in step (`InStep`: `pos + extra_low = offset + input_pos`), that while a sector is
erased `existing` holds what was in it, and that what is programmed only clears bits
(`Programmable`). Each step is then a step or a stutter of `StorageDevice`
(`...Implements`); the arithmetic of sectors, for any size of a sector, is in the lemmas in
front.

**FlashProofs**, the log: `NvTypeCorrect`, `NvKeepsOutside`, `NvWritesToDevice` for every
area; `NvWrittenIsCurrent`, `NvLogHasNoHoles`, `NvSparesTheFlash` under two hypotheses,
those of the run `nv`: the area is one sector (`OneSector`) and an erase that is cut short
is done or not (`~EraseTears`). Both are needed: with two sectors the run `nv_two_sectors`
finds a write that is lost, and section 4 says what a torn erase does. The proofs stand on
those of `StorageProofs` (`SP == INSTANCE StorageProofs`): `SameWrite` and its neighbours
show that the instance of `FlashStorage` in the log takes the same steps, and `Applies`
that its requests are ones those proofs are about. `WrittenIsCurrent` is not inductive,
because the log is in between while a blob is written. `Log(f, o)` says what it is then: blobs
behind `o` are empty, blobs before it are not (but perhaps the first), and that at `o` may be
anything. `NvInv` says that there is always such an `o`; that a write has the log at its own
offset, and only clears bits there (`WriteInv`, `ProgramsBlob`); that an erase finds the last
place used (`EraseInv`); and that between calls the cache is the current blob (`IsCurrent`),
which is the one that the scan of `flash_nvram_init()` finds (`LastOffsetIs`). After an error
of the flash nothing is said (`~nv_failed` guards `LogInv`), as in the properties. TLC checked
`NvInv` before it was proved. `NvKeepsOutside` is the part of `SparesTheFlash` that holds
always: the area begins and ends with a sector (`SectorsOfArea`).

**BootProofs**, the wipe: `WipeIsExact` (from `WipeIsSafe` and `WipeIsComplete`),
`WipeTypeCorrect`. It begins with `Ranges`: what `ranges_set_region_to()` does to the set
that the edges stand for (`SetRegionToCorrect`), and that a step of `ranges_for_each()`
takes away the lowest range (`RestCorrect`, `NoRangeLeft`). The argument is the parity of
the number of edges: an edge is inserted exactly when the state before it differs from the
one asked for (`OddToggle`), and the edges above the region see the same parity as before.
`WipeInv` says in each loop what the edges stand for: after n entries of the map, the
addresses that the last of these entries makes RAM; while "used" is walked, these without
the part that has been passed; while ranges are cleared, what is cleared and what is left
make up all of it.

**BootProofs**, the boot: `BootTypeCorrect`, `RefusalHolds`, `DevicesAtRest`, `ClearedBeforeUse`.
`BootWipes` shows that the boot implements `WipeSpec`, so that the theorems on the wipe
carry over (`ClearedBeforeUse`). `RefusalHolds` needs, besides the property, that a machine
told to power off is not on its way to a reset either; `DevicesAtRest` needs that every
device the image considers started has a handler. `BootPartsTypeCorrect` is the type
invariant of the run `boot`, where a boot and the allocator of `MallocProofs` stand side
by side.

**DriverProofs**: four drivers against devices that go on by themselves.
`MmcExchanges`: a transfer that is under way belongs to the command the driver waits for,
and has come to the block of its place (`TransferIsOurs`); an "end" that anybody still looks
at is the end of that (`EndIsOurs`). Late answers to *commands* are allowed, and harmless.
`EcUpdates`: no erase is in progress once writing has begun, and the region holds the image up
to the loop's offset and is erased behind it (`EcInv`), because a command that fails ends
the update. `DisksDoIt`, `NoDetachedUse` and `DisksListed`: `DisksInv` says which part of
which call runs (`TaskOK`), that the list has the disk of the device exactly if it is ready
(`ListOK`), and that the chunks before this one are carried out (`CarriedOK`). `SpiObeyed`: a command
is sent only when the chip is at rest and has been told that it may be written to; `SpiErases`
is for erases that begin at 0, the only ones for which it holds (`spi_flash_erase` shows the
others). And the type invariants of the four; `StoragePartsTypeCorrect` puts them together
with those of the storage layer and of the database, as the run `storage` does.

`DriverProofs` also has the firmware database: the refinement `DatabaseIsTable`, its invariant
`FwdbInvHolds` and `FwdbTypeCorrect`. `Fields`, the walk of the list, is a recursive function;
`FieldsOf(m, F)` says what it computes without recursion: each field but the first is where the
entry of a field before it ends (`FieldsAre`, by the least counterexample). `Listed(m, F, e)`
is the list that `fwdb_access()` builds: every field but the last, `e`, has an entry with a name
of its own, which ends before the next field. `FwdbInv` says that memory holds such a list, that
every entry a client holds is in it and that what is behind the database was not touched. The
three computations of the end of a new entry agree because the data starts at a multiple of the
unit (`AlignSum`); a write stays inside the data of its entry (`ListWritten`), so that it changes one
place of the table (`TableWritten`); the sum of the sizes that `fwdb_use_db()` checks is no more
than the room between the header and `e` (`SumIsRoom`, which identifies the sum with the
cardinality of the cells the entries take), so that the next image accepts every list
(`ListAccepted`). The proof needs that `NoName` is not the name of an entry.

**XhciProofs**, the driver: `XhciTypeCorrect`, `TransfersGetOwnAnswer`,
`ReportsAreOrdered`, `BuffersAreCounted`, for any number of pipes, any sizes of the rings,
any number of transfers and reports. Events carry no number of the call they answer, so each
theorem rests on counting what is on its way. `CommandInv`: of command completions there are
exactly the ones that the command waited for still owes, so an abort ends with the ring at
rest. `PipeInv`: for each pipe, what is in the queue and what the controller still has to
report make up what the transfer in progress still waits for; after a stall or a timeout the
pipe is quiet before it is given anything new (`Resetting`, `Emptying`, `Stopping`).
`IntrInv`: the entries of an interrupt queue, counted from `next`, are first those whose
report has been noted, then those whose report is on its way, in order, then those the
controller still has, then the spare one (`WorksAt`); the entries that carry a report hold
just the reports that are not handed out yet, in order (`AllKept`), and each buffer is on one
entry (`RingHolds`). TLC checked the invariant before it was proved. The theorems assume
`InTime`, the same as in the run: only the commands before a transfer may outlast the
driver's wait. Without it the properties do not hold (section 4).

**XhciProofs**, the end of a call: `EveryStepCounts` and `NobodyWaitsForEver`, under the same assumption. No call of the driver can be extended for
ever, and none gets stuck. `Measure` has five parts, compared in this order: the waits that
are left of the call (`CallLeft`: the waits of a command and of its abort, the commands and the
stages of a transfer that follow it, the entries of an interrupt queue that a poll may still
pass); what the controller has still to do for the command (`CommandLeft`); the transfers
that it may still end (`TransferLeft`); the reports it may still write before it meets the
driver's end of the transfer ring (`ReportsLeft`); the events that wait, and whether the controller
may still say that the ring is full (`EventsLeft`). The order matters: what the controller
posts makes the last part larger, but only when one before it becomes smaller; a stage that is done
starts a transfer with new descriptors, but leaves fewer stages. `EveryStepCounts` says of the
specification without its fairness that `Measure` is always five numbers, that each step of a
call, of either side, makes it smaller, and that the order has no infinite descent (the
library's theorem on lexicographic orders). `RoomInv` says that a full ring is
one whose last event says so, so that a controller that may not post has told the driver, which then
has an event to take; `CommandInv` that the completion of a command that is waited for is on
its way or still to come, and that an abort can be given up. That gives
`NobodyWaitsForEver`: in each state of a call the guard of some step holds (`DriverCan`,
`ControllerCan`). TLC has compared these guards with `ENABLED` on the instance of the run.
`CallReturns` follows from the two by fairness;
that last inference needs `ENABLED` and stays with TLC. `UsbTypeCorrect` is the type
invariant of the run `xhci`.

**XhciProofs**, the ring: `AlwaysInStep` (the driver sees a new entry exactly when there is
one) and `RingIsQueue`, the refinement of `EventQueue`. That one cycle bit is enough is
a fact about all the entries at once: those the controller has written since the driver
last passed carry its cycle state, the others carry the opposite one, and the two sides
differ in their state exactly while one has wrapped and the other has not. It rests on
the controller never passing the dequeue register.

**MallocProofs**: `AlwaysTiled`, after any sequence of calls a walk from header to header
reaches the end of the memory and misses no block. A chain of headers cannot be followed
without induction, so `Tiled` is put locally: behind the block of a header is a header or
the end, and no header lies between. `Take` splits such a link in two (`TakeTiles`).
`Consolidate` joins links (`ConsolidateTiles`): behind every header there is a first one that
stays, or the end (`NextStays`), and every header has one in front of it (`Before`).
`MallocInv` adds what `HeapIsTiled` does not say: that headers lie in their memory and, until
`init_dma_memory()`, at most one lies in the DMA memory.

**MallocProofs**, the blocks: `NothingLostHolds`, `AllocatorImplemented` and `MallocTypes`, all
from one invariant, `OwnInv`, which TLC checked before it was proved. `NothingLost` is not
inductive: a region is only given up with its last block if the marks in it are those of the
blocks that callers have. `Owned` partitions the blocks in use among callers, regions,
descriptors and the allocator; `Placed` says that each is large enough for its use, so that two
blocks in use cannot share a word (`RoomsApart`, `Homes`); `SmallInv` says that each block in a
region has a run of elements, 2 up to its last, which is 1, that the runs do not overlap and
that nothing else is marked, so that `Release` finds the end of the right run and
`r.free = size / alignment` holds exactly after the last block; `ListOf` that an address is in
at most one region of a list, so that the first one `free()` finds is the right one. Each
change of the accounts is a lemma of its own (`OwnGrowPlain`, `OwnNewRegion`, `OwnPutBlock`,
`OwnTakeBlock`, `OwnDropRegion`, ...), for any headers and regions, and a call is a few of them
in a row. The refinement needs of the assumptions that every alignment below `LargeRequest`
divides it, as powers of 2 do: else the elements of a region would not fill it.

**Only model-checked**: liveness, `Settles` and `CallReturns`, because rules about fairness need
`ENABLED`, which is beyond the prover. Of `CallReturns` everything but the use of fairness is
proved. `Settles` has no such measure: an offer may expire and a packet be lost any number of
times, so that it rests on strong fairness rather than on steps that count.

## 7. What is not modelled

- **vboot**, the library, is outside the repository. It is any sequence of answers
  and callbacks.
- **Time**: a timeout is a nondeterministic step.
- **Memory contents** other than what the wipe clears, the payload, the blobs and the
  database: the overwrites of `load_payload_and_run()`, buffers, decompression, the ELF
  and FIT loaders, device trees and command lines.
- **Reset and power off that return**: an operation that fails halts, as the callers
  do. UEFI's reset service, which could return, is not modelled.
- **uIP** other than its UDP table: a packet that waits for ARP is a packet that is
  lost and sent again.
- **`realloc()`**: nothing in the repository calls it.
- **The USB device controller**: nothing calls `chipidea_init()`.
- **MMC** with PIO, and hosts other than SDHCI; the steps by which a card is set up.
- **A database with a damaged header**: it is written by one image and read by the next.
- **The EC callbacks that only show or ask** (`VbExEcVbootDone()`, hashes, images).
- The components of the plan that are to do, and those of section 1 without logic.
