# Verification of OffLineProgrammer

TLA+ models of the offline flash programmer (CH32V208, RT-Thread 5, one core),
their TLC runs and their TLAPS proofs. Paths are relative to
`src/OffLinkProgram/` unless they start with `src/`.

## 1. The system

The programmer is a USB stick and an SWD master in one. A PC copies a flash
algorithm (`.FLM`, an ELF file) and a firmware image onto its 16 MB NOR flash
through USB mass storage; later, without a PC, the main thread reads the
algorithm from the FAT file system, downloads it into the RAM of the target
over SWD, and calls its Init / Erase / Program functions page by page.

| Component | State | Operations | Talks to |
|---|---|---|---|
| USB disk: `devices/usbdev/Udisk.c`, `Application/UsbApp.c`, `UdiskApp.c`, `usb_endp.c` | transfer flags, saved tag, length, LBA, pack counter, CSW status, sector buffer; message queue `usb`; receive buffer | `UDISK_Out_EP_Deal`, `UDISK_In_EP_Deal`, the thread loop, the EP4/EP5 callbacks | USB controller (interrupts, endpoint registers), NOR flash |
| USB core: `drivers/USBLIB` | control transfer state of EP0, endpoint registers | `CTR_LP`, `Standard_*`, `USBD_Reset`, status macros | controller, USB disk |
| NOR flash: `devices/storage/25qxx.c` | none but the chip's | erase sector, page program, read, write with page splitting, busy wait | SPI driver |
| SPI and DMA: `drivers/drv_spi.c`, `drv_dma.c` | chip select, DMA channels, completion objects | `drv_spi_read/write`, transfer-complete interrupts | RT-Thread `completion.c` |
| SWD host: `pack/SWD/swd_host.c` | `dap_state` (cached SELECT and CSW), retry limits | DP/AP/memory/core-register access, system call on the target, reset state machine | `SW_DP.c`, the target |
| SWD link: `pack/DAP/SW_DP.c` | port configuration | `SWD_Transfer`, `SWJ_Sequence` | GPIO pins |
| Target flash: `pack/SWD/target_flash.c` | the loaded algorithm | init, erase chip, erase sector, program page, uninit | SWD host |
| Flash algorithm parser: `pack/flashalgo/flashalgo.c` | `program_target_t`, sector table | read ELF headers, sections, symbols | FatFs |
| Offline download: `Application/FlashalgoApp.c` | file position, target address | init, erase, copy the file page by page | FatFs, target flash |
| FAT port: `pack/Fatfs/source/diskio.c`, `Application/FatfsApp.c` | mounted volume | disk_read / disk_write / ioctl | NOR flash |
| CMSIS-DAP: `pack/DAP/DAP.c`, `DAP_queue.c` | packet ring | queue get/put, command processing | nothing yet (not wired to USB) |
| UART, GPIO, main | buffers, pin interrupt table | | |

### What is hard about it

* **Interrupts against the USB thread.** The endpoint callbacks share the
  receive buffer with the thread without a lock, ignore a full queue, and are
  dispatched in endpoint order; the thread writes endpoint registers whose
  toggle bits the controller changes at the same time.
* **The bulk-only protocol.** Flags and the saved tag live across packets;
  failing commands, stalls, cleared halts and bus resets leave parts of them
  behind.
* **Two threads on one SPI bus.** The main thread (FatFs) and the USB thread
  (mass storage) drive the same chip, chip select, DMA channels and completion
  object without a mutex; only the link order of two init functions keeps them
  apart.
* **A cache of remote state.** `dap_state` mirrors SELECT and CSW of a target
  whose writes may fail; retries continue with whatever the cache says.
* **Programming a target.** A page sequence of remote calls, each of which
  can fail or hang; errors of file reads are ignored; page sizes of the
  algorithm and of the copy loop need not agree.

The places where this bites are listed, with their lines and the properties
that cover them, under `hazards` in `PROJECT.json`.

### What makes each part correct

| Component | Properties |
|---|---|
| USB disk | what the host sees is a block device; every command is answered; no packet, message or status is lost or overwritten; after an abort only sectors of the write in progress, or of the one before it, have changed, and the thread is back at its queue; arming an idle endpoint ends |
| SWD host | the cache never lies about the target; success means every byte arrived or was read; no other byte changes |
| Offline download | success means a programmed file; nothing is programmed twice or beyond the file's last chunk; the target's RAM is not touched while its core runs; the core never runs with registers of two calls; the download ends |
| NOR flash | a write lands exactly on its range; a power failure hurts nothing else (both for erased ranges) |
| SPI and DMA | a thread that wakes has the whole answer; the chip sees whole commands under one chip select; two threads never wait at once; every command ends |
| Flash algorithm parser | a well-formed file of any order gives the right entries, page size and blob; a blob that reaches the page buffer is never a success with a wrong flash (see `Sound`) |
| Endpoint 0 | reads return the bytes asked for; supported requests are served; host and device agree; every request ends |
| CMSIS-DAP queue | a ring: responses come out once, in order, free + sent = size (not modelled) |

## 2. Plan

Done, in this order: `UsbDisk` with `BlockDevice`, `SwdHost`, `FlashProg`,
`NorFlash`; then `Download` and its refinement, the parser `FlashAlgo` and
`FlashalgoApp`, which composes it with the download; `SpiDma` under the
commands of `NorFlash`; `UsbControl` for endpoint 0; and proofs about all of
them, the refinements of `Download` and of `BlockDevice` among them. What is
left, the most important first:

1. **`FlashConfined` with a reset**: it is proved without resets only (there for
   the command in progress alone). With one it needs an invariant about the leftovers of the command that was cut off
   (flags, a message in the queue, a packet armed again) in place of
   `Handshake`, whose tokens a reset breaks.
2. **Suspend and resume** of the USB device (`usb_pwr.c`, the ESOF workaround of
   `usb_istr.c`) as actions of `UsbControl`.
3. **The SWD wire** (`SW_DP.c`): the bits, the parity and the turnarounds of one
   transfer, which `SwdHost` takes for acknowledged, refused or garbled.
4. **The CMSIS-DAP queue**, once something in the application uses it.

## 3. The modules and the code

Modules that begin with `MC` only give constants their values. Definitions keep
the source's names; `map` in `PROJECT.json` names the lines of each.

### UsbDisk and BlockDevice

`dev` is what the USB thread owns: the statics of `Udisk.c` (the three transfer
flags, the saved tag, status, remaining length, sector and pack counters, the
opcode, the sector buffer), the flash, and endpoint EP4. `ep5`, `ctr`, `rxBuff`,
`mq` are the OUT endpoint, the pending transfer interrupts, the receive buffer
and the queue; `pc` and `msg` where the thread is; `host` the other end of the
bulk-only protocol.

A handler (`UDISK_In_EP_Deal`, `UDISK_Out_EP_Deal`) is one step: it is the
thread's own, and the interrupts touch nothing it uses but the endpoint. The
fetch from the queue, the handler and the re-arming of EP5 are separate steps,
and interrupts and the host move between any two of them. `EpRace` says whether
they may move inside a status macro, too. If so, a handler stops before its
macro, and the macro is three steps: `StatusRead` works out the toggle word from
the status it finds (`dev.macro`), `StatusStore` writes it, and `StatusCheck`
goes back to the store, with that same word, until the status is the one asked
for. The status of an endpoint is two bits that a write toggles (`Bits`,
`Toggle`). If not, a macro sets the status and is part of its handler: the loops
are a few instructions long, and `usb_transfer` and `usb_recover` ask what holds
when nothing falls into them. A bus reset may happen at any moment (`MaxResets`
times). Lengths count packs of 64 bytes; the sense bytes and the
branches for a medium that is not enabled (unreachable after `Udisk_Init`) are
left out.

`BlockDevice` is the abstract specification: one command at a time; reads
deliver packs in order; writes erase, then program, whole sectors, with what the
host sent; success comes after the last sector. `UsbDisk!BD` is the refinement
mapping.

### SwdHost

`dap_state` is the cache of the code; `port` the target's debug port and MEM-AP
(SELECT, CSW, TAR, the read buffer, the sticky error, memory). A call is its
list of SWD transfers, `script`, one step each; a transfer not acknowledged ends
the call with 0, as each early return does. `NextPiece` is one iteration of the
loops of `swd_read_memory` and `swd_write_memory`. The MEM-AP wraps its address
every `TargetPage` bytes, which is why blocks are cut.

A transfer may be *dropped* (acknowledged and not performed: parity, or a bus
fault; the target then answers FAULT until ABORT), *refused* (not performed, not
acknowledged), or *unheard* (performed, its acknowledge garbled).

### FlashAlgo, FlashProg, FlashalgoApp and Download

`FlashAlgo` is the parser. A step is one call of `ReadDataFromFile` and what is
done with what was read; no caller looks at its result, so after a failed read
the parser goes on with its old buffer, and `flm.good` remembers that for the
properties only. A file is its program headers, its section headers and the
strings and symbols in the sections; offsets in a string table count its
strings. The comparison of names is the code's: the length, then the first four
characters (`Name`).

`FlashProg` is `FLASH_SWD` and everything below it. One step is one access of
`swd_host.c` (a word, a core register, a block); `access.step` names the next
one, and `Succ(download.at)` the one after it, by the operation of `FLASH_SWD`
in progress. `target` is the core, its debug registers, its RAM (is the
algorithm loaded, the page buffer) and its flash. `Fail` collects what the code
does when an access returns 0: nearly everything returns 0 too, but enabling
debug is tried again after a reset, the result of the resetting write is
ignored, and a failed `target_flash_init` is followed by `target_flash_uninit`.
`Call` is the algorithm on the target; it has no fairness and may never come
back, or come back after the programmer has given it up. A register set that
mixes two calls, or an algorithm that is not `Sound` (an entry is wrong, the
blob was not read or reaches the page buffer at 400, or pages do not fill the
chunk), may do anything to the flash.

`FlashalgoApp` is `FlashalgoApp_Init`: the parser, then the download with what
it left in `flash_algo`; the result of the parser is not looked at.
`Download` is the abstract specification: the device is erased once, filled from
its first unit upwards, no unit twice, and success comes only when all of the
file is there. `FlashProg!ImplementsDownload` states the refinement; an
operation that was given up may still take effect later, in its turn.

### NorFlash

One step is one command to the chip; power may fail between two. The chip is a
function on addresses whose values say where a byte comes from (`Old`, `New`,
erased, `Junk` for bytes programmed over bytes). `Overwrite` is the full-duplex
transfer: what is sent is replaced by what is received, in `dev.buff` or in the
caller's buffer.

### SpiDma

The two threads run the commands of `25qxx.c` as a chip select around one or two
transfers. `thread[t].pc` walks `drv_spi_read`/`drv_spi_write` and
`DMA1_Channel_Write`: configure both channels, clear the flags of the
completion, enable the channels, wait. `ch`, `spi` and `chip` are the hardware,
which moves one byte at a time between any two steps; `IRQHandler` is the
interrupt of a channel, which completes when `IrqCh` has reached `UserCh`.
`completion` is `rt_completion`. Its assertion that no second thread waits
(`completion.c:69`) is not compiled in, for `rtconfig.h` has no `RT_DEBUG`: a
second thread would simply be suspended, and the end of a transfer would resume
one of the two. `OneWaiter` states what the assertion says. One core: the USB thread runs only while the main thread cannot, and it exists only
once `UsbApp_Init`, the last of the init functions, has started it.

### UsbControl

`dev` is the state machine of `usb_core.c` with the callbacks of `usb_prop.c`,
`ep0` the endpoint of the controller, `isr` the interrupt handler, `host` the
other end. The interrupt is two steps: `Enter` samples `wIstr` and masks the
endpoint, `Process` runs a whole handler (`Setup0_Process`, `In0_Process`,
`Out0_Process`) as a function of `dev`; the bus moves between them. A read of no
more than one packet leaves `wOffset` alone, and `Stalled` clears `copy` and
`in`, which are written before they are read again. What the host knows of the
device is a set of values for each part, for a request that was given up may or
may not have taken effect.

## 4. The runs

| Run | Shows | Bounds, and why they are enough |
|---|---|---|
| `usb_transfer` | the disk refines `BlockDevice`, owns both packet buffers, loses no message and answers every well-formed command, under every interleaving of handlers, interrupts and host; `Serving`, the invariant behind the refinement | 2 sectors of 2 packs, commands of one and two sectors: the pack counter wraps, the sector advances, first and last pack differ; failing, short and starving commands among them; 3 tags tell the current, the previous and an older command apart; a queue of 2 (10 in the code) is enough, see section 6 |
| `usb_recover` | whatever is cut off by a reset, the flash changes only in sectors of the write in progress or of the one before it, and the thread gets back to its queue | one reset at any point; 3 sectors of 3 packs, of which no command writes the third; reads and writes of one and two sectors, replies of several packets, a command that fails; the queue of 10 of the code, for a reset breaks the argument that two are enough. With two resets `FlashConfined` does not hold, and with the race `ThreadReturns` does not: section 5 |
| `usb_race` | a status macro that is to arm an endpoint which is idle when it reads it ends, though its word stays the same on every pass | host and interrupts move between any two accesses to the register, any number of times; reads, writes, a reply and a command that fails, in 3 sectors of 3 packs, reach every macro but that of the receive stall; no resets, for section 5 says what they do to the loops |
| `usb_control` | enumeration and class requests: data, support, agreement, an end | 19 requests: descriptors shorter than a packet, longer, and of a whole packet (which takes the packet of length zero, a parameter and not a descriptor of the device), the string behind the last one, all recipients; one transfer given up or one reset at any point |
| `usb_rx_stall`, `usb_stale_status` | findings | |
| `swd_memory` | cache coherence; success means all bytes; nothing else touched | 16 bytes, pages of 8: ranges that start and end off a word, cross a page, are empty; 2 faults anywhere, so also a fault in the recovery from one, and calls after failed calls |
| `swd_stale_csw` | finding | one refused transfer |
| `flash_download` | from the parser to the reset of the target: files parsed right, success means programmed, order of RAM and core, the refinement of `Download`, the end | chunks of 2 units, pages of 1 and 2, 6 units of flash, files from empty to all of it, whole and broken chunks; six `.FLM` files (shuffled, no device, a name that collides, a blob that ends at the page buffer and one byte beyond, not ELF); one failed read in the parser and two faults in the download, the recovery and `target_flash_uninit` included |
| `nor_write` | writes land; power failures confined | 3 sectors of 2 pages, ranges inside and over pages and sectors |
| `nor_rewrite` | finding | |
| `spi_bus` | whole commands, whole answers, one waiter, an end | commands of one and two transfers of 1 to 3 bytes, two for each init function: a channel ends first, last, and with the other |

`CHECK_DEADLOCK FALSE` is set where the system really stops: a host that has
been sent the wrong packet gives up, a stuck thread stays stuck, a host that
starves the device without a reset waits for ever, and in `spi_bus` the threads
end with their commands. Everywhere else deadlock is checked.

**Fairness.** USB: the thread runs whenever it is ready, because the only thread
above it is main, which ends in a sleep loop; interrupts are served; a host that
has started a command keeps polling for its end. It need not start a command nor
reset. Endpoint 0: interrupts are served, and a host polls the transfer it has
begun or gives it up. SPI: a thread that is ready and not preempted runs,
interrupts are served, the bus moves; nobody has to begin a command. Download:
the main thread runs; faults are not owed to it, and the core of the target owes
nothing.

**Assumptions that are not the code's.** The download promises nothing with a
flash algorithm that is not `Sound`; among other things the page must divide the
chunk (the code copes with others only if their last, partial page is not
programmed over: `target_flash.c:54`). A file of whole chunks is followed by one
chunk of stale data, which is programmed if the flash has room: `Bounded` states
how far that goes. `ParsedRight` is about files that are `WellFormed` (one code
segment, each name once and told apart by length and first four characters).
`FilesAssumption`: the link of a symbol table names a section of the file, which
the code does not check. `FlashProg` leaves the refused write of CSW, after which
accesses have the wrong size, to `SwdHost`. In `UsbControl` the host sends a
class request only to a device it has configured, after it has read something
(`PacketSize` is not set before), begins a transfer when no interrupt is pending,
and `Agree` is asked only then. Its requests are `WellFormed`: a request
announces data when it has a data stage, and only then (the device goes by
`wLength` alone). Packets are of 8 bytes or more, as USB demands, so that a line
coding fits in one. `NamesAssumption` keeps the model's names for descriptors
and requests apart.

## 5. Findings

| Run | Code | What happens |
|---|---|---|
| `usb_rx_stall` | `UdiskApp.c:69` | stalling the OUT endpoint asks the transmit bits for a receive status: the loop of the macro never ends |
| `usb_stale_status` | `Udisk.c:346` | MODE SENSE is answered with the status of an earlier, failed command |
| `swd_stale_csw` | `swd_host.c:221` | a refused write of CSW stays in the cache: the next block is written with byte accesses, and reported as success |
| `nor_rewrite` | `25qxx.c:223` | a sector number is passed as a byte address: the first sector is erased instead of the one written |

The last is on the path of `disk_write`: the application opens files for reading
only, so nothing in this version takes it.

Seen while modelling, without a run of its own:

* The status macros (`usb_regs.h:240`) write one toggle word until the status is
  the one asked for, while the controller toggles the same bits. If the host has
  taken the packet before the check, the second pass arms EP4 again with the same
  buffer, and the host receives the pack twice. Its second interrupt sends a
  second message, for which the thread arms EP4 while it is armed already: the
  word then toggles nothing, and once the host has taken that packet the loop
  never ends. So with `EpRace = TRUE` a read is enough to violate
  `ThreadReturns`, without a reset. With one there is a shorter way: the reset
  arms EP5 while the thread is about to (`UsbApp.c:45`), and a packet comes in
  before the check.
* Two bus resets can make the disk erase the sector after the one written. A
  reset leaves the flags of `Udisk.c`; the up flag of a read that the first one
  cuts off is still set during the next write, where `UDISK_Bulk_UpData` sets
  the length to zero before the last pack, which makes it wrap (`Udisk.c:562`).
  No status follows, the down flag stays, and after the second reset the next
  wrapper is taken for data (`usb_recover` with `MaxResets = 2` shows
  `FlashConfined` violated).
* One reset can make a write be answered too early: the message of a packet that
  the host took before the reset is handled during the next write, and sends its
  status before the last pack is stored. That is why `FlashConfined` allows for
  the write before the one in progress.
* One reset in a write leaves the down flag, and the next wrapper is stored as a
  pack of the sector that was cut off: within the sectors `FlashConfined` allows,
  and erased already.

Further: a page program overwrites the caller's buffer with what the
chip shifts out (`drv_spi_write` is full duplex; `Overwrite` in `NorFlash`); GET_MAX_LUN of
interface 2, which is the mass storage interface, and a string index above 4
send the bytes at address 0 (`usb_prop.c:302`, `usb_prop.c:380`), and string
index 4 reads behind the four entries of `String_Descriptor` (`string4` in
`UsbControl`); every class
request without data that `USBD_NoData_Setup` does not know is a success;
GET_INTERFACE refuses interface 2.

## 6. The proofs

All theorems hold for every value of the constants that satisfies the named
assumptions of the modules, and are checked by TLAPS without gaps.

* `UsbDiskProofs!TypeCorrect`: type correctness, for any number of resets,
  whether or not something moves inside the status macros. One lemma for each handler function says it keeps
  `DevType`.
* `UsbDiskProofs!HandshakeCorrect`: neither `RxOwnership` nor `NoMessageLost` nor
  `NoTxOverwrite` is inductive: each depends on who may act next. `Handshake`
  says it. There is one token in each direction (`OneInToken`, `OneOutToken`):
  an armed endpoint, its interrupt, its message or the thread handling it. A new
  wrapper finds a quiet device and all earlier upload messages ahead of it
  (`WrapperFirst`, which rests on CTR_LP serving EP4 before EP5), and flags and
  tags agree with the phase of the host (`PhasesAgree`). It needs `MaxResets =
  0` and `EpRace = FALSE`: a reset breaks the tokens, and the race duplicates
  one. The three properties follow from it, `NoMessageLost` for every queue of
  two or more messages: the ten of the code are more than enough.
* `UsbDiskProofs!ServingCorrect` and `BlockDeviceCorrect`: `UsbDisk` implements
  `BlockDevice` step by step, for every geometry, content and set of commands.
  Beyond `Handshake` it takes `Serving`, which says at every point of a command
  what is where. `Started`: nothing has been sent or received before the device
  has seen the wrapper. `SameCommand`: then it works on the command of the host.
  `Loading`: in a write, the packs taken and the one on its way are the packs
  sent, the buffer holds those of the sector in progress, and that sector is
  erased. `Reader`: in a read, the host has received what was uploaded but for
  the pack in EP4, which is the next of the sectors asked for. Each action has a
  lemma that it keeps `Serving` and is a step of `BlockDevice` or none; the
  arithmetic of packs and sectors is in `Division`, `SectorsDone` and
  `NextPlaceCounts`. No resets and no race, as for `Handshake`, and `Asks`: the
  host announces the data that its commands take (a READ10 that announces a
  download stores it, one that announces another length ends early or late) and
  stays on the disk (sector numbers wrap beyond it). Under the same hypotheses a
  step changes only sectors of the write command in progress, hence
  `FlashConfined`.
* `SwdHostProofs`: `CacheCoherent`, `TypeOK`, `WriteLands`, `ReadTrue` and
  `Confined`, for every memory, page, wrap of the MEM-AP, set of ranges and
  number of faults, provided that no transfer is *refused* (with a refusal the
  cache is wrong and a write lands elsewhere: `swd_stale_csw`). The invariant
  `CacheInv` adds that the sticky error is cleared only by a call that has
  forgotten the cache first: `ScriptType` tracks the part of the script of
  `swd_init_debug` that is still to come. `MemInv` says where a call is. A piece
  is *m* accesses of *w* bytes from address *a* on (`Piece`), and all four kinds
  of piece (byte or block, write or read) are one family of scripts, `Body`.
  `Setting` is a piece before TAR is written, `Moving` one after *j* accesses:
  then the memory is that of a write up to access *j* (`Upto`), TAR is at access
  *j*, and a read has stored all but the last access (`Taken`), which is still
  in the read buffer; or the sticky error is set and the call is bound to fail.
  `Done` holds between two pieces. The arithmetic is in `BlockFits` (a block
  ends with its page, hence within the page of the MEM-AP, of which the
  auto-increment page is a divisor) and `BumpInPage` (TAR then does not wrap).
* `NorFlashProofs`: `TypeOK`, `WriteLands` and `Confined` for every page, sector
  and chip size and every range; the last two speak of writes to ranges that are
  erased (`Blank`), for with others `nor_rewrite` shows what happens. `Loops` says where the two loops are (what is
  written next ends with the page, the sector or the range) and `Reached` that
  below the loop variable everything is written, and above it nothing. Behind
  them are a few lemmas on quotients, for pages divide sectors.
* `SpiDmaProofs`: `Exclusive` (one thread at a time, because the USB thread is
  started by the last init function) and `Bus`, which says for the thread on the
  bus how far registers, channels, buffer, flags and the bytes the chip has seen
  are with each other. `OneWaiter`, `AnswersWhole` and `FramesWhole` follow.
* `FlashProgProofs`: four parts make the invariant: `Control` (which access
  belongs to which operation, and what the core does meanwhile), `Calls` (which
  registers hold the call that is due), `Chunk` (what part of the file is in the
  buffer) and `Media` (how far the flash is). `TypeOK`, `Programmed`, `Bounded`,
  `RightCall` and `QuietRam` follow, for every chunk, flash and file size, every
  algorithm and any number of faults.
* `FlashDownloadProofs!DownloadImplemented`: `FlashProg` implements `Download`
  step by step. It adds `Data` (buffers hold units of the file or of the heap)
  and `Order`: a call that runs on the target, also one that was given up, is the
  next thing to be done to the flash.
* `FlashalgoAppProofs`: the parser leaves a `program_target_t` whatever it reads
  (`ParserInv`), so safety and refinement hold of `FlashalgoApp_Init` as a whole.
  `ParserCorrect` proves `ParsedRight` for files of any size from the loop
  invariant `RightAt`, which says for each place in the parser what it has taken
  so far: `Looked` for the program headers before the current one, `Table` once
  a symbol table is found, `Upto` for the functions whose string and symbol come
  before the current pair. The scan of the strings goes to the least hit, whose
  existence (`Least`) comes from the well-foundedness of `<`.
* `UsbControlProofs`: `TypeOK`, `DataTrue`, `Served` and `Agree`, for every set
  of descriptors and requests, every packet size and any number of resets and
  transfers given up. None is inductive. `ResetsServed` says what a reset that
  the interrupt has not served yet may leave pending; `Current` which request
  the device works on (the packet in the endpoint or the one before) and what
  outlives a request, the packet size among it; `Knowing` that every part of the
  device is one of the values the host reckons with, while the address lags
  behind from the status of SET_ADDRESS to its interrupt; `Progress` how far the
  request is on both sides: in a read, the bytes received, those in the endpoint
  and `wLength` add up, and `Data_Mul_MaxPacketSize` is set where a packet of
  length zero must follow (`Amounts`).

Only model-checked: liveness (`EveryCommandAnswered`, `ThreadReturns`,
`ArmingEnds`, `Terminates`, `CommandEnds`, `Answered`), because liveness, ENABLED
and induction over data are beyond the prover; and `FlashConfined` with a reset, which has no
inductive invariant yet (section 2).

## 7. Not modelled

The status of every part, and why, is under `components` in `PROJECT.json`.

* **Third-party code** (RT-Thread, FatFs, the CH32 peripheral library, the C
  headers of ELF and the controller) is most of the lines of the repository. It
  appears as the application uses it: the message queue, the completion object,
  the files, the registers.
* **CMSIS-DAP** (`DAP.c`, `DAP_queue.c`) is compiled but called by nothing.
* **The SWD wire** (`SW_DP.c`): a transfer is its effect and its acknowledge.
* **Power**: suspend and resume, the ESOF workaround, remote wakeup.
* **CDC endpoints 1 to 3**, UART, GPIO, logging and the demo are input and output
  without state worth checking.
* Functions that nothing calls: `swd_read_ap`, `swd_set_target_state_sw`,
  `target_flash_erase_sector`, the polled transfers of `drv_spi.c`.
