# A verification development for pico-bootrom-crashdump

The program is a boot ROM image for the RP2040. It is the USB part of the
chip's boot ROM (mass storage, PICOBOOT, flash programming), built as a user
program: started after a crash, it appears as a USB disk whose file
`CRASHDMP.XXD` shows the SRAM as a hex dump. This directory holds TLA+ models of
it, TLC configurations that check them, and TLAPS proofs about all of its modelled
parts: the endpoints, the control pipe, streams, mass storage, PICOBOOT, the
tasks, the flash, the virtual disk and the ROM routines. Every safety property that a
run checks is also proved, for all values of the constants.

1. [The system](#1-the-system): components, state, interaction, hard behaviours
2. [The modules](#2-the-modules): which module models which code, and how
3. [The runs](#3-the-runs): what each one shows, its bounds, its fairness
4. [The proofs](#4-the-proofs)
5. [What the models say about the code](#5-what-the-models-say-about-the-code)
6. [What is not modelled](#6-what-is-not-modelled)
7. [Plan](#7-plan)

Paths are relative to the repository (`src/` in PROJECT.json). The build that is
modelled defines `NDEBUG`, `USE_PICOBOOT` and `COMPRESS_TEXT` and has five
endpoints: the control pair (single buffered), `msc_in`, `msc_out`,
`picoboot_out`, `picoboot_in` (double buffered). With `NDEBUG` an `assert` does
nothing, so the assertions of the source are taken as claims about it.

## 1. The system

Two threads of control share the memory of one core: the USB interrupt, which
runs every USB handler, and the worker loop, which runs one queued task at a
time. The other actors are the USB controller, the SSI (flash) controller, the
flash chip, the watchdog and the USB host.

| component | code | state | operations |
|---|---|---|---|
| endpoint engine | `usb_device_tiny/usb_device.c` | per endpoint: current and chained transfer, packet counters, owned buffers, take/give index, toggle, halt level, deferral flag | start, chain, give and handle a buffer, packet done, halt, clear halt, class reset, configure |
| control pipe | the same, SETUP and `isr_usbctrl` | endpoint 0 pair, completion callback, pending and current address, configuration | SETUP, completions, bus reset, bus errors |
| stream transfers | `usb_device_tiny/usb_stream_helper.c` | offset in the chunk, packets and length left | fill or drain a packet, chunk done |
| mass storage | `usb_device_tiny/usb_msc.c` | CSW (tag, residue, status), sense data, unstall callback, eject flag | CBW, data phase, CSW, MSC_RESET |
| virtual disk | `bootrom/virtual_disk.c` | none for reading; for writing, the progress through a UF2 file | read a sector, accept a UF2 block |
| PICOBOOT | `bootrom/usb_boot_device.c` | command status, stream transfer, command task, static `_buffer` | command, chunk callback, task callbacks, acknowledge, interface reset |
| worker | `bootrom/async_task.c` | two one-slot queues, disable flag, mutation source | queue, dequeue, execute, call back, reset queue |
| flash | `bootrom/program_flash_generic.c` | the SSI FIFOs, loop counters, abort by pad override | exit XIP, erase, program, read, enter XIP |
| boot | `bootrom/bootrom_main.c`, `usb_device_tiny/runtime.c` | clocks, watchdog scratch registers | start, watchdog reboot |
| ROM routines | `bootrom/bit_functions.S`, `bootrom_misc.S`, `mufplib*.S` | none | memory, bit, CRC, decompression, floating point |
| generator | `generator/main.c` | none | compress the text of the volume's files |

How they interact. `isr_usbctrl` handles the causes of one interrupt in a fixed
order: SETUP, then the completed buffers, then a bus reset or an error, which it
takes for an unplugging. A completion calls the
transfer's `on_packet`, and at the end of the transfer its `on_complete`, which
starts or chains the next one. Mass storage and PICOBOOT are drivers of that
kind; their data phases are streams, and each chunk of a PICOBOOT stream becomes
a task for the worker. The worker copies the task from its slot, executes it
with interrupts enabled, and calls the task's callback with them disabled; the
callback finishes the packet that was left outstanding. Control requests
(CLEAR_FEATURE, class resets, SET_CONFIGURATION) change endpoints underneath a
running transfer, and `_picoboot_reset` also empties the queues and aborts the
flash.

What is hard to test here, and what has to hold nevertheless (PROJECT.json lists
the hazards with their lines):

- **Endpoint engine.** Indices and counters advance in three places (interrupt,
  driver, controller). Every buffer is in one place, packets keep their order,
  host and device agree on the data toggle after any series of halts and
  resets, a halt ends only by a reset, and nothing waits for ever.
- **Control pipe.** Several causes may be pending in one interrupt. The address
  changes after the status stage and not before, host and device agree, an
  abandoned request leaves nothing behind for the next one, and an error on the
  bus leaves nothing that a bus reset does not repair.
- **Streams.** Four counts of the same bytes (offset, packets left, chunk length,
  packet length) advance in different places, some of them later. No byte is
  lost, repeated or left over from another chunk.
- **PICOBOOT and worker.** Resets race with a task in execution. One static
  buffer serves both directions, the queue has one slot. A command is
  acknowledged only after its work, with its own data, and ends.
- **Mass storage.** Host and device may disagree on length and direction. The
  status block is the right one and neither side mistakes one phase for another.
  PICOBOOT may take the disk away at any moment, a UF2 page may reset the chip.
- **Virtual disk.** The volume is computed from hand-counted offsets. A file
  system must find in it the whole memory, in order, and nothing else.
- **Flash.** The transfer loop may be interrupted anywhere. No FIFO overflows,
  no answer is taken for another's, an abort ends every task.
- **ROM routines, generator.** Alignment, zero, and a decoder without bounds.

## 2. The modules

`map` in PROJECT.json gives the lines behind each definition. Operators named
`Faulty...` (and `ClearHaltAlways`) are variants with a plausible fault; the
specifications do not use them.

### `UsbEndpointOps`, `UsbEndpoint`, `UsbEndpointProps`, `PacketPipe`

`UsbEndpointOps` holds the functions of the engine as operators from endpoint
records to endpoint records, one for each C function: `GiveBuffer`
(`_usb_give_buffer`), `HandleTransfer`, `HandleBuffer`, `PacketDone`,
`StartTransfer`, `Halt`, `ResetBuffers`, `SoftReset`, `HardReset`. The fields
follow `struct usb_endpoint`; those of the controller are `avail` (buffers with
AVAILABLE set), `sel` (which one it uses next), `bpid` (the toggle in each
buffer control word) and `done` (`buf_status`, in the order of completion). A
packet's payload is its sequence number modulo `SeqMod`.

`UsbEndpoint` makes actions of them. Handlers run with the interrupt taken or
disabled, so each is one step: `Start`, `Isr` (a completion), `Finishes`
(`usb_packet_done` by a driver that kept its packet), `Transact` (controller
and host move one packet), and the control requests. `Directions` and
`Bufferings` are the kinds of endpoint there are: the initial state chooses one.
`Async` says that a driver may finish a packet later, `HasDefault` that an OUT
endpoint has a default transfer. Two more mark what drivers and hosts of this
program do not do, or do in one place only:

- `Racy`: a control request may overtake an unhandled completion.
- `HaltsBusy`: a driver halts on condition in mid-transfer.

`PacketPipe` is the abstract specification: a bounded FIFO whose packets reach
the other side in order, each once, and which only a halt or a reset may empty.
`UsbEndpointProps!Pipe` instantiates it under a refinement mapping: the queue is
what completed buffers, the deferral flag and the buffers given hold.

### `UsbControl`, `UsbControlProofs`

Extends `UsbEndpointOps` with the pair of endpoints 0, the completion callback
of `_control_in_transfer`, `pending_address`, the current address and
configuration, the pending interrupt causes, and a host that runs one control
transfer at a time, may give up at any point, and may reset the bus. `Isr` is
`isr_usbctrl`, causes in their order (`AfterIsr`). `Dispatch` sends a SETUP on to
the device, an interface or an endpoint. Of the bulk endpoints there is one, seen
by its halt alone (`UsbEndpoint` has the rest of it).

An error on the bus (`BusError`) may come at any time. The code takes it for an
unplugging and forgets its address and its configuration (`Resets`); the host knows
nothing of that until its requests go unanswered and it resets the bus. The
history variable `host.lost` marks that time. Errors in the data sequence are
ignored by the code, and left out.

Left out as well are the content of descriptors, the requests that address
endpoint 0 itself, and a SETUP that arrives while `isr_usbctrl` runs.

### `Stream`, `ByteStream`, `StreamProofs`

`usb_stream_helper.c` byte by byte: `Setup`, the packet handler in both directions
(`OnPacketIn`, `OnPacketOut`), `ChunkDone` for a chunk that its driver answers
later, and `Abort` at any point. A byte is its position in the transfer, so
that a byte in the wrong place shows. `ByteStream` is what a stream promises: the
driver, in chunks, and the host, in packets, see the same bytes, each once and in
order, and a chunk received is complete and padded with zeroes.

### `Picoboot`, `PicobootProofs`

The PICOBOOT handlers, the worker, and the host. `dev` is what the handlers and
the worker share, `worker` the worker's own copy of a task, with one action each
for `Dequeue`, `Execute` and `Complete`, so that handlers come between them. An
endpoint is seen as the transfer it runs; its buffers and toggles are those of
`UsbEndpoint`. One packet stands for one chunk, that is for one task. `buf`
records whose data the static `_buffer` holds. `fault` records the first
assertion of the transfer code that fails. `Impatient` lets the host reset the
interface while its command is being executed.

### `AsyncTask`, `AsyncTaskProofs`

What a task does: the checks of its addresses in word arithmetic (`Plus`), what
it then accesses, and the table of flash functions that VECTORIZE moves into the
SRAM (`flash_funcs`, `intact`). A command is cut into one task per chunk, with
the two computations of a chunk's length in the stream. `Picoboot` has the
protocol and only sees whether a task succeeds. The address map is a constant:
the run's has all regions of the real one in the same order, with pages of 4
bytes and sectors of 8.

### `Msc`, `MscProofs`

Command blocks (valid or not, their data phase described right or wrong), the
data phase in units of half a packet, the status block and the stall it may have
to wait for, sense data, ejection, MSC_RESET and SET_CONFIGURATION. `claim` is
what the host's description of the data phase is worth (`right`, `wrong`, or
neither).

A sector the host writes may be a block of a UF2 image (`Uf2Blocks`): garbage, or a
page for RAM or for flash, of an image with more or fewer blocks, numbered within
it or not.
`UpdateUf2` is `_update_current_uf2_info`; a page it accepts resets
the chip from inside the interrupt (`rebooting`). `Exclusive` is what a PICOBOOT
command does to this interface, at any moment: it takes the disk away, ejects it,
or gives it back.

### `VirtualDisk`, `ContentProofs`

The read side of the disk as a host sees it: `Open`, `ReadSector`, `Follow` (the
FAT), `CheckChain`. Geometry and layout are operators on the constants of the
build, a sector is what it shows, and everything the host does is computed from
the boot sector it reads. `SectorsPerCluster` is `1 << CLUSTER_SHIFT`: that it is a
power of two plays no part. What the layout takes for granted is in the
assumptions: whole sectors in the memory's dump (`WholeSectorsAssumption`), a root
directory of at least a sector (`RootSectorAssumption`), and a disk with room for
the dump (`DumpFitsAssumption`).

### `Flash`, `FlashProofs`

Every flash task the worker runs, as a sequence of SSI transfers, and
`flash_put_get` step by step: read the transmit level, read the receive level,
then put, skip, get. The controller may clock bytes between any two of these.
The flash is busy for any time; `flash_abort` may come at any moment. A byte is
its position in its command, and so is the answer to it.

### `Rom` with `Word32`, `BitFunctions`, `MemFunctions`, `TextCompression`, `DumpText`, `ContentProofs`

Pure routines as operators: a 32-bit word is the set of its one bits (`Word32`),
a memory routine the set of accesses it makes (`MemFunctions`), a line of the dump
the set of its writes (`DumpText`), a text a sequence of letters. `Rom` calls each
of them with inputs from its constants, so that a property of a routine is an
invariant of the call.

The compressor and its two decoders are the exception: they run step by step. A
text is on its way through the loop of `compress` (`Searched`, `Lettered`), the
check it makes with `decompress`, and the image's own decoder; an iteration of a
loop is a step, and a decoder copies a match byte by byte (`Item`, `Copied`). So
`TextRoundTrip` also speaks of what has been read and written in the middle.

## 3. The runs

| run | distinct states | bounds |
|---|---|---|
| `endpoint` | 31,194 | both directions, single and double buffers; transfers of up to 5 packets, sequence numbers mod 4, chunks of 2 |
| `control` | 240,464 | one address (and one out of range), data stages of one packet, one bulk endpoint |
| `stream` | 3,067 | packets of 4 bytes, chunks of 4, 8 and 16, transfers of 1 to 34 bytes |
| `disk`, `disk_chain` | 2,396 | none: the geometry of the build |
| `picoboot` | 264,721 | up to 3 chunks, 3 command ids, 2 tokens |
| `picoboot_stray` | until violated | the same, with an impatient host |
| `tasks`, `tasks_zero` | 128,512 | words mod 96, 51 addresses (every boundary, and around it), 20 lengths |
| `msc` | 29,164 | sectors of 2 packets, up to 2 of them, lengths up to 9 half packets |
| `flash` | 687,671 | 2 in flight, FIFOs of 4, pages of 3 bytes, up to 2 sectors, counters mod 5 |
| `rom` | 58,465 | see below |

Why the bounds are enough, and what they leave open:

- *Endpoint.* There are two buffers, one outstanding and one deferred packet, so
  at most two packets of a transfer are under way; five packets give a first, a
  last, both parities and two steady ones, and chains of two transfers. Four
  sequence numbers tell any two packets in flight apart from those before and
  after. The proofs of section 4 drop the bounds on length and chunk size.
- *Control.* Addresses matter only as zero, another and out of range. A change
  from one address to another needs a second one; the theorems of section 4
  cover every range.
- *Streams.* Chunks of one, two and four packets; the lengths end a transfer at
  every place of a packet, a chunk, and the chunk after it.
- *PICOBOOT.* Three chunks give a first, a middle and a last; ids wrap around
  after three, which is more than the two tasks (in slot, with worker) that may
  be alive; two tokens let the host reuse one or not.
- *Tasks.* Every region is longer than a page and starts on a sector, as the real
  ones do (`MapAssumption`, which is all the model relies on); lengths go up to
  three chunks with every remainder, and to those that wrap around.
- *Mass storage.* A sector has two packets where the real one has eight: first
  and last. Lengths run from zero past two sectors, by half packets, so that a
  length may end in the middle of a packet or of a sector, and exceed what the
  command needs or fall short of it.
- *Flash.* 2 in flight with FIFOs of 4 stand for 14 and 16; the difference, what
  the controller holds inside, is kept. A page is longer than what may be in
  flight. `SizeMod` makes a counter below zero large, as `size_t` is. The proof
  is for all values.
- *ROM.* Every alignment with every length from 0 to 37 (past two rounds of the
  widest loop); words of at most two ones or one run of ones, and their
  complements; CRCs of up to two bytes; texts of one to nine letters, of which
  nine fill the buffer, over two letters and one that cannot be compressed, with
  match and window limits lowered so that both bind; dumps at both
  ends of the memory, with every byte value in some column. The proofs of
  section 4 have every length, text, memory, word and message.

What each shows:

- `endpoint`: `EndpointInv` (types, ring order, each buffer in one place, packet
  counters, toggles), one deferral flag is enough (`DeferralFits`), both sides agree on toggles
  (`ToggleAgreement`), a halt ends only by a reset and a halt on condition only
  by a class reset or a new configuration (`HaltEndsByReset`), the endpoint implements the pipe (`ImplementsPipe`),
  only halts and resets drop packets (`OnlyHaltsDrop`), and packets keep
  moving (`TransferProgress`).
- `control`: the two endpoints are in one of four states (`Given`, `Moved`, `Idle`,
  `Unused`), the ones that belong to the host's stage (`ControlInv`); the new
  address is used after the status stage
  (`AddressFollowsHost`), device and host agree on address, configuration and
  halts (`HostAgrees`), a known request is not refused, and GET_STATUS tells the
  halt (`KnownRequestsSucceed`), every request ends (`RequestsEnd`). All this
  holds again after a bus reset, whatever errors came before it; between an error
  and that reset (`host.lost`) the host cannot rely on it.
- `stream`: the counts agree, and with them the content of the buffer
  (`StreamInv`); the assertions of the packet handler (`PacketFits`); no byte is
  lost, repeated or misplaced (`ImplementsByteStream`).
- `disk`: whichever copy of the FAT a host follows, it reads each file to its
  end (`FilesEnd`) and in order, and the dump shows the whole SRAM and nothing else
  (`ContentInOrder`).
- `picoboot`: interface, worker and host are in the same phase of the same command,
  and no assertion fails (`PicobootInv`); an acknowledgement comes after
  the work (`AckAfterWork`); a task works on its own data (`DataInPlace`); a task
  under way shows as in progress (`InProgressIsBusy`), which `_picoboot_reset`
  relies on; no queued task is overwritten (`NoTaskLost`); commands end and
  leave the device ready and the disk's queue enabled (`CommandsEnd`,
  `ReadyForCommand`).
- `tasks`: a task stays in the memory and flash it may touch, covers its range,
  and is all or nothing (`AccessesAllowed`); the flash functions are never called
  through a table that was overwritten (`VectorsIntact`).
- `msc`: device and host are in the same phase, with the transfer, residue and
  stall that belong to it (`MscInv`); residue and tag match (`CswMatches`), phases
  agree (`PhasesAgree`), status and sense data are right (`StatusRight`), a
  command block finds the device ready for it (`ReadyForCommand`), commands end,
  or the chip is reset (`CommandsEnd`). Exclusive access of the other interface
  may come and go at any step.
- `flash`: `NoOverflow`, answers in step (`FlashInv`), the wait ends on a fresh
  status (`EndsReady`), an abort ends the task (`AbortEnds`).
- `rom`: memory exactly covered by aligned accesses (`MemoryRight`), bit
  functions and CRC against their definitions (`BitsRight`), both decoders
  restore the text (`TextRoundTrip`), the dump reads back (`DumpReadsBack`).
- `disk_chain`, `picoboot_stray`, `tasks_zero` each find a violation; see
  section 5.

No passing run turns deadlock checking off. `picoboot_stray` does, because an
impatient host may find nothing left to do.

Fairness, each weak, and what in the code gives it:

| specification | fairness | because |
|---|---|---|
| `UsbEndpoint` | `Isr` | a pending `buf_status` bit keeps the interrupt asserted |
| | `Finishes` | a driver that keeps a packet has queued a task, and the worker returns it |
| | `Transact` | the host polls an endpoint it waits for |
| `UsbControl` | `Isr`, `Progress` | the same, for the control transfer under way |
| `Picoboot` | `Worker` | the worker is the main loop, and interrupts are finite |
| | `HostMoves` | the host continues a command, or times out; never that it sends one |
| `Msc` | `HostMoves` while running, `WatchdogFires` | as above; an armed watchdog fires |
| `VirtualDisk` | `ReadSector`, `Follow` | a host that has opened a file reads it |
| `Flash` | `Worker`, and `Ssi` while enabled | the loop runs, and the controller clocks what it was given |

No fairness is assumed of the flash getting ready, nor of the host's resets.
`Stream` has no liveness of its own: its packets move when the endpoint's do.
`TransferProgress` assumes that control requests stop at some time: a host that
resets an endpoint over and over may keep it from ever moving a packet.

## 4. The proofs

`UsbEndpointProofs`, `UsbControlProofs`, `StreamProofs`, `MscProofs`,
`PicobootProofs`, `AsyncTaskProofs`, `FlashProofs` and `ContentProofs` (the disk and
the ROM routines). All follow one argument: an inductive invariant, one lemma for
each action which says that the action keeps it, and a theorem for each property,
which draws it from the invariant. For most components the invariant is the one that
TLC checks, as it stands.

**The endpoint.** For both directions, single and double buffers, with and
without a default transfer, every `SeqMod`, `Chunk` and `MaxPackets`:

| theorem | property |
|---|---|
| `EndpointInvariant` | `EndpointInv` |
| `TypeCorrect` | the unsigned counters never pass below zero |
| `BuffersConserved` | `BufferConservation` |
| `PacketsAccounted` | `PacketAccounting`: counters agree with where packets are |
| `NoPacketOrphaned` | `NoOrphanPacket`: no transfer, nothing in the controller |
| `TogglesAgree` | `ToggleAgreement` |
| `NoBufferStuck` | `NoStuckBuffer`: the controller's next buffer is one it holds |
| `DeferralSuffices` | `DeferralFits` |
| `EndpointIsPipe` | `ImplementsPipe`: the endpoint implements `PacketPipe` |
| `OnlyHaltsLose` | `OnlyHaltsDrop`: no other step drops, repeats or reorders a packet |
| `HaltsHold` | `HaltEndsByReset`: no buffer given, and no second halt, undoes a halt |

They assume `Orderly == ~Racy /\ ~HaltsBusy`, and without either assumption the
invariant is false (section 5). `BufferConservation` is not inductive: that the
buffer handed back is the one the controller does not hold needs the order in
which buffers are used (`Ring`); that `owned_buffer_count` does not pass zero in
`usb_packet_done` needs the deferral (`Packets`); and a class reset restores the
toggle by counting only if the toggles were consistent while the endpoint was
halted, so `Toggles` speaks of halted endpoints, too.

The refinement goes by steps of the queue: each operator of `UsbEndpointOps`
leaves it and the numbers of the packets alone (`Same`), adds one or two packets
to its end (`Grows`), takes its head (`Receives`) or loses it (`Drops`), and
`GrowsSends`, `ReceivesReceive` and `DropsFlush` turn these into steps of the
pipe. It needs one more invariant, `Views`, about which buffer a callback sees: the
view of an IN endpoint is never left valid, so the packet filled is the one given,
and while an OUT driver keeps a packet, its take buffer is neither with the
controller nor completed, so the deferred packet is the one in the other buffer.

**The control pipe.** For every greatest address: `InvariantHolds` (`ControlInv`),
`HostAlwaysAgrees` (`HostAgrees`), `AddressAlwaysFollowsHost`
(`AddressFollowsHost`) and `KnownRequestsAlwaysSucceed` (`KnownRequestsSucceed`).
The hypothesis is `Calm == ~Racy`; without it the second and third are false
(section 5). Device and host do not agree in every state: between the
completion of a status packet and the interrupt that handles it, the host is
ahead. The invariant therefore speaks of `AfterIsr(dev, irq, packet)`, the device
as the pending interrupt will leave it. `Isr` then keeps it for nothing, and every
step of the host is compared with what the handlers will do. After an error
the agreement is suspended until the bus is reset: `Agree` is relative to
`host.lost`, and the invariant says that a pending error implies it, or a reset
which is pending with it. What the lemmas show first is that an endpoint with one buffer is
in one of four states, and how each operator of the engine moves it between
them.

**The streams.** For every packet size, every set of chunk sizes that are
multiples of it, every length: `InvariantHolds` (`StreamInv`), `PacketAlwaysFits`
(`PacketFits`), and `StreamIsByteStream` (`ImplementsByteStream`), the refinement,
with one lemma for each action that says which step of `ByteStream` it is. The
refinement needs the invariant for what the buffer holds: `Sending` and
`Receiving` say it for the part of a chunk that has passed on one side and not
yet on the other.

**Mass storage.** For every size of a sector and every bound on lengths and
blocks: `InvariantHolds` (`MscInv`), `CswAlwaysMatches`, `PhasesAlwaysAgree`,
`StatusAlwaysRight` and `AlwaysReadyForCommand`. The invariant lists the situations
of a command (`Responding`, `Reading`, `Writing`, `Answering`, `Stalling`) with
the arithmetic of each: what has moved, what is left of the packet, of the
transfer and of what the host expects, and the residue. The properties see the
end of a data phase only; that the residue is right there needs the equation in
every state before it.

**PICOBOOT.** For every length of the data phase, every set of tokens, every
period of `real_token`: `InvariantHolds` (`PicobootInv`), `AckAlwaysAfterWork`,
`DataAlwaysInPlace`, `InProgressAlwaysIsBusy`, `AlwaysReadyForCommand` and
`TasksNeverLost` (`NoTaskLost`). The hypothesis is `Patient == ~Impatient`;
`picoboot_stray` shows why. `Phases` says of every stage of the host where the
one task of the command is (in no place, in the slot, with the worker, run but not
yet called back), how many chunks each side has done, and which of the two
endpoints has which transfer. An acknowledgement is offered in two of these
situations only, and there the task of the last chunk has been run.

**The flash.** For every `MaxInFlight`, `Internal` and `FifoDepth` with
`MaxInFlight + Internal <= FifoDepth` and `FifoDepth >= 4`, every page size and
length of erase: `FlashInvariant` (`FlashInv`), `NothingLost` (`NoOverflow`) and
`TasksEndReady` (`EndsReady`).
The loop acts on levels that are out of date, so the invariant says in which
direction (`LevelsPessimistic`): answers may have come since, and bytes may have
moved on, but what is in flight is at most what was read plus what the
controller holds inside. With it the check `tx + rx < max_in_flight` implies
room. `AnswersInStep` gives the rest: the answers in the FIFO are those to
the bytes of this transfer, in order, so a transfer takes all of its own and
leaves none. For `EndsReady` one more thing is needed (`StatusFresh`): while a
status is read, no answer in the FIFO, nor the one already taken, says that the
flash is ready when it is not.

**The tasks.** For every address map with `MapAssumption`, every word width, every
set of addresses and lengths: `VectorsAlwaysIntact` (`VectorsIntact`) and
`AccessesAlwaysAllowed` (`AccessesAllowed`). The inductive invariant is the two
properties and `Numbers`: the command is made of words, and its offset stays
below its length until it ends, so no chunk is empty. The checks in
`_execute_task` look at the two ends of a range only, and at their sum modulo the
width of a word. That this is enough rests on two facts. The gaps between
the regions of memory, and the end of the address space, are wider than what one
task can carry, so a range with both ends in memory lies in one region. And the boundaries of the regions are
multiples of the flash page and of the sector, so an aligned page that begins
outside the XIP SRAM ends outside it: the lemmas on quotients and multiples
(`NextMultiple`, `FinerMultiple`, `MultipleBelow`) are there for that. For the table,
`WriteKeepsTable` says that a write that meets the copy reverts to the image's
functions before it is done (`FuncsAfterWrite`), `SafeForTable` that the copy is
made in the SRAM.

**The disk.** For every size of sector, cluster, memory and disk that the assumptions
allow: `ContentAlwaysInOrder` (`ContentInOrder`) and `FilesNeverLost`: no link of
either FAT leads a host astray before it has read the size of the file. The lemmas
come in three groups. `Geometry`, `DumpSize` and `FatLongEnough` say that the counts
which the boot sector declares fit each other and that the FAT has an entry for each
cluster of the dump; `HostLayout` and `SectorShown` that the host, computing from
the boot sector, finds the sectors where `virtual_disk.c` has put them; and
`DumpIsLinked` that each cluster of the dump but the last is linked to the next one.
The inductive invariant `DiskInv` relates the position in the file (cluster and
sector in it) to what was shown last, which is a multiplication: address shown
minus SRAM_BASE is the number of sectors read, less one, times
BYTES_DUMPED_PER_SECTOR. That needs division with remainder for variable
divisors (`Division`, `Cancel`), which the SMT solver does not do by itself.

**The text.** `TextsRestored` (`TextRoundTrip`), for every text, window, longest match
and size of the buffers. `TextRoundTrip` compares what a decoder has written with
the text, and nothing in it says why the data should restore it. `TextInv` says it
without induction over the data: there is a set of *marks* `<<d, t>>`, "d bytes of the
data stand for t of the text", with (0, 0) and the two ends among them, such that the
item at a mark restores the text up to another mark (`Marks`, `ItemAt`). The
compressor adds a mark with each item (`MarkLetter`, `MarkMatch`), and a decoder goes
from mark to mark, for its exact comparison with the end of the data included:
there is no item across the end. A match that runs into itself is restored because
`Matches` relates each byte of it to the text, which has been written by the time it is read.

**Memory.** `MemoryAlwaysRight` (`MemoryRight`), for every length. The accesses of each
routine are runs, and `Tiles` says of runs that they cover a range without overlap;
`TilesJoin` puts adjacent ranges together. `LengthInBinary` is what the tests of
single bits of the length rest on. The source of memcpy is aligned where its
destination is, because the routine compares the two first (`SameAlignment`), and
`BytesStored` follows a byte through the halfword and the word that memset makes of it.

**The dump.** `DumpsReadBack` (`DumpReadsBack`), for every memory and address. `Column`
says what is in each column of a line; `LineRange` and `LineFull` that the writes of
`xxd` are these and no others, so that `SectorWritten` has one write for each of the 512
places. Hexits read back by the sum of five nibbles (`SumOfNibbles`).

**The bit functions and the checksum.** `EveryWordCounted` and `EveryMessageDivided`, for
every word and for messages of any length, and from them `BitsAlwaysRight`
(`BitsRight`) for the calls of the runs. A word is a set of bits, and its `Number` is
needed only where a table is looked up. `clz32` and `ctz32`: `SixBits` gives the
number of a window of six bits, `Highest` and `Lowest` what the tables hold for it, and
the tests before the lookup say that the rest of the word is empty on one side
(`NothingAbove`, `NothingBelow`); `Stopper` is the one that `ctz32` puts above a
window of four bits. `reverse32`: each `Swapped` moves bit b to its partner, and
the four swaps together move it to 31 - b. `popcount32` adds fields of bits,
with additions of whole words. `AddCarries` gives the equation of a binary addition at each
bit, with the carry as a function; `AddThrees` and `AddSix` add up three and six
of these equations, where no carry leaves a field, because a
field is wide enough for its count. `AddColumns` does it for the multiplication,
which adds the fields up in the six highest bits: the columns below do not carry
into these, and the sum is at most 32, which six bits hold.

`crc32_small` digests a byte in a register of its own, from the highest byte of the checksum;
its reference feeds the message into the checksum one bit at a time. `ByteDigested` relates
the two after each bit: they differ by the rest of the checksum and the bits of the byte
not fed yet, both of which are only shifted. The loops over bits and bytes are recursive
functions, and what these compute for every length is proved by induction, without
the library's theorems on it, which take an operator as a parameter: a set of numbers that
is not empty has a least (`LeastOfSet`, as < is well-founded on the naturals), so a
counterexample has a first (`UpTo`), and a recursive function has the values that its
equations give it (`Iterated`).

What is left to TLC: the liveness properties (`TransferProgress`, `RequestsEnd`,
`FilesEnd`, both `CommandsEnd`, `AbortEnds`), as liveness under fairness is out of the
prover's reach. The three runs that end in a violation need no proof.

## 5. What the models say about the code

Three runs end in a violation, each of something the source says of itself:

- `picoboot_stray` (`usb_boot_device.c:257`; assertion `usb_device.c:586-587`).
  A PICOBOOT_IF_RESET cannot recall the task the worker has taken, and leaves
  the token that `_atc_chunk_task_done` compares. The late completion finishes a
  packet of a transfer that is gone, or of the command transfer.
- `disk_chain` (`virtual_disk.c:403`). The end-of-chain mark of `CRASHDMP.XXD` is
  never written: an index into a sector is compared with a cluster number. Hosts
  read by the size of the file, which is why `disk` passes.
- `tasks_zero` (`async_task.c:195`; comment `usb_boot_device.h:19`). A WRITE of
  length 0 to flash has no buffer, passes every check and programs a page of
  zeroes.

Met while modelling, and not the subject of a run:

- With `Racy`, a completion that is pending when a reset comes is handled after
  it and reaches the transfer the reset started (assertion `usb_device.c:401`);
  in `UsbControl` it also breaks `AddressFollowsHost`.
- `_usb_handle_set_address` asserts that the device is not configured ("we expect
  to be unconfigured", `usb_device.c:355`), but SET_ADDRESS is accepted in any
  state (`usb_device.c:830-838`): a host that sends it to a configured device runs
  into the assertion. The model takes the address, as the build does.
- The comment at `usb_device.c:41` says that all errors are ignored. The code
  ignores errors in the data sequence only; any other one, a single damaged packet
  included, makes it unaddressed and unconfigured (`usb_device.c:1103-1106`) until
  the host resets the bus.
- With `HaltsBusy`, host and device disagree on the toggle after CLEAR_FEATURE
  (`usb_device.c:936`, `:142`): the packets still in the controller carry the
  old one. The assertion at `usb_device.c:554` fails when a WRITE's chunk fails
  after the next packet has completed.
- With an impatient host `ExclusiveIsHosts` is violated: a task with AT_EXCLUSIVE
  that the worker took before the reset disables the disk after it, though
  `usb_boot_device.c:193` says that the reset clears exclusive access.
- A command block for less than whole sectors makes the last chunk short
  (`partial` of `Msc`; assertion `usb_msc.c:218`).
- An erase whose range wraps around is accepted and erases nothing. A READ that
  ends with the last byte of the ROM is refused (`is_address_rom` is exclusive
  where the others are inclusive).
- `is_address_flash` accepts 256 MB, of which the flash functions send 24 bits of
  address (assertions `program_flash_generic.c:268`, `:313`, `:347`); the XIP SRAM
  lies in the middle of it, so a WRITE that runs past the end of the XIP SRAM
  goes on to program flash.
- `_atc_ack` does not look at `task->result`: a command without data whose task
  failed is acknowledged, with status OK.
- After an error in a READ `picoboot_out` has no transfer until an interface
  reset. PC_ENTER_CMD_XIP alone does nothing.
- A valid UF2 block calls `reset_usb_boot`, which does not return. The rest of
  `_write_uf2_page` is never reached, so the disk never queues a task and
  `virtual_disk_queue` stays empty.
- CLUS_CRASH_LAST counts one cluster more than the file has.
- After an aborted flash transfer, answers stay in the FIFO until
  `flash_init_spi`, and `rx_count` may wrap. A flash task before the first
  EXIT_XIP waits until it is aborted. `_do_flash_erase_range` does not look at
  the abort between sectors.
- CLEAR_FEATURE(ENDPOINT_HALT) sent to endpoint 0 IN resets it and with it its
  toggle (`usb_device.c:931-941`), so the status packet of that request goes out
  as DATA0.
- The comment at `usb_msc.c:490` says that the reset does not unstall;
  `_msc_reset` clears both halts.
- `_start` (`bootrom_rt0.S:159-170`) fills the SRAM with a pattern before the
  dump can be read. The repository's README (`:38-39`) says the device is reset
  to the actual boot ROM; `bootrom_main.c:174-179` restarts this image.
- The generator never uses the longest match its format has, of 128 bytes. That
  costs space and is otherwise harmless.

## 6. What is not modelled

- Floating point (`mufplib*.S`): register-only assembly that nothing in this
  image calls; bit-exact IEEE arithmetic is out of TLC's reach.
- Clock and PLL setup, vectors, stack: straight lines of register writes.
- The table of descriptors and string descriptors: constant data.
- `flash_range_program`, `flash_range_erase`, size detection and
  `flash_enter_cmd_xip`: not called by the tasks; straight loops over modelled
  ones.
- The dead code after `reset_usb_boot`.
- The mutation source of `async_task.c` and tasks of several kinds: only code
  that is never reached makes them matter.
- Transfers of 2^32 - 63 bytes and more, of which the number of packets wraps
  around, and chunks whose size is not a power of two, which no driver uses: in
  `Stream` counts are natural numbers and the mask is a remainder.
- A SETUP that arrives inside `isr_usbctrl`, and is cleared with `sie_status` if
  that interrupt handles a bus reset: the handler is one step.
- That the image runs from the flash it programs (`bootrom.ld` puts `.text` at
  0x10000100, where the ROM's own code is not): the models take the program
  itself to be readable throughout, and EXEC'd code to leave it alone.
- An empty text: the generator refuses to read one, and the image's decoder would
  read it as one of 4 GB.
- Asynchronous completion of a sector (`vd_async_complete`): this image's disk
  always answers at once.
- Tests and build files.

## 7. Plan

The order is by importance; the first four groups are done, and most of the others.

1. Endpoint engine: `UsbEndpointOps`, `UsbEndpoint`, `PacketPipe`; its invariant
   and the refinement proved. Control pipe: `UsbControl`.
2. The drivers: `Picoboot` with the worker, `Msc`, `VirtualDisk`.
3. `Flash`, its invariant proved; the ROM routines.
4. `AsyncTask`: the address checks in word arithmetic, the accesses of a task,
   the table of flash functions; both properties proved.
5. The stream helper's offsets (`Stream`, a refinement of `ByteStream`, proved);
   UF2 blocks and exclusive access (`Msc`); errors on the bus (`UsbControl`). Left:
   flash ranges and the detection of the flash's size, which no task uses.
6. Proofs of the control pipe, mass storage and PICOBOOT, of `EndsReady`, of the disk
   and of the ROM routines, for every input. Left: what flash ranges and the
   size detection would need, if they are modelled.
