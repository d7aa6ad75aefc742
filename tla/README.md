# Verification of xburst-tools

TLA+ models of the USB boot tools for Ingenic XBurst processors: the host
programs `usbboot`, `jzboot` and `xbboot`, and the two programs they upload,
`xburst_stage1` and `xburst_stage2`. The modules are checked with TLC on small
instances; the theorems in the `...Proofs` modules are checked with TLAPS for
every value of the constants. `PROJECT.json` lists the runs, the correspondence
of definitions and source lines, the hazards and the theorems.

## 1. The system

A device without a boot loader answers on USB from its boot ROM. The host
uploads *stage 1* (at most 16 KiB, into the cache), which sets SDRAM up and
returns to the ROM; then *stage 2* into SDRAM, which takes over the USB
controller and offers NAND and SDRAM operations as vendor requests.

| component | state | operations | interacts through |
|---|---|---|---|
| USB device driver of stage 2, `xburst_stage2/udc.c` | `ep0state`, `udc_state`, `Bulk_in_size/finish`, `Bulk_out_size`, the controller's interrupt registers and FIFOs | polling loop `udc4740Proc`: EP1 IN, EP1 OUT, bus reset, EP0 | USB packets with the host; calls the request handlers |
| request handlers, `xburst_stage2/boothandler.c` | `start_addr`, `ops_length`, `ram_addr`, `ret_dat`, `handshake_PKT`, `Hand` | CPU info, parameters, start, configuration, NAND and SDRAM operations | buffers shared with `udc.c`; function pointers to a NAND driver |
| NAND driver Jz4740, `nandflash_4740.c` | `oobsize`, `ecc_pos`, selected chip, write protect pin, the flash | init, query, check/mark bad, erase, program, read, raw read, OOB read | the NAND chips; `handshake_PKT[3]` |
| NAND driver Jz4760, `nandflash_4760.c` | as above, with planes and BCH | as above | as above |
| stage 1, `xburst_stage1` | firmware arguments at 0x80002008, SDRAM set-up | `c_main`, `do_debug` (memory test, GPIO) | uploaded and started by the host, writes its result into the EP1 FIFO |
| usbboot host, `usbboot/src` | `hand`, `file_buff`, the device handle | 14 commands | requests and bulk transfers with a timeout of 5 s |
| jzboot host, `jzboot/src` | device list, configuration, command sets, NAND geometry | shell, ELF loader, the same device operations | as usbboot |
| xbboot, `xbboot` | the global `option_upload`, the device handle, its own stage 1 | single requests, upload with retries | boot ROM |
| board set-up, `board-jz4740.c`, `board-jz4760.c` in usbboot and xbboot | GPIO, clock, SDRAM and DDR registers, the memory chip's mode | gpio_init, pll_init, sdram_init, serial_init | called by stage 1 with the firmware arguments |
| SoC headers, `jz4740.h`, `jz4760.h`, a copy each in usbboot and xbboot | the registers they name | pin, interrupt and clock macros | used by the board code and the NAND drivers |

What is hard in it:

- *Interleavings.* Stage 2 polls registers that clear on reading while the
  controller and the host go on. A request is acknowledged before it runs.
- *Transfers given up.* The host stops waiting after five seconds, at any point
  of an exchange; what was already sent stays in FIFOs and buffers.
- *Ignored results.* The host ignores the results of uploads, of NAND
  operations and of some reads; a program may start from memory that does not
  hold it.
- *State that outlives a command.* `debug_ops`, `Bulk_out_buf`, the settings of
  the NAND driver, the selected chip and the write protect pin.
- *Half-done work.* `rebuildcfg` of jzboot stops at the first bad value with the
  earlier ones stored; xbboot repeats an upload after clearing the flag that
  made the first one right; a kernel is loaded piece by piece into the memory
  stage 2 runs from.
- *Byte-wide arithmetic.* Configuration values are cut to eight bits, divided
  and shifted into register fields without checks.
- *Shared registers.* Pins and clocks of many units are bits of a few registers.
- *Failing flash.* Bad blocks lengthen loops; a failing page restarts a whole
  request one block further on.

Correctness, by component: an operation uses the inputs of its own exchange and
its answer reaches the host once and in order; unsigned counters do not wrap;
EP0 is ready whenever a SETUP packet may arrive; an image reads back as it was
programmed whatever blocks are bad or fail; blocks marked bad are neither
programmed nor lose their mark; settings changed for a request are restored; a
boot that reports success left the device in stage 2; a configured stage 2 has
the host's configuration; stage 1 leaves memory, clocks and pins as configured;
jzboot's commands are those of what runs on the device, a failure stops a batch,
and a started kernel is intact; a unit keeps the pins and clocks it was given;
every command, exchange and flash operation ends.

## 2. Modules

### Udc

`udc.c` and `boothandler.c` on one side, the transfers of `ingenic_usb.c` and
the exchanges of `cmd.c` and `jzboot/src/ingenic.c` on the other.

- Every register read and every handler of `udc4740Proc` is a step (`pc` says
  which is next), so the controller and the host interleave with them. EP0 is
  two steps, because the acknowledgement of a SETUP packet leaves before its
  request is executed; `tx` is the rest of the same call.
- The host takes one step per packet or request: `StartExchange`, `SendBulk`,
  `SendSetup`, `ControlDone`, `ReadBulk`, `Timeout`. `Script` lists the stages
  of each operation in the order of the code; the GET_CPU_INFO in front is
  optional because jzboot does not send it.
- Data is its origin: packets, parameters and results carry the number of the
  exchange they belong to. Sizes are in units of a handshake packet (8 bytes).
- `dirty` is bookkeeping: an exchange was cut short and no `udc_reset` has run
  since. `ran` records the inputs an operation used.
- External: the controller (FIFO flags, interrupts, SETUPEND), bus reset, and
  enumeration by the host's kernel. `TransfersApart` assumes that the host's
  next control transfer does not arrive between the acknowledgement of the last
  one and the end of its handler's EP0 call, since `EP0_Handler` reads CSR0
  live (udc.c:458); bulk packets are not so restricted.

### Nand4740, MCNand4740

`nandflash_4740.c` on one chip, or four when blocks per chip is configured.
Each loop iteration is a step; erase and program commands may fail, a marker
write may not take, a read may need correction. A page's content is the program
request and buffer offset it came from, so shifted, repeated or lost pages
show. Offsets and sizes are the code's bytes. The request's `ff` set names the
pages of an image that are all 0xff. `MCNand4740` defines the request sets;
blocks have ten pages so that the loader's eight end inside block 0.

### Boot

A usbboot session: `boot`, `memtest`, `gpios`/`gpioc`, NAND commands, `reset`,
`go` against boot ROM, stage 1 and stage 2. Every request is one step: served
and reported, failed unserved, half delivered (bulk), or served with its
completion lost. Stage 1 runs concurrently with the host. The user may kill and
restart usbboot or power the device off and on at any point. A file is the code
it holds and the two firmware arguments that matter (`cpu_id`, `debug_ops`).
Stage 1's plain return on the debug path is taken to reach the ROM on both
chips. `gpios` and `gpioc` are one command, `gpio`; their success value 0 is
recorded as 1.

### NandFile, MCNandFile

The host tools programming a file over Nand4740, whose requests and steps it
uses unchanged (`EXTENDS`): usbboot's `nprog` (`nand_program_file`,
`nand_program_check`, `nand_erase`, `nand_markbad` of `cmd.c`) and the erase,
program and dump commands of `jzboot/src/ingenic.c`.

- `pc` is the place in the command, `at` the page the next chunk starts at,
  `sent` the pages of the file done. A chunk is a block for usbboot and
  `ChunkPages` pages (`STAGE2_IOBUF / page_size`) for jzboot. usbboot goes on
  where the read-back ended (`Position`), jzboot behind the pages it sent.
- `chunks` is bookkeeping: for every chunk the program request that carried it,
  where it started and ended, and whether the comparison found it right.
  `trouble` is bookkeeping as well: a failure of a flash command or transfer, a
  host's mark on a block or chip it was not meant for ("stray"), a file that
  does not end on the flash ("overrun").
- A transfer whose result the code looks at ends the command (`GiveUp`).
  usbboot ignores the others, and each has its outcome: no erase or one with an
  old address or length (`EraseLost`), an older chunk programmed (`DataLost`),
  an older read-back compared (`CheckLost`), no mark or one at an old address
  (`MarkLost`). An answer that arrives late and is read by a later transfer is
  left to Udc.
- Images are without OOB, reads are not raw, and different chunks hold
  different data.

### NandDevice, Nand4760, MCNand4760

`NandDevice` is what the request handlers rely on, whichever driver is behind
the function pointers: a request is accepted, blocks are retired meanwhile, and
the page it reports at the end is the one behind as many good blocks or pages as
were asked for. `Nand4740` and `Nand4760` implement it (`ImplementsDevice`, the
abstract specification as a property, with the bad blocks as the refinement
mapping).

`Nand4760` is `nandflash_4760.c`, a loop iteration a step. The loader lives in
pairs of pages, data and parity, in the first blocks; programming page 0 writes
it and goes on in block 2 (`BehindLoader`). A page holds the parity it was
written with, so a change of BCH strength between program and read shows. A
failed page erases and marks its block, possibly spilling into the next one, and
starts the whole request again.

### Stage1, Board, Board4760

From `usbboot.cfg` to an initialised board. `Stage1` has `parse_configure` and
`check_dump_cfg` with their byte-wide fields, then `load_args`, `c_main` and
`do_debug`, one step per function called (`calls`). `Board` and `Board4760` are
the functions' arithmetic: registers are sets of the bits that are 1, fields are
a lowest bit and a width, as the headers define them. `chip` is the list of
commands the memory chip received. The uninitialised `index` of
`sdram_init_4760` is any of `Indices`. As compiled: DDR2 on the JZ4760. A baud
rate or a memory clock of zero (a CPUSPEED that, cut to eight bits, is below EXTCLK)
divides by zero: stage 1 goes no further.

### Xbboot, MCXbboot

`EXTENDS Stage1` with the same registers. xbboot's upload (`Upload`, then per
request `Succeeds` or `Fails`, with main's loop around it), its single requests
as separate processes, and its own stage 1 and board code, which differs from
usbboot's in pins, order and reset state. `pad` is what follows the two-byte
`xburst_cpu` in memory.

### PinUnits, ClockUnits, SocHeader

The macros of `jz4740.h` and `jz4760.h`. The copies in usbboot and xbboot are
the same but for the CLE and ALE pins of the JZ4760's NAND, so xbboot's tables
are mostly defined to be usbboot's (`Xb...`). `PinUnits` has, per macro, the pins
it gives each function, and beside it the header's own pin description and the
signals the comment over the macro lists. `ClockUnits` has the bit layout of the
clock registers, and the field or gate each macro works on. `SocHeader` lets
board code call any of them in any order; the interrupt macros are sequences of
register writes with line changes in between. It is composed with Xbboot:
`SocInit` chooses between usbboot, xbboot, pin macros and clock macros.

### ElfLoader, Jzboot, MCJzboot

`Jzboot` is an invocation of jzboot: opening the device, the `-C` script, then
`-c`, `-b` or the prompt. `stack` holds the lines and scripts being executed;
each command is a step, whose handler yields the set of outcomes with the
request that may fail on the way (`usbdev`, `Then`). `ctx->line` freed under an
outer line is modelled (`shell_pull`), and so are half-done `rebuildcfg`,
uninitialised handle fields (`Junk`), data left in stage 2's buffer and a probe
that fails after stage 2 was started. `ElfLoader` places segments, initrd,
arguments and trampoline, in units of 1 KB, with 32-bit wrap-around.

### UdcProofs, UdcExchangeProofs, Nand4740Proofs, Nand4740ImageProofs, NandFileProofs, BootProofs, JzbootProofs, SocHeaderProofs

The theorems and their lemmas; see section 5.

## 3. Runs

| run | module | states it is about | checks |
|---|---|---|---|
| `udc_ops` | Udc | all ten operations, two exchanges in any order, high speed, a bus reset, 1 to 4 units of data with a FIFO of 2 | TypeOK, ExchangesInStep, ExchangeCompletes |
| `udc_faults` | Udc | full speed, a host timeout and a bus reset at any point | NoCounterWrap, EP0ReadyForSetup, NoFifoOverrun, ExchangesInStep |
| `nand_ops` | MCNand4740 | three requests, 4096-byte pages, one bad block, one failing command, one lost marker | TypeOK, ReadBack, LoaderLayout, ProgramAvoidsBadBlocks, EraseCoversRequest, SettingsRestored, BadStaysBad |
| `nand_chips` | MCNand4740 | four chips, 2048-byte pages, four marker pages, write protect pin, forced erase, two failures | ChipsAgree, OperationEnds, ImplementsDevice |
| `nand4760` | MCNand4760 | three requests, 8- and 24-bit BCH, one bad block, two failing commands, one lost marker | ReadBack, ImplementsDevice |
| `nand_raw` | MCNand4740 | raw reads and marked blocks | RawDoesNotSkip, *violated* |
| `file` | MCNandFile | two commands of usbboot or jzboot, files of two and three chunks, one blank page, one bad block, one failing command, one lost marker, one failing transfer | VerifiedStays, NoFalseAlarm, FileReadsBack, DumpIsFile |
| `boot_session` | Boot | four commands, two failures, two restarts or power cycles | TypeOK, ConfiguredRight, BootReportsStage2, LostForCause, MemtestHonest, EP1Drained, CommandEnds |
| `boot_debug` | Boot | three commands, nothing fails | BootMakesStage2, *violated* |
| `bringup` | MCXbboot | 33 configuration files, two runs of usbboot's stage 1 with a reset; xbboot's upload with two failures, two single requests, a reset; two pin or clock macros of either header with any register writes and line changes between | MemoryReady, ClocksAsConfigured, XbPinsKept, StartedInMemory, PinsAsAsked, ClockCallsIndependent |
| `xbboot_retry` | MCXbboot | xbboot's upload with a failing request | UploadStartsProgram, *violated* |
| `jzboot` | MCJzboot | eleven invocations, three typed lines out of eighteen, two failures | CommandsMatchDevice, BootFindsMemory, KernelIntact, BatchStopsAtFailure |

**Bounds.** Two exchanges are enough for one to disturb the next, which is what
the properties of Udc speak of; data of 1 to 4 units covers shorter than, equal
to, just over and twice the FIFO. Three flash requests are erase, program and
read of the same place; four blocks leave room for one bad and one failing
block inside a request and one behind. Two `nprog` commands leave an earlier
file under the second; three chunks are two full ones and a partial one, so one
may fail between a verified one and the end. jzboot's chunk is longer than a
block, its files are one chunk with a tail and one chunk and a page. On the JZ4760 the
loader takes four of a block's six pages, and five blocks leave three behind it.
Four commands allow a debug command, a
boot, a NAND command and one more; two failures allow a failed configuration
followed by a lost status request. The configuration files span the documented
ranges and have one of each kind that is rejected, crashes the host or is
accepted although the chip cannot do it. Two macros are enough for one to
disturb another, as registers are only set and cleared bit by bit; the pins used
for interrupts are one of the NAND and one of UART1, whose function depends on
TRG. jzboot's scripts follow the ones in `jzboot/config`; three typed lines allow
a boot, another geometry and a kernel.

**Fairness.** Udc: `udc4740Proc` is an endless loop and always goes on; the
host goes on whenever a transfer it waits for can complete. Timeouts and resets
are never fair. Nand4740: the operation's loop goes on. Boot: the host is
sequential and each libusb call returns (completed or timed out); stage 1 is
straight-line code.

**Deadlock** is checked for Udc, the NAND drivers, NandFile and Boot, where the end
of a bounded run is an explicit stuttering step. It is not in `bringup` and
`jzboot`: a board waits for its user and jzboot ends.

## 4. What the runs show

Holds, with the conditions the properties name:

- On a high speed link no interleaving of polls and packets loses or repeats a
  packet. On a full speed link the second read of INTRIN (udc.c:578) may
  discard a completion; the exchange then hangs until the host gives up.
- A host timeout may leave the link out of step: late answers are read by the
  next command, a bulk payload stays in front of the next one, and the FIFO may
  be written over. A bus reset repairs all of it. Counters and EP0 are safe
  throughout.
- A request of up to a block that starts at a block beyond page 8 reads back
  whole, over bad and failing blocks. Outside that: at page 8 itself, with
  4096-byte pages, 16 KB of the image are skipped as if the loader had been
  written (nandflash_4740.c:569); an image longer than the flash comes round to
  page 0 and overwrites the loader; the restart position counts from the request's
  start (nandflash_4740.c:689), so a failure beyond the first block of a longer
  request leaves the pages before it behind; an unaligned start skips the bad
  block check of its first block; with a write protect pin, marking a block
  lowers the pin for the rest of the request (733); after a failure in the
  first eight pages the restart saves the loader's `oobsize` and `ecc_pos` as
  the driver's own (551). An erase never ends when the rest of the chip is bad.
- A chunk `nprog` has compared stays readable from where it was written while
  the rest of the file is programmed, whatever fails, and when all chunks
  compared right the file reads back as a whole from its first page. When
  nothing fails, no comparison fails. Outside that: in a file that starts inside
  a block, a failing chunk erases the end of the chunk before, and the last
  block was not erased; a file that runs over the end of the flash comes round
  to the first blocks, which may be its own; a mark whose address is lost goes
  to a block numbered like the page last read (cmd.c:258), and with several chips a
  mark goes to the chip selected last, which need not be the one of the failed block
  (nandflash_4740.c:738); a chunk that begins among the loader's pages of
  a flash with 4096-byte pages is compared with another layout than it was
  written in. A failed comparison is printed and the command still succeeds.
- jzboot's dump returns what it programmed only if no chunk met a bad or
  failing block: the end page the device reports is ignored (ingenic.c:696). A
  file whose padded length is a multiple of the chunk fails at its last chunk
  (654), and a dump cut short reports success (543).
- When `boot` returns 1, stage 2 runs and knows its chip, although the results
  of the uploads are ignored. It may be unconfigured: after a failed `init_cfg`
  or a killed usbboot, `boot` says "Already booted" (cmd.c:192) and does not
  configure; a NAND command then calls a null pointer. `LostForCause` shows this
  needs a failure or a kill. Configuring again at that place would not be
  safe: `Bulk_out_buf` may start with other data (the mutant of
  `ConfiguredRight`).

- Both NAND drivers report the page `NandDevice` says, over bad blocks and
  failures, while the request ends within the flash. On the JZ4760 an image
  reads back, the loader included, except: a failure under an image from page 0
  starts it again without the loader's layout (nandflash_4760.c:1158); 24-bit
  BCH uses the parity size of the configuration before (237); the alarm of a
  read is never cleared by a request and is cleared by a correctable sector
  (672); and the erase of a failed block may go on into the next (408).
- Stage 1 leaves the memory that `total_size` counts, precharged, refreshed and
  in the controller's mode, for every documented geometry and in any order of
  boots, tests and resets, and the clocks that were configured: for a CPUSPEED
  and an EXTCLK below 256 (both are cut to eight bits before they are divided,
  ingenic_cfg.c:199) and for dividers the chip has (any other PHMDIV means one). Pins taken by the gpio
  commands come back.
- jzboot's shell follows the device; a failure stops a batch at any depth; stage 2
  is placed in memory that exists, unless a `rebuildcfg` stopped half way or the
  geometry describes none that stage 2 could run in: SDRAM_ROWADDR is accepted
  whatever it is (ingenic.c:175), and total_sdram_size keeps 32 bits of the
  product (a shift by more than that is undefined; the model takes it as the power). A kernel is started whole and apart from stage 2, unless the geometry
  was changed after the boot or the image is not well formed: `load_segment`
  compares a 32-bit sum with the limit (elfldr.c:50), so segments, an initrd or
  arguments whose sizes wrap pass the test, and an image without a loadable
  segment has its arguments put at address 0. `WellFormed` names these cases.
- The pin macros give every signal of their comments the pin and function of the
  header's description, in any order, with these exceptions, named in `Contradicted`
  and `TrgInTheWay`. JZ4740: sdram_16bit; pwm6 and pwm7 after uart1, whose TRG
  they do not clear. JZ4760: aic, msc0, msc1, ssi_1, ssi2_1 (port 5 instead of
  1), i2c, pwm0 to pwm5, and usbboot's NAND macros (CLE and ALE on SA0 and SA1);
  NAND, i2c and pwm rely on TRG being clear. No stale interrupt is let through.
- The clock macros do not disturb each other. `__cpm_stop_all` of the JZ4740 lets
  UART1 run; the gates of I2C0 and I2C1 of the JZ4760 are interchanged;
  `select_pixclk_ext` and `select_lcdpclk_pll1` are one bit; `pll_bypass` sets
  CPPSR where `get_pllout` looks at CPPCR. Macros that use undefined names and
  cannot be compiled (`get_ssidiv`, the setters of h1div, mscdiv and others) are
  left out.

Does not hold, against the repository's own words (`findings`):

- `nand_raw`: raw reads skip bad blocks although comment and help deny it.
- `boot_debug`: `boot` after `gpios` or `gpioc` crashes the device, because
  `debug_ops` is never cleared.
- `xbboot_retry`: an upload that is repeated after a failed transfer starts
  memory that was never set up, because `option_upload` is cleared too early.

Every checked property has a mutant, a plausible bug in a mapped definition
that TLC finds with the run's own configuration. Mutants stand in front of the
definitions they vary and are marked as such.

## 5. Proofs

The proofs hold for every value of the constants that the named assumptions
allow, and so for sessions, images and exchanges of any length. Every invariant
below was first checked by TLC on the small instances.

**UdcProofs** (assumptions: a positive FIFO size, positive data lengths, known
operations, natural bounds). `TypeCorrect`, `CountersSafe`, `EP0Ready`. The
invariant `IndInv` adds to TypeOK, NoCounterWrap and EP0ReadyForSetup:
`EP0AnswerShort`, an answer on EP0 fits one packet, so the TX state begins and
ends within one call of the handler; `RequestFromIdle`, a request is executed
only from the idle state; `SentWithinData`, the host sends no more than its
data. Without the first two EP0ReadyForSetup is not inductive: a state with a
long answer half sent satisfies it and its successor does not. One lemma per
handler and host step shows that it keeps `IndInv`; `NextInv` collects them.

**UdcExchangeProofs** (same assumptions). `FifoNotOverrun` and `InStepAlways`:
the exchanges of the host and of stage 2 stay in step, with any number of
exchanges, timeouts and bus resets. `ExchangeInv` has three groups of parts.

- Reset. `Resetting`, `Enumerated`, `QuietOnReset`: a bus reset that `udc_reset`
  has not seen yet cannot be passed by the enumeration, whose last request needs
  an EP0 interrupt that is served behind it; so when the host starts exchanges
  again nothing of an earlier one is left. `AnsweredOnEP0` names the requests
  whose answer a late EP0 interrupt may still send.
- Interrupts. `Interrupts`: a packet in EP1's OUT FIFO has an interrupt on its
  way, one in the IN FIFO has none, and at most one is on its way. This is what
  keeps `EPIN_Handler` from writing over an unread packet.
- The exchange. `Numbered` (the host is at a place of its operation's script),
  `InTransfer` and `InService` (the SETUP packet waiting, acknowledged or being
  executed is the host's current one), then what the stage says of the buffers:
  `Preparing` before the operation ran (the data sent so far is in the FIFO and
  `Bulk_out_buf`, the parameters acknowledged are stored, or their handler has yet
  to run), `Answering` after it, `SendingData` (what was read, what is in the FIFO
  and `Bulk_in_finish` are the same packet number) and `SendingHandshake`.

The acknowledgement leaves before the request is executed, so a parameter of
which the host believes it has arrived may not be stored; `Preparing` says that
then nothing but that request is at `pc = "request"`. The scripts are dealt
with by `Orderly`: every script goes through its stages in the order of `Rank`.
`TransfersApart` (section 2) is used in `InTransfer`. With it, what remains
between one exchange and the next is settled by `StartClean`.

**Nand4740Proofs** (assumptions: page size 2048 or 4096, more than three pages
a block, blocks per chip 0 or the chip's size). `TypeCorrect`,
`SettingsAreRestored`, `BadBlocksAvoided`. `SettingsInv` says where the
configured settings are during a program request (in the saved copy), and
`AlignedInv` that a request that started at a block is, after any number of
skips and restarts, either at a block's first page or inside a block that is
not marked. The arithmetic of pages and blocks is in lemmas of its own.

The second half of the module is about the blocks of the device:
`BadBlocksStayBad` (an action property), `EraseIsComplete`, and `Refinement`: with one plane the driver implements
NandDevice, its bad blocks being the abstract ones. Block numbers beyond the end
of the flash are served by a block of the device (its home), so every step
changes the marks of one home block at most. `DeviceInv`: `EraseAligned`,
`EraseCounted` and `EraseGood` count the blocks an erase has tried and how many
of them are still good, `EraseClean` says what it left behind, and `Walking` that
a program or read request has taken every page it passed except those of bad
blocks. One plane is a hypothesis of these two: with more, an erase makes up for a
skipped bad block with as many blocks as there are planes (nandflash_4740.c:323)
and so erases more than was asked for.
The runs use one plane as well.

**Nand4740ImageProofs**. `ReadsBack`, `LoaderInPlace`, `ChipsCorrect`. `ImageInv`
follows an image from the request to the read: `Programming`, its first pages are
in one good block, the first good one from its start, with everything behind them
clean, so that a failing page can mark the block and start again; `Stored`, it is
there afterwards, while other requests run that are not an erase or a program;
`Reading`, a read goes to that block and has its first pages; `Parity`, with the
parity position it was written with; `Loading`, the loader's two layouts meet at
page 8. `PinKept` and `ImageGone` are about the write protect pin and about images
being written over. Two attempts failed for a good reason and corrected the
properties: ReadBack for a request that starts at page 8, and LoaderLayout for an
image longer than the flash (section 4).

**NandFileProofs** (assumptions: a chunk fits a transfer, one plane, natural file
lengths and start pages). `VerifiedChunksStay`, `FilesReadBack`. The commands are
steps of the driver or leave it alone (`FileIsDriver`), so `IndInv` of the driver
holds. `FileInv` follows an nprog that starts at a block: `Pending`, where the
command is and which request is running; `Programs`, a program request has its first
pages in one good block at or behind `at`, wherever failures have moved it; `Checks`,
the request that reads it back stops no further than the program request did, so it
ends in the first good block; `Verified`, what was found right is in the first good
block from its start, and the command goes on behind it; `Floor`, no step changes
a block before the page the command goes on with, or, while a mark is pending,
before the block that is to be marked; `Sized` and `Ranked`, all chunks but the last
are a block long and there are as many good pages before a chunk as the chunks before
it have, from which the whole file follows (`FoundPage`). The attempt found the
exclusions "stray" on several chips and "overrun", without which VerifiedStays is
false.

**BootProofs** (assumption: the commands are usbboot's). `TypeCorrect`,
`Configuration`, `BootResult`, `Causes`, `Verdict`, `Drained`. A place in a session
is the command and the number of steps left in its script. The first parts of
`IInv` hold whatever fails: `OnScript`, `Plugged`, `Reported`, `Started`,
`NeedsStage2`, `DebugKept`, `Memory`: what has been established at a place, such
as that the structure in `Bulk_out_buf` is whole when configuration is requested.
The others hold while nothing failed: `Uploads`, `Stage1Upload`, `Stage2Upload`
(what is in memory at each place of an upload), `Attended` and `Packets` (who
reads what stage 1 and stage 2 put into EP1). Each of ConfiguredRight,
BootReportsStage2, LostForCause and MemtestHonest is a conjunct; EP1Drained
follows.

**JzbootProofs** (assumption `SessionAssumption`: a session is a line, a script
or the prompt, as `main` chooses). `BatchStops`, over any scripts and any depth
of nesting: once a command of a batch has failed, no frame of the stack catches
the failure (`Unwinding`), so each step until the end takes one off.

`CommandsMatch`, `MemoryFound` and `KernelStarts` rest on two more assumptions:
words that are numbers are naturals (`NumbersAssumption`), and images have the
fields of their headers, with arguments that are never empty, since they contain
the kernel's name (`KernelsAssumption`). Their invariant `InOrder` says of the
configuration, the handle and the device together (`World`): the command set is
that of the probed type (`Matched`); a configuration that is not torn is complete
and `total_sdram_size` is the size it describes (`Built`); data that stage 2 was
not told to take is left by a failed request only, and what was loaded from a
well-formed image is still as it was laid out (`Intact`). A library function is
`Fine` if each of its outcomes is in order, with the excuse of a failed request
where it reports one; there is one lemma per function, and the commands compose
them as the code does. `spl_boot` needs more in between: after stage 1 the memory
is the one of the configuration in force, which is where stage 2 then goes.

`ElfPlan`, the first part of the module, is about `load_elf` alone, for
every image and size of memory; KernelIntact follows from it. `Laid`: the areas are apart and between the
beginning of memory and the end of what was loaded; `Imaged`: after n program
headers every area lies within one of the first n segments, so the next, which
overlaps none of them, can be added. The initrd, the arguments and the trampoline
come behind all of that (`Followed`). The fold over the headers is dealt with by an
induction over sets of numbers (`LeastOf`, `Upwards`, from the library's theorem
that strict inclusion of finite sets is well founded), which takes no operator as
a parameter; `ImageFold` shows with it that the fold is the last of a sequence of
steps.

**SocHeaderProofs** (assumptions: `ConfigAssumption`, natural bounds, and the
tables below). `XbPins`, `PinMacros`, `ClockCalls`, `Memory`, `Clocked` and
`Uploaded`. Every step of either host
program on a board is one of a few kinds (`BoardStep`: a run begins, a pin is
tested, a reset, one of stage 1's calls), and each tool leaves the others' state
alone (`ToolStep`).

- `XbPins`: while `gpio` is still the first of a run's calls nothing is promised;
  after it the pins are set up and no later call of the run touches them
  (`BoardPins`). That no macro takes back what the one before gave follows from the
  pins' being different (`PinsApart`), which is why the keyboard's pins had to be
  looked at bit by bit.
- `PinMacros`: a unit that holds its pins keeps their functions (`HeldInv`), and the
  writes still to come change none of them (`TodoHeld`). For the interrupts,
  NoStaleInterrupt is not inductive, since a flag may well be stale between two writes
  of a macro: `StaleInv` says that its interrupt is then masked and that one of the
  writes to come clears it, and `TodoInv` which writes can be left.
- `ClockCalls`: setting a field keeps the others (`SetThenGet`), and so do the gates.
- `Memory` and `Clocked`: the calls left of a run are the end of its plan (`RunInv`,
  with the arguments those of the last accepted configuration), and `MemoryInv` says
  what the registers and the chip hold before each of them: `SdramForm` and `DdrForm`
  of the memory, `PllForm` of the PLL, `ClockForm` of the clocks it finds, whatever
  earlier runs left. MemoryReady alone speaks of the end of a run only. At the end the
  chip's list of commands is known, the size follows from the fields of DMCR, and the
  refresh interval from the bounds of the JZ4760's memory clock. The proof of `Clocked`
  failed at first for a good reason: EXTCLK 275 with CPUSPEED 0 was called
  expressible, although 275 is cut to 19 (now excluded by `Expressible`).
- `Uploaded`, on top of `Memory`: `Sending` says, before each of the eight requests of
  an attempt, where the next bulk write goes, whether stage 1 or the program is in
  place and whether `option_upload` is still set; `UploadInv` carries it over failures,
  resets and the loop of `main`.

What the macros' masks are is no matter of reasoning: it is stated of the finished
tables, in `PinTable` (the masks of a unit give each pin the function the header's
pin description has for it, and to another unit's pins the one they have there),
`ClockTable` (no two fields of a register share a bit, values that fit stay in their
field) and `GateTable`; in the same way `LayoutTable` and `LayoutTable4760` are about the
fields of the clock and memory controllers' registers, `PowerTable` about powers of
two below 2^31, and `PllTable` about the one setting `pll_calc_m_n_od` is called for.
They are assumptions for the prover but closed formulas, without a constant or a
variable in them, so TLC decides them, once for all, in every run of `bringup`.

**Only model-checked.** The liveness properties ExchangeCompletes, OperationEnds
and CommandEnds: fairness and ENABLED are out of the prover's reach. ReadBack and
the refinement of Nand4760, and NoFalseAlarm and DumpIsFile of NandFile: no proof
has been attempted.

## 6. Not modelled

- Of the SoC headers: pull-ups, and the register units nothing here uses (LCD,
  AIC, MSC, SSI, I2C, CIM, IPU, ethernet, RTC, TCU, DMA and others), most of the
  headers' lines. `__gpio_get_irq`, whose unsigned loop never ends, is unused.
- Board code that is not compiled: mobile DDR and SDRAM on the JZ4760, the DMA
  memory test, the search for a DDR delay.
- Caches, serial output, start code, the echo kernel of xbboot.
- Descriptor contents, CPU info strings, messages, the syntax of `usbboot.cfg`
  (libconfuse), flex's tables, name completion at jzboot's prompt.
- The chunk loop of `sdram_load_file`, images with OOB on the host.
- Reed-Solomon and BCH arithmetic: a page is readable or not. A corrected sector
  may clear the error flag of an unreadable one: this is modelled, and therefore no
  property promises the flag.
- 512-byte pages and 16-bit buses (they change addressing, not control).

## 7. Plan

1. Theorems: that Nand4760 implements NandDevice, along the lines of
   Nand4740Proofs; NoFalseAlarm and DumpIsFile of NandFile, with what the erase leaves
   behind for the chunks to come.
2. Images with OOB in NandFile (cmd.c:517) and the loop of `sdram_load_file`
   (cmd.c:915).
