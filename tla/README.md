# TLA+ models of stm32-example

Models, model-checking runs and machine-checked proofs for `stm32-example`, a layered set of
drivers, libraries and demonstration programs for an STM32F429 board (`src/PLAN.md`). The layers
are `common < platform < module < bsp < port < lib < app`; `platform/` and `module/` are vendored,
and the code the models are about is in `common/`, `bsp/`, `port/` and `lib/`. The programs in
`app/` say how those layers are called, which is where the inputs of the models come from.

Contents: 1 the system, 2 the modules, 3 the runs, 4 the proofs, 5 what the models leave out,
6 the plan.

## 1. The system

### Parts, state, interaction

| part | state it keeps | operations | talks to |
|---|---|---|---|
| ring buffer (`common/ringbuf.h`) | buffer, `head`, `tail` | put, get, empty, full, count | an interrupt puts, a task gets: `usart.c`, `rs485.c`, `app/*/04_usart` |
| NAND driver (`bsp/nand.c`) | the chip: pages, spare areas, ECC in the spare area | read, write, compare, fill, copy page, erase block | `ftl.c` |
| flash translation layer (`bsp/ftl.c`) | table logical to physical block, counts, search position; on the chip: tags and marks | init, format, read and write sectors, bad-block marks | `nand.c`; called by `fatfs/diskio.c`, `usbd_storage_if.c`, `41_nand`, `54_usb_device_msc` |
| SPI NOR flash (`bsp/nor.c`) | sector buffer in RAM; the chip's array | write with and without an erase, erase of a block, read | `fonts.c`, `diskio.c`, USB storage, `videoplayer.c`; three areas one after the other: volume, fonts, images |
| font store (`lib/text/fonts.c`) | descriptor in RAM; on the chip: descriptor and fonts | init, plausibility of a font, update from a card | `nor.c`, FatFs, heap; `43_font`, `48_video`, the LVGL programs |
| processor flash (`bsp/internal_flash.c`) | none | erase of a sector, write of words | `38_internal_flash`, `iap.c` |
| serial ports (`bsp/usart.c`) | `tx_busy`, receive ring, DMA buffer, callback | write (blocking, interrupt, DMA), read, three interrupt handlers, `__io_putchar` | ring buffer, HAL, `04_usart`, `19_dma`, `15_usmart`, `35_imu` |
| Ethernet interface (`port/.../ethernetif.c`) | transmit semaphore, receive pool, `RxAllocStatus`, the vendor's descriptor ring | output, input thread, free callback, 4 interrupt callbacks, RMII watchdog | lwIP thread, input thread, interrupt |
| lwIP system layer and bring-up (`sys_arch.c`, `lwip_comm.c`) | mailboxes, semaphores; DHCP state | post, fetch, wait; link and DHCP threads | FreeRTOS queues, lwIP |
| heap (`lib/malloc/malloc.c`) | a block map per memory bank | malloc, free, realloc, perused | players, LVGL, fonts |
| audio (`bsp/sai.c`, `lib/audio/wavplay.c`) | two buffers, which of them the DMA plays | play, fill, transfer-complete callback | DMA interrupt against the decoder's loop |
| camera (`bsp/dcmi.c`) | two line buffers, frame flag | line callback, frame callback | DMA interrupt against the display loop |
| analog (`bsp/adc.c`, `dac.c`) | sample buffer, done flag | start, average | DMA interrupt |
| inputs (`key.c`, `tpad.c`, `ir.c`, `touch*.c`) | debounce and capture state, last point | scan; capture interrupt | timer interrupt against polling |
| file system glue (`diskio.c`, `exfuns.c`, `lv_port_fs.c`) | none to speak of | dispatch with retries | NAND, NOR, SD card |
| USB device and host glue | media table, line state | storage callbacks, CDC and audio callbacks | USB interrupt |
| application update (`iap.c`) | image in RAM | check and copy | internal flash |
| players (`videoplayer.c`, `mjpeg`, `gif`, ...) | decoder state | frame loop | timer, audio |
| console (`lib/usmart`) | command line, table of functions | parse, call, timed execution | serial port, timer |
| bus drivers and sensors, displays, timers, power | registers | set-up and transfers in busy loops | HAL |

`PROJECT.json` lists every part with its files and whether it is modelled.

### Where it is hard

* **Shared state without locks.** The ring buffer relies on one writer per index. The translation
  layer relies on one thread.
* **Power.** The translation layer keeps on the chip only one tag and one mark per block, and
  rebuilds its table from them. Every move, refresh and format is a sequence of chip commands any
  of which may be the last.
  The font store keeps one descriptor, written last; a sector of the NOR chip is erased and
  programmed again around the few bytes that change.
* **Failing commands.** Each chip command may time out, carried out or not; some results are looked
  at, some dropped.
* **Exhaustion.** Every failed copy takes one more block out of use, if the mark that is to do so is written.
* **Interrupt against thread.** Ethernet transmission waits for an interrupt with a time limit and
  then recovers; reception gives buffers to the DMA in one context and takes them back in another;
  the serial port's DMA goes on writing the buffer the interrupt handler is reading.

### What makes each part correct

* Ring buffer: it is a queue. Nothing is lost, repeated or reordered, whatever the interleaving.
* Translation layer: it is an array of sectors. A write changes its own sectors and nothing else; an
  acknowledged sector survives starts, moves, refreshes and power cuts; a logical block that was
  handed out is always on the chip; a formatted chip is never formatted again on its own; every
  request ends.
* Serial port: bytes arrive in order and once, each transfer waits for the one before it, and a
  writer can tell when its buffer is free.
* Ethernet: a frame is reported complete by its own completion; a receive that ran out of buffers
  resumes once there are some; no buffer is owned twice.
* Heap: blocks in use do not overlap, and freeing returns exactly what was given.
* Double buffers (audio, camera): the CPU never touches the half the DMA is on.
* NOR flash: a write changes its bytes and nothing else, though bits can only be cleared, pages
  wrap and only sectors can be erased; a power cut spoils one sector.
* Font store: a valid descriptor stands for whole fonts, whatever was cut short before, and an
  update leaves the areas before and behind it alone.

## 2. The modules

| module | models | role |
|---|---|---|
| `ByteQueue` | | what a byte channel promises: a bounded queue, of which a get hands over the oldest byte and then frees its place |
| `RingBuf` | `common/ringbuf.h` | the ring with each access to a shared field as a step; implements `ByteQueue` |
| `SectorStore` | | what the translation layer promises: an array of sectors, of which a write changes its own and no others, and which acknowledges no write past its end |
| `Nand` | `bsp/nand.c` and the spare-area helpers of `ftl.c` | the chip: contents, marks and what each command leaves; extended by `Ftl` |
| `Ftl` | `bsp/ftl.c` | the translation layer; implements `SectorStore` |
| `FtlInv` | | the inductive invariants of `Ftl`, for the runs and for the proofs |
| `EthTx` | `ethernetif.c` (output) and the transmit half of the vendor's `stm32f4xx_hal_eth.c` | the thread, the descriptor ring, the chip and its interrupt |
| `EthRx` | `ethernetif.c` (input, the pool, the free callback) and the receive half of the driver | the input thread, the threads that free, the descriptor ring, the chip |
| `Usart` | `bsp/usart.c` | one serial port in each of its modes: main loop, interrupt handlers, shift register, DMA streams |
| `Malloc` | `lib/malloc/malloc.c` | the block map of one bank and the bytes behind it |
| `ByteStore` | | what the NOR driver promises: an array of bytes |
| `Nor` | `bsp/nor.c` | the chip's array and its commands, `nor_write` and `nor_write_erased` as steps; extended by `Fonts` |
| `Fonts` | `lib/text/fonts.c` and the programs that start it | the font store and its neighbours on the chip; implements `ByteStore` |
| `MCFtl`, `MCUsart`, `MCMalloc`, `MCFonts` | | symmetry and the constants a configuration cannot write |
| `RingBufProof`, `FtlProof`, `EthTxProof`, `EthRxProof`, `MallocProof`, `UsartProof`, `FontsProof` | | the proofs about the module of that name |
| `Rounds` | | going round a ring of N places; used by the two Ethernet proofs |

In several modules a definition is followed by, or preceded by, a variant of it whose comment starts
with "A slip in": a plausible mistake in the same code. Nothing uses these definitions; the
`mutants` of `PROJECT.json` say which property each of them breaks.

### RingBuf

`buf`, `head`, `tail` and `Size` are the fields of `ringbuf_t`. The producer runs
`PutBegin` (reads `head`, works out `next`), `PutFull` or `PutRoom` (reads `tail`), `PutStore`,
`PutPublish`; the consumer `GetEmpty` or `GetBegin` (reads both indices), `GetLoad`, `GetRelease`.
The comparison in `ringbuf_get` reads two volatile fields in one step: `tail` belongs to the consumer,
so only the read of `head` matters. `held` is a ghost.

### Nand and Ftl

The chip's contents are `main` (one value per sector), `weak` (sectors with a correctable bit
error), `tag` (logical block number in the spare area of page 0), `used` (the used mark) and `bad`
(bad-block marks of page 0 and page 1). `lut`, `good`, `valid` and `cur` are the RAM of the layer:
`nand_dev.lut`, `good_blocknum`, `valid_blocknum` and the static `curblock`. `job`, `cp` and `loop` are
the locals of the functions in progress.

A C function that sends several commands to the chip is split so that a step sends at most one, and
`pc` says where the layer is:

| `pc` | action | code |
|---|---|---|
| `off` | `Boot` | `ftl_init` (20-58); the start-up check of `54_usb_device_msc` |
| `fmtErase`, `fmtMark`, `fmtMark2`, `fmtTag` | `FmtErase`, `FmtMark`, `FmtMark2`, `FmtErased`, `FmtTag`, `FmtTagged` | `ftl_format` (547-615) |
| `write`, `wrUsed` | `WriteInPlace`, `WriteMark`, `WriteMove`, `Outside`, `WriteDone` | `ftl_write_sectors` (230-314) |
| `cpFind` | `CopyFind`, `CopyNoBlock` | `ftl_find_same_plane_unused_block` (122-148) |
| `cpPage`, `cpMark`, `cpMark2`, `cpUsed`, `cpErase` | `CopyPageStep`, `CopyMark`, `CopyMark2`, `CopyUsed`, `CopyErase` | `ftl_copy_and_write_to_block` (150-214) |
| `read` | `ReadPage`, `ReadRefresh`, `Outside`, `ReadDone` | `ftl_read_sectors` (316-389) |
| `rfBlank`, `rfZero`, `rfFill`, `rfErase`, `rfMark`, `rfMark2` | `RefreshBlank`, `RefreshZero`, `RefreshFill`, `RefreshErase`, `RefreshMark`, `RefreshMark2` | `ftl_blockcompare` (447-486) and `ftl_read_sectors` (355-372) |

`ftl_badblock_mark` (60-65) is two commands, and so two steps wherever it is called: `MarkPage` of page 0 and of page 1.
Its results are dropped: each of the two may be carried out or not, whatever the other did.
`ftl_create_lut` and the searches only read the chip and are part of the step that calls them.

The environment may cut the power (`PowerCut`, at the places of `CutWhen`), flip a bit (`BitError`) and
let a command time out (`Outcomes`): the driver returns an error, and the chip may or may not have
done the work. `left` holds what is left of the bounds on all of this; the writes of a mark that are not carried out have
a bound of their own (`MaxMark`), for a mark that is carried out and reported as failed changes nothing.

Ghosts: `acked` is what was last acknowledged for a sector; `cap` how many logical blocks the last format
handed out. `torn` are the logical blocks whose move was cut off, lost data in a retry, left an unfinished copy that
neither mark took out of the table, went to a block that was not erased, or left its source unerased, and those a format
left on blocks it could neither erase nor mark: for their data the layer makes no promise a property could state.
`adrift` are the logical blocks refreshed when no unused block was left, those moved to a block that is marked on page 1
only, which the next start does not find, and those that later shared a block with one of them (`Entangled`). A format ends both.

### EthTx

The driver's handle is `own`, `points`, `addr`, `cur`, `rel` and `inUse` (the OWN bit, DESC2 and `PacketAddress` of
each descriptor, `CurTxDesc`, `releaseIndex`, `BuffersInUse`); `tok` is `s_tx_semaphore` and `ts` the transmit
flag of `DMASR`. Three actors run side by side:

| actor | actions | code |
|---|---|---|
| the thread (`pc`) | `Refuse`, `Transmit`; `Taken` or `TimedOut`; `ReturnOk`, or `ReleaseLate` and `DropToken` | `low_level_output`, `HAL_ETH_Transmit_IT`, `HAL_ETH_ReleaseTxPacket` |
| the chip | `Send` | |
| the interrupt | `TxCplt` | `HAL_ETH_IRQHandler`, `HAL_ETH_TxCpltCallback` |

`late` counts the outputs that timed out, and `slipped` says that one of them returned before its own
completion had been signalled. From then on every output may return on the completion of the one
before, which is why `HeldBound` and `OkMeansSent` stop there; `eth_tx_early` shows that it happens.

### EthRx

`desc`, `readIdx` and `build` are the driver's ring, `pool` counts the free buffers, `status` is `RxAllocStatus`.
It is read and written by several threads without a lock, so that its accesses are steps.

| actor | actions | code |
|---|---|---|
| the input thread (`rpc`) | `Wake`, `Gate`, `ReadData`, `Build`, `BuildFails`, `NoteFailure`, `Deliver`, `Reject` and the free that follows it | `ethernetif_input`, `low_level_input`, `HAL_ETH_ReadData`, `ETH_UpdateDescriptor`, `HAL_ETH_RxAllocateCallback` |
| each thread that frees (`fpc`) | `Free`, `FreeTest`, `FreeSet`, `FreeGive` | `pbuf_free_custom` |
| the chip, the interrupt | `Arrive`, `Interrupt` | `HAL_ETH_RxCpltCallback`, `HAL_ETH_ErrorCallback` |

`missed` marks one race that the code has: the allocation fails, and before `RX_ALLOC_ERROR` is stored a
buffer comes back and its free finds the status still good. If that was the last buffer outside the ring,
nobody starts the reading again. `StopsOnlyIfRescued` and `FramesRead` hold outside this race.

### Usart

`busy` is `tx_busy`, `left` the rest of a transfer (`tx_ptr` and `tx_len`, or what the stream has to move), `buf`, `head`
and `tail` the ring, `at` the place the receive stream writes next. `pc` says where the main loop stands
in a polled write, a print or a polled read; `irq` where `usart_irq` stands, because the hardware
goes on between its reads of the status register:

| `irq` or `pc` | actions | code |
|---|---|---|
| `irq = "out"` | `IrqTx`, `DmaIrq` | `usart_irq` up to its reception part (455-484), `usart_dma_tx_irq` |
| `rx`, `take`, `ore`, `idle` | `IrqSee`, `IrqTake`, `IrqOre`, `IrqIdle` | the rest of `usart_irq`, `usart_rx_deliver` |
| `pos`, `copy` | `IrqPos`, `IrqCopy` (a byte per step) | `usart_dma_idle` |
| `pc = "idle"` | `WriteIt`, `WriteDma`, `WritePoll`, `PutChar`, `Read`, `PollSee` | `usart_write`, `__io_putchar`, `usart_read` |
| `busy`, `txe`, `tc` | `PrintWait`, `WaitTxe`, `WaitTc`, `WaitTimesOut` | `__io_putchar`, `usart_tx_wait` |
| `take`, `clear` | `PollTake`, `PollClear` | `usart_read` (426-437) |

The interrupts preempt the main loop and not the other way round (its steps need `irq = "out"`).
Each of the ring's calls is one step here: `RingBuf` is about the accesses inside them.
`due` and `owed` are the bytes on their way in each direction; `gaveUp` says that a wait timed out or the stream
failed and bits of it are still in the registers; `over` that the receive stream lapped the reader.

### Malloc

`map` is `memmap[memx]`, `offset` and `cmemb` the locals of `my_mem_malloc`. A pointer is the offset of its first byte. The
turns of the loop are steps: `Begin` (up to the loop), `Scan` (a turn that does not find enough),
`ScanFound` or `ScanNone`, and for `myrealloc` then `Move` (the copy and the free). `Free` is `myfree`; `Fill` is the
program, which marks all it asked for as its own. `asked` and `kept` are ghosts: the size of an
allocation, and how many of its bytes its owner has written.

### Nor and Fonts

`flash` is the chip, one value for each programming unit. The cells of the areas stand for bytes; the descriptor
(`ftinfo`, an array of structures in the code) is one cell for `fontok` and one for the
entry of each font, and lies within one sector, as in the code. A program clears bits: over a value that is
neither blank nor the same it leaves `Mixed`. `nor` says where the driver is, `rest` what `nor_write` and `prog` what
`nor_write_nocheck` has left to do, `checks` which of the two was called. Each command to the chip is a step.

| `at`, or `nor` | actions | code |
|---|---|---|
| `nor`: `sector`, `erase`, `page` | `LookSector`, `EraseSector`, `ProgramPage` | `nor_write` (217-265), `nor_write_nocheck` (175-198) |
| `off`, `init`, `again` | `PowerOn`, `FontsInit`, `FontsInitAgain` | `fonts_init`, `fonts_lvgl_ok` and their callers |
| `update`, `size`, `erase` | `UpdateFont`, `SizeFile`, `EraseLoop` | `fonts_update_font` (208-264) |
| `open`, `read`, `copy` | `OpenFont`, `ReadChunk`, `Copied` | `fonts_update_fontx` |
| `seal`, `sealing` | `Seal`, `Sealed` | `fonts_update_font` (280-288) |
| `idle`, `other` | `Refresh`, `OtherWrite`, `OtherDone` | KEY0 in `43_font`; `disk_write`, the USB callbacks, the image store |
| any of the update | `UpdateFails` | the early returns |

`PowerCut` takes any stage; a page program or a sector erase under way has then reached any part of its
bytes. `EraseCut` is the cut during the erase of a block of 64 KB, of which one of the parts of `Reach` is erased. When that is the
first block and the old `fontok` is spared, `half` is set. `was` is a ghost: the array before the sector was erased, which is what
a reader of the abstract store sees until the sector is whole again.

## 3. The runs

| run | about | bounds | distinct states |
|---|---|---|---|
| `ring` | order, contents and refinement of the ring | 2 byte values, 4 slots; no bound on the length of the run | 5216 |
| `ftl_store` | the layer is an array of sectors | 4 blocks of 2 pages of 2 sectors, requests of up to 3 sectors across pages and blocks and past the end of the array, 2 requests, 1 power cut outside moves and refreshes, 1 bit error | 143341 |
| `ftl_worn` | no logical block is lost unless it is adrift, and every request ends | 6 blocks, one marked on page 0 and one on page 1 from the factory, any number of program and erase timeouts, 2 writes of a mark not carried out, 1 bit error; fair | 821792 |
| `ftl_all` | everything together: what was acknowledged is read back, and until a move goes wrong each step is one of an array of sectors | 6 blocks of 2 pages of 1 sector, requests of 1 sector to two logical blocks, 2 data values, 1 timeout (program or erase), 2 writes of a mark not carried out, 1 bit error, 1 cut between any two commands, 5 requests | 1352940 |
| `eth_tx` | frames are held until sent, released once, reported sent when they are | 3 descriptors, chains of up to 4 segments, 5 frames | 137477 |
| `eth_rx` | no buffer is lost, reception resumes after an empty pool | 2 descriptors, 4 buffers, 2 threads that free; fair; no bound on the length of the run | 26258 |
| `usart` | both directions of a port, in each pair of modes the programs use | a ring of 3, writes of up to 2 bytes, 2 byte values in the direction in question; fair; no bound on the length of the run | 338096 |
| `malloc` | allocations apart, the map exact, data kept, refused only if full | 4 blocks of 2 bytes, 3 pointers, sizes 0 to 9; no bound on the length of the run | 247593 |
| `fonts` | the descriptor stands for whole fonts, the driver for an array of bytes | pages of 4, sectors of 8, blocks of 16 on a chip of 64; two cards, one whose fonts (8 and 21 bytes) fill the area, one smaller (5 and 9); 3 writes by others; 2 power cuts or failures, erases cut short in 4 ways; fair | 253702 |
| `ftl_retry`, `ftl_wipe`, `eth_tx_early` | disagreements, below | the smallest instance that shows each | |

Why the bounds are enough for what the properties are about. Four slots let the ring be empty, full
and wrapped with both sides in the middle of an operation, and its index arithmetic has no other
cases; the proof covers every size. Four blocks with two logical blocks handed out leave one unused block in
each plane (even and odd), so that a move succeeds, and a second in the same plane needs the
block the first one freed; six blocks leave room for a failed copy and its retry. In `ftl_all` six blocks hand out three
logical blocks and leave three unused, so that a move can take the block that a refresh or an earlier move of another
number has freed; with four blocks and two requests this does not happen, and five requests are a write of each of two
blocks, a refresh, a rewrite and a read. Three timeouts in a row, after which a refreshed block is marked bad, happen in `ftl_worn`. Two writes of a mark that are not carried out are
neither mark of a copy, or one page each of two copies. Two pages are the least
for which a move can be cut off with page 0, and so the tag, copied and the rest not; two
sectors to a page are the least for which a page can be partly written. Requests of three
sectors cross a page and a block. `MinBlocks` and `FormatPercent` are scaled down (100 blocks and
93 percent in the code) so that a chip of four blocks can be formatted, and the runs keep what
their relation decides: a format can fail, and the lost block drops the count below the limit.

Three descriptors let a frame take one, several or all of them, and a chain of four segments is
longer than the ring; five frames go round the ring more than once, with up to four others between a time-out
and the completion that belongs to it. Two receive descriptors with four buffers let the ring be
full, partly built and bare, while the pool is empty; two threads race for `RxAllocStatus` with the input
thread. A serial ring of three holds two bytes: empty, full, wrapped, and lapped by the stream. Four heap blocks
allow three allocations with one free block between them, in any place, and runs of all lengths up
to the bank; the sizes include zero, one byte, exact multiples, and one byte more than the bank.

In `fonts` the area has two blocks of two sectors of two pages: a font begins and ends anywhere in a page, crosses
pages, sectors and blocks, and is exactly one chunk or more. The second fault lets an update
that repairs the damage of the first be cut short in turn; of the other writes one lies on two sectors, one holds a
blank byte, one is behind the fonts. A second card matters because a set must not be mixed of two.

Liveness is checked in `ftl_worn` under weak fairness of `Step`, the layer's own code: it is a
single thread of straight-line code and bounded loops, and goes on while the power is on. Nothing is
assumed of programs and erases: they may time out for ever. Of the marks it is assumed that finitely many are not carried
out: `RequestsEnd` is false without it. When the copy of page 0 and the mark of page 0 time out undone, line 194
finds the same block again, and on a chip where this goes on the request never ends. In `eth_rx` the input thread, the interrupt and each
thread that frees are weakly fair: FreeRTOS runs every ready thread that is not starved by a higher one, and
what lwIP and the applications hold they free in the end. Nothing is assumed about when frames
arrive. In `usart` the hardware and the handlers are weakly fair, and the main loop's waits strongly: a
handler is shorter than the time of a byte, so that between two interrupts the main loop goes on; the
hardware never hands out two interrupts without a pause in which the loop could see its flag.
In `fonts` the program's own steps are weakly fair, the one that turns the power on again
among them: the program is a single thread that waits for the chip. Nothing is assumed of users, files or power.
`CHECK_DEADLOCK` is off where the system may stop: in the runs of `Ftl` and `EthTx` after the last
request of the bound, in `eth_rx` and `usart` when nothing arrives and nothing is in hand.

### Disagreements

Each of these runs checks one statement the repository makes and finds a behaviour of the code
that breaks it.

* `ftl_retry`: `41_nand` reports "Write data successed" when `ftl_write_sectors` returns 0. When a page of a
  move fails after new data were programmed, the retry (line 194) no longer has those data, and
  the write still returns 0.
* `ftl_wipe`: `PLAN.md:311-312` says the start-up format happens once. A read that refreshes a block
  when no block is unused erases the only copy (the result of line 355 is dropped); the next start
  counts too few blocks and formats.
* `eth_tx_early`: a comment in `low_level_output` (174-175) says that dropping the token after a time-out keeps the
  next frame from returning `ERR_OK` before its own completion. The token of a frame that completes later
  than that is left for the next output, which returns at once.

The passing runs state what holds beside these, and beside these behaviours, which no document
contradicts:

* After a power cut between lines 360 and 361 of `ftl.c`, or a timeout of the erase of line 361, whose result is dropped,
  a zeroed block passes for an unused one, and the next move programs over the zeroes. `CopyFind` marks the logical block
  whose move takes such a block `torn`; `ReadBack` exempts it, and those whose retry lost data.
* When a refresh finds no unused block (line 355), the table still leads the number read to the block that is then erased.
  The block is now unused and the next move of another number may take it: two numbers lead to one
  block. A write to the first changes data of the second, and when the block moves again, the loop of line 205 stops
  at the first entry and leaves the second behind. `Entangled` collects the numbers that share a block with
  one that is adrift; `LutCoherent`, `ReadBack`, `NoReformat` and `NoLbnLost` exempt `adrift`, and hold for every other number.
* `ftl_find_unused_block` looks at page 0 only (line 110), `ftl_check_badblock` and `ftl_create_lut` at both pages. A block marked on
  its second page alone, by the factory or because the first write of `ftl_badblock_mark` was not carried out (its result is
  dropped at line 63), passes for unused. The copy succeeds, the source is erased, and the next start drops the copy: the logical
  block is lost, and with it every higher one (line 430). `CopyFind` marks the number `adrift`; `NoLbnLost`, `LutCoherent` and
  `ReadBack` hold for every other one, and `NoReformat` as long as none is adrift.
* When a copy fails and neither mark is carried out, the copy carries the number of the source and passes for sound: the table may
  lead to it. The loop of line 205 then no longer finds the source in the table, and the source is erased. `CopyMark2` marks
  the number `torn`.
* When frames that timed out occupy the ring, the next output is refused, and a refused output releases
  nothing: even if they have completed since, every later output is refused too.
  `HeldBound` says how many pbufs can be held so.
* The race of `RxAllocStatus` above (`missed`).
* When `mymalloc` fails in `fonts_update_fontx` (`fonts.c:100`), the font is skipped with `FR_OK`: the next ones are placed
  after a stale address and the descriptor is written as valid. `FontsWhole` fails once the model allows it.
  `Fonts` gives an update its memory (4 KB, taken right after a start).
* `fonts_update_font` does not take the old descriptor back before it erases: a power cut in the middle of the
  erase of the first block (line 261) may spare it while fonts are spoilt, and the next start accepts them if the
  headers of the XBF fonts were spared too. `FontsWhole` and `DrawnRight` hold outside this case (`half`), so that
  it is the only one; without the exception the run of `fonts` finds it.
* Programs that start with `fonts_init` alone (`43_font`, `48_video`) accept a descriptor that a power
  cut left with `fontok` written and the entries not. `DrawnRight` is about those that also call
  `fonts_lvgl_ok`.

## 4. The proofs

All for every value of the constants that satisfies the named assumptions.

* **RingBufProof.** `IInv` is `TypeOK`, the contents of the ring, and what each side has established and the
  other cannot undo: the producer past its test still has room (`ProducerView`), because the consumer
  only makes more; the consumer past its test still has a byte (`ConsumerView`), because the
  producer writes only the free slot at `head`. Without these two the contents are not inductive: the
  step that publishes would not know that the ring was not full. From `IInv` follow `TypeCorrect`, `ContentsAlways`,
  `GetsOldestAlways` and `ImplementsQueue` (the refinement of `ByteQueue`, which says the same of the byte that a get hands over).
* **FtlProof**, first part. `TypeCorrect`: types of the chip and the RAM, and the control facts of `ControlOK`: a
  request never runs past its length, a move has a source and a destination on the chip. One lemma per
  chip command and one per group of actions.
  Second part: `Safe` is the inductive invariant behind `NoLbnLost`. `NoLbnLost` alone is not
  inductive: erasing the source of a move keeps the logical block only because the copy carries
  its number on a sound block (`MoveSafe`), marking a failed copy keeps it because the source is still
  there, the refreshed block may be destroyed because another carries its number (`RefreshSafe`), the
  table must not lead to data on a marked block (`TableSafe`), or the copy would inherit the mark (it does between the two writes of a mark,
  where nothing is moved),
  and a format must hand out fewer numbers than there are blocks (`FormatSafe`), or the number of blocks, which
  stands for "no tag", would be one of them. The marks may fail one by one and the factory's may be anywhere: what a copy to a block marked on
  page 1 only carries is `Forsaken`, and the invariant says nothing of it.
  Third part: `LutCoherent`. The table has to know every carrier (`TableTrue`), and a moved or refreshed block must have
  no second number that leads to it or to the copy (`MoveAlone`): the update of line 205 stops at the first entry.
  Fourth part: `ReadBack`, for the logical blocks that are neither torn nor adrift (`Kept`). `Held` says where the data
  of each sector are: on a block that carries the number, to which the table leads, and which is not the copy in
  the making. It counts the sectors of a write in progress as soon as the write has passed them (`Due`), because a
  request promises nothing before its end (`AckedOK`). At a restart the table is rebuilt from the chip and takes the
  highest carrier: that it is the block of `Held` needs `OneCarrier`, kept through a move by `OwnTag` and through a
  format by `FormatFresh` (a number that a format could not wipe off is torn). That the copy is as good as its source when the source is erased is `CopyTrue`, page by
  page: pages already copied hold the old data or the new, the rest of the copy is blank, and what is left in the
  buffer is what belongs from here on, also after retries, and for every size of page and sector. `Programmed` carries the same
  over the step from programming a page in place to marking its block used. `Sound` is all of this together, and is an
  invariant of `ftl_all`.
  Fifth part: `StoreSteps` (`StoreStep`). Every step that leaves nothing torn or adrift is a step of `SectorStore`, or cannot
  be seen, whatever else times out or is not marked and wherever the power goes. `Contents` follows the table in RAM, and with the
  power off the one that the next start will build; that these agree is `OneCarrier` again. Three facts
  are needed beside `Sound` (`StoreInv`): a chip that a start accepts although no format has ended on it is blank
  (`FormatBlank`: the power may go between the last two commands of a format); the array ends at the first number that nobody carries,
  and `valid_blocknum` stays there through every rebuilding of the table (`StoreEnds`), or a write
  could be acknowledged past the end, since `ftl_lbn_to_pbn` compares with `>`; and a write has not passed
  the end (`RequestWithin`).
  Sixth part: `ImplementsSectorStore` (`StoreSpec`), the refinement itself. It holds when nothing harms a move (`Undisturbed`): no
  command times out (`NoFaults`), the power is not cut during a move or from the zeroing to the erase of a refreshed
  block (`CutsBetween`), the factory marks no block on page 1 alone (`FirstPageMarked`), the start-up check asks for no more than a format hands out (`CheckHolds`, 90 and 93 percent
  in the code), and the blocks that the format leaves over are not all in one plane (`SpareBlocks`). The run `ftl_store` has constants of this kind.
  `Unharmed` is the inductive invariant that shows that these suffice, so that nothing is ever torn or adrift: no block is ever marked
  (`NoneMarked`); a format numbers the lowest good blocks, and a start counts as many as it wants
  (`ShareKept`); each plane has an unused block whenever a move begins, since a move leaves its source
  unused in the plane of its copy (`SpareKept`); and unused blocks are erased (`UnusedErased`), or `CopyFind`
  would take a dirty one. From the same invariant follow `FormatOnceAlways` and `WriteToldAlways`: the two
  statements of the repository that `ftl_wipe` and `ftl_retry` refute are true as long as nothing harms a move.
  `NoReformatAlways` and `StoreSteps` are about `ftl_init` alone (`CheckPercent = 0`). The theorems of the first five parts hold for
  any factory marks, any number of timeouts of either kind and any number of marks not carried out.
* **EthTxProof.** The properties of the ring need to know more than they say. `Run` strengthens `OwnedRun`: the
  chip's descriptors are one run from `dma` to `CurTxDesc`, and every descriptor in it has its frame's pbuf
  recorded further on in the same run. `Counts` and `Distinct` say that a recorded pbuf is held exactly
  once; `Lap` that `BuffersInUse` is the way from `releaseIndex` to `CurTxDesc` plus whole rounds, for it may exceed the
  number of descriptors; `Reach` that every recorded pbuf lies within it. `Quiet` (without `slipped` nothing is
  in flight between calls) and `HeldCount` give `OkMeansSent` and `HeldBound`. All six invariants of the run are proved, for every ring,
  every chain and every number of frames.
* **EthRxProof.** `RingOrder` and `BuffersKept` are inductive once `ThreadView` says what holds where the thread stands.
  `StopsOnlyIfRescued` needs `FailView`: a failed allocation proves that a buffer is outside the ring,
  because the ring, with a descriptor bare, cannot have them all; it stays outside, or comes back to a thread
  that has yet to test the status, until the failure is noted.
* **MallocProof.** The invariant adds to the properties of the run that a pointer is the first byte of a run inside the bank
  (`PointerView`) and, for the loop, that the blocks counted are free, that the next one up is not, and
  that no run further up is long enough (`ScanView`). Exactness of the count is what makes the last one
  inductive. The rest is arithmetic: runs of blocks that are apart have their bytes apart (`BytesApart`), for
  every block size. All five properties of the run are proved, the refusal as an action property.

* **UsartProof.** One invariant for each direction. `TxInv` relates `tx_busy` to the enable bits, the stream and TC (`TxLine`,
  `TxFree`): `Stream` alone does not say who may still write the data register. `RxInv` places `head` between `tail` and
  the stream (`InRing`, `InBuffer`), and during the copy of `usart_dma_idle` its goal between `head` and the stream
  (`RxCopy`). All five invariants of the run are proved, for every ring, every size of write and every pair of modes.
* **FontsProof.** `IInv` has three layers. `DriverOK` says what the driver has done where it stands: the stretch it was called for is
  programmed up to `prog` and blank behind it (`Paging`), so that a program never meets a byte that is not
  blank, on whatever page it starts. `Locals`, `Filled` and `Sealing` follow an update: fonts copied before the
  present one are in place, the rest of the area is blank up to the end of the set (this is what makes
  `nor_write_erased`, which does not look, correct), and so is the descriptor's place until it is written.
  `Store` adds what a start may find: no descriptor, or one whose fonts are there though entries of its own may be
  missing (`DescriptorTrue`). `ImplementsByteStore` is the refinement: until a rewritten sector is whole, the abstract
  store still holds what it held before the erase (`was`), and the cut of a call is the loss of that one
  sector. The arithmetic of pages, sectors and blocks is proved for every geometry in which each divides the next.

Only model-checked: `RequestsEnd`, `FramesRead`, `Completes` and `Starts`: liveness under fairness is out of the
prover's reach. Every invariant, action property and refinement of a passing run has a theorem.

## 5. What the models leave out

* Nand and Ftl: programming of a page is atomic (no page is half programmed by a power cut); erasing a
  block is atomic. The FAIL bit is never read by the driver: a failure the chip reports in it
  would pass for success, with any contents; such failures are not modelled, and no promise would survive
  them. Reads do not time out. There are no errors the ECC cannot correct: `ftl_read_sectors` turns `NSTA_ECC2BITERR` into
  success (374-377) and the read returns 0 with wrong data, so that `ReadBack` says nothing of such errors. Bit errors affect
  main areas, not spare areas. The ECC words in the spare area move with their page.
* Nand: a mark on page 0 is written over the number and the used mark beside it; the code reads neither of them on a block so marked, and
  the model keeps them. A number written over another leaves the bits of both; the model has any number not above
  either (`Merged`), which includes the one the chip holds.
* The check of `54_usb_device_msc` (reformat below 90 percent of the good blocks) is made once, at `Boot`,
  when `ftl_init` did not format, and not again after its own format. Its value for the other users is 0.
* `ftl_search_badblock` is not compiled in (`FTL_USE_BAD_BLOCK_SEARCH` is 0).
* EthTx and EthRx: the chip's registers for start and poll demand (a demand that comes too early or is missed),
  fatal bus errors, the RMII watchdog that resets the MAC, the set-up of MAC and PHY, and frames longer than one receive
  buffer. `HAL_ETH_ReleaseTxPacket` is one step: only the thread that calls it writes what it looks at, except the
  OWN bits, which the chip only clears. Interrupts set and clear `DMASR` as one flag per direction.
* Usart: initialising a port again while it is in use, what callbacks do, parity and framing errors. A
  transmit stream is faster than the line. When the receive stream laps the reader (`over`), nothing is promised
  until the reader has caught up; the handler then gives the byte it could not store to the callback
  again at the next idle interrupt. No program of the repository receives by DMA.
* Malloc: one bank, whose neighbours do not touch it; one thread that allocates, as in the programs. Bytes that
  were freed or never written are junk. `my_mem_perused` only reads the map.
* Nor and Fonts: identification of the chip, the four-byte address mode, `nor_erase_sector` called by itself; an
  interrupted program or erase leaves each byte old or as it was to become. `StartAssumption` has the fonts of a card fit the area: `fonts_update_font` does not check that they do, and
  bigger files would take the image store. Two writers at the same time: `disk_write` takes no lock, and the programs that use fonts
  and volume have one task that does.
* Everything listed `not_modelled` in `PROJECT.json`, with the reason there.

## 6. The plan

Done: the ring, the translation layer, the Ethernet interface in both directions, the serial port, the heap, the NOR
driver and the font store, with proofs for all of them. Next, in the order of what matters most. Each new module
gets one run that asks all of its questions at once.

1. `DoubleBuffer`: the two buffers between DMA interrupt and loop of `sai.c` with `wavplay.c`, and of `dcmi.c`.
2. `Storage`: `diskio.c` and the USB storage callbacks over `SectorStore`: dispatch, retries and mutual exclusion.
3. `Key`, `Ir`, `Touch`: scanners and capture state machines; `SysArch`, `LwipComm`, `Iap`, `VideoPlayer`.
