# TLA+ models of zynq_linux

The repository builds Linux for Zynq boards: kernel drivers, FPGA cores, the
programs that exercise them, and the scripts that put it all on an SD card.
This directory holds formal models of the parts that have behaviour of their
own, the TLC configurations that check them on small instances, and TLAPS
proofs of the most important invariants for every instance.

Short names for the sources used below:

| | |
|---|---|
| U | `src/kernel/drivers/rpmsg_user_dev_driver.c` |
| P | `src/kernel/drivers/rpmsg_proxy_dev_driver.c` |
| K | `src/kernel/drivers/rpmsg_echo_test_kern_app.c` |
| C | `src/kernel/drivers/clk-dglnt-dynclk.c` |
| V | `src/projects/hdmi_out/ip/digilent/ip/axi_dynclk_v1_0/src/axi_dynclk.vhd` |
| M | `mmcme2_drp.v` beside V |
| R | `src/kernel/drivers/rtl8192cu/core/rtw_recv.c` |
| W | `src/projects/axi4/ip/axis_ram_writer_v1_0/hdl/axis_ram_writer.v` |

## 1. The system

**OpenAMP messaging.** The second core of the Zynq runs bare-metal firmware.
Linux talks to it over rpmsg channels. U and P make a character device of each
channel: a callback in the kernel puts the remote's messages into a kfifo,
`read` takes bytes out and blocks while there are none, `write` copies into a
buffer of the device and hands it to the bus. P adds an endpoint of its own. K
runs an echo test inside the kernel, driven by a work item and the callback.
Three programs in `src/sw/openamp` use the devices: `echo_test.c`,
`mat_mul_demo.c` (two threads) and `proxy_app.c` (serves the remote's system
calls).

**HDMI pixel clock.** C is a driver of the Linux clock framework. It searches
for multiplier and dividers of the FPGA's clock manager (MMCM), encodes them
into registers, and starts the core V. V has a control machine that waits for
the enable bit, pulses SEN, and waits for SRDY; M is the machine that walks a
table of 13 words and performs a read-modify-write of one MMCM register per
word.

**AXI streams.** `src/projects/axi4` copies memory through the FPGA: a RAM
reader turns bursts into a stream, a packetizer lets a number of words
through, a RAM writer turns them into bursts again, and `axi4_test.c` releases
their resets.

**Wireless.** `src/kernel/drivers/rtl8192cu` is a vendor's driver copied into
the tree. Its receive side puts the frames of a block-ack agreement back into
order: a tasklet, a timer, the management of agreements and the freeing of
stations work on one queue.

**The rest.** AXI4-Lite registers, edge detector, TMDS encoder, the programs
for GPIO, I2C, SPI, UART and UIO, a board support package copied from a
vendor, and build scripts.

| Part | Module | Status |
|---|---|---|
| rpmsg device, receive path (U, P) | RpmsgDevRx, ByteStream | modelled, proved, refinement proved |
| rpmsg device, transmit path (U, P) | RpmsgDevTx | modelled, proved |
| rpmsg device, module/probe/remove/open (U, P) | RpmsgDevLife | modelled, proved |
| kernel echo test (K) | EchoKernApp | modelled, proved |
| echo_test.c | EchoTest | modelled, proved |
| mat_mul_demo.c | MatMulDemo | modelled, without the arithmetic, proved |
| proxy_app.c | ProxyApp on ByteStream | modelled, proved |
| divider search and encoding (C) | DynclkMode | modelled, proved |
| clock operations (C) above the core | DynclkDriver | modelled, proved |
| reconfiguration machine (M) | MmcmDrp | modelled, proved |
| control machine (V) | AxiDynclk | modelled, proved |
| RAM reader, packetizer, RAM writer, axi4_test.c | AxisRamReader, AxisPacketizer, AxisRamWriter, Axi4Test | modelled as configured, proved |
| rtl8192cu, receive reordering (R) | RecvReorder, ReorderBuffer | modelled, proved, refinement proved |
| AXI4-Lite registers, edge detector, TMDS encoder, UIO programs | - | not modelled |
| GPIO/I2C/SPI/UART samples, encoder stub, other vendor code, scripts | - | not modelled |

Each part, with the reason when it is left out, is in `PROJECT.json` under
"components"; "map" names the source lines of every definition, and "hazards"
the places where the code is hard to test.

## 2. Modules, and how they correspond to the code

**RpmsgDevRx.** One device. `rpmsg_kfifo`, `block_flag` and `sync_lock` are the
fields of the driver's structure; `cb` is the place the callback has reached,
`rpc[r]` the place reader `r` has reached in `rpmsg_dev_read`. A step ends
where another context can run: at a lock, at the unlock before `block_flag` is
set (U:212-216), at the test of the wait queue, at sleep. The kernel's wait
queue is modelled as `wait_event_interruptible` works: queue, test, sleep, and a
wake-up that makes the reader test again. A byte is the pair of a message
number and a position, so that order and loss can be told. A copy to user space
may fault part-way; a signal may end the wait, and the code then goes on to
lock and read (U:129-136). `O_NONBLOCK` is read at each call, since `fcntl` may
change it: a reader may be in `Nonblock`, in `Blocking` or in both. `Ioctl` reads
the kfifo's length without the mutex.

**ByteStream** is what that path promises: messages enter whole and in order,
or not at all when they do not fit; bytes leave from the front, each once. The
mapping takes the kfifo for `fifo`, what user space has got for `out`, and the
last message accepted for `last` (`ImplementsStream`).

**RpmsgDevTx.** `rpmsg_dev_write`, with `copy_from_user` a byte at a time into
`tx_buff`, which belongs to the device and is not locked. Writers are a
parameter. `meddled[w]` records the bytes that other calls have put into the
buffer while `w`'s call is in progress.

**RpmsgDevLife.** `init`, `fini`, `probe` and `remove` of U and P (`proxy` is
chosen by Init) with a failure possible at every call that can fail, and `open`
and `release` of files. Device structures, kfifo, driver data, endpoint, minors,
character devices and device files are tracked; memory is none, live or freed.
`device_create` reports failure by an error pointer and the code tests for
NULL, so that failure goes unseen (U:311). So does a failure of `class_create`
(U:342): `class` is whether the kernel has the class, `rpmsg_class` whether the
module holds it or an error pointer. Without it no device file is made, and
`remove` does not return from `device_destroy` (U:332). A channel may go away by
itself or because the driver is unregistered; `lost` are the minors of channels
that went by themselves. `regions` counts the regions of this and earlier loads,
`refused` the loads whose driver could not be registered.

**EchoKernApp, EchoTest, MatMulDemo.** One module per program. They take the
device as the stream that RpmsgDevRx proves it to be. The remote is external:
it echoes payloads, possibly spoiling a byte, or multiplies. To K's first
message it may answer or not, before or after the work item is initialised.
It may send while K's `remove` runs; `late` records that the callback queued
the work item after the run that `flush_work` waits for had started.
MatMulDemo counts the stream in words of four bytes, with the padding of the
driver: a result is 37 words and its message 38, which matters because a reader
that takes 37 leaves one behind. The mutex that the demo unlocks from another thread, and the
flag it tests after taking it, are variables.

**ProxyApp** EXTENDS ByteStream. `pc` is the place of `main`, with the four
system calls as one step each and a step for a read of standard input that
blocks. The unit of the stream is the 16-byte header of a request. A signal
may come at every step; before `proxy` is allocated and after it is freed, and
in the handler that frees it, what follows cannot be predicted (`pc = "wild"`).
The remote may wait for its answers or not (`pipelined`).

**AxisRamReader, AxisPacketizer, AxisRamWriter** have one operator per core for
a clock edge and one for reset. **Axi4Test** INSTANCEs them, connected as the
block design connects them, and adds the program and the memory ports, which
accept addresses and words at any edge they like. After an upset (`early`, `cut`,
`starved`) the clock is not followed further. The flag of the writer's FIFO
is modelled with both thresholds its data sheet can be read for (`ae`).

**RecvReorder.** One traffic class of one station: `enable`, `indicate_seq` and
`pending` of `recv_reorder_ctrl`, the timer, and where the tasklet (`rx`), the
timer's handler (`tmr`) and `rtw_free_stainfo` (`free`) are. A frame is its true
number; the driver sees it modulo 4096, with the window of 64. A step ends at
the queue's lock, at handing a frame up and at `del_timer_sync`, which waits
for a running handler. An access point looks up the destination under the lock
of the station hash, which the caller of `rtw_free_stainfo` holds. Resets of an
agreement take no lock. **ReorderBuffer** is the promise: a set of frames from
which frames leave in increasing order of true numbers.

**DynclkMode.** `find_mode` as a loop, one step per turn of the inner loop, then
`find_reg` as operators. The fields are masked to their widths.

**MmcmDrp, AxiDynclk.** One step is one clock edge; all registers change
together. `rom_do` is a register one edge behind `rom_addr`. MMCM answers
(`drdy`, `locked`) come at any edge the MMCM may give them; `Skew` lets the two
machines sample LOCKED one edge apart.

**DynclkDriver.** EXTENDS AxiDynclk: each step of the driver (one register
write, one read of STAT) is an edge of the hardware, and idle edges come in
between. `set_rate` (guarded by the framework's mutex) may overlap `enable` and
`disable` (guarded by its spin lock); `clean` records whether it did, an
`enable` still polling when `set_rate` begins included. A
register's value is the rate it was computed for; what the dividers are is
DynclkMode's business.

The modules whose names end in **Proof** hold theorems and proofs.
**MC...** modules extend a specification for TLC; the `.cfg` files give the
constants their values.

## 3. Runs

| Run | Module | Question | Result |
|---|---|---|---|
| rx | MCRpmsgDevRx | does the receive path implement a byte stream; wake-ups, empty reads, one reader | holds |
| tx | MCRpmsgDevTx | whose data can a message hold, and is the result true? | holds |
| life | MCRpmsgDevLife | what may callbacks and open files find; what is left behind; does unloading end? | holds, with conditions |
| dynclk | MCAxiDynclk | what STAT promises; are SEN and the table handled right? | holds |
| dyndrv | MCDynclkDriver | does the clock run at the recorded rate; do calls return? | holds, with conditions |
| mode | MCDynclkMode | the search against a reference; encodings against a decoder | holds |
| matmul | MCMatMulDemo | rounds asked for; results printed whole; does quitting end? | holds |
| echo_test | MCEchoTest | is an echo compared with its own payload; bounds; end | holds |
| echo_kern | MCEchoKernApp | chains of payloads, true report, removal, end | holds, with conditions |
| reorder | MCRecvReorder | is the driver an ordered buffer; are frames released, stations freed? | holds, with conditions |
| proxy | MCProxyApp | is a request handled whole and answered; does a signal end the program? | holds, with conditions |
| axi4 | MCAxi4Test | is the copy right, and completed? | holds, with conditions |

### The conditions, and what they mean for the code

Where the code does not do what one would hope for, the property says under
which condition it does; the change named here makes TLC show the rest.

- **Two sleeping readers** (`SleeperServed` is checked with one reader,
  `NoLostWakeup` has a condition on readers). Two blocking readers sleep; a
  message arrives; the first takes part of it and resets `block_flag` (U:136);
  the second tests the flag again and sleeps beside data. U:214 says "Wake up
  any blocking contexts waiting for data". (rx with `Readers = {r1, r2}`, both
  blocking, `ReadLens = {1}`, `MsgLens = {1}`, `MaxSent = 1`.)
- **The first word** (`again` in `WritesMatch`). On every reconfiguration but the
  first after reset the first access uses the ROM word read before the address
  was set to 0, the last one of the table (M:263). M:243 says "Wait for the next
  SEN pulse and set the ROM addr appropriately".
- **Overlapping clock calls** (`clean` in `RunsAtFreq`, `WritesAreQuiet` and
  `CallsReturn`; the latter also lets an `enable` wait while the rate is set
  again and again). `set_rate` overlapping another consumer's `enable` may write the
  registers after the hardware has read them, and its own disable and enable
  pass unseen: the clock runs at the old rate while `freq` is the new one
  (C:440). A `disable` during its polling loop can keep it there for ever
  (C:405). `RunsAtFreq` says that the next undisturbed call repairs the rate.
- **Channel gone, file open** (`lost` in `FileReachesDevice`). Unloading waits
  for open files, because they hold the module; `remove` does not. When a
  channel goes away by itself its files lead to freed memory (U:334).
- **Proxy's driver data** (`pc = "data"` in `CbFindsDevice`). P invites messages
  before it sets the driver data its callback uses (P:297, P:305).
- **Two writers** (`meddled` in `MessageIsOfItsCalls`). They mix their data in
  `tx_buff` (U:91): a message holds, besides the bytes of its own call, bytes of
  calls that overlap it, and no others.
- **Failed registration** (`refused` in `NothingLeft`). Class and region stay when
  the driver cannot be registered (U:357). At the next load `class_create` fails
  because the class is there, and that goes unseen.
- **No class** (`rpmsg_class` in `UnloadEnds`). A load whose `class_create` failed
  binds channels that have no file, and unloading it ends only if none is bound:
  `remove` follows the error pointer (U:332).
- **K's first message** (`answered` in `OneInFlight` and `ReportIsTrue`). A remote
  that answers it starts a second chain, or the answer meets a work item that
  is not initialised (K:176); the test runs to its end all the same.
- **An echo after flush_work** (`late` in `WorkHasDevice`). The endpoint outlives
  K's `remove`, so an echo handled after the flush queues the work item on data
  about to be freed (K:196). Nothing in the code keeps the remote from it.
- **Access point** (`Embrace` in `FreeEnds` and `HeldIsReleased`). Freeing a station
  under the lock of the station hash waits for the reorder timer and the
  queue's lock, while handing a frame up waits for the station hash: a deadlock.
  `Embrace` is that deadlock and nothing else, so an access point that does not
  meet it releases its frames and frees its stations
  (`core/rtw_ap.c:398`, `os_dep/linux/recv_linux.c:305`).
- **Agreement reset under waiting frames** (`torn`, part of `Upset` in
  `ImplementsBuffer` and `NewestIsKept`). Frames can then leave out of order;
  `HeldIsReleased` says that they still leave. The other parts of `Upset` are a
  stopped driver and a station being freed.
- **A remote that does not wait** (`pipelined` in `RequestIsWhole`). A stream has
  no boundaries: one read may return two requests, of which one is handled.
- **A signal just before a blocking call** (`missed` in `SignalEnds`). It is
  noticed only when the call returns (proxy_app.c:338). The property is about
  SIGTERM and SIGINT: the handler of SIGHUP frees everything and returns into
  `main` (proxy_app.c:189), after which nothing is promised (`pc = "wild"`).
- **The writer's address, flag and reset** (`early`, `starved`, `cut` and `ae` in
  `CopyIsTrue` and `CopyEnds`). The write address moves with every word (W:138),
  which a port may see if it takes words before the address. The flag is looked
  at while the last word of a burst leaves (W:124): with a threshold of one
  burst the writer may begin a burst it cannot fill, with one word more the
  last burst of a packet stays in the FIFO. A second run resets the cores with
  bursts in flight.

### Further disagreements TLC shows

They are not runs of their own; the change of a configuration named here shows
each.

- A blocking read may return 0: the flag is set after the mutex is released, so
  another read can empty the kfifo first and leave the flag set. (rx with
  invariant `BlockingReadGetsData`; U:129, U:215. `SpuriousBounded` says how often.)
- With LOCKED sampled one edge apart, STAT may be set before the
  reconfiguration has begun. (dynclk with `Skew = TRUE`; V:255-257.) So what is
  said of STAT is said for a LOCKED both see at the same edge.
- The divider tried for a multiplier is not always the best for it, because
  the product is rounded first. (mode with `ClkDivIsBest`, parent 100000;
  C:350-357.)
- mat_mul_demo: a second command before the first result was read leaves
  padding at the front of a result (`PromptIsWhole` without `prompt`), and
  quitting hangs after a failed write (`QuitEnds` without `lost`).
- echo_test: a spoilt echo moves the loop's counter back, and the size grows
  past the buffer. (`MarksBuffer` without its condition on `spoilt`;
  echo_test.c:155. The model stops at that point, since memset then writes
  outside the buffer; hence the same condition in `TestEnds`.)

### Bounds, and why they are enough

- rx: a kfifo of 4 bytes with padding to 2 and messages of 1 and 3 bytes: two
  messages fill it, the third does not fit, reads of 0, 1 and 4 bytes take
  nothing, part, and all. Three messages allow a stale flag, a spurious read and
  a later message. The proof removes these bounds.
- tx: lengths on both sides of the bus limit (2) and of the buffer (3); two
  writers and three calls, so that calls overlap and old data is in the buffer. The proof removes these bounds.
- life: two channels, three minors and a file, so that minors run out and two
  probes contend; loading and unloading repeat without bound, and the driver
  cannot be registered twice at most.
- dynclk: the table's real 13 words; the proof covers every length the counters
  allow. dyndrv: three words (first, middle, last),
  two rates; calls without bound.
- mode: 15 wanted frequencies (video modes and both sides of each limit) and 18
  parents (both sides of each limit, common board clocks). The proof covers
  every wanted frequency and every parent up to 4294967 kHz, which is what a
  rate in Hz of 32 bits can be. The `u32` arithmetic wraps only in `curClkMult`,
  with parents above about 4.25 GHz, where the inner loop that uses it is empty.
- matmul: the code's sizes and four commands. echo_test: payloads up to six
  bytes, two commands. echo_kern: payloads up to three bytes, three bindings.
- reorder: four arrivals out of frames on both sides of the 12-bit wrap, inside
  a window, at its edge, one past it and far past it; two resets. The true window of 64 and
  modulus of 4096 are kept. The proof removes the bounds.
- proxy: three messages, a stream of four units and a buffer of three, so that
  a message may be lost, two fit one read, and a third is cut by it; two
  signals. The proof removes the bounds.
- axi4: bursts of three, FIFOs of seven and a packet of nine words, so that the
  reader stops for its FIFO, the writer waits for a burst, and the last burst
  is the third; two runs. One burst less and the flag's threshold would not
  show.

### Fairness

Only what the system guarantees: a started handler continues (weak fairness of
its steps); a kernel mutex hands over to its waiters in order (strong fairness
of the lock steps of rx); the hardware clock runs, the MMCM completes an access
and locks out of reset; the remote answers. Two further cases of strong
fairness: `del_timer_sync` spins until it finds the handler not running, and a
handler that is set again runs only 50 ms later (reorder); and a read of the
device does not find a stale flag over and over, which is `SpuriousBounded` of
rx (proxy). A memory port serves each of its channels in the end (axi4).
Nothing is assumed of users, signals, or of the remote beginning anything. Runs
whose program may end have CHECK_DEADLOCK FALSE.

## 4. Proofs

Every theorem holds for all constants that satisfy the module's ASSUME.
Components whose proofs share a module are extended together, so their
specifications have names of their own (`TxSpec`, `ProxySpec`, `TestSpec`,
`MatMulSpec`, `DrvSpec`) and no variable in common.

**RpmsgDevProof**, receive path (any set of readers, any kfifo size, padding and lengths).
`IInv` is inductive. What the invariants lack, and IInv adds:
`InProgressLens` (a call in progress has a legal length), `WakePending` (a
reader between test and sleep is covered as well as a sleeping one: beside data
there is a flag or a wake-up to come), and `FlagTokens` (each setting of
`block_flag` is a token, worth one empty read, that is either in the callback,
in the flag, in a reader let through by it, or spent). One lemma per conjunct
with one step per action. Theorems: `Invariance`, `TypeCorrect`,
`LockDiscipline`, `StreamIntegrity` (any number of readers),
`WakeupNotLost` (one reader, or reads of the whole kfifo), `IoctlReliable` and
`SpuriousPaidFor` (one reader); the conditions are necessary, see above.
`StreamImplemented`: the receive path implements ByteStream, for any number of
readers; `InOrder` (what is in the kfifo was accepted in order) gives the
mapping of `last`, and every step is one of the stream's or a stutter.

The transmit path is proved in the same module (any writers, buffer size, limit and lengths).
`TxInv` adds `Filled` (what a call has copied is still in the buffer, or a byte of
a call that overlaps it is in its place) and `NothingYet`. Theorems:
`TxInvariance`, `MessagesOfCalls`, `WriteTellsTruth`.

**DynclkModeProof** (any wanted frequency, any parent up to MaxParent).
`ModeInv` adds `InWindow` (inside the loops the candidate lies in the window
computed at their heads), `ModeOK` and `RegsLast`. The lemmas bound the window by
integer division (VCO and phase detector ranges) and decode each encoding.
Theorems: `ModeInvariance`, `ResultMayBeIgnored` (`find_reg` never rejects what
`find_mode` found, so ignoring its result is harmless), `ModeInSpecification`,
`FieldsDecode` (128, whose halves wrap to 0, included), `ModeTypeCorrect`.
`SearchInv` is the loop invariant of `find_mode`: what has been tried
(`Tried`: smaller input dividers, and smaller multipliers of the present one)
comes no closer than the pick, the pick's error is that of a candidate, and
`freq_found` means an error of 0, which is why stopping there passes over
nothing better. `SearchInvariance`; `SearchFindsBest` gets the minimum over all
candidates from it, which needs only that the error of the pick is one of
them and a lower bound of all.

**DynclkProof** (any table of 2 to 15 words, which is what 4-bit counters
allow; LOCKED seen by both machines at the same edge). `CoreInv` says that an
access is asked for, in progress or ended in turn, and never while the MMCM is
locked (`Accesses`); that `rom_addr`, `state_count` and what was taken of a word
belong together (`Table`); which words have been written (`Progress`); and in
which states the two machines can be at the same time (`Turns`). The point of
`Accesses` is a reset during an access: the machine starts again while the MMCM
is still busy, and waiting for LOCKED is what keeps a second access away. Two
lemmas give the next state and the next outputs by state; the rest rests on
them. Theorems: `CoreInvariance`, `StatusIsTrue`, `WritesAreRight`.

The driver is proved in the same module (any set of rates besides). A step of
DynclkDriver is an edge of the hardware, so `CoreInv` holds there too
(`CoreUnderDriver`). `DriverInv` adds: whoever sets the enable bit polls until
STAT (`Attended`), so no walk of the table is left to itself; what an undisturbed
call can rely on (`Undisturbed`); the registers hold the rate being set up to
the one written next (`AxiIsTarget`); a walk under an undisturbed call carries
that rate and leaves it behind it (`WalkIsTarget`); and after it the MMCM has it
all (`MmcmIsTarget`). The rate itself needs the phases of both machines
from `CoreInv`: that the walk begins only after the last register was written
is `Attended` and `Turns` together. An `enable` that is already polling when
`set_rate` begins disturbs it as much as a later one: it may have set the bit
for a walk that is still to read the registers. Theorems: `DriverInvariance`, `RateIsTrue`, `RegistersAreQuiet`.

**RpmsgDevLifeProof** (any channels, files and minors). `LifeInv` says what a
channel has at each place of probe and remove (`MemInv`, `MsgInv`), that each
minor was given out once and only a load with a class has device files
(`MinorInv`), and what module and files hold, earlier loads included.
Theorems: `LifeInvariance`, `CallbackSafe`, `FilesSafe`, `CleanedUp`.

**UserAppsProof** holds the proofs of the three programs that use the channels
from Linux user space.

- proxy_app.c (any stream, buffer of at least two units, any number of
  messages and signals). `ProxyInv`: with a remote that waits, its last message
  is alone in the stream, or at the front of the buffer, or answered. Theorems:
  `ProxyInvariance`, `WholeRequests`.
- echo_test.c (any payload limit). `EchoInv`: one payload is under way at most,
  and it is the one the loop is at (`OneUnderWay`); how far the inner loop can
  have set `i` back (`LoopCounts`). Theorems: `EchoInvariance`, `EchoesAreOwn`,
  `BufferIsMarked`.
- mat_mul_demo.c (any size of a result and of the kfifo, padding shorter than a
  result). `PermitInv` counts a permit to compute wherever it is, in the
  command thread, in the unlocked mutex or in the compute thread, and
  `StreamInv` says what a prompt user can have in the stream: nothing, a whole
  answer, or the padding of one. The padding must be shorter than a result, or it
  would be read as one: the driver pads to a multiple of 8 bytes. Theorems:
  `MatMulInvariance`, `RoundsAreAsked`, `PromptRoundsAreWhole`.

**EchoKernAppProof** (any payload limit and number of bindings, a remote that
may send at any time). `KernInv` says where the links of a chain may be in each
phase of the device, the phases of its removal included. Theorems: `KernInvariance`,
`ChainIsSingle`, `ReportTrue`, `WorkIsSafe`.

**Axi4TestProof** (any burst of at least two words, any packet of whole bursts,
any FIFO with room for a burst above its almost-full mark, any memory port and
number of runs). `CopyInv` follows the stream: `Reading` (one burst is asked for
or being read, and the FIFO has room for it), `Streaming` (read bursts, reader's
FIFO, words let through and writer's FIFO join without gap or repetition),
`Writing` (the words in the memory port and the burst being sent are
exactly those of the addresses in it, and with the later threshold a burst
begun can be filled), `Resting` (in reset nothing is under way), and
`Controlled` (the order of the program's writes). The lemmas come in three
layers: sequences that count up, one edge of each core, and one conjunct of
the invariant each. Theorems: `CopyInvariance`, `CopyTrue`.

**RecvReorderProof** (any set of frames, any number of arrivals and resets).
The inductive invariant relates the 12-bit window to true frame numbers: all
frames that wait, and the one in hand, lie within half the range of the window's
start, so that comparing modulo 4096 is comparing true numbers. Theorems:
`Invariance`, `TimerRuns`, `NewestKept`, `WindowIsKept` (what waits is sorted and
fits the window) and `Refinement` (the driver implements ReorderBuffer).

**Only model-checked.** All liveness properties (SleeperServed, UnloadEnds,
EnableAnswered, CallsReturn, QuitEnds, TestEnds, RunsToEnd, HeldIsReleased,
FreeEnds, RequestAnswered, SignalEnds, CopyEnds): the prover does not handle
fairness. Every invariant and every refinement that a run checks has a
theorem, in which the bounds of the run are gone; what stays of conditions is
in the property or in the theorem's statement (`~ Skew` for the clock core).

## 5. What is not modelled

- Interiors of the kernel and of libraries: rpmsg bus, kfifo, wait queue, work
  queue, clock framework and MMCM appear as the modelled code uses them.
- Of the reorder buffer: aggregates inside one frame, frames without a traffic
  class, legacy modes. The sender is assumed to lose at most half the range
  less a window in a row, and to repeat frames at most half the range back.
- Of the AXI cores: the packetizer's CONTINUOUS mode, lengths 0 and 1, and the
  delay of the FIFO primitive's flags.
- Of proxy_app.c: what its system calls return, and exhausted memory.
- AXI4-Lite registers, edge detector and TMDS encoder: the first are one step of
  the models above, the others have hardly any state.
- `round_rate` and `recalc_rate` (no state), contents of the lock and filter
  tables (data), the AXI slave of the clock core (generated).
- The other 170,000 lines of the wireless driver, the vendor libraries,
  generated board designs, device trees and scripts. They are nine tenths of the
  repository's lines and for the most part register tables, frame formats and
  copies of library code; so the models cover what the repository does, but a
  small share of its lines.

## 6. Plan

1. MatMulDemo and EchoTest stated on ByteStream, as ProxyApp is.
2. The safety part of `EnableAnswered` and `CallsReturn` (in which states a call
   can wait) as invariants with proofs.
3. UIO interrupt loop with the edge detector; TMDS encoder against a decoder
   and the bound on its disparity.

## 7. Running

    tlc -config rx.cfg MCRpmsgDevRx
    tlapm RpmsgDevProof.tla

dynclk, reorder and proxy take about a minute each and axi4, dyndrv and rx half
of that; the others take seconds. The proofs take 20 minutes from nothing, at most
six for one module.
