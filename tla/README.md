# Verification of the Linux device driver examples

The repository holds the example drivers of a book on Linux device drivers, one
directory per chapter. A few keep state, talk to hardware and are called by
several processes at once: the 24LC512 EEPROM driver (Chapter 7), the SDMA test
drivers (Chapter 12), the MCP23016 GPIO expander (Chapter 15) and the pollable
sysfs attributes (Chapter 13). The others register handlers with a kernel
framework, and what can go wrong in them is their life: an init that fails half
way, an exit that runs while a handler does. The first four have a module each;
the life of all 36 loadable modules is the subject of one more.

## 1. Inventory

| component | state | operations | interacts with | hard behaviour | what makes it correct | modules |
|---|---|---|---|---|---|---|
| EEPROM, Ch. 7 | `dev->data`, `current_pointer`, `eep_mutex`; the chip | open, release, read, write, llseek | I2C bus, user buffers, VFS | open and release assign the fields without the mutex; a write is many transfers any of which fails; unsigned arithmetic | its user sees a memory with a cursor; no chunk crosses a page; the mutex always comes back; memory is used only while allocated | `Ee24lc512`, `Ee24lc512Cursor`, `CursorMemory` |
| SDMA tests, Ch. 12 | global channel, buffers, completion, scatter tables | open, release, read, write, callback | DMA engine | everything global and unlocked; one completion for all writes; an open can fail half way | the engine works only on live buffers, each wait has its transaction, data are there when write returns | `ImxSdma`, `ImxSdmaSingle` |
| MCP23016, Ch. 15 | registers of the chip | set, direction in and out, get | I2C bus, gpiolib | read-modify-write without a lock, failed reads used as values | a call harms no pin but those it races with | `Mcp23016` |
| sysfs attributes, Ch. 13 | two values, a kobject | show, store, notify, init, exit | sysfs, polling clients | notification against read, short writes continued | a sleeping client has seen the last value | `SysfsPoll` |
| deferred work, Ch. 3 | work items, timers, wait queues | init, handlers, exit | scheduler | handlers against exit, sleepers nobody wakes | nothing runs after exit, sleepers wake | `DriverModel`, `DriverReading`, `DriverTables` |
| character devices, Ch. 4, 5, 7, 12 | region, class, cdev, device node | init or probe, exit or remove, open files | VFS, driver core | failure at every step, removal with open files | failure and removal undo exactly what was done | the same |
| buttons, Ch. 14 and 17 | GPIOs, interrupt, input device | probe, interrupt or poll function, remove | irq core, input core | remove against the interrupt, untested calls | no handler uses what is gone | the same |
| fake devices, Ch. 10, 15, 18, 19, 20, 22 | what probe registers | probe, callbacks, remove | their frameworks | removal while in use | the same | the same |
| memory, Ch. 11 | a block | init, exit | allocator | failed allocation, missing `mm` | the same | the same |
| hello world, Ch. 2 | none | init, exit | | none | | not modelled |

`PROJECT.json` lists every component, every hazard at its line, and the lines
each definition stands for.

## 2. How the modules fit together

```
CursorMemory  <-- implemented by --  Ee24lc512Cursor  -- EXTENDS -->  Ee24lc512
ImxSdmaSingle -- EXTENDS --> ImxSdma
Mcp23016        SysfsPoll
MCDrivers -- EXTENDS --> DriverTables (the drivers) and DriverReading (rules for
             their texts), both of which EXTEND DriverModel (the machine)
```

An `MC` module gives a specification its finite constants and, where requests
could go on for ever, a bound on them. A `Proofs` module holds theorems about the
module it extends. The probe and remove functions of the first four components
are programs of `DriverTables`; the modules of their own take a device that has
been probed.

Operators marked "Mutant" are slips that were thought plausible where they
stand. No specification uses them; each is there to replace its neighbour and to
see which property notices.

## 3. The EEPROM driver: `Ee24lc512`

**State.** `data`, `current_pointer` and `eep_mutex` are the fields of
`struct eep_dev`; `f_pos` is the position of each process's file; `heap` and
`mem` are the blocks kzalloc has handed out and their bytes; `eeprom` the bytes
of the chip. `pc` and `call` hold the place and the locals of each process.
`shared` and `fault` are history: two files have been open at once, and the
first invalid memory access. An invalid access stops the system, because
nothing can be said of a kernel after it.

**Actions.** A step makes one access, load or store, to one of the two fields
that open and release assign without the mutex, `data` and `current_pointer`.
Where the code reads a field twice, the model does, and the readings may differ.

| code | actions |
|---|---|
| `eep_open` | `OpenReset` (cursor), `OpenAlloc` or `OpenNoMemory`, `OpenTest` |
| `eep_release` | `ReleaseTest`, `ReleaseFree`, `ReleaseClear`, `ReleaseReset` |
| `eep_read` | `ReadCall`, `ReadLock` or `LockKilled`, `TestCount`, `ClipCount`, `ReadAddress`, `ReadMessage`, `ReadTransfer`, `ReadCopy`, `LoadCursor`, `ReadAdvance`, `Unlock` |
| `eep_write` | `WriteCall`, `WriteLock` or `LockKilled`, `TestCount`, `ClipCount`, `WriteCopy`, `WriteAddress`, `WritePlan`, then `SendChunk`, `LoadCursor` and `WriteAdvance` per `transacWrite`, `Unlock` |
| `eep_llseek` | `Llseek` |
| a memory access that goes wrong | `Crash` inside the action that makes it |

Three pairs of accesses matter. `current_pointer += n` is a load (`LoadCursor`)
and a store (`ReadAdvance`, `WriteAdvance`): a reset by an open in between is
lost. The test of the count and the cut read the cursor one after the other
(lines 102 and 103, 180 and 181): with a reset in between the call goes on for
the whole chip, whatever was asked for. And a write takes its address from one
reading and the length of its first part from another (lines 191 and 193): with a
reset in between it is `Torn`, its parts do not fit its address, and they cross
pages. `ChunkInPage` and `WriteFootprint` say what is left then: a write that is
not torn crosses no page and changes only the bytes it has sent, and a torn one
changes nothing outside the pages it addresses.

The arithmetic keeps the widths
of the code: `SIZE_T` and `INT_T` are the moduli of `size_t` and `int`, and
`count - remain_in_page` wraps. The chip is modelled from its use: a read is
sequential and wraps at the end of the chip, a write stays in its page and
wraps there. A failing bus transfer or user copy leaves any prefix done.

**What it promises: `CursorMemory`.** The abstract specification is a memory with
a cursor that answers a request in one step, in which memory and cursor change
together or not at all. `Ee24lc512Cursor` maps the driver to it. While a write has
planned its chunks, or a read has advanced, and the mutex has not yet been
released (`Hidden`), the abstract memory and cursor are those the call began with
(`c.before`, `c.start`); at all other times they are `eeprom` and
`current_pointer`. A request exists from the call to the release of the mutex
(`Requested`), its count cut to what is left of the chip (`Clip`). So every bus transfer
and every step of the cursor is a stuttering step, and `Unlock` is the answer.
`ImplementsCursorMemory` is checked, and proved, for one user. Two clauses are as
weak as the code: a write that ends inside its first page writes a page more than
it was asked to (`Inside`), and after a broken bus the memory may have changed for
up to a page past the bytes the cursor has counted (`Break`). A failed transfer of
a read is only logged by the code, so the abstract read promises nothing of the
data; `ReadDelivers` does, for the transfers that worked.

## 4. The SDMA drivers: `ImxSdma`, `ImxSdmaSingle`

`imx-sdma-scatter-gather.c` and `imx-sdma-single.c` are one program with three
and one pairs of buffers; the constants `N`, `HalfPairs` (the pair of which
read compares one half) and `Table` (global tables, or addresses of one's own)
tell them apart, and `ImxSdmaSingle` names the functions of the second.

**State.** The globals keep their names; `buf` holds `wbuf` .. `wbuf3`, `rbuf`
.. `rbuf3` in the order of their allocation. A block has two halves, so that a
transfer can stop inside it. Blocks are numbered and never reused, so that
every stale pointer shows. `submitted` and `queue` are the transactions of a
channel. Opens and releases go by file, read and write by process. `overlap`,
`clash`, `failed_opens`, `transferred`, `dma_error` and `fault` are history.

| code | actions |
|---|---|
| `sdma_open` | `OpenStart` (init_completion), `OpenChannel` or `OpenNoChannel`, `OpenAlloc` per buffer or `OpenNoMemory` |
| `sdma_release` | `ReleaseChannel`, `ReleaseFree` per buffer |
| `sdma_write` | `WriteCall`, `WriteFill`, `SgInit` and `SgSet` per table, `WritePrep`, `WriteSubmit`, `WriteIssue`, `WriteWait` (after `WriteSleep` or not), `WriteUnmap` |
| `sdma_read` | `ReadCall`, `ReadCompare` per pair, `ReadReturn` |
| `dma_m2m_callback` | `dma_m2m_callback`, in `DmaEnd` |
| DMA engine (external) | `DmaCopy` per half block, `DmaEnd` at the end or early |

The engine is modelled from its use: transactions of a channel run in order,
and each ends with the callback. It may refuse a descriptor, which is a fault
of its own because the driver uses the descriptor before testing it. A release
drops what is not issued and may or may not stop what runs.

With one file open at a time the design holds up, in these instances, for
threads that share the file: the completion counts, so nobody takes a
completion that no transaction has raised; transactions run in order, so
whoever is woken first is woken after the first complete copy; and release
cannot overtake the engine, because as many transactions have ended as writes
have returned. All of this ends when a second file is opened: `init_completion`
can then make a writer sleep for ever, and the second open replaces channel and
buffers. That is why the properties speak of one open file at a time.

The documented test (`Chapter12/README.md:27`) writes from one command and
reads from another. The buffers live as long as an open file, so that read
compares fresh buffers of zeros and passes whatever the engine does. No run is
needed to see it, and the driver promises nothing else.

## 5. The GPIO expander: `Mcp23016`

Every change of a pin is two transfers, a read of the register of its bank and
a write of the changed byte, without a lock, and the result of the read of a
direction is not tested: an error number becomes the register. A register is
the set of its bits that are 1.

| code | actions |
|---|---|
| `mcp23016_set_value`, `mcp23016_set` | the action of that name, `SetRead`, `SetWrite` |
| `mcp23016_direction_output`, `_input`, `mcp23016_direction` | the actions of those names, `DirectionRead`, `DirectionWrite`, then `SetRead`, `SetWrite` for an output |
| the chip | `Status` (a read of GP0 or GP1 returns pins, not latches), `Change` (the outside drives a pin) |

Lost updates do happen. `PromisesKept` says whom they can hurt: `promise`
records what the consumer of a pin may rely on, which is nothing after a call
that overlapped another in the bank or met a failed transfer, nothing for the
bank after a direction computed from a failed read, and no value for an input,
whose latch takes over the level of the outside when a neighbour is set.
Everything else is kept. `get` reads INTCAP, which nothing here writes, and
changes nothing; it has no action.

## 6. The pollable attributes: `SysfsPoll`

Writers go through `store` step by step (`Scan`, `Load`, `StoreBack`, `Notify`):
sysfs serialises only the calls on one open file. `store` answers 4 whatever it
was given, and the C library of the writer then writes the rest of the text;
`Rest` is that rest, on numbers of digits. Clients open both attributes, read
them and poll or select (`Open`, `Read`, `show`, `Poll`, `Woken`, `PollTimeout`);
`news` are the attributes whose event count has moved since the client's last
read. `sysfs-poll-user.c` lacks a brace at :40-42 and is modelled as meant, by
its twin `sysfs-select-user.c`, with a timeout that select has not. Unload waits
for what runs in the attributes and wakes no sleeper.

Redundant as it looks, `notify.value = da->value` is a load and a store of one
variable, and between them another writer's number can be overwritten with the
old one. `NoStaleSleep` holds all the same, because the writer that does so has
yet to notify. `ShortNumberStays` is about the rest a short `store` leaves to the
C library: of a number of up to four digits it is at most the line end, which is
stored as an empty text of its own, and the number stays. A longer number does
not: what stays of 12345 is its last piece, 5. No property asks for that.

## 7. The life of a driver: `DriverModel`, `DriverTables`, `DriverReading`, `MCDrivers`

`DriverModel` is a machine that runs one driver, chosen in the initial state,
from load to unload and again. A driver is a record of steps, each of which
acquires, uses or releases named resources, and of handlers: interrupt and
timer functions, work items, callbacks and open files. `DriverTables` holds one
record per loadable module, and reads like the source:
`Get("class", {}, <<Put({"region"})>>)` is a call whose failure takes an error
path that gives the region back, `Try` one whose failure goes unnoticed, `Do`
one that cannot fail. A handler that reads or sets a GPIO works on it, so that
to give the GPIO up before the interrupt is a fault (`gpio_freed_first`);
`vma_list` walks an `mm` it holds no reference on, which may be gone before any
step of the walk.

| code | actions |
|---|---|
| insmod, bind, unbind, rmmod | `Insmod`, `Start`, `Remove`, `Rmmod` |
| a call that acquires | `Acquire`, `GetFails` (the error path), `TryFails` (not noticed) |
| a dereference | `Use`; `Crash` when the resource is not there |
| a call that releases | `Release`, which waits for a running handler where the kernel's function does (`Synced`), and is skipped where the kernel's function refuses |
| `wait_event_interruptible` | `WaitEnds`, `WaitAgain`, `WaitSignalled` |
| a handler | `Call`, `HandlerStep` |
| return from init, exit or the error path | `Return`, with devres |

**What the kernel does** is taken from how this code uses it, and where the code
does not tell, from kernels of its time (4.x): `free_irq`, `hrtimer_cancel`,
`flush_workqueue` and the unregistering functions of sysfs, IIO, RTC, input
polling and network devices wait for their handlers, `del_timer` does not;
`input_unregister_device` drops the reference that frees the device;
`platform_device_put` drops one reference of the two a registered device has;
`pwmchip_remove` refuses while a PWM is requested, and remove's result is
ignored; `gpiochip_remove` frees the descriptors consumers hold; a kobject whose
type has no release function is not freed by `kobject_put`; an open file pins
the module named by its operations' owner, but never the device.

**What is claimed.** `NothingLeft` and `FaultsExplained` say that a driver leaves
something behind, or faults, only in the circumstances it is excused for in
`MCDrivers`. The excuses are the result of the analysis, and none is there that
is not needed. A driver that is not named is clean.

| circumstance | faults | leaves behind |
|---|---|---|
| a call of init fails | `dummy_char`, `platform_dummy_char`: the cdev stays added and points into freed code. `ee24lc512`: the failed class is destroyed. `sdma_*`: the major number was registered first, and a file opened meanwhile does not pin the module | `dummy_char`, `platform_dummy_char` (cdev), `ee24lc512` (numbers), `input_button`, `input_polled_button` (GPIO or input device), `fake_eth` (net device) |
| a call fails and is not tested | `shared_workqueue`, `dedicated_workqueue`, `vma_list`, `fake_eth`, `gpio_*`, `input_polled_button`, `iio_dummy_random` | `sysfs_poll` (kobject) |
| a call gets an argument that was never computed | `input_button` | `input_button` |
| a wake-up | `shared_workqueue`: the work frees the wait queue of the sleeper | |
| removal | `ee24lc512` (cdev in freed memory), `dummy_regulator` (array of a dead frame) | `ee24lc512` (cdev), the eight modules that add a platform device |
| something runs, or is called, during removal | `std_timer`, `user_invoke`, `waitqueue`, `shared_workqueue` (code that has gone), `sdma_*` (no owner), `fake_gpio_chip`, `mcp23016` (descriptors), `fake_pwm` | `user_invoke`, `waitqueue`, `shared_workqueue` (work), `fake_pwm` (chip) |

`ArgumentsValid` says that all drivers but `input_button` compute what they pass
on. `Settles` says that init, its error paths and exit return.

**What a reader can see.** `DriverReading` has the rules someone applies to the
text of a driver, without running it.

- Orderly (`TextOrderly`): init passes on only what it has acquired by then, and
  nothing that a handler may take away.
- Tidy (`TextTidy`): each error path releases what the steps before it have
  acquired, and whatever init has acquired is given up later (`GivenUp`), by a step
  of exit or by a handler that runs once and was handed it, which exit then must
  wait for or is excused not to.
- Safe (`TextSafe`): a step of init touches only what init has for sure at that
  place (`Firm`: acquired by calls that cannot fail unnoticed, not given back, not
  used up by a handler armed by then), and arms a handler only when all is there
  that the handler works on (`InitSafe`). A handler touches nothing that it or
  another has given up (`HandlerSafe`). An error path or exit gives up nothing twice
  and uses nothing it has given up (`EndingSafe`), and makes sure that a handler is
  called no more and has returned before it gives up anything the handler works on
  (`StoppedFirst`); exit need not wait for a handler that cannot run then, or that
  keeps the module in memory and works on nothing exit takes (`Dismissed`).

Each rule is read with the excuses of the driver: an excused circumstance is one
the reader need not think through. `Safe` needs every excuse for a fault in the
table above, no fewer: without any one of them its driver no longer passes. The 14
drivers with none pass it outright. That the rules are enough, for any driver and
not only for these, is proved (`OrderlyCorrect`, `TidyCorrect`, `SafeCorrect`); the
run checks that the 36 drivers keep them. A rule can be broken where no run of the
present code shows it, so the two are not the same check.

## 8. Runs

| run | instance | shows |
|---|---|---|
| `ee_exclusive` | one process, a chip of 3 pages of 4 bytes, every count 0..13, seeks, a position at the end, 4 requests; 2.6 million states | types, memory safety and no leak of a single user, `WriteFaithful`, `FailedWriteAccounting`, `ReadDelivers`; the driver implements `CursorMemory` |
| `ee_shared` | two processes, 2 pages of 2 bytes, counts 1 and 3, 4 requests and any number of reads at the end of the chip; 134 thousand states | `MutexDiscipline`, `ChunkInPage`, `WriteFootprint`, `CursorBound` under any interleaving; calls return |
| `ee_beyond_end` | violated | a write that ends inside its first page sends a page too much, past the end of the chip, although line 175 forbids it |
| `ee_fields` | violated | open changes the fields under a holder of the mutex that protects them (line 22) |
| `sdma_scatter` | 2 files, 2 processes, 2 channels, shared tables, 3 pairs of buffers, 3 requests, symmetric; 1.2 million states | types, memory safety, `LeakAccounting`, `ReadConfirms`, `DmaIntoLiveBuffers` where opens overlap and tables clash, and are excluded from what is promised |
| `sdma_threads` | 1 file opened again and again, 2 threads, 1 pair, 5 requests; 76 thousand states | `CompletionBalance`, `DmaIntoLiveBuffers`, `ReadConfirms`, and `WriteReturns` |
| `sdma_unmap` | violated | a write unmaps its buffers after the completion of another thread's transaction (comment, line 248) |
| `mcp` | three consumers of one bank, one of them with a driven input, one error number; 1.1 million states | `PromisesKept` |
| `sysfs` | two writers with a word and numbers of one, four and five digits, one client; 631 thousand states | `NoStaleSleep`, `ShortNumberStays`, and `WriteWakes` |
| `drivers` | all 36 modules, each alone, for ever; 1.7 thousand states | section 7 |
| `sleeper` | violated | the init of `shared-workqueue.c` sleeps for ever; the errata (`README.md:28`) supply the line that is missing |
| `button_irq` | violated | the probe of the button fails although the kernel refuses nothing: the interrupt is asked of a GPIO not yet stored |

**Bounds, and why they are enough.** *EEPROM*: the split of a write distinguishes
a cursor inside or at the start of a page, a head, no page, one or several pages,
a tail, and the end of the chip; three pages of four bytes hold all of them. Four
requests let one process open and write while the other opens, at any step, and
calls in its turn. Reads with the cursor at the end of the chip are not counted, so
that others can take the mutex from a waiter for ever: without strong fairness
(below), `CallReturns` fails. The narrow
`size_t` (128, 64) stays a multiple of the page and above the sum of chip and
page, as 2^64 is. On a 32-bit machine `size_t` and `int` have one width, and the
wrapped page count is a large positive number: that write runs over its block. The
actions model it (`ToInt`, the fault `overrun`) and the theorems, `CursorBounded`
aside, cover it; no run takes these widths. Data are one pattern in which
neighbours differ, since no operation depends on a byte's value. *SDMA*: three
requests hold an open, a write and a read, two opens and a write, an open and two
clashing writes, or three opens of which some fail; the thread run has room for
open, write, write, open again, write. *Expander*: a race takes two pins, its
victim is a third; banks do not touch each other; one error number has both zeros
and ones in its low byte. *Attributes*: two writers are what can interleave on one
value, and a client sees the other clients not at all; five digits are one piece
and a rest. *Drivers*: nothing is bounded; a driver is started again only when it
has left nothing behind and nothing of it runs.

**Fairness, and why the code justifies it.** A process inside a system call is
scheduled (weak fairness of its steps); transfers, allocations and the engine end
or fail. Strong fairness for taking `eep_mutex` and for the end of
`wait_for_completion`: both queue their waiters. In the drivers, init and exit
run, what is armed once (timer, work) comes to run, and handlers that a release
waits for end. Nothing is assumed of requests, signals, timeouts, of users closing
files or of devices being removed.

**Deadlock** is not checked except in `mcp`: a fault stops the system, the bound
on requests ends a run, and a module that stays unloaded or a client that sleeps
without a writer is at rest.

## 9. Proofs

All hold for every value of the constants, from the named assumptions of the
modules only. TLC evaluates these in every run.

**The EEPROM** (from `GeometryAssumption`, `InputAssumption`; from
`Ee24lc512CursorProofs` on also `WidthAssumption`).

`Ee24lc512Proofs`:

- `TypeCorrect`: `TypeOK` is inductive. The work is in the arithmetic
  (`RemainType`, `NbPageType`, `PlanType`) and the chip (`PageWriteType`).
- `MutexCorrect`: with the types, `MutexDiscipline` is inductive as it stands.
- `MemorySafety` and `NoLeak` follow from `ExclusiveInv`. "No bad fault" is
  not inductive, since it says nothing of where `dev->data` points. The
  invariant says it: only one process is not closed, while its file is open
  `dev->data` is the one allocated block, and between kzalloc's failure or
  kfree and the end of the call no block is allocated.
- `PageSafety` follows from `AlignedInv`: the head of a write ends exactly at a
  page boundary and every later chunk starts at one. `FirstStageAligned` and
  `AdvanceAligned` carry it through the plan, also when it has wrapped. A torn
  write is excepted: its plan was made at another cursor than its address, and
  stays so, as neither is computed again.
- `FootprintCorrect`: a write changes only the bytes it has sent, or, when it is
  torn, the pages of these bytes. The invariant `FootprintInv` adds that the next
  chunk goes to `start + offset` and that a call on its way to its plan has sent
  nothing. `PageWriteWithin` is the arithmetic: a chunk that stays in its page
  (`PageSafety`) touches `addr`, `addr + 1`, ... and no byte before them, and one
  that does not wraps inside the page. Other processes do not interfere because only the holder of
  the mutex writes to the chip.

`Ee24lc512CursorProofs` is about what a whole call has done:

- `CursorBounded`. The cursor alone is not inductive: a write moves it chunk by
  chunk, and only the plan says where it will end. `Within` keeps, per place of a
  call, where it is in its plan (`OnPlan`), what the plan adds up to (`Total`), and
  that the cursor is no further than `start` plus what has been sent; it can be
  less, since opens reset it at any time (`WithinReset`). That is also why a plan
  made after a reset does no harm here: it is the plan of a cursor 0, and a count
  that fits the chip from `start` on fits it from there.
  `WidthAssumption` is what `unsigned long` and `int` are on real machines: the
  chip is smaller than the range of `size_t`, its pages fit an `int`, and a
  wrapped page count is either not positive (64 bits: -1) or beyond the chip (32
  bits). `CursorBounded` needs the first of these, named by its hypothesis
  `WrappedPages < 1`. On 32 bits a wrapped write runs over its block (`overrun`),
  which stops the model; what the cursor of such a machine does then is not claimed.
- `WriteCorrect`, `FailedWriteCorrect` and `ReadCorrect` follow from `ExactInv`:
  for the only user, the first `offset` bytes of the request are on the chip, the
  block holds the caller's bytes once copied (a write) or the chip's bytes from
  `start` once transferred (a read), and the cursor is `start` plus `offset`. Nobody
  else is there to reset it, so that no write is torn, and that no other byte of the chip has changed is
  `FootprintCorrect`. The caller's bytes are there also when the plan has wrapped:
  the page sent too much begins where they end (`BytesBefore`).

`Ee24lc512RefinementProofs`: `RefinementCorrect`, that the driver implements
`CursorMemory`. Its one hypothesis, `Alone`, is that there is one process, for
which the mapping of `Ee24lc512Cursor` is defined. A step maps to a stutter if it
changes nothing of what the user sees, which is the driver's own cursor and chip
until the call has something to hide (`PlainView`) and those the call started with
from then on (`VeiledView`). There is a lemma per operation: opening, closing, a
seek and a request are steps of the abstract memory (`OpenSimulated` ...
`AskSimulated`), the steps inside a call are stutters (`QuietStep`, `HiddenStep`),
and `LockKilled` and `Unlock` are answers (`ReadAnswered`, `WriteAnswered`). That an
answer is one the abstract memory gives needs one more invariant, `ReadyInv`: at
the end of a call, its return value is a refusal that fits the cursor and the
position, or a count, or -1 after chunks that end with a page (`BrokenOff`).
`ClipTwice` is why the count of the request, cut when the mutex is taken, looks the
same before and after. The bytes are those of `WriteCorrect`, `ExactInv` and
`FootprintInv`.

**The SDMA drivers** (from `SdmaAssumption`, which asks that the processes, or
threads, be finitely many, as the number of waiting writers is counted).

`ImxSdmaProofs`: `SdmaTypeCorrect`, then three theorems from one invariant,
`Alone`, which holds while no two files have been open at once:

- `Resources`: one file at most is being opened, is open or being released;
  depending on how far it has come, exactly these buffers and this channel are
  held, and nothing else is allocated but a channel per failed open. From it
  `ExclusiveCorrect` and `LeaksCounted`.
- `Traffic`: transactions are only on that channel, a write issues on the channel
  it submitted to, and the waiting writers are as many as the completions to take
  and the transactions to end together (`Balance`), which is `BalanceCorrect`.

The two have to be proved together: release frees the buffers only after calls
have returned, so by the balance no transaction is left; and the balance
holds only because nobody else replaces channel and completion.

`ImxSdmaTransferProofs`, where besides no two writes use one scatter table:
`DmaLiveCorrect` from `Ordered` (a table set by a write stays as set until it is
submitted, so every transaction pending has the file's buffers, in order, as source
and destination); `ReadsConfirmed` from `Transfer` (halves arrive in order, those
before the position of the running transaction have arrived, and once one has
completed without an error all have, and stay so, since later writes copy the
same pattern).

**The expander.** `Mcp23016Proofs` (from `PinsAssumption`): `McpTypeCorrect` and
`PromisesCorrect`. `PromisesKept` speaks of registers; the invariant adds what
calls are about to write: whoever holds a byte that will destroy a promise
(`DirectionsInHand`, `ValuesInHand`) overlaps with the call that gave it, and both
know (`Overlaps`).

**The attributes.** `SysfsPollProofs` (from `RequestsAssumption`: a text of k
digits is a number below 10^k, and a line end follows it):

- `NoStaleSleepCorrect`. A client comes to rely on a value before it sleeps;
  `ReliesOnFresh` says of every value relied on that it is the attribute's, or
  that there is news of it, or a store that has yet to notify. `Attached` rules
  out that a client relies on what it failed to read from a removed attribute.
- `SysfsTypeCorrect` and `ShortNumberCorrect`. `LastInv` follows a write that
  nobody else disturbs, of any length: what is left of its text has the same last
  piece as the whole (`Remains`), what it has scanned is what it will store
  (`Stored`), no other writer is at its attribute (`Apart`), and nobody is once it
  has ended (`Quiet`). Of a number of up to four digits the last piece is the number
  itself, since what was asked for has no more digits than it says (`FitsInv`).
  That the last piece of the rest is the last piece of the whole is a fact about
  powers of ten, shown by induction on their exponent. The library's induction
  theorems over predicates cannot be used; the lemma `Induction` says the same of
  sets of naturals, from the least element of the complement.

**The life of a driver.** `DriverProofs` (from `ProgramsAssumption`: what
`DriverModel` asks of a table of drivers, that its texts are sequences of steps
of the machine and that endings acquire nothing) holds for any such table:

- `DriverTypeCorrect`.
- `OrderlyCorrect`: `Passing` says that an orderly driver holds in init, and keeps
  holding while it is live, what is `Sure` by its text, until a failure goes
  unnoticed. Handlers cannot disturb it, as what they take is not sure.
- `TidyCorrect`: `Owing` says where what is owned will go. In init and while the
  driver is live it is among what the text acquires; on an error path it is among
  what the steps to come release; in exit each resource is `Due`: a step to come
  `Clears` it. A step that tests what it has got clears only because what it tests
  is sure (`Passing`), and one that waits for a handler only because a handler that
  was handed a resource is still armed, or running, or has given it up
  (`Handing`). What the circumstance "busy" excuses leaves the case that nothing
  runs or is armed when exit starts.
- `SafeCorrect`: `Securing` says what a run keeps while it has met nothing it is
  excused for (`Strict`). `Served` is about handlers: what a running one has yet to
  work on is there, and so is, while its entry is registered, all it would work on
  if called. `Placed` is about the plan: in init and while the driver is live, what
  is `Firm` is held; on an error path and in exit, what the steps to come use is
  there, and every handler has stopped, will be waited for before anything it works
  on goes, or may be spared (`Leaves`); when the driver is idle, no entry is
  registered. Neither is inductive alone: a handler is served because the ending
  stops it first, and the ending finds what it uses because handlers take only what
  their text says (`UsesUp`), which is not `Firm`. Two facts hold of every run and
  carry the rest (`Tracks`): init holds only what its steps acquire, and only what
  was given up has gone, so no release is the second. There is a lemma per effect of
  a step (`Effects`): `AcquiredServed` for what arms a handler, `AwaitsNow` for what
  waits for one, `EndingStep`, `HandlerPlaced` and so on. A call that fails
  unnoticed is excused, or does not count, and that it cannot have been refused for
  its argument instead is `Passing` (`TryFailsSpares`).
- `ReadingSuffices` puts the three together for a whole table: its hypothesis
  `Readable` is about constants only, and is what the run checks of the table of
  this repository by `TextOrderly`, `TextTidy` and `TextSafe`.

**Model-checked only.** Liveness (`CallReturns`, `WriteReturns`, `WriteWakes`,
`Settles`), which is out of the prover's reach. That the texts of these 36 drivers
keep the rules (`TextTidy`, `TextOrderly`, `TextSafe`) is a matter of the tables,
which TLC evaluates; every other invariant of the runs is stated by a theorem. What
the five violated runs show needs no proof.

## 10. Not modelled

- Hello world (Chapter 2): it logs.
- Callbacks that log and return a constant, or random bytes: those of the fake
  devices; their registration and their use of what probe acquired are there.
- Key values, GPIO levels and the clock arithmetic of the fake RTC: no step
  depends on them.
- `mcp23016_get`: it reads a register nothing here writes; how old its answer is
  depends on interrupts the driver never enables.
- Log messages, ioctl and device numbers, sysfs names, and the inside of the
  frameworks behind the callbacks.
- Weak memory order: the shared fields are plain words written by one store each.
- `i2c_msg.len` is modelled (`MsgLen`), but a read of the whole chip, which asks
  it for 0 bytes, is outside what `ReadDelivers` claims. Every seek is refused,
  since the bound test of `eep_llseek` is always true; `CursorMemory` says so.

## 11. Next

The rules of `DriverReading` are sufficient; whether `Safe` is also necessary (each
driver that breaks it has a run that faults) is open. It holds of the excuses of
these drivers, where the run shows every one of them needed, but not of any table:
a driver could test what it has got in a way the rules do not follow.
