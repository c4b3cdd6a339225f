# A verification development for MPX

MPX is a small teaching kernel for the 80386 (C and assembly, `src/kernel`,
`src/lib`, `src/user`): a cooperative dispatcher over four process queues, an
interrupt-driven serial driver, a first-fit heap, and a command handler that is
itself a process.  The modules here translate its control into TLA+, TLC checks
them on small instances, and the TLA+ proof system proves part of it for every
instance.

There is no test suite in the repository: the references are the code, its
comments and header documentation, and the help texts of the command handler.

## 1. Inventory

### Components, their state and their operations

| Component | State | Operations | Model |
|---|---|---|---|
| Process queues, `pcb.c` | `pcb_queues[4]`, `struct pcb` (name, state, links) | `pcb_setup`, `pcb_free`, `pcb_insert`, `pcb_remove`, `pcb_find` | `PcbQueues`, `Kernel`; with the links `PcbLists` |
| Dispatcher, `sys_call.c` | `pcb_running`, `context_original` | `sys_call` with READ, WRITE, IDLE, EXIT; `sys_check_io` | `Kernel`, abstractly `ProcLifecycle` |
| Serial driver, `serial.c` | four `dcb`s: iocb queue, `event`, `buffer_idx`, ring buffer; UART registers | `serial_open`/`close`, `serial_schedule_io`, `serial_check_io`, input and output interrupt, `serial_poll` | `IoQueue`, `SerialDriver` (requests), `SerialPorts` (set-up, lines) |
| Heap, `memory.c` | `free_head`, `alloc_head`, the control blocks | `initialize_heap`, `allocate_memory`, `free_memory` | `Heap`, abstractly `Allocator` |
| Command handler, `comhand.c` | position in its loop, the line, pointers it keeps over reads | 21 commands | `Kernel` (those that change processes), `ShowPcb`, `Clock` (time and date), `Heap` (allocate and free) |
| R3 loader, `loadR3.c` | next process to load | five `pcb_setup` + `pcb_insert` | `Kernel` |
| Boot, `kmain.c`, `boot.s` | kernel context | start of `comhand` and `idle`, close of COM1, power-off | `Kernel` from the two processes on |
| User processes, `system.c`, `alarmProcess` | none the kernel sees | the system calls they make | `Kernel` |
| Clock, `time.c` | RTC registers | get and set date and time, alarm loop | `Clock` |
| Interrupt set-up, `core.c` | IDT, PIC masks | `irq_init`, `pic_init`, `idt_install` | `SerialPorts` |
| Library, `src/lib`; the rest of `core.c` (GDT, paging, kmalloc) | none, or set once at boot | | not modelled, `atoi` apart |

### How they interact

* A process traps with `int 0x60`.  `sys_call` runs with interrupts off: first
  `sys_check_io` collects the completed request, then the operation is carried
  out, then perhaps another context is returned.
* READ and WRITE queue an iocb that points to the PCB (`pcb_rq`) on the port's
  dcb; the UART's interrupts move its bytes and set `event`; a later system
  call notices `event` and makes the process READY.
* When nobody is ready, READ and WRITE wait in a loop `sti; hlt; cli; check`.
  This is the only place of the kernel where interrupts come in.
* The command handler changes queues, states and heap directly, by ordinary C
  calls and with interrupts on.  The interrupt handlers touch the dcbs only.
* EXIT of the last process that could run goes back to `kmain`, by
  `context_original`.
* The ports share two interrupt lines in pairs (COM1 and COM3, COM2 and COM4).
  The PIC is edge-triggered, and `serial_interrupt` serves one condition of one
  port each time.
* The time and date functions and the alarm talk to a chip that runs on by
  itself: no `cli` stops it.

### What is hard, and the properties that answer it

* *Queue and state must move together.*  `pcb_insert` and `pcb_remove` select
  the list from `pcb->state` as it is now.  → `QueuesSound`, `NoneLost`,
  `ReadySorted`.
* *Lost wake-ups.*  `event` and the write-interrupt enable are written by the
  handler and by system calls; `hlt` must not sleep over a completion.  →
  `NoLostWakeup`, `DeviceConsistent`, `BlockedReturns`.
* *Completion of the right request.*  `serial_check_io` wakes the owner of the
  head without looking at its state.  → `BlockedHasRequest`,
  `OnlyDeviceUnblocks`.
* *Priorities, suspension, equal turns.*  → `DispatchesBest`,
  `SuspendedNeverRuns`, `ComhandRuns`, `ImplementsLifecycle`.
* *Stale pointers and NULL pointers*: deletion, priority setting, shutdown,
  full heap, idle device, refused READ.  → `OnlyKnownPanics`, `RunningRight`.
* *Walks over lists that change*: the Show commands write between two looks at
  a list.  → `RestShownOnce`, `HandlerNotShown`.
* *Links*: insertion at the tail relies on `p_next` being NULL.  →
  `ListsTerminated`, `ImplementsQueues`.
* *Interrupt lines*: masks and gates shared by ports that are opened and closed
  in any order, edges, late interrupts.  → `OpenIsHeard`, `NoStrayInterrupt`,
  `ForgottenOnlyTogether`, `ClosedStaysQuiet`.
* *Torn accesses*: a second, or midnight, between two registers.  →
  `PollNotBehind`, `EarlyOnlyWhenTorn`, `AlarmRings`, `DateNotAhead`,
  `DatesReal`, `SetTakes`.
* *Bytes* between two requests, around the end of a READ, in the ring buffer.
  → `WireInOrder`, `ReadsWhatWasTyped`, `ImplementsDevice`, `TypeAheadKept`.
* *Sequences of allocations and frees.*  → `HeapSound`, `ImplementsAllocator`,
  `RefusedOnlyWhenFull`, `FreeAnswers`, `NoOverlap`.

`PROJECT.json` lists the hazards one by one, at their lines, including those no
property covers yet.

## 2. The modules and the code

### PcbQueues, IoQueue: operators

`PcbQueues` has the type of a process state and `pcb_insert` / `pcb_remove` as
operators on a function from 0..3 to sequences of PCBs.  A linked list is
abstracted to the sequence it spells, as `PcbLists` justifies; the order of
insertion (by priority and first in, first out in the READY queues, at the end in
the BLOCKED ones) and the choice of the list from the present state are those of
the code.
Removing a PCB that is not in the selected list leaves the queues unchanged;
the code returns -1, which no caller looks at.

`IoQueue` has one port as a record `[open, ops, event, idx, thri]` and, as
operators on it, `serial_schedule_io`, `serial_check_io` after an event, and the
two interrupt handlers.  `thri` is bit 1 of the interrupt-enable register.

### Kernel: the composition

| Variable | Code |
|---|---|
| `queues`, `st`, `name`, `running` | `pcb_queues`, `pcb->state`, `pcb->name`, `pcb_running` |
| `allocated` | the PCBs that are not free memory |
| `mode` | what the CPU is doing: `boot`, `run`, `halted` (in hlt), `awake` (behind hlt, before cli), `closing` (back in kmain), `off`, `panic` |
| `origin` | `context_original # NULL` |
| `dcb` | the dcb of COM1 |
| `pc`, `held`, `loading`, `loads` | where the command handler is; the PCB `setPcbPriorityCommand` found; the position in `loadR3`; how often that was typed |

| Action | Code |
|---|---|
| `SysIo`, `SysReturn`, `SysIdle`, `SysExit`, `SysFault` | `sys_call`, by operation and outcome; each starts with `sys_check_io` |
| `KmainIdle`, `KmainClose` | the `int 0x60` of `kmain`, and what comes after it |
| `Wake` | `cli` and the check at the end of the hlt loop |
| `InputIrq`, `OutputIrq` | `serial_isr`, `serial_interrupt` |
| `LoadR3`, `LoadNext` | `loadR3`, one step per process |
| `Alarm`, `Suspend`, `Resume`, `Delete`, `PriorityFind`, `PrioritySet` | the commands of the same names |
| `Shutdown`, `CleanNext` | `shutdown`, one step per PCB |

A system call is one step because interrupts are off.  A stretch of the command
handler between two of its system calls is one step as well, although
interrupts are on: the handlers touch only the dcb, which those stretches do
not read.  The loops of `loadR3` and `shutdown`, which do allow something to go
wrong half way, are split.

A process is the set of calls it may make.  A user process may at any time
issue any operation of `UserOps`, IDLE or EXIT, with any length up to `MaxLen`:
more than `proc1`..`proc5`, `comwrite`, `comread`, `iocom` and the alarm do.
The idle process issues WRITE and IDLE.  The command handler issues any WRITE,
its READs, and IDLE where its code does.  A call may also be refused
(`SysReturn`: length 0, no memory for the iocb).  A READ of the command handler
that is refused returns 0, and `user_input_promptread` takes one off it for the
carriage return it expects (`comhand.c:347`): with -1 it writes its terminator in
front of the buffer and goes on, and the next `user_input_clear` clears nearly
all of memory (`ClearNoLine`, by way of the values `refused` and
`noline` of `pc`).

A step through a NULL pointer, or into the context of a freed process, ends in
`mode = "panic"`: paging leaves page 0 unmapped (`core.c:438`), and the
page-fault handler stops the machine.

`ProcLifecycle` is what the dispatcher promises without queues, priorities and
requests: the diagram of process states.  `KernelProperties` states that
`Kernel` implements it.

### ShowPcb: the Show PCB commands on the kernel

`ShowPcb` extends `Kernel` with the walk of `showPcbCommand`, `showPcbReadyCommand`,
`showPcbBlockedCommand` and `showPcbAllCommand`: `iter` is `proc_iter`, `todo` the
queues still to walk, `left` the WRITEs until the pointers are read again
(eleven per PCB in the code, `Writes` here).  Between its WRITEs every step of
`Kernel` is possible (`Others`), so a PCB may move to another queue while it is
being printed, and the walk goes on from there.  What comes out: a process may
be shown twice or not at all if it, or the one being printed, moves; with two
alarms of equal priority Show All may go on as long as they keep changing
places.  The command handler itself is never shown.  Show Ready and Show Blocked
both walk the two suspended queues (`QueuesOf`), because the initialiser of
`struct pcb_state` has its fields in another order than the struct; that is
against their help texts (`VShowReady`).

### PcbLists: the links

`pcb_insert`, `pcb_remove`, `pcb_setup` and `pcb_free` on `pcb_head`, `pcb_tail`
and `p_next`, with the callers reduced to what `QueuesSound` shows of them: a PCB
is put when it is in no queue, and its state changes, or it is freed, only then.
Freed memory gets any `p_next`.  `QueueCalls` is the same with the operators of
`PcbQueues`, and `ImplementsQueues` says that the pointers implement it.

### SerialDriver: the bytes

The same functions of `serial.c` with the request buffers, the ring buffer
`rbuffer` with its two indices, and the sequence of bytes given to the UART.
`done`, `heard` and `typed` only record what happened.  The kernel around it is
abstracted to: a process issues a request when it has none, at most one system
call notices a completed request before the next is scheduled.
`RequestDevice` is the `dcb` of `Kernel` by itself, built from the operators of
`IoQueue`; `ImplementsDevice` says `SerialDriver` implements it.  So what
`Kernel` assumes of the device is what the byte-level driver does.

### Heap: the memory

`allocate_memory` and `free_memory` pointer by pointer.  `mcb[a]` is what
memory at address `a` holds when it is read as a control block, so that a stale
block keeps its contents, as in the machine.  Any block may be given back at any
time, and any other address as well, as the Free Memory command allows; the
hexadecimal number it reads is abstracted to the address.  `live` holds the
sizes of the blocks handed out at each address; a sequence, since an address
can be handed out twice.  The list walks that never end (`"hung"`), the
unchecked `p_prev` (`"fault"`) and a size that wraps around (`"wild"`) are
outcomes after which nothing more happens: in the machine the caller hangs, the
fault stops it, or the control blocks are overwritten.

`harm` records what the calls have done to the lists, each entry put there by
the branch of the code that does it:

| `harm` | Code | Effect |
|---|---|---|
| `kept` | `memory.c:121` | a block taken whole behind the head stays in the free list |
| `strayed` | `memory.c:126` | the block behind a head that was taken whole keeps its `p_prev`; when it is split, the rest is linked to a block in use |
| `skipped` | `memory.c:263` | a block freed between two free ones it does not touch is linked from one side only |
| `leaked` | `memory.c:263` | a block freed behind the last free one is not linked: lost, but no list is damaged |
| `hidden` | `memory.c:133` | a block allocated before `alloc_head` is not in the list: it cannot be freed |

The heap is `Intact` while nothing but `leaked` and `hidden` has happened and no
size wrapped around.  The properties say what holds until then, for every order of
calls; of what follows they say only that the types hold.  `NoOverlap` is the
one that has no such condition, and it is violated (`VHeapOverlap`).  `Allocator`
is what any allocator promises: blocks in use are apart and inside the heap.

### SerialPorts: opening, closing, and the lines

| Variable | Code |
|---|---|
| `open`, `event`, `op` | `dcb.open`, `dcb.event`, the operation of the request at the head |
| `ier`, `mcr`, `cond` | the interrupt enables of the UART, bit 3 of its MCR, what it has to report |
| `unmasked`, `gates`, `irr` | the mask of the PIC, the IDT entries set to `serial_isr`, the edges the PIC has latched |
| `job` | the `serial_open` or `serial_close` in progress |
| `both`, `deafened` | history: two conditions at once; line 3 masked by closing COM1 or COM3 |

`Open`, `OpenGate`, `OpenSetup`, `OpenEnable` are the steps of `serial_open` between
which an interrupt can come (what is between `cli` and `sti` is one step), `Close`,
`CloseMask`, `CloseQuiet`, `CloseShut` those of `serial_close`.  `Interrupt` is
`serial_interrupt`, the reading of the IIRs included.  The UARTs and the PIC are
external: a line is high while a UART has an enabled condition, and an edge is
latched once.  Requests have no bytes here, and one is on a port at a time:
queueing is `IoQueue`'s part.

### Clock: time, date, alarm

`rtc` holds the registers in BCD; `Tick` is the chip's update.  `getTime`, `setTime`,
`getDate`, `setDate` and a round of `alarmProcess` are three accesses each, in the
order of the code (`TimeOrder`, `DateOrder`), and a second may pass between any two
of them.  `Prompt` is what the loops of `setTimeCommand` and `setDateCommand` let
through of the typed lines, by `intParsable` and an `atoi` that overflows.  `polled`
and the bound of one tick per job say that an access takes far less than a
second and that a waiting alarm gets its turn in each second; the latter is what
`ComhandRuns` shows of equal priorities, with calls that are short.

## 3. What is checked

All bounds are constants of the modules or sets of the `.cfg` files.

| Run | Instance | Properties | Distinct states |
|---|---|---|---|
| KernelDispatch | 4 PCBs (comhand, idle, two created by loadR3 or alarms), reads and writes of 1 or 2 bytes, Suspend and Resume, keys at any time | `TypeOK`, `QueuesSound`, `BlockedHasRequest`, `DeviceConsistent`, `NoLostWakeup`, `OnlyKnownPanics`, `DispatchesBest`, `SuspendedNeverRuns` | 852 k |
| KernelAll | 3 PCBs (comhand, idle, one created by loadR3), all commands that free or change a process, priorities 0 and 5, fairness | `NoneLost`, `ReadySorted`, `ImplementsLifecycle`, `OnlyDeviceUnblocks`, `BlockedReturns`, `ComhandRuns` | 97 k |
| ShowPcb | 4 PCBs, the Show commands with loadR3, an alarm, Suspend and Delete, two WRITEs per PCB shown | `RestShownOnce`, `HandlerNotShown` | 455 k |
| PcbLists | 4 PCBs, READY with two priorities and BLOCKED | `ListsTerminated`, `ImplementsQueues` | 203 k |
| Serial | 2 processes, 3 requests of up to 2 bytes, 3 bytes typed, ring of 2 | `SerialTypeOK`, `WireInOrder`, `ReadsWhatWasTyped`, `ImplementsDevice` | 1.3 M |
| Heap | 15 units, control block of 2, requests of 1, 2 or a size that wraps around, up to 5 blocks, frees of any address in any order until the lists are damaged | `HeapTypeOK`, `HeapSound`, `ImplementsAllocator`, `RefusedOnlyWhenFull`, `FreeAnswers` | 21 k |
| Ports | the four ports | `PortsTypeOK`, `NoStrayInterrupt`, `OpenIsHeard`, `ForgottenOnlyTogether`, `ClosedStaysQuiet` | 1.1 M |
| Clock | a day of 3 hours of 2 minutes of 4 seconds, 28 February and 31 December, one midnight, one set, `int` of 8 bits | `ClockTypeOK`, `PollNotBehind`, `DateNotAhead`, `DatesReal`, `SetTakes`, `EarlyOnlyWhenTorn`, `AlarmRings` | 212 k |

*Why the bounds are enough to meet the cases.*  Two created processes beside
comhand and idle give equal and different priorities (0, 1, 9), two requests
behind one on the device, and a READY process that overtakes another; three
are not needed for any order of two.  A buffer of 2 bytes has a first byte, a
last byte and an early carriage return.  Fifteen units of heap hold five
blocks of one unit, exactly, or fewer with free blocks before, behind and between
them; every entry of `harm` occurs.  A ring of 2 is the smallest whose indices
differ from each other when one byte is in it.  Four PCBs give a list a head, a tail and a middle,
and one PCB to put before, between or behind them.  The small day of the clock has
every carry, and its seconds still reach their last value before a minute does.
Its years, months and days are those of the calendar; the lines typed include a
number that overflows into the range of a prompt.  The ports have no bound of
their own: all four exist, and each has at most one request.

*KernelAll*.  With Delete, Set Priority and Shutdown, a request or the pointer
`held` may name a freed PCB.  A completion for a freed process writes through
its zeroed `pctxt` and ends in `panic`; a priority set on a freed PCB puts it
back into a queue, so that `QueuesSound` is false here (set the priority of a
process that exits while the priority is typed).  What does hold is that no *live*
process is lost, that the process on the CPU is live and active, that the
READY queues stay sorted, that nobody is woken but by his own request, and the
life cycle.  The instance loads once and sets no alarms, so that a freed PCB is
not handed out again; what happens then is not covered.

*OnlyKnownPanics* names the ways into a panic: a key while the device is idle
(`serial.c:696`; `device.h:31` says the rest of an idle dcb is to be ignored), the
completed request of a deleted process (`comhand.c:700` leaves it on the device),
the case of VHead, a process that cannot be created (`loadR3.c:10`,
`comhand.c:1026`), and a refused READ (`comhand.c:349`).  The runs show that there
is no other.

*Ports.*  `OpenIsHeard` has an exception, `deafened`: closing COM1 or COM3 also
masks the line of COM2 and COM4, open or not, although `serial.c:366` masks a bit
"if corresponding PIC bit can be masked (no other open devices mapped to it)".
`ForgottenOnlyTogether` has one too, `both`: two conditions at once on a line do
leave it high with no further edge to come, so a byte typed just while a sent one
is reported leaves COM1 without interrupts.  The properties say that there are no
other ways.

*Heap* takes the frees in any order.  `CONSTRAINT Intact` cuts a behaviour behind
the step that damages the lists: that step is still checked, and nothing follows
it, as nothing is claimed there.  `VIEW Seen` (`MCHeap`) takes states as one that
differ only in memory which belongs to no block.  That is sound as long as the heap
is intact, since then nothing but blocks is read as a control block: the lists lead
through blocks only (`HeapSound`), and the address given to `free_memory` is compared
with them before it is followed.  `RefusedOnlyWhenFull` excepts a heap with a
`leaked` block and `FreeAnswers` a `hidden` one, as the code loses those.

`CHECK_DEADLOCK FALSE` is set in every run: the machine really stops, after
power-off and in a panic, the heap after a hang, a fault or a wild write, and
`Serial`, `Clock` and `PcbLists` may stop at their bounds.

### Fairness

`FairSpec` of `Kernel` has weak fairness of: the UART's transmitter interrupt
(hardware sends what it was given); a key while a READ is at the head of the
device (the user answers; without it a READ may wait forever, which is no fault
of the code); the end of the hlt loop, and the two steps of `kmain` (straight
code); the loops of `loadR3` and `shutdown`; and `Yield \/ SysFault`: the process
on the CPU makes *some* accepted system call that gives up the CPU, or one
that faults.  That one is needed because nothing in MPX preempts a process, and
it is what every process in `src/user` and `time.c` does in its loop.  Nothing is
assumed about any single process or command, so turns are not given by fairness: that
`comhand` gets the CPU back in spite of processes of priority 0
(`ComhandRuns`) comes from FIFO insertion among equals.  In KernelAll it meets
a process that Set PCB Priority moves to priority 0 and that polls with IDLE
for ever, as an alarm does.  Both properties
allow the end of the machine (`Stopped`).

`FairSpec` of `Clock` has weak fairness of the chip and of the steps of a job, once
begun, and strong fairness of `Poll`: the alarm process, READY with priority 0,
gets its turns among its equals.  Strong, because between its turns other jobs
use the clock.

### Disagreements with the comments

Each of these runs has one property that quotes a comment or a header, and TLC
finds a behaviour against it.

| Run | Said | Done |
|---|---|---|
| VHead | `sys_call.c:84` "guaranteed ready pcb at head" | a process suspended while blocked is completed into the *suspended* ready queue: the head is NULL |
| VHeapOverlap | `include/memory.h:14` the address of *newly* allocated memory | a block handed out whole stays in the free list unless it was its head, and is handed out again |
| VShowReady | `comhand.c:181` Show Ready prints *all ready PCBs* | it walks the suspended queues: a process that is READY and active all the time is not shown; Show Blocked (`comhand.c:192`) does the same |
| VTypeAhead | `serial.c:698` type-ahead is kept for the next READ | the empty ring looks like the full one; `begin` follows `end` |

`RestShownOnce` requires of Show Ready and Show Blocked only that they show nothing
twice.

Others are written into the models, and the properties are stated around them:
Show All promises all PCBs (`comhand.c:203`), but the command handler itself is never
among them (`HandlerNotShown`), deleting a process leaves its request on the
device (`comhand.c:214` says it frees what belongs to it), an idle device does
not ignore a key, closing COM1 deafens COM2, and `time.h:30` declares `setTime`
with its parameters in the opposite order (`SetTimeArgs_AsDeclared`).

## 4. What is proved

`PcbQueuesProofs`, `KernelProofs`, `ShowProofs` and `SerialProofs`
hold for every finite or infinite set of PCBs, every list of names,
all commands and lengths, from the named assumptions `PcbAssumption`,
`CommandAssumption`, `NameAssumption` and `BoundAssumption` of `Kernel`,
`ShowAssumption` of `ShowPcb` and `SerialAssumption` of `SerialDriver`; `PcbListsProofs`
for every finite set of PCBs and every set of states, from `ListAssumption` of
`PcbLists` (the walk of a list ends after as many PCBs as there are); `PortsProofs` for every subset of the four ports that has COM1, from `PortAssumption` of
`SerialPorts` (the four are different); `ClockProofs` for every length of the day, the
hour and the minute up to the real ones, every bound and every width of `int`, from
`ClockAssumption` of `Clock`; `HeapProofs` for every size of the heap, of the control
block and of the requests, those included that wrap around, and every order of calls,
from `HeapAssumption` of `Heap`.

* `PcbQueuesProofs`: `InsertHolds`, `RemoveHolds` and the lemmas around them.
  `Holds(queues, st, S)` says that the queues hold exactly the PCBs in `S`, each
  once, in the queue its state selects; insertion and removal keep it.
* `LinksTerminated`, `ListsAreQueues`: in memory the lists are terminated, and
  `PcbLists` implements `QueueCalls`, so that the kernel model may use sequences.
  `LInv` says that the pointers hold the queues one walks through (`ListsAre`): each
  is what `p_next` leads through from the head on (`Spells`), the tail is on its last
  PCB, its PCBs are live and in the state of the queue, and a live PCB in no queue
  has `p_next` NULL.  `ListsTerminated` alone is not inductive: that the tail stays
  on the last PCB when another is taken out depends on the whole list.  `PutSpells`
  and `TakeSpells` say what relinking does to a list of any length, and `PutStep` and
  `TakeStep` that every way through `pcb_insert` and `pcb_remove` relinks so.
  The walk is a recursive function; that it finds what the pointers spell
  (`WalkSpells`) is proved by the least number of steps at which it would not.
* The first lemmas of `KernelProofs`: each of the four operations on a device keeps
  `DcbConsistent`, and none but `serial_check_io` takes an owner away.
* `TypeCorrect`, `DeviceSafe`, `WakeupNotLost`: `TypeOK`, `DeviceConsistent` and
  `NoLostWakeup` are invariants, with *all* commands.  (`TypeOK` bounds `buffer_idx`
  by the longest request only; that it stays within the request it counts for is
  `DeviceConsistent`.)  They follow from
  `BaseInv`, the conjunction of `SchedPart`, `HeapPart`, `DcbPart`, `CmdPart` and
  `ModePart`, one lemma per system call, interrupt and group of commands.  The
  strengthening is needed because `NoLostWakeup` alone is not inductive: what
  makes it true is that `halted` is entered with a request on a consistent
  device, that the interrupt which sets `event` also leaves `halted`, and that
  the pointers used on the way (`running`, `held`, `loading`) are set.
* `PanicsKnown`: `OnlyKnownPanics`, with *all* commands.  Nearly every case is the
  guard of one action; `LoadPart` (while `loadR3` runs, the command handler is on
  the CPU) and `BaseInv` exclude the others.
* `QueuesCorrect`, `BlockedCorrect`: `QueuesSound` and `BlockedHasRequest` hold, with
  *all* commands, in every behaviour in which `HeldAlive` does: no process exits
  while its priority is being set, so that the pointer `setPcbPriorityCommand`
  keeps over a read is that of a live process when it is used.  When one does,
  `QueuesSound` is false (see KernelAll), so the condition cannot be dropped; where
  the user sets no priority it always holds (`NothingHeld`).  The invariant `FullInv`
  adds to `BaseInv`: `OwnPart` (a live process is BLOCKED exactly while it owns its
  one request), `CallPart` (which modes belong to a call; shutdown is not left
  before its EXIT), `HeldPart` (the command handler does not set its own priority)
  and `StalePart`.  That last one is what makes Delete and shutdown safe for
  everybody else although they leave the request of the deleted process on the
  device: the request is ahead of the READ the handler issues next (`Ahead`), so it
  has come out, with the panic that follows from it, before the handler carries out
  another command, which might hand the freed PCB out again.
* `QueuesInOrder`, `NobodyLost`, `BestDispatched`, `SuspendedWaits`,
  `WokenByDevice`: `ReadySorted`, `NoneLost`, `DispatchesBest`,
  `SuspendedNeverRuns` and `OnlyDeviceUnblocks`, under `HeldAlive`.  The invariant is
  `OrderInv`: the one of `QueuesCorrect`, and that each READY queue is sorted.
  `InsertInOrder` and `RemoveInOrder` say that `pcb_insert` and `pcb_remove` keep
  it; that the head of the active READY queue is the best of all that are READY
  (`HeadBest`) follows.  For the action properties each action is summarised once
  (`StepKind`, `NextKind`): it wakes the owner of the completed request and
  switches to the head of the queue (`Wakes`, `Switched`), wakes and returns to
  the caller (`Returned`), or is a command or interrupt that leaves the process
  on the CPU alone (`Managed`).
* `KernelIsLifecycle`: `Kernel` implements `ProcLifecycle`, under `HeldAlive`, from
  the same summary: each kind of step is one step of the diagram or none.
* `HandlerHidden`, `EachShownOnce`: `HandlerNotShown` and `RestShownOnce` of the show
  commands (Show All misses nobody that stays, no command shows one twice), under
  `HeldAlive`.  No step but a command changes the order in which two
  processes stand in a queue, unless one of them changes state (`StepKeeps`, from
  what insertion and removal do to the order of the others).  So the invariant
  `ShowInv` can say where the walk is: as long as no process has moved while it was
  being printed, the one being printed is in the present queue, and of the
  processes that stayed in their queues exactly those have been shown that belong
  to the queues behind, or stand in the present one no later than it (`Shown`,
  `WalkPart`).  `KernelStep` keeps that, `NextFirst` moves it on by one.
* `DriverIsDevice`: `SerialDriver` implements `RequestDevice`, action by action
  (`Schedule` a request, `CheckIo` a completion, `InputIrq` a byte, `OutputIrq`
  a byte sent).  The mapping is the identity but for the buffers it drops
  (`Stripped`).  The step that needs an invariant is the start of a READ: the
  device starts with nothing done, the driver with what it copied from the ring
  buffer, and a READ that the ring completes would never set `event`.  The
  invariant is `RingEmpty`, that the two indices are equal.  So a defect
  (type-ahead is lost) is what keeps another one (a READ that never returns)
  from showing, and `RingStaysEmpty` says that it always does.
* `DriverTyped`, `BytesInOrder`, `TypedIsRead`: `SerialTypeOK`, `WireInOrder` and
  `ReadsWhatWasTyped`, for any number of requests and any sizes.  `BytesInv` says
  what the request at the head has got so far (`Served`), that those behind it are
  as they were issued (`Untouched`), and what the finished ones got (`Finished`).
  The bytes on the wire are a concatenation of all WRITEs, which the library
  defines by recursion on its length; what one more WRITE adds to it
  (`FlattenAppend`) is proved by the least length at which it would fail
  (`LeastNatural`).
* `PortsTypeCorrect`, `NoInterruptStrays`, `OpenPortsHeard`, `ForgottenByTwo`,
  `ClosedPortsQuiet`: the invariants of the run Ports.  `PortsInv` adds what the step
  of a call says of its port (`JobPart`: a line is being masked only when no partner
  is open), `GatePart` and `DrivenPart` (which ports have their gate and drive their
  line by now), and `SharedPart` (two conditions on a line are in `both`).
  `NoStrayInterrupt` follows because a line is high only by a port past its gate
  (`HighHasGate`); `ForgottenOnlyTogether` because `serial_interrupt` finds the port
  of a condition that is alone, serves it, and the line falls (`OnlyOneServed`).
* `ClockTypeCorrect`, `NeverBehind`, `NeverAhead`, `CalendarDates`, `TimeIsSet`,
  `EarlyRing`: all safety properties of the run Clock, on the real day of 24 hours
  as on the small one.  `ClockInv` says of each group of accesses which of them came
  before the one tick that may fall into the group and which after it
  (`ReadsInOrder`, `SetsTime`, `SetsDate`); the properties follow from what a second
  changes: the digits it carries into, and those it resets (`Carries`,
  `NextSecondAhead`, `NextDayIsReal`).
* `HeapWellTyped`, `HeapStaysSound`, `HeapIsAllocator`, `OnlyFullRefuses`,
  `FreeTellsRight`: all properties of the run Heap, with blocks given back in any
  order and nothing assumed of it.  The types hold for ever, also in damaged lists
  and after that: `Typed` adds that every link leads to a block which ends in the
  heap (`Linking`, `Real`), so that no size outgrows its width when blocks are
  merged.  The other properties hold while the heap is `Intact`, and there `HeapSound`
  is not inductive: that an insertion finds its place depends on the whole
  list.  `IInv` says that there are a set `F` of free blocks and a set `Q` of listed
  ones (`Sound`): each is spelled by its links in the order of addresses
  (`Ordered`), the blocks of `F` and those in use lie one behind the other in the heap
  (`Layout`), cover it unless one was lost (`Covered`), and no two of `F` touch.
  `OrderedList` says that the recursive walk finds such a set to its end, so no
  outcome is `hung` or `fault`; `Inserted`, `Removed`, `Replaced` and `Kept`
  what relinking does to it.  `TakeSound` and `FreeSound` are the two calls: every
  branch either keeps `Sound` or puts one of the damages into `harm`, and which branch
  does is exactly what the proof finds.  A refusal is right because in a
  covered heap a place between the blocks in use lies in one free block
  (`CoveredAt`, `VacantFits`): neighbours would have been merged.

Only model-checked: the liveness properties and everything under fairness
(`BlockedReturns`, `ComhandRuns`, `AlarmRings`), which is beyond the provers used;
what holds of the kernel after a process has exited while its priority was being set
(the run KernelAll shows `NoneLost`, `ReadySorted`, `OnlyDeviceUnblocks` and the life
cycle even then); and that the heap does get damaged and then hands out memory twice
(VHeapOverlap), behind which nothing but `HeapTypeOK` is known of it.

## 5. What is not modelled, and why

* Registers and stacks: a context switch is the change of `running`.  So the
  clobbered registers of `serial_isr` (`irq.s:50`) are outside the model.
* The contents of what a command prints, hexadecimal numbers, and the length of a
  typed line (`allocateMemoryCommand` copies up to 127 characters into 100).
* The Show Memory commands: their walk over the control blocks changes the heap it
  walks over, since each of their WRITEs allocates an iocb.
* GDT, paging and `kmalloc`: run once, before interrupts matter.  The string
  library has no state.
* `serial_poll` and `serial_out`: busy waiting on the UART.  `sys_req` calls them
  only when `sys_call` returns -1, which it does only while `pcb_running` is NULL,
  in `kmain`'s boot messages; a panic writes the same way.  They change no kernel
  state.
* Ports other than COM1 under the kernel: `kmain` opens no other.  `SerialPorts` has
  them without the kernel.

## 6. Plan

Done: `PcbQueues`, `IoQueue`, `Kernel` with `ProcLifecycle`, `SerialDriver` with
`RequestDevice`, `Heap` with `Allocator`; then `Clock`, `PcbLists` with `QueueCalls`,
`ShowPcb` and `SerialPorts`; the proofs of section 4.

Next, in this order:

1. `ShowMemory`: the heap composed with the requests, whose iocbs are on it, and
   the walks of the Show Memory commands.
2. In `Kernel`: a second `loadR3`, and freed PCBs that are handed out again.
3. A register file of three registers, for `serial_isr` (`irq.s:50`).
4. The PIC and the UARTs of `SerialPorts` under `Kernel`, so that `BlockedReturns`
   meets the forgotten edge.

To be proved: `NoneLost`, `ReadySorted` and the life cycle without the condition
`HeldAlive`.
