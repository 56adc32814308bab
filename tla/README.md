# The mini2440 lab drivers in TLA+

This directory models the character-device drivers under
`src/linux底层/linux驱动/驱动实训/`: lab drivers for the keys, the timer, the
beeper and a block of memory of a mini2440 board (S3C2440, one ARM9 core) that
runs Linux 2.6.32.2. They are short C files without a lock among them, called
by several processes, by interrupt handlers and by timers. What is correct about
them rests on which steps can come between which: on where kernel code may
sleep, on the first interrupt line that refuses a second open, on the order of
"lower the flag, copy, clear". That is what the modules describe, TLC
checks on small instances, and TLAPS proves for all of them.

Paths below are relative to `驱动实训/`.

## 1. The system

### Components

| component | file | state | operations |
|---|---|---|---|
| pan_irq | `5中断/IRQ_new/irq_src/pan_irq.c` | six interrupt lines, six press counters, flag `ev_press`, wait queue | open, release, read, poll, interrupt |
| pan_tasklet | `5中断/IRQ_TASKLET/irq_src/pan_tasklet.c` | the same and a tasklet | the same, the tasklet |
| pan_buttons | `5中断/IRQ_old/irq_src/pan_buttons.c` | the same with four keys | open, close, blocking read, interrupt, insmod, rmmod |
| pan_time_key | `5中断/time_key/time_key_src/pan_time_key.c` | timer, debounce counts, key values, flag, wait queue | open, release, read, poll, scan |
| pan_time | `5中断/time/time_src/pan_time.c` | timer, seconds counter | open, release, read, timer |
| globalmem | `2globalmem驱动/globalmem_src/globalmem.c` | 4096 bytes, a position per open file | open, release, read, write, llseek, ioctl |
| pan_fcntl | `4阻塞与非阻塞/fcntl驱动/fcntl_src/pan_fcntl.c` | the same and the queue of SIGIO subscribers | the same, fasync |
| pan_poll (2 variants) | `4阻塞与非阻塞/poll`, `.../block` | a number, a flag, wait queue, beeper | read, write, poll |
| nosemaphore | `3并发与竟态驱动/nosemaphore` | a buffer | write |
| pan_beep, pan_key | `2蜂鸣器驱动` | one pin each | open, ioctl |
| module lifecycle | init and exit of all of these | device number, device structure, what open reaches, open files | insmod, rmmod and their failures |
| test programs | `*_test.c`, `read.c`, `write.c` | | calls of one driver each; key_beep_test calls two |

The rest of the repository is not the author's running code: a vendored `arch/`
tree of Linux 2.6.32.2 (2.9 of its 3 million lines), archives, lecture
documents, flashing notes, Makefile exercises.

### How the parts interact

- A process calls a driver through its file operations. A file that a process
  opened can be shared: after fork, dup or in threads, and release runs when the
  last descriptor is closed and no call is in progress.
- The three interrupt-driven key drivers claim the same six (four) external
  interrupts, so each can take the lines from the others; pan_irq's open knows
  this only as a failing `request_irq`.
- An interrupt handler runs between any two instructions of anything else. It
  shares the counters and the flag with read and poll. In pan_tasklet it leaves
  flag and wake-up to the softirq.
- A timer's handler runs in the softirq, so between any two steps of a process,
  and starts itself again. open and release start and delete it.
- pan_fcntl's write sends SIGIO to every file on `async_queue`, which
  fcntl(F_SETFL) fills and release empties.
- pan_beep and both variants of pan_poll drive the same pin, GPB0, and none
  asks whether another does.
- All modules draw on one table of device numbers, by number and not by owner,
  and init and exit of different modules interleave.

### Scheduling, which everything depends on

`src/linux底层/linux系统移植/kernel/config_PAN` has
`CONFIG_PREEMPT_NONE=y` (line 308) and `CONFIG_BROKEN_ON_SMP=y` (line 31): one
processor, and kernel code of a process loses it to another process only where
it may sleep. The calls that may are `request_irq` (it allocates with
GFP_KERNEL), `free_irq`, `poll_wait` (a page for the wait queue's entries),
`copy_to_user` and `copy_from_user` (a page fault), and the waits themselves.
Each step of a model ends at such a point or at a point where an interrupt can
matter; `cpu` (in PanTimeKey: the one label `"check"`) keeps other processes out
of the stretches in between.

### What is hard, and what each part must get right

The full list, each at its line, is `hazards` in PROJECT.json.

- *Key drivers.* open requests line by line and unwinds after a failure while
  another open, release or driver does the same: the lines must balance
  (`LinesExact`). The unlocked read is right only while one process has the
  file: is the first line really a lock (`SingleHolder`)? No press may be
  reported twice (`NoPhantomPress`), none lost but in the one window the
  code leaves open (`LossOnlyInWindow`), none left without its flag
  (`PendingSignalled`), none slept over (`NoLostWakeup`, `PressEndsSelect`,
  `PressEndsRead`). Nothing keeps an open pan_buttons in the kernel: only a removal
  under a user may leave lines behind, and a module loaded since must not take
  them for its own (`StaleLines`).
- *Tasklet.* initialised again on every open, killed before the lines are
  freed: it must never be met half initialised (`NoOops`) and be at rest after the
  last close (`TaskletAtRest`).
- *Memory.* 64-bit offsets become 32-bit indices, positions are read before and
  stored after a copy that sleeps: copies and positions must stay inside
  (`InBounds`, `TypeOK`), every change must be announced (`Announced`),
  and the queue must name only open files (`QueueOpen`).
- *Timers.* start, restart and delete must leave the timer in the wheel once or
  not at all (`NoTangle`, `TimerQuiet`), the seconds must be seconds
  (`SecondsSinceOpen`), a key is a key after three samples (`Debounced`), and
  the flag that read lowers over a held key must come back
  (`PressedSignalled`, `HeldKeyWakes`).
- *Number and flag.* read lowers the flag before a copy that sleeps, write
  raises it after one that may have failed, and several processes do both: no
  number may stay both unread and unflagged (`FlagAccount`), no select may sleep
  over it (`NoLostWakeup`, `WriteEndsSelect`), and one that gives up must have
  missed nothing, even where write wakes nobody (`EmptyHanded`). The beeper must
  follow the key whatever others do to its pin (`BeepFollowsKey`).
- *Unprotected buffer.* nosemaphore shows a race on purpose; what a line of its
  output still tells is `LineSigned`.
- *Lifecycle.* Each of three resources can fail, and the failure paths of the
  drivers differ, two of them by mistake: numbers must be accounted for
  (`NumberAccount`), open must never reach a freed structure (`LiveDevice`),
  success must mean a device number (`HonestLoad`), and nothing may be withdrawn
  under a file that holds it (`TableSpec`).

## 2. The modules

```
KeyLedger                         what a key driver promises of its counters
   ^ implemented by
PanIrq ──────── ButtonSelect ──── ButtonCore
PanTasklet ────┘                  |
PanButtons ───────────────────────┘
PanFcntl ── MemDevice             MemDevice is globalmem; PanFcntl adds the
                                  queue to its actions
PanTime, PanTimeKey ── TimerDevice
PanPoll ── Beeper
NoSemaphore
DeviceTable                       what loading and unloading promise
   ^ implemented by
CharDev                           LabDrivers: its constant Driver, read off
                                  the twelve drivers
```

Every line without a label is EXTENDS. MemDevice, PanPoll and NoSemaphore share the
constant of Processes and have names of their own for their initial and next-state
predicates (`MemInit`, `PollInit`, `WriteInit` ...), so that one module can speak of
all three. `MC*.tla` give the constants of the TLC
runs, `*Proofs.tla` hold the theorems: ButtonCoreProofs the lemmas, PanIrqProofs,
PanTaskletProofs and PanButtonsProofs what follows for each key driver, MemProofs the
drivers that pass data between processes (globalmem and pan_fcntl, pan_poll,
nosemaphore), PanTimeProofs and PanTimeKeyProofs the timers,
CharDevProofs the lifecycle.

- **ButtonCore**: open's request loop and unwind, release's loop, read's copy and
  clear loops, for the three key drivers, one step per line or counter.
  `pc[p]` is where a process is, `idx[p]` its loop index, `irq[k]` the owner of a
  line, `values` the counters, `ev_press` the flag, `buf[p]` what a read has
  copied and not yet cleared. `presses`, `delivered` and `late` are history:
  interrupts taken, counts that reads gave out, interrupts between a counter's
  copy and its clear. A read that faults still clears (`CopyFault` then
  `ClearKey`), as `memset` runs before the result of `copy_to_user` is looked at.
- **ButtonSelect**: select and the poll method: register on the wait queue, test,
  sleep; `triggered` is the mark a wake-up leaves, which keeps a process from
  sleeping when it comes between test and sleep.
- **PanIrq**: the interrupt handler (count, flag, wake), and the whole.
- **PanTasklet**: `tasklet_schedule` in the handler, the softirq, `tasklet_init` in
  open, `tasklet_kill` in release as two steps (it takes the SCHED bit, then
  gives it back). The softirq may run at once or be left to ksoftirqd, the only
  case in which a process can act between interrupt and tasklet; `deferred` records
  that one has. A state in which the kernel would stop with BUG() is `oops`.
  `swallowed` is history: presses whose schedule met the bit that tasklet_kill holds.
- **PanButtons**: read with `wait_event_interruptible`, whose result is ignored;
  rmmod and insmod. As `pan_buttons_fops` has no `.owner`, nothing in the kernel
  keeps an open module, and as exit frees no line, `Rmmod` turns every file and
  call in progress, and every registered line, to `"gone"`: they lead into memory
  that is no longer the module's. insmod brings a fresh module beside them. The
  first use of what is gone (an interrupt, a return from sleep, a close) is
  `Stray`; the memory may be unmapped or hold anything, and the model stops there
  (`strayed`). `taken` (presses) and `served` (reads that no signal ended)
  are history.
- **MemDevice**: a system call is Enter (position read, bounds tested, count cut),
  then byte by byte with a possible sleep before each, then Return
  (position stored, also after -EFAULT). pread and pwrite store none. `Word` is
  2^32: `Truncated` is the C code's `unsigned long p = *ppos`. A failing
  `copy_from_user` clears what it did not copy (the fixup code of
  `arch/arm/lib/copy_from_user.S`).
- **PanFcntl**: MemDevice with `async_queue`. `stale` is history: subscribers that
  have not been sent SIGIO since the memory changed.
- **TimerDevice**: the timer both timer drivers own, and their open file.
  `linked` is the truth about the wheel, `pending` what the timer says of itself:
  `init_timer` clears the second and not the first, so a second open tangles the
  wheel (`tangled`); what happens after that is not modelled.
- **PanTime**: the clock `jiffies`, the expiry, the counter. The softirq may run up to
  `MaxLate` ticks after the timer is due.
- **PanTimeKey**: a scan samples every key and does all the handler does, in the
  handler's order; reads, selects, opens and closes come between scans. The clock
  is left out: only the order of scans matters. `recent`, the last three samples,
  and `lowered`, "a read has begun since the last scan", are history.
- **Beeper**: the pin GPB0 and `key_beep_test.c`, which asks pan_key and tells
  pan_beep, over and over.
- **PanPoll**: read (lower the flag, silence the beeper, copy), write, and select
  with its timeout, for both variants: `wakes` is chosen in the initial state, and
  write wakes the queue only if it is TRUE. Without preemption and with no
  interrupt that touches the driver, a call is cut only at its copies, at
  poll_wait and at sleep. select of 2.6.32 tests once more after its time is over
  (`TimeOut`). `unread`, `overtaken` and `faulted` are history: what became of the
  last number written. A read that was copying when a write came is `overtaken`: it
  returns the old number or the new one, so it may leave the new one unread.
- **NoSemaphore**: write cuts its count at the end of the buffer, copies byte by
  byte to the start of it with a possible sleep before each, and prints.
- **CharDev**: init and exit as scripts, one step per call: number, structure,
  cdev; cdev_del, kfree, number. A name is loaded once, but open files of an
  ownerless module outlast it and do not keep it from being loaded again. `Driver[m]` says which calls module m makes and
  what it returns when kmalloc fails: -ENOMEM; 0, as pan_irq and pan_tasklet do;
  or, in pan_time and pan_time_key, whatever the register holds. A module
  that stayed loaded without its structure meets a null pointer in cdev_del and
  is `"stuck"`. init and exit run outside the kernel's module lock, so the
  scripts of different modules interleave.
- **LabDrivers**: the twelve drivers as values of `Driver`.

Data is abstract: a byte is the thread that wrote it, a counter is its number, a
process is a model value. What ioctl (where it does nothing), write (where it
returns 0) and printk do is left out.

## 3. What TLC checks

| run | instance | properties | shows |
|---|---|---|---|
| PanIrq_single | 2 processes, 2 keys, 2 presses each, no sharing, full reads, fair | SingleHolder, NoPhantomPress, LossOnlyInWindow, LedgerSpec, PressEndsSelect, CallReturns | the driver as its test uses it: one holder, an exact account, KeyLedger implemented, presses wake, calls return |
| PanIrq_shared | the same, shared descriptors, reads of 0, 1, 2 counters, faults | TypeOK, LinesExact, PendingSignalled, NoLostWakeup | what holds however it is used |
| PanIrq_counts | as PanIrq_single | CountsExact, **violated** | finding 1 |
| PanButtons_safe | 1 press each, sharing, faults, signals, rmmod at any moment, fair | StaleLines, PendingSignalled, NoLostWakeup, ReadsHavePresses, PressEndsRead | the blocking read and module removal |
| PanTasklet | 1 press each, sharing, faults, the softirq prompt or deferred, fair | NoOops, TaskletAtRest, PressScheduled, PressEndsSelect, ReleaseReturns | the tasklet through opens and closes |
| PanFcntl | 2 threads, 2 files, 2 bytes, words of 2 bits | TypeOK, InBounds, QueueOpen, Announced | memory and notification |
| PanTime | 2 processes, 3 ticks a second, 1 tick late | SecondsSinceOpen, TimerQuiet | one open file at a time |
| PanTime_two | the same, two opens | SecondsSinceOpen, **violated** | finding 2 |
| PanTimeKey | 2 processes, 2 keys, sharing, fair | Debounced, PressedSignalled, NoLostWakeup, HeldKeyWakes | debouncing and its flag |
| PanPoll | 3 processes, 1 write, both variants, the test program on the same pin, fair | FlagAccount, NoLostWakeup, EmptyHanded, WriteEndsSelect, BeepFollowsKey | number, flag, wake-up and beeper |
| NoSemaphore | 3 writers, a buffer of 3, short and long writes, 3 positions, faults | LineSigned | what the race can and cannot mix |
| CharDev | 7 drivers, 3 in the kernel, 1 open file each, numbers chosen by insmod | NumberAccount, LiveDevice, HonestLoad, TableSpec | loading and unloading |

Every property of a passing run has a mutant in PROJECT.json: a changed
definition, commented `mutant:` in its module, under which TLC finds the
property violated. So no property holds because its case never arises.

**Bounds.** Two processes are enough to have a holder and a rival, two readers of one
file, or a reader beside a release; three differ from two in no guard of the key
drivers. In PanPoll a reader that is still copying, a writer and a select must
meet, and in NoSemaphore a write that two others overlap, so these have three.
Two keys give a first and a last line, a key before and a key behind every loop
index. `MaxPress = 2` gives pan_irq a press in the window and one after it; in
PanButtons and PanTasklet a press on each of two keys does. `MaxWrites = 1` is one
write in PanPoll: the account is of the last number written, and the five properties also hold
with two writes and two processes (`Procs` of two, `MaxWrites = 2`). Two bytes and 2-bit words give a position inside,
at the end, and an offset that wraps. `MaxJiffies = 14` with `HZ = 3` is four
seconds, two opens of two seconds each, with lateness at each. CharDev's seven
drivers have every kind of script, failure path, owner and shared name, three
of them give two rivals for a number and a third beside them, and insmod can
ask for pan_irq's number (236) or for any. PanTimeKey, and all but the presses of
the key drivers, needs no bound. Section 4 proves what is proved without any of
these bounds.

**Fairness.** `SF` of each process' kernel steps: the scheduler lets no runnable process
starve, and a process that waits for the processor, or for a wake-up that comes
again and again, is runnable again and again. No fairness is assumed of what a
process chooses to do (open, close, read, select), of interrupts, keys, other
drivers or signals. `WF` of the softirq (tasklet) and of the scan (a pending
timer expires): the kernel runs a raised softirq, at the latest in ksoftirqd.
`HeldKeyWakes` needs only the latter. In PanPoll `WF` of a woken select and of the
test program's own loop, which never ends and calls nothing that blocks; none
of reads, writes or of select's timeout.

**Deadlock** is checked but in the runs of PanTime, whose clock ends at `MaxJiffies`,
in PanTasklet, which stops at a BUG(), as the machine would, and in PanButtons, which
stops where the memory of a removed module is used.

`NoOops` says "unless deferred" because with the softirq deferred, re-initialising
a queued tasklet does lead to BUG(). Nothing in the repository says it should
not, so this is recorded as a hazard and not as a finding.

## 4. What is proved

tlapm checks all theorems; the assumptions are the named `ASSUME`s of the modules and, where a
theorem has one, the hypothesis in its statement.

| module | theorem | for all | hypothesis |
|---|---|---|---|
| PanIrqProofs | TypeCorrect, LinesCorrect, PendingCorrect, NoLostWakeupCorrect | keys, processes, presses, sharing, read sizes, faults | |
| PanIrqProofs | SingleCorrect, NoPhantomCorrect, LedgerCorrect | the same | `~Sharing` |
| PanIrqProofs | LossCorrect | the same | `FullReads` |
| PanTaskletProofs | TypeCorrect, LinesCorrect, NoOopsCorrect, AtRestCorrect, ScheduledCorrect, NoLostWakeupCorrect | the same, the softirq prompt or deferred | |
| PanTaskletProofs | SingleCorrect, PressesCorrect, LedgerCorrect | the same | `~Sharing`; for losses `FullReads` |
| MemProofs | FcntlInBounds, FcntlTypes, QueueCorrect, AnnouncedCorrect | memory sizes, word widths, offsets, counts, threads, files | |
| PanButtonsProofs | TypeCorrect, LinesCorrect, RemoveCorrect, PendingCorrect, NoLostWakeupCorrect, ReadsCorrect | keys, processes, presses, sharing, read sizes, faults, signals, rmmod and insmod | |
| PanButtonsProofs | SingleCorrect, NoPhantomCorrect | the same | `~Sharing` |
| MemProofs | PollTypes, FlagCorrect, EmptyHandedCorrect, PollWakeupCorrect | processes, writes, both variants | |
| MemProofs | SignedCorrect | buffer sizes, counts, positions, writers | |
| CharDevProofs | TypeCorrect, NumbersCorrect, DevicesCorrect | drivers with these scripts, numbers, modules in the kernel, open files | |
| CharDevProofs | HonestCorrect | the same | `Careless` names every driver whose failure path may report success |
| CharDevProofs | TableCorrect | the same | the drivers in `Owning` have `.owner` |
| PanTimeProofs | TimeTypes, SecondsCorrect, WheelCorrect | HZ, lateness, processes | `OneAtATime` |
| PanTimeKeyProofs | KeyTypes, DebouncedCorrect, SignalledCorrect, KeyWakeupCorrect | keys, processes | |
| PanTimeKeyProofs | KeyWheelCorrect | the same | `OneAtATime` |

ButtonCoreProofs holds the lemmas, one per action and account, that the proofs of all
three key drivers cite.

The arguments:

- *Lines.* `LinesExact` says which process accounts for which line at every loop
  index (`Claims`): the open file for all, an open call for those below its
  index, an unwind for those up to it, a release for those from it on. That two
  different accounts never overlap is what makes `FreeIrq` free only its own
  line, and is inductive with the types. `SingleHolder` follows: a second holder
  would account for the same line.
- *Presses.* Without sharing at most one read runs. `BufBounded` (a copy not yet cleared is
  at most the counter, and there is none outside the window) makes
  `NoPhantomPress` inductive; `WindowAccount` (within the window the copy
  accounts for all but the late presses) makes `LossOnlyInWindow` inductive.
  LedgerCorrect maps `ClearKey` to the ledger's Collect, which takes the
  `BufBounded` copy as the number reported, and every other step to Press or
  a stutter. pan_tasklet implements the ledger in the same way: its tasklet and
  tasklet_kill are stutters. pan_buttons does not, as insmod clears all counters at
  once, but reports no press twice either: the copy that a read was making when rmmod
  cut it off is nobody's, so no copy waits for its clear in the module loaded next.
- *Tasklet.* `NoOops` is inductive with `EntryReady` (whoever is in the driver has
  called tasklet_init) and, as long as the softirq was never deferred,
  `PromptTasklet`: a queued tasklet has its SCHED bit, its function and a line
  behind it, and the bit without the queue is tasklet_kill's. `TaskletAtRest`
  follows, because without claims there are no lines. The lines need `KillAlone`:
  a process in tasklet_kill is the only one with the file, so nobody frees its
  lines meanwhile. `PressScheduled` is inductive with the types alone, once
  `swallowed` keeps the presses that met tasklet_kill's bit.
- *Flag and queue.* `PendingSignalled` needs the order in read: flag first. `NoLostWakeup`
  is inductive with `QueueExact` (queued exactly between poll_wait and return):
  a flag that is raised wakes all of the queue.
- *Blocking read.* `WaitersQueued` (queued exactly from prepare_to_wait to
  finish_wait) makes PanButtons' `NoLostWakeup` inductive. `ReadsHavePresses` follows
  from `FlagPaid`: reads served plus a flag that is up are at most the presses taken.
- *Removed module.* `StaleLines` has two halves. That a stale line goes back to a
  process that rmmod cut off is inductive (`CutOff`), given `LinesExact`: rmmod finds
  only lines that somebody accounts for, so a module removed while nobody uses it
  leaves none. That no file is open on the module loaded since is `LinesExact` again,
  as an open file accounts for every line.
- *Memory.* MemInv adds to `InBounds` that calls in progress are on open files
  (`CallsOpen`) and that a position to be stored back was inside when read
  (`OwnInside`), so what is stored is at most the end. PanFcntl is written
  with MemDevice's own actions, so it inherits all of it (lemma FcntlIsMemDevice).
- *Number and flag.* `FlagAccount` is inductive with `RaisedMeanwhile`: while the flag
  is up, every read that copies was overtaken by the write that raised it, so a read
  that can settle the account has lowered the flag after that write. `EmptyHanded` is
  an action property: the last test of a select saw the flag down, and `FlagAccount`
  says what that means. `NoLostWakeup` needs
  `SleeperQueued`, that whoever sleeps is on the queue.
- *Unprotected buffer.* `CopiedSoFar`: what a write has copied so far holds its own bytes or
  what others stored since it began. The last byte is stored and printed in one
  step, so it is the writer's own, or a fault's Zero.
- *Timer.* `WheelInv`: the timer waits exactly while the device is open, and all
  descriptors are of one open file. The seconds need bounds on where the next
  expiry lies (`ExpiryBounds`) and that a due timer is not later than MaxLate
  (`DueSoon`); the rest is linear arithmetic and `OneMore`.
- *Scan.* `CountsSamples` reads the debounce count off the last three samples.
- *Lifecycle.* `NumberAccount` is inductive with `HeapOK`, which says when the
  device structure exists: that is what tells a loaded module that has its
  number from one that lost it. One lemma, `NumberFrame`, then covers every
  step: a step takes a free number, gives back its module's own, or touches none.
  `LiveDevice` and the guard of DeviceTable's Publish are consequences;
  `FilesOK` (no open file of an owner outside `"in"`) is what Withdraw needs.

**Only model-checked**: the liveness properties (PressEndsSelect, PressEndsRead,
CallReturns, ReleaseReturns, HeldKeyWakes, WriteEndsSelect, BeepFollowsKey), as
neither fairness nor ENABLED is within the prover's reach. Every invariant, action property
and refinement of a passing run has its theorem. The refinements of KeyLedger (by
pan_irq) and DeviceTable are both checked and proved; that of KeyLedger by pan_tasklet
is proved only.

## 5. Findings

1. `pan_irq.c:112` (`CountsExact`): an interrupt between `copy_to_user` and `memset`
   is counted and erased. The test prints the sums as the presses there were.
   `LossOnlyInWindow` says this is the only way a press is lost.
2. `pan_time.c:56` (`SecondsSinceOpen`): a second open clears the first one's counter and
   starts a timer that is waiting. The test prints the counter as "seconds  after open".

Seen while modelling, in the models, and without a run of their own:

- `pan_buttons.c:102`: after a signal read goes on although no interrupt came; the
  comment at line 103 says the flag is 1 there. `ReadsHavePresses` counts such reads apart.
- `pan_buttons.c:115`: no `.owner`, so the module can be removed while its device is
  open, and close then does not come to `pan_buttons_close`, as the comment at line 81
  says it does. exit (lines 146-150) frees no line either, so the interrupts lead into
  the freed module, and the reloaded driver cannot be opened. PanButtons has it
  (`Rmmod`, `Stray`); `StaleLines` says that nothing else leaves such lines. CharDev
  has it too (pan_buttons is not in `Owning`).
- `pan_irq.c:193`, `pan_tasklet.c:207`, `pan_time.c:162`, `pan_time_key.c:209`: insmod may
  succeed although kmalloc failed, and rmmod of such a module oopses in
  cdev_del. It never comes far enough to give back another module's number.
- `pan_irq.c:156` and its like: an error of cdev_add is printed and init goes on,
  so insmod can succeed with a number and no device.
- The block variant's write (`block/src/pan_poll.c:91`) wakes nobody: select finds the
  number when its time is over (`EmptyHanded`), not before.

## 6. Not modelled

- The vendored `arch/` tree of Linux, archives and board set-up: not the author's
  running code. Of it the models use what config_PAN says of the scheduler and what
  `copy_from_user.S` does with bytes it could not fetch.
- The test programs other than key_beep_test: single callers of one driver, whose
  sequences of calls are among those every model allows.
- The undefined result of poll_write and what printk prints, but for nosemaphore's lines.
- What follows a BUG(), a tangled timer wheel, or a use of the memory of a removed module.
- The kernel itself. `request_irq`, wait queues, tasklets, timers and the scheduler are
  modelled by what the drivers can observe of them.
- Key bounce on the interrupt lines: every edge is an interrupt and a press, as for the driver.
- Time in the key drivers; select without a timeout, as their tests call it.

## 7. Plan

Done: every driver of the lab, in the order key drivers, memory, timers, lifecycle,
poll and beeper, unprotected buffer; proofs of every invariant, action property and
refinement of the runs. Left:

1. Proofs of what liveness rests on, as action properties: that no step but a read
   takes the flag from a sleeper, that every scan moves a held key's count on, that
   a release loop's index only grows.
2. The three interrupt-driven drivers side by side on one set of lines, in place of
   `OtherTakes`, and a three-process instance of PanIrq without history variables.
3. What the kernel does with a tangled timer wheel, so that two opens of
   pan_time_key can be followed to their end.
