# Models of wanggong/self_code

The repository is a personal collection of debugging work on Android 5.0 phones: files of bionic,
the kernel and the media framework with the author's changes, a few tools of his own (the mutex
tracker, the breakpoint device, the memory inspector, the log file helper), and small programs.
Most of it is under `src/debugfs/android50`, which mirrors the Android tree; paths below are
relative to that directory unless they start with `src/`.

This directory holds TLA+ modules for the parts where the order of steps matters, TLC
configurations that check them on small instances, and TLAPS proofs for every size. The main
results:

* the futex mutexes of bionic implement an abstract lock, for any number of threads and any width of
  the counter (proved), and lose no wakeup, except that a `timedlock` of a recursive or
  error-checking mutex that gives up can lose another thread's (run `owned_lost_wakeup`);
* the mutex tracker keeps its records true (proved) and never deadlocks on itself, except that an unlock
  by a thread that does not hold the mutex leaves the tracker locked for good (run
  `tracker_foreign_unlock`);
* breakpoint slots are counted exactly, a breakpoint object holds them exactly while it is listed or
  worked on, and what was admitted finds a debug register (proved, for any number of cpus, registers,
  files and tasks);
* wakeup sources are counted exactly, and the system does not go to sleep on an event that one reader of
  `wakeup_count` has not been told of (proved); a voltage that is set suits everybody who voted
  (proved); text of printk is in one place at every moment (proved);
* the kernel's two log rings keep their readers in place, for any size (proved), and the logger's is an
  abstract log (proved); regulators that are in use stay on, with any number of consumers (proved), but
  two deferred disables of one can stop the kernel (run `regulator_deferral`); bionic's thread-specific
  data keeps the promises of its comments (proved);
* bionic's `dlopen` and `dlclose` lose and keep no reference when loads fail half-way and when
  constructors and destructors call them again, as long as nothing that is being unloaded is opened;
* the Aho-Corasick matcher finds what it should, and the KMP matcher finds the first line;
* the media player's renderer loses no buffer and returns none twice, and leaves a queue undrained only
  in three known ways (proved);
* the author's manager of free extents in the FAT file system agrees with the FAT and keeps files in
  places of their own until a freed extent is used, which slips in it allow, and after which it may
  give out a cluster twice (runs `fat` and `fat_stale`);
* the camera stress test, which waits without a condition, hangs only where a notify found nobody
  waiting, and touches no camera that is not ready (the latter proved).

Contents: [inventory](#inventory), [modules](#modules), [runs](#runs),
[fairness](#fairness), [proofs](#proofs), [findings](#findings),
[not modelled](#what-is-left-out), [plan](#plan).

## Inventory

Each component with its state, its operations, what it talks to, and what is hard about it.
`PROJECT.json` lists the same components with their files, and under `hazards` each hard place at
its line.

### Modelled

**pthread mutexes** (`bionic/libc/bionic/pthread_mutex.cpp`). State: one word per mutex holding
state bits, shared bit, type, recursion counter and owner. Operations: lock, trylock, timedlock,
unlock, destroy. They talk to the kernel by futex_wait and futex_wake, and through the function
pointers `mutex_lock_debug` and `mutex_unlock_debug` to the mutex tracker. Hard: a contended unlock
of a normal mutex is a decrement, a store and a wake; a recursive mutex works on a copy of the word
that goes stale; timeouts race with wakeups; destroy races with late lock calls. Correct when at
most one thread holds the mutex, the counter tells the truth, and no sleeper is forgotten.

**mutex tracker** (`system/core/unwind/mutexdebug.cpp`). State: 1024 records on a used and a freed
list under `bt_list.lock`, a table of the threads that are inside a hook. Operations: init, uninit,
the lock and unlock hooks, `dump_all_mutex`. It is called by every lock and unlock of a normal
mutex and locks such mutexes itself, as do the unwinder and the log it calls. Hard: re-entry, a
record that is visible before it is filled in, an exhausted pool, error returns. Correct when what
a dump prints is true, no record is lost, and no hook hangs.

**logger** (`kernel/drivers/staging/android/logger.c`). State: per log a byte ring with write offset,
start head, list of open readers and wait queue; per reader an offset. Operations: open, release,
write, read, poll, five ioctls. Hard: a write runs over the oldest entries and has to move every
reader it laps, also when it then fails; a reader sleeps between a test and a read. Correct when
readers see whole entries in order and are woken. The logs themselves are made one after the other
at boot, on a list that opens walk without a lock.

**hardware breakpoint slots** (`kernel/kernel/events/hw_breakpoint.c`). State: per cpu and type the
number of pinned cpu events, and how many tasks have n events. Operations: reserve and release of a
slot, registration on every cpu. **breakpoint device** (`kernel/drivers/misc/breakpoint/breakpoint.c`):
per open file a list of wide breakpoints, created and deleted by address. **arm debug registers**
(`kernel/arch/arm*/kernel/hw_breakpoint.c`): per cpu an array of events. Hard: counts kept
incrementally, failures after some cpus have been done, cpus that come and go, task switches.
Correct when the table equals what is held, nothing leaks, and an admitted event finds a register.

**thread-specific data** (`bionic/libc/bionic/pthread_key.cpp`) with **thread creation**
(`pthread_create.cpp`, `pthread_internals.cpp`). State: the map of keys under `s_tls_map_lock_`, an
area of values per thread, the thread list. Operations: create, delete, get and set; pthread_create;
the destructor rounds of pthread_exit. Hard: reads take no lock; delete reaches into all areas;
destructors run without the lock and may use every operation. Correct when a value is only ever seen
under the key it was set for, and exit leaves none behind.

**wakeup sources** (`kernel/drivers/base/power/wakeup.c`) with **suspend entry**
(`kernel/kernel/power/suspend.c`). State: an atomic word of events registered and in progress; per
source its active flag, deadline and kernel timer; the saved count. Operations: stay awake, relax,
event with a timeout, enabling and disabling of a device, get and save of the count, the last check
before sleep. Hard: the timer function runs late and against every other operation; jiffies and the
counter wrap; the count travels through user space. Correct when the system never sleeps on an event
it should have seen, and never stays awake for one that is over.

**printk** (`kernel/kernel/printk.c`). State: a byte ring of records with the sequence number and index
of its ends; the line under construction (`cont`); `console_sem`, and what its holder has printed; a
position for syslog, for `clear` and for every open reader. Operations: `vprintk_emit`,
`console_unlock`, suspend, resume and cpu notification of the console; syslog, `/dev/kmsg` and
kmsg_dump readers. Hard: printk only *tries* to take `console_sem` and leaves its text to the holder;
parts of a line are printed before its record exists; readers are not told when they are lapped.
Correct when all text is printed once, waiters are woken, and an index never leads into text.

**regulators** (`kernel/drivers/regulator/core.c`). State: per regulator its use and open counts, what
it supplies, deferred disables, a gpio it may share; per consumer a voltage range. Operations: get,
put, enable, disable, deferred disable and its work, late disabling after boot, set and sync of
the voltage. Hard: a supply is counted outside the lock of what it feeds; drivers fail half-way;
the deferred work runs at any time. Correct when what is used is on and fed, and the voltage suits
all who have asked.

**camera stress test** (`src/android stdio/first/.../cameratest.java`). State: three threads, a looper
queue, the open camera. Operations: open, preview, take, release as messages that are waited for;
exit when the surface is destroyed. Hard: waits without a condition, a notify that may come first, an
exit in the middle of a picture. Correct when every message finds its camera as it needs it, and the
exit completes.

**dynamic linker** (`bionic/linker/linker.cpp`, `dlfcn.cpp`). State: the list of soinfos, each with a
reference count, children, parents and flags; the list gdb reads; the load tasks and libraries found
of a call. Operations: dlopen, dlclose, and what they call: load breadth first, link bottom up,
construct, destruct, unload. `g_dl_mutex` is recursive, so init and fini functions call dlopen and
dlclose in the middle of the linker's own work. Hard: that re-entry, libraries that need one
another, and failures after half of the work. Correct when counts equal holders, and no library is
taken from under one that needs it.

**matchers** (`src/algo`). A table of states built from patterns in three passes (Aho-Corasick), and a
search of a stream by a failure array, which seeks back to print a line (KMP). Sequential. Correct
when they find what a plain definition of occurrence says.

**NuPlayer renderer** (`frameworks/av/media/libmediaplayerservice/nuplayer/NuPlayerRenderer.cpp`). State: a
queue of buffers per stream with a generation, a flag for a pending drain and one for a pending flush; the
video buffers parked until offloaded audio has started; the flags of pause and of the sink. Operations:
messages to one looper (buffers, ends of stream, flush, pause, resume, opening and starting of the
sink), delayed messages that drain the queues, and the callback of an offloaded sink on its own thread.
Hard: delayed drains meet flushes and pauses; buffers are in three places when a flush comes; not all of
the looper's work on parked buffers is under `mLock`. Correct when every buffer goes back to its decoder
once and in order, and no queue is forgotten.

**FAT cluster manager** (`kernel/fs/fat`). State: one tree of extents of free clusters for all volumes, the
extent merged last, a pointer from each inode to its extent and back; per volume the FAT, the count of
free clusters and whether it is valid. Operations: take clusters for an inode (its own extent, the first
one nobody has, or half of the longest), give clusters back, release on close, empty the tree; called
by allocation, truncation, eviction, open, close, mount, unmount and the count of statfs. The tree is
under `root_lock`, the FAT under each volume's `fat_lock`. Hard: extents are merged and freed while
inodes and `last_merged` point to them; errors between the tree's change and the FAT's; a count that
empties the tree before it has the lock. Correct when the extents are the free clusters, no two files share
one, and the count is true.

### Not modelled

| component | files | state and operations | why not, or when |
|---|---|---|---|
| log file helper | `system/core/libwgz/wgz_debug.cpp` | 64-entry table of dump files by name | planned: `WgzDump` |
| watchpoint client | `system/core/watchpoint` | one object over `/dev/breakpoint` | its calls are the environment of `BreakpointDev` |
| unwinder glue | `unwind.cpp`, `CallStack.cpp`, `android_backtrace`, `external/libunwind` | none between calls | the locks they take are `Inner` in `MutexDebug` |
| function tracer | `system/core/func_trace` | one line of output per call | pure output |
| malloc dispatch | `bionic/libc/bionic/malloc_debug_common.cpp` | the allocator's dispatch table | planned: `MallocDispatch` |
| allocator | `upstream-dlmalloc/malloc.c` | dlmalloc | third party |
| stdio file table | `bionic/libc/stdio/findfp.c` | glue list of FILE objects | planned, small |
| memory inspector | `kernel/drivers/debug_mem` | reads and writes memory on request | I/O; planned in part: `rw_task` |
| FAT outside the manager | `kernel/fs/fat` | directories, cluster cache, entry codecs, options | upstream code that does not call the manager |
| gpio, pinctrl, interrupts | `kernel/drivers/gpio`, `pinctrl`, `irqchip`, `spmi` | device registers | vendor drivers with added printing |
| audio kernel drivers | `kernel/sound`, `external/tinyalsa` | power graph | vendor drivers with added printing |
| scheduler, memory, panic | `kernel/kernel/sched`, `panic.c`, `mm`, `fs/coredump.c`, ... | the kernel's own | carried for a few lines of tracing |
| camera bus debug | `cci_debug.c` | one register access | pure I/O |
| audio framework | `AudioTrack.cpp`, `services/audioflinger` | buffer positions between client and mixer | planned last |
| screen cast client | `src/ScreenCastClient` | commands on a socket | planned, small |
| gpio signal generator, web page | `src/debugfs/useless`, `src/htlm` | a pin | pure output |
| i2c tool, samples, scripts | `src/i2c_rw`, `src/sample_code`, `src/script` | none | system call demonstrations and wrappers |

## Modules

    AbstractLock <--implements-- NormalMutex  <-- BionicProofs, also about Linker
                 <--implements-- OwnedMutex   <-- OwnedMutexProofs
                                       ^--- MCLocks: one run for both
                                 MutexDebug   <-- MutexDebugProofs   (a mutex: AbstractLock's owner)
    AbstractLog  <--implements-- Logger       <-- MCLogger
                                    ^--- LoggerAndFatProofs, also about FatBlocks
    BpSlots
       ^--- BreakpointDev <-- BreakpointProofs
                   MCWakeup -->  WakeupSource <-- WakeupSourceProofs
    LoggerDevices  Console  CameraTest  RegulatorVoltage  LogBuf  Regulator <-- MCRegulator
       ^ ^--- PartsProofs: the proofs about these six
       ^--- MCParts: one run for these, BpSlots and three threads of OwnedMutex
    Linker  Acsm  Kmp  Renderer
       ^                  ^--- KeysAndRendererProofs, also about ThreadKeys
       ^--- MCSafety: one run for these and BreakpointDev
    FatBlocks <-- MCFat

Conventions. A variable or action has the name of the C variable or function where there is one. An
action is the longest piece of code that other threads or processors cannot see in the middle: one
atomic access for the mutexes, one critical section elsewhere. `pc` holds where a thread is between
two of them. Variables marked *history* in their declaration appear in no guard of the code and only
serve to state properties. Each module declares its bounds as constants marked `bound`. Operators
that are not reachable from `Next` and are described as something the code does not do ("a drop that
frees the source as it is") are the plausible mistakes used to test the properties: with the
definition they replace, TLC finds the property violated.

**AbstractLock** — an owner, a set of waiting threads, and whether the lock was destroyed.

**NormalMutex** — the state bits of the word (`value`). `Swap` is the exchange in the while
condition of `_normal_lock`, `Unlock`, `StoreUnlocked` and `FutexWake` the three steps of
`_normal_unlock`, `Expire` and `FutexReturn` the passing of a deadline and a futex_wait that returns
by itself. Destroy is a trylock and the store of `0xdead10cc`. Only the holder unlocks. The
shared bit only selects a futex opcode and is left out.

**OwnedMutex** — recursive and error-checking mutexes: the word as owner, counter and state,
and `mvalue`, the copy every thread works on. Each cmpxchg succeeds when `word = mvalue[t]`. The
counter is 11 bits wide in the code, `MaxCounter` here. The read of the word that decides whether the
caller is the owner is one step with the test, because only the caller can change the answer.

**MutexDebug** — the hooks. A mutex of the process is its owner only, which is what `NormalMutex` is
shown to implement. Each thread has a `stack` of hook calls, since a lock taken inside a hook runs
the hook again; `Inner` is such a lock. `tids` is `backtracing_tid`, one pass over which is one step
because `backtrace_mutex` is not held across anything else. `GetOne`, `SetMutex` and `SetPid` are
separate because `getone` unlocks before the fields are set. Backtraces themselves are left out.

**AbstractLog** — a sequence of entries from `first` on, and a position for each reader.

**Logger** — the ring. `buffer` holds a header at the offset where an entry starts and `Junk`
elsewhere, so that a walk from a wrong offset goes wrong here as it does in the code. `live` is a history: the
entries that are still whole, by number. Everything done
under `log->mutex` is one step; `Check`, `Schedule` and `Take` are the parts of `logger_read`
around its sleep, `Wake` is the writer's wake-up after its unlock. Offsets count entry headers, so
the header is one unit. The two header versions only differ in what is copied and are left out. The assumption
`2 * len <= Size` is that a log has room for two of the longest entries: all logs are 2 MiB and an
entry is at most about 4 KiB.

**LoggerDevices** — `logger_init` and `create_log` with their failures, against opens of the devices
already made. `misc_mtx` is held by `misc_register` and by an open, as in the misc driver, which is
external; `cursor` is where `get_log_from_minor` is on `log_list`, one entry per step. `freed` are the
logs that an error path frees although they are listed.

**Console** — from `vprintk_emit` to the consoles. A fragment is the text of one printk, with or
without a newline, a prefix, and room left in the line; `cont` holds fragments and how many of them
the console has. One action is one critical section of `logbuf_lock`; `console_unlock` is
`console_cont_flush`, `call_console_drivers`, `NextRecord`, `Up`, `Recheck`, `Retry` and
`wake_up_klogd`, between which other processors print. Suspend and resume (`pm`), the worker that
flushes for a cpu that is coming up (`work`) and a reader (`klogd`) use the same semaphore or queue. The
ring is only its length here.

**LogBuf** — the ring. `log_buf` holds a record's header (its length and sequence number) at its first
index, zero where the end marker or fresh memory is, and `Bytes` elsewhere, so that a wrong index
reads `Bytes`. `From` walks from a position. One `reader` at a time stands for a dump of the whole
log, an open `/dev/kmsg`, or a kmsg_dumper; `syslog` and `clear` are the global positions.
`setup_log_buf` moves the ring to a bigger buffer once.

**Regulator** — use counts. One action is one critical section of `rdev->mutex`: `EnableSupply`,
`Enable`, and `DisableSupply` when it failed; `Disable` and `DisableSupply`; `Defer` and `Schedule`;
`regulator_disable_work` and `WorkDisablesSupply`. A driver may fail (`Fail`), a gpio does not. A pin
counts its users (`regulator_ena_gpio_ctrl`). Consumers balance their calls, as the comment of
`regulator_enable` asks. The histories `slipped` and `astray` mark two things the code does not
guard against, see [findings](#findings). The use of a supply by what it feeds has no consumer of
its own in the model: it is the calls themselves.

**RegulatorVoltage** — votes and the selector for them, with the three ways drivers map voltages.
`Applied` is the part shared by set and sync; any failure of the driver is the disjunct that puts
the old votes back.

**CameraTest** — three threads. `at` is the step of the activity's and the command thread, `phase` how
far a message and its wait are, `looper` and `queue` the third thread. Java's monitors are one step each; a
notify without a waiter is lost and noted in `missed`. The camera (`hw`) is external and completes a
picture at any time.

**Linker** — `stack` holds the activations: a `find` of find_libraries, a `ctor` at the children it has
left to construct, an `unload` in its loop, the return (`open`) of a dlopen, and the program's own
`init` and `fini` functions. The linker's code moves the top only; a program's function on top may
call `dlopen` and `dlclose`, as the program may on an empty stack. Every library of the path may fail to
load or to link at any time. One assumption on the program is stated at `dlopen`: in the middle of
an unload it opens nothing that needs what is being unloaded (see [findings](#findings)).

**Acsm** — one action per pass and pattern, or per state taken from the queue. The table has the
columns of the code; `seen` is what was searched, and serves the property. **Kmp** — one action per
turn of the loop; the stream is a position, a state and the character taken.

**Renderer** — `messages` is the looper's queue, `drains` the delayed messages, which arrive in any order and
at any time. An action is the handling of one message; the test and the parking of a video buffer, and the
last flags of a flush, are actions of their own because the callback (`fillAudioBuffer`) may run in between.
How much the sink takes, how far ahead a picture is and whether `getPosition` fails are choices. What
the player does is not in the repository: it is assumed to flush a stream again only after the flush
has been answered, to queue audio after the sink was opened, which it does once, and to give up offloading
once, when it is told to. `reposted` and `undrained` are histories of two things the code
does, see [findings](#findings). The list of parked buffers is also used without the lock by
the looper; its operations are taken as atomic.

**FatBlocks** — the tree is a set of `Cells`, whose contents (`mem`) are kept when they are freed, since
`last_merged` and inodes may still point there. The operations of the manager are functions of its
state (`Map`), named as in the code; where kzalloc may fail, or the order of a search depends on the shape of
the tree, they give a set of outcomes. `fat` is the set of entries in use of each volume; an action
is a call under `fat_lock`, except that `fat_free_clusters` is one turn of its loop, since another
volume or a close may come between two turns, and a count is `StartCount` (the tree is emptied, no lock
yet), `LockCount` and one step for each extent. `fat_chain_add`, the VFS (which runs one write or
truncation of a file at a time, reuses inode objects, and evicts before it unmounts) and `rb_next` are external. `fat_file_open`
clears the pointer in one step, although it holds no lock. What a program does with freed memory is
open; the model stops at the first use (`touched`), or with `GoesOn` assumes that it finds what was
left or what is there now. `strayed` marks that an extent and an inode have stopped to name each other by a merge
or an open, the known ways, after which the invariants about them do not apply.

**MCLocks**, **MCParts**, **MCSafety** — the initial state chooses which of several parts moves, so one run checks them
all with a sum instead of a product of states. MCParts has the parts with liveness, whose fairness is stated for
while they move, and some small ones; MCSafety has parts with invariants only.

**BpSlots** — the table, with `reserve_bp_slot` and `release_bp_slot` for events bound to a cpu, a
task or both. **BreakpointDev** extends it with files, wide registration cpu by cpu (`Reserve`,
`Validate`, `Fail`), the record (`Alloc`), deletion and release (`TearDown`), cpus going on- and
offline, and context switches that install and uninstall events in `regs`. Its debugger registers
one event per task. The registers followed are those of one type, `WideType`, as the driver makes
events of one type only. A context switch installs the events of a task in the order of a list of the
perf core, which is outside the repository: `installAll` is some way to put them into free registers, and
nothing else about it is used. A file is used by
one thread at a time, as `libwatchpoint` does; the driver has no lock on the list.

**ThreadKeys** — the map, the areas (`tls`), the thread list, the steps of pthread_create between
clone and the release of the child, and the destructor rounds, in which `CallDestructor` gives up
the lock and `DestructorReturns` takes it again. User code in a destructor may call everything.
A value stands for the creation of the key it was set under, so a stale one can be recognised. The
tail of `pthread_exit` is not in the repository and is external: the thread leaves the list or stays
on it until it is joined.

**WakeupSource** — `comb` is `combined_event_count` with its width `InProgressBits`, `jiffies` wraps
at `JiffyMod`, and deadlines are compared as `time_after` does. `step` and `by` say how far the
holder of `ws->lock` is in `wakeup_source_deactivate`, which other processors see in three parts:
the flags and the addition to the word, the second look at the word, and the wake-up. `Fire` and
`pm_wakeup_timer_fn` are apart, so the function can be overtaken by everything else. A source is
made, attached to its device, detached, dropped and freed. A saver reads the count, saves it and
suspends; `suspend_enter` is one step because interrupts are off and one processor is left. Statistics,
the autosleep accounting and the `can_wakeup` flag are left out. **MCWakeup** checks the timers, which
the handshake does not see, and the handshake, one or the other by the initial state.

## Runs

All passing runs are exhaustive. Violation runs state what a comment or the code's own error handling
says, and fail.

| run | instance | properties | shows |
|---|---|---|---|
| `locks`: normal | 3 threads, 2 calls each, one may destroy | SleeperIsRemembered, DestroyIsFinal, ImplementsLock, EveryCallReturns | a normal mutex is a lock; nobody is left asleep; a destroyed mutex stays dead although late lock calls overwrite its poison value |
| `locks`: recursive | 2 threads, 3 calls each, recursive, timeouts, destroy, counter of 1 bit | OwnedImplementsLock, TimedCallsReturn | the word is a lock through every lost race and at the counter's limit; a timedlock returns |
| `owned_lost_wakeup` | 3 threads, one uses timeouts | WaitersAreUnlocked (violated) | with timeouts a wakeup is lost: see [findings](#findings) |
| `tracker` | 2 threads, 3 mutexes and `Inner`, 2 records, a dumper, uninit | TrackingIsTrue, HookReturns | records are true and none is lost with an exhausted pool, nested hooks, concurrent dumps, and locks the hooks do not see |
| `tracker_foreign_unlock` | 2 threads, one unlocks what it did not lock | HookReturns (violated) | the tracker stays locked: see [findings](#findings) |
| `logger` | 2 readers of both kinds, 2 tasks on one file, ring of 6 units, entries of 2 and 3 | RingIsSound, ImplementsLog, BlockedReaderWakes | the ring under laps, failed writes, flushes and shared files; a write moves lapped readers only |
| `keys` | 2 threads, 3 user keys, 2 rounds, 3 creations | UnallocatedReadsNull, ValuesAreOfTheirKey, CleanUnlessExhausted, DestructorGetsItsValue, ExitCompletes | reads without the lock are safe; exit cleans up |
| `wakeup`: timers | 2 sources, 1 device, jiffies modulo 8, delays 0 and 1 | ActiveIsAccounted, FreedIsQuiet, DeadlinesPass | timers against every other operation, across the wrap of jiffies |
| `wakeup`: readers | 2 sources, 1 saver, counter of 2 bits | ActiveIsAccounted, FreedIsQuiet, NoEventGoesUnnoticed, BlockedReaderWakes | the handshake, including the wrap of the count |
| `parts`: slots | 2 cpus, 2 types with 1 and 2 slots, 15 events | SlotsAreAccounted | the incremental counts equal the events held, and no cpu is overcommitted |
| `parts`: mutex | 3 threads on a recursive mutex, no timeouts, one makes 2 calls | EveryCallReturns, CounterIsDepth, NoSelfDeadlock | without timeouts no wakeup is lost; the counter is true and the owner never waits |
| `parts`: devices | 4 logs, 2 openers | OpensFindTheirLog | a failed registration leaves a freed log on the list, where no open comes across it |
| `parts`: console | 2 printers, one on a cpu coming up, 2 fragments, ring of 1 record | FragmentsInOnePlace, LogCatchesUp | everything is printed once and nobody is left waiting |
| `parts`: ring | rings of 8 and 9 units, texts of 1 and 2, 4 records | ReadersKeepTheirPlace | no index is trusted wrongly after laps, a clear and the move to the new buffer |
| `parts`: regulator | 2 regulators on a supply, one sharing its pin with a fourth, 2 consumers, 1 failure | UsesAreServed | no use is taken away by failures, deferred work or another user of the pin |
| `parts`: voltage | 2 consumers, 4 descriptions, ranges in 1..6 | VoltageSuitsAll | the voltage set is the lowest that suits everybody, after errors too |
| `parts`: camera | 2 turns of 2 cameras with 2 pictures, exit at any time | CamerasAreReady, OnlyMissedNotifyHangs | cameras are ready for each message; only a missed notify hangs |
| `safety`: breakpoints | 2 files, 2 addresses, 2 cpus, 2 slots, one debugged task | DeviceIsSound | all or none, through every failure, hotplug and context switch |
| `safety`: linker | 6 libraries: a chain with a shortcut, a user of its middle, a cycle; 2 handles, calls from 6 activations deep | LibrariesAreHeld | counts equal holders after failures and re-entry; what a library needs outlives it |
| `safety`: acsm | 7 patterns of up to 3 of 3 characters, 3 at once, texts of 4 | MatchersAreRight | the table finds exactly the occurrences, with and without case |
| `safety`: kmp | all patterns of up to 3 and files of up to 4 characters | MatchersAreRight | the first line with the pattern is printed |
| `safety`: renderer | 2 buffers of each stream and 1 call of the player, or 1 and 2; offloaded or not | BuffersComeBack, OnlyKnownStalls | every buffer comes back once and in order; no queue is forgotten but in known ways |
| `fat` | a volume of 5 clusters, 3 cells, opens, deletions and remounts: 2 files on an empty volume without failures, or 2 files or a file and a directory, a cluster in the middle in use, 1 failure | SpaceIsAccounted, FilesGrowInPlace | until a freed extent is used, the extents are the free clusters and the count is true; until an extent has strayed too, files grow in extents of their own |
| `fat_stale` | 1 volume, 2 files, what is freed is used | AllocatedIsFree (violated) | a cluster is given out twice: see [findings](#findings) |
| `regulator_deferral` | 2 consumers of one regulator | DeferralIsCounted (violated) | BUG_ON is reached: see [findings](#findings) |

The rows `locks` are one run, and so are the rows `wakeup`, `parts` and `safety`.

Why the bounds are enough to be interesting:

* *locks, normal*: a lost wakeup needs a holder, a sleeper and a third thread that takes the lock in
  between; with two calls each, a thread can come back after it has been overtaken. Destroy needs a
  late locker on top, which three threads provide.
* *locks, recursive*: a stale copy needs one other thread that flips the state bits, and three calls let a
  thread reach the counter's limit, fail there and unlock again. The part *mutex* has the third thread
  without which a wakeup cannot go to the wrong one; `Nesting` and `OthersCallOnce` let one thread
  lock twice, nested or one after the other, and the others once.
* *tracker*: two records for up to four held mutexes exhaust the pool, so both a tracked and an
  untracked unlock occur; a third mutex lets a thread hold more than one. The table has a slot per
  thread, as in any process of fewer than 1024 threads.
* *logger*: six units hold two or three entries, so that the third write laps with every alignment
  of lengths 2 and 3, and a walk of two entries crosses the end of the ring. Three writes that
  succeed and any number that fail.
* *parts, slots*: two slots is the smallest number for which a task's entry moves between counts; the other
  type has one, where the index below zero and the last index coincide.
* *safety, breakpoints*: two files compete for the last slot of a cpu while the debugged task comes
  and goes on it.
* *keys*: three user slots and three creations allow a slot to be deleted and created again while
  the other thread is in any step of creation or of its rounds; two rounds allow them to run out.
* *wakeup, timers*: the assumption on `JiffyMod` is the one under which signed comparison works:
  deadlines and lateness stay within half the range. Eight jiffies are the least for delays of 1 and
  a lag of 1 with room to spare, and Init is two jiffies before the wrap. A reported event of delay
  0 is relaxed at once. A second source is
  what a device gets when it is disabled and enabled again while the first is dropped.
* *wakeup, readers*: a counter of two bits wraps after four events, and up to four are missed by
  one saver, so the case the code cannot detect (65536 events in reality) is reached and excluded in
  the property by `% CountMod`.

* *parts, devices*: the code's own four logs. *Console*: one record in the ring and two fragments are the least with
  which a fragment is overrun, a line is sealed while it is half printed, and a printk comes between a
  holder's last look and its release. *Ring*: the least ring the assumption allows (two of the longest
  records and their end markers; the real one has at least four), and four records to lap a
  reader with every alignment. *Regulator*: two consumers meet on the supply through the regulators it
  feeds, and one failure is put anywhere. *Voltage*: voltages are in steps, and the ranges
  cover every order of two ranges, the constraints and the table. *Camera*: two pictures and two turns let each
  loop go round; exit comes at any step.
* *safety, linker*: two handles are one in use while another is opened or closed, also from inside an init
  or fini function; the libraries have every relation of two that need each other directly, through a
  third, both, or in a circle. *Matchers*: patterns inside, overlapping and in front of one another; three
  characters tell prefixes, failures and case apart. *Renderer*: two buffers of a stream show their order, and one
  in each of two places; two calls are a pause with its resume or a flush, or the flushes of both streams.
  The product of the two bounds, `FewCalls` left out, was checked once (13 million states with
  offloading, 3 without).
* *fat*: five clusters are the least with which the half of the longest extent serves a second file (a
  file needs a half of three), so that both files have an extent; the cluster in the middle gives the
  count two extents. Three cells are one extent for each of two files and one between or behind them; when they run
  out, kzalloc fails. A failure is a read, a write or an allocation of memory, at any step. `GrowsClosed`
  (a truncation by path that extends a file nobody has open) and `UseFree` are for other instances: the
  first leaves an extent with a closed file, the second a volume without extents.

The type invariants are stated in the modules as documentation of the variables' ranges, and were
checked once with the instances of the runs; some are proved ([Types](#proofs)). The runs spend their properties on
what would fail outside those ranges. Where several invariants describe one structure they are conjoined:
`TrackingIsTrue` (`PoolConserved`, `RecordsAreTrue`), `RingIsSound` (`RingIsChained`, `OffsetsAligned`,
`LogLenIsUnread`), `MatchersAreRight` (`MatchesAreFound`, `FirstLineIsFound`), `SpaceIsAccounted`
(`MapIsExact`, `FreeCountIsTrue`), `FilesGrowInPlace` (`ReservationsAreMutual`, `WritesAreSequential`), `SlotsAreAccounted` (`TableIsExact`, `NeverOvercommitted`), `DeviceIsSound`
(`NoSlotLeaks`, `ListedIsWatching`, `RegistersSuffice`), `LibrariesAreHeld` (`RefsAreHolders`, `NeededIsAlive`), `ReadersKeepTheirPlace` (`CursorsAreSound`, `UnreadIsSeen`),
`ActiveIsAccounted` (`CountersAreTrue`, `DeadlineIsArmed`), `UsesAreServed` (`UsesAreCounted`,
`SharedPinIsHigh`).

## Fairness

Only what the scheduler and the callers owe is assumed, and no signal, spurious return, failure or
new call is ever required to happen.

* `NormalMutex`, `OwnedMutex`: a started call keeps running; a holder unlocks; a deadline that was set
  passes, and an expired futex_wait returns (weak fairness). Futex wake-ups pick an arbitrary sleeper.
  Calls are bounded by `MaxCalls`, so the liveness properties say that calls return *once the others
  stop making new ones*: bionic's mutexes are not fair and promise no more.
* `MutexDebug`: hooks keep running (weak); a thread that keeps asking for `bt_list.lock` gets it, and
  unwinding, which may lock other mutexes any number of times, comes to an end (strong).
  Acquisition of a process mutex is not fair at all. `HookReturns` excludes histories in which
  `uninit_mutex_debug` destroys the lock under its users.
* `Logger`: a task inside a call is run again, a writer reaches its wake-up.
* `ThreadKeys`: destructors return, and an exiting thread continues. Weak fairness is enough for the
  map's lock, since every holder keeps it for a bounded number of rounds and creations are bounded.
* `WakeupSource`: time passes, expired timers are run, lock holders go on, a drop goes on. Nobody is
  obliged to relax a source. The timer softirq runs within `MaxLag` jiffies of a deadline, as a guard of `Tick`.
  `WakeupSpec` of `MCWakeup` states the same fairness for the part that moves.

* `Console`: whoever holds `console_sem` goes on (weak, per user), a cpu that is coming up gets to its
  console, a suspend is followed by a resume, the worker and the reader run. No printk has to happen.
* `CameraTest`: the threads run and a picture is completed; nobody has to destroy the surface, and a
  missed notify is not repaired by anything.

## Proofs

TLAPS checks the theorems below for every value of the constants that satisfies the named
assumptions of the modules.

**BionicProofs** on the normal mutex (any number of threads and calls). The inductive invariant `IInv` adds to
`TypeOK` and `MutualExclusion` how the word relates to the threads: `WordAgrees` (while a thread is
between its acquisition and the access that frees the word, the word is in state 1 or 2 and the
mutex is not destroyed) and `DeadStaysDead` (the word of a destroyed mutex is never 0). Mutual exclusion alone is not
inductive: it does not say that a word that reads 0 has no holder, nor that a late swap of 2 into
`0xdead10cc` leaves nothing to acquire. From it:
`TypeCorrect`, `MutexExcludes`, `NobodyOrphaned` (`[]SleeperIsRemembered`,
which every step preserves given the types), `DestroyedForGood`, and `Implementation`: `Spec => Abstract!Spec`, where each action is shown to be a
step of `AbstractLock` or a stutter.

**BionicProofs** on the dynamic linker (any libraries and needs, cyclic ones too, any bounds on handles
and depth). `LibrariesStayHeld` (`[]LibrariesAreHeld`), from `NeedsAssumption` alone. The property speaks of the
moments between calls and of what is constructed; the inductive invariant `LinkInv` says what holds in
the middle of a load or an unload, with init and fini functions calling back in:

* `Counted`: a reference count is the handles, the links of other libraries and the activations on
  the stack that keep the library (a load that has found it, an open under way, an unload).
* `Kept`: what is linked, constructed, loaded and known to gdb agrees with the counts, and links have their
  way back. `Stacked`: what each activation finds when it is the top again; a library is torn down
  by one activation, which keeps the last reference.
* `Ready`: what a constructed library needs is constructed, or still on the list of its constructor.
* `Acyclic`: the links of loaded libraries have no circle, since `is_recursive` refuses the one that
  would close it. So a library without a holder outside a set that is going down is found at its end.
* `Halves`: there is a set of libraries that are half loaded, or on their way out after a load that failed. It
  hangs together at the top of the stack, nobody else links into it, none of it is constructed, and all
  other libraries are whole and have a holder of their own. `LoadOK` adds, for a load under way, that each of the set
  is linked or waits to be, and has, in its children and in the tasks that are left, what it needs in order.

One lemma per action (`LinkInvStays` puts them together). The undoing of a failed load and a `dlclose` end in
the same `soinfo_unload`, so what it does to each part is stated once (`Unloaded`, `Dropping`).
That the program opens nothing, in the middle of an unload, that needs what is being unloaded is a
guard of `dlopen` in the model (see its comment), not a hypothesis of the theorem.

**OwnedMutexProofs** (any number of threads, any width of the counter). The invariant relates `pc`,
`mvalue` and `word`: a thread on its way to a cmpxchg of the counter is the owner and its copy has
the word's counter, whatever has happened to the state bits. `TypeCorrect`, `CounterCounts`, `OwnerNeverWaits`,
and `Implementation`: `Spec => ImplementsLock`. A cmpxchg that fails, the nesting and the un-nesting of
an owner, the flip of the state bits and a deadline are stutters of `AbstractLock`; the cmpxchg that takes
the word from free, and the one that frees it, are its steps. The lost wakeup is no contradiction: an abstract lock
does not say that a waiter is woken.

**WakeupSourceProofs** (any number of sources, devices and readers, any width of the counter and of
jiffies). `FreedForGood`: nothing refers to a source after it is freed. It needs that a device's
source is attached to that device alone (`Attached`), that each holder of `ws->lock` keeps the source from
being freed (`Holder`), and that a source is as it was made until it is attached (`Fresh`).
`RelaxCountAgrees`: the early return of `wakeup_source_deactivate` when `relax_count` differs from
`active_count`, whose comment describes a race, is never taken under the locking in this file.
`EventsAreAccounted` (`[]ActiveIsAccounted`): the lower half of the word is the number of active sources
(`CountInv`), which needs that the counter has room for every source (`Room`, from `WidthAssumption`), since the
code adds to both halves with one atomic addition; and a source with a deadline has a timer set to it, or a timer
function on its way at a time after it (`TimeInv`), where `time_after_eq` wraps and `Tick` keeps lateness within
half of `JiffyMod`. `NoEventIsLost` (`NoEventGoesUnnoticed`): what a saver may rely on at each step
is `Told`: the count it was given and what it has missed are the events of the word, but for a multiple of
`CountMod` that a carry out of the upper half has lost. It assumes `OneSaver`: a second process
that saves a count clears `events_check_enabled` under the first (`pm_save_wakeup_count` sets it false at its start), and
the first then suspends unchecked; the autosleep lock, where configured, keeps them apart. The run has one saver too.

**MutexDebugProofs** (any finite pool of records, any numbers of threads, mutexes, table entries).
`NoRecordIsLost`: `getone` and `putone` keep every record on one of the two lists, once
(`[]PoolConserved`), with unlocks by threads that do not hold the mutex and with `uninit_mutex_debug`
in the middle of a hook. `PoolConserved` speaks of sets and lengths, which does not say what a list
loses when an entry leaves it; the invariant `PoolInv` says that no entry of a list repeats, that the
lists share none, and that each record is an entry of one. `MoveOne` shows that moving an entry to the
front of the other list keeps this; `putone`'s search needs the least index of a match to exist, which
comes from the well-founded order of the naturals. `RecordsAssumption`: the pool is finite.
`TrackingStaysTrue` (`[]TrackingIsTrue`): a record on the used list names the owner of its mutex, or is being
filled by one thread. The invariant `SafeInv` is `PoolInv`, the types (`StateOK`) and `TrackInv`, which
follows each thread's stack of hook calls: an outer call holds what it was called for, only it has
a record at hand (`Fills`), and the calls inside it are about `Inner` and take no record, because the thread is in
the table. It assumes `Foreign = {}`: a thread unlocks only what it holds. Without that the theorem is false, by the
error path of the finding [a lock that is kept](#findings).

**BreakpointProofs** (any finite numbers of cpus, types, registers, events, files, breakpoints, addresses and tasks).
`SlotsAreSound`, for `BpSlots` by itself: the table `nr_task_bp_pinned`, which says how many tasks have how many events
on a cpu, is what counting the events would give, and no cpu has more than its registers. The two invariants and
the shape of the table (`SlotsShape`) are inductive together: `toggle_bp_task_slot` moves a task from one count to the next, which stays right
only while the count it leaves has it (`OneMoves`, `TasksMove`), and stays inside the table because the
reservation was refused otherwise (`MaxIsEnough`: a search from the top finds the task with most events).
`DeviceStaysSound`, for the device and the registers: `DevInv` is `SlotsInv` and two parts. `RegsInv`
says for each cpu that its registers hold what is due there (`Due`: active, bound to it, for the running task or
for none), each event in one of them (`Holds`); that there is always one left is `RoomForAll`,
from the slot table, with a count of the registers by bijections (`InstallFits`, `InstallAllFits`). `FilesInv`
says for each open file where its registration loop is (`LoopOK`: which cpus have been reserved and which
made active) and what it lists (`ListOK`), and that files own different breakpoints, so that the loop
of one leaves the others' facts alone (`OneFileMoves`); every slot held belongs to a breakpoint some file owns, which gives
`NoSlotLeaks`. `DeviceAssumption` and `SlotsAssumption` state that the sets are finite and that the events of
wide breakpoints are among `Events`.

**PartsProofs** holds the proofs about six smaller parts.

* `VoltagesSuit` (any consumers, constraints, requests and descriptions): the voltage that is set suits every
  consumer with a vote, after failures too, and a call that changes a vote sets the lowest that suits everybody. The invariant
  is that votes are within the constraints and that the voltage meets them; per way of mapping, a lemma shows that the
  selector found is the lowest of those in range, which for the table that is searched to its end needs
  a least element. `DescsAssumption` says that a driver lists its voltages as its way of mapping promises (an ascending table
  for the way that stops at the first match, positive steps for the linear one); the theorem also assumes
  `CMin + uV_offset > 0`: the constraints, moved by the machine's offset, are voltages; a negative bound would
  let the search take an error code or a missing selector for a voltage in range.
* `OpensAreSafe` (any sequence of logs, any number of openers): the walk of
  `get_log_from_minor`, which takes no lock, meets no freed log and does not run off the list. The
  invariant says that the list holds the first logs of `logger_init`
  in order (`Listed`), that the log `create_log` frees is the one it is making, after which no other is
  made (`Registered`), and that a walk has not passed the registered log it seeks (`Walks`): the freed
  log stays on the list, behind everything that can be opened. `LogsAssumption`: the logs differ.
* `TextIsInOnePlace` (any printers, any length of the ring and of what is printed): every fragment of text ever
  emitted is printed, on its way to the consoles (`text`), in the line under construction, in a record, or
  overrun, and in one of these only. `ConInv` adds `OneHolder`: who is between the taking and the
  giving up of `console_sem` is its holder, and text under way belongs to one who is printing. Without
  it the property is not inductive, since taking the next text overwrites the last.
* `CamerasStayReady` (any number of turns and pictures): each message finds the camera as it needs it. Control is finite;
  `RoundInv` says for each step of the command thread what the looper has done and what
  state the cameras are in, among them the camera that an exit in the middle of a picture leaves open.
* `UsesAreKept` (`[]UsesAreServed`; any finite numbers of regulators and consumers, any tree of supplies of one
  level, any sharing of pins): no interleaving of calls, failures and deferred work takes a use away. Beside the types the invariant says
  that only who has a supply is in the middle of a call on it (`CallsAreSupplied`), that what is in use is on
  (`InUseIsOn`), and that a use count is at least what its holders hold (`CountsSuffice`). Sums over
  holders are stated as cardinalities of sets of tokens, one for each use, so that a step adds or removes a token, and no
  induction over a fold is needed. `RegulatorAssumption`: supplies have no supplies of their own, and what is always on is on from boot.
* `ReadersStayInPlace` (`[]ReadersKeepTheirPlace`; any lengths of the early and of the later ring, any texts): there is a
  function from the sequence numbers in the ring to their indices along which every header leads to the next one, rising but for one
  wrap at the end marker (`RingAt`), and every reader and every saved position is at its value, at the end, or behind
  the oldest record. An overrun moves `first` along it, a new record extends it at the end, and
  the move to the larger buffer shortens nothing. The walk `From` is shown to count along the same function. `LogBufAssumption`:
  half of the ring has room for the longest record with its end marker.

**LoggerAndFatProofs** on the logger (any size of the ring, any lengths of entries, any numbers of readers, tasks and writers).
`RingStaysSound` (`[]RingIsSound`) and `RingIsALog` (`Spec => ImplementsLog`). The
invariant `RingInv` places each whole entry by its distance to the write offset (`ToEnd`), which falls strictly along the entries
(`RingFrom`), and says that the start head and every open reader are at such a place (`Aligned`) and that a task in the
middle of a read has its file open (`Calls`). That a write spares the headers of the entries it does
not lap, and that its fix-up puts who was lapped at the start of one that remains, follow from
distances (`Lapped`, `PulledIsClear`, `OverwriteSpares`); the distances also give
`LOGGER_GET_LOG_LEN`. The walks of the code (`get_next_entry`, `get_next_entry_by_uid`) and the sum of the unread are recursive
functions; that one exists, and what it returns at a place, is shown with a least counterexample. For the refinement `Views`
gives the numbers that stand for offsets; a write is `Append`, one that fails half way is `Drop`, looking and flushing are `Skip`, and
the rest of `logger_read` is `Read` or `Skip`. `SizeAssumption` is that of the model.

**LoggerAndFatProofs** on the FAT's clusters (one volume of any size, any files and directories, any number of cells for
extents, any number of failures). The hypotheses are `Volumes = {V}` and `~GoesOn`: with two volumes `MapIsExact` is false
(see [findings](#findings)), and behind the first use of a freed extent nothing is claimed. `FatAssumption`: a
volume has two clusters at least, and the holders of `fat_lock` have names of their own.

* `SpaceStaysAccounted` (`[]SpaceIsAccounted`). The invariant `FatIInv` is types, `FilesAreApart`
  (a cluster of a chain or of what is being freed is in use, and in one place of one of them only), `CountIsSound` (the
  number of free clusters is unknown or that of the FAT, or at most that once something has failed) and, until the
  first use of a freed extent, `SpaceIsSound`: the extents are apart (`Sound`), consist of free clusters, none of them lost,
  and hold all others once a count is done. Neither `MapIsExact` nor the count is inductive
  alone: freeing a cluster needs that it was in use, hence in no extent; a count needs that what is below the
  entry it has come to is in the tree and nothing above, while it holds the lock. Every operation of the manager has a lemma
  that says which clusters the tree has afterwards (`Grown`, `MadeSpace`, `SplitKeeps`, `TouchKeeps`, the merges), and
  every action one that carries the invariant.
* `TakenClustersAreFree` (`[](~touched => AllocatedIsFree)`): up to the same point the BUG at fatent.c:1005 is not
  reached; the run `fat_stale` shows that behind it, it is.
* `FilesStayInPlace` (`[]FilesGrowInPlace`; also `~GrowsClosed`, files are extended while they are open).
  `GrowsInPlace` adds to `FatIInv` that files and extents name each other (`Mutual`), and that the extent of
  a file starts behind its last cluster (`InPlace`), as long as no merge or open has parted the two. Merges in front of
  such an extent are the hard case: the cluster in front is the file's last one, in use, so no free extent ends there.

**KeysAndRendererProofs** on the renderer (any number of buffers and of calls of the player, and of delayed messages).
`DrainsAreKept` (`[]OnlyKnownStalls`): the flag of a stream tells whether a drain message of its present generation is under way,
and there is one at most (`OneDrain`); a queue that is not drained is paused, its sink is stopped or
offloaded, or it is in one of the known stalls (`Moving`). Two facts about the queue of messages are needed: what
opens the sink and what gives up offloading comes once, and no audio before it (`Opening`), and nothing follows the end of the audio stream
until its flush (`NothingAfterEnd`), because a drain stops at the end of a stream with whatever
is behind it. `BuffersAllComeBack` (`[]BuffersComeBack`): each buffer given is in one message, parked, in a queue, or
returned, once (`Counting`); queues and messages are in order (`Order`) but for what was sent a second time; a
flush that has been answered has returned all it found (`Parking`). Occurrences are cardinalities of sets of
indices, so lemmas on what a head, a tail and an append do to them need no induction.

**KeysAndRendererProofs** on thread-specific data (any number of threads, slots, reserved slots, rounds and creations). The
invariant says that a thread that may hold values is on the list (`Listed`), that a creator's child
is waiting and belongs to that creator alone (`Handshake`), that every value is of the present creation of a used key (`Areas`),
and that a round without a destructor call is still at its first key (`Rounds`).
`TypeCorrect`, `UnlockedReadIsSafe`, `NoInheritedValues`, `ExitCleansUp`, and the action property `DestructorsMatch`.

**Types.** `TypeOK` is proved for `NormalMutex`, `OwnedMutex`, `ThreadKeys` and `Logger`, `LogDevTypeOK` as part of `OpensAreSafe`;
elsewhere the invariants state what they need of the types.

### Only model-checked

* Every liveness property: fairness and `ENABLED` are beyond the prover.
* `MatchersAreRight`: `Acsm` has a recursive operator, and what it computes is a matter of induction over texts.
* `FatBlocks` for more than one volume, with use after free (`GoesOn`), and for files extended by path (`GrowsClosed`).
* `DeferralIsCounted`, `WaitersAreUnlocked`, `AllocatedIsFree` and `HookReturns` with foreign unlocks, which are false.

## Findings

* **A lost wakeup** (`pthread_mutex.cpp:703`, run `owned_lost_wakeup`). A `timedlock` that was woken by
  an unlock and then loses the cmpxchg for the free mutex looks at its deadline and returns ETIMEDOUT without leaving the
  word in state 2. The wakeup of that unlock is spent, the new owner's unlock finds state 1 and wakes
  nobody, and a third thread in `pthread_mutex_lock` sleeps for good. The comment at line 506 says
  that taking the mutex in state 2 "ensures all waiters will be unlocked".
* **A lock that is kept** (`mutexdebug.cpp:541`, run `tracker_foreign_unlock`). When `putone` finds that
  the record of a mutex names another thread it prints an error and returns without
  `pthread_mutex_unlock(&lock)`. Every later lock, unlock and dump of the process hangs in the tracker.
* **A disable too many** (`core.c:1881` of the regulators, run `regulator_deferral`).
  `regulator_disable_deferred` counts under the mutex and schedules the work outside it. A work already
  queued that runs in between does both disables; the one scheduled then finds the count 0 and meets
  `BUG_ON(!rdev->deferred_disables)`.
* **A cluster given out twice** (`fatent.c:142`, run `fat_stale`). `try_back_merge` clears
  `next_bf->inode` before it copies it to `current_bf->inode`. The file then points to an extent that counts
  as free: another file takes it, uses it up, and it is freed; the first file goes on taking clusters
  from the freed memory, and `fat_alloc_clusters` ends in `BUG()` ("wgz cluster %d is not free", 1005).

Seen while modelling, without a run of their own or a disagreement with anything the repository says:

* an owner of a recursive mutex can destroy it while it holds it, since destroy's trylock succeeds
  for it (`pthread_mutex.cpp:767`);
* a lapped reader is moved on by at least the length of the new entry from where it stands, which
  can be an entry more than needed (`logger.c:399`), so `AbstractLog` lets a lapped reader skip ahead;
* when 1024 threads are backtracing, the table takes no further thread and `is_backtracing` no
  longer protects it (`mutexdebug.cpp:714`): with fewer slots than threads `HookReturns` fails;
* after `uninit_mutex_debug` a hook that is under way blocks on a destroyed lock
  (`mutexdebug.cpp:848`); `mutex_test` avoids it with `sleep`;
* a log whose `misc_register` failed is freed while it is on `log_list` (`logger.c:806`); it is harmless
  because `logger_init` stops there, so the freed entry is the last one and every open stops before it;
* a deferred disable that fails has its supply disabled all the same (`regulator/core.c:1888`), which
  leaves a regulator on whose supply is off (`slipped`);
* `regulator_init_complete` takes regulators with a gpio to be on, and takes a shared gpio down for one
  that is off while another uses it (`regulator/core.c:1599`, `4442`; `astray`);
* a regulator that is on from boot does not hold its supply, which may be switched off under it;
* `_regulator_disable` of an always-on regulator leaves its last use in the count and reports success, and
  `regulator_disable` then disables the supply all the same (`regulator/core.c:1769`, `1826`): after an enable and its
  disable the regulator is on, has a count of 1, and its supply may be switched off under it. Of an always-on
  regulator's uses of its supply only those not yet disabled are kept (`HeldBy`);
* `while (rdev->open_count--)` of `regulator_force_disable` leaves the count at -1 (`regulator/core.c:1867`);
* a sealed line of printk may wait with nobody at the console: `console_cont_flush` leaves it to the
  records, and the holder may already have passed it;
* an exit of the camera test in the middle of its turns returns from `takePicture` before the release
  and opens the other camera, so the first is leaked (`cameratest.java:364`); `isPreview` is never set, so
  `stopPreview` is never called; a missed notify leaves the activity in `join` for good;
* `soinfo_unload` takes the children off the list before `remove_all_links` could untie them
  (`linker.cpp:1021`, `1751`), so a child that stays loaded keeps the freed library among its parents,
  one more with every such open and close, and `is_recursive` visits them;
* `soinfo_unload` frees the library whatever its reference count has become in the meantime, so a
  destructor that opens what is being unloaded gets a handle to nothing (`linker.cpp:1040`);
* the comparison added to `dl_iterate_phdr` takes the short way for every caller except
  `libunwind.so`, the one it names (`linker.cpp:406`);
* `NuPlayerRenderer.cpp`: parked video buffers are posted to the looper again behind what waits there, so they
  may be queued after later ones, after the end of the stream, or after a flush that should have returned
  them (627; `reposted`); a flush called while one is on its way is dropped (142);
* three ways leave audio in its queue without a drain until the next buffer or resume (`undrained`): `getPosition` fails
  (651, 382), the sink is started while it was stopped (356), offloading is given up (1249). The last also
  leaves `mDrainAudioQueuePending` as it is, so giving up offloading a second time, with a drain
  under way, would stop audio until a flush or a pause;
* when opening an offloaded sink fails, video that was parked stays parked until a flush (1530), and
  `mSyncQueues` is never set, so that the alignment of the first buffers is never done;
* a second `acsm_compile` of a context numbers its states from where the first stopped, in a table
  of the same size; `acsm_compile` ignores a failed `acsm_add_state` for inner states (`acsm.c:393`);
  an empty pattern has no string and `acsm_free` frees one (`acsm.c:282`, `256`);
* `start_root` is one tree for all volumes (`fatent.c:45`): with two volumes mounted a file is given a
  cluster that is free on the other one, and the same `BUG()` follows (`AllocatedIsFree` fails in 12 states
  with two volumes of five clusters);
* when every extent has an owner and the half of the longest is under `2 * count + 1` clusters, the allocation is
  refused and `free_clusters = 0` makes the volume full for everybody (`fatent.c:407`, 958): the second file
  of an empty volume of five clusters is refused with four of them free;
* a second open of a file that is being written takes its extent from it, with an error message, and
  leaves the name in the extent (`file.c:166`), without a lock;
* `last_merged` is never reset when its extent is freed, so the next free looks at freed memory
  (`fatent.c:242`);
* an inode object that is allocated again keeps its extent pointer, since `init_once` runs once per slab
  object (`inode.c:611`);
* a read error in `fat_alloc_clusters` after the manager gave up the clusters, and a kzalloc failure while they are
  freed, lose them to the tree until the next count (`fatent.c:972`, `270`);
* `fat_count_free_clusters` empties the tree before it locks, and a write in between declares the volume
  full, which the count then takes for valid (`fatent.c:1153`); with `usefree` the tree stays empty from the
  start (1157);
* with `-m` KMP goes on after a match behind a second `getline`, so the next line is not searched; and `line_pos` still
  is the start of the line that matched, so a match on the line after prints that one again and the
  search comes back to the same place, for ever (`kmp.cc:90`);
* KMP counts a newline that breaks off a partial match once more for every step back, and goes on after
  "Exiting" when the file cannot be opened (`kmp.cc:76`, `60`).

## What is left out

Of the logger `logger_exit`; of printk recursion and oops handling
(`zap_locks`), rate limits, registration of consoles, the console flush of `CPU_DEAD`, the nolock
variants of kmsg_dump, and what is printed of a record; of the regulators registration, exclusive
consumers, forced and bulk operations, current limits and operating modes, notifiers; of the linker
the reading of ELF files, symbols and relocation, the start of an executable and its preloads, and
the old soinfo format; of the FAT file system everything but its clusters, and the discard
option; of the Aho-Corasick matcher `acsm_free` and failed allocations.

Of the renderer: clocks and positions, dropping of late pictures, notices to the player other than
returned buffers, closing and tear-down of the sink and its timeout after a pause, `AudioSinkChanged`.

Of the others: pthread_mutex attributes, the shared bit, and unlocks of a normal mutex
by a thread that does not hold it (except in `MutexDebug`);
`modify_user_hw_breakpoint`, whose only caller is architecture code outside the repository, and
control words and exceptions of the debug registers; two threads on one breakpoint file; stacks and
TLS layout of new threads, and failures before clone; the `can_wakeup` flag, a second writer of
`wakeup_count` (kept apart by the autosleep lock where it is configured), and the steps of suspend
before its last check. The other components are in the table above.

## Plan

The order was: mutexes first, since everything else in user space rests on them, then the tracker
that is the repository's own code on top, then the kernel parts by how much their order of steps
matters, then the linker, the camera test, the matchers, the renderer and the FAT's clusters. Left:

1. `WakeupSource` with a second saver and with `can_wakeup`.
2. `WgzDump` (the log file helper, whose table has no lock), `MallocDispatch`, the stdio glue list.
3. Registration and unregistration of regulators against late gets; `logger_exit`.
4. An abstract log above `LogBuf` as there is one above `Logger`; `rw_task` of the memory inspector.
5. The start of an executable in `Linker`, with preloads and a main program that is never freed.
6. The tear-down of an offloaded sink in `Renderer`; the buffer positions of `AudioTrack`, the screen cast
   client.

Proofs: `ReservationsAreMutual` for two volumes; `FirstLineIsFound` of `Kmp`, which has no recursion; the
remaining type invariants.
