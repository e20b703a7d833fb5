# Verification of the Jotunheim kernel

TLA+ models of the Jotunheim kernel (`jotunheimkernel`) and of the part of its
UEFI loader (`jotunboot`) that decides what memory the kernel owns and in which
address space it starts. TLC checks
the models on small instances; TLAPS proves the central safety properties for
every value of the constants. Paths below are relative to `src/`, and file names
without a directory are in `jotunheimkernel/src/`.

## The system

| part | code | state | operations |
|---|---|---|---|
| scheduler | `sched/mod.rs` | `RQ`: table of tasks, current index, next id, need_resched | init, spawn, tick, exit_current, the reaper |
| closure queue | `sched/exec.rs` | `QUEUE` | submit, server_main |
| breakpoints | `debug/breakpoint.rs`, `debug/mod.rs`, `tables/isr/*.rs` | `BP_TABLE`, `REPLANT_AFTER_STEP`, `ACTIVE`, the patched text | insert, remove, the exception handlers, serve |
| gdb stub | `debug/rsp/*.rs` | packet buffers, `NO_ACK`, trap frame | recv_pkt_len, RspServer::run |
| frames | `mem/simple_alloc.rs`, `mem/reserved.rs`, `mem/mod.rs` | `FRAME_ALLOC`, `LOW32_ALLOC`, `USABLE`, `RESV` | allocate_frame, fallback_take_frame, is_reserved_* |
| hand-over | `jotunboot/src/main.rs`, `mem/reserved.rs`, `mem/mod.rs` | firmware map and its copy | allocate_pages, the copy, reserved::init, mem::init, seed_usable_from_mmap |
| mappings, heap | `mem/mod.rs` | page tables, `NEXT_VMAP`, `NEXT_MMIO_VA`, `mapped_end`, `HEAP_READY` | init_heap, alloc, dealloc, vmap_alloc_pages, map_mmio, map_identity_4k |
| address space | `jotunboot/src/main.rs` | the loader's page tables | build_pagetables_exec, the copy of the segments |
| processor start-up | `arch/x86_64/smp.rs`, `ap_trampoline.asm`, `tables/*.rs` | the ApBoot page, stacks, `TEMP_GDT` | boot_all_aps, the trampoline, ap_entry, ap_init |
| locks | all of the above | spin mutexes, the interrupt flag | every operation that locks |
| processors and APIC | `acpi/madt.rs`, `arch/x86_64/apic.rs` | ACPI tables, `MODE`, the local APICs | discover, early_init, paging, ap_init, lapic_id, INIT and start-up messages, the timer |
| traps | `asm/x86_64/isr_stubs.asm`, `kthread_trampoline.asm`, `tables/gdt.rs`, `tables/idt.rs` | interrupt stacks, trap frames | every stub, the handlers' returns, the first run of a thread |
| SIMD, I/O APIC, time stamp | `simd/*`, `ioapic.rs`, `tsc.rs` | processor and device registers | see "Not modelled" |

How they interact: the loader hands memory to the frame allocators, which serve
the mappings and the heap; the scheduler, the closure queue and start-up allocate
from the heap; the timer interrupt runs the scheduler; application processors ask
a thread of the boot processor for their tables through the closure queue; and the
exception handlers enter the debugger or end the current task.

What is hard about it: the timer interrupt between any two instructions; several
processors in the debugger and in start-up; spin locks taken with interrupts on by
one path and off by another; two lock orders; table indices that move when a
task is created; operations that fail half way when frames run out; a time-out in
start-up that is only logged; memory ownership that depends on the order of
the loader's last allocations; traps inside traps on a few shared stacks; and a
serial line to the debugger that loses bytes. `PROJECT.json` lists each hazard at its line.

## Modules

| module | models | kind |
|---|---|---|
| `Scheduler` | `sched/mod.rs` on the boot processor | component |
| `RoundRobin` | what the scheduler promises: one line of waiting tasks, served from its head | abstract specification |
| `Breakpoints` | breakpoints, debugger stops and session | component |
| `RspStub` | the packets of the gdb stub, the line and the debugger, over `Breakpoints` | composition |
| `FrameAlloc` | the frame allocators, from any disjoint pools | component |
| `LoaderPaging` | the loader's page tables as operators on address spaces | pure functions |
| `BootMemory` | the loader and the kernel's boot code, with `LoaderPaging`, then `FrameAlloc` | composition |
| `KernelMemory` | mappings and heap on top of `FrameAlloc` | composition |
| `Madt` | the walk from the RSDP to the processors of the MADT, as operators | pure functions |
| `Apic` | the mode of the local APICs and the accesses that depend on it | component |
| `SmpBoot` | processor start-up with `Madt`, `Apic`, the closure queue and its server | composition |
| `TrapEntry` | interrupt stacks, stubs, frames, switches, first run of a thread | component |
| `LockPrograms` | what each operation locks, masks, unmasks and releases, in order | pure functions |
| `KernelLocks` | threads of one processor that run these programs, the timer and exceptions | cross-cutting |
| `SmpLocks` | `SmpBoot` under the locks of `LockPrograms`: who waits for whom while the processors start | composition |
| `MinMax` | `Min` and `Max` of a set of numbers, in a module of their own because a proof carries every definition in scope with it | helpers |
| `SchedulerProofs`, `BreakpointsProofs`, `FrameAllocProofs`, `BootMemoryProofs`, `KernelMemoryProofs`, `SmpBootProofs`, `KernelLocksProofs`, `TrapEntryProofs` | theorems about the module they are named after | proofs |
| `MC*` | instances for TLC | model checking |

Operators whose names end in a suffix and whose comment starts with "Mutant" are
faulty variants of the operator that follows. They show that each property can
fail, and nothing else uses them.

### Scheduler

Every operation on the run queue is one critical section of `with_rq_locked`, with
interrupts off, hence one action. A trap frame, together with the SIMD area, is the
number of the context it resumes; `cpu` is the context the processor executes, so
"the right frame goes to the right task" is `ContextOwnership`. The reaper is
modelled as written: it removes the first entry that is not the expired task's.
That is harmless because `tick` makes a Dead task Ready when it switches away from it
(line 296), so the reaper never sees one expire; `LiveTasksStay` holds for that reason, and
its mutant, in which a Dead task stays Dead, breaks it. A thread
that has exited therefore stays in the rotation, halting for its quantum: the model
shows this and `ExitYields` states what is left of the promise. The idle task has
an ordinary quantum in the code, so the `u32::MAX` branch of `tick` is not taken.
Exceptions that end in `exit_current` run behind an interrupt gate and stop the
processor (`fault`); the liveness properties except that.

### Breakpoints

A processor executes a text of one-byte instructions with branches; INT3 is a byte.
Each critical section of `BP_TABLE` or of `ACTIVE` is an action, so several
processors interleave inside their handlers. The debugger may send any command in
any session. Two history variables, `ip` (where the program is) and `deferred`
(breakpoints a step put off), state what the code should preserve. `Transparent` says that
the debugger moves the program to another instruction in one case only: a step (which
may be one over a branch) or a fault ended one byte behind an armed breakpoint and was rewound,
the case that `breakpoint_rewind` shows. `BKPT`
(`debug/mod.rs` 21) is never set by any code, so the branches that
take it are left out.

### RspStub

The debugger, the line and the stub, on top of `Breakpoints`. Framing, checksum
and acknowledgements work on real bytes; a payload is cut to the bytes the stub
decides by and one digit for the argument. Towards the stub the line may drop a byte
or turn it into `#` or ^C, which merges or splits packets; towards the
debugger it may lose an acknowledgement or a packet. The debugger follows
one of several plans (which requests it sends), repeats a packet that is refused or
that it hears nothing of, up to three times, and only when nothing more can come.
`Agreement` compares what it was told with the stub's state. What the model shows
of the code besides the properties: a `G` with the registers that `g` has
just given writes `ss` into the flags (`TakenFrom`, from the two layouts); an `M` with a bad
digit is answered twice; a read near `rsp` of a page that is not mapped wedges the stub;
`NO_ACK` outlives the debugger that asked for it; and a breakpoint cleared while
the program stands on it comes back at the continue (`ghosts`). `vCont;c` and
`vCont;s` do what `c` and `s` do.

### TrapEntry

A register holds the name of the context whose value it is. The interrupt stack of
each vector is computed from the registrations as in `gdt.rs` and `idt.rs`: the index of a
vector is the number of vectors with a stack in front of it in the table, and this index, which
counts from 0, is put into a field that counts from 1. Entry and `iretq` are the
processor's: in 64-bit mode both move five words, which is why leaving through a frame
takes the stack pointer from the word behind the three that `WRITE_BACK_HW` stores. `Resumes`
says what interrupted code gets back, `SwitchKeeps` what a thread keeps through
switches (not its stack pointer: the words it would be popped from are on an interrupt stack
that the next interrupt overwrites), and `FramesApart` when a trap may overwrite a frame in use.
The first run of a thread does not find the layout its trampoline expects
(`trap_first_run`), so at this revision no thread reaches its entry. `Scheduler`,
`KernelLocks`, `KernelMemory` and the server of `SmpBoot` show what holds of the code once
frames are honoured.

### FrameAlloc and BootMemory

A pool is a range `[next, end)`; `given` is the sequence of frames handed out.
`FrameAlloc` starts from any pools that share no byte (`Seeded`); `BootMemory`
shows that the boot code establishes exactly that (`Handover`), which is what makes
the theorem about `FrameAlloc` apply to the kernel. The firmware may place each
allocation anywhere and may report neighbouring regions joined or apart. The
firmware is assumed not to place allocations in the first pages, on which `smp.rs`
relies as well. One page stands for the loader's allocations that
are alike. `LoaderPaging` gives the address space the loader builds: an address
space is a function from virtual to physical pages, and the page sizes of the direct
map remain only as the alignment that decides how far each reaches. `BootMemory` copies
the segments and builds the tables where the firmware's placement puts them, so
`ImageInPlace`, `IdentityReach` and `HhdmReach` are about the pages the kernel
really uses. The table of reserved ranges is smaller than the longest memory map, so
the image's range, which is asked for last, is dropped: `LoaderPagesKept` holds all the same.

### KernelMemory

A virtual page is a window and an index. The four levels of page tables are two.
An operation takes `PT_LOCK` and `FRAME_ALLOC` in the order of the code, and one
action maps one page or takes one frame, so that two threads interleave. A heap
block is a range of granules chosen by first fit, as the library does. A panic is
the state `ready = "panic"`. `init_heap` runs before anything else.

### Madt, Apic and SmpBoot

`Madt` follows the code from the RSDP through the XSDT, or the RSDT if that path fails, to
the entries of the MADT; tables have a signature, a checksum that is right or not, and
entries with their lengths. `AllFound` compares the result with what valid tables
describe. `Apic` has one `MODE` for all processors and the mode each local APIC is
really in; an access through the wrong one reaches nothing. The boot processor goes
through `native::init` as far as the APIC is concerned, `discover`, and the loop of
`boot_all_aps`. Assumed of the machine: no processor is listed twice (`MachineConstants`) and
the page of the APIC's registers is mapped. A stack for which there is no frame ends in the
panic of the code (`StackFails`).

Stacks are named by the processor they were made for, so that a processor on
another's stack is visible. `wait_ready` may give up at any time, which the history
variable `late` records, and a start-up message may come too early or find the
processor dead. The build may read the spun-on local once (`tables/mod.rs` 154), or let the
processor see it half written: it is written by another processor through its address, so the
outcome is a choice (`spin_for_ever`: the processor never goes on). After a time-out a late processor can take the next one's stack;
the properties about stacks and GDTs therefore hold until the first time-out.

### SmpLocks

`SmpBoot` has the steps of start-up and not the memory they need. `SmpLocks` puts in front of each step
what it locks: the stack of a processor (`vmap_alloc_pages`), the threads that the server spawns, the interrupt
stacks, GDT and TSS that the closure makes, the IDT that a processor makes itself, and the list of the MADT that is
dropped at the end. The thread of `boot_all_aps`, the server and the closures share the boot processor: a thread
outside a section without interrupts may be switched away with its locks, and nobody else runs while one is inside.
An application processor runs beside them. Locks that nobody asks for but under another of these, or that are held over nothing else
with interrupts enabled, are left out, as are exceptions (see `KernelLocks`) and the reaper, which finds no task expired and
so allocates nothing.

`AllUp` says that `boot_all_aps` ends and that every processor it has started comes up. The exception it names, `Jammed`, is
what the code allows and TLC reaches: `boot_all_aps` is switched away with `FRAME_ALLOC` locked, before it
takes `PT_LOCK`; then the server, or a closure, or a processor that makes its IDT, takes `PT_LOCK` for the heap and needs
`FRAME_ALLOC` with interrupts disabled, and on the boot processor the timer never comes back. The same happens
with the heap while the list is dropped. Nothing else can stop the start of processors that are in time.

### LockPrograms and KernelLocks

An operation is the sequence of its lock, unlock, mask and unmask steps, built by
nesting as in the code. One processor runs threads; the timer may switch wherever
interrupts are on. An exception may come at any instruction, also inside an operation and inside a
handler (`fault`): its handler prints and ends the thread, as #UD does in every build and #GP, #PF and #DF do in a release build,
and what the thread had locked stays locked. A thread that spins with interrupts off on a lock of its own or of a thread
switched away hangs the processor (`Hangs`). `NoSelfDeadlock` is therefore a statement about operations
(none asks for a lock it holds) and about handlers (they can find the console or the run queue held by their own thread,
and no other lock); `NotPreempted` and `HangOnlyOn` tell the two apart as well.

## Runs

| run | instance | shows |
|---|---|---|
| `scheduler` | 6 tasks, quantum 5 | `SchedInv` (inductive; `ContextOwnership`, `OnlyCurrentNotReady` and `QuantumLeft` are its first conjuncts), `LiveTasksStay`, `EveryTaskRuns`, `ExitYields`, refinement of the fair ring |
| `breakpoint_table` | 2 processors, 2 addresses, 2 slots, faults | `TextIntegrity`, `SingleSession`, `DisarmedIsOwned` |
| `debug_session` | 1 processor, 4 addresses with branches, a full table, a read-only byte, a branch to the byte behind a breakpoint, debug build; four plans, one fault of the line | `TextIntegrity`, `Transparent`, `NothingMisread`, `Agreement`, `GetsThrough`, `Invited` |
| `boot_memory` | 16 pages of RAM, large pages of 5 and 10 | `ImageInPlace`, `IdentityReach`, `HhdmReach`, `Handover`, `NoFrameTwice`, `NeverReserved`, `LoaderPagesKept`, `TrampolineKept` |
| `kernel_memory` | 2 threads, 9 frames, windows of 2 pages | `FramesAccounted`, `HeapBacked`, `PanicOnlyWhenDry`, `CycleNeedsVmap` |
| `smp_boot` | `SmpLocks`: up to 3 application processors, in time, late or dead, queue of 1; ACPI tables whole, damaged or missing; with and without x2APIC | `AllFound`, `ApicAgrees`, `OneByOneInTime`, `OwnStack`, `OwnGdt`, `NeverFull`, `AllUp` |
| `kernel_locks` | 3 threads, all 12 operations, exceptions | `NotPreempted`, `NoSelfDeadlock`, `HangOnlyOn` |
| `trap_entry` | 2 threads, all vectors, a trap inside a trap | `Resumes`, `SwitchKeeps`, `FramesApart` |

The type invariants of `Scheduler`, `Breakpoints`, `FrameAlloc`, `KernelMemory`, `SmpBoot` and
`KernelLocks`, and `NothingReturns` and
`TimerRuns`, are proved and not checked again by a run; so are the types of the variables of
`TrapEntry` (`Typed` in `TrapEntryProofs`). That of `RspStub` documents the state; it holds
on the instance of the run, whose configuration leaves it out in favour of the properties above.

Four runs end in a counterexample. Each checks what a comment of the code says:

| run | the comment | what the code does |
|---|---|---|
| `breakpoint_rewind` | `breakpoint.rs` 109: on #BP | any exception that stops behind a breakpoint is rewound |
| `breakpoint_replant` | `breakpoint.rs` 122: re-planted after the step | `REPLANT_AFTER_STEP` is never read |
| `boot_usable` | `mem/mod.rs` 415: only usable RAM | page tables and memory map are allocated after the copy of the map and look usable |
| `trap_first_run` | `kthread_trampoline.asm` 4-7: rsp points to arg and entry at the first run | the exit of the stub overwrites both and loads rsp from the word behind them |

Met on the way and not made into runs: after a time-out, which is only logged, two
processors can be in the trampoline at once, though `smp.rs` 43 says one by one
(`OneByOneInTime` holds until then); `serial.rs` 80 says that interrupts are
disabled while the console's lock is held, which they are not (`HangOnlyOn` names it
among the locks to hang on); the comment at `arch_x86_64.rs` 36 says that `write_g`
writes `G_HEX_LEN` digits, it writes fewer; the comment on `ready_flag` (`smp.rs` 33)
says that the trampoline sets it, `ap_entry` does; the comments on `TRAMP_PHYS`
(`smp.rs` 55-56) name 0x8000, which is also what `reserved.rs` 123 reserves, while
the value is 0x1000 (`TrampolineKept` shows that the page is safe all the same); and
`jotunboot/src/main.rs` 720 says that the identity map must include the stack, the image, the heap, the memory map and
the framebuffer, while what the firmware places at the kernel's own virtual addresses is left out of it
(`IdentityReach` excepts these addresses).

### Bounds, and why they are enough

- `MAX_TASKS` = 6 (the code has no limit): idle, reaper, the main thread and three
  that come and go, so a task is inserted before, at and behind the current
  one while others are dead. The proofs need no bound.
- Text of 2 or 4 bytes, 2 slots: two breakpoints side by side, which the rewind
  needs, a table that fills up, and a loop so that an address is hit again.
- `NPAGES` = 16, `LOW` = 3: room for every loader allocation to be next to, before
  or behind any other; reservations that end inside a page. `MAX_RESV` = 6 is
  exceeded by the longer maps; `MAX_USABLE` is not reached. 16 pages are one page of 1 GiB (10), one of 2 MiB (5) and a
  tail of one.
- `WINDOW` = 2 and 9 frames: each window crosses a table boundary (`FAN` = 2), the heap is
  grown past its window, and every operation meets the last frame.
- `QUEUE_CAPACITY` = 1 is the hardest case for `NeverFull`; three processors give
  a late one, its successor and one that is waiting.
- `MAX_FAULTS` = 1, `MAX_TRIES` = 3: one fault costs at most two attempts, so the third is
  the one that must get through. `MAX_LINE` = 6 and `MAX_LATE` = 1 let a new packet be sent behind
  a part of an old one and before a late answer is heard. `INBUF_LEN` = 5 holds every request and
  cuts off two that were merged.
- `MAX_DEPTH` = 2: a trap inside a trap, with any two vectors. Depth 3 has been run once
  as well (6.0 million states, no error) and is too long to repeat.
- Three threads: one hangs, one holds, one runs in between.

Deadlock is not checked: the program of a text may end, the frames run out, and
a kernel that hangs or panics stops. Where a stop matters it is an invariant or a
liveness property.

Symmetry is used in three runs of invariants only: two processors
(`breakpoint_table`) and the threads (`kernel_memory`, `kernel_locks`), which the
modules do not tell apart.

### Fairness

`Scheduler`: weak fairness of `tick` and of the boot steps. The local timer is
periodic (`apic.rs` 291-317) and interrupts stay on outside critical sections; there
is no fairness for thread bodies. `SmpLocks`: as long as some thread or processor can take a step, one of
them does (`WF_all(Progress)`). Every step brings the start nearer to its end, so that nothing is asked of the order in which
they run; a lock that is spun on, and a thread that cannot run because another has disabled interrupts, take no step. A start-up message
need not be taken, and `spin_for_ever` is not fair.

## Proofs

| theorem | module | for every |
|---|---|---|
| `SchedulerSafe`: `Spec => [](TypeOK /\ SchedInv)` | `SchedulerProofs` | quantum, number of tasks |
| `ContextsKept`, `LiveTasksKept`: `Spec => []ContextOwnership`, `Spec => LiveTasksStay` | `SchedulerProofs` | same |
| `SchedulerRefinesRing`: `Spec => ImplementsRing` | `SchedulerProofs` | same |
| `BreakpointsSafe`: type, `TextIntegrity`, `SingleSession`, `DisarmedIsOwned`; `SessionsExclude` and `DisarmedOwned` state the last two alone | `BreakpointsProofs` | set of processors, text, branches, table size |
| `FramesSafe`: type, `NoFrameTwice`, `NothingReturns`, `NeverReserved`; `FramesSpent` and `ReservedKept` state the last two alone | `FrameAllocProofs` | page size, disjoint pools, reservations |
| `AddressSpace`: what is behind each virtual page of the loader's page tables | `BootMemoryProofs` | page sizes, image, ends of the identity map and of the RAM |
| `PoolsHandedOverApart`, `LoaderPagesSafe`, `TrampolineSafe`, `IdentityMapReaches`, `DirectMapReaches`: `BootSpec => []` `Handover`, `LoaderPagesKept`, `TrampolineKept`, `IdentityReach`, `HhdmReach` | `BootMemoryProofs` | placement by the firmware, memory map, image, sizes of the RAM, the pages and the tables |
| `BootFramesSafe`: `BootSpec => [](NoFrameTwice /\ NeverReserved)` | `BootMemoryProofs` | same |
| `FramesHaveOnePlace`, `HeapIsBacked`, `PanicsOnlyDry`, `LockCycles`: `Spec => []` `FramesAccounted`, `HeapBacked`, `PanicOnlyWhenDry`, `CycleNeedsVmap` | `KernelMemoryProofs` | set of threads, windows, requests, growth, disjoint pools |
| `KernelFramesSafe`: `NoFrameTwice`, `NothingReturns`, `NeverReserved` under the kernel's use of the allocators | `KernelMemoryProofs` | same |
| `SmpSafe`: type, `ApicAgrees`, `TimerRuns`, `OneByOneInTime`, `OwnStack`, `OwnGdt`, `NeverFull`; `TrampolineShared`, `StacksApart`, `TablesOwned`, `SubmitNeverFails` state the last four alone | `SmpBootProofs` | set of processors, machines, queue capacity |
| `LocksOnlyDelay`: `LSpec => Spec`, the start under the locks (`SmpLocks`) implements the one without (`SmpBoot`); `SafeUnderLocks`: what `SmpSafe` says, of `LSpec` | `SmpBootProofs` | same |
| `HoldersNotPreempted`, `NoLockTakenTwice`, `HangsConfined`, `LocksTyped`: `Spec => []` `NotPreempted`, `NoSelfDeadlock`, `HangOnlyOn`, `LockTypeOK` | `KernelLocksProofs` | set of threads, set of operations |
| `ThreadsKeepRegisters`, `TrapFramesApart`: `Spec => []SwitchKeeps`, `Spec => []FramesApart`; `TrapsResume`: `Spec => Resumes` | `TrapEntryProofs` | set of threads, up to three traps inside each other |

Assumptions: the named `ASSUME`s of the modules, and for `FramesSafe` the initial predicate
`Seeded`. Most give sizes and ranges. Those that say more:

- `PoolsHandedOver` (`KernelMemory`): the pools share no byte. `PoolsHandedOverApart` proves this of the
  boot code.
- `BootConstants`: the pages of the trampoline are among the first pages, in which the firmware places
  nothing; a segment is no longer in the file than in memory, and one is not empty.
- `LinkerScript`: the image starts on a page. `DirectMapAbove`: the image, the first
  GiB, the framebuffer and the APIC pages are below the direct map, as the loader's constants make sure.
- `MachineConstants`: the ACPI tables list no processor twice.
- `NobodyIsNoThread`, `SmpConstants`, `LockConstants`, `TrapConstants`: names that stand for no thread or processor
  are not the name of one. `LockConstants` also says that the operations are those of the module,
  `TrapConstants` that at most three traps are inside each other.

TLC evaluates each of them on the instances above.

The arguments. `SchedInv` adds to its three conjuncts about contexts, states and
quanta that ids are handed out in order (a new task's id is fresh), that a Dead
task's context is halted, that idle and reaper never exit (so the reaper runs only when
no task is Dead and changes nothing), and that nothing was dispatched before
interrupts are on. Quanta are part of it because a Dead waiting task, or a quantum
of zero, would let the reaper remove something. The refinement maps the ring to the
table read cyclically from behind the current entry; the step
that needs work is `tick_switch`, where every waiting task is Ready and so the next
entry is the one picked. `BreakpointsProofs` strengthens
`TextIntegrity` by two facts about bytes that cannot be written (they hold the linker's
byte, and a breakpoint sits there only if that byte is INT3): without them a write that
does not take effect could leave an entry armed over a byte that is not INT3. The
table operations are proved to keep this (`TableInv`) one by one, and to disarm nothing
but the hit that is returned; the steps of the processors then carry the ownership of
disarmed breakpoints. `FramesSafe` is inductive with
`NothingReturns`: frames given and pools are pairwise apart, and `Spent` moves a pool
past the frame it returns.

`AddressSpace` has no states: it says of `build_pagetables_exec` that the kernel's window
goes to the image, the identity window around it to itself, the direct map to the RAM,
and that every other page is unmapped. It assumes that the kernel and the identity map end below the
direct map and that the identity map covers the first 2 MiB, as the loader's constants make sure. It is proved layer by layer: what each of the
four mapping passes does to one page, and that a later pass finds
the pages of an earlier one outside its range or keeps them.

The theorems about `BootSpec` rest on `BootIInv`: each allocation that the loader has made is one
run of pages, and the others own none (`OwnersInv`); the copy of the map lists runs of pages of RAM, none twice, and
what it calls usable was free when it was made (`MapInv`); and the table of reserved ranges and the pools are what the
kernel's steps so far make of that (`PoolsInv`). The loops over the memory map and over the table of reserved ranges, which
keep some of the elements, are `SelectSeq`s: `Rank` counts how many of the kept ones come before an index,
so that the result can be described without an induction. When the boot is over, the pools are pairwise apart and inside
what the loader left, which is `FrameIInv`, the invariant of `FrameAlloc`; from there on its lemmas apply.

The invariant of `KernelMemory` (`IInv`) has, beside types and `FrameIInv`, five parts. `JobShape` and `LockShape`: what an
operation has left to do lies in its window, and which locks it holds when. `Alone`: one thread at a time is in
the heap, and `init_heap` is by itself. `Fresh`: the pages an operation has yet to map are not mapped, no two
operations have the same ones, and nothing lies above the next address of a window; without it `map_to` could
meet a mapped page, and `PanicOnlyWhenDry` says that its unwrap never fails for that reason. `Backed`: how far the heap
is mapped while it is being mapped. `Accounted`: `FramesAccounted` pair by pair, with the frame that an
operation has taken and not yet placed. `CycleNeedsVmap` follows from `LockShape` and `Alone`.

`KernelLocksProofs` first says what an operation may do, without regard to other threads: `RQ`, `PT_LOCK` and the inner heap
lock are taken with interrupts disabled, `LOW32_ALLOC`, `QUEUE`, `TABLES` and `TEMP_SEL` with interrupts enabled, `USABLE`
only under `FRAME_ALLOC`, and no lock twice. `Runs(a, p, b)` says that the instructions `p` keep to
this and lead from stage `a` (the locks held and the depth of masking) to stage `b`. There is one lemma for each way
of putting operations together (`Held`, `without_interrupts`, one after the other) and one for each operation. The
invariant `LocksIInv` is then that what is left of every thread's operation runs from
where the thread is to a stage with no lock held, and that a thread that was switched away has interrupts enabled (`Working`);
or, once an exception has come, that its handler asks for nothing but the console and the run queue, for good (`InHandler`). It
quantifies over the stages along a program, which TLC cannot enumerate, so the run checks the three
properties and not the invariant.

`TrapIInv` says where the words of each trap inside another are and that no two share a place (`PlacesApart`),
that what a stub has saved is still there (`Kept`), that the registers the spurious stub does not save are intact
(`Unsaved`), and that the outermost context is the current thread while the others' saved registers are their own
(`Whose`). All but the types and `FramesApart` are claimed while the processor runs on
(`fate = "runs"`): once a fault has halted it or a trap has overwritten a frame in use, no step follows. TLC has
checked `TrapIInv` at depth 2 and 3 as well.

`SmpSafe` needs an inductive invariant in four parts beside the types. `ModeInv`: what
`MODE` is in each phase of the boot processor, and that every APIC set up is
in the machine's mode, so that a processor storing `MODE` again stores what was
there. `TurnInv`: no processor runs before its turn, the ApBoot page names the
stack of the current iteration, and a processor that runs has one. `QueueInv`: a closure in the queue, in the server's hand or in a thread belongs to the
holder of `TEMP_GDT`, which spins, and there is only one. It gives `NeverFull` for every capacity, and it holds
whether or not anybody was late. `InTime`, until
somebody is late: whoever is between INIT and `ready_flag` is the processor of this iteration, with the flag
clear and the address of ApBoot on top of its own stack, and the GDT on each stack is its processor's. The
rest follows from these.

Every step of a proof is given up to 60 seconds of solver time (`SMTT(60)`, `ZenonT(60)`); on an
idle machine most modules take up to two minutes and the two about memory ten to fifteen.

Only model-checked: liveness (`EveryTaskRuns`, `ExitYields`, `AllUp` and the
fair half of the refinement), since the prover does not handle fairness and ENABLED;
what needs induction over data (`AllFound`, about a walk over tables, and `ImageInPlace`, about the
copy of the segments one after the other); `Transparent`; and the properties of `RspStub` (`NothingMisread`, `Agreement`,
`GetsThrough`, `Invited`): an inductive invariant for them has to describe every piece of a packet that a faulty line
can leave on its way in either direction, together with what each end knows.

## Not modelled

- SIMD: probing of features and control registers have no state of their own. Saving and restoring go
  through `SimdArea::as_mut_ptr`, which takes the area by value and returns the address of a copy that is gone
  (`sched_simd.rs` 15); what a build does with it is not determined by the code.
- The gdb stub's stateless queries (`H`, `q...`), the digits of addresses and data, `OUTBUF` and the
  lengths of memory requests; a fault inside `insert` (`breakpoint.rs` 58).
- `set_svr` and `ipi_fixed`, which nothing calls; the waits for delivery of an IPI; the masking of
  the I/O APIC; the I/O APICs and overrides that the MADT lists, which nothing uses.
- A processor that the MADT lists twice: the second INIT would reset it while it runs, and its state in
  the model with it.
- The byte copy of a closure into its slot of the queue.
- UART and time-stamp registers, formatting, the ELF library, reading the kernel file: device
  and firmware I/O without state of interest.
- Flags of mappings, TLB flushes, whether the processor has pages of 1 GiB (the loader does not ask).
- An application processor after `tables::ap_init`: it halts with interrupts off.
- Selectors and the encoding of descriptors; `ss` in a trap frame.
