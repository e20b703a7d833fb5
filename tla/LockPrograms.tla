---------------------------- MODULE LockPrograms ----------------------------
(***************************************************************************)
(* What the operations of the kernel lock.  An operation is the sequence   *)
(* of the locks it takes and releases and of the without_interrupts        *)
(* sections it enters and leaves.  Where the code does the same several    *)
(* times in a row, as for the pages of a stack, once stands for all.       *)
(***************************************************************************)
EXTENDS Sequences

Lock == {"RQ", "HEAP", "LLHEAP", "PT_LOCK", "FRAME_ALLOC", "LOW32_ALLOC", "USABLE", "RESV",
         "QUEUE", "TABLES", "TEMP_SEL", "COM1"}

Cli     == << <<"cli", "IF">> >>
Sti     == << <<"sti", "IF">> >>

Held(l, body) == << <<"lock", l>> >> \o body \o << <<"unlock", l>> >>

without_interrupts(body) == Cli \o body \o Sti

\* Mutants: the lock is taken before interrupts are disabled, or without
\* disabling them.
pt_locked_late(body) == Held("PT_LOCK", without_interrupts(body))
with_rq_locked_open(body) == Held("RQ", body)

pt_locked(body)      == without_interrupts(Held("PT_LOCK", body))
with_rq_locked(body) == without_interrupts(Held("RQ", body))

\* TinyBump, or else the usable ranges; both look at the reservations.
allocate_frame == Held("RESV", << >>) \o Held("USABLE", Held("RESV", << >>))

ensure_mapped_span == pt_locked(Held("FRAME_ALLOC", allocate_frame))

\* MutexHeap over PagingHeap; when the heap is full, its next pages are mapped with
\* the inner lock released, and the allocation is tried again.
alloc   == Held("HEAP", without_interrupts(Held("LLHEAP", ensure_mapped_span)))
alloc_full ==
  Held("HEAP", without_interrupts(Held("LLHEAP", << >>) \o ensure_mapped_span
                                    \o Held("LLHEAP", ensure_mapped_span)))
dealloc == Held("HEAP", without_interrupts(Held("LLHEAP", << >>)))

vmap_alloc_pages == Held("FRAME_ALLOC", allocate_frame \o pt_locked(allocate_frame))
map_identity_4k  == pt_locked(Held("FRAME_ALLOC", allocate_frame))
alloc_one_phys_page_hhdm == Held("LOW32_ALLOC", Held("RESV", << >>))

\* com1_ready, then write_str.
kprint == Held("COM1", << >>) \o Held("COM1", << >>)

\* Mutant: the task is numbered under a second lock of the run queue.
spawn_twice == alloc \o Held("TEMP_SEL", << >>) \o with_rq_locked(with_rq_locked(<< >>) \o alloc)

\* The stack and the task; kernel_cs; the insertion, which may grow the vector.
spawn        == alloc \o Held("TEMP_SEL", << >>) \o with_rq_locked(alloc)
exit_current == with_rq_locked(<< >>)
reap         == with_rq_locked(alloc \o dealloc)
server_main  == Held("QUEUE", spawn)

\* The tables are made when they are not there, and then gone through.
access_mut(body) == Held("TABLES", << >>) \o Held("TABLES", body)

\* The closure that tables::ap_init submits: the interrupt stacks of a processor,
\* then its GDT and its TSS.
registrate == kprint \o access_mut(alloc)
generate   == alloc \o access_mut(<< >>) \o alloc

\* The processor's own IDT.
idt_ap_init == alloc \o access_mut(<< >>)

\* The handler of #UD, and of #GP, #PF and #DF in a release build, which prints and
\* ends the thread.
handler == kprint \o exit_current
=============================================================================
