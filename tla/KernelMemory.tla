----------------------------- MODULE KernelMemory -----------------------------
(***************************************************************************)
(* The mappings the kernel makes at run time (mem/mod.rs): the heap window *)
(* that init_heap maps before anything runs and that alloc grows, the      *)
(* VMAP window of the processor stacks, the MMIO window and the identity   *)
(* pages of the trampoline.  Each operation maps its pages one by one and  *)
(* takes every frame, for the page and for the page tables that are        *)
(* missing above it, from FrameAlloc under the FRAME_ALLOC lock; the page  *)
(* tables are written under PT_LOCK, which most operations take first and  *)
(* vmap_alloc_pages takes second, page by page.                            *)
(*                                                                         *)
(* A virtual page is <<window, index>>.  The four levels of page tables    *)
(* are two here: one table per window and one per FAN pages.  Heap         *)
(* addresses count granules of the linked-list allocator.                  *)
(***************************************************************************)
EXTENDS FrameAlloc, FiniteSets

CONSTANTS
  Thread,         \* the threads that map memory
  KHEAP_PAGES,    \* KHEAP_SIZE in pages
  GROW,           \* pages a failed allocation adds (1 MiB)
  VMAP_PAGES,     \* sizes asked of vmap_alloc_pages
  MMIO_PAGES,     \* sizes asked of map_mmio
  IDENT,          \* pages asked of map_identity_4k
  BOOT_IDENT,     \* identity pages the loader mapped
  Sizes,          \* sizes of heap blocks, in granules
  FAN,            \* pages per lowest table
  WINDOW,         \* bound: no window is used past this page
  Pools0          \* the pools and reservations that BootMemory leaves

ASSUME MemoryConstants ==
  /\ WINDOW \in Nat /\ KHEAP_PAGES \in 1 .. WINDOW /\ GROW \in Nat \ {0} /\ FAN \in Nat \ {0}
  /\ VMAP_PAGES \subseteq Nat /\ MMIO_PAGES \subseteq Nat /\ Sizes \subseteq Nat \ {0}
  /\ IDENT \subseteq 0 .. WINDOW /\ BOOT_IDENT \subseteq 0 .. WINDOW
  /\ Pools0.frame \in Pools /\ Pools0.low32 \in Pools
  /\ Pools0.usable \in Seq(Pools) /\ Pools0.resv \in Seq(Resv)

\* What BootMemory's Handover shows: the pools share no byte.
ASSUME PoolsHandedOver ==
  /\ Apart(Pools0.frame, Pools0.low32)
  /\ \A i \in DOMAIN Pools0.usable :
       /\ Apart(Pools0.usable[i], Pools0.frame) /\ Apart(Pools0.usable[i], Pools0.low32)
       /\ \A j \in DOMAIN Pools0.usable : i # j => Apart(Pools0.usable[i], Pools0.usable[j])

VARIABLES
  pt,                        \* the frame of each mapped page, or None
  tables,                    \* the frame of each page table, or None
  NEXT_VMAP, NEXT_MMIO_VA,   \* as page indices of their windows
  mapped_end,                \* of PagingHeap, as a page index
  blocks,                    \* heap blocks in use, [start, end)
  low32,                     \* pages of alloc_one_phys_page_hhdm in use
  job,                       \* what each thread is doing
  pt_lock, fa_lock,          \* holders of PT_LOCK and of FRAME_ALLOC, or Nobody
  ready                      \* HEAP_READY, or "panic"

next  == <<NEXT_VMAP, NEXT_MMIO_VA, mapped_end>>
locks == <<pt_lock, fa_lock>>
vars  == <<pt, tables, next, blocks, low32, job, locks, ready, fvars>>

Window == {"kheap", "vmap", "mmio", "ident"}
VPage  == Window \X (0 .. WINDOW)
Table  == Window \X ({-1} \cup 0 .. WINDOW)
Nobody == "nobody"

ASSUME NobodyIsNoThread == Nobody \notin Thread

Device == -2          \* a frame of a device, or of the loader's identity map
NoBlock == [start |-> 0, end |-> 0]

\* A job that maps n pages of a window from page at.
Pages(op, win, at, n) ==
  [op |-> op, win |-> win, at |-> at, end |-> at + n, frame |-> None, size |-> 0, old |-> NoBlock]
Idle == Pages("idle", "kheap", 0, 0)

\* The tables above a page, top first.
Chain(v)   == << <<v[1], -1>>, <<v[1], v[2] \div FAN>> >>
Missing(v) == {k \in 1 .. 2 : tables[Chain(v)[k]] = None}

\* The boot processor is in init_heap.
Init ==
  /\ FRAME_ALLOC = Pools0.frame /\ LOW32_ALLOC = Pools0.low32
  /\ USABLE = Pools0.usable /\ RESV = Pools0.resv /\ given = << >>
  /\ pt = [v \in VPage |-> IF v[1] = "ident" /\ v[2] \in BOOT_IDENT THEN Device ELSE None]
  /\ tables = [x \in Table |-> IF x[1] = "ident" THEN Device ELSE None]
  /\ NEXT_VMAP = 0 /\ NEXT_MMIO_VA = 0 /\ mapped_end = 0 /\ blocks = {} /\ low32 = {}
  /\ fa_lock \in Thread /\ pt_lock = Nobody
  /\ job = [u \in Thread |-> IF u = fa_lock
                             THEN Pages("init_heap", "kheap", 0, KHEAP_PAGES) ELSE Idle]
  /\ ready = "no"

-----------------------------------------------------------------------------
(* Starting an operation *)

Begins(t, j) == job[t] = Idle /\ ready = "yes" /\ job' = [job EXCEPT ![t] = j]

\* Mutant: the window is advanced by one page too few.
vmap_alloc_pages_short(t, n) ==
  /\ NEXT_VMAP + n <= WINDOW + 1
  /\ Begins(t, Pages("vmap", "vmap", NEXT_VMAP, n))
  /\ NEXT_VMAP' = NEXT_VMAP + n - 1
  /\ UNCHANGED <<pt, tables, NEXT_MMIO_VA, mapped_end, blocks, low32, locks, ready, fvars>>

\* The addresses are taken before any lock.
vmap_alloc_pages(t, n) ==
  /\ NEXT_VMAP + n <= WINDOW + 1
  /\ Begins(t, Pages("vmap", "vmap", NEXT_VMAP, n))
  /\ NEXT_VMAP' = NEXT_VMAP + n
  /\ UNCHANGED <<pt, tables, NEXT_MMIO_VA, mapped_end, blocks, low32, locks, ready, fvars>>

\* The addresses are taken under PT_LOCK.
map_mmio(t, n) ==
  /\ NEXT_MMIO_VA + n <= WINDOW + 1 /\ pt_lock = Nobody
  /\ Begins(t, Pages("mmio", "mmio", NEXT_MMIO_VA, n))
  /\ NEXT_MMIO_VA' = NEXT_MMIO_VA + n
  /\ pt_lock' = t
  /\ UNCHANGED <<pt, tables, NEXT_VMAP, mapped_end, blocks, low32, fa_lock, ready, fvars>>

map_identity_4k(t, i) ==
  /\ pt_lock = Nobody
  /\ Begins(t, Pages("ident", "ident", i, 1))
  /\ pt_lock' = t
  /\ UNCHANGED <<pt, tables, next, blocks, low32, fa_lock, ready, fvars>>

\* The allocator's choice: the lowest hole of the size.
Holes(size) ==
  {a \in 0 .. (KHEAP_PAGES * PAGE - size) :
     \A b \in blocks : a + size <= b.start \/ b.end <= a}
Block(a, size) == [start |-> a, end |-> a + size]

\* The pages of [a, b), as ensure_mapped_span rounds them.
ensure_mapped_span(op, a, b, size, old) ==
  [op |-> op, win |-> "kheap", at |-> align_down(a) \div PAGE, end |-> align_up(b) \div PAGE,
   frame |-> None, size |-> size, old |-> old]

\* The lock of MutexHeap is held to the end of an operation on the heap.
HeapFree == \A u \in Thread : job[u].op \notin {"fit", "grow"}

\* alloc (and realloc, which frees the old block once it has the new one): the
\* block and the mapping of its span; or else the heap is grown from mapped_end
\* and the search repeated.
alloc(t, size, old) ==
  /\ HeapFree
  /\ IF Holes(size) # {}
     THEN LET a == Min(Holes(size)) IN
          /\ Begins(t, ensure_mapped_span("fit", a, a + size, size, old))
          /\ blocks' = blocks \cup {Block(a, size)}
     ELSE /\ mapped_end + GROW <= WINDOW + 1
          /\ Begins(t, ensure_mapped_span("grow", mapped_end * PAGE, (mapped_end + GROW) * PAGE, size, old))
          /\ UNCHANGED blocks
  /\ UNCHANGED <<pt, tables, next, low32, locks, ready, fvars>>

dealloc(t, b) ==
  /\ HeapFree /\ job[t] = Idle /\ ready = "yes"
  /\ blocks' = blocks \ {b}
  /\ UNCHANGED <<pt, tables, next, low32, job, locks, ready, fvars>>

alloc_one_phys_page_hhdm(t) ==
  LET f == allocate_frame(LOW32_ALLOC) IN
  /\ job[t] = Idle /\ ready = "yes"
  /\ TakeLow32
  /\ IF f = None THEN ready' = "panic" /\ UNCHANGED low32
     ELSE low32' = low32 \cup {f} /\ UNCHANGED ready
  /\ UNCHANGED <<pt, tables, next, blocks, job, locks>>

-----------------------------------------------------------------------------
(* Mapping the pages of an operation *)

Here(t)    == <<job[t].win, job[t].at>>
Working(t) == ready # "panic" /\ fa_lock = t /\ job[t].at < job[t].end
Step(t)    == [job[t] EXCEPT !.at = @ + 1, !.frame = None]
Panic      == ready' = "panic"

OwnFrame(t) == job[t].op \in {"init_heap", "vmap", "fit", "grow"}
PerPage(t)  == job[t].op \in {"init_heap", "vmap"}     \* PT_LOCK for each page, in map_4k
Framed(t)   == OwnFrame(t) => job[t].frame # None

\* ensure_mapped_span and map_4k wait for PT_LOCK.
pt_locked(t) ==
  /\ ready # "panic" /\ pt_lock = Nobody
  /\ job[t].op \in {"fit", "grow"} \/ (Working(t) /\ PerPage(t) /\ Framed(t))
  /\ pt_lock' = t
  /\ UNCHANGED <<pt, tables, next, blocks, low32, job, fa_lock, ready, fvars>>

\* Mutant: FRAME_ALLOC is taken before PT_LOCK.
TinyAllocGuard_first(t) ==
  /\ ready = "yes" /\ job[t] # Idle /\ fa_lock = Nobody
  /\ fa_lock' = t
  /\ UNCHANGED <<pt, tables, next, blocks, low32, job, pt_lock, ready, fvars>>

TinyAllocGuard(t) ==
  /\ ready = "yes" /\ job[t] # Idle /\ fa_lock = Nobody
  /\ PerPage(t) \/ pt_lock = t
  /\ fa_lock' = t
  /\ UNCHANGED <<pt, tables, next, blocks, low32, job, pt_lock, ready, fvars>>

\* ensure_mapped_span: a page that translates is left alone.
SkipMapped(t) ==
  /\ Working(t) /\ job[t].op \in {"fit", "grow"} /\ job[t].frame = None /\ pt[Here(t)] # None
  /\ job' = [job EXCEPT ![t] = Step(t)]
  /\ UNCHANGED <<pt, tables, next, blocks, low32, locks, ready, fvars>>

\* Mutant: the page is not translated first.
Needs_always(t) == OwnFrame(t) /\ job[t].frame = None

\* The page needs a frame of its own.
Needs(t) ==
  /\ OwnFrame(t) /\ job[t].frame = None
  /\ job[t].op \in {"fit", "grow"} => pt[Here(t)] = None

\* Without a frame for it vmap_alloc_pages returns None; the others panic.
TakeDataFrame(t) ==
  /\ Working(t) /\ Needs(t)
  /\ TakeFrame
  /\ IF NextFrame # None
     THEN job' = [job EXCEPT ![t].frame = NextFrame] /\ UNCHANGED <<fa_lock, ready>>
     ELSE IF job[t].op = "vmap"
     THEN job' = [job EXCEPT ![t] = Idle] /\ fa_lock' = Nobody /\ UNCHANGED ready
     ELSE Panic /\ UNCHANGED <<job, fa_lock>>
  /\ UNCHANGED <<pt, tables, next, blocks, low32, pt_lock>>

\* map_to: a frame for the topmost table that is missing.
TakeTableFrame(t) ==
  /\ Working(t) /\ pt_lock = t /\ Framed(t) /\ Missing(Here(t)) # {}
  /\ TakeFrame
  /\ IF NextFrame # None
     THEN /\ tables' = [tables EXCEPT ![Chain(Here(t))[Min(Missing(Here(t)))]] = NextFrame]
          /\ UNCHANGED ready
     ELSE Panic /\ UNCHANGED tables
  /\ UNCHANGED <<pt, next, blocks, low32, job, locks>>

\* map_to: the entry.  PageAlreadyMapped is accepted by map_identity_4k and by
\* ensure_mapped_span, and is a panic for the others.
map_to(t) ==
  /\ Working(t) /\ pt_lock = t /\ Framed(t) /\ Missing(Here(t)) = {}
  /\ IF pt[Here(t)] = None
     THEN /\ pt' = [pt EXCEPT ![Here(t)] = IF OwnFrame(t) THEN job[t].frame ELSE Device]
          /\ job' = [job EXCEPT ![t] = Step(t)]
          /\ UNCHANGED ready
     ELSE IF job[t].op \in {"ident", "fit", "grow"}
     THEN job' = [job EXCEPT ![t] = Step(t)] /\ UNCHANGED <<pt, ready>>
     ELSE Panic /\ UNCHANGED <<pt, job>>
  /\ pt_lock' = IF PerPage(t) THEN Nobody ELSE pt_lock
  /\ UNCHANGED <<tables, next, blocks, low32, fa_lock, fvars>>

\* Mutant: the end moves with every allocation.
Grown_always(t) == mapped_end + GROW

Grown(t) == IF job[t].op = "grow" THEN mapped_end + GROW ELSE mapped_end

\* The end of the operation; alloc looks for its block again after growing, and
\* returns null if there is none.
Finish(t) ==
  /\ ready # "panic" /\ fa_lock = t /\ job[t] # Idle /\ job[t].at >= job[t].end
  /\ fa_lock' = Nobody
  /\ pt_lock' = IF pt_lock = t THEN Nobody ELSE pt_lock
  /\ ready' = "yes"
  /\ mapped_end' = Grown(t)
  /\ IF job[t].op = "grow" /\ Holes(job[t].size) # {}
     THEN LET a == Min(Holes(job[t].size)) IN
          /\ blocks' = blocks \cup {Block(a, job[t].size)}
          /\ job' = [job EXCEPT ![t] =
                       ensure_mapped_span("fit", a, a + job[t].size, job[t].size, job[t].old)]
     ELSE /\ blocks' = IF job[t].op = "fit" THEN blocks \ {job[t].old} ELSE blocks
          /\ job' = [job EXCEPT ![t] = Idle]
  /\ UNCHANGED <<pt, tables, NEXT_VMAP, NEXT_MMIO_VA, low32, fvars>>

Next ==
  \E t \in Thread :
    \/ \E n \in VMAP_PAGES : vmap_alloc_pages(t, n)
    \/ \E n \in MMIO_PAGES : map_mmio(t, n)
    \/ \E i \in IDENT : map_identity_4k(t, i)
    \/ \E s \in Sizes, old \in blocks \cup {NoBlock} : alloc(t, s, old)
    \/ \E b \in blocks : dealloc(t, b)
    \/ alloc_one_phys_page_hhdm(t)
    \/ pt_locked(t) \/ TinyAllocGuard(t) \/ SkipMapped(t) \/ TakeDataFrame(t)
    \/ TakeTableFrame(t) \/ map_to(t) \/ Finish(t)

Spec == Init /\ [][Next]_vars

-----------------------------------------------------------------------------
(* Properties *)

Places ==
  {<<"page", v>> : v \in {x \in VPage : pt[x] >= 0}}
    \cup {<<"table", x>> : x \in {y \in Table : tables[y] >= 0}}
    \cup {<<"pending", t>> : t \in {u \in Thread : job[u].frame >= 0}}
    \cup {<<"low32", f>> : f \in low32}

FrameAt(p) == CASE p[1] = "page" -> pt[p[2]] [] p[1] = "table" -> tables[p[2]]
                [] p[1] = "pending" -> job[p[2]].frame [] p[1] = "low32" -> p[2]

\* Every variable has its type.
MemTypeOK ==
  /\ pt \in [VPage -> -2 .. TOP] /\ tables \in [Table -> -2 .. TOP]
  /\ {NEXT_VMAP, NEXT_MMIO_VA, mapped_end} \subseteq 0 .. WINDOW + 1
  /\ pt_lock \in Thread \cup {Nobody} /\ fa_lock \in Thread \cup {Nobody}
  /\ ready \in {"no", "yes", "panic"} /\ low32 \subseteq 0 .. TOP
  /\ \A b \in blocks : 0 <= b.start /\ b.start < b.end /\ b.end <= KHEAP_PAGES * PAGE

\* Every frame ever handed out is in exactly one place: behind one virtual page,
\* or a page table, or on its way to a page, or a low page.  So no two windows
\* share memory, no table is mapped as data, and no operation loses a frame, the
\* ones that fail half way included.
FramesAccounted ==
  /\ \A p, q \in Places : FrameAt(p) = FrameAt(q) => p = q
  /\ {FrameAt(p) : p \in Places} = {given[i] : i \in DOMAIN given}

\* Once HEAP_READY is set the whole window of the heap is mapped, holes included
\* (the free list lives in them), and so is [KHEAP_START .. mapped_end), as the
\* comment on PagingHeap::mapped_end says, even when it has grown past the window.
HeapBacked ==
  ready = "yes" => \A i \in 0 .. WINDOW :
    i < KHEAP_PAGES \/ i < mapped_end => pt[<<"kheap", i>>] # None

\* The unwraps of map_to never see PageAlreadyMapped: the kernel panics here only
\* when the frames are used up.
PanicOnlyWhenDry ==
  ready = "panic" => NextFrame = None \/ allocate_frame(LOW32_ALLOC) = None

WaitsPt(t) == pt_lock # t /\ (job[t].op \in {"fit", "grow"}
                              \/ (fa_lock = t /\ PerPage(t) /\ job[t].frame # None))
WaitsFa(t) == fa_lock # t /\ job[t] # Idle /\ (PerPage(t) \/ pt_lock = t)

\* PT_LOCK and FRAME_ALLOC are taken in both orders, so two threads can each hold
\* one and wait for the other.  Whenever they do, one of them is inside
\* vmap_alloc_pages: every other pair of operations gets through.
CycleNeedsVmap ==
  \A t, u \in Thread :
    fa_lock = t /\ WaitsPt(t) /\ pt_lock = u /\ WaitsFa(u) => job[t].op = "vmap"
=============================================================================
