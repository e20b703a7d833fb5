----------------------------- MODULE BootMemory -----------------------------
(***************************************************************************)
(* How the kernel's frame allocators come to own their memory: the loader  *)
(* (jotunboot/src/main.rs) allocates pages from the firmware, copies the   *)
(* firmware's memory map, builds the page tables and hands over; the       *)
(* kernel (reserved::init, mem::init, seed_usable_from_mmap) derives its   *)
(* pools and its table of reserved ranges from what it was handed.  From   *)
(* then on FrameAlloc runs.                                                *)
(*                                                                         *)
(* The firmware may place an allocation on any free pages at or above LOW  *)
(* (the loader relies on it not to use the first pages, which smp.rs       *)
(* overwrites).  stack stands for every page the loader allocates before   *)
(* it copies the map and leaves to the kernel: its stack and BootInfo.     *)
(***************************************************************************)
EXTENDS FrameAlloc, LoaderPaging, FiniteSets

CONSTANTS
  NPAGES,          \* pages of RAM; page k is at address k * PAGE
  LOW,             \* pages below this are not used for allocations
  Firmware,        \* pages the firmware keeps
  AP_PAGES,        \* pages smp.rs uses for the trampoline and its stack
  TRAMP_PAGE,      \* the page reserved.rs takes for the trampoline (0x8000)
  HEAP_PAGES,      \* EARLY_HEAP_PAGES
  HEAP_GUARD,      \* bytes reserved behind the early heap (0x10_0000)
  Segments,        \* the PT_LOADs of the kernel: address, sizes, alignment in bytes
  K_SIZE,          \* bytes from __kernel_start to __kernel_end
  FB_LEN,          \* bytes of the framebuffer, 0 for none
  MAX_RESV, MAX_USABLE

ASSUME BootConstants ==
  /\ NPAGES \in Nat /\ TOP = NPAGES * PAGE /\ LOW \in 1 .. NPAGES
  /\ Firmware \subseteq 0 .. (NPAGES - 1) /\ AP_PAGES \subseteq 1 .. (LOW - 1)
  /\ TRAMP_PAGE \in 0 .. (LOW - 1)
  /\ Segments \in Seq([v : Nat, fsz : Nat, msz : Nat, align : Nat])
  /\ \A k \in DOMAIN Segments : Segments[k].fsz <= Segments[k].msz
  /\ \E k \in DOMAIN Segments : Segments[k].msz # 0
  /\ K_SIZE \in Nat /\ HHDM_BASE + NPAGES = VTOP /\ FB_LEN \in Nat /\ HEAP_GUARD \in Nat
  /\ HEAP_PAGES \in Nat \ {0} /\ MAX_RESV \in Nat /\ MAX_USABLE \in Nat

VARIABLES
  phase,        \* the next thing the boot does
  owner,        \* whose each page is, now
  map           \* boot.memory_map, the copy of the firmware's map

bvars == <<phase, owner, map, fvars>>

Page == 0 .. (NPAGES - 1)

\* The k-th number of a set, and the elements of a sequence that a loop keeps,
\* in order: those at the indices I.
Nth(S, k)  == CHOOSE p \in S : Cardinality({q \in S : q < p}) = k - 1
Kept(s, I) == [k \in 1 .. Cardinality(I) |-> s[Nth(I, k)]]

\* The layout of the image, in bytes; the linker script begins it on a page.
Loaded    == {k \in DOMAIN Segments : Segments[k].msz # 0}
min_vaddr == Min({Segments[k].v : k \in Loaded})
max_vaddr == Max({align_up(Segments[k].v + Segments[k].msz) : k \in Loaded})
max_align == Max({Max({Segments[k].align, PAGE}) : k \in Loaded})

ASSUME LinkerScript == min_vaddr % PAGE = 0

K_VIRT  == min_vaddr \div PAGE
K_PAGES == (max_vaddr - min_vaddr) \div PAGE

\* The loader's allocations and its copy of the map, in order (main.rs 587-752).
Steps == <<"image", "low32", "stack", "heap", "snapshot", "memmap", "tables",
           "reserved", "pools", "usable", "run">>
Size(what) == CASE what = "heap"  -> HEAP_PAGES
                [] what = "image" -> K_PAGES + (align_up(max_align) \div PAGE) + 1
                [] OTHER -> 1
After(s) == Steps[CHOOSE k \in 2 .. Len(Steps) : Steps[k - 1] = s]

BootInit ==
  /\ phase = "image" /\ map = << >>
  /\ owner = [p \in Page |-> IF p \in Firmware THEN "firmware" ELSE "free"]
  /\ FRAME_ALLOC = [next |-> 0, end |-> 0] /\ LOW32_ALLOC = FRAME_ALLOC
  /\ USABLE = << >> /\ RESV = << >> /\ given = << >>

-----------------------------------------------------------------------------
(* The loader *)

\* boot::allocate_pages: any free run of pages, here from LOW up.
allocate_pages(what) ==
  /\ phase = what
  /\ \E p \in LOW .. (NPAGES - Size(what)) :
       LET run == p .. (p + Size(what) - 1) IN
       /\ \A q \in run : owner[q] = "free"
       /\ owner' = [q \in Page |-> IF q \in run THEN what ELSE owner[q]]
  /\ phase' = After(phase)
  /\ UNCHANGED <<map, fvars>>

\* The types the kernel tells apart: 1 is usable RAM, 3 LOADER_DATA, 0 other.
uefi_type_to_kernel(o) ==
  CASE o = "free" -> 1 [] o = "firmware" -> 0 [] OTHER -> 3

\* The descriptors of a map: maximal runs of pages with the same key.
Descriptors(key) ==
  LET first == {p \in Page : p = 0 \/ key[p - 1] # key[p]}
      RunLen(p) == Min({q \in (p + 1) .. NPAGES : q = NPAGES \/ key[q] # key[p]}) - p
      Descr(p)  == [start |-> p * PAGE, len |-> RunLen(p) * PAGE,
                    typ |-> uefi_type_to_kernel(owner[p])]
  IN  [k \in 1 .. Cardinality(first) |-> Descr(Nth(first, k))]

\* build_memory_regions_vec: the firmware may join neighbours of one type or
\* list every allocation by itself.
Snapshot ==
  /\ phase = "snapshot"
  /\ map' \in {Descriptors(owner),
               Descriptors([p \in Page |-> uefi_type_to_kernel(owner[p])])}
  /\ phase' = After(phase)
  /\ UNCHANGED <<owner, fvars>>

PageOf(what)  == Min({p \in Page : owner[p] = what})
StartOf(what) == PAGE * PageOf(what)

\* The image is aligned inside its pages.
load_base == (StartOf("image") + ((-StartOf("image")) % max_align)) \div PAGE

\* The bytes of the image once every segment is copied and cleared behind: byte i
\* of the file's part of segment k, or zero.
Zero == <<0, 0>>
Copied ==
  LET after[k \in 0 .. Len(Segments)] ==
        [b \in 0 .. (max_vaddr - min_vaddr - 1) |->
           IF k = 0 THEN Zero
           ELSE LET i == b - (Segments[k].v - min_vaddr) IN
                IF i \in 0 .. (Segments[k].fsz - 1) THEN <<k, i>>
                ELSE IF i \in 0 .. (Segments[k].msz - 1) THEN Zero ELSE after[k - 1][b]]
  IN  after[Len(Segments)]

\* The framebuffer and the two APIC pages lie above the RAM.
fb_end  == NPAGES + (align_up(FB_LEN) \div PAGE)
IO_APIC == NPAGES + 4
LAPIC   == NPAGES + 8

\* The direct map lies above all of these, and above the kernel's own addresses.
ASSUME DirectMapAbove ==
  /\ max_vaddr <= HHDM_BASE * PAGE /\ PG_1G <= HHDM_BASE
  /\ fb_end <= HHDM_BASE /\ LAPIC < HHDM_BASE

\* Mutant: the APIC pages are forgotten.
ident_hi_noapic ==
  Max({PageOf("stack") + 1, load_base + K_PAGES, PageOf("heap") + HEAP_PAGES,
       PageOf("memmap") + 1, fb_end, PG_1G})

\* The end of the identity map: everything the kernel is handed, 1 GiB at least,
\* and the APIC pages.
ident_hi ==
  Max({PageOf("stack") + 1, load_base + K_PAGES, PageOf("heap") + HEAP_PAGES,
       PageOf("memmap") + 1, fb_end, PG_1G, IO_APIC + 1, LAPIC + 1})

phys_max == Max({(map[k].start + map[k].len) \div PAGE : k \in DOMAIN map})

\* The address space of the hand-over.
pml4 == build_pagetables_exec(load_base, K_VIRT, K_VIRT + K_PAGES, ident_hi, phys_max)

-----------------------------------------------------------------------------
(* The kernel's side of the handover *)

low32_lo == StartOf("low32")
low32_hi == low32_lo + PAGE * Size("low32")
heap_lo  == StartOf("heap")
heap_hi  == heap_lo + PAGE * Size("heap")

Span(s, l) == [start |-> s, len |-> l]

\* The regions of the map that are not usable, except one that meets the low pool.
FirmwareSpans ==
  LET kept == Kept(map, {k \in DOMAIN map : /\ map[k].typ # 1
                                             /\ \/ map[k].start + map[k].len <= low32_lo
                                                \/ map[k].start >= low32_hi})
  IN  [k \in DOMAIN kept |-> Span(kept[k].start, kept[k].len)]

\* Mutant: the pages below the low pool are not reserved.
Reservations_nolow ==
  FirmwareSpans \o << Span(TOP, FB_LEN), Span(heap_hi, HEAP_GUARD),
                      Span(TRAMP_PAGE * PAGE, PAGE), Span(load_base * PAGE, K_SIZE) >>

\* The ranges reserved::init asks for, in order.
Reservations ==
  FirmwareSpans \o << Span(TOP, FB_LEN), Span(0, low32_lo), Span(heap_hi, HEAP_GUARD),
                      Span(TRAMP_PAGE * PAGE, PAGE), Span(LAPIC * PAGE, PAGE),
                      Span(IO_APIC * PAGE, PAGE), Span(load_base * PAGE, K_SIZE) >>

\* reserve_range: empty ranges and those past MAX_RESV are dropped silently.
reserve_range(asked) ==
  LET full == Kept(asked, {k \in DOMAIN asked : asked[k].len # 0})
  IN  [k \in 1 .. Min({Len(full), MAX_RESV}) |->
         [start |-> align_down(full[k].start),
          end   |-> align_up(full[k].start + full[k].len)]]

reserved_init ==
  /\ phase = "reserved" /\ phase' = After(phase)
  /\ RESV' = reserve_range(Reservations)
  /\ UNCHANGED <<owner, map, FRAME_ALLOC, LOW32_ALLOC, USABLE, given>>

mem_init ==
  /\ phase = "pools" /\ phase' = After(phase)
  /\ FRAME_ALLOC' = [next |-> align_down(heap_lo), end |-> align_up(heap_hi)]
  /\ LOW32_ALLOC' = IF low32_hi - low32_lo < PAGE THEN LOW32_ALLOC
                    ELSE [next |-> align_down(low32_lo), end |-> align_up(low32_hi)]
  /\ UNCHANGED <<owner, map, USABLE, RESV, given>>

\* Mutant: loader data counts as usable, as after the boot services are gone.
seed_usable_from_mmap_loader ==
  /\ phase = "usable" /\ phase' = After(phase)
  /\ LET usable == Kept(map, {k \in DOMAIN map : map[k].typ # 0})
     IN  USABLE' = [k \in 1 .. Min({Len(usable), MAX_USABLE}) |->
                      [next |-> usable[k].start,
                       end  |-> usable[k].start + usable[k].len]]
  /\ UNCHANGED <<owner, map, FRAME_ALLOC, LOW32_ALLOC, RESV, given>>

seed_usable_from_mmap ==
  /\ phase = "usable" /\ phase' = After(phase)
  /\ LET inner(mr) == [next |-> align_up(mr.start),
                       end  |-> align_down(mr.start + mr.len)]
         usable == Kept(map, {k \in DOMAIN map :
                                map[k].typ = 1 /\ inner(map[k]).next < inner(map[k]).end})
     IN  USABLE' = [k \in 1 .. Min({Len(usable), MAX_USABLE}) |-> inner(usable[k])]
  /\ UNCHANGED <<owner, map, FRAME_ALLOC, LOW32_ALLOC, RESV, given>>

Running == phase = "run" /\ FrameNext /\ UNCHANGED <<phase, owner, map>>

BootNext ==
  \/ \E what \in {"image", "low32", "stack", "heap", "memmap", "tables"} :
       allocate_pages(what)
  \/ Snapshot \/ reserved_init \/ mem_init \/ seed_usable_from_mmap
  \/ Running

BootSpec == BootInit /\ [][BootNext]_bvars

-----------------------------------------------------------------------------
(* Properties *)

\* The kernel's pools are what FrameAlloc starts from: once they are made, the
\* early heap, the low pool and the usable ranges share no byte, whatever the
\* firmware's map looked like.
Handover == phase = "run" => Seeded

GivenPage(p) == \E k \in DOMAIN given : given[k] = p * PAGE

\* The kernel image, the boot stack and BootInfo, and the firmware's own pages,
\* are never handed out, also when the table of reserved ranges is full and
\* dropped the image, which is asked for last (reserved.rs 46).
LoaderPagesKept ==
  \A p \in Page : owner[p] \in {"image", "stack", "firmware"} => ~GivenPage(p)

\* The low pages smp.rs copies the trampoline to and uses for its stack are
\* never handed out, though reserved.rs names another page for the trampoline:
\* as long as the memory map leaves room in the table for the range that holds
\* them (with more regions it is dropped without a word, and they are).
TrampolineKept ==
  Len(FirmwareSpans) + 2 <= MAX_RESV => \A p \in AP_PAGES : ~GivenPage(p)

Window == K_VIRT .. (K_VIRT + K_PAGES - 1)

\* Whatever pages the firmware gave the loader, the kernel finds each segment at
\* the address it is linked for, the file's bytes and then zeroes: no segment is
\* copied over another, and the identity map, made later over the same first
\* pages, takes none of the kernel's.
ImageInPlace ==
  LET space    == pml4
      base     == load_base
      at(va)   == (space[va \div PAGE] - base) * PAGE + (va % PAGE)
      byte(va) == IF at(va) \in DOMAIN Copied THEN Copied[at(va)] ELSE <<-1, 0>>
  IN
  phase = "reserved" => \A k \in Loaded : \A i \in 0 .. (Segments[k].msz - 1) :
    byte(Segments[k].v + i) = IF i < Segments[k].fsz THEN <<k, i>> ELSE Zero

\* "Identity coverage must include trampoline/bootinfo/stack/image span/early
\* heap/memmap/fb" (main.rs 720): all of these, the pages of the processors'
\* trampoline and the APIC pages, which are used before the HHDM is known to
\* apic.rs, are at their own addresses.  Only what the firmware placed under the
\* kernel's own addresses is not.
IdentityReach ==
  LET space == pml4 IN
  phase = "reserved" =>
    \A p \in {q \in Page : owner[q] \in {"stack", "heap", "memmap"}}
             \cup (load_base .. (load_base + K_PAGES - 1)) \cup (NPAGES .. (fb_end - 1))
             \cup AP_PAGES \cup {IO_APIC, LAPIC} :
      p \notin Window => space[p] = p

\* Every page of RAM is in the direct map, whatever mixture of page sizes its end
\* calls for: the kernel finds there each page table and each frame it is given.
HhdmReach ==
  LET space == pml4 IN phase = "reserved" => \A p \in Page : space[HHDM_BASE + p] = p

\* "only usable RAM" (mem/mod.rs 415): the frames taken from the memory map are
\* free, none of them holds what the loader left to the kernel: the page tables
\* in use and the memory map itself.
UsableIsFree ==
  \A p \in Page : owner[p] \in {"memmap", "tables"} => ~GivenPage(p)
=============================================================================
