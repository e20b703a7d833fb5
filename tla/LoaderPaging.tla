----------------------------- MODULE LoaderPaging -----------------------------
(***************************************************************************)
(* The address space in which the kernel starts, as build_pagetables_exec  *)
(* of the loader (jotunboot/src/main.rs) makes it: the kernel at the       *)
(* addresses it is linked for, the physical memory at its own addresses    *)
(* around the kernel, and again behind HHDM_BASE in the largest pages      *)
(* that fit.                                                               *)
(*                                                                         *)
(* An address space gives the physical page behind each virtual page, or   *)
(* Unmapped.  Addresses are page numbers.  Nothing is mapped below a       *)
(* larger page, so ensure_pd and ensure_pt fail only for want of memory.   *)
(***************************************************************************)
EXTENDS MinMax

CONSTANTS
  PG_2M, PG_1G,     \* pages of 2 MiB and of 1 GiB
  HHDM_BASE,        \* where the direct map begins
  VTOP              \* bound: virtual pages are below this one

ASSUME PagingConstants ==
  /\ PG_2M \in Nat \ {0, 1} /\ PG_1G \in Nat \ {0} /\ PG_1G % PG_2M = 0
  /\ HHDM_BASE \in Nat /\ HHDM_BASE % PG_1G = 0 /\ VTOP \in Nat /\ HHDM_BASE < VTOP

VA       == 0 .. (VTOP - 1)
Unmapped == -1
Empty    == [va \in VA |-> Unmapped]

\* map_4k_offset: what was mapped there is replaced.
map_4k_offset(space, from, to, delta) ==
  [va \in VA |-> IF va \in from .. (to - 1) THEN va + delta ELSE space[va]]

\* map_4kib_page for each page of a set: one that is mapped stays.
map_4kib_pages(space, pages, delta) ==
  [va \in VA |-> IF va \in pages /\ space[va] = Unmapped THEN va + delta ELSE space[va]]

\* How far pages of one size reach from phys: they must fit and be aligned.
Reach(size, phys, phys_max) ==
  IF phys % size = 0 /\ (HHDM_BASE + phys) % size = 0
  THEN phys + size * ((phys_max - phys) \div size) ELSE phys

\* Mutant: the last pages, fewer than 2 MiB, are forgotten.
map_hhdm_huge_notail(space, phys_max) ==
  LET large == Reach(PG_2M, Reach(PG_1G, 0, phys_max), phys_max)
  IN  map_4kib_pages(space, {HHDM_BASE + p : p \in 0 .. (large - 1)}, -HHDM_BASE)

\* 1 GiB, then 2 MiB, then 4 KiB pages; the direct map overlaps nothing.
map_hhdm_huge(space, phys_max) ==
  LET huge  == Reach(PG_1G, 0, phys_max)
      large == Reach(PG_2M, huge, phys_max)
      tail  == phys_max
      Chunks(from, to) == {HHDM_BASE + p : p \in from .. (to - 1)}
  IN  map_4kib_pages(
        map_4kib_pages(
          map_4kib_pages(space, Chunks(0, huge), -HHDM_BASE),
          Chunks(huge, large), -HHDM_BASE),
        Chunks(large, tail), -HHDM_BASE)

\* The kernel below 2 MiB and the rest of it.
KernelMapped(space, load_base, min_vaddr, max_vaddr) ==
  LET delta == load_base - min_vaddr
      low   == IF min_vaddr < PG_2M
               THEN map_4k_offset(space, min_vaddr, Min({max_vaddr, PG_2M}), delta) ELSE space
  IN  map_4k_offset(low, Max({PG_2M, min_vaddr}), max_vaddr, delta)

\* Mutant: all of the first 2 MiB are identity mapped.
IdentityLow_whole(space, min_vaddr, max_vaddr) == map_4k_offset(space, 1, PG_2M, 0)

\* The first 2 MiB around the kernel, page 0 left out.
IdentityLow(space, min_vaddr, max_vaddr) ==
  LET below == IF 0 < Min({min_vaddr, PG_2M})
               THEN map_4k_offset(space, 1, Min({min_vaddr, PG_2M}), 0) ELSE space
  IN  IF max_vaddr < PG_2M THEN map_4k_offset(below, max_vaddr, PG_2M, 0) ELSE below

\* The rest, the kernel's addresses left out.
IdentityHigh(space, min_vaddr, max_vaddr, ident_end) ==
  map_4kib_pages(space, {va \in PG_2M .. (ident_end - 1) : va + 1 <= min_vaddr \/ va >= max_vaddr}, 0)

build_pagetables_exec(load_base, min_vaddr, max_vaddr, ident_end, phys_max) ==
  LET kernel == KernelMapped(Empty, load_base, min_vaddr, max_vaddr)
      low    == IdentityLow(kernel, min_vaddr, max_vaddr)
  IN  map_hhdm_huge(IdentityHigh(low, min_vaddr, max_vaddr, ident_end), phys_max)
=============================================================================
