--------------------------- MODULE BootMemoryProofs ---------------------------
(***************************************************************************)
(* TLAPS proofs about BootMemory: wherever the firmware places what the    *)
(* loader asks for, and however it lists its memory, the kernel's pools    *)
(* and its first address space are sound.                                  *)
(***************************************************************************)
EXTENDS BootMemory, FrameAllocProofs, FiniteSetTheorems

USE PagingConstants, ZenonT(60)

-----------------------------------------------------------------------------
(* The address space of the hand-over, for every image, every size of the  *)
(* memory and every size of the pages: the kernel, the identity map and    *)
(* the direct map are whole and none takes a page of another.              *)

\* The smaller of two addresses, as the loader's min.
LEMMA MinOfTwo ==
  ASSUME NEW a \in Nat, NEW b \in Nat
  PROVE  Min({a, b}) = IF a <= b THEN a ELSE b
<1>1. Min({a, b}) \in {a, b} /\ \A y \in {a, b} : Min({a, b}) <= y
  BY MinIn
<1> QED  BY <1>1, SMTT(60)

\* The greater of two addresses, as the loader's max.
LEMMA MaxOfTwo ==
  ASSUME NEW a \in Nat, NEW b \in Nat
  PROVE  Max({a, b}) = IF a <= b THEN b ELSE a
<1>1. a + b \in Nat /\ {a, b} \in SUBSET (0 .. (a + b)) /\ {a, b} # {}
  BY SMTT(60)
<1>2. Max({a, b}) \in {a, b} /\ \A y \in {a, b} : y <= Max({a, b})
  BY <1>1, MaxIn
<1> QED  BY <1>2, SMTT(60)

\* What map_4kib_page leaves behind a page.
LEMMA Pages ==
  ASSUME NEW space, NEW pages, NEW delta \in Int, NEW va \in VA
  PROVE  map_4kib_pages(space, pages, delta)[va]
           = IF va \in pages /\ space[va] = Unmapped THEN va + delta ELSE space[va]
BY DEF map_4kib_pages

\* The kernel's own pages: all of the image, and nothing else (main.rs 413-423).
LEMMA KernelPages ==
  ASSUME NEW base \in Nat, NEW lo \in Nat, NEW hi \in Nat, lo < hi, NEW va \in VA
  PROVE  KernelMapped(Empty, base, lo, hi)[va]
           = IF lo <= va /\ va < hi THEN va + (base - lo) ELSE Unmapped
<1> DEFINE low == IF lo < PG_2M
                  THEN map_4k_offset(Empty, lo, Min({hi, PG_2M}), base - lo) ELSE Empty
<1>1. /\ Min({hi, PG_2M}) = IF hi <= PG_2M THEN hi ELSE PG_2M
      /\ Max({PG_2M, lo}) = IF PG_2M <= lo THEN lo ELSE PG_2M
  BY MinOfTwo, MaxOfTwo
<1>2. va \in Nat /\ base - lo \in Int /\ Empty[va] = Unmapped
  BY SMTT(60) DEF VA, Empty
<1>3. low[va] = IF lo < PG_2M /\ lo <= va /\ va < hi /\ va < PG_2M
                THEN va + (base - lo) ELSE Unmapped
  <2>1. CASE lo < PG_2M
    <3>1. Min({hi, PG_2M}) \in Nat
      BY <1>1
    <3>2. low[va] = IF lo <= va /\ va < Min({hi, PG_2M}) THEN va + (base - lo) ELSE Empty[va]
      BY <2>1, <3>1, <1>2, SMTT(60) DEF map_4k_offset
    <3> HIDE DEF low
    <3> QED  BY <2>1, <3>2, <1>1, <1>2, SMTT(60)
  <2>2. CASE ~(lo < PG_2M)
    BY <2>2, <1>2
  <2> QED  BY <2>1, <2>2
<1>4. KernelMapped(Empty, base, lo, hi) = map_4k_offset(low, Max({PG_2M, lo}), hi, base - lo)
  BY DEF KernelMapped
<1> HIDE DEF low
<1>5. Max({PG_2M, lo}) \in Nat
  BY <1>1
<1>6. map_4k_offset(low, Max({PG_2M, lo}), hi, base - lo)[va]
        = IF Max({PG_2M, lo}) <= va /\ va < hi THEN va + (base - lo) ELSE low[va]
  BY <1>2, <1>5, SMTT(60) DEF map_4k_offset
<1> QED  BY <1>1, <1>2, <1>3, <1>4, <1>6, SMTT(60)

\* What the identity map leaves behind a page that had was before: in the first
\* 2 MiB, and behind them.
LowValue(was, va, lo, hi) ==
  IF 1 <= va /\ va < PG_2M /\ ~(lo <= va /\ va < hi) THEN va ELSE was
HighValue(was, va, lo, hi, end) ==
  IF PG_2M <= va /\ va < end /\ ~(lo <= va /\ va < hi) /\ was = Unmapped THEN va ELSE was

\* The first 2 MiB around the kernel take none of its pages (main.rs 425-437).
LEMMA LowPages ==
  ASSUME NEW space, NEW lo \in Nat, NEW hi \in Nat, lo < hi, NEW va \in VA
  PROVE  IdentityLow(space, lo, hi)[va] = LowValue(space[va], va, lo, hi)
<1> DEFINE m == Min({lo, PG_2M})
<1> DEFINE below == IF 0 < m THEN map_4k_offset(space, 1, m, 0) ELSE space
<1>1. m \in Nat /\ m = IF lo <= PG_2M THEN lo ELSE PG_2M
  BY MinOfTwo
<1>2. va \in Nat
  BY SMTT(60) DEF VA
<1>3. below[va] = IF 0 < m /\ 1 <= va /\ va < m THEN va ELSE space[va]
  <2>1. CASE 0 < m
    BY <2>1, <1>1, <1>2, SMTT(60) DEF map_4k_offset
  <2>2. CASE ~(0 < m)
    BY <2>2
  <2> QED  BY <2>1, <2>2
<1>4. IdentityLow(space, lo, hi) = IF hi < PG_2M THEN map_4k_offset(below, hi, PG_2M, 0) ELSE below
  BY DEF IdentityLow
<1> HIDE DEF below, m
<1>5. map_4k_offset(below, hi, PG_2M, 0)[va]
        = IF hi <= va /\ va < PG_2M THEN va ELSE below[va]
  BY <1>2, SMTT(60) DEF map_4k_offset
<1> QED  BY <1>1, <1>2, <1>3, <1>4, <1>5, SMTT(60) DEF LowValue

\* The rest of the identity map takes none of the kernel's pages either.
LEMMA HighPages ==
  ASSUME NEW space, NEW lo \in Nat, NEW hi \in Nat, NEW end \in Nat, NEW va \in VA
  PROVE  IdentityHigh(space, lo, hi, end)[va] = HighValue(space[va], va, lo, hi, end)
<1>1. va \in Nat
  BY SMTT(60) DEF VA
<1> QED  BY <1>1, Pages, SMTT(60) DEF IdentityHigh, HighValue

\* Pages of one size never reach past the end of the memory.
LEMMA ReachBounds ==
  ASSUME NEW size \in Nat \ {0}, NEW phys \in Nat, NEW top \in Nat, phys <= top
  PROVE  Reach(size, phys, top) \in Nat /\ phys <= Reach(size, phys, top)
           /\ Reach(size, phys, top) <= top
<1> DEFINE n == top - phys
<1> DEFINE q == n \div size
<1>1. n \in Nat
  BY SMTT(60)
<1> HIDE DEF n
<1>2. q \in Nat /\ size * q <= n /\ size * q >= 0
  BY <1>1, SMTT(60)
<1> HIDE DEF q
<1> QED  BY <1>2, SMTT(60) DEF Reach, n, q

\* The direct map fills what was empty behind HHDM_BASE up to the end of the
\* memory, whatever mixture of page sizes that takes (main.rs 350-401).
LEMMA DirectPages ==
  ASSUME NEW space, NEW top \in Nat, NEW va \in VA
  PROVE  map_hhdm_huge(space, top)[va]
           = IF HHDM_BASE <= va /\ va < HHDM_BASE + top /\ space[va] = Unmapped
             THEN va - HHDM_BASE ELSE space[va]
<1> DEFINE huge  == Reach(PG_1G, 0, top)
<1> DEFINE large == Reach(PG_2M, huge, top)
<1> DEFINE Chunks(from, to) == {HHDM_BASE + p : p \in from .. (to - 1)}
<1>1. huge \in Nat /\ huge <= top
  BY ReachBounds, SMTT(60)
<1>2. large \in Nat /\ huge <= large /\ large <= top
  <2> HIDE DEF huge
  <2> QED  BY <1>1, ReachBounds
<1> DEFINE one   == map_4kib_pages(space, Chunks(0, huge), -HHDM_BASE)
<1> DEFINE two   == map_4kib_pages(one, Chunks(huge, large), -HHDM_BASE)
<1> DEFINE three == map_4kib_pages(two, Chunks(large, top), -HHDM_BASE)
<1>3. map_hhdm_huge(space, top) = three
  BY DEF map_hhdm_huge
<1> HIDE DEF huge, large
<1>4. \A from, to \in Nat :
        va \in Chunks(from, to) <=> HHDM_BASE + from <= va /\ va < HHDM_BASE + to
  <2> SUFFICES ASSUME NEW from \in Nat, NEW to \in Nat,
                      HHDM_BASE + from <= va, va < HHDM_BASE + to
               PROVE  va \in Chunks(from, to)
    BY SMTT(60) DEF VA
  <2>1. va - HHDM_BASE \in from .. (to - 1) /\ va = HHDM_BASE + (va - HHDM_BASE)
    BY SMTT(60) DEF VA
  <2> QED  BY <2>1
<1> HIDE DEF Chunks
<1>5. va \in Nat /\ -HHDM_BASE \in Int /\ va + (-HHDM_BASE) = va - HHDM_BASE
  BY SMTT(60) DEF VA
<1>6. one[va] = IF va < HHDM_BASE + huge /\ HHDM_BASE <= va /\ space[va] = Unmapped
                THEN va - HHDM_BASE ELSE space[va]
  BY <1>1, <1>4, <1>5, Pages, SMTT(60)
<1> HIDE DEF one
<1>7. two[va] = IF /\ HHDM_BASE + huge <= va /\ va < HHDM_BASE + large
                   /\ one[va] = Unmapped
                THEN va - HHDM_BASE ELSE one[va]
  BY <1>1, <1>2, <1>4, <1>5, Pages, SMTT(60)
<1> HIDE DEF two
<1>8. three[va] = IF /\ HHDM_BASE + large <= va /\ va < HHDM_BASE + top
                     /\ two[va] = Unmapped
                  THEN va - HHDM_BASE ELSE two[va]
  BY <1>1, <1>2, <1>4, <1>5, Pages, SMTT(60)
<1> HIDE DEF three
<1> QED  BY <1>1, <1>2, <1>3, <1>5, <1>6, <1>7, <1>8, SMTT(60)

\* What the hand-over promises of the address space (main.rs 403-453): the kernel
\* is where it is linked, every other page below the identity map's end, but page
\* 0, is at its own address, the memory is behind HHDM_BASE, and nothing else is
\* mapped.  It asks that the identity map covers 2 MiB and, like the image, ends
\* below the direct map.
THEOREM AddressSpace ==
  ASSUME NEW base \in Nat, NEW lo \in Nat, NEW hi \in Nat, NEW end \in Nat, NEW top \in Nat,
         lo < hi, hi <= HHDM_BASE, PG_2M <= end, end <= HHDM_BASE, NEW va \in VA
  PROVE  build_pagetables_exec(base, lo, hi, end, top)[va]
           = IF lo <= va /\ va < hi THEN base + (va - lo)
             ELSE IF 1 <= va /\ va < end THEN va
             ELSE IF HHDM_BASE <= va /\ va < HHDM_BASE + top THEN va - HHDM_BASE
             ELSE Unmapped
<1> DEFINE kernel == KernelMapped(Empty, base, lo, hi)
<1> DEFINE low    == IdentityLow(kernel, lo, hi)
<1> DEFINE ident  == IdentityHigh(low, lo, hi, end)
<1>1. build_pagetables_exec(base, lo, hi, end, top) = map_hhdm_huge(ident, top)
  BY DEF build_pagetables_exec
<1>2. kernel[va] = IF lo <= va /\ va < hi THEN va + (base - lo) ELSE Unmapped
  BY KernelPages
<1> HIDE DEF kernel
<1>3. low[va] = LowValue(kernel[va], va, lo, hi)
  BY LowPages
<1> HIDE DEF low, ident
<1>4. ident[va] = HighValue(low[va], va, lo, hi, end)
  <2>1. ASSUME NEW space
        PROVE  IdentityHigh(space, lo, hi, end)[va] = HighValue(space[va], va, lo, hi, end)
    BY HighPages, SMTT(60) DEF VA
  <2> QED  BY <2>1 DEF ident
<1>5. map_hhdm_huge(ident, top)[va]
        = IF HHDM_BASE <= va /\ va < HHDM_BASE + top /\ ident[va] = Unmapped
          THEN va - HHDM_BASE ELSE ident[va]
  BY DirectPages
<1> QED  BY <1>1, <1>2, <1>3, <1>4, <1>5, SMTT(60) DEF VA, Unmapped, LowValue, HighValue

USE FrameConstants

-----------------------------------------------------------------------------
(* Loops that keep some of the elements *)

Rank(S, p) == Cardinality({q \in S : q < p})

\* The ranks of the numbers of a finite set grow with them, below its size.
LEMMA Ranks ==
  ASSUME NEW S \in SUBSET Nat, IsFiniteSet(S)
  PROVE  /\ Cardinality(S) \in Nat
         /\ \A p \in S : Rank(S, p) \in 0 .. (Cardinality(S) - 1)
         /\ \A p, r \in S : p < r => Rank(S, p) < Rank(S, r)
<1> DEFINE Below(p) == {q \in S : q < p}
<1>1. Cardinality(S) \in Nat
  BY FS_CardinalityType
<1>2. \A p \in S : IsFiniteSet(Below(p)) /\ Cardinality(Below(p)) \in Nat
  <2> TAKE p \in S
  <2>1. Below(p) \in SUBSET S
    OBVIOUS
  <2> HIDE DEF Below
  <2> QED  BY <2>1, FS_Subset, FS_CardinalityType
<1>3. ASSUME NEW T \in SUBSET S, IsFiniteSet(T), NEW p \in T
      PROVE  Cardinality({q \in T : q < p}) < Cardinality(T)
  <2> DEFINE B == {q \in T : q < p}
  <2>1. B \in SUBSET T /\ B # T
    BY SMTT(60)
  <2> HIDE DEF B
  <2>2. /\ Cardinality(B) <= Cardinality(T) /\ Cardinality(T) # Cardinality(B)
        /\ IsFiniteSet(B)
    BY <1>3, <2>1, FS_Subset
  <2>3. Cardinality(B) \in Nat /\ Cardinality(T) \in Nat
    BY <1>3, <2>2, FS_CardinalityType
  <2>4. Cardinality(B) < Cardinality(T)
    BY <2>2, <2>3, SMTT(60)
  <2> QED  BY <2>4 DEF B
<1>4. \A p \in S : Cardinality(Below(p)) < Cardinality(S)
  BY <1>3
<1>5. \A p, r \in S : p < r => Cardinality(Below(p)) < Cardinality(Below(r))
  <2> TAKE p, r \in S
  <2> HAVE p < r
  <2>0. \A q \in S : q < p => q < r
    BY SMTT(60)
  <2>1. Below(r) \in SUBSET S /\ p \in Below(r) /\ Below(p) = {q \in Below(r) : q < p}
    <3>1. p \in Below(r)
      OBVIOUS
    <3>2. Below(p) = {q \in Below(r) : q < p}
      BY <2>0
    <3> QED  BY <3>1, <3>2
  <2> HIDE DEF Below
  <2>2. Cardinality({q \in Below(r) : q < p}) < Cardinality(Below(r))
    BY <1>2, <1>3, <2>1
  <2> QED  BY <2>1, <2>2
<1> QED  BY <1>1, <1>2, <1>4, <1>5, SMTT(60) DEF Rank

\* Every number of a finite set is the n-th for one n, and every n up to its
\* size has one: a loop over a list meets each kept element once, in order.
LEMMA NthIs ==
  ASSUME NEW S \in SUBSET Nat, IsFiniteSet(S)
  PROVE  /\ \A k \in 1 .. Cardinality(S) : Nth(S, k) \in S /\ Rank(S, Nth(S, k)) = k - 1
         /\ \A p \in S : Nth(S, Rank(S, p) + 1) = p
<1> DEFINE n == Cardinality(S)
           T == 0 .. (n - 1)
           f == [p \in S |-> Rank(S, p)]
<1>1. /\ n \in Nat /\ \A p \in S : Rank(S, p) \in T
      /\ \A p, r \in S : p < r => Rank(S, p) < Rank(S, r)
  BY Ranks
<1>2. \A p, r \in S : Rank(S, p) = Rank(S, r) => p = r
  <2> SUFFICES ASSUME NEW p \in S, NEW r \in S, Rank(S, p) = Rank(S, r)  PROVE p = r
    OBVIOUS
  <2>1. Rank(S, p) \in Int /\ ~(p < r) /\ ~(r < p)
    BY <1>1, SMTT(60)
  <2> QED  BY <2>1, SMTT(60)
<1>3. f \in [S -> T] /\ \A p \in S : f[p] = Rank(S, p)
  BY <1>1
<1>4. f \in Injection(S, T)
  <2> HIDE DEF f, T
  <2>1. IsInjective(f)
    BY <1>2, <1>3 DEF IsInjective
  <2> QED  BY <1>3, <2>1 DEF Injection
<1>5. IsFiniteSet(T) /\ Cardinality(T) = n
  BY <1>1, FS_Interval, SMTT(60)
<1>6. f \in Surjection(S, T)
  <2> HIDE DEF f, T
  <2> QED  BY <1>4, <1>5, FS_Injection
<1>7. \A t \in T : \E p \in S : Rank(S, p) = t
  <2> HIDE DEF f, T
  <2> QED  BY <1>3, <1>6 DEF Surjection
<1>8. ASSUME NEW k \in 1 .. n
      PROVE  Nth(S, k) \in S /\ Rank(S, Nth(S, k)) = k - 1
  <2>1. k - 1 \in T
    BY <1>1, SMTT(60)
  <2>2. \E p \in S : Cardinality({q \in S : q < p}) = k - 1
    BY <1>7, <2>1 DEF Rank
  <2> QED  BY <2>2 DEF Nth, Rank
<1>9. ASSUME NEW p \in S
      PROVE  Nth(S, Rank(S, p) + 1) = p
  <2> DEFINE k == Rank(S, p) + 1
  <2>1. k \in 1 .. n /\ k - 1 = Rank(S, p)
    BY <1>1, SMTT(60)
  <2> HIDE DEF k, n
  <2>2. Nth(S, k) \in S /\ Rank(S, Nth(S, k)) = k - 1
    BY <1>8, <2>1
  <2>3. Nth(S, k) = p
    BY <1>2, <2>1, <2>2
  <2> QED  BY <2>3 DEF k
<1> QED  BY <1>8, <1>9

\* A finite set of numbers has a greatest one (max_vaddr, the alignment, phys_max).
LEMMA FiniteMax ==
  ASSUME NEW S \in SUBSET Nat, IsFiniteSet(S), S # {}
  PROVE  Max(S) \in S /\ \A y \in S : y <= Max(S)
<1> DEFINE n == Cardinality(S)
           m == Nth(S, n)
<1>1. /\ n \in Nat /\ \A p \in S : Rank(S, p) \in 0 .. (n - 1)
      /\ \A p, r \in S : p < r => Rank(S, p) < Rank(S, r)
  BY Ranks
<1>2. n # 0
  BY FS_EmptySet
<1>3. m \in S /\ Rank(S, m) = n - 1
  <2>1. n \in 1 .. n
    BY <1>1, <1>2, SMTT(60)
  <2> QED  BY <2>1, NthIs
<1> HIDE DEF n, m
<1>4. \A y \in S : ~(m < y)
  BY <1>1, <1>3, SMTT(60)
<1>5. \A y \in S : m >= y
  BY <1>3, <1>4, SMTT(60)
<1> QED
  <2>1. \E x \in S : \A y \in S : x >= y
    BY <1>3, <1>5
  <2>2. Max(S) \in S /\ \A y \in S : Max(S) >= y
    BY <2>1 DEF Max
  <2> QED  BY <2>2

\* What such a loop leaves of a list: elements of it, none of them twice.
LEMMA KeptPart ==
  ASSUME NEW T, NEW s \in Seq(T), NEW I \in SUBSET (1 .. Len(s))
  PROVE  /\ IsFiniteSet(I) /\ Cardinality(I) \in Nat
         /\ Kept(s, I) \in Seq(T) /\ Len(Kept(s, I)) = Cardinality(I)
         /\ \A k \in 1 .. Cardinality(I) : Nth(I, k) \in I /\ Kept(s, I)[k] = s[Nth(I, k)]
         /\ \A j, k \in 1 .. Cardinality(I) : j # k => Nth(I, j) # Nth(I, k)
<1> DEFINE n == Cardinality(I)
<1>1. Len(s) \in Nat /\ I \in SUBSET Nat /\ \A i \in 1 .. Len(s) : s[i] \in T
  BY SMTT(60)
<1>2. IsFiniteSet(1 .. Len(s))
  BY <1>1, FS_Interval, SMTT(60)
<1>3. IsFiniteSet(I)
  BY <1>2, FS_Subset
<1>4. n \in Nat
  BY <1>3, FS_CardinalityType
<1>5. \A k \in 1 .. n : Nth(I, k) \in I /\ Rank(I, Nth(I, k)) = k - 1
  BY <1>1, <1>3, NthIs
<1>6. Kept(s, I) = [k \in 1 .. n |-> s[Nth(I, k)]]
  BY DEF Kept
<1> HIDE DEF n
<1>7. \A k \in 1 .. n : s[Nth(I, k)] \in T
  <2> TAKE k \in 1 .. n
  <2>1. Nth(I, k) \in 1 .. Len(s)
    BY <1>5
  <2> QED  BY <1>1, <2>1
<1>8. Kept(s, I) \in Seq(T) /\ Len(Kept(s, I)) = n
  BY <1>4, <1>6, <1>7, SMTT(60)
<1>9. \A j, k \in 1 .. n : j # k => Nth(I, j) # Nth(I, k)
  BY <1>4, <1>5, SMTT(60)
<1>10. \A k \in 1 .. n : Kept(s, I)[k] = s[Nth(I, k)]
  BY <1>6
<1> QED  BY <1>3, <1>4, <1>5, <1>8, <1>9, <1>10 DEF n

\* The values of a function on a finite set are finitely many.
LEMMA FiniteImage ==
  ASSUME NEW S, IsFiniteSet(S), NEW f
  PROVE  IsFiniteSet({f[x] : x \in S})
<1> DEFINE T == {f[x] : x \in S}
           g == [x \in S |-> f[x]]
<1>1. g \in Surjection(S, T)
  BY DEF Surjection
<1> HIDE DEF g, T
<1>2. IsFiniteSet(T)
  BY <1>1, FS_Surjection
<1> QED  BY <1>2 DEF T

-----------------------------------------------------------------------------
(* Pages and the sizes of the image *)

\* Rounding to pages gives pages, and leaves them alone.
LEMMA Rounded ==
  ASSUME NEW x \in Nat
  PROVE  /\ align_down(x) \in Nat /\ align_down(x) % PAGE = 0
         /\ align_up(x) \in Nat /\ align_up(x) % PAGE = 0 /\ x <= align_up(x)
         /\ x % PAGE = 0 => align_down(x) = x /\ align_up(x) = x
<1>1. ASSUME NEW y \in Nat
      PROVE  /\ align_down(y) \in Nat /\ align_down(y) = PAGE * (y \div PAGE)
             /\ align_down(y) % PAGE = 0 /\ y < align_down(y) + PAGE /\ align_down(y) <= y
  <2> DEFINE d == y \div PAGE
  <2>1. d \in Int /\ y % PAGE \in 0 .. (PAGE - 1) /\ y = PAGE * d + (y % PAGE)
    BY DivMod, SMTT(60)
  <2>3. y % PAGE <= y
    BY SMTT(60)
  <2> HIDE DEF d
  <2>2. (PAGE * d) % PAGE = 0 /\ PAGE * d \in Int
    <3>1. PAGE \in Nat \ {0}
      OBVIOUS
    <3>2. (PAGE * d) % PAGE = 0
      BY <2>1, <3>1, Multiple
    <3> QED  BY <2>1, <3>2, SMTT(60)
  <2>4. align_down(y) = PAGE * d
    <3> DEFINE m == PAGE * d
               t == y % PAGE
    <3>1. m \in Int /\ t \in Int /\ y = m + t /\ align_down(y) = y - t
      BY <2>1, <2>2, SMTT(60) DEF align_down
    <3> HIDE DEF m, t
    <3>2. align_down(y) = m
      BY <3>1, SMTT(60)
    <3> QED  BY <3>2 DEF m
  <2>5. align_down(y) \in Nat /\ y < align_down(y) + PAGE /\ align_down(y) <= y
    BY <2>1, <2>3, SMTT(60) DEF align_down
  <2> QED  BY <2>2, <2>4, <2>5 DEF d
<1>2. x + PAGE - 1 \in Nat
  BY SMTT(60)
<1>3. /\ align_up(x) \in Nat /\ align_up(x) % PAGE = 0 /\ x + PAGE - 1 < align_up(x) + PAGE
      /\ align_up(x) <= x + PAGE - 1
  <2> DEFINE y == x + PAGE - 1
  <2>1. y \in Nat /\ align_up(x) = align_down(y)
    BY <1>2 DEF align_up
  <2> HIDE DEF y
  <2>2. /\ align_up(x) \in Nat /\ align_up(x) % PAGE = 0 /\ y < align_up(x) + PAGE
        /\ align_up(x) <= y
    BY <1>1, <2>1
  <2> QED  BY <2>2 DEF y
<1>4. x <= align_up(x)
  <2> HIDE DEF align_up
  <2> QED  BY <1>3, SMTT(60)
<1>5. ASSUME x % PAGE = 0
      PROVE  align_down(x) = x /\ align_up(x) = x
  <2> DEFINE u == align_up(x)
             d == x \div PAGE
             e == u \div PAGE
  <2>1. d \in Int /\ x = PAGE * d
    BY <1>5, DivMod, SMTT(60)
  <2>2. u \in Nat /\ u % PAGE = 0 /\ x <= u /\ u < x + PAGE
    <3> HIDE DEF align_up
    <3> QED  BY <1>3, <1>4, SMTT(60)
  <2> HIDE DEF u
  <2>3. e \in Int /\ u = PAGE * e
    BY <2>2, DivMod, SMTT(60)
  <2> HIDE DEF d, e
  <2>4. PAGE * (e - d) = u - x
    BY <2>1, <2>3, SMTT(60)
  <2>5. \A k \in Int : 0 <= PAGE * k /\ PAGE * k < PAGE => k = 0
    BY SMTT(60)
  <2>6. u = x
    BY <2>1, <2>2, <2>3, <2>4, <2>5, SMTT(60)
  <2> QED  BY <1>5, <2>6, SMTT(60) DEF align_down, u
<1> QED  BY <1>1, <1>3, <1>4, <1>5

\* The numbers among the constants.
LEMMA BootNumbers ==
  /\ NPAGES \in Nat /\ NPAGES > 0 /\ TOP = PAGE * NPAGES /\ LOW \in Nat /\ 1 <= LOW /\ LOW <= NPAGES
  /\ HEAP_PAGES \in Nat \ {0} /\ HEAP_GUARD \in Nat /\ FB_LEN \in Nat /\ K_SIZE \in Nat
  /\ MAX_RESV \in Nat /\ MAX_USABLE \in Nat /\ VTOP = HHDM_BASE + NPAGES
  /\ TRAMP_PAGE \in Nat /\ AP_PAGES \subseteq 1 .. (LOW - 1)
<1>1. NPAGES \in Nat /\ LOW \in 1 .. NPAGES /\ TRAMP_PAGE \in 0 .. (LOW - 1)
  BY BootConstants
<1>2. /\ TOP = NPAGES * PAGE /\ HEAP_PAGES \in Nat \ {0} /\ HEAP_GUARD \in Nat /\ FB_LEN \in Nat
      /\ K_SIZE \in Nat /\ MAX_RESV \in Nat /\ MAX_USABLE \in Nat /\ HHDM_BASE + NPAGES = VTOP
      /\ AP_PAGES \subseteq 1 .. (LOW - 1)
  BY BootConstants
<1> QED  BY <1>1, <1>2, SMTT(60)

\* Whole pages compare as their numbers do.
LEMMA PageOrder ==
  ASSUME NEW a \in Int, NEW b \in Int
  PROVE  PAGE * a <= PAGE * b <=> a <= b
<1>1. PAGE * (b - a) = PAGE * b - PAGE * a
  BY SMTT(60)
<1>2. b - a >= 0 => PAGE * (b - a) >= 0
  BY SMTT(60)
<1>3. b - a <= -1 => PAGE * (b - a) <= -PAGE
  BY SMTT(60)
<1> QED  BY <1>1, <1>2, <1>3, SMTT(60)

\* The image is a whole number of pages, at least one, below the direct map; its
\* alignment is a number (main.rs 551-586).
LEMMA ImageSize ==
  /\ max_align \in Nat \ {0} /\ K_VIRT \in Nat /\ K_PAGES \in Nat \ {0}
  /\ K_VIRT + K_PAGES <= HHDM_BASE
<1> DEFINE vs == {Segments[k].v : k \in Loaded}
           e  == [k \in Loaded |-> align_up(Segments[k].v + Segments[k].msz)]
           al == [k \in Loaded |-> Max({Segments[k].align, PAGE})]
<1>1. /\ DOMAIN Segments = 1 .. Len(Segments) /\ Len(Segments) \in Nat
      /\ \A k \in DOMAIN Segments :
           /\ Segments[k].v \in Nat /\ Segments[k].msz \in Nat /\ Segments[k].align \in Nat
  <2> DEFINE R == [v : Nat, fsz : Nat, msz : Nat, align : Nat]
  <2>1. Segments \in Seq(R)
    BY BootConstants
  <2>2. \A s \in R : s.v \in Nat /\ s.msz \in Nat /\ s.align \in Nat
    OBVIOUS
  <2> HIDE DEF R
  <2> QED  BY <2>1, <2>2, SMTT(60)
<1>2. Loaded \subseteq DOMAIN Segments /\ \A k \in Loaded : Segments[k].msz # 0
  BY DEF Loaded
<1>3. PICK z \in Loaded : TRUE
  BY BootConstants DEF Loaded
<1>4. IsFiniteSet(Loaded)
  <2>1. IsFiniteSet(DOMAIN Segments)
    BY <1>1, FS_Interval, SMTT(60)
  <2> QED  BY <1>2, <2>1, FS_Subset
<1>5. vs \in SUBSET Nat /\ Segments[z].v \in vs
  BY <1>1, <1>2, <1>3
<1>6. min_vaddr \in Nat /\ min_vaddr <= Segments[z].v
  <2> HIDE DEF vs
  <2> QED  BY <1>5, MinIn DEF min_vaddr, vs
<1>7. \A k \in Loaded : /\ Segments[k].v + Segments[k].msz \in Nat
                        /\ e[k] = align_up(Segments[k].v + Segments[k].msz)
  BY <1>1, <1>2, SMTT(60)
<1>8. \A k \in Loaded : /\ e[k] \in Nat /\ e[k] % PAGE = 0
                        /\ Segments[k].v + Segments[k].msz <= e[k]
  <2> HIDE DEF e
  <2> QED  BY <1>7, Rounded, SMTT(60)
<1>9. max_vaddr = Max({e[k] : k \in Loaded})
  <2>1. {e[k] : k \in Loaded} = {align_up(Segments[k].v + Segments[k].msz) : k \in Loaded}
    <3> HIDE DEF e
    <3> QED  BY <1>7
  <2> QED  BY <2>1 DEF max_vaddr
<1> HIDE DEF e
<1>10. \E k \in Loaded : max_vaddr = e[k] /\ e[z] <= max_vaddr
  <2> DEFINE T == {e[k] : k \in Loaded}
  <2>1. IsFiniteSet(T)
    BY <1>4, FiniteImage
  <2>2. T \in SUBSET Nat /\ e[z] \in T
    BY <1>8
  <2>3. \A x \in T : \E k \in Loaded : x = e[k]
    OBVIOUS
  <2> HIDE DEF T
  <2>4. Max(T) \in T /\ e[z] <= Max(T)
    <3>1. T # {}
      BY <2>2
    <3>2. Max(T) \in T /\ \A y \in T : y <= Max(T)
      BY <2>1, <2>2, <3>1, FiniteMax
    <3> QED  BY <2>2, <3>2
  <2>5. max_vaddr = Max(T)
    BY <1>9 DEF T
  <2>6. PICK k \in Loaded : Max(T) = e[k]
    BY <2>3, <2>4
  <2> QED  BY <2>4, <2>5, <2>6
<1>11. /\ max_vaddr \in Nat /\ max_vaddr % PAGE = 0 /\ min_vaddr < max_vaddr
  <2>1. Segments[z].msz # 0 /\ Segments[z].msz \in Nat /\ Segments[z].v \in Nat
    BY <1>1, <1>2
  <2> QED  BY <1>6, <1>8, <1>10, <2>1, SMTT(60)
<1>12. max_align \in Nat \ {0}
  <2>1. \A k \in Loaded : al[k] \in Nat /\ PAGE <= al[k]
    <3> SUFFICES ASSUME NEW k \in Loaded
                 PROVE  Max({Segments[k].align, PAGE}) \in Nat
                        /\ PAGE <= Max({Segments[k].align, PAGE})
      OBVIOUS
    <3>1. Segments[k].align \in Nat
      BY <1>1, <1>2
    <3> QED  BY <3>1, MaxOfTwo, SMTT(60)
  <2>2. max_align = Max({al[k] : k \in Loaded})
    <3>1. \A k \in Loaded : al[k] = Max({Segments[k].align, PAGE})
      OBVIOUS
    <3>2. {al[k] : k \in Loaded} = {Max({Segments[k].align, PAGE}) : k \in Loaded}
      <4> HIDE DEF al
      <4> QED  BY <3>1
    <3> QED  BY <3>2 DEF max_align
  <2> HIDE DEF al
  <2> DEFINE T == {al[k] : k \in Loaded}
  <2>3. IsFiniteSet(T)
    BY <1>4, FiniteImage
  <2>4. T \in SUBSET Nat /\ T # {} /\ \A x \in T : PAGE <= x
    BY <1>3, <2>1
  <2> HIDE DEF T
  <2>5. Max(T) \in T
    BY <2>3, <2>4, FiniteMax
  <2> QED  BY <2>2, <2>4, <2>5, SMTT(60) DEF T
<1> DEFINE lo == min_vaddr \div PAGE
           hi == max_vaddr \div PAGE
<1> HIDE DEF min_vaddr, max_vaddr
<1>13. lo \in Int /\ min_vaddr = PAGE * lo
  BY <1>6, LinkerScript, DivMod, SMTT(60)
<1>14. hi \in Int /\ max_vaddr = PAGE * hi
  BY <1>11, DivMod, SMTT(60)
<1>15. K_VIRT = lo
  BY DEF K_VIRT
<1> HIDE DEF lo, hi
<1>16. max_vaddr - min_vaddr = PAGE * (hi - lo) /\ hi - lo \in Int
  BY <1>13, <1>14, SMTT(60)
<1>17. K_PAGES = hi - lo
  BY <1>16, Multiple DEF K_PAGES
<1>18. 0 <= lo
  <2>1. PAGE * 0 <= PAGE * lo
    BY <1>6, <1>13, SMTT(60)
  <2> QED  BY <1>13, <2>1, PageOrder, SMTT(60)
<1>19. lo < hi
  <2>1. ~(PAGE * hi <= PAGE * lo)
    BY <1>6, <1>11, <1>13, <1>14, SMTT(60)
  <2> QED  BY <1>13, <1>14, <2>1, PageOrder, SMTT(60)
<1>20. hi <= HHDM_BASE
  <2>1. PAGE * hi <= PAGE * HHDM_BASE
    BY <1>14, DirectMapAbove, SMTT(60)
  <2> QED  BY <1>14, <2>1, PageOrder, SMTT(60)
<1> QED  BY <1>12, <1>13, <1>14, <1>15, <1>17, <1>18, <1>19, <1>20, SMTT(60)

-----------------------------------------------------------------------------
(* The phases and what they place *)

Whats  == {"image", "low32", "stack", "heap", "memmap", "tables"}
Phases == Whats \cup {"snapshot", "reserved", "pools", "usable", "run"}
Owners == Whats \cup {"free", "firmware"}

Num(s) == CASE s = "image" -> 1 [] s = "low32" -> 2 [] s = "stack" -> 3 [] s = "heap" -> 4
            [] s = "snapshot" -> 5 [] s = "memmap" -> 6 [] s = "tables" -> 7
            [] s = "reserved" -> 8 [] s = "pools" -> 9 [] s = "usable" -> 10
            [] OTHER -> 11

Done(s) == Num(phase) > Num(s)

\* The boot goes through its steps in order.
LEMMA AfterIs ==
  /\ After("image") = "low32" /\ After("low32") = "stack" /\ After("stack") = "heap"
  /\ After("heap") = "snapshot" /\ After("snapshot") = "memmap" /\ After("memmap") = "tables"
  /\ After("tables") = "reserved" /\ After("reserved") = "pools" /\ After("pools") = "usable"
  /\ After("usable") = "run"
<1>1. /\ Len(Steps) = 11
      /\ Steps[1] = "image" /\ Steps[2] = "low32" /\ Steps[3] = "stack" /\ Steps[4] = "heap"
      /\ Steps[5] = "snapshot" /\ Steps[6] = "memmap" /\ Steps[7] = "tables"
      /\ Steps[8] = "reserved" /\ Steps[9] = "pools" /\ Steps[10] = "usable"
      /\ Steps[11] = "run"
  BY DEF Steps
<1>2. ASSUME NEW s, NEW n \in 2 .. 11, Steps[n - 1] = s,
             \A k \in 2 .. 11 : Steps[k - 1] = s => k = n
      PROVE  After(s) = Steps[n]
  <2> DEFINE c == CHOOSE k \in 2 .. Len(Steps) : Steps[k - 1] = s
  <2>1. \E k \in 2 .. Len(Steps) : Steps[k - 1] = s
    BY <1>1, <1>2
  <2>2. c \in 2 .. Len(Steps) /\ Steps[c - 1] = s
    BY <2>1
  <2>3. After(s) = Steps[c]
    BY DEF After
  <2> HIDE DEF c
  <2>4. c = n
    BY <1>1, <1>2, <2>2
  <2> QED  BY <2>3, <2>4
<1>3. \A j, k \in 1 .. 11 : Steps[j] = Steps[k] => j = k
  BY <1>1, SMTT(60)
<1>4. ASSUME NEW n \in 1 .. 10
      PROVE  After(Steps[n]) = Steps[n + 1]
  <2> DEFINE m == n + 1
  <2>1. m \in 2 .. 11 /\ m - 1 = n
    BY SMTT(60)
  <2>2. \A k \in 2 .. 11 : Steps[k - 1] = Steps[n] => k = m
    BY <1>3, SMTT(60)
  <2> HIDE DEF m
  <2>3. After(Steps[n]) = Steps[m]
    BY <1>2, <2>1, <2>2
  <2> QED  BY <2>3 DEF m
<1> QED  BY <1>1, <1>4, SMTT(60)

\* Every allocation is of one page at least.
LEMMA Sizes ==
  /\ \A w \in Whats : Size(w) \in Nat \ {0}
  /\ align_up(max_align) \div PAGE \in Nat /\ PAGE * (align_up(max_align) \div PAGE) >= max_align
  /\ Size("image") = K_PAGES + (align_up(max_align) \div PAGE) + 1
  /\ Size("heap") = HEAP_PAGES /\ Size("low32") = 1 /\ Size("stack") = 1 /\ Size("memmap") = 1
<1> DEFINE u == align_up(max_align)
           d == u \div PAGE
<1>1. u \in Nat /\ u % PAGE = 0 /\ max_align <= u /\ max_align \in Nat \ {0}
  BY ImageSize, Rounded
<1>2. Size("image") = K_PAGES + d + 1
  BY DEF Size
<1> HIDE DEF u
<1>3. d \in Int /\ u = PAGE * d
  BY <1>1, DivMod, SMTT(60)
<1> HIDE DEF d
<1>4. d \in Nat
  <2>1. PAGE * 0 <= PAGE * d
    BY <1>1, <1>3, SMTT(60)
  <2> QED  BY <1>3, <2>1, PageOrder, SMTT(60)
<1>5. K_PAGES \in Nat \ {0} /\ HEAP_PAGES \in Nat \ {0}
  BY ImageSize, BootNumbers
<1>6. /\ Size("heap") = HEAP_PAGES /\ Size("low32") = 1 /\ Size("stack") = 1
      /\ Size("memmap") = 1 /\ Size("tables") = 1
  BY DEF Size
<1>7. \A w \in Whats : Size(w) \in Nat \ {0}
  BY <1>2, <1>4, <1>5, <1>6, SMTT(60) DEF Whats
<1>8. d \in Nat /\ PAGE * d >= max_align /\ Size("image") = K_PAGES + d + 1
  BY <1>1, <1>2, <1>3, <1>4
<1> QED  BY <1>6, <1>7, <1>8 DEF u, d

\* Where the pages of an allocation are: in one run, and nowhere before.
IsRun(w, p) == \A q \in Page : owner[q] = w <=> q \in p .. (p + Size(w) - 1)

Placed(w) ==
  IF Done(w) THEN \E p \in LOW .. (NPAGES - Size(w)) : IsRun(w, p)
  ELSE \A q \in Page : owner[q] # w

\* Every page has an owner, and what the loader allocated is in one piece.
OwnersInv == owner \in [Page -> Owners] /\ \A w \in Whats : Placed(w)

\* The run begins where BootInfo says.
LEMMA RunStart ==
  ASSUME NEW w \in Whats, NEW p \in LOW .. (NPAGES - Size(w)), IsRun(w, p)
  PROVE  PageOf(w) = p /\ p \in Page /\ p + Size(w) <= NPAGES /\ LOW <= p /\ p \in Nat
<1> DEFINE S == {q \in Page : owner[q] = w}
<1>1. /\ Size(w) \in Nat \ {0} /\ LOW \in Nat /\ NPAGES \in Nat
      /\ p \in Nat /\ LOW <= p /\ p + Size(w) <= NPAGES
  BY Sizes, BootNumbers, SMTT(60)
<1>2. p \in Page /\ p \in p .. (p + Size(w) - 1)
  BY <1>1, SMTT(60) DEF Page
<1>3. p \in S
  BY <1>2 DEF IsRun
<1>4. \A q \in S : q \in Nat /\ p <= q
  BY <1>1, SMTT(60) DEF IsRun, Page
<1> HIDE DEF S
<1>5. S \in SUBSET Nat /\ S # {}
  BY <1>3, <1>4
<1>6. Min(S) \in S /\ Min(S) <= p
  BY <1>3, <1>5, MinIn
<1>7. Min(S) = p
  BY <1>1, <1>4, <1>6, SMTT(60)
<1> QED  BY <1>1, <1>2, <1>7 DEF PageOf, S

\* The image is aligned inside its pages: they have room for it (main.rs 582-594).
LEMMA LoadBase ==
  ASSUME NEW p \in LOW .. (NPAGES - Size("image")), IsRun("image", p)
  PROVE  load_base \in Nat /\ p <= load_base /\ load_base + K_PAGES < p + Size("image")
<1> DEFINE a   == PAGE * p
           off == (-a) % max_align
           b   == (a + off) \div PAGE
           d   == align_up(max_align) \div PAGE
<1>1. PageOf("image") = p /\ p \in Nat
  BY RunStart DEF Whats
<1>2. load_base = b
  BY <1>1 DEF load_base, StartOf
<1>3. max_align \in Nat \ {0} /\ K_PAGES \in Nat
  BY ImageSize
<1>4. d \in Nat /\ PAGE * d >= max_align /\ Size("image") = K_PAGES + d + 1
  BY Sizes
<1>5. a \in Nat
  BY <1>1, SMTT(60)
<1> HIDE DEF a, d
<1>6. off \in 0 .. (max_align - 1)
  <2>1. -a \in Int
    BY <1>5, SMTT(60)
  <2> QED  BY <1>3, <2>1, DivMod
<1> HIDE DEF off
<1> DEFINE x == a + off
<1>7. x \in Int /\ a <= x /\ x < a + PAGE * d
  BY <1>3, <1>4, <1>5, <1>6, SMTT(60)
<1>8. b \in Int /\ x % PAGE \in 0 .. (PAGE - 1) /\ x = PAGE * b + (x % PAGE)
  <2>1. b = x \div PAGE /\ PAGE \in Nat \ {0}
    OBVIOUS
  <2> HIDE DEF x, b
  <2>2. x \div PAGE \in Int /\ x % PAGE \in 0 .. (PAGE - 1) /\ x = PAGE * (x \div PAGE) + (x % PAGE)
    BY <1>7, <2>1, DivMod
  <2> QED  BY <2>1, <2>2
<1> HIDE DEF b, x
<1>9. p <= b
  <2>1. PAGE * (b + 1) = PAGE * b + PAGE
    BY <1>8, SMTT(60)
  <2>2. ~(PAGE * (b + 1) <= PAGE * p)
    BY <1>5, <1>7, <1>8, <2>1, SMTT(60) DEF a
  <2>3. ~(b + 1 <= p)
    BY <1>1, <1>8, <2>2, PageOrder, SMTT(60)
  <2> QED  BY <1>1, <1>8, <2>3, SMTT(60)
<1>10. b < p + d
  <2>1. PAGE * (p + d) = PAGE * p + PAGE * d
    BY <1>1, <1>4, SMTT(60)
  <2>2. ~(PAGE * (p + d) <= PAGE * b)
    BY <1>1, <1>4, <1>5, <1>7, <1>8, <2>1, SMTT(60) DEF a
  <2>3. ~(p + d <= b)
    BY <1>1, <1>4, <1>8, <2>2, PageOrder, SMTT(60)
  <2> QED  BY <1>1, <1>4, <1>8, <2>3, SMTT(60)
<1> QED  BY <1>1, <1>2, <1>3, <1>4, <1>8, <1>9, <1>10, SMTT(60)

-----------------------------------------------------------------------------
(* The map that the kernel is handed *)

Late   == {"free", "memmap", "tables"}
Region == [start : Nat, len : Nat, typ : {0, 1, 3}]

\* A region is a run of pages of RAM.  What it calls usable was free when the map
\* was copied: only the map and the page tables can be there now.
InRam(o, r) ==
  \E a \in Page, b \in 1 .. NPAGES :
    /\ a < b /\ r.start = PAGE * a /\ r.start + r.len = PAGE * b
    /\ r.typ = 1 => \A q \in a .. (b - 1) : o[q] \in Late

\* The regions are pages of RAM, none is in two of them, and they reach its end.
MapInv ==
  /\ map \in Seq(Region)
  /\ \A k \in 1 .. Len(map) : InRam(owner, map[k])
  /\ \A j, k \in 1 .. Len(map) : j # k =>
       \/ map[j].start + map[j].len <= map[k].start
       \/ map[k].start + map[k].len <= map[j].start
  /\ \E k \in 1 .. Len(map) : map[k].start + map[k].len = PAGE * NPAGES

\* The descriptors of the firmware are such a map, whether it joins neighbours of
\* one type or not (build_memory_regions_vec).
LEMMA DescriptorsOk ==
  ASSUME NEW key, OwnersInv, map' = Descriptors(key), owner' = owner,
         \A p, q \in Page :
           key[p] = key[q] => uefi_type_to_kernel(owner[p]) = uefi_type_to_kernel(owner[q])
  PROVE  MapInv'
<1> DEFINE first == {p \in Page : p = 0 \/ key[p - 1] # key[p]}
           Ends(p) == {q \in (p + 1) .. NPAGES : q = NPAGES \/ key[q] # key[p]}
           e(p) == Min(Ends(p))
           typ(p) == uefi_type_to_kernel(owner[p])
           Descr(p) == [start |-> p * PAGE, len |-> (e(p) - p) * PAGE, typ |-> typ(p)]
           n == Cardinality(first)
<1>1. NPAGES \in Nat /\ NPAGES > 0 /\ owner \in [Page -> Owners]
  BY BootNumbers DEF OwnersInv
<1>2. first \in SUBSET Nat /\ IsFiniteSet(first) /\ n \in Nat /\ 0 \in first
  <2>1. first \in SUBSET (0 .. (NPAGES - 1)) /\ first \in SUBSET Nat /\ 0 \in first
    BY <1>1, SMTT(60) DEF Page
  <2>2. IsFiniteSet(0 .. (NPAGES - 1))
    BY <1>1, FS_Interval, SMTT(60)
  <2> HIDE DEF first
  <2> QED  BY <2>1, <2>2, FS_Subset, FS_CardinalityType
<1>3. map' = [k \in 1 .. n |-> Descr(Nth(first, k))]
  BY DEF Descriptors
<1>4. \A k \in 1 .. n : Nth(first, k) \in first /\ Rank(first, Nth(first, k)) = k - 1
  <2> HIDE DEF first
  <2> QED  BY <1>2, NthIs
<1>5. \A p \in first : p \in Page /\ p \in Nat /\ p < NPAGES
  BY <1>1, SMTT(60) DEF Page
<1>6. \A p \in first :
        /\ e(p) \in (p + 1) .. NPAGES /\ (e(p) = NPAGES \/ key[e(p)] # key[p])
        /\ \A q \in p .. (e(p) - 1) : key[q] = key[p]
  <2> TAKE p \in first
  <2>1. Ends(p) \in SUBSET Nat /\ NPAGES \in Ends(p)
    BY <1>1, <1>5, SMTT(60)
  <2>2. e(p) \in Ends(p) /\ \A q \in Ends(p) : e(p) <= q
    <3> HIDE DEF Ends, first
    <3> QED  BY <2>1, MinIn
  <2>3. \A q \in p .. (e(p) - 1) : q = p \/ q \notin Ends(p)
    <3> HIDE DEF Ends, first
    <3>1. e(p) \in Nat
      BY <2>1, <2>2
    <3> HIDE DEF e
    <3> QED  BY <1>5, <2>2, <3>1, SMTT(60)
  <2> HIDE DEF e, first
  <2>4. e(p) \in (p + 1) .. NPAGES /\ (e(p) = NPAGES \/ key[e(p)] # key[p])
    BY <2>2
  <2>5. ASSUME NEW q \in p .. (e(p) - 1)
        PROVE  key[q] = key[p]
    <3>1. CASE q = p
      BY <3>1
    <3>2. CASE q # p
      <4>1. q \in (p + 1) .. NPAGES /\ q \notin Ends(p)
        BY <1>1, <1>5, <2>3, <2>4, <3>2, SMTT(60)
      <4> QED  BY <4>1
    <3> QED  BY <3>1, <3>2
  <2> QED  BY <2>4, <2>5
<1> HIDE DEF e, Ends
<1>7. \A p, r \in first : p < r => e(p) <= r
  <2> SUFFICES ASSUME NEW p \in first, NEW r \in first, p < r, ~(e(p) <= r)
               PROVE  FALSE
    <3> HIDE DEF first
    <3> QED  OBVIOUS
  <2>1. e(p) \in Int /\ p \in Nat /\ r \in Nat
    BY <1>5, <1>6, SMTT(60)
  <2>2. r \in p .. (e(p) - 1) /\ r - 1 \in p .. (e(p) - 1) /\ r # 0
    BY <2>1, SMTT(60)
  <2>3. key[r] = key[p] /\ key[r - 1] = key[p]
    BY <1>6, <2>2
  <2> QED  BY <2>2, <2>3
<1>8. \E p \in first : e(p) = NPAGES
  <2> DEFINE p == Max(first)
  <2>1. p \in first /\ \A y \in first : y <= p
    <3> HIDE DEF first
    <3> QED  BY <1>2, FiniteMax
  <2> HIDE DEF p
  <2>2. p \in Nat /\ e(p) \in (p + 1) .. NPAGES /\ (e(p) = NPAGES \/ key[e(p)] # key[p])
    BY <1>5, <1>6, <2>1
  <2>3. e(p) - 1 \in p .. (e(p) - 1)
    BY <2>2, SMTT(60)
  <2>4. key[e(p) - 1] = key[p]
    BY <1>6, <2>1, <2>3
  <2>5. ~(e(p) \in first)
    <3> HIDE DEF first
    <3> QED  BY <2>1, <2>2, SMTT(60)
  <2>6. CASE e(p) # NPAGES
    <3>1. e(p) \in Page /\ key[e(p) - 1] # key[e(p)]
      BY <1>1, <2>2, <2>4, <2>6, SMTT(60) DEF Page
    <3> QED  BY <2>5, <3>1
  <2> QED  BY <2>1, <2>6
<1>9. \A p \in Page : typ(p) \in {0, 1, 3} /\ (typ(p) = 1 => owner[p] = "free")
  BY <1>1, SMTT(60) DEF uefi_type_to_kernel
<1> HIDE DEF typ
<1>10. ASSUME NEW p \in first
       PROVE  /\ Descr(p) \in Region /\ InRam(owner, Descr(p)) /\ Descr(p).start = PAGE * p
              /\ Descr(p).start + Descr(p).len = PAGE * e(p)
  <2>1. /\ p \in Page /\ p \in Nat /\ e(p) \in 1 .. NPAGES /\ p < e(p)
        /\ \A q \in p .. (e(p) - 1) : key[q] = key[p] /\ q \in Page
    BY <1>1, <1>5, <1>6, SMTT(60) DEF Page
  <2> HIDE DEF first
  <2>2. e(p) - p \in Nat /\ (e(p) - p) * PAGE \in Nat /\ p * PAGE \in Nat
    BY <2>1, SMTT(60)
  <2>3. /\ Descr(p).start = PAGE * p /\ Descr(p).start + Descr(p).len = PAGE * e(p)
        /\ Descr(p).typ = typ(p)
    BY <2>1, <2>2, SMTT(60)
  <2>4. Descr(p) \in Region
    BY <1>9, <2>1, <2>2 DEF Region
  <2>5. Descr(p).typ = 1 => \A q \in p .. (e(p) - 1) : owner[q] \in Late
    <3> SUFFICES ASSUME typ(p) = 1, NEW q \in p .. (e(p) - 1)
                 PROVE  owner[q] \in Late
      BY <2>3
    <3>1. q \in Page /\ typ(q) = typ(p)
      BY <2>1 DEF typ
    <3> QED  BY <1>9, <3>1 DEF Late
  <2> HIDE DEF Descr
  <2>6. InRam(owner, Descr(p))
    BY <2>1, <2>3, <2>5 DEF InRam
  <2> QED  BY <2>3, <2>4, <2>6
<1> HIDE DEF Descr, first, n
<1>11. /\ map' \in Seq(Region) /\ Len(map') = n
       /\ \A k \in 1 .. n : map'[k] = Descr(Nth(first, k))
  BY <1>2, <1>3, <1>4, <1>10, SMTT(60)
<1>12. \A k \in 1 .. n : InRam(owner, map'[k])
  BY <1>4, <1>10, <1>11
<1>13. ASSUME NEW j \in 1 .. n, NEW k \in 1 .. n, j # k
       PROVE  \/ map'[j].start + map'[j].len <= map'[k].start
              \/ map'[k].start + map'[k].len <= map'[j].start
  <2> DEFINE p == Nth(first, j)
             r == Nth(first, k)
  <2>1. p \in first /\ r \in first /\ p # r /\ map'[j] = Descr(p) /\ map'[k] = Descr(r)
    BY <1>2, <1>4, <1>11, <1>13, SMTT(60)
  <2> HIDE DEF p, r
  <2>2. p \in Int /\ r \in Int /\ e(p) \in Int /\ e(r) \in Int /\ (e(p) <= r \/ e(r) <= p)
    BY <1>5, <1>6, <1>7, <2>1, SMTT(60)
  <2>3. PAGE * e(p) <= PAGE * r \/ PAGE * e(r) <= PAGE * p
    BY <2>2, PageOrder
  <2> QED  BY <1>10, <2>1, <2>3
<1>14. \E k \in 1 .. n : map'[k].start + map'[k].len = PAGE * NPAGES
  <2>1. PICK p \in first : e(p) = NPAGES
    BY <1>8
  <2>2. /\ Nth(first, Rank(first, p) + 1) = p /\ Rank(first, p) \in 0 .. (n - 1)
    BY <1>2, NthIs, Ranks DEF n
  <2>3. Rank(first, p) + 1 \in 1 .. n
    BY <1>2, <2>2, SMTT(60)
  <2> QED  BY <1>10, <1>11, <2>1, <2>2, <2>3
<1> QED  BY <1>11, <1>12, <1>13, <1>14 DEF MapInv

-----------------------------------------------------------------------------
(* The address space of the hand-over *)

\* When the loader builds the page tables, all it allocated is in its place.
LEMMA AllPlaced ==
  ASSUME OwnersInv, Num(phase) >= Num("reserved"), NEW w \in Whats
  PROVE  \E p \in LOW .. (NPAGES - Size(w)) : IsRun(w, p)
<1>1. Done(w)
  <2>1. Num(phase) \in Int
    BY SMTT(60) DEF Num
  <2> QED  BY <2>1, SMTT(60) DEF Done, Num, Whats
<1> QED  BY <1>1 DEF OwnersInv, Placed

\* The identity map ends above all it must reach, and below the direct map
\* (main.rs 720-747).
LEMMA IdentEnd ==
  ASSUME OwnersInv, phase = "reserved"
  PROVE  /\ ident_hi \in Nat /\ ident_hi <= HHDM_BASE /\ PG_1G <= ident_hi
         /\ \A q \in Page : owner[q] \in {"stack", "heap", "memmap"} =>
              LOW <= q /\ q < ident_hi
         /\ load_base \in Nat /\ LOW <= load_base /\ load_base + K_PAGES <= ident_hi
         /\ fb_end <= ident_hi /\ fb_end \in Nat /\ IO_APIC < ident_hi /\ LAPIC < ident_hi
         /\ LOW < ident_hi
<1> DEFINE s == PageOf("stack")
           h == PageOf("heap")
           m == PageOf("memmap")
           l == load_base + K_PAGES
           E == {s + 1, l, h + HEAP_PAGES, m + 1, fb_end, PG_1G, IO_APIC + 1, LAPIC + 1}
<1>0. Num(phase) >= Num("reserved")
  BY SMTT(60) DEF Num
<1>1. /\ NPAGES \in Nat /\ NPAGES > 0 /\ LOW \in Nat /\ LOW >= 1 /\ HEAP_PAGES \in Nat \ {0}
      /\ Size("stack") = 1 /\ Size("memmap") = 1 /\ Size("heap") = HEAP_PAGES
  BY BootNumbers, Sizes
<1>2. ASSUME NEW w \in Whats
      PROVE  /\ PageOf(w) \in Nat /\ LOW <= PageOf(w) /\ PageOf(w) + Size(w) <= NPAGES
             /\ IsRun(w, PageOf(w))
  <2>1. PICK p \in LOW .. (NPAGES - Size(w)) : IsRun(w, p)
    BY <1>0, AllPlaced
  <2> QED  BY <2>1, RunStart
<1>3. /\ s \in Nat /\ LOW <= s /\ s + 1 <= NPAGES /\ IsRun("stack", s)
      /\ h \in Nat /\ LOW <= h /\ h + HEAP_PAGES <= NPAGES /\ IsRun("heap", h)
      /\ m \in Nat /\ LOW <= m /\ m + 1 <= NPAGES /\ IsRun("memmap", m)
  <2>1. {"stack", "heap", "memmap"} \subseteq Whats
    BY DEF Whats
  <2> QED  BY <1>1, <1>2, <2>1
<1>4. load_base \in Nat /\ LOW <= load_base /\ l \in Nat /\ l < NPAGES
  <2>1. PICK p \in LOW .. (NPAGES - Size("image")) : IsRun("image", p)
    BY <1>0, AllPlaced DEF Whats
  <2>2. /\ load_base \in Nat /\ p <= load_base /\ l < p + Size("image")
        /\ K_PAGES \in Nat /\ Size("image") \in Nat
    BY <2>1, LoadBase, ImageSize, Sizes DEF Whats
  <2> QED  BY <1>1, <2>2, SMTT(60)
<1>5. fb_end \in Nat
  <2> DEFINE u == align_up(FB_LEN)
  <2>1. u \in Nat
    BY Rounded, BootNumbers
  <2> HIDE DEF u
  <2>2. u \div PAGE \in Nat
    BY <2>1, SMTT(60)
  <2> QED  BY <1>1, <2>2, SMTT(60) DEF fb_end, u
<1>6. /\ IO_APIC \in Nat /\ LAPIC \in Nat /\ IO_APIC < LAPIC /\ NPAGES < LAPIC
      /\ fb_end <= HHDM_BASE /\ PG_1G <= HHDM_BASE /\ LAPIC < HHDM_BASE
  BY <1>1, DirectMapAbove, SMTT(60) DEF IO_APIC, LAPIC
<1>7. ident_hi = Max(E)
  BY DEF ident_hi
<1> HIDE DEF s, h, m, l
<1>8. E \in SUBSET (0 .. HHDM_BASE)
  BY <1>1, <1>3, <1>4, <1>5, <1>6, SMTT(60)
<1>9. Max(E) \in E /\ \A y \in E : y <= Max(E)
  <2>1. E # {} /\ HHDM_BASE \in Nat
    OBVIOUS
  <2> HIDE DEF E
  <2> QED  BY <1>8, <2>1, MaxIn
<1>10. /\ ident_hi \in Nat /\ ident_hi <= HHDM_BASE /\ s + 1 <= ident_hi /\ l <= ident_hi
       /\ h + HEAP_PAGES <= ident_hi /\ m + 1 <= ident_hi /\ fb_end <= ident_hi
       /\ PG_1G <= ident_hi /\ IO_APIC + 1 <= ident_hi /\ LAPIC + 1 <= ident_hi
  BY <1>7, <1>8, <1>9, SMTT(60)
<1>11. ASSUME NEW q \in Page, owner[q] \in {"stack", "heap", "memmap"}
       PROVE  LOW <= q /\ q < ident_hi
  <2>1. q \in Nat
    BY <1>1, SMTT(60) DEF Page
  <2>2. CASE owner[q] = "stack"
    <3>1. q \in s .. (s + 1 - 1)
      BY <1>1, <1>3, <2>2 DEF IsRun
    <3> QED  BY <1>1, <1>3, <1>10, <2>1, <3>1, SMTT(60)
  <2>3. CASE owner[q] = "heap"
    <3>1. q \in h .. (h + HEAP_PAGES - 1)
      BY <1>1, <1>3, <2>3 DEF IsRun
    <3> QED  BY <1>1, <1>3, <1>10, <2>1, <3>1, SMTT(60)
  <2>4. CASE owner[q] = "memmap"
    <3>1. q \in m .. (m + 1 - 1)
      BY <1>1, <1>3, <2>4 DEF IsRun
    <3> QED  BY <1>1, <1>3, <1>10, <2>1, <3>1, SMTT(60)
  <2> QED  BY <1>11, <2>2, <2>3, <2>4
<1> QED  BY <1>1, <1>3, <1>4, <1>5, <1>6, <1>10, <1>11, SMTT(60) DEF l

\* The direct map ends where the memory ends (main.rs 690-694).
LEMMA PhysMax ==
  ASSUME MapInv
  PROVE  phys_max = NPAGES
<1> DEFINE E == {(map[k].start + map[k].len) \div PAGE : k \in DOMAIN map}
<1>1. NPAGES \in Nat /\ DOMAIN map = 1 .. Len(map)
  BY BootNumbers, SMTT(60) DEF MapInv
<1>2. \A k \in 1 .. Len(map) : (map[k].start + map[k].len) \div PAGE \in 0 .. NPAGES
  <2> TAKE k \in 1 .. Len(map)
  <2>1. PICK b \in 1 .. NPAGES : map[k].start + map[k].len = PAGE * b
    BY DEF MapInv, InRam
  <2>2. (PAGE * b) \div PAGE = b
    BY Multiple, SMTT(60)
  <2> QED  BY <2>1, <2>2, SMTT(60)
<1>3. PICK k \in 1 .. Len(map) : map[k].start + map[k].len = PAGE * NPAGES
  BY DEF MapInv
<1>4. (PAGE * NPAGES) \div PAGE = NPAGES
  BY <1>1, Multiple, SMTT(60)
<1>5. E \in SUBSET (0 .. NPAGES) /\ NPAGES \in E
  BY <1>1, <1>2, <1>3, <1>4
<1>6. phys_max = Max(E)
  BY DEF phys_max
<1> HIDE DEF E
<1>7. Max(E) \in E /\ \A y \in E : y <= Max(E)
  <2>1. E # {}
    BY <1>5
  <2> QED  BY <1>1, <1>5, <2>1, MaxIn
<1>8. Max(E) \in 0 .. NPAGES /\ NPAGES <= Max(E)
  BY <1>5, <1>7
<1> QED  BY <1>1, <1>6, <1>8, SMTT(60)

\* What is behind each address when the kernel starts.
LEMMA SpaceIs ==
  ASSUME OwnersInv, MapInv, phase = "reserved", NEW va \in VA
  PROVE  pml4[va] = IF K_VIRT <= va /\ va < K_VIRT + K_PAGES THEN load_base + (va - K_VIRT)
                    ELSE IF 1 <= va /\ va < ident_hi THEN va
                    ELSE IF HHDM_BASE <= va /\ va < HHDM_BASE + NPAGES THEN va - HHDM_BASE
                    ELSE Unmapped
<1> DEFINE hi == K_VIRT + K_PAGES
<1>1. K_VIRT \in Nat /\ hi \in Nat /\ K_VIRT < hi /\ hi <= HHDM_BASE
  BY ImageSize, SMTT(60)
<1>2. load_base \in Nat /\ ident_hi \in Nat /\ ident_hi <= HHDM_BASE /\ PG_1G <= ident_hi
  BY IdentEnd
<1>3. PG_2M <= PG_1G
  <2> DEFINE d == PG_1G \div PG_2M
  <2>1. d \in Int /\ PG_1G = PG_2M * d
    BY DivMod, SMTT(60)
  <2> HIDE DEF d
  <2>2. d >= 1
    BY <2>1, SMTT(60)
  <2> QED  BY <2>1, <2>2, SMTT(60)
<1>4. PG_2M <= ident_hi /\ NPAGES \in Nat
  BY <1>2, <1>3, BootNumbers, SMTT(60)
<1>5. pml4 = build_pagetables_exec(load_base, K_VIRT, hi, ident_hi, NPAGES)
  BY PhysMax DEF pml4
<1> HIDE DEF hi
<1>6. build_pagetables_exec(load_base, K_VIRT, hi, ident_hi, NPAGES)[va]
        = IF K_VIRT <= va /\ va < hi THEN load_base + (va - K_VIRT)
          ELSE IF 1 <= va /\ va < ident_hi THEN va
          ELSE IF HHDM_BASE <= va /\ va < HHDM_BASE + NPAGES THEN va - HHDM_BASE
          ELSE Unmapped
  BY <1>1, <1>2, <1>4, AddressSpace, SMTT(60)
<1> QED  BY <1>5, <1>6 DEF hi

\* The identity map reaches what the kernel uses there.
LEMMA IdentityOk ==
  ASSUME OwnersInv, MapInv
  PROVE  IdentityReach
<1> SUFFICES ASSUME phase = "reserved",
                    NEW p \in {q \in Page : owner[q] \in {"stack", "heap", "memmap"}}
                       \cup (load_base .. (load_base + K_PAGES - 1)) \cup (NPAGES .. (fb_end - 1))
                       \cup AP_PAGES \cup {IO_APIC, LAPIC},
                    p \notin Window
             PROVE  pml4[p] = p
  BY DEF IdentityReach
<1>1. /\ NPAGES \in Nat /\ NPAGES > 0 /\ LOW \in Nat /\ 1 <= LOW /\ AP_PAGES \subseteq 1 .. (LOW - 1)
      /\ K_PAGES \in Nat /\ K_VIRT \in Nat /\ HHDM_BASE < VTOP
  BY BootNumbers, ImageSize
<1>2. /\ ident_hi \in Nat /\ ident_hi <= HHDM_BASE
      /\ \A q \in Page : owner[q] \in {"stack", "heap", "memmap"} => LOW <= q /\ q < ident_hi
      /\ load_base \in Nat /\ LOW <= load_base /\ load_base + K_PAGES <= ident_hi
      /\ fb_end <= ident_hi /\ fb_end \in Nat /\ IO_APIC < ident_hi /\ LAPIC < ident_hi
      /\ LOW < ident_hi
  BY IdentEnd
<1>3. p \in Nat /\ 1 <= p /\ p < ident_hi
  <2>1. CASE p \in Page /\ owner[p] \in {"stack", "heap", "memmap"}
    BY <1>1, <1>2, <2>1, SMTT(60) DEF Page
  <2>2. CASE p \in load_base .. (load_base + K_PAGES - 1)
    BY <1>1, <1>2, <2>2, SMTT(60)
  <2>3. CASE p \in NPAGES .. (fb_end - 1)
    BY <1>1, <1>2, <2>3, SMTT(60)
  <2>4. CASE p \in AP_PAGES
    <3>1. p \in 1 .. (LOW - 1)
      BY <1>1, <2>4
    <3> QED  BY <1>1, <1>2, <3>1, SMTT(60)
  <2>5. CASE p \in {IO_APIC, LAPIC}
    BY <1>1, <1>2, <2>5, SMTT(60) DEF IO_APIC, LAPIC
  <2> QED  BY <2>1, <2>2, <2>3, <2>4, <2>5
<1>4. p \in VA /\ ~(K_VIRT <= p /\ p < K_VIRT + K_PAGES)
  BY <1>1, <1>2, <1>3, SMTT(60) DEF VA, Window
<1> QED  BY <1>3, <1>4, SpaceIs

\* The direct map reaches all of the memory.
LEMMA HhdmOk ==
  ASSUME OwnersInv, MapInv
  PROVE  HhdmReach
<1> SUFFICES ASSUME phase = "reserved", NEW p \in Page
             PROVE  pml4[HHDM_BASE + p] = p
  BY DEF HhdmReach
<1> DEFINE va == HHDM_BASE + p
<1>1. /\ NPAGES \in Nat /\ VTOP = HHDM_BASE + NPAGES /\ K_PAGES \in Nat /\ K_VIRT \in Nat
      /\ K_VIRT + K_PAGES <= HHDM_BASE /\ ident_hi \in Nat /\ ident_hi <= HHDM_BASE
  BY BootNumbers, ImageSize, IdentEnd
<1>2. /\ va \in VA /\ HHDM_BASE <= va /\ va < HHDM_BASE + NPAGES /\ va - HHDM_BASE = p
      /\ ~(va < K_VIRT + K_PAGES) /\ ~(va < ident_hi)
  BY <1>1, SMTT(60) DEF Page, VA
<1> HIDE DEF va
<1>3. pml4[va] = p
  BY <1>2, SpaceIs
<1> QED  BY <1>3 DEF va

-----------------------------------------------------------------------------
(* The table of reserved ranges *)

\* One list behind another, and the second element behind the first list.
LEMMA Joined ==
  ASSUME NEW T, NEW a \in Seq(T), NEW b \in Seq(T)
  PROVE  /\ a \o b \in Seq(T) /\ Len(a \o b) = Len(a) + Len(b)
         /\ 2 \in 1 .. Len(b) => (a \o b)[Len(a) + 2] = b[2]
<1>1. a \o b \in Seq(T) /\ Len(a \o b) = Len(a) + Len(b)
  BY SMTT(60)
<1>2. \A k \in 1 .. Len(b) : (a \o b)[Len(a) + k] = b[k]
  BY SMTT(60)
<1> QED  BY <1>1, <1>2

Spans == [start : Nat, len : Nat]

\* When there is room for it, the table has the range below the low pool.
LowReserved ==
  Len(FirmwareSpans) + 2 <= MAX_RESV =>
    \E i \in 1 .. Len(RESV) : RESV[i].start = 0 /\ low32_lo <= RESV[i].end

\* The regions that are not usable, as ranges.
LEMMA FirmwareSpansOk ==
  ASSUME MapInv
  PROVE  FirmwareSpans \in Seq(Spans)
<1> DEFINE I == {k \in DOMAIN map : /\ map[k].typ # 1
                                    /\ \/ map[k].start + map[k].len <= low32_lo
                                       \/ map[k].start >= low32_hi}
           kept == Kept(map, I)
<1>1. map \in Seq(Region) /\ I \in SUBSET (1 .. Len(map))
  BY SMTT(60) DEF MapInv
<1>2. FirmwareSpans = [k \in DOMAIN kept |-> Span(kept[k].start, kept[k].len)]
  BY DEF FirmwareSpans
<1> HIDE DEF I
<1>3. kept \in Seq(Region)
  BY <1>1, KeptPart
<1> HIDE DEF kept
<1>4. \A k \in 1 .. Len(kept) : Span(kept[k].start, kept[k].len) \in Spans
  <2> TAKE k \in 1 .. Len(kept)
  <2>1. kept[k] \in Region
    BY <1>3, SMTT(60)
  <2>2. kept[k].start \in Nat /\ kept[k].len \in Nat
    BY <2>1 DEF Region
  <2> QED  BY <2>2 DEF Span, Spans
<1> QED  BY <1>2, <1>3, <1>4, SMTT(60)

\* reserved::init: what is in the table are ranges, and the one below the low
\* pool is among them as long as the map leaves it room (reserved.rs 46-62, 116).
LEMMA ReservedOk ==
  ASSUME OwnersInv, MapInv, phase = "reserved"
  PROVE  /\ reserve_range(Reservations) \in Seq(Resv)
         /\ Len(FirmwareSpans) + 2 <= MAX_RESV =>
              \E i \in 1 .. Len(reserve_range(Reservations)) :
                /\ reserve_range(Reservations)[i].start = 0
                /\ low32_lo <= reserve_range(Reservations)[i].end
<1> DEFINE F == FirmwareSpans
           t == << Span(TOP, FB_LEN), Span(0, low32_lo), Span(heap_hi, HEAP_GUARD),
                   Span(TRAMP_PAGE * PAGE, PAGE), Span(LAPIC * PAGE, PAGE),
                   Span(IO_APIC * PAGE, PAGE), Span(load_base * PAGE, K_SIZE) >>
           asked == F \o t
           I == {k \in DOMAIN asked : asked[k].len # 0}
           full == Kept(asked, I)
           m == Min({Len(full), MAX_RESV})
           entry(k) == [start |-> align_down(full[k].start),
                        end   |-> align_up(full[k].start + full[k].len)]
<1>1. reserve_range(Reservations) = [k \in 1 .. m |-> entry(k)]
  BY DEF reserve_range, Reservations
<1>2. F \in Seq(Spans) /\ Len(F) \in Nat
  BY FirmwareSpansOk, SMTT(60)
<1>3. low32_lo \in Nat /\ low32_lo > 0 /\ heap_hi \in Nat /\ load_base \in Nat
  <2>1. /\ {"low32", "heap"} \subseteq Whats /\ Num(phase) >= Num("reserved")
        /\ Size("heap") \in Nat
    BY Sizes, SMTT(60) DEF Whats, Num
  <2>2. PICK p \in LOW .. (NPAGES - Size("low32")) : IsRun("low32", p)
    BY <2>1, AllPlaced
  <2>3. PICK h \in LOW .. (NPAGES - Size("heap")) : IsRun("heap", h)
    BY <2>1, AllPlaced
  <2>4. PageOf("low32") = p /\ p \in Nat /\ LOW <= p /\ PageOf("heap") = h /\ h \in Nat
    BY <2>1, <2>2, <2>3, RunStart
  <2>5. PAGE * p \in Nat /\ PAGE * p > 0
    <3>1. ~(PAGE * p <= PAGE * 0)
      BY <2>4, BootNumbers, PageOrder, SMTT(60)
    <3> QED  BY <2>4, <3>1, SMTT(60)
  <2>6. PAGE * h + PAGE * Size("heap") \in Nat
    BY <2>1, <2>4, SMTT(60)
  <2> QED  BY <2>4, <2>5, <2>6, IdentEnd DEF low32_lo, heap_hi, heap_lo, StartOf
<1>4. t \in Seq(Spans) /\ Len(t) = 7 /\ t[2] = Span(0, low32_lo)
  <2>1. /\ TRAMP_PAGE * PAGE \in Nat /\ IO_APIC * PAGE \in Nat /\ LAPIC * PAGE \in Nat
        /\ load_base * PAGE \in Nat /\ FB_LEN \in Nat /\ HEAP_GUARD \in Nat /\ K_SIZE \in Nat
    BY <1>3, BootNumbers, SMTT(60) DEF IO_APIC, LAPIC
  <2>2. \A a, l \in Nat : Span(a, l) \in Spans
    BY DEF Span, Spans
  <2> HIDE DEF t
  <2> QED  BY <1>3, <2>1, <2>2, SMTT(60) DEF t
<1> HIDE DEF F, t
<1> DEFINE c == Len(F) + 2
<1>5. /\ asked \in Seq(Spans) /\ Len(asked) = Len(F) + 7
      /\ c \in 1 .. Len(asked) /\ asked[c] = Span(0, low32_lo)
  <2>1. asked \in Seq(Spans) /\ Len(asked) = Len(F) + Len(t)
    BY <1>2, <1>4, Joined
  <2>2. asked[Len(F) + 2] = t[2]
    <3>1. 2 \in 1 .. Len(t)
      BY <1>4, SMTT(60)
    <3> QED  BY <1>2, <1>4, <3>1, Joined
  <2> HIDE DEF asked
  <2> QED  BY <1>2, <1>4, <2>1, <2>2, SMTT(60)
<1> HIDE DEF asked
<1>6. I \in SUBSET (1 .. Len(asked)) /\ c \in I
  <2>1. asked[c].len = low32_lo
    BY <1>5, SMTT(60) DEF Span
  <2> QED  BY <1>3, <1>5, <2>1, SMTT(60)
<1> HIDE DEF I, c
<1> DEFINE n == Cardinality(I)
<1>7. /\ IsFiniteSet(I) /\ n \in Nat /\ full \in Seq(Spans) /\ Len(full) = n
      /\ \A k \in 1 .. n : Nth(I, k) \in I /\ full[k] = asked[Nth(I, k)]
  BY <1>5, <1>6, KeptPart
<1> HIDE DEF n, full
<1>8. m \in Nat /\ m <= n /\ m <= MAX_RESV /\ (m = n \/ m = MAX_RESV)
  BY <1>7, BootNumbers, MinOfTwo, SMTT(60)
<1> HIDE DEF m
<1>9. \A k \in 1 .. m : entry(k) \in Resv
  <2> TAKE k \in 1 .. m
  <2>1. full[k] \in Spans
    BY <1>7, <1>8, SMTT(60)
  <2>2. full[k].start \in Nat /\ full[k].start + full[k].len \in Nat
    BY <2>1, SMTT(60) DEF Spans
  <2>3. align_down(full[k].start) \in Nat /\ align_up(full[k].start + full[k].len) \in Nat
    BY <2>2, Rounded
  <2> QED  BY <2>3 DEF Resv
<1>10. reserve_range(Reservations) \in Seq(Resv) /\ Len(reserve_range(Reservations)) = m
  BY <1>1, <1>8, <1>9, SMTT(60)
<1>11. ASSUME Len(F) + 2 <= MAX_RESV
       PROVE  \E i \in 1 .. m : entry(i).start = 0 /\ low32_lo <= entry(i).end
  <2> DEFINE B == {q \in I : q < c}
             i == Rank(I, c) + 1
  <2>1. I \in SUBSET Nat /\ c \in Nat /\ c = Len(F) + 2
    BY <1>2, <1>6, SMTT(60) DEF c
  <2>2. Rank(I, c) \in 0 .. (n - 1) /\ Nth(I, i) = c
    BY <1>6, <1>7, <2>1, Ranks, NthIs DEF n
  <2>3. Rank(I, c) <= c - 1
    <3>1. B \in SUBSET (1 .. (c - 1))
      <4>1. \A q \in I : q \in Nat /\ 1 <= q
        BY <1>5, <1>6, SMTT(60)
      <4>2. \A q \in B : q \in 1 .. (c - 1)
        BY <2>1, <4>1, SMTT(60)
      <4> HIDE DEF B
      <4> QED  BY <4>2
    <3>2. Rank(I, c) = Cardinality(B)
      BY DEF Rank
    <3>3. IsFiniteSet(1 .. (c - 1)) /\ Cardinality(1 .. (c - 1)) = c - 1
      BY <2>1, FS_Interval, <1>2, SMTT(60)
    <3> HIDE DEF B
    <3>4. Cardinality(B) <= Cardinality(1 .. (c - 1))
      BY <3>1, <3>3, FS_Subset
    <3> QED  BY <3>2, <3>3, <3>4
  <2>4. i \in 1 .. n /\ i <= MAX_RESV
    BY <1>7, <1>11, <2>1, <2>2, <2>3, BootNumbers, SMTT(60)
  <2> HIDE DEF i
  <2>5. i \in 1 .. m
    BY <1>7, <1>8, <2>4, SMTT(60)
  <2>6. full[i] = Span(0, low32_lo)
    BY <1>5, <1>7, <2>2, <2>4
  <2>7. full[i].start = 0 /\ full[i].start + full[i].len = low32_lo
    BY <1>3, <2>6, SMTT(60) DEF Span
  <2>8. align_down(0) = 0 /\ low32_lo <= align_up(low32_lo)
    <3>1. 0 % PAGE = 0
      BY SMTT(60)
    <3> QED  BY <1>3, <3>1, Rounded
  <2>9. entry(i).start = 0 /\ low32_lo <= entry(i).end
    BY <2>7, <2>8
  <2> HIDE DEF entry
  <2> QED  BY <2>5, <2>9
<1> HIDE DEF entry
<1>12. \A i \in 1 .. m : reserve_range(Reservations)[i] = entry(i)
  BY <1>1
<1>13. Len(F) + 2 <= MAX_RESV =>
         \E i \in 1 .. Len(reserve_range(Reservations)) :
           /\ reserve_range(Reservations)[i].start = 0
           /\ low32_lo <= reserve_range(Reservations)[i].end
  BY <1>10, <1>11, <1>12
<1> QED  BY <1>10, <1>13 DEF F

-----------------------------------------------------------------------------
(* The pools *)

HeapPool == [next |-> heap_lo, end |-> heap_hi]
LowPool  == [next |-> low32_lo, end |-> low32_hi]

\* The bytes the kernel may hand out: of its pools, and of what the map called
\* usable.
Ours ==
  {x \in 0 .. TOP : \E p \in Page :
     PAGE * p <= x /\ x < PAGE * (p + 1) /\ owner[p] \in Late \cup {"heap", "low32"}}

\* A byte of a run of pages is in one of them.
LEMMA InPage ==
  ASSUME NEW x \in Nat, NEW a \in Nat, NEW b \in Nat, PAGE * a <= x, x < PAGE * b
  PROVE  \E p \in a .. (b - 1) : PAGE * p <= x /\ x < PAGE * (p + 1)
<1> DEFINE p == x \div PAGE
<1>1. p \in Int /\ x % PAGE \in 0 .. (PAGE - 1) /\ x = PAGE * p + (x % PAGE)
  BY DivMod, SMTT(60)
<1> HIDE DEF p
<1>2. PAGE * (p + 1) = PAGE * p + PAGE /\ PAGE * p <= x /\ x < PAGE * (p + 1)
  BY <1>1, SMTT(60)
<1>3. a <= p
  <2>1. ~(PAGE * (p + 1) <= PAGE * a)
    BY <1>1, <1>2, SMTT(60)
  <2>2. ~(p + 1 <= a)
    BY <1>1, <2>1, PageOrder, SMTT(60)
  <2> QED  BY <1>1, <2>2, SMTT(60)
<1>4. p < b
  <2>1. ~(PAGE * b <= PAGE * p)
    BY <1>1, <1>2, SMTT(60)
  <2>2. ~(b <= p)
    BY <1>1, <2>1, PageOrder, SMTT(60)
  <2> QED  BY <1>1, <2>2, SMTT(60)
<1>5. p \in a .. (b - 1)
  BY <1>1, <1>3, <1>4, SMTT(60)
<1> QED  BY <1>2, <1>5

\* Two runs of pages that share no page share no byte.
LEMMA RunsApart ==
  ASSUME NEW a \in Nat, NEW b \in Nat, NEW c \in Nat, NEW d \in Nat, a < b, c < d,
         \A q \in a .. (b - 1) : ~(q \in c .. (d - 1))
  PROVE  PAGE * b <= PAGE * c \/ PAGE * d <= PAGE * a
<1>1. b <= c \/ d <= a
  <2>1. a \in a .. (b - 1) /\ (c \in a .. (b - 1) => ~(c \in c .. (d - 1)))
    BY SMTT(60)
  <2> QED  BY <2>1, SMTT(60)
<1> QED  BY <1>1, PageOrder, SMTT(60)

\* The early heap and the low pool, in pages.
LEMMA PoolPages ==
  ASSUME OwnersInv, Num(phase) >= Num("reserved")
  PROVE  \E h, l \in Page :
           /\ IsRun("heap", h) /\ IsRun("low32", l)
           /\ h + HEAP_PAGES <= NPAGES /\ LOW <= l
           /\ heap_lo = PAGE * h /\ heap_hi = PAGE * (h + HEAP_PAGES)
           /\ low32_lo = PAGE * l /\ low32_hi = PAGE * (l + 1)
<1>1. {"low32", "heap"} \subseteq Whats
  BY DEF Whats
<1>2. PICK h \in LOW .. (NPAGES - Size("heap")) : IsRun("heap", h)
  BY <1>1, AllPlaced
<1>3. PICK l \in LOW .. (NPAGES - Size("low32")) : IsRun("low32", l)
  BY <1>1, AllPlaced
<1>4. /\ PageOf("heap") = h /\ h \in Page /\ h \in Nat /\ h + Size("heap") <= NPAGES
      /\ PageOf("low32") = l /\ l \in Page /\ l \in Nat /\ LOW <= l
  BY <1>1, <1>2, <1>3, RunStart
<1>5. Size("heap") = HEAP_PAGES /\ Size("low32") = 1 /\ HEAP_PAGES \in Nat
  BY Sizes, BootNumbers
<1>6. /\ PAGE * h + PAGE * HEAP_PAGES = PAGE * (h + HEAP_PAGES)
      /\ PAGE * l + PAGE * 1 = PAGE * (l + 1)
  BY <1>4, <1>5, SMTT(60)
<1>7. /\ heap_lo = PAGE * h /\ heap_hi = PAGE * (h + HEAP_PAGES)
      /\ low32_lo = PAGE * l /\ low32_hi = PAGE * (l + 1)
  BY <1>4, <1>5, <1>6 DEF heap_lo, heap_hi, low32_lo, low32_hi, StartOf
<1> QED  BY <1>2, <1>3, <1>4, <1>5, <1>7

\* mem::init: the pools are exactly the loader's pages (mem/mod.rs 67-88).
LEMMA MemInitOk ==
  ASSUME OwnersInv, phase = "pools", mem_init
  PROVE  FRAME_ALLOC' = HeapPool /\ LOW32_ALLOC' = LowPool
<1>1. PICK h, l \in Page :
           /\ heap_lo = PAGE * h /\ heap_hi = PAGE * (h + HEAP_PAGES)
           /\ low32_lo = PAGE * l /\ low32_hi = PAGE * (l + 1)
  <2>1. Num(phase) >= Num("reserved")
    BY SMTT(60) DEF Num
  <2> QED  BY <2>1, PoolPages
<1>2. h \in Nat /\ l \in Nat /\ HEAP_PAGES \in Nat
  BY BootNumbers, SMTT(60) DEF Page
<1>3. \A n \in Nat : PAGE * n \in Nat /\ (PAGE * n) % PAGE = 0
  <2> TAKE n \in Nat
  <2>1. (PAGE * n) % PAGE = 0
    BY Multiple, SMTT(60)
  <2> QED  BY <2>1, SMTT(60)
<1>4. \A n \in Nat : align_down(PAGE * n) = PAGE * n /\ align_up(PAGE * n) = PAGE * n
  <2> TAKE n \in Nat
  <2> DEFINE x == PAGE * n
  <2>1. x \in Nat /\ x % PAGE = 0
    BY <1>3
  <2> HIDE DEF x
  <2>2. align_down(x) = x /\ align_up(x) = x
    BY <2>1, Rounded
  <2> QED  BY <2>2 DEF x
<1>5. /\ align_down(heap_lo) = heap_lo /\ align_up(heap_hi) = heap_hi
      /\ align_down(low32_lo) = low32_lo /\ align_up(low32_hi) = low32_hi
  <2>1. h + HEAP_PAGES \in Nat /\ l + 1 \in Nat
    BY <1>2, SMTT(60)
  <2>2. /\ align_down(PAGE * h) = PAGE * h /\ align_down(PAGE * l) = PAGE * l
        /\ align_up(PAGE * (h + HEAP_PAGES)) = PAGE * (h + HEAP_PAGES)
        /\ align_up(PAGE * (l + 1)) = PAGE * (l + 1)
    BY <1>2, <1>4, <2>1
  <2> QED  BY <1>1, <2>2
<1>6. ~(low32_hi - low32_lo < PAGE)
  BY <1>1, <1>2, SMTT(60)
<1> QED  BY <1>5, <1>6 DEF mem_init, HeapPool, LowPool

\* A usable range of the kernel: a run of the map's usable pages.
UsableRun(u) ==
  \E a \in Page, b \in 1 .. NPAGES :
    /\ a < b /\ u = [next |-> PAGE * a, end |-> PAGE * b]
    /\ \A q \in a .. (b - 1) : owner[q] \in Late

\* Two usable ranges are of different regions of the map.
LEMMA UsableOk ==
  ASSUME OwnersInv, MapInv, seed_usable_from_mmap
  PROVE  /\ USABLE' \in Seq(Pools)
         /\ \A k \in 1 .. Len(USABLE') : UsableRun(USABLE'[k])
         /\ \A j, k \in 1 .. Len(USABLE') : j # k => Apart(USABLE'[j], USABLE'[k])
<1> DEFINE inner(mr) == [next |-> align_up(mr.start), end |-> align_down(mr.start + mr.len)]
           I == {k \in DOMAIN map : map[k].typ = 1 /\ inner(map[k]).next < inner(map[k]).end}
           usable == Kept(map, I)
           m == Min({Len(usable), MAX_USABLE})
           n == Cardinality(I)
<1>1. USABLE' = [k \in 1 .. m |-> inner(usable[k])]
  BY DEF seed_usable_from_mmap
<1>2. map \in Seq(Region) /\ I \in SUBSET (1 .. Len(map)) /\ \A i \in I : map[i].typ = 1
  BY SMTT(60) DEF MapInv
<1> HIDE DEF I
<1>3. /\ n \in Nat /\ usable \in Seq(Region) /\ Len(usable) = n
      /\ \A k \in 1 .. n : Nth(I, k) \in I /\ usable[k] = map[Nth(I, k)]
      /\ \A j, k \in 1 .. n : j # k => Nth(I, j) # Nth(I, k)
  BY <1>2, KeptPart
<1> HIDE DEF usable, n
<1>4. m \in Nat /\ m <= n
  BY <1>3, BootNumbers, MinOfTwo, SMTT(60)
<1> HIDE DEF m
<1>5. ASSUME NEW i \in I
      PROVE  /\ inner(map[i]) = [next |-> map[i].start, end |-> map[i].start + map[i].len]
             /\ UsableRun(inner(map[i])) /\ inner(map[i]) \in Pools
  <2>1. PICK a \in Page, b \in 1 .. NPAGES :
          /\ a < b /\ map[i].start = PAGE * a /\ map[i].start + map[i].len = PAGE * b
          /\ \A q \in a .. (b - 1) : owner[q] \in Late
    BY <1>2 DEF MapInv, InRam
  <2>2. a \in Nat /\ b \in Nat /\ NPAGES \in Nat /\ b <= NPAGES /\ TOP = PAGE * NPAGES
    BY BootNumbers, SMTT(60) DEF Page
  <2>3. PAGE * a \in Nat /\ PAGE * b \in Nat /\ (PAGE * a) % PAGE = 0 /\ (PAGE * b) % PAGE = 0
    BY <2>2, Multiple, SMTT(60)
  <2>4. align_up(PAGE * a) = PAGE * a /\ align_down(PAGE * b) = PAGE * b
    BY <2>3, Rounded
  <2>5. inner(map[i]) = [next |-> PAGE * a, end |-> PAGE * b]
    BY <2>1, <2>4
  <2>6. PAGE * b <= TOP /\ PAGE * a <= PAGE * b
    BY <2>1, <2>2, PageOrder, SMTT(60)
  <2>7. [next |-> PAGE * a, end |-> PAGE * b] \in Pools
    BY <2>3, <2>6, SMTT(60) DEF Pools
  <2> HIDE DEF inner
  <2>8. UsableRun(inner(map[i]))
    BY <2>1, <2>5 DEF UsableRun
  <2> QED  BY <2>1, <2>5, <2>7, <2>8
<1> HIDE DEF inner
<1>6. \A k \in 1 .. m : /\ k \in 1 .. n /\ Nth(I, k) \in I
                        /\ USABLE'[k] = inner(map[Nth(I, k)])
  BY <1>1, <1>3, <1>4, SMTT(60)
<1>7. USABLE' \in Seq(Pools) /\ Len(USABLE') = m
  <2>1. \A k \in 1 .. m : inner(usable[k]) \in Pools
    BY <1>3, <1>5, <1>6
  <2> QED  BY <1>1, <1>4, <2>1, SMTT(60)
<1>8. \A k \in 1 .. m : UsableRun(USABLE'[k])
  BY <1>5, <1>6
<1>9. ASSUME NEW j \in 1 .. m, NEW k \in 1 .. m, j # k
      PROVE  Apart(USABLE'[j], USABLE'[k])
  <2> DEFINE x == Nth(I, j)
             y == Nth(I, k)
  <2>1. /\ x \in I /\ y \in I /\ x # y
        /\ USABLE'[j] = inner(map[x]) /\ USABLE'[k] = inner(map[y])
    BY <1>3, <1>6, <1>9
  <2> HIDE DEF x, y
  <2>2. \/ map[x].start + map[x].len <= map[y].start
        \/ map[y].start + map[y].len <= map[x].start
    BY <1>2, <2>1 DEF MapInv
  <2>3. /\ USABLE'[j].next = map[x].start /\ USABLE'[j].end = map[x].start + map[x].len
        /\ USABLE'[k].next = map[y].start /\ USABLE'[k].end = map[y].start + map[y].len
    <3>1. /\ USABLE'[j] = [next |-> map[x].start, end |-> map[x].start + map[x].len]
          /\ USABLE'[k] = [next |-> map[y].start, end |-> map[y].start + map[y].len]
      BY <1>5, <2>1
    <3> QED  BY <3>1, SMTT(60)
  <2> QED  BY <2>2, <2>3 DEF Apart
<1> QED  BY <1>7, <1>8, <1>9

\* The pools with which the kernel starts share no byte, and are of the pages that
\* it may hand out.
LEMMA PoolsStart ==
  ASSUME OwnersInv, MapInv, phase = "usable", seed_usable_from_mmap,
         FRAME_ALLOC = HeapPool, LOW32_ALLOC = LowPool, RESV \in Seq(Resv), given = << >>
  PROVE  FrameIInv' /\ InPools(Ours)'
<1>0. /\ FRAME_ALLOC' = HeapPool /\ LOW32_ALLOC' = LowPool /\ RESV' = RESV
      /\ given' = << >> /\ owner' = owner
  BY DEF seed_usable_from_mmap
<1>1. PICK h, l \in Page :
        /\ IsRun("heap", h) /\ IsRun("low32", l)
        /\ h + HEAP_PAGES <= NPAGES /\ LOW <= l
        /\ heap_lo = PAGE * h /\ heap_hi = PAGE * (h + HEAP_PAGES)
        /\ low32_lo = PAGE * l /\ low32_hi = PAGE * (l + 1)
  <2>1. Num(phase) >= Num("reserved")
    BY SMTT(60) DEF Num
  <2> QED  BY <2>1, PoolPages
<1>2. /\ h \in Nat /\ l \in Nat /\ NPAGES \in Nat /\ l + 1 <= NPAGES /\ HEAP_PAGES \in Nat \ {0}
      /\ TOP = PAGE * NPAGES /\ Size("heap") = HEAP_PAGES /\ Size("low32") = 1
  BY BootNumbers, Sizes, SMTT(60) DEF Page
<1> DEFINE g == h + HEAP_PAGES
           k == l + 1
<1>3. \A q \in h .. (g - 1) : q \in Page /\ owner[q] = "heap"
  BY <1>1, <1>2, SMTT(60) DEF IsRun, Page
<1>4. /\ FRAME_ALLOC' = [next |-> PAGE * h, end |-> PAGE * g]
      /\ LOW32_ALLOC' = [next |-> PAGE * l, end |-> PAGE * k]
      /\ g \in Nat /\ k \in Nat /\ h < g /\ l < k /\ g <= NPAGES /\ k <= NPAGES
  BY <1>0, <1>1, <1>2, SMTT(60) DEF HeapPool, LowPool
<1>5. \A q \in l .. (k - 1) : q \in Page /\ owner[q] = "low32"
  BY <1>1, <1>2, SMTT(60) DEF IsRun, Page
<1> HIDE DEF g, k
<1>6. \A a, b \in Nat : a < b /\ b <= NPAGES =>
         [next |-> PAGE * a, end |-> PAGE * b] \in Pools
  <2> TAKE a, b \in Nat
  <2> HAVE a < b /\ b <= NPAGES
  <2>1. PAGE * a <= TOP /\ PAGE * b <= TOP /\ PAGE * a \in Nat /\ PAGE * b \in Nat
    BY <1>2, PageOrder, SMTT(60)
  <2> QED  BY <2>1, SMTT(60) DEF Pools
<1>7. FRAME_ALLOC' \in Pools /\ LOW32_ALLOC' \in Pools
  <2>1. FRAME_ALLOC' \in Pools
    BY <1>2, <1>4, <1>6
  <2>2. LOW32_ALLOC' \in Pools
    BY <1>2, <1>4, <1>6
  <2> QED  BY <2>1, <2>2
<1>8. Apart(FRAME_ALLOC', LOW32_ALLOC')
  <2>1. \A q \in h .. (g - 1) : ~(q \in l .. (k - 1))
    BY <1>3, <1>5
  <2>2. PAGE * g <= PAGE * l \/ PAGE * k <= PAGE * h
    BY <1>2, <1>4, <2>1, RunsApart
  <2> QED  BY <1>4, <2>2 DEF Apart
<1>9. /\ USABLE' \in Seq(Pools)
      /\ \A i \in 1 .. Len(USABLE') : UsableRun(USABLE'[i])
      /\ \A i, j \in 1 .. Len(USABLE') : i # j => Apart(USABLE'[i], USABLE'[j])
  BY UsableOk
<1>10. ASSUME NEW i \in 1 .. Len(USABLE')
       PROVE  Apart(USABLE'[i], FRAME_ALLOC') /\ Apart(USABLE'[i], LOW32_ALLOC')
  <2>1. PICK a \in Page, b \in 1 .. NPAGES :
          /\ a < b /\ USABLE'[i] = [next |-> PAGE * a, end |-> PAGE * b]
          /\ \A q \in a .. (b - 1) : owner[q] \in Late
    BY <1>9 DEF UsableRun
  <2>2. a \in Nat /\ b \in Nat
    BY <1>2, SMTT(60) DEF Page
  <2>3. /\ \A q \in a .. (b - 1) : ~(q \in h .. (g - 1))
        /\ \A q \in a .. (b - 1) : ~(q \in l .. (k - 1))
    BY <1>3, <1>5, <2>1 DEF Late
  <2>4. PAGE * b <= PAGE * h \/ PAGE * g <= PAGE * a
    BY <1>2, <1>4, <2>1, <2>2, <2>3, RunsApart
  <2>5. PAGE * b <= PAGE * l \/ PAGE * k <= PAGE * a
    BY <1>2, <1>4, <2>1, <2>2, <2>3, RunsApart
  <2> QED  BY <1>4, <2>1, <2>4, <2>5, SMTT(60) DEF Apart
<1>11. DOMAIN USABLE' = 1 .. Len(USABLE')
  BY <1>9, SMTT(60)
<1>12. PoolsApart'
  BY <1>8, <1>9, <1>10, <1>11 DEF PoolsApart
<1>13. FrameIInv'
  <2>1. DOMAIN given' = {} /\ given' \in Seq(0 .. TOP)
    BY <1>0, SMTT(60)
  <2> QED  BY <1>0, <1>7, <1>9, <1>12, <2>1
           DEF FrameIInv, FrameTypeOK, NoFrameTwice, NothingReturns, NeverReserved
<1>14. ASSUME NEW a \in Nat, NEW b \in Nat, NEW x \in 0 .. TOP, b <= NPAGES,
              \A q \in a .. (b - 1) : owner[q] \in Late \cup {"heap", "low32"},
              Covers([next |-> PAGE * a, end |-> PAGE * b], x)
       PROVE  x \in Ours
  <2>1. x \in Nat /\ PAGE * a <= x /\ x < PAGE * b
    BY <1>14, SMTT(60) DEF Covers
  <2>2. PICK p \in a .. (b - 1) : PAGE * p <= x /\ x < PAGE * (p + 1)
    BY <2>1, InPage
  <2>3. p \in Page /\ owner[p] \in Late \cup {"heap", "low32"}
    BY <1>2, <1>14, <2>2, SMTT(60) DEF Page
  <2> QED  BY <2>2, <2>3 DEF Ours
<1>15. Ours' = Ours
  BY <1>0 DEF Ours
<1>16. ASSUME NEW x \in 0 .. TOP
       PROVE  /\ Covers(FRAME_ALLOC', x) \/ Covers(LOW32_ALLOC', x) => x \in Ours
              /\ \A i \in 1 .. Len(USABLE') : Covers(USABLE'[i], x) => x \in Ours
  <2>1. Covers(FRAME_ALLOC', x) => x \in Ours
    BY <1>2, <1>3, <1>4, <1>5, <1>14
  <2>2. Covers(LOW32_ALLOC', x) => x \in Ours
    BY <1>2, <1>3, <1>4, <1>5, <1>14
  <2>3. ASSUME NEW i \in 1 .. Len(USABLE'), Covers(USABLE'[i], x)
        PROVE  x \in Ours
    <3>1. PICK a \in Page, b \in 1 .. NPAGES :
            /\ a < b /\ USABLE'[i] = [next |-> PAGE * a, end |-> PAGE * b]
            /\ \A q \in a .. (b - 1) : owner[q] \in Late
      BY <1>9, <2>3 DEF UsableRun
    <3>2. a \in Nat /\ b \in Nat /\ b <= NPAGES
      BY <1>2, SMTT(60) DEF Page
    <3> QED  BY <1>14, <2>3, <3>1, <3>2
  <2> QED  BY <2>1, <2>2, <2>3
<1>17. Given' = {}
  BY <1>0, SMTT(60) DEF Given
<1> QED  BY <1>13, <1>15, <1>16, <1>17 DEF InPools

-----------------------------------------------------------------------------
(* The inductive invariant *)

\* The pools are made one after the other from the pages the loader left, and the
\* allocators start on them when all are there.
PoolsInv ==
  /\ phase # "run" => USABLE = << >> /\ given = << >>
  /\ phase = "usable" => FRAME_ALLOC = HeapPool /\ LOW32_ALLOC = LowPool
  /\ Done("reserved") => RESV \in Seq(Resv) /\ LowReserved
  /\ phase = "run" => FrameIInv /\ InPools(Ours)

BootIInv ==
  phase \in Phases /\ OwnersInv /\ (Done("snapshot") => MapInv) /\ PoolsInv


\* Every step of the boot goes on to the next one.
LEMMA NextPhase ==
  ASSUME phase \in Phases, phase # "run", phase' = After(phase)
  PROVE  phase' \in Phases /\ Num(phase') = Num(phase) + 1 /\ Num(phase) \in 1 .. 10
BY AfterIs, SMTT(60) DEF Phases, Whats, Num

\* What is done stays done, and only the step taken is done newly.
LEMMA DoneNext ==
  ASSUME phase \in Phases, phase # "run", phase' = After(phase), NEW w \in Phases
  PROVE  Done(w)' <=> Done(w) \/ w = phase
<1>1. Num(phase') = Num(phase) + 1 /\ Num(phase) \in 1 .. 10
  BY NextPhase
<1>2. Num(w) \in 1 .. 11 /\ (Num(w) = Num(phase) <=> w = phase)
  BY SMTT(60) DEF Phases, Whats, Num
<1> QED  BY <1>1, <1>2, SMTT(60) DEF Done

\* A step that allocates nothing leaves every run where it is.
LEMMA OwnersKept ==
  ASSUME OwnersInv, phase \in Phases \ Whats, phase # "run", phase' = After(phase),
         owner' = owner
  PROVE  OwnersInv'
<1>1. \A w \in Whats : Done(w)' <=> Done(w)
  BY DoneNext DEF Phases
<1>2. \A w, p : IsRun(w, p)' <=> IsRun(w, p)
  BY DEF IsRun
<1>3. \A w \in Whats : Placed(w)'
  BY <1>1, <1>2 DEF OwnersInv, Placed
<1> QED  BY <1>3 DEF OwnersInv

\* The loader's allocations keep the invariant (boot::allocate_pages): one takes
\* free pages only, and after the map was copied only pages that the map calls
\* usable are lost to it.
LEMMA AllocateInv ==
  ASSUME BootIInv, NEW what \in Whats, allocate_pages(what)
  PROVE  BootIInv'
<1>1. /\ phase = what /\ phase' = After(phase) /\ map' = map /\ UNCHANGED fvars
      /\ phase \in Phases /\ phase # "run" /\ OwnersInv /\ PoolsInv
      /\ Done("snapshot") => MapInv
  BY DEF allocate_pages, BootIInv, Whats
<1>2. PICK p \in LOW .. (NPAGES - Size(what)) :
        /\ \A q \in p .. (p + Size(what) - 1) : owner[q] = "free"
        /\ owner' = [q \in Page |-> IF q \in p .. (p + Size(what) - 1) THEN what ELSE owner[q]]
  BY DEF allocate_pages
<1> DEFINE run == p .. (p + Size(what) - 1)
<1>3. \A q \in Page : owner'[q] = IF q \in run THEN what ELSE owner[q]
  BY <1>2
<1>4. \A q \in run : owner[q] = "free"
  BY <1>2
<1>5. owner' \in [Page -> Owners]
  BY <1>1, <1>2 DEF OwnersInv, Owners
<1> HIDE DEF run
<1>6. ASSUME NEW w \in Whats
      PROVE  Placed(w)'
  <2>1. Placed(w) /\ (Done(w)' <=> Done(w) \/ w = what)
    BY <1>1, DoneNext DEF OwnersInv, Phases
  <2>2. CASE w = what
    <3>1. ~Done(w)
      BY <1>1, <2>2, SMTT(60) DEF Done, Num, Whats
    <3>2. \A q \in Page : owner[q] # w
      BY <2>1, <3>1 DEF Placed
    <3>3. \A q \in Page : owner'[q] = w <=> q \in run
      BY <1>3, <2>2, <3>2
    <3>4. IsRun(w, p)'
      BY <2>2, <3>3 DEF IsRun, run
    <3> QED  BY <2>1, <2>2, <3>4 DEF Placed
  <2>3. CASE w # what
    <3>1. \A q \in Page : owner'[q] = w <=> owner[q] = w
      <4>1. w # "free"
        BY DEF Whats
      <4> QED  BY <1>3, <1>4, <2>3, <4>1
    <3>2. \A r : IsRun(w, r)' <=> IsRun(w, r)
      BY <3>1 DEF IsRun
    <3> QED  BY <2>1, <2>3, <3>1, <3>2 DEF Placed
  <2> QED  BY <2>2, <2>3
<1>7. OwnersInv'
  BY <1>5, <1>6 DEF OwnersInv
<1>8. ASSUME Done("snapshot")'
      PROVE  MapInv'
  <2>1. Done("snapshot")
    BY <1>1, <1>8, DoneNext DEF Phases, Whats
  <2>2. MapInv /\ what \in Late
    BY <1>1, <2>1, SMTT(60) DEF Done, Num, Whats, Late
  <2>3. ASSUME NEW r, InRam(owner, r)
        PROVE  InRam(owner', r)
    <3>1. PICK a \in Page, b \in 1 .. NPAGES :
            /\ a < b /\ r.start = PAGE * a /\ r.start + r.len = PAGE * b
            /\ r.typ = 1 => \A q \in a .. (b - 1) : owner[q] \in Late
      BY <2>3 DEF InRam
    <3>2. \A q \in a .. (b - 1) : q \in Page
      BY BootNumbers, SMTT(60) DEF Page
    <3>3. r.typ = 1 => \A q \in a .. (b - 1) : owner'[q] \in Late
      BY <1>3, <2>2, <3>1, <3>2
    <3> QED  BY <3>1, <3>3 DEF InRam
  <2> QED  BY <1>1, <2>2, <2>3 DEF MapInv
<1>9. /\ phase' \in Phases /\ phase' # "run" /\ phase' # "usable" /\ ~Done("reserved")'
      /\ USABLE' = << >> /\ given' = << >>
  <2>1. phase' \in Phases /\ phase' # "run" /\ phase' # "usable"
    BY <1>1, AfterIs DEF Whats, Phases
  <2>2. ~Done("reserved")'
    BY <1>1, AfterIs, SMTT(60) DEF Whats, Done, Num
  <2> QED  BY <1>1, <2>1, <2>2 DEF PoolsInv, fvars
<1> QED  BY <1>7, <1>8, <1>9 DEF BootIInv, PoolsInv

\* Copying the map keeps the invariant (build_memory_regions_vec).
LEMMA SnapshotInv ==
  ASSUME BootIInv, Snapshot
  PROVE  BootIInv'
<1>1. /\ phase = "snapshot" /\ phase' = After(phase) /\ owner' = owner /\ UNCHANGED fvars
      /\ phase \in Phases /\ OwnersInv /\ PoolsInv
  BY DEF Snapshot, BootIInv
<1>2. OwnersInv'
  BY <1>1, OwnersKept DEF Whats
<1>3. MapInv'
  <2> DEFINE types == [p \in Page |-> uefi_type_to_kernel(owner[p])]
  <2>1. map' = Descriptors(owner) \/ map' = Descriptors(types)
    BY DEF Snapshot
  <2>2. \A p, q \in Page :
           types[p] = types[q] => uefi_type_to_kernel(owner[p]) = uefi_type_to_kernel(owner[q])
    OBVIOUS
  <2> HIDE DEF types
  <2>3. \A p, q \in Page :
           owner[p] = owner[q] => uefi_type_to_kernel(owner[p]) = uefi_type_to_kernel(owner[q])
    OBVIOUS
  <2>4. CASE map' = Descriptors(owner)
    BY <1>1, <2>3, <2>4, DescriptorsOk
  <2>5. CASE map' = Descriptors(types)
    BY <1>1, <2>2, <2>5, DescriptorsOk
  <2> QED  BY <2>1, <2>4, <2>5
<1>4. /\ phase' = "memmap" /\ USABLE' = << >> /\ given' = << >>
  BY <1>1, AfterIs DEF PoolsInv, fvars
<1> QED  BY <1>2, <1>3, <1>4, SMTT(60) DEF BootIInv, PoolsInv, Phases, Whats, Done, Num

\* What the map and the owners say does not change while they do not.
LEMMA SameMap ==
  ASSUME owner' = owner, map' = map
  PROVE  /\ MapInv' <=> MapInv
         /\ low32_lo' = low32_lo /\ low32_hi' = low32_hi
         /\ heap_lo' = heap_lo /\ heap_hi' = heap_hi
         /\ FirmwareSpans' = FirmwareSpans /\ Ours' = Ours
<1>1. MapInv' <=> MapInv
  BY DEF MapInv
<1>2. /\ low32_lo' = low32_lo /\ low32_hi' = low32_hi
      /\ heap_lo' = heap_lo /\ heap_hi' = heap_hi
  BY DEF low32_lo, low32_hi, heap_lo, heap_hi, StartOf, PageOf
<1>3. FirmwareSpans' = FirmwareSpans
  BY <1>2 DEF FirmwareSpans
<1>4. Ours' = Ours
  BY DEF Ours
<1> QED  BY <1>1, <1>2, <1>3, <1>4

\* Filling the table of reserved ranges keeps the invariant (reserved::init).
LEMMA ReservedInv ==
  ASSUME BootIInv, reserved_init
  PROVE  BootIInv'
<1>1. /\ phase = "reserved" /\ phase' = After(phase) /\ owner' = owner /\ map' = map
      /\ RESV' = reserve_range(Reservations) /\ USABLE' = USABLE /\ given' = given
      /\ phase \in Phases /\ OwnersInv /\ PoolsInv
      /\ Done("snapshot") => MapInv
  BY DEF reserved_init, BootIInv
<1>2. MapInv
  BY <1>1, SMTT(60) DEF Done, Num
<1>3. OwnersInv' /\ MapInv'
  BY <1>1, <1>2, OwnersKept, SameMap DEF Whats
<1>4. /\ phase' = "pools" /\ USABLE' = << >> /\ given' = << >>
  BY <1>1, AfterIs DEF PoolsInv
<1>5. RESV' \in Seq(Resv) /\ LowReserved'
  BY <1>1, <1>2, ReservedOk, SameMap DEF LowReserved
<1> QED  BY <1>3, <1>4, <1>5 DEF BootIInv, PoolsInv, Phases

\* Making the two pools keeps the invariant (mem::init).
LEMMA MemInv ==
  ASSUME BootIInv, mem_init
  PROVE  BootIInv'
<1>1. /\ phase = "pools" /\ phase' = After(phase) /\ owner' = owner /\ map' = map
      /\ RESV' = RESV /\ USABLE' = USABLE /\ given' = given
      /\ phase \in Phases /\ OwnersInv /\ PoolsInv
      /\ Done("snapshot") => MapInv
  BY DEF mem_init, BootIInv
<1>2. MapInv /\ RESV \in Seq(Resv) /\ LowReserved
  BY <1>1, SMTT(60) DEF Done, Num, PoolsInv
<1>3. OwnersInv' /\ MapInv'
  BY <1>1, <1>2, OwnersKept, SameMap DEF Whats
<1>4. /\ phase' = "usable" /\ USABLE' = << >> /\ given' = << >>
  BY <1>1, AfterIs DEF PoolsInv
<1>5. RESV' \in Seq(Resv) /\ LowReserved'
  BY <1>1, <1>2, SameMap DEF LowReserved
<1>6. FRAME_ALLOC' = HeapPool' /\ LOW32_ALLOC' = LowPool'
  BY <1>1, MemInitOk, SameMap DEF HeapPool, LowPool
<1> QED  BY <1>3, <1>4, <1>5, <1>6 DEF BootIInv, PoolsInv, Phases

\* Handing the usable regions to the allocator keeps the invariant
\* (seed_usable_from_mmap).
LEMMA SeedInv ==
  ASSUME BootIInv, seed_usable_from_mmap
  PROVE  BootIInv'
<1>1. /\ phase = "usable" /\ phase' = After(phase) /\ owner' = owner /\ map' = map
      /\ RESV' = RESV
      /\ phase \in Phases /\ OwnersInv /\ PoolsInv
      /\ Done("snapshot") => MapInv
  BY DEF seed_usable_from_mmap, BootIInv
<1>2. /\ MapInv /\ RESV \in Seq(Resv) /\ LowReserved
      /\ FRAME_ALLOC = HeapPool /\ LOW32_ALLOC = LowPool /\ given = << >>
  BY <1>1, SMTT(60) DEF Done, Num, PoolsInv
<1>3. OwnersInv' /\ MapInv'
  BY <1>1, <1>2, OwnersKept, SameMap DEF Whats
<1>4. phase' = "run"
  BY <1>1, AfterIs
<1>5. RESV' \in Seq(Resv) /\ LowReserved'
  BY <1>1, <1>2, SameMap DEF LowReserved
<1>6. FrameIInv' /\ InPools(Ours)'
  BY <1>1, <1>2, PoolsStart
<1> QED  BY <1>3, <1>4, <1>5, <1>6 DEF BootIInv, PoolsInv, Phases

\* So does every allocation of the running kernel.
LEMMA RunningInv ==
  ASSUME BootIInv, Running
  PROVE  BootIInv'
<1>1. /\ phase = "run" /\ phase' = phase /\ owner' = owner /\ map' = map /\ FrameNext
      /\ phase \in Phases /\ OwnersInv /\ PoolsInv
      /\ Done("snapshot") => MapInv
  BY DEF Running, BootIInv
<1>2. /\ MapInv /\ RESV \in Seq(Resv) /\ LowReserved /\ FrameIInv /\ InPools(Ours)
  BY <1>1, SMTT(60) DEF Done, Num, PoolsInv
<1>3. OwnersInv' /\ MapInv'
  <2>1. \A w : Placed(w)' <=> Placed(w)
    BY <1>1 DEF Placed, IsRun, Done
  <2> QED  BY <1>1, <1>2, <2>1, SameMap DEF OwnersInv
<1>4. FrameIInv'
  BY <1>1, <1>2, FrameInv, Low32Inv DEF FrameNext
<1>5. RESV' = RESV
  BY <1>1, <1>2, FromPool DEF Shrinks
<1>6. RESV' \in Seq(Resv) /\ LowReserved'
  BY <1>1, <1>2, <1>5, SameMap DEF LowReserved
<1>7. InPools(Ours)'
  <2>1. Ours' = Ours
    BY <1>1, SameMap
  <2>2. PICK A : A = Ours
    OBVIOUS
  <2>3. InPools(A)
    BY <1>2, <2>2 DEF InPools
  <2>4. /\ \A x \in 0 .. TOP : Covers(FRAME_ALLOC', x) \/ Covers(LOW32_ALLOC', x) => x \in A
        /\ \A x \in 0 .. TOP, i \in 1 .. Len(USABLE') : Covers(USABLE'[i], x) => x \in A
        /\ Given' \subseteq A
    BY <1>1, <1>2, <1>4, <2>3, StayIn DEF InPools
  <2> QED  BY <2>1, <2>2, <2>4 DEF InPools
<1> QED  BY <1>1, <1>3, <1>4, <1>6, <1>7 DEF BootIInv, PoolsInv

\* The invariant holds when the loader starts.
LEMMA BootStarts ==
  ASSUME BootInit
  PROVE  BootIInv
<1>1. /\ phase = "image" /\ USABLE = << >> /\ given = << >>
      /\ owner = [p \in Page |-> IF p \in Firmware THEN "firmware" ELSE "free"]
  BY DEF BootInit
<1>2. owner \in [Page -> Owners] /\ \A q \in Page : owner[q] \in {"firmware", "free"}
  BY <1>1 DEF Owners
<1>3. \A w \in Whats : ~Done(w) /\ w # "firmware" /\ w # "free"
  BY <1>1, SMTT(60) DEF Done, Num, Whats
<1>4. OwnersInv
  BY <1>2, <1>3 DEF OwnersInv, Placed
<1>5. ~Done("snapshot") /\ ~Done("reserved")
  BY <1>1, SMTT(60) DEF Done, Num
<1> QED  BY <1>1, <1>4, <1>5 DEF BootIInv, PoolsInv, Phases, Whats

\* And it is kept where nothing happens.
LEMMA BootStutters ==
  ASSUME BootIInv, UNCHANGED bvars
  PROVE  BootIInv'
<1>1. UNCHANGED <<phase, owner, map, FRAME_ALLOC, LOW32_ALLOC, USABLE, RESV, given>>
  BY DEF bvars, fvars
<1>2. OwnersInv' <=> OwnersInv
  BY <1>1 DEF OwnersInv, Placed, IsRun, Done
<1>3. FrameIInv' <=> FrameIInv
  BY <1>1 DEF FrameIInv, FrameTypeOK, NoFrameTwice, NothingReturns, NeverReserved, PoolsApart
<1>4. InPools(Ours)' <=> InPools(Ours)
  BY <1>1, SameMap DEF InPools, Given
<1>5. LowReserved' <=> LowReserved
  BY <1>1, SameMap DEF LowReserved
<1>6. HeapPool' = HeapPool /\ LowPool' = LowPool
  BY <1>1, SameMap DEF HeapPool, LowPool
<1>7. PoolsInv' <=> PoolsInv
  BY <1>1, <1>3, <1>4, <1>5, <1>6 DEF PoolsInv, Done
<1> QED  BY <1>1, <1>2, <1>7, SameMap DEF BootIInv, Done

-----------------------------------------------------------------------------
(* The theorems *)

\* The frames are of the pages the kernel may hand out, so none is a page of
\* another owner.
LEMMA KeptPages ==
  ASSUME BootIInv
  PROVE  LoaderPagesKept
<1> SUFFICES ASSUME NEW p \in Page, owner[p] \in {"image", "stack", "firmware"},
                    NEW k \in DOMAIN given, given[k] = p * PAGE
             PROVE  FALSE
  BY DEF LoaderPagesKept, GivenPage
<1>1. phase = "run"
  <2>1. given # << >>
    BY SMTT(60)
  <2> QED  BY <2>1 DEF BootIInv, PoolsInv
<1>2. InPools(Ours) /\ FrameTypeOK
  BY <1>1 DEF BootIInv, PoolsInv, FrameIInv
<1>3. p \in Nat /\ p + 1 \in Int /\ given[k] \in 0 .. TOP
  BY <1>2, BootNumbers, SMTT(60) DEF Page, FrameTypeOK
<1>4. given[k] \in Ours
  <2>1. given[k] \in Given
    BY DEF Given
  <2> QED  BY <1>2, <2>1 DEF InPools
<1>5. PICK q \in Page : /\ PAGE * q <= given[k] /\ given[k] < PAGE * (q + 1)
                        /\ owner[q] \in Late \cup {"heap", "low32"}
  BY <1>4 DEF Ours
<1>6. q \in Nat /\ PAGE * q <= PAGE * p /\ ~(PAGE * (q + 1) <= PAGE * p)
  <2>1. q \in Nat
    BY BootNumbers, SMTT(60) DEF Page
  <2>2. PAGE * p = given[k] /\ PAGE * p \in Int /\ PAGE * (q + 1) \in Int
    BY <1>3, <2>1, SMTT(60)
  <2> QED  BY <1>5, <2>1, <2>2, SMTT(60)
<1>7. q <= p /\ ~(q + 1 <= p)
  BY <1>3, <1>6, PageOrder, SMTT(60)
<1>8. q = p
  BY <1>3, <1>6, <1>7, SMTT(60)
<1> QED  BY <1>5, <1>8 DEF Late

\* With its range in the table, no page below the low pool is handed out.
LEMMA KeptTrampoline ==
  ASSUME BootIInv
  PROVE  TrampolineKept
<1> SUFFICES ASSUME Len(FirmwareSpans) + 2 <= MAX_RESV, NEW p \in AP_PAGES,
                    NEW k \in DOMAIN given, given[k] = p * PAGE
             PROVE  FALSE
  BY DEF TrampolineKept, GivenPage
<1>1. phase = "run"
  <2>1. given # << >>
    BY SMTT(60)
  <2> QED  BY <2>1 DEF BootIInv, PoolsInv
<1>2. OwnersInv /\ FrameTypeOK /\ NeverReserved /\ LowReserved
  BY <1>1, SMTT(60) DEF BootIInv, PoolsInv, FrameIInv, Done, Num
<1>3. p \in Nat /\ p < LOW /\ LOW \in Nat
  BY BootNumbers, SMTT(60)
<1>4. PICK i \in 1 .. Len(RESV) : RESV[i].start = 0 /\ low32_lo <= RESV[i].end
  BY <1>2 DEF LowReserved
<1>5. i \in DOMAIN RESV /\ RESV[i].end \in Nat /\ given[k] \in Nat
  <2>1. RESV \in Seq(Resv) /\ given \in Seq(0 .. TOP)
    BY <1>2 DEF FrameTypeOK
  <2>2. i \in DOMAIN RESV /\ RESV[i] \in Resv /\ given[k] \in 0 .. TOP
    BY <1>4, <2>1, SMTT(60)
  <2> QED  BY <2>2, SMTT(60) DEF Resv
<1>6. PICK l \in Page : LOW <= l /\ low32_lo = PAGE * l
  <2>1. Num(phase) >= Num("reserved")
    BY <1>1, SMTT(60) DEF Num
  <2> QED  BY <1>2, <2>1, PoolPages
<1>7. l \in Nat /\ ~(l <= p)
  BY <1>3, <1>6, BootNumbers, SMTT(60) DEF Page
<1>8. ~(PAGE * l <= PAGE * p) /\ PAGE * l \in Int /\ PAGE * p \in Int /\ PAGE * p = given[k]
  BY <1>3, <1>7, PageOrder, SMTT(60)
<1>9. given[k] + PAGE <= 0 \/ RESV[i].end <= given[k]
  BY <1>2, <1>4, <1>5 DEF NeverReserved
<1>10. ~(given[k] + PAGE <= 0)
  BY <1>5, SMTT(60)
<1> QED  BY <1>4, <1>5, <1>6, <1>8, <1>9, <1>10, SMTT(60)

\* Every step of the boot keeps the invariant.
LEMMA BootStep ==
  ASSUME BootIInv, [BootNext]_bvars
  PROVE  BootIInv'
<1>1. CASE UNCHANGED bvars
  BY <1>1, BootStutters
<1>2. CASE \E what \in {"image", "low32", "stack", "heap", "memmap", "tables"} :
             allocate_pages(what)
  BY <1>2, AllocateInv DEF Whats
<1>3. CASE Snapshot
  BY <1>3, SnapshotInv
<1>4. CASE reserved_init
  BY <1>4, ReservedInv
<1>5. CASE mem_init
  BY <1>5, MemInv
<1>6. CASE seed_usable_from_mmap
  BY <1>6, SeedInv
<1>7. CASE Running
  BY <1>7, RunningInv
<1> QED  BY <1>1, <1>2, <1>3, <1>4, <1>5, <1>6, <1>7 DEF BootNext

\* What the running kernel may rely on follows from the invariant.
LEMMA BootSafe ==
  ASSUME BootIInv
  PROVE  /\ Handover /\ LoaderPagesKept /\ TrampolineKept /\ IdentityReach /\ HhdmReach
         /\ NoFrameTwice /\ NeverReserved
<1>1. LoaderPagesKept /\ TrampolineKept
  BY KeptPages, KeptTrampoline
<1>2. IdentityReach /\ HhdmReach
  <2>1. CASE phase = "reserved"
    <3>1. OwnersInv /\ MapInv
      BY <2>1, SMTT(60) DEF BootIInv, Done, Num
    <3> QED  BY <3>1, IdentityOk, HhdmOk
  <2>2. CASE phase # "reserved"
    BY <2>2 DEF IdentityReach, HhdmReach
  <2> QED  BY <2>1, <2>2
<1>3. Handover /\ NoFrameTwice /\ NeverReserved
  <2>1. CASE phase = "run"
    BY <2>1 DEF BootIInv, PoolsInv, FrameIInv, FrameTypeOK, NothingReturns, Handover, Seeded
  <2>2. CASE phase # "run"
    <3>1. given = << >> /\ DOMAIN given = {}
      BY <2>2, SMTT(60) DEF BootIInv, PoolsInv
    <3> QED  BY <2>2, <3>1 DEF Handover, NoFrameTwice, NeverReserved
  <2> QED  BY <2>1, <2>2
<1> QED  BY <1>1, <1>2, <1>3

\* The invariant holds throughout the boot and while the kernel runs.
LEMMA BootInvariant == BootSpec => []BootIInv
<1>1. BootInit => BootIInv
  BY BootStarts
<1>2. BootIInv /\ [BootNext]_bvars => BootIInv'
  BY BootStep
<1> QED  BY <1>1, <1>2, PTL DEF BootSpec

\* Whatever the firmware's placement and its map, the pools with which the kernel
\* starts share no byte and have their types: the loader and mem::init establish
\* what the frame allocators assume (main.rs 587-752, mem/mod.rs init).
THEOREM PoolsHandedOverApart == BootSpec => []Handover
<1>1. BootIInv => Handover
  BY BootSafe
<1> QED  BY <1>1, BootInvariant, PTL

\* The image, the boot stack and the firmware's pages are never handed out,
\* whatever became of the table of reserved ranges (reserved.rs 46).
THEOREM LoaderPagesSafe == BootSpec => []LoaderPagesKept
<1>1. BootIInv => LoaderPagesKept
  BY BootSafe
<1> QED  BY <1>1, BootInvariant, PTL

\* The pages that smp.rs overwrites are never handed out while the table of
\* reserved ranges has room for the range below the low pool.
THEOREM TrampolineSafe == BootSpec => []TrampolineKept
<1>1. BootIInv => TrampolineKept
  BY BootSafe
<1> QED  BY <1>1, BootInvariant, PTL

\* At the hand-over everything the kernel is given by address is mapped at that
\* address, outside its own window (build_pagetables_exec).
THEOREM IdentityMapReaches == BootSpec => []IdentityReach
<1>1. BootIInv => IdentityReach
  BY BootSafe
<1> QED  BY <1>1, BootInvariant, PTL

\* At the hand-over all of the RAM that the kernel will hand out is behind the
\* direct map (map_hhdm_huge).
THEOREM DirectMapReaches == BootSpec => []HhdmReach
<1>1. BootIInv => HhdmReach
  BY BootSafe
<1> QED  BY <1>1, BootInvariant, PTL

\* From the first page the loader allocates to the last frame of the running
\* kernel, no frame is handed out twice and none is reserved.
THEOREM BootFramesSafe == BootSpec => [](NoFrameTwice /\ NeverReserved)
<1>1. BootIInv => NoFrameTwice /\ NeverReserved
  BY BootSafe
<1> QED  BY <1>1, BootInvariant, PTL
=============================================================================
